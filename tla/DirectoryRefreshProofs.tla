------------------------ MODULE DirectoryRefreshProofs ------------------------
(***************************************************************************)
(* Theorems about the watcher and the file managers, for every number of   *)
(* repositories, directories, panels, moves and changes.                   *)
(***************************************************************************)
EXTENDS DirectoryRefresh, TLAPS

(***************************************************************************)
(* The entry of a repository is in one of four stages: not watched, being  *)
(* walked, being installed, watched.  A walk has found the top directory,  *)
(* so that what it queues is never nothing: a registration is not lost     *)
(* between its stages.                                                     *)
(***************************************************************************)
DirsOf(r) == {r} \X ({Top, Git} \cup Subs)

Entry(r) ==
  [count : {0, 1}, paths : SUBSET DirsOf(r), walk : {None, Running, Over},
   found : SUBSET DirsOf(r), queue : SUBSET DirsOf(r), installed : SUBSET DirsOf(r)]

EntryInv(e, r) ==
  /\ e \in Entry(r)
  /\ e.count = 1 => e.walk = None /\ e.queue = {}
  /\ e.walk # None => e.queue = {}
  /\ e.queue = {} => e.installed = {}
  /\ e.walk = Over => <<r, Top>> \in e.found

Watching(e) == e.count > 0 \/ e.walk # None \/ e.queue # {}

(* NotWatched, and each operation on an entry, is an entry of the same      *)
(* repository in one stage.                                                 *)
LEMMA NotWatchedEntry ==
  ASSUME NEW r \in Repos
  PROVE  EntryInv(NotWatched, r)
BY DEF EntryInv, Entry, NotWatched, None, Over, Running

LEMMA WatchEntry ==
  ASSUME NEW r \in Repos, NEW e, EntryInv(e, r), ~Watching(e)
  PROVE  EntryInv(Watch(e), r) /\ Watching(Watch(e))
<1>1. e.count = 0 /\ e.walk = None /\ e.queue = {}
  BY DEF Watching, EntryInv, Entry
<1>2. Watch(e) = [e EXCEPT !.walk = Running]
  BY <1>1 DEF Watch
<1>3. [e EXCEPT !.walk = Running] \in Entry(r)
  BY DEF EntryInv, Entry
<1>4. QED
  BY <1>1, <1>2, <1>3 DEF EntryInv, Entry, Watching, Running, None, Over

LEMMA UnwatchEntry ==
  ASSUME NEW r \in Repos, NEW e, EntryInv(e, r)
  PROVE  Unwatch(e) = NotWatched /\ Released(e) \subseteq DirsOf(r)
<1>1. e.count \in {0, 1} /\ e.paths \subseteq DirsOf(r)
  BY DEF EntryInv, Entry
<1>2. QED
  BY <1>1 DEF Unwatch, Released

LEMMA WatchedAnew ==
  ASSUME NEW r \in Repos, NEW e, EntryInv(e, r)
  PROVE  /\ Watch(Unwatch(e)) = [NotWatched EXCEPT !.walk = Running]
         /\ EntryInv(Watch(Unwatch(e)), r)
         /\ Watching(Watch(Unwatch(e)))
<1>1. Unwatch(e) = NotWatched
  BY UnwatchEntry
<1>2. ~Watching(NotWatched)
  BY DEF Watching, NotWatched
<1>3. Watch(NotWatched) = [NotWatched EXCEPT !.walk = Running]
  BY DEF Watch, NotWatched
<1>4. QED
  BY <1>1, <1>2, <1>3, NotWatchedEntry, WatchEntry

LEMMA LandedEntry ==
  ASSUME NEW r \in Repos, NEW e, EntryInv(e, r)
  PROVE  /\ EntryInv(Landed(e), r)
         /\ Landed(e).walk # Over
         /\ Watching(e) => Watching(Landed(e))
         /\ Landed(e).count = e.count /\ Landed(e).paths = e.paths
         /\ Landed(e).installed = e.installed
         /\ Landed(e).queue = IF e.walk = Over THEN e.found ELSE e.queue
<1>1. CASE e.walk # Over
  BY <1>1 DEF Landed
<1>2. CASE e.walk = Over
  <2> DEFINE l == [e EXCEPT !.walk = None, !.found = {}, !.queue = e.found]
  <2>1. Landed(e) = l
    BY <1>2 DEF Landed
  <2>2. l \in Entry(r)
    BY DEF EntryInv, Entry
  <2>3. /\ l.walk = None /\ l.queue = e.found /\ l.count = e.count /\ l.paths = e.paths
        /\ l.installed = e.installed
    BY DEF EntryInv, Entry
  <2>4. <<r, Top>> \in e.found /\ e.count # 1
    BY <1>2 DEF EntryInv, None, Over
  <2> HIDE DEF l
  <2>5. None # Over
    BY DEF None, Over
  <2>6. QED
    BY <1>2, <2>1, <2>2, <2>3, <2>4, <2>5 DEF EntryInv, Watching
<1>3. QED
  BY <1>1, <1>2

LEMMA InstalledEntry ==
  ASSUME NEW r \in Repos, NEW e, EntryInv(e, r), NEW taken
  PROVE  /\ EntryInv(Installed(e, taken), r)
         /\ Watching(e) => Watching(Installed(e, taken))
<1> DEFINE done == e.installed \cup (taken \cap e.queue \cap exists)
<1>1. done \subseteq DirsOf(r) /\ e.queue \ taken \subseteq DirsOf(r)
  BY DEF EntryInv, Entry
<1>2. CASE e.queue = {}
  BY <1>2 DEF Installed
<1>3. CASE e.queue # {} /\ e.queue \subseteq taken
  <2> DEFINE i == [NotWatched EXCEPT !.count = 1, !.paths = done]
  <2>1. Installed(e, taken) = i
    BY <1>3 DEF Installed
  <2>2. i \in Entry(r) /\ i.count = 1 /\ i.walk = None /\ i.queue = {} /\ i.installed = {}
    BY <1>1 DEF Entry, NotWatched
  <2> HIDE DEF i
  <2>3. None # Over
    BY DEF None, Over
  <2>4. QED
    BY <2>1, <2>2, <2>3 DEF EntryInv, Watching
<1>4. CASE e.queue # {} /\ ~(e.queue \subseteq taken)
  <2> DEFINE i == [e EXCEPT !.queue = e.queue \ taken, !.installed = done]
  <2>1. Installed(e, taken) = i
    BY <1>4 DEF Installed
  <2>2. i \in Entry(r) /\ i.count = e.count /\ i.walk = e.walk /\ i.queue = e.queue \ taken
        /\ i.found = e.found
    BY <1>1 DEF EntryInv, Entry
  <2>3. e.walk = None /\ e.count # 1 /\ i.queue # {}
    BY <1>4, <2>2 DEF EntryInv
  <2> HIDE DEF i
  <2>4. None # Over
    BY DEF None, Over
  <2>5. QED
    BY <2>1, <2>2, <2>3, <2>4 DEF EntryInv, Watching
<1>5. QED
  BY <1>2, <1>3, <1>4

LEMMA ExtendedEntry ==
  ASSUME NEW r \in Repos, NEW e, EntryInv(e, r), NEW fresh \in SUBSET DirsOf(r)
  PROVE  /\ EntryInv([e EXCEPT !.paths = @ \cup fresh], r)
         /\ Watching(e) => Watching([e EXCEPT !.paths = @ \cup fresh])
<1> DEFINE x == [e EXCEPT !.paths = @ \cup fresh]
<1>1. x \in Entry(r) /\ x.count = e.count /\ x.walk = e.walk /\ x.queue = e.queue /\ x.found = e.found
      /\ x.installed = e.installed
  BY DEF EntryInv, Entry
<1> HIDE DEF x
<1>2. EntryInv(x, r) /\ (Watching(e) => Watching(x))
  BY <1>1 DEF EntryInv, Watching
<1>3. QED
  BY <1>2 DEF x

LEMMA WalkedEntry ==
  ASSUME NEW r \in Repos, NEW e, EntryInv(e, r), e.walk = Running,
         NEW dirs \in SUBSET DirsOf(r), <<r, Top>> \in dirs
  PROVE  /\ EntryInv([e EXCEPT !.walk = Over, !.found = dirs], r)
         /\ Watching([e EXCEPT !.walk = Over, !.found = dirs])
<1> DEFINE x == [e EXCEPT !.walk = Over, !.found = dirs]
<1>1. x \in Entry(r) /\ x.count = e.count /\ x.walk = Over /\ x.queue = e.queue /\ x.found = dirs
      /\ x.installed = e.installed
  BY DEF EntryInv, Entry
<1>2. e.queue = {} /\ e.count # 1
  BY DEF EntryInv, Running, None
<1> HIDE DEF x
<1>3. EntryInv(x, r) /\ Watching(x)
  BY <1>1, <1>2 DEF EntryInv, Watching, None, Over
<1>4. QED
  BY <1>3 DEF x

-----------------------------------------------------------------------------
(***************************************************************************)
(* Type correctness: the listings, the places and their roots, and what    *)
(* the watcher keeps.                                                      *)
(***************************************************************************)
ListInv == listing \in [Panels -> ListingType(Dirs)]

PlaceInv ==
  /\ place \in [Panels -> Places \cup {Closed}]
  /\ DOMAIN git_root = Panels
  /\ \A p \in Panels : git_root[p] \in {None, RootOf(place[p])}

FsInv ==
  /\ exists \subseteq Dirs /\ kernel \subseteq exists
  /\ \A d \in Places : <<d, Top>> \in exists
  /\ \A r \in Repos : <<r, Top>> \notin ignored

RepoInv == DOMAIN repo = Repos /\ \A r \in Repos : EntryInv(repo[r], r)

TypeInv == ListInv /\ PlaceInv /\ FsInv /\ RepoInv

LEMMA TypeInvIsTypeOK == TypeInv => TypeOK
<1> SUFFICES ASSUME TypeInv PROVE TypeOK
  OBVIOUS
<1>1. \A p \in Panels : listing[p] \in ListingType(Dirs) /\ place[p] \in Places \cup {Closed}
                        /\ git_root[p] \in {None, RootOf(place[p])}
  BY DEF TypeInv, ListInv, PlaceInv
<1>2. ASSUME NEW r \in Repos
      PROVE  repo[r].paths \cup repo[r].queue \subseteq Dirs /\ repo[r].count <= 1
  <2>1. /\ repo[r].paths \subseteq DirsOf(r) /\ repo[r].queue \subseteq DirsOf(r)
        /\ repo[r].count \in {0, 1}
    BY DEF TypeInv, RepoInv, EntryInv, Entry
  <2>2. DirsOf(r) \subseteq Dirs
    BY DEF DirsOf, Dirs
  <2>3. QED
    BY <2>1, <2>2
<1>3. QED
  BY <1>1, <1>2 DEF TypeOK, TypeInv, FsInv

(* The directories of a repository are its own. *)
LEMMA InRepoIsOwn ==
  ASSUME NEW r \in Repos, exists \subseteq Dirs
  PROVE  InRepo(r) \subseteq DirsOf(r) /\ InRepo(r) \subseteq exists
<1>1. ASSUME NEW d \in exists, d[1] = r PROVE d \in DirsOf(r)
  <2>1. d \in Dirs
    OBVIOUS
  <2>2. d \notin Plain \X {Top}
    BY <1>1, WatcherAssumption
  <2>3. QED
    BY <1>1, <2>1, <2>2 DEF Dirs, DirsOf
<1>2. QED
  BY <1>1 DEF InRepo

LEMMA OwnAreApart ==
  ASSUME NEW r \in Repos, NEW q \in Repos, q # r
  PROVE  DirsOf(r) \cap DirsOf(q) = {}
BY DEF DirsOf

LEMMA FreshIsOwn ==
  ASSUME NEW r \in Repos, exists \subseteq Dirs
  PROVE  Fresh(r) \subseteq DirsOf(r) /\ Fresh(r) \subseteq InRepo(r)
BY InRepoIsOwn DEF Fresh

(* Every operation on a listing gives a listing. *)
LEMMA StatusOps ==
  ASSUME NEW entries, NEW l \in ListingType(entries)
  PROVE  /\ RefreshGitStatus(l) \in ListingType(entries)
         /\ CheckGitStatusAsync(l) \in ListingType(entries)
         /\ \A found \in SUBSET entries : ReadStatus(l, found) \in ListingType(entries)
<1>1. RefreshGitStatus(l) \in ListingType(entries)
  BY DEF RefreshGitStatus, ListingType
<1>2. CheckGitStatusAsync(l) \in ListingType(entries)
  BY DEF CheckGitStatusAsync, ListingType
<1>3. ASSUME NEW found \in SUBSET entries PROVE ReadStatus(l, found) \in ListingType(entries)
  BY DEF ReadStatus, ListingType
<1>4. QED
  BY <1>1, <1>2, <1>3

LEMMA ReloadOps ==
  ASSUME NEW entries, NEW l \in ListingType(entries)
  PROVE  /\ LoadDirectory(l) \in ListingType(entries)
         /\ ReloadDirectory(l) \in ListingType(entries)
         /\ StartAsyncReload(l) \in ListingType(entries)
         /\ CheckAsyncReload(l) \in ListingType(entries)
<1>1. LoadDirectory(l) \in ListingType(entries)
  <2> DEFINE m == [l EXCEPT !.recent = TRUE]
             n == [m EXCEPT !.shown = "loading", !.reload = "asked", !.cache = {}]
  <2>1. m \in ListingType(entries)
    BY DEF ListingType
  <2>2. n \in ListingType(entries)
    BY <2>1 DEF ListingType
  <2>3. LoadDirectory(l) = RefreshGitStatus(n)
    BY DEF LoadDirectory, LoadDirectoryInner
  <2> HIDE DEF n
  <2>4. QED
    BY <2>2, <2>3, StatusOps
<1>2. ReloadDirectory(l) \in ListingType(entries)
  BY <1>1 DEF ReloadDirectory
<1>3. StartAsyncReload(l) \in ListingType(entries)
  BY DEF StartAsyncReload, ListingType
<1>4. CheckAsyncReload(l) \in ListingType(entries)
  <2> DEFINE shown == IF l.reload = "read" THEN "fresh" ELSE "old"
             m == [l EXCEPT !.reload = "none", !.shown = shown]
  <2>1. shown \in {"loading", "fresh", "old"}
    OBVIOUS
  <2> HIDE DEF shown
  <2>2. m \in ListingType(entries)
    BY <2>1 DEF ListingType
  <2>3. CheckAsyncReload(l) \in {StartAsyncReload(l), l, m}
    BY DEF CheckAsyncReload, shown
  <2> HIDE DEF m
  <2>4. QED
    BY <1>3, <2>2, <2>3
<1>5. QED
  BY <1>1, <1>2, <1>3, <1>4

LEMMA ListingOps ==
  ASSUME NEW entries, NEW l \in ListingType(entries)
  PROVE  /\ MarkStale(l) \in ListingType(entries)
         /\ RefreshIfStale(l) \in ListingType(entries)
         /\ Update(l) \in ListingType(entries)
         /\ ReadDir(l) \in ListingType(entries)
         /\ Outdate(l) \in ListingType(entries)
         /\ Settle(l) \in ListingType(entries)
<1>1. [l EXCEPT !.stale = FALSE] \in ListingType(entries)
  BY DEF ListingType
<1>2. RefreshGitStatus(ReloadDirectory([l EXCEPT !.stale = FALSE])) \in ListingType(entries)
  BY <1>1, StatusOps, ReloadOps
<1>3. RefreshIfStale(l) \in ListingType(entries)
  BY <1>2 DEF RefreshIfStale
<1>4. Update(l) \in ListingType(entries)
  BY StatusOps, ReloadOps DEF Update
<1>5. MarkStale(l) \in ListingType(entries)
  BY DEF MarkStale, ListingType
<1>6. ReadDir(l) \in ListingType(entries) /\ Settle(l) \in ListingType(entries)
  BY DEF ReadDir, Settle, ListingType
<1>7. Outdate(l) \in ListingType(entries)
  BY DEF Outdate, ListingType
<1>8. QED
  BY <1>3, <1>4, <1>5, <1>6, <1>7

LEMMA UnloadedListing == \A entries : Unloaded \in ListingType(entries)
BY DEF Unloaded, ListingType

LEMMA ListStep ==
  ASSUME TypeInv, [Next]_vars
  PROVE  ListInv'
<1>0. \A p \in Panels : listing[p] \in ListingType(Dirs)
  BY DEF TypeInv, ListInv
<1>1. ASSUME NEW p \in Panels, NEW d \in Places, Navigate(p, d) \/ Enter(p, d) PROVE ListInv'
  BY <1>0, <1>1, ReloadOps DEF Navigate, Enter, Show, Relist, ListInv
<1>2. ASSUME NEW p \in Panels, Close(p) PROVE ListInv'
  BY <1>2, UnloadedListing DEF Close, TypeInv, ListInv
<1>3. ASSUME NEW p \in Panels, Resize(p) PROVE ListInv'
  BY <1>3 DEF Resize, TypeInv, ListInv
<1>4. ASSUME NEW p \in Panels, Refresh(p) PROVE ListInv'
  BY <1>0, <1>4, ReloadOps DEF Refresh, Relist, ListInv
<1>5. CASE TickPanels
  <2>1. \A p \in Panels : /\ CheckGitStatusAsync(listing[p]) \in ListingType(Dirs)
                          /\ RefreshIfStale(CheckGitStatusAsync(listing[p])) \in ListingType(Dirs)
    BY <1>0, StatusOps, ListingOps
  <2>2. QED
    BY <1>0, <1>5, <2>1 DEF TickPanels, ListInv
<1>6. CASE Register \/ InstallWatches
  BY <1>6 DEF Register, InstallWatches, TypeInv, ListInv
<1>7. CASE PollWatcherEvents
  <2>1. ASSUME NEW p \in Panels
        PROVE  /\ MarkStale(listing[p]) \in ListingType(Dirs)
               /\ Update(listing[p]) \in ListingType(Dirs)
               /\ StartAsyncReload(listing[p]) \in ListingType(Dirs)
               /\ Update(Update(listing[p])) \in ListingType(Dirs)
               /\ StartAsyncReload(Update(listing[p])) \in ListingType(Dirs)
    BY <1>0, ReloadOps, ListingOps
  <2>2. QED
    BY <1>0, <1>7, <2>1 DEF PollWatcherEvents, ListInv
<1>8. CASE Background
  <2>1. \A p \in Panels : CheckAsyncReload(CheckGitStatusAsync(listing[p])) \in ListingType(Dirs)
    BY <1>0, StatusOps, ReloadOps
  <2>2. QED
    BY <1>0, <1>8, <2>1 DEF Background, Relist, ListInv
<1>9. ASSUME NEW p \in Follows, ReadDirectory(p) \/ Settles(p) PROVE ListInv'
  BY <1>0, <1>9, ListingOps DEF ReadDirectory, Settles, Relist, ListInv
<1>10. ASSUME NEW p \in Follows, AskGit(p) PROVE ListInv'
  <2>1. PICK found \in SUBSET (InRepo(place[p]) \cap ignored) :
          listing' = [x \in Panels |-> IF x \in {p} \cap Follows THEN ReadStatus(listing[x], found)
                                      ELSE listing[x]]
    BY <1>10 DEF AskGit, Relist
  <2>2. found \in SUBSET Dirs
    BY <2>1 DEF InRepo, TypeInv, FsInv
  <2>3. \A x \in Panels : ReadStatus(listing[x], found) \in ListingType(Dirs)
    BY <1>0, <2>2, StatusOps
  <2>4. QED
    BY <1>0, <2>1, <2>3 DEF ListInv
<1>11. ASSUME NEW r \in Repos, Walk(r) \/ Debounced(r) \/ RulesDebounced(r) PROVE ListInv'
  BY <1>11 DEF Walk, Debounced, RulesDebounced, TypeInv, ListInv
<1>12. CASE Others
  <2>1. ASSUME NEW d, ChangesIn(d) PROVE ListInv'
    BY <1>0, <2>1, ListingOps DEF ChangesIn, Relist, ListInv
  <2>2. CASE UNCHANGED listing
    BY <2>2 DEF TypeInv, ListInv
  <2>3. QED
    BY <1>12, <2>1, <2>2 DEF Others
<1>13. CASE UNCHANGED vars
  BY <1>13 DEF vars, TypeInv, ListInv
<1>14. QED
  BY <1>1, <1>2, <1>3, <1>4, <1>5, <1>6, <1>7, <1>8, <1>9, <1>10, <1>11, <1>12, <1>13
     DEF Next, User, MainLoop, ThreadsAndTime

LEMMA PlaceStep ==
  ASSUME PlaceInv, [Next]_vars
  PROVE  PlaceInv'
<1>1. ASSUME NEW p \in Panels, NEW d \in Places, Navigate(p, d) \/ Enter(p, d) PROVE PlaceInv'
  BY <1>1 DEF Navigate, Enter, Show, PlaceInv
<1>2. ASSUME NEW p \in Panels, Close(p) PROVE PlaceInv'
  BY <1>2 DEF Close, PlaceInv
<1>3. CASE Register
  BY <1>3 DEF Register, Turn, PlaceInv
<1>4. CASE UNCHANGED <<place, git_root>>
  BY <1>4 DEF PlaceInv
<1>5. ASSUME NEW p \in Panels, Resize(p) \/ Refresh(p) PROVE UNCHANGED <<place, git_root>>
  BY <1>5 DEF Resize, Refresh
<1>6. ASSUME TickPanels \/ InstallWatches \/ PollWatcherEvents \/ Background
      PROVE  UNCHANGED <<place, git_root>>
  BY <1>6 DEF TickPanels, InstallWatches, PollWatcherEvents, Background, Turn
<1>7. ASSUME ThreadsAndTime PROVE UNCHANGED <<place, git_root>>
  BY <1>7 DEF ThreadsAndTime, Walk, Debounced, RulesDebounced, ReadDirectory, AskGit, Settles, panelVars
<1>8. ASSUME Others PROVE UNCHANGED <<place, git_root>>
  BY <1>8 DEF Others, MayChange, panelVars
<1>9. ASSUME UNCHANGED vars PROVE UNCHANGED <<place, git_root>>
  BY <1>9 DEF vars, panelVars
<1>10. QED
  BY <1>1, <1>2, <1>3, <1>4, <1>5, <1>6, <1>7, <1>8, <1>9 DEF Next, User, MainLoop

(* Steps that change nothing the watcher keeps of directories.             *)
Quiet == UNCHANGED <<exists, ignored, kernel, repo, watched_dirs>>

LEMMA QuietSteps ==
  /\ \A p \in Panels, d \in Places : Navigate(p, d) \/ Enter(p, d) => Quiet
  /\ \A p \in Panels : Resize(p) \/ Refresh(p) => Quiet
  /\ TickPanels \/ Background => Quiet
  /\ \A r \in Repos : Debounced(r) \/ RulesDebounced(r) => Quiet
  /\ \A p \in Follows : ReadDirectory(p) \/ AskGit(p) \/ Settles(p) => Quiet
  /\ UNCHANGED vars => Quiet
<1>1. ASSUME NEW p \in Panels, NEW d \in Places, Navigate(p, d) \/ Enter(p, d) PROVE Quiet
  BY <1>1 DEF Navigate, Enter, Show, MayMove, fsVars, watcherVars, Quiet
<1>2. ASSUME NEW p \in Panels, Resize(p) \/ Refresh(p) PROVE Quiet
  BY <1>2 DEF Resize, Refresh, MayMove, fsVars, watcherVars, Quiet
<1>3. ASSUME TickPanels \/ Background PROVE Quiet
  BY <1>3 DEF TickPanels, Background, fsVars, watcherVars, Quiet
<1>4. ASSUME NEW r \in Repos, Debounced(r) \/ RulesDebounced(r) PROVE Quiet
  BY <1>4 DEF Debounced, RulesDebounced, GitElapses, GitignoreElapses, fsVars, Quiet
<1>5. ASSUME NEW p \in Follows, ReadDirectory(p) \/ AskGit(p) \/ Settles(p) PROVE Quiet
  BY <1>5 DEF ReadDirectory, AskGit, Settles, fsVars, watcherVars, Quiet
<1>6. ASSUME UNCHANGED vars PROVE Quiet
  BY <1>6 DEF vars, fsVars, watcherVars, Quiet
<1>7. QED
  BY <1>1, <1>2, <1>3, <1>4, <1>5, <1>6

LEMMA FsStep ==
  ASSUME TypeInv, [Next]_vars
  PROVE  FsInv'
<1> USE DEF FsInv
<1>0. FsInv /\ \A r \in Repos : InRepo(r) \subseteq exists
  BY InRepoIsOwn DEF TypeInv
<1>1. CASE Quiet
  BY <1>0, <1>1 DEF Quiet
<1>2. ASSUME NEW p \in Panels, Close(p) PROVE FsInv'
  BY <1>0, <1>2 DEF Close, MayMove, fsVars
<1>3. CASE Register
  <2>1. UNCHANGED <<exists, ignored>> /\ kernel' \subseteq kernel \cup {<<q, Top>> : q \in Plain}
    BY <1>3 DEF Register, fsVars
  <2>2. {<<q, Top>> : q \in Plain} \subseteq exists
    BY <1>0 DEF Places
  <2>3. QED
    BY <1>0, <2>1, <2>2
<1>4. CASE InstallWatches
  <2>1. UNCHANGED <<exists, ignored>> /\ kernel' \subseteq kernel \cup exists
    BY <1>4 DEF InstallWatches, PollPending, fsVars
  <2>2. QED
    BY <1>0, <2>1
<1>5. CASE PollWatcherEvents
  <2>1. UNCHANGED <<exists, ignored>> /\ kernel' \subseteq kernel \cup UNION {Fresh(r) : r \in Repos}
    BY <1>5 DEF PollWatcherEvents, PollEvents, fsVars
  <2>2. \A r \in Repos : Fresh(r) \subseteq exists
    BY <1>0, FreshIsOwn
  <2>3. QED
    BY <1>0, <2>1, <2>2
<1>6. ASSUME NEW r \in Repos, Walk(r) PROVE FsInv'
  BY <1>0, <1>6 DEF Walk, WalkEnds, fsVars
<1>7. ASSUME NEW d \in Places, NEW s \in {Top} \cup Subs, Change(<<d, Top>>, <<d, s>>) PROVE FsInv'
  BY <1>0, <1>7 DEF Change, fsVars
<1>8. ASSUME NEW r \in Repos, NEW s \in Subs, MakeDir(r, s) PROVE FsInv'
  BY <1>0, <1>8 DEF MakeDir, Dirs
<1>9. ASSUME NEW r \in Repos, NEW s \in Subs, EditRules(r, s) PROVE FsInv'
  <2>1. UNCHANGED <<exists, kernel>> /\ ignored' \subseteq ignored \cup {<<r, s>>}
    BY <1>9 DEF EditRules
  <2>2. s # Top
    BY WatcherAssumption
  <2>3. QED
    BY <1>0, <2>1, <2>2
<1>10. ASSUME NEW r \in Repos, NEW s \in Subs, RemoveDir(r, s) PROVE FsInv'
  <2>1. s # Top
    BY WatcherAssumption
  <2>2. QED
    BY <1>0, <1>10, <2>1 DEF RemoveDir
<1>11. ASSUME NEW r \in Repos, Commit(r) PROVE FsInv'
  BY <1>0, <1>11 DEF Commit, fsVars
<1>12. QED
  BY <1>1, <1>2, <1>3, <1>4, <1>5, <1>6, <1>7, <1>8, <1>9, <1>10, <1>11, QuietSteps
     DEF Next, User, MainLoop, ThreadsAndTime, Others

(* What the steps that touch an entry leave: the entry stays in one stage,  *)
(* and a repository that is watched, or about to be, stays so, unless a     *)
(* panel of it is closed.                                                   *)
LEMMA CloseEntries ==
  ASSUME TypeInv, NEW p \in Panels, Close(p)
  PROVE  /\ RepoInv'
         /\ \A r \in Repos : repo'[r] = IF r = git_root[p] /\ r # None THEN NotWatched ELSE repo[r]
         /\ git_root[p] \in Repos \cup {None}
<1>1. git_root[p] \in Repos \cup {None}
  BY DEF TypeInv, PlaceInv, RootOf
<1>2. CASE git_root[p] = None
  <2>1. repo' = repo
    BY <1>2 DEF Close
  <2>2. QED
    BY <1>1, <1>2, <2>1 DEF TypeInv, RepoInv
<1>3. CASE git_root[p] # None
  <2>1. repo' = [repo EXCEPT ![git_root[p]] = Unwatch(@)]
    BY <1>3 DEF Close
  <2>2. \A r \in Repos : EntryInv(repo[r], r)
    BY DEF TypeInv, RepoInv
  <2>3. git_root[p] \in Repos /\ DOMAIN repo = Repos
    BY <1>1, <1>3 DEF TypeInv, RepoInv
  <2>4. Unwatch(repo[git_root[p]]) = NotWatched /\ EntryInv(NotWatched, git_root[p])
    BY <2>2, <2>3, UnwatchEntry, NotWatchedEntry
  <2>5. /\ DOMAIN repo' = Repos
        /\ \A r \in Repos : repo'[r] = IF r = git_root[p] THEN NotWatched ELSE repo[r]
    BY <2>1, <2>3, <2>4
  <2>6. \A r \in Repos : EntryInv(repo'[r], r)
    BY <2>2, <2>4, <2>5
  <2>7. RepoInv'
    BY <2>5, <2>6 DEF RepoInv
  <2>8. QED
    BY <1>1, <1>3, <2>5, <2>7
<1>4. QED
  BY <1>2, <1>3

LEMMA RegisterEntries ==
  ASSUME TypeInv, Register
  PROVE  /\ RepoInv'
         /\ \A r \in Repos : \/ repo'[r] = repo[r]
                             \/ ~Watching(repo[r]) /\ repo'[r] = Watch(repo[r])
         /\ \A r \in Repos : Watching(repo[r]) => Watching(repo'[r])
         /\ \A r \in Repos : needs_watcher_registration /\ (\E p \in Open : place[p] = r)
                               => Watching(repo'[r])
<1>1. CASE ~needs_watcher_registration
  <2>1. repo' = repo
    BY <1>1 DEF Register
  <2>2. QED
    BY <1>1, <2>1 DEF TypeInv, RepoInv
<1>2. CASE needs_watcher_registration
  <2> DEFINE shown == {place[p] : p \in Open}
  <2>1. repo' = [r \in Repos |-> IF r \in shown /\ ~IsWatchingRepo(r) THEN Watch(repo[r]) ELSE repo[r]]
    BY <1>2 DEF Register
  <2> HIDE DEF shown
  <2>2. \A r \in Repos : EntryInv(repo[r], r)
    BY DEF TypeInv, RepoInv
  <2>3. ASSUME NEW r \in Repos
        PROVE  /\ EntryInv(repo'[r], r)
               /\ \/ repo'[r] = repo[r]
                  \/ ~Watching(repo[r]) /\ repo'[r] = Watch(repo[r])
               /\ Watching(repo[r]) => Watching(repo'[r])
               /\ r \in shown => Watching(repo'[r])
    <3>1. CASE r \in shown /\ ~Watching(repo[r])
      <4>1. repo'[r] = Watch(repo[r])
        BY <2>1, <3>1 DEF IsWatchingRepo, Watching
      <4>2. EntryInv(Watch(repo[r]), r) /\ Watching(Watch(repo[r]))
        BY <2>2, <3>1, WatchEntry
      <4>3. QED
        BY <3>1, <4>1, <4>2
    <3>2. CASE ~(r \in shown /\ ~Watching(repo[r]))
      <4>1. repo'[r] = repo[r]
        BY <2>1, <3>2 DEF IsWatchingRepo, Watching
      <4>2. QED
        BY <2>2, <3>2, <4>1
    <3>3. QED
      BY <3>1, <3>2
  <2>4. DOMAIN repo' = Repos
    BY <2>1
  <2>5. RepoInv'
    BY <2>3, <2>4 DEF RepoInv
  <2>6. \A r \in Repos : (\E p \in Open : place[p] = r) => r \in shown
    BY DEF shown
  <2>7. QED
    BY <2>3, <2>5, <2>6
<1>3. QED
  BY <1>1, <1>2

LEMMA InstallEntries ==
  ASSUME TypeInv, PollPending
  PROVE  RepoInv' /\ \A r \in Repos : Watching(repo[r]) => Watching(repo'[r])
<1>1. PICK taken : repo' = [r \in Repos |-> Installed([x \in Repos |-> Landed(repo[x])][r], taken)]
  BY DEF PollPending
<1>2. ASSUME NEW r \in Repos
      PROVE  EntryInv(repo'[r], r) /\ (Watching(repo[r]) => Watching(repo'[r]))
  <2>1. EntryInv(repo[r], r)
    BY DEF TypeInv, RepoInv
  <2>2. EntryInv(Landed(repo[r]), r) /\ (Watching(repo[r]) => Watching(Landed(repo[r])))
    BY <2>1, LandedEntry
  <2>3. repo'[r] = Installed(Landed(repo[r]), taken)
    BY <1>1
  <2>4. QED
    BY <2>2, <2>3, InstalledEntry
<1>3. DOMAIN repo' = Repos
  BY <1>1
<1>4. QED
  BY <1>2, <1>3 DEF RepoInv

LEMMA EventEntries ==
  ASSUME TypeInv, PollEvents
  PROVE  RepoInv' /\ \A r \in Repos : Watching(repo[r]) => Watching(repo'[r])
<1> DEFINE x == [r \in Repos |-> [repo[r] EXCEPT !.paths = @ \cup Fresh(r)]]
<1>1. repo' = [r \in Repos |-> IF r \in GitignoreChanges THEN Watch(Unwatch(x[r])) ELSE x[r]]
  BY DEF PollEvents
<1>2. ASSUME NEW r \in Repos
      PROVE  EntryInv(x[r], r) /\ (Watching(repo[r]) => Watching(x[r]))
  <2>1. EntryInv(repo[r], r) /\ Fresh(r) \in SUBSET DirsOf(r)
    BY FreshIsOwn DEF TypeInv, RepoInv, FsInv
  <2>2. x[r] = [repo[r] EXCEPT !.paths = @ \cup Fresh(r)]
    OBVIOUS
  <2> HIDE DEF x
  <2>3. QED
    BY <2>1, <2>2, ExtendedEntry
<1> HIDE DEF x
<1>3. ASSUME NEW r \in Repos
      PROVE  EntryInv(repo'[r], r) /\ (Watching(repo[r]) => Watching(repo'[r]))
  <2>1. CASE r \in GitignoreChanges
    BY <1>1, <1>2, <2>1, WatchedAnew
  <2>2. CASE r \notin GitignoreChanges
    BY <1>1, <1>2, <2>2
  <2>3. QED
    BY <2>1, <2>2
<1>4. DOMAIN repo' = Repos
  BY <1>1
<1>5. QED
  BY <1>3, <1>4 DEF RepoInv

LEMMA WalkEntries ==
  ASSUME TypeInv, NEW r \in Repos, WalkEnds(r)
  PROVE  RepoInv' /\ \A q \in Repos : Watching(repo[q]) => Watching(repo'[q])
<1>1. EntryInv(repo[r], r) /\ DOMAIN repo = Repos
  BY DEF TypeInv, RepoInv
<1>2. Visible(r) \in SUBSET DirsOf(r) /\ <<r, Top>> \in Visible(r)
  <2>1. <<r, Top>> \in exists /\ <<r, Top>> \notin ignored
    BY DEF TypeInv, FsInv, Places
  <2>2. <<r, Top>> \in InRepo(r)
    BY <2>1 DEF InRepo
  <2>3. QED
    BY <2>1, <2>2, InRepoIsOwn DEF Visible, TypeInv, FsInv
<1> DEFINE x == [repo[r] EXCEPT !.walk = Over, !.found = Visible(r)]
<1>3. DOMAIN repo' = Repos /\ \A q \in Repos : repo'[q] = IF q = r THEN x ELSE repo[q]
  BY <1>1 DEF WalkEnds
<1>4. EntryInv(x, r) /\ Watching(x)
  BY <1>1, <1>2, WalkedEntry DEF WalkEnds
<1> HIDE DEF x
<1>5. QED
  BY <1>3, <1>4 DEF TypeInv, RepoInv

LEMMA OtherPrograms ==
  ASSUME Others
  PROVE  UNCHANGED <<repo, watched_dirs>>
BY DEF Others, Change, MakeDir, RemoveDir, EditRules, Commit

LEMMA RepoStep ==
  ASSUME TypeInv, [Next]_vars
  PROVE  RepoInv'
<1>1. CASE UNCHANGED repo
  BY <1>1 DEF TypeInv, RepoInv
<1>2. CASE Register
  BY <1>2, RegisterEntries
<1>3. CASE InstallWatches
  BY <1>3, InstallEntries DEF InstallWatches
<1>4. CASE PollWatcherEvents
  BY <1>4, EventEntries DEF PollWatcherEvents
<1>5. ASSUME NEW r \in Repos, Walk(r) PROVE RepoInv'
  BY <1>5, WalkEntries DEF Walk
<1>6. ASSUME NEW p \in Panels, Close(p) PROVE RepoInv'
  BY <1>6, CloseEntries
<1>7. Quiet => UNCHANGED repo
  BY DEF Quiet
<1>8. QED
  BY <1>1, <1>2, <1>3, <1>4, <1>5, <1>6, <1>7, QuietSteps, OtherPrograms
     DEF Next, User, MainLoop, ThreadsAndTime

LEMMA TypeInit == Init => TypeInv
<1> SUFFICES ASSUME Init PROVE TypeInv
  OBVIOUS
<1>1. ListInv
  BY UnloadedListing DEF Init, ListInv
<1>2. PlaceInv
  BY DEF Init, PlaceInv
<1>3. FsInv
  BY WatcherAssumption DEF Init, WatcherInit, FsInv, Dirs, Places
<1>4. RepoInv
  BY NotWatchedEntry DEF Init, WatcherInit, RepoInv
<1>5. QED
  BY <1>1, <1>2, <1>3, <1>4 DEF TypeInv

LEMMA TypeStep == TypeInv /\ [Next]_vars => TypeInv'
BY ListStep, PlaceStep, FsStep, RepoStep DEF TypeInv

LEMMA TypeInvHolds == Spec => []TypeInv
BY TypeInit, TypeStep, PTL DEF Spec

(* Listings, places and what the watcher keeps have their types, and a      *)
(* repository has at most one reference however many panels show it         *)
(* (register_panel_watchers asks is_watching_repo before it registers).     *)
THEOREM TypeOKHolds == Spec => []TypeOK
BY TypeInvHolds, TypeInvIsTypeOK, PTL

-----------------------------------------------------------------------------
(***************************************************************************)
(* No registration is lost.                                                *)
(***************************************************************************)
IsOn(d) == IF d \in Repos THEN Watching(repo[d]) ELSE watched_dirs[d] > 0

LEMMA IsOnIsWatched == \A d : IsOn(d) <=> IsWatched(d)
BY DEF IsOn, IsWatched, IsWatchingRepo, IsWatchingDir, Watching

(* Everything shown by the open panels stays watched in every step but the  *)
(* closing of a panel.                                                      *)
LEMMA StaysOn ==
  ASSUME TypeInv, [Next]_vars, \A p \in Panels : ~Close(p), NEW d \in Places, IsOn(d)
  PROVE  IsOn(d)'
<1>1. CASE UNCHANGED <<repo, watched_dirs>>
  BY <1>1 DEF IsOn
<1>2. CASE Register
  <2>1. d \in Plain => watched_dirs'[d] > 0 \/ d \in Repos
    BY <1>2 DEF Register, IsOn, IsWatchingDir
  <2>2. d \in Repos => Watching(repo'[d])
    BY <1>2, RegisterEntries DEF IsOn
  <2>3. QED
    BY <2>1, <2>2 DEF IsOn, Places
<1>3. CASE InstallWatches
  BY <1>3, InstallEntries DEF InstallWatches, PollPending, IsOn
<1>4. CASE PollWatcherEvents
  BY <1>4, EventEntries DEF PollWatcherEvents, PollEvents, IsOn
<1>5. ASSUME NEW r \in Repos, Walk(r) PROVE IsOn(d)'
  BY <1>5, WalkEntries DEF Walk, WalkEnds, IsOn
<1>6. Quiet => UNCHANGED <<repo, watched_dirs>>
  BY DEF Quiet
<1>7. QED
  BY <1>1, <1>2, <1>3, <1>4, <1>5, <1>6, QuietSteps, OtherPrograms
     DEF Next, User, MainLoop, ThreadsAndTime

Movers == <<place, needs_watcher_registration, strayed, deserted>>

LEMMA RegisteredStep ==
  ASSUME TypeInv, RegisteredIsWatched, [Next]_vars
  PROVE  RegisteredIsWatched'
<1> DEFINE Served(p) == p \in Open \ strayed => IsOn(place[p]) \/ place[p] \in deserted
<1>1. needs_watcher_registration \/ \A p \in Panels : Served(p)
  BY IsOnIsWatched DEF RegisteredIsWatched
<1>2. ASSUME needs_watcher_registration' \/ \A p \in Panels : Served(p)'
      PROVE  RegisteredIsWatched'
  <2>1. \A d : IsOn(d)' <=> IsWatched(d)'
    BY DEF IsOn, IsWatched, IsWatchingRepo, IsWatchingDir, Watching
  <2>2. \A p \in Open' : p \in Panels
    BY DEF Open
  <2>3. QED
    BY <1>2, <2>1, <2>2 DEF RegisteredIsWatched
<1>3. \A p \in Open : place[p] \in Places
  BY DEF Open, TypeInv, PlaceInv
<1>4. ASSUME UNCHANGED <<place, strayed, deserted>>,
             needs_watcher_registration => needs_watcher_registration',
             \A p \in Panels : ~Close(p)
      PROVE  RegisteredIsWatched'
  <2>1. ASSUME NEW p \in Panels, Served(p) PROVE Served(p)'
    <3>1. Open' = Open /\ place'[p] = place[p] /\ strayed' = strayed /\ deserted' = deserted
      BY <1>4 DEF Open
    <3>2. p \in Open => (IsOn(place[p]) => \A d : d = place[p] => IsOn(d)')
      BY <1>3, <1>4, StaysOn
    <3>3. (\A d : d = place[p] => IsOn(d)') => IsOn(place[p])'
      BY <3>1 DEF IsOn
    <3>4. QED
      BY <2>1, <3>1, <3>2, <3>3
  <2>2. QED
    BY <1>1, <1>2, <1>4, <2>1
<1>5. ASSUME NEW p \in Panels, NEW d \in Places, Navigate(p, d) PROVE RegisteredIsWatched'
  BY <1>2, <1>5 DEF Navigate
<1>6. ASSUME NEW p \in Panels, NEW d \in Places, Enter(p, d) PROVE RegisteredIsWatched'
  <2>1. /\ Quiet /\ strayed' = strayed \cup {p} /\ deserted' = deserted
        /\ needs_watcher_registration' = needs_watcher_registration
        /\ \A x \in Panels : x # p => place'[x] = place[x]
    BY <1>6, QuietSteps DEF Enter, Show, TypeInv, PlaceInv
  <2>2. ASSUME NEW x \in Panels, Served(x) PROVE Served(x)'
    BY <2>1, <2>2 DEF Open, Quiet, IsOn
  <2>3. QED
    BY <1>1, <1>2, <2>1, <2>2
<1>7. ASSUME NEW p \in Panels, Close(p) PROVE RegisteredIsWatched'
  <2>1. /\ strayed' = strayed \ {p} /\ watched_dirs' = watched_dirs
        /\ deserted' = IF git_root[p] = None THEN deserted ELSE deserted \cup {git_root[p]}
        /\ needs_watcher_registration' = needs_watcher_registration
        /\ \A x \in Panels : place'[x] = IF x = p THEN Closed ELSE place[x]
    BY <1>7 DEF Close, TypeInv, PlaceInv
  <2>2. \A r \in Repos : repo'[r] = IF r = git_root[p] /\ r # None THEN NotWatched ELSE repo[r]
    BY <1>7, CloseEntries
  <2>3. ASSUME NEW x \in Panels, Served(x) PROVE Served(x)'
    <3>1. CASE x = p
      BY <2>1, <3>1 DEF Open
    <3>2. CASE x # p
      <4>1. place'[x] = place[x] /\ (x \in Open' <=> x \in Open) /\ (x \in strayed' <=> x \in strayed)
        BY <2>1, <3>2 DEF Open
      <4>2. IsOn(place[x]) => IsOn(place[x])' \/ place[x] \in deserted'
        BY <2>1, <2>2, <4>1 DEF IsOn
      <4>3. QED
        BY <2>1, <2>3, <4>1, <4>2
    <3>3. QED
      BY <3>1, <3>2
  <2>4. QED
    BY <1>1, <1>2, <2>1, <2>3
<1>8. CASE Register
  <2>1. UNCHANGED place
    BY <1>8 DEF Register, Turn
  <2>2. CASE ~needs_watcher_registration
    <3>1. UNCHANGED <<strayed, deserted>>
      BY <1>8, <2>2 DEF Register
    <3>2. \A p \in Panels : ~Close(p)
      BY <1>8 DEF Register, Turn, Close, MayMove
    <3>3. QED
      BY <1>4, <2>1, <2>2, <3>1, <3>2
  <2>3. CASE needs_watcher_registration
    <3>1. \A r \in Repos : (\E p \in Open : place[p] = r) => Watching(repo'[r])
      BY <1>8, <2>3, RegisterEntries
    <3>2. \A q \in Plain : (\E p \in Open : place[p] = q) => watched_dirs'[q] > 0
      <4>1. ASSUME NEW q \in Plain, NEW p \in Open, place[p] = q PROVE watched_dirs'[q] > 0
        <5>1. q \in {place[x] : x \in Open}
          BY <4>1
        <5>2. watched_dirs'[q] = IF ~IsWatchingDir(q) THEN 1 ELSE watched_dirs[q]
          BY <1>8, <2>3, <5>1 DEF Register
        <5>3. QED
          BY <5>2 DEF IsWatchingDir
      <4>2. QED
        BY <4>1
    <3>3. ASSUME NEW p \in Panels PROVE Served(p)'
      <4>1. p \in Open' => p \in Open /\ place'[p] = place[p] /\ place[p] \in Places
        BY <1>3, <2>1 DEF Open
      <4>2. QED
        BY <3>1, <3>2, <4>1 DEF IsOn, Places
    <3>4. QED
      BY <1>2, <3>3
  <2>4. QED
    BY <2>2, <2>3
<1>9. ASSUME NEW p \in Panels, Resize(p) \/ Refresh(p) PROVE RegisteredIsWatched'
  <2>1. UNCHANGED Movers
    BY <1>9 DEF Resize, Refresh, Movers
  <2>2. ASSUME NEW x \in Panels, Close(x) PROVE RegisteredIsWatched'
    BY <1>7, <2>2
  <2>3. QED
    BY <1>4, <2>1, <2>2 DEF Movers
<1>10. ASSUME \/ TickPanels \/ InstallWatches \/ PollWatcherEvents \/ Background
              \/ ThreadsAndTime \/ Others \/ UNCHANGED vars
       PROVE  RegisteredIsWatched'
  <2>1. UNCHANGED Movers
    <3>1. ASSUME TickPanels \/ InstallWatches \/ PollWatcherEvents \/ Background
          PROVE  UNCHANGED Movers
      BY <3>1 DEF TickPanels, InstallWatches, PollWatcherEvents, Background, Turn, Movers
    <3>2. ASSUME ThreadsAndTime PROVE UNCHANGED Movers
      BY <3>2 DEF ThreadsAndTime, Walk, Debounced, RulesDebounced, ReadDirectory, AskGit, Settles, panelVars,
                  Movers
    <3>3. ASSUME Others PROVE UNCHANGED Movers
      BY <3>3 DEF Others, MayChange, panelVars, Movers
    <3>4. ASSUME UNCHANGED vars PROVE UNCHANGED Movers
      BY <3>4 DEF vars, panelVars, Movers
    <3>5. QED
      BY <1>10, <3>1, <3>2, <3>3, <3>4
  <2>2. ASSUME NEW x \in Panels, Close(x) PROVE RegisteredIsWatched'
    BY <1>7, <2>2
  <2>3. QED
    BY <1>4, <2>1, <2>2 DEF Movers
<1>11. QED
  BY <1>5, <1>6, <1>7, <1>8, <1>9, <1>10 DEF Next, User, MainLoop


(* What an open panel shows is watched, or about to be, once panels are     *)
(* registered, whatever order the walk of a repository, the installation    *)
(* of its watches, changes of its rules and the moves of the user come in,  *)
(* unless the panel walked there by itself or another panel of the          *)
(* repository was closed.                                                   *)
THEOREM RegisteredIsWatchedHolds == Spec => []RegisteredIsWatched
<1>1. Init => RegisteredIsWatched
  BY DEF Init, RegisteredIsWatched
<1>2. TypeInv /\ RegisteredIsWatched /\ [Next]_vars => RegisteredIsWatched'
  BY RegisteredStep
<1>3. QED
  BY <1>1, <1>2, TypeInvHolds, PTL DEF Spec

-----------------------------------------------------------------------------
(***************************************************************************)
(* The watches cover a registered repository, as long as directories and   *)
(* rules do not change between its walk and the installation of what the   *)
(* walk found.  The invariant follows the directories through the stages:  *)
(* a walk has found all that are visible, what is queued or watched covers *)
(* them, and once the repository is watched its top directory is, so that  *)
(* later changes are reported.  What is in the set of watched paths gets   *)
(* no watch again, hence "gone".                                           *)
(***************************************************************************)
Rules(r) == pending_gitignore[r] # None \/ GitignoreChange(r) \in internal_rx
Announced == {e.entry : e \in FsEvents}

WalkCovers(r) == repo[r].walk = Over => repo[r].found = Visible(r)
QueueCovers(r) ==
  repo[r].queue # {} => /\ Visible(r) \subseteq repo[r].queue \cup kernel
                        /\ repo[r].installed \subseteq kernel
TopWatched(r) ==
  repo[r].count = 1 => <<r, Top>> \in kernel /\ repo[r].paths \subseteq kernel \cup gone
Covered(r) ==
  repo[r].count = 1 /\ ~Rules(r) => Visible(r) \subseteq kernel \cup Announced \cup gone

CoverInv(r) == WalkCovers(r) /\ QueueCovers(r) /\ TopWatched(r) /\ Covered(r)

CoversInv == DOMAIN pending_gitignore = Repos /\ \A r \in Repos : CoverInv(r)

LEMMA CoversInvIsWatchCovers == TypeInv /\ CoversInv => WatchCovers
<1> SUFFICES ASSUME TypeInv, CoversInv, NEW r \in Repos, repo[r].count > 0, ~Rules(r)
             PROVE  Visible(r) \subseteq kernel \cup Announced \cup gone
  BY DEF WatchCovers, Rules, Announced
<1>1. repo[r].count \in {0, 1}
  BY DEF TypeInv, RepoInv, EntryInv, Entry
<1>2. QED
  BY <1>1 DEF CoversInv, CoverInv, Covered

LEMMA VisibleIsOwn ==
  ASSUME TypeInv, NEW r \in Repos
  PROVE  /\ Visible(r) \subseteq DirsOf(r) /\ Visible(r) \subseteq exists
         /\ <<r, Top>> \in Visible(r)
         /\ EntryInv(repo[r], r)
<1>1. <<r, Top>> \in exists /\ <<r, Top>> \notin ignored
  BY DEF TypeInv, FsInv, Places
<1>2. <<r, Top>> \in InRepo(r)
  BY <1>1 DEF InRepo
<1>3. QED
  BY <1>1, <1>2, InRepoIsOwn DEF Visible, TypeInv, FsInv, RepoInv

(* A step that leaves a repository and its watches alone. *)
LEMMA CoverKept ==
  ASSUME TypeInv, NEW r \in Repos, CoverInv(r),
         repo'[r] = repo[r], Visible(r)' = Visible(r),
         kernel \cap DirsOf(r) \subseteq kernel', gone \subseteq gone',
         Announced \subseteq Announced', Rules(r) => Rules(r)'
  PROVE  CoverInv(r)'
<1>1. /\ Visible(r) \subseteq DirsOf(r) /\ <<r, Top>> \in DirsOf(r)
      /\ repo[r].installed \subseteq DirsOf(r) /\ repo[r].paths \subseteq DirsOf(r)
  BY VisibleIsOwn DEF EntryInv, Entry
<1>2. WalkCovers(r)'
  BY DEF CoverInv, WalkCovers
<1>3. QueueCovers(r)'
  BY <1>1 DEF CoverInv, QueueCovers
<1>4. TopWatched(r)'
  BY <1>1 DEF CoverInv, TopWatched
<1>5. Covered(r)'
  BY <1>1 DEF CoverInv, Covered
<1>6. QED
  BY <1>2, <1>3, <1>4, <1>5 DEF CoverInv

(* A repository that is not watched, or of which a walk has just begun. *)
LEMMA CoverStarts ==
  ASSUME NEW r \in Repos,
         repo'[r].count # 1, repo'[r].walk # Over, repo'[r].queue = {}
  PROVE  CoverInv(r)'
BY DEF CoverInv, WalkCovers, QueueCovers, TopWatched, Covered

LEMMA StartsFacts ==
  /\ NotWatched.count # 1 /\ NotWatched.walk # Over /\ NotWatched.queue = {}
  /\ LET e == [NotWatched EXCEPT !.walk = Running]
     IN  e.count # 1 /\ e.walk # Over /\ e.queue = {}
BY DEF NotWatched, None, Over, Running

LEMMA QuietCovers ==
  ASSUME TypeInv, CoversInv, Quiet, internal_rx \subseteq internal_rx', gone' = gone,
         DOMAIN pending_gitignore' = Repos,
         \A r \in Repos : pending_gitignore[r] # None => pending_gitignore'[r] # None
  PROVE  CoversInv'
<1>1. ASSUME NEW r \in Repos PROVE CoverInv(r)'
  <2>1. Visible(r)' = Visible(r)
    BY DEF Quiet, Visible, InRepo
  <2>2. Announced \subseteq Announced' /\ (Rules(r) => Rules(r)')
    BY DEF Announced, FsEvents, Rules
  <2>3. QED
    BY <2>1, <2>2, CoverKept DEF CoversInv, Quiet
<1>2. QED
  BY <1>1 DEF CoversInv

LEMMA CloseCovers ==
  ASSUME TypeInv, CoversInv, NEW p \in Panels, Close(p)
  PROVE  CoversInv'
<1>1. /\ UNCHANGED <<exists, ignored, internal_rx, pending_gitignore, gone>>
  BY DEF Close, MayMove, fsVars, pendingVars, historyVars
<1>2. ASSUME NEW r \in Repos PROVE CoverInv(r)'
  <2>1. Visible(r)' = Visible(r) /\ Announced' = Announced /\ Rules(r)' = Rules(r)
    BY <1>1 DEF Visible, InRepo, Announced, FsEvents, Rules
  <2>2. CASE r = git_root[p] /\ r # None
    <3>1. repo'[r] = NotWatched
      BY <2>2, CloseEntries
    <3>2. QED
      BY <3>1, StartsFacts, CoverStarts
  <2>3. CASE ~(r = git_root[p] /\ r # None)
    <3>1. repo'[r] = repo[r] /\ git_root[p] \in Repos \cup {None}
      BY <2>3, CloseEntries
    <3>2. kernel \cap DirsOf(r) \subseteq kernel'
      <4>1. CASE git_root[p] = None
        BY <4>1 DEF Close
      <4>2. CASE git_root[p] # None
        <5>1. git_root[p] \in Repos /\ git_root[p] # r
          BY <2>3, <3>1, <4>2
        <5>2. kernel' = kernel \ Released(repo[git_root[p]])
          BY <4>2 DEF Close
        <5>3. Released(repo[git_root[p]]) \subseteq DirsOf(git_root[p])
          BY <5>1, UnwatchEntry DEF TypeInv, RepoInv
        <5>4. QED
          BY <5>1, <5>2, <5>3, OwnAreApart
      <4>3. QED
        BY <4>1, <4>2
    <3>3. QED
      BY <1>1, <2>1, <3>1, <3>2, CoverKept DEF CoversInv
  <2>4. QED
    BY <2>2, <2>3
<1>3. QED
  BY <1>1, <1>2 DEF CoversInv

LEMMA RegisterCovers ==
  ASSUME TypeInv, CoversInv, Register
  PROVE  CoversInv'
<1>1. UNCHANGED <<exists, ignored, internal_rx, pending_gitignore, gone>> /\ kernel \subseteq kernel'
  BY DEF Register, Turn, fsVars, pendingVars
<1>2. ASSUME NEW r \in Repos PROVE CoverInv(r)'
  <2>1. Visible(r)' = Visible(r) /\ Announced' = Announced /\ Rules(r)' = Rules(r)
    BY <1>1 DEF Visible, InRepo, Announced, FsEvents, Rules
  <2>2. CASE repo'[r] = repo[r]
    BY <1>1, <2>1, <2>2, CoverKept DEF CoversInv
  <2>3. CASE ~Watching(repo[r]) /\ repo'[r] = Watch(repo[r])
    <3>1. EntryInv(repo[r], r)
      BY DEF TypeInv, RepoInv
    <3>2. repo[r].count = 0 /\ repo[r].walk = None /\ repo[r].queue = {}
      BY <2>3, <3>1 DEF Watching, EntryInv, Entry
    <3>3. repo'[r] = [repo[r] EXCEPT !.walk = Running]
      BY <2>3, <3>2 DEF Watch
    <3>4. repo'[r].count = 0 /\ repo'[r].walk = Running /\ repo'[r].queue = {}
      BY <3>1, <3>2, <3>3 DEF EntryInv, Entry
    <3>5. Running # Over
      BY DEF Running, Over
    <3>6. QED
      BY <3>4, <3>5, CoverStarts
  <2>4. QED
    BY <2>2, <2>3, RegisterEntries
<1>3. QED
  BY <1>1, <1>2 DEF CoversInv

LEMMA InstallCovers ==
  ASSUME TypeInv, CoversInv, InstallWatches
  PROVE  CoversInv'
<1>1. PICK taken \in SUBSET UNION {[x \in Repos |-> Landed(repo[x])][r].queue : r \in Repos} :
        /\ kernel' = kernel \cup (taken \cap exists)
        /\ repo' = [r \in Repos |-> Installed([x \in Repos |-> Landed(repo[x])][r], taken)]
  BY DEF InstallWatches, PollPending
<1>2. UNCHANGED <<exists, ignored, internal_rx, pending_gitignore, gone>>
  BY DEF InstallWatches, PollPending, Turn, fsVars, pendingVars
<1>3. ASSUME NEW r \in Repos PROVE CoverInv(r)'
  <2> DEFINE l == Landed(repo[r])
             done == l.installed \cup (taken \cap l.queue \cap exists)
  <2>1. Visible(r)' = Visible(r) /\ Announced' = Announced /\ Rules(r)' = Rules(r)
    BY <1>2 DEF Visible, InRepo, Announced, FsEvents, Rules
  <2>2. repo'[r] = Installed(l, taken)
    BY <1>1
  <2>3. /\ Visible(r) \subseteq exists /\ <<r, Top>> \in Visible(r) /\ EntryInv(repo[r], r)
        /\ CoverInv(r)
    BY VisibleIsOwn DEF CoversInv
  <2>4. /\ EntryInv(l, r) /\ l.walk # Over
        /\ l.count = repo[r].count /\ l.paths = repo[r].paths /\ l.installed = repo[r].installed
        /\ l.queue = IF repo[r].walk = Over THEN repo[r].found ELSE repo[r].queue
    BY <2>3, LandedEntry
  <2>5. l.queue # {} => Visible(r) \subseteq l.queue \cup kernel /\ l.installed \subseteq kernel
    <3>1. CASE repo[r].walk = Over
      <4>1. repo[r].found = Visible(r) /\ repo[r].installed = {}
        BY <2>3, <3>1 DEF CoverInv, WalkCovers, EntryInv, None, Over
      <4>2. QED
        BY <2>4, <3>1, <4>1
    <3>2. CASE repo[r].walk # Over
      BY <2>3, <2>4, <3>2 DEF CoverInv, QueueCovers
    <3>3. QED
      BY <3>1, <3>2
  <2>6. l.queue # {} => l.count # 1
    BY <2>4 DEF EntryInv
  <2> HIDE DEF l
  <2>7. CASE l.queue = {}
    <3>1. repo'[r] = l
      BY <2>2, <2>7 DEF Installed
    <3>2. WalkCovers(r)' /\ QueueCovers(r)'
      BY <2>4, <2>7, <3>1 DEF WalkCovers, QueueCovers
    <3>3. TopWatched(r)'
      BY <1>1, <1>2, <2>3, <2>4, <3>1 DEF CoverInv, TopWatched
    <3>4. Covered(r)'
      BY <1>1, <1>2, <2>1, <2>3, <2>4, <3>1 DEF CoverInv, Covered
    <3>5. QED
      BY <3>2, <3>3, <3>4 DEF CoverInv
  <2>8. CASE l.queue # {} /\ l.queue \subseteq taken
    <3>1. repo'[r] = [NotWatched EXCEPT !.count = 1, !.paths = done]
      BY <2>2, <2>8 DEF Installed
    <3>2. /\ repo'[r].walk # Over /\ repo'[r].queue = {} /\ repo'[r].count = 1
          /\ repo'[r].paths = done
      BY <3>1 DEF NotWatched, None, Over
    <3>3. Visible(r) \subseteq kernel' /\ done \subseteq kernel'
      BY <1>1, <2>3, <2>5, <2>8
    <3>4. WalkCovers(r)' /\ QueueCovers(r)' /\ TopWatched(r)' /\ Covered(r)'
      BY <2>1, <2>3, <3>2, <3>3 DEF WalkCovers, QueueCovers, TopWatched, Covered
    <3>5. QED
      BY <3>4 DEF CoverInv
  <2>9. CASE l.queue # {} /\ ~(l.queue \subseteq taken)
    <3>1. repo'[r] = [l EXCEPT !.queue = l.queue \ taken, !.installed = done]
      BY <2>2, <2>9 DEF Installed
    <3>2. /\ repo'[r].walk = l.walk /\ repo'[r].queue = l.queue \ taken
          /\ repo'[r].count = l.count /\ repo'[r].installed = done
      BY <2>4, <3>1 DEF EntryInv, Entry
    <3>3. Visible(r) \subseteq (l.queue \ taken) \cup kernel' /\ done \subseteq kernel'
      BY <1>1, <2>3, <2>5, <2>9
    <3>4. WalkCovers(r)' /\ QueueCovers(r)'
      BY <2>1, <2>4, <3>2, <3>3 DEF WalkCovers, QueueCovers
    <3>5. TopWatched(r)' /\ Covered(r)'
      BY <2>6, <2>9, <3>2 DEF TopWatched, Covered
    <3>6. QED
      BY <3>4, <3>5 DEF CoverInv
  <2>10. QED
    BY <2>7, <2>8, <2>9
<1>4. QED
  BY <1>2, <1>3 DEF CoversInv

(* The events that are read: what they announce is watched, unless it is in *)
(* the set of watched paths already; and rules that have settled start the  *)
(* registration anew.                                                       *)
LEMMA EventWatches ==
  ASSUME TypeInv, PollEvents, NEW r \in Repos, r \notin GitignoreChanges
  PROVE  kernel \cap DirsOf(r) \subseteq kernel' /\ Fresh(r) \subseteq kernel'
<1> DEFINE x == [q \in Repos |-> [repo[q] EXCEPT !.paths = @ \cup Fresh(q)]]
<1>1. /\ kernel' = (kernel \cup UNION {Fresh(q) : q \in Repos})
                     \ UNION {Released(x[q]) : q \in GitignoreChanges}
      /\ GitignoreChanges \subseteq Repos
  BY DEF PollEvents, GitignoreChanges
<1>2. ASSUME NEW q \in Repos PROVE Released(x[q]) \subseteq DirsOf(q)
  <2>1. EntryInv(repo[q], q) /\ Fresh(q) \in SUBSET DirsOf(q)
    BY FreshIsOwn DEF TypeInv, RepoInv, FsInv
  <2>2. x[q] = [repo[q] EXCEPT !.paths = @ \cup Fresh(q)]
    OBVIOUS
  <2> HIDE DEF x
  <2>3. EntryInv(x[q], q)
    BY <2>1, <2>2, ExtendedEntry
  <2>4. QED
    BY <2>3, UnwatchEntry
<1> HIDE DEF x
<1>3. \A q \in GitignoreChanges : Released(x[q]) \cap DirsOf(r) = {}
  BY <1>1, <1>2, OwnAreApart
<1>4. Fresh(r) \subseteq DirsOf(r)
  BY FreshIsOwn DEF TypeInv, FsInv
<1>5. QED
  BY <1>1, <1>3, <1>4

LEMMA EventCovers ==
  ASSUME TypeInv, CoversInv, PollWatcherEvents
  PROVE  CoversInv'
<1>1. PollEvents /\ UNCHANGED <<exists, ignored, gone>>
  BY DEF PollWatcherEvents, PollEvents, Turn, fsVars
<1>2. /\ DOMAIN pending_gitignore' = Repos
      /\ \A r \in Repos : pending_gitignore'[r] = IF GitignorePending(r) = "due" THEN None
                                                  ELSE GitignorePending(r)
  BY <1>1 DEF PollEvents
<1>3. ASSUME NEW r \in Repos PROVE CoverInv(r)'
  <2> DEFINE x == [repo[r] EXCEPT !.paths = @ \cup Fresh(r)]
  <2>1. repo'[r] = IF r \in GitignoreChanges THEN Watch(Unwatch(x)) ELSE x
    BY <1>1 DEF PollEvents
  <2>2. EntryInv(repo[r], r) /\ Fresh(r) \in SUBSET DirsOf(r)
    BY FreshIsOwn DEF TypeInv, RepoInv, FsInv
  <2>3. /\ EntryInv(x, r)
        /\ x.walk = repo[r].walk /\ x.queue = repo[r].queue /\ x.count = repo[r].count
        /\ x.found = repo[r].found /\ x.installed = repo[r].installed
        /\ x.paths = repo[r].paths \cup Fresh(r)
    BY <2>2, ExtendedEntry DEF EntryInv, Entry
  <2> HIDE DEF x
  <2>4. CASE r \in GitignoreChanges
    <3>1. repo'[r] = [NotWatched EXCEPT !.walk = Running]
      BY <2>1, <2>3, <2>4, WatchedAnew
    <3>2. QED
      BY <3>1, StartsFacts, CoverStarts
  <2>5. CASE r \notin GitignoreChanges
    <3>1. repo'[r] = x
      BY <2>1, <2>5
    <3>2. kernel \cap DirsOf(r) \subseteq kernel' /\ Fresh(r) \subseteq kernel'
      BY <1>1, <2>5, EventWatches
    <3>3. /\ Visible(r)' = Visible(r) /\ Visible(r) \subseteq DirsOf(r)
          /\ <<r, Top>> \in DirsOf(r) /\ CoverInv(r)
          /\ repo[r].installed \subseteq DirsOf(r) /\ repo[r].paths \subseteq DirsOf(r)
      BY <1>1, <2>2, VisibleIsOwn DEF Visible, InRepo, CoversInv, EntryInv, Entry
    <3>4. WalkCovers(r)' /\ QueueCovers(r)'
      BY <2>3, <3>1, <3>2, <3>3 DEF CoverInv, WalkCovers, QueueCovers
    <3>5. TopWatched(r)'
      BY <1>1, <2>3, <3>1, <3>2, <3>3 DEF CoverInv, TopWatched
    <3>6. Covered(r)'
      <4>1. SUFFICES ASSUME repo[r].count = 1, ~Rules(r)', NEW d \in Visible(r)
                     PROVE  d \in kernel' \cup gone
        BY <1>1, <2>3, <3>1, <3>3 DEF Covered
      <4>2. ~Rules(r)
        <5>1. pending_gitignore'[r] = None
          BY <4>1 DEF Rules
        <5>2. GitignorePending(r) # "due"
          BY <2>5 DEF GitignoreChanges
        <5>3. GitignorePending(r) = None
          BY <1>2, <5>1, <5>2
        <5>4. QED
          BY <5>3 DEF GitignorePending, Rules, None
      <4>3. d \in kernel \cup Announced \cup gone
        BY <3>3, <4>1, <4>2 DEF CoverInv, Covered
      <4>4. repo[r].paths \subseteq kernel \cup gone
        BY <3>3, <4>1 DEF CoverInv, TopWatched
      <4>5. CASE d \in kernel \cup gone
        BY <3>2, <3>3, <4>1, <4>5
      <4>6. CASE d \in Announced
        <5>1. \E e \in FsEvents : d = e.entry
          BY <4>6 DEF Announced
        <5>2. d \in InRepo(r)
          BY <4>1 DEF Visible
        <5>3. d \notin repo[r].paths => d \in Fresh(r)
          BY <4>1, <5>1, <5>2 DEF Fresh
        <5>4. QED
          BY <3>2, <3>3, <4>1, <4>4, <5>3
      <4>7. QED
        BY <4>3, <4>5, <4>6
    <3>7. QED
      BY <3>4, <3>5, <3>6 DEF CoverInv
  <2>6. QED
    BY <2>4, <2>5
<1>4. QED
  BY <1>2, <1>3 DEF CoversInv

LEMMA WalkCovered ==
  ASSUME TypeInv, CoversInv, NEW r \in Repos, Walk(r)
  PROVE  CoversInv'
<1>1. UNCHANGED <<exists, ignored, kernel, internal_rx, pending_gitignore, gone>>
  BY DEF Walk, WalkEnds, fsVars, pendingVars, historyVars
<1>2. ASSUME NEW q \in Repos PROVE CoverInv(q)'
  <2>1. Visible(q)' = Visible(q) /\ Announced' = Announced /\ Rules(q)' = Rules(q)
    BY <1>1 DEF Visible, InRepo, Announced, FsEvents, Rules
  <2>2. DOMAIN repo = Repos /\ EntryInv(repo[r], r)
    BY DEF TypeInv, RepoInv
  <2>3. CASE q # r
    <3>1. repo'[q] = repo[q]
      BY <2>2, <2>3 DEF Walk, WalkEnds
    <3>2. QED
      BY <1>1, <2>1, <3>1, CoverKept DEF CoversInv
  <2>4. CASE q = r
    <3>1. repo'[r] = [repo[r] EXCEPT !.walk = Over, !.found = Visible(r)] /\ repo[r].walk = Running
      BY <2>2 DEF Walk, WalkEnds
    <3>2. /\ repo'[r].found = Visible(r) /\ repo'[r].queue = repo[r].queue
          /\ repo'[r].count = repo[r].count
      BY <2>2, <3>1 DEF EntryInv, Entry
    <3>3. repo[r].queue = {} /\ repo[r].count # 1
      BY <2>2, <3>1 DEF EntryInv, Running, None
    <3>4. QED
      BY <2>1, <2>4, <3>2, <3>3 DEF CoverInv, WalkCovers, QueueCovers, TopWatched, Covered
  <2>5. QED
    BY <2>3, <2>4
<1>3. QED
  BY <1>1, <1>2 DEF CoversInv

(* Other programs change directories and rules of a repository only when    *)
(* it is not being registered.  What they do in a repository that is        *)
(* watched is reported, for its top directory has its watch.                *)
LEMMA ChangeKeepsOthers ==
  ASSUME TypeInv, CoversInv, NEW r \in Repos, NEW s \in Subs, NEW q \in Repos, q # r,
         MakeDir(r, s) \/ EditRules(r, s) \/ RemoveDir(r, s), gone \subseteq gone'
  PROVE  CoverInv(q)'
<1>1. repo' = repo /\ pending_gitignore' = pending_gitignore /\ internal_rx \subseteq internal_rx'
  BY DEF MakeDir, EditRules, RemoveDir, Report, pendingVars
<1>2. Announced \subseteq Announced' /\ (Rules(q) => Rules(q)')
  BY <1>1 DEF Announced, FsEvents, Rules
<1>3. <<r, s>>[1] = r /\ <<r, s>> \notin DirsOf(q)
  BY DEF DirsOf
<1>4. kernel \cap DirsOf(q) \subseteq kernel'
  BY <1>3 DEF MakeDir, EditRules, RemoveDir
<1>5. Visible(q)' = Visible(q)
  <2>1. CASE MakeDir(r, s)
    BY <1>3, <2>1 DEF MakeDir, Visible, InRepo
  <2>2. CASE EditRules(r, s)
    <3>1. exists' = exists /\ \A d : d # <<r, s>> => (d \in ignored' <=> d \in ignored)
      BY <2>2 DEF EditRules
    <3>2. QED
      BY <1>3, <3>1 DEF Visible, InRepo
  <2>3. CASE RemoveDir(r, s)
    BY <1>3, <2>3 DEF RemoveDir, Visible, InRepo
  <2>4. QED
    BY <2>1, <2>2, <2>3
<1>6. QED
  BY <1>1, <1>2, <1>4, <1>5, CoverKept DEF CoversInv

LEMMA ChangeCovered ==
  ASSUME TypeInv, CoversInv, NEW r \in Repos, NEW s \in Subs,
         repo[r].walk = None, repo[r].queue = {},
         \/ (MakeDir(r, s) \/ EditRules(r, s)) /\ gone' = gone
         \/ RemoveDir(r, s) /\ gone' = gone \cup {<<r, s>>}
  PROVE  CoverInv(r)'
<1>1. repo' = repo /\ pending_gitignore' = pending_gitignore /\ internal_rx \subseteq internal_rx'
  BY DEF MakeDir, EditRules, RemoveDir, Report, pendingVars
<1>2. Announced \subseteq Announced' /\ (Rules(r) => Rules(r)') /\ CoverInv(r)
  BY <1>1 DEF Announced, FsEvents, Rules, CoversInv
<1>3. WalkCovers(r)' /\ QueueCovers(r)'
  BY <1>1 DEF WalkCovers, QueueCovers, None, Over
<1>4. SUFFICES ASSUME repo[r].count = 1 PROVE TopWatched(r)' /\ Covered(r)'
  BY <1>1, <1>3 DEF CoverInv, TopWatched, Covered
<1>5. /\ <<r, Top>> \in kernel /\ repo[r].paths \subseteq kernel \cup gone
      /\ ~Rules(r) => Visible(r) \subseteq kernel \cup Announced \cup gone
  BY <1>2, <1>4 DEF CoverInv, TopWatched, Covered
<1>6. CASE MakeDir(r, s) /\ gone' = gone
  <2>1. /\ exists' = exists \cup {<<r, s>>} /\ ignored' = ignored /\ kernel' = kernel
        /\ Fs(<<r, Top>>, <<r, s>>) \in internal_rx'
    BY <1>5, <1>6 DEF MakeDir, Report
  <2>2. <<r, s>> \in Announced'
    <3>1. /\ Fs(<<r, Top>>, <<r, s>>).kind = "fs"
          /\ Fs(<<r, Top>>, <<r, s>>).entry = <<r, s>>
      BY DEF Fs
    <3>2. QED
      BY <2>1, <3>1 DEF Announced, FsEvents
  <2>3. Visible(r)' \subseteq Visible(r) \cup {<<r, s>>}
    BY <2>1 DEF Visible, InRepo
  <2>4. QED
    BY <1>1, <1>2, <1>5, <1>6, <2>1, <2>2, <2>3 DEF TopWatched, Covered
<1>7. CASE EditRules(r, s) /\ gone' = gone
  <2>1. kernel' = kernel /\ GitignoreChange(r) \in internal_rx'
    BY <1>5, <1>7 DEF EditRules, Report
  <2>2. Rules(r)'
    BY <2>1 DEF Rules
  <2>3. QED
    BY <1>1, <1>5, <1>7, <2>1, <2>2 DEF TopWatched, Covered
<1>8. CASE RemoveDir(r, s) /\ gone' = gone \cup {<<r, s>>}
  <2>1. /\ exists' = exists \ {<<r, s>>} /\ ignored' = ignored
        /\ kernel' = kernel \ {<<r, s>>}
    BY <1>8 DEF RemoveDir
  <2>2. <<r, Top>> # <<r, s>>
    BY WatcherAssumption
  <2>3. Visible(r)' \subseteq Visible(r)
    BY <2>1 DEF Visible, InRepo
  <2>4. QED
    BY <1>1, <1>2, <1>5, <1>8, <2>1, <2>2, <2>3 DEF TopWatched, Covered
<1>9. QED
  BY <1>6, <1>7, <1>8

LEMMA OthersCover ==
  ASSUME ~Races, TypeInv, CoversInv, Others
  PROVE  CoversInv'
<1>1. ASSUME NEW d \in Places, NEW s \in {Top} \cup Subs, Change(<<d, Top>>, <<d, s>>), gone' = gone
      PROVE  CoversInv'
  <2>1. Quiet /\ internal_rx \subseteq internal_rx' /\ pending_gitignore' = pending_gitignore
    BY <1>1 DEF Change, Report, fsVars, pendingVars, Quiet
  <2>2. QED
    BY <1>1, <2>1, QuietCovers DEF CoversInv
<1>2. ASSUME NEW r \in Repos, Commit(r), gone' = gone PROVE CoversInv'
  <2>1. Quiet /\ internal_rx \subseteq internal_rx' /\ pending_gitignore' = pending_gitignore
    BY <1>2 DEF Commit, Report, fsVars, pendingVars, Quiet
  <2>2. QED
    BY <1>2, <2>1, QuietCovers DEF CoversInv
<1>3. ASSUME NEW r \in Repos, NEW s \in Subs, Calm(r),
             \/ (MakeDir(r, s) \/ EditRules(r, s)) /\ gone' = gone
             \/ RemoveDir(r, s) /\ gone' = gone \cup {<<r, s>>}
      PROVE  CoversInv'
  <2>1. repo[r].walk = None /\ repo[r].queue = {}
    BY <1>3 DEF Calm
  <2>2. ASSUME NEW q \in Repos PROVE CoverInv(q)'
    <3>1. CASE q = r
      BY <1>3, <2>1, <3>1, ChangeCovered
    <3>2. CASE q # r
      <4>1. gone \subseteq gone' /\ (MakeDir(r, s) \/ EditRules(r, s) \/ RemoveDir(r, s))
        BY <1>3
      <4>2. QED
        BY <3>2, <4>1, ChangeKeepsOthers
    <3>3. QED
      BY <3>1, <3>2
  <2>3. pending_gitignore' = pending_gitignore
    BY <1>3 DEF MakeDir, EditRules, RemoveDir, pendingVars
  <2>4. QED
    BY <2>2, <2>3 DEF CoversInv
<1>4. QED
  BY <1>1, <1>2, <1>3 DEF Others, historyVars

LEMMA CoversStep ==
  ASSUME ~Races, TypeInv, CoversInv, [Next]_vars
  PROVE  CoversInv'
<1>1. ASSUME Quiet, UNCHANGED <<internal_rx, pending_gitignore, gone>> PROVE CoversInv'
  BY <1>1, QuietCovers DEF CoversInv
<1>2. ASSUME NEW p \in Panels, NEW d \in Places, Navigate(p, d) \/ Enter(p, d)
      PROVE  UNCHANGED <<internal_rx, pending_gitignore, gone>>
  BY <1>2 DEF Navigate, Enter, Show, MayMove, watcherVars, pendingVars, historyVars
<1>3. ASSUME NEW p \in Panels, Resize(p) \/ Refresh(p)
      PROVE  UNCHANGED <<internal_rx, pending_gitignore, gone>>
  BY <1>3 DEF Resize, Refresh, MayMove, watcherVars, pendingVars, historyVars
<1>4. ASSUME TickPanels \/ Background PROVE UNCHANGED <<internal_rx, pending_gitignore, gone>>
  BY <1>4 DEF TickPanels, Background, Turn, watcherVars, pendingVars
<1>5. ASSUME NEW r \in Repos, Debounced(r)
      PROVE  UNCHANGED <<internal_rx, pending_gitignore, gone>>
  BY <1>5 DEF Debounced, GitElapses, historyVars
<1>6. ASSUME NEW p \in Follows, ReadDirectory(p) \/ AskGit(p) \/ Settles(p)
      PROVE  UNCHANGED <<internal_rx, pending_gitignore, gone>>
  BY <1>6 DEF ReadDirectory, AskGit, Settles, watcherVars, pendingVars, historyVars
<1>7. ASSUME UNCHANGED vars PROVE UNCHANGED <<internal_rx, pending_gitignore, gone>>
  BY <1>7 DEF vars, watcherVars, pendingVars, historyVars
<1>8. ASSUME NEW r \in Repos, RulesDebounced(r) PROVE CoversInv'
  <2>1. /\ Quiet /\ internal_rx' = internal_rx /\ gone' = gone
        /\ pending_gitignore' = [pending_gitignore EXCEPT ![r] = "due"]
    BY <1>8, QuietSteps DEF RulesDebounced, GitignoreElapses, historyVars
  <2>2. \A q \in Repos : pending_gitignore[q] # None => pending_gitignore'[q] # None
    BY <2>1 DEF CoversInv, None
  <2>3. QED
    BY <2>1, <2>2, QuietCovers DEF CoversInv
<1>9. QED
  BY <1>1, <1>2, <1>3, <1>4, <1>5, <1>6, <1>7, <1>8, QuietSteps,
     CloseCovers, RegisterCovers, InstallCovers, EventCovers, WalkCovered, OthersCover
     DEF Next, User, MainLoop, ThreadsAndTime

(* Every directory of a registered repository that is not ignored has its   *)
(* watch, or the event of its creation is still to be read, or it was       *)
(* removed and made again, whatever the order of walks, chunks, events and  *)
(* changed rules, if nothing changes between the walk of a repository and   *)
(* the installation of its watches (what happens there is not seen: the     *)
(* code walks first and watches later).                                     *)
THEOREM WatchCoversHolds ==
  ASSUME ~Races
  PROVE  Spec => []WatchCovers
<1>1. Init => CoversInv
  <2> SUFFICES ASSUME Init PROVE CoversInv
    OBVIOUS
  <2>1. ASSUME NEW r \in Repos PROVE CoverInv(r)
    <3>1. repo[r] = NotWatched
      BY DEF Init, WatcherInit
    <3>2. QED
      BY <3>1, StartsFacts DEF CoverInv, WalkCovers, QueueCovers, TopWatched, Covered
  <2>2. QED
    BY <2>1 DEF Init, WatcherInit, CoversInv
<1>2. TypeInv /\ CoversInv /\ [Next]_vars => CoversInv'
  BY CoversStep
<1>3. Spec => []CoversInv
  BY <1>1, <1>2, TypeInvHolds, PTL DEF Spec
<1>4. QED
  BY <1>3, TypeInvHolds, CoversInvIsWatchCovers, PTL
=============================================================================
