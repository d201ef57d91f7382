-------------------------- MODULE DirectoryRefresh --------------------------
(***************************************************************************)
(* How what other programs do to a directory reaches the file managers     *)
(* that show it: the watcher (UnifiedWatcher), their listings              *)
(* (FileListing) and the main loop between them (app/watcher.rs and        *)
(* app/mod.rs), while the user opens, closes, collapses and navigates      *)
(* panels.                                                                 *)
(***************************************************************************)
EXTENDS UnifiedWatcher, FileListing

CONSTANTS
  Panels,        \* file managers
  Follows,       \* those whose listing is followed
  Closed,        \* no place
  Races,         \* whether directories and rules also change while a repository is installed
  MaxMoves,      \* bound: what the user does
  MaxActs        \* bound: what the user and other programs do together (commits are not counted)

Places == Repos \cup Plain

VARIABLES
  place,         \* the directory a panel shows: the top of a place
  git_root,      \* [Panels -> Repos or None]
  visible,       \* panels that show their content
  listing,
  needs_watcher_registration,
  turn,          \* where the main loop is
  strayed,       \* panels that entered a directory since the last registration
  deserted,      \* repositories another panel of which was closed since
  gone,          \* directories that were removed at some time
  missed,        \* places that changed while nobody watched them
  passed_over,   \* panels this turn did not tell of a change, which they take for ignored
  moves, changes

panelVars == <<place, git_root, visible, needs_watcher_registration, strayed, deserted, moves>>
historyVars == <<gone, missed, passed_over>>
vars == <<fsVars, watcherVars, panelVars, listing, turn, historyVars, changes>>

Open == {p \in Panels : place[p] # Closed}
RootOf(d) == IF d \in Repos THEN d ELSE None

Init ==
  /\ exists = {d \in Dirs : d[2] \in {Top, Git}} /\ ignored \in SUBSET (Repos \X Subs)
  /\ WatcherInit
  /\ place = [p \in Panels |-> Closed]
  /\ git_root = [p \in Panels |-> None]
  /\ visible = Panels
  /\ listing = [p \in Panels |-> Unloaded]
  /\ needs_watcher_registration = TRUE
  /\ turn = "input"
  /\ strayed = {} /\ deserted = {} /\ gone = {} /\ missed = {} /\ passed_over = {}
  /\ moves = 0 /\ changes = 0

Relist(panels, op(_)) ==
  listing' = [p \in Panels |-> IF p \in panels \cap Follows THEN op(listing[p]) ELSE listing[p]]

-----------------------------------------------------------------------------
(* The user, between two turns of the loop. *)

MayMove ==
  /\ turn = "input" /\ moves < MaxMoves /\ moves + changes < MaxActs
  /\ moves' = moves + 1
  /\ UNCHANGED <<turn, changes, historyVars, fsVars>>

(* load_directory keeps the root only within its repository. *)
Show(p, d) ==
  /\ place' = [place EXCEPT ![p] = d]
  /\ git_root' = [git_root EXCEPT ![p] = IF @ = RootOf(d) THEN @ ELSE None]
  /\ Relist({p}, LoadDirectory)
  /\ UNCHANGED <<watcherVars, visible, deserted>>

(* A panel is added, or told where to go by a dialog, a bookmark, an event. *)
Navigate(p, d) ==
  /\ MayMove
  /\ place[p] # d
  /\ Show(p, d)
  /\ needs_watcher_registration' = TRUE
  /\ strayed' = strayed \ {p}

(* enter() and GoParent navigate without a word to the application. *)
Enter(p, d) ==
  /\ MayMove
  /\ place[p] \notin {Closed, d}
  /\ Show(p, d)
  /\ strayed' = strayed \cup {p}
  /\ UNCHANGED needs_watcher_registration

(* close_panel_at_index: the repository is unwatched whoever else shows it. *)
Close(p) ==
  /\ MayMove
  /\ p \in Open
  /\ place' = [place EXCEPT ![p] = Closed]
  /\ git_root' = [git_root EXCEPT ![p] = None]
  /\ LET r == git_root[p]
     IN  IF r = None THEN UNCHANGED <<repo, kernel, deserted>>
         ELSE /\ repo' = [repo EXCEPT ![r] = Unwatch(@)]
              /\ kernel' = kernel \ Released(repo[r])
              /\ deserted' = deserted \cup {r}
  /\ strayed' = strayed \ {p}
  /\ visible' = visible \cup {p}
  /\ listing' = [listing EXCEPT ![p] = Unloaded]
  /\ UNCHANGED <<watched_dirs, internal_rx, pendingVars, needs_watcher_registration>>

(* A panel shrinks to its title bar, or grows again. *)
Resize(p) ==
  /\ MayMove
  /\ p \in Open
  /\ visible' = IF p \in visible THEN visible \ {p} ELSE visible \cup {p}
  /\ UNCHANGED <<watcherVars, place, git_root, listing, needs_watcher_registration, strayed, deserted>>

(* Ctrl+R *)
Refresh(p) ==
  /\ MayMove
  /\ p \in Open \cap Follows
  /\ Relist({p}, ReloadDirectory)
  /\ UNCHANGED <<watcherVars, place, git_root, visible, needs_watcher_registration, strayed, deserted>>

-----------------------------------------------------------------------------
(* One turn of the main loop. *)

Turn(from, to) == turn = from /\ turn' = to /\ UNCHANGED <<changes, gone, missed, moves, place, visible>>

(* tick() of every panel, and RefreshIfStale of those that show content. *)
TickPanels ==
  /\ Turn("input", "register")
  /\ LET ticked(p) == IF p \in visible THEN RefreshIfStale(CheckGitStatusAsync(listing[p]))
                      ELSE CheckGitStatusAsync(listing[p])
     IN  listing' = [p \in Panels |-> IF p \in Open \cap Follows THEN ticked(p) ELSE listing[p]]
  /\ UNCHANGED <<fsVars, watcherVars, git_root, needs_watcher_registration, strayed, deserted, passed_over>>

(* register_panel_watchers: the roots nobody watches yet, those of panels   *)
(* that have one included.                                                  *)
Register ==
  /\ Turn("register", "pending")
  /\ \/ ~needs_watcher_registration /\ UNCHANGED <<git_root, repo, kernel, watched_dirs, strayed, deserted>>
     \/ /\ needs_watcher_registration
        /\ LET shown == {place[p] : p \in Open}
           IN  /\ git_root' = [p \in Panels |-> IF p \in Open THEN RootOf(place[p]) ELSE None]
               /\ repo' = [r \in Repos |-> IF r \in shown /\ ~IsWatchingRepo(r) THEN Watch(repo[r]) ELSE repo[r]]
               /\ watched_dirs' = [q \in Plain |-> IF q \in shown /\ ~IsWatchingDir(q) THEN 1 ELSE watched_dirs[q]]
               /\ kernel' = kernel \cup {<<q, Top>> : q \in shown \cap Plain}
        /\ strayed' = {} /\ deserted' = {}
  /\ needs_watcher_registration' = FALSE
  /\ UNCHANGED <<fsVars, listing, internal_rx, pendingVars, passed_over>>

InstallWatches ==
  /\ Turn("pending", "events")
  /\ PollPending
  /\ UNCHANGED <<git_root, listing, needs_watcher_registration, strayed, deserted, passed_over>>

(* collapse_fs_burst: of more than FS_BURST_THRESHOLD changes, one in each   *)
(* directory is told.  A burst of any size may stand for that many.          *)
Fanouts ==
  {FsEvents} \cup {F \in SUBSET FsEvents :
                    \A e \in FsEvents : Cardinality({f \in F : f.dir = e.dir}) = 1}

IsPathIgnored(p, entry) == git_root[p] # None /\ entry \in listing[p].cache

(* OnFsUpdate: anything below the directory that is not ignored if it is in *)
(* a repository, an entry of it otherwise.                                  *)
Concerned(p, fanout) ==
  \E e \in fanout : IF git_root[p] = None THEN e.dir = <<place[p], Top>>
                     ELSE e.dir[1] = place[p] /\ ~IsPathIgnored(p, e.entry)

PassedOver(fanout) ==
  {p \in Open \cap Follows \cap visible :
     /\ ~Concerned(p, fanout) /\ git_root[p] \notin GitCommits
     /\ \E e \in FsEvents : e.dir = <<place[p], Top>> /\ IsPathIgnored(p, e.entry)}

(* poll_watcher_events: panels that show content are told of the commits    *)
(* and then of the changes that concern them, collapsed ones only that      *)
(* there was something.                                                     *)
PollWatcherEvents ==
  /\ Turn("events", "background")
  /\ PollEvents
  /\ \E fanout \in Fanouts :
       LET something == FsEvents # {} \/ GitCommits # {}
           of_commits(p) == IF git_root[p] \in GitCommits THEN Update(listing[p]) ELSE listing[p]
           of_files(p, l) == IF ~Concerned(p, fanout) THEN l
                             ELSE IF git_root[p] = None THEN StartAsyncReload(l) ELSE Update(l)
           told(p) == IF p \in visible THEN of_files(p, of_commits(p))
                      ELSE IF something THEN MarkStale(listing[p]) ELSE listing[p]
       IN  /\ listing' = [p \in Panels |-> IF p \in Open \cap Follows THEN told(p) ELSE listing[p]]
           /\ passed_over' = PassedOver(fanout)
  /\ UNCHANGED <<git_root, needs_watcher_registration, strayed, deserted>>

Background ==
  /\ Turn("background", "input")
  /\ Relist(Open, LAMBDA l : CheckAsyncReload(CheckGitStatusAsync(l)))
  /\ passed_over' = {}
  /\ UNCHANGED <<fsVars, watcherVars, git_root, needs_watcher_registration, strayed, deserted>>

MainLoop == TickPanels \/ Register \/ InstallWatches \/ PollWatcherEvents \/ Background

-----------------------------------------------------------------------------
(* Threads and time. *)

Walk(r) == WalkEnds(r) /\ UNCHANGED <<panelVars, listing, turn, historyVars, changes>>

ReadDirectory(p) ==
  /\ listing[p].reload = "asked"
  /\ Relist({p}, ReadDir)
  /\ UNCHANGED <<fsVars, watcherVars, panelVars, turn, historyVars, changes>>

(* git leaves out what is ignored and empty; in no repository its answer    *)
(* makes no difference.                                                     *)
AskGit(p) ==
  /\ listing[p].status = "asked" /\ place[p] \in Repos
  /\ \E found \in SUBSET (InRepo(place[p]) \cap ignored) : Relist({p}, LAMBDA l : ReadStatus(l, found))
  /\ UNCHANGED <<fsVars, watcherVars, panelVars, turn, historyVars, changes>>

Debounced(r) == GitElapses(r) /\ UNCHANGED <<panelVars, listing, turn, historyVars, changes>>
RulesDebounced(r) == GitignoreElapses(r) /\ UNCHANGED <<panelVars, listing, turn, historyVars, changes>>
Settles(p) ==
  /\ listing[p].recent
  /\ Relist({p}, Settle)
  /\ UNCHANGED <<fsVars, watcherVars, panelVars, turn, historyVars, changes>>

(* Other programs. *)
MayChange == moves + changes < MaxActs /\ changes' = changes + 1 /\ UNCHANGED <<panelVars, turn>>
Calm(r) == Races \/ (repo[r].walk = None /\ repo[r].queue = {})

ChangesIn(d) ==
  /\ Relist({p \in Open : place[p] = d}, Outdate)
  /\ missed' = IF <<d, Top>> \in kernel THEN missed ELSE missed \cup {d}
  /\ UNCHANGED passed_over

Others ==
  \/ \E d \in Places, s \in {Top} \cup Subs :
       MayChange /\ Change(<<d, Top>>, <<d, s>>) /\ ChangesIn(d) /\ UNCHANGED gone
  \/ \E r \in Repos, s \in Subs :
       /\ MayChange /\ Calm(r)
       /\ \/ (MakeDir(r, s) \/ EditRules(r, s)) /\ UNCHANGED gone
          \/ RemoveDir(r, s) /\ gone' = gone \cup {<<r, s>>}
       /\ ChangesIn(r)
  \/ \E r \in Repos : Commit(r) /\ UNCHANGED <<panelVars, listing, turn, historyVars, changes>>

User ==
  \/ \E p \in Panels, d \in Places : Navigate(p, d) \/ Enter(p, d)
  \/ \E p \in Panels : Close(p) \/ Resize(p) \/ Refresh(p)

ThreadsAndTime ==
  \/ \E r \in Repos : Walk(r) \/ Debounced(r) \/ RulesDebounced(r)
  \/ \E p \in Follows : ReadDirectory(p) \/ AskGit(p) \/ Settles(p)

Next == User \/ MainLoop \/ ThreadsAndTime \/ Others

(* The loop turns, every thread ends and every interval passes. *)
Fairness ==
  /\ WF_vars(MainLoop)
  /\ \A r \in Repos : WF_vars(Walk(r)) /\ WF_vars(Debounced(r)) /\ WF_vars(RulesDebounced(r))
  /\ \A p \in Follows : WF_vars(ReadDirectory(p)) /\ WF_vars(Settles(p))

Spec == Init /\ [][Next]_vars /\ Fairness

-----------------------------------------------------------------------------
(* Types; and a repository has one reference however many panels show it.   *)
TypeOK ==
  /\ \A p \in Panels : listing[p] \in ListingType(Dirs) /\ place[p] \in Places \cup {Closed}
                       /\ git_root[p] \in {None, RootOf(place[p])}
  /\ kernel \subseteq exists /\ exists \subseteq Dirs
  /\ \A r \in Repos : repo[r].paths \cup repo[r].queue \subseteq Dirs /\ repo[r].count <= 1

IsWatched(d) == IF d \in Repos THEN IsWatchingRepo(d) ELSE IsWatchingDir(d)

(* Once panels are registered, what each of them shows is watched or about  *)
(* to be, unless the panel walked there by itself or another panel of the   *)
(* repository was closed: no registration is lost between the walk of a     *)
(* repository, the installation of its watches and a change of its rules.   *)
RegisteredIsWatched ==
  needs_watcher_registration
    \/ \A p \in Open \ strayed : IsWatched(place[p]) \/ place[p] \in deserted

(* In a repository that is registered, with no change of its rules under    *)
(* way, every directory that is not ignored has its watch, or the event of  *)
(* its creation is still to be read, or it was removed and made again.      *)
WatchCovers ==
  \A r \in Repos :
    LET rules == pending_gitignore[r] # None \/ GitignoreChange(r) \in internal_rx
        announced == {e.entry : e \in FsEvents}
    IN  repo[r].count > 0 /\ ~rules => Visible(r) \subseteq kernel \cup announced \cup gone

(* A burst of changes under .git, however long, is passed on: the window    *)
(* is not put off by what follows its first change.                         *)
GitEmits == \A r \in Repos : (pending_git[r] # None) ~> (pending_git[r] = None)

(* A listing that has become old while the event of it is on the way is     *)
(* read anew, whatever reload was under way or just over, as long as its    *)
(* panel stays where it is and shows its content, unless the directory also *)
(* changed while it had no watch, or the panel was not told because what    *)
(* changed, or what stood for a burst of changes, is an entry it takes for  *)
(* ignored.                                                                 *)
ListingCatchesUp ==
  \A p \in Follows :
    (p \in visible /\ listing[p].shown = "old" /\ \E e \in FsEvents : e.dir = <<place[p], Top>>)
      ~> (p \notin visible \/ listing[p].shown # "old" \/ place[p] \in missed \/ p \in passed_over)
=============================================================================
