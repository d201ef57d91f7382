--------------------------- MODULE UnifiedWatcher ---------------------------
(***************************************************************************)
(* The watcher of directories and repositories, crates/watcher/src/lib.rs, *)
(* on a system whose watches are not recursive (RECURSIVE_ROOT_WATCH is    *)
(* off): a repository is walked by a thread, and one watch per directory   *)
(* installed in chunks by the main loop.                                   *)
(*                                                                         *)
(* Repositories are not nested.  What the debouncer holds back is in       *)
(* internal_rx at once: the main loop may be late to read it.              *)
(***************************************************************************)
EXTENDS Integers, FiniteSets

CONSTANTS
  Repos,         \* roots of git repositories
  Plain,         \* directories in no repository
  Subs,          \* names of directories in a repository that come and go
  InstallChunk   \* INSTALL_CHUNK: watches installed per turn of the main loop

Top == "."
Git == ".git"
Dirs == (Repos \X ({Top, Git} \cup Subs)) \cup (Plain \X {Top})

None == "none"
Running == "running"
Over == "over"

ASSUME WatcherAssumption ==
  /\ InstallChunk \in Nat \ {0}
  /\ Repos \cap Plain = {}
  /\ Subs \cap {Top, Git} = {}

VARIABLES
  exists, ignored,      \* the directories there are, those the rules ignore
  kernel,               \* the directories notify has a watch on
  repo,                 \* per repository: see NotWatched
  watched_dirs,         \* [Plain -> reference count]
  internal_rx,          \* events not yet read: see Fs, GitChange, GitignoreChange
  pending_git,          \* per repository: none, or a change that is young or due
  pending_gitignore

fsVars == <<exists, ignored>>
pendingVars == <<pending_git, pending_gitignore>>
watcherVars == <<kernel, repo, watched_dirs, internal_rx, pendingVars>>

(* watched_repos (count, paths), pending_repo_walks (walk: none, running or *)
(* over, and what it found) and pending_repo_installs (queue, installed).   *)
NotWatched == [count |-> 0, paths |-> {}, walk |-> None, found |-> {}, queue |-> {}, installed |-> {}]

(* What changed in a directory: an entry that is a directory, or the        *)
(* directory itself for a file in it.                                        *)
Fs(dir, entry) == [kind |-> "fs", dir |-> dir, entry |-> entry]
GitChange(r) == [kind |-> "git", root |-> r]
GitignoreChange(r) == [kind |-> "gitignore", root |-> r]

InRepo(r) == {d \in exists : d[1] = r}
Visible(r) == InRepo(r) \ ignored

WatcherInit ==
  /\ kernel = {}
  /\ repo = [r \in Repos |-> NotWatched]
  /\ watched_dirs = [q \in Plain |-> 0]
  /\ internal_rx = {}
  /\ pending_git = [r \in Repos |-> None]
  /\ pending_gitignore = [r \in Repos |-> None]

-----------------------------------------------------------------------------
(* Registration, for the entry of one repository. *)

IsWatchingRepo(r) == repo[r].count > 0 \/ repo[r].walk # None \/ repo[r].queue # {}
IsWatchingDir(q) == watched_dirs[q] > 0

(* watch_repository *)
Watch(e) ==
  IF e.count > 0 THEN [e EXCEPT !.count = @ + 1]
  ELSE IF e.walk # None THEN e
  ELSE [e EXCEPT !.walk = Running]

(* unwatch_repository, and the watches it removes; what is installed of a   *)
(* registration under way stays.                                            *)
Unwatch(e) ==
  IF e.count > 1 THEN [NotWatched EXCEPT !.count = e.count - 1, !.paths = e.paths] ELSE NotWatched
Released(e) == IF e.count = 1 THEN e.paths ELSE {}

(* collect_repo_watch_paths, on its thread. *)
WalkEnds(r) ==
  /\ repo[r].walk = Running
  /\ repo' = [repo EXCEPT ![r].walk = Over, ![r].found = Visible(r)]
  /\ UNCHANGED <<fsVars, kernel, watched_dirs, internal_rx, pendingVars>>

-----------------------------------------------------------------------------
(* poll_pending: walks that have landed are queued, then one chunk of the   *)
(* queues is installed, one repository after the other in any order.        *)

(* Mutation: the walk is received twice, and found gone the second time. *)
Landed_TwiceReceived(e) ==
  IF e.walk # Over THEN e ELSE [e EXCEPT !.walk = None, !.found = {}]

Landed(e) ==
  IF e.walk # Over THEN e ELSE [e EXCEPT !.walk = None, !.found = {}, !.queue = e.found]

Installed(e, taken) ==
  LET done == e.installed \cup (taken \cap e.queue \cap exists)
  IN  IF e.queue = {} THEN e
      ELSE IF e.queue \subseteq taken THEN [NotWatched EXCEPT !.count = 1, !.paths = done]
      ELSE [e EXCEPT !.queue = @ \ taken, !.installed = done]

PollPending ==
  LET landed == [r \in Repos |-> Landed(repo[r])]
      queued == UNION {landed[r].queue : r \in Repos}
      size == IF Cardinality(queued) < InstallChunk THEN Cardinality(queued) ELSE InstallChunk
  IN  /\ \E taken \in SUBSET queued :
           /\ Cardinality(taken) = size
           /\ Cardinality({r \in Repos : landed[r].queue \cap taken \notin {{}, landed[r].queue}}) <= 1
           /\ kernel' = kernel \cup (taken \cap exists)
           /\ repo' = [r \in Repos |-> Installed(landed[r], taken)]
      /\ UNCHANGED <<fsVars, watched_dirs, internal_rx, pendingVars>>

-----------------------------------------------------------------------------
(* poll_events, and what the application does with GitignoreChanged. *)

FsEvents == {e \in internal_rx : e.kind = "fs"}

(* Mutation: the window starts anew with every change. *)
GitPending_Sliding(r) ==
  IF GitChange(r) \in internal_rx THEN "young" ELSE pending_git[r]

(* The window of a burst starts with its first change ... *)
GitPending(r) ==
  IF GitChange(r) \in internal_rx /\ pending_git[r] = None THEN "young" ELSE pending_git[r]
(* ... that of the ignore rules with the last. *)
GitignorePending(r) ==
  IF GitignoreChange(r) \in internal_rx THEN "young" ELSE pending_gitignore[r]

GitCommits == {r \in Repos : GitPending(r) = "due"}
GitignoreChanges == {r \in Repos : GitignorePending(r) = "due"}

(* Mutation: only what there was at the walk is watched. *)
Fresh_None(r) == {}

(* watch_new_repo_dirs; a directory that is new is watched even if ignored. *)
Fresh(r) ==
  IF repo[r].count = 0 THEN {}
  ELSE {d \in InRepo(r) \ repo[r].paths : \E e \in FsEvents : d = e.entry}

PollEvents ==
  LET extended == [r \in Repos |-> [repo[r] EXCEPT !.paths = @ \cup Fresh(r)]]
      again == GitignoreChanges
      unless_due(pending) == IF pending = "due" THEN None ELSE pending
  IN  /\ repo' = [r \in Repos |-> IF r \in again THEN Watch(Unwatch(extended[r])) ELSE extended[r]]
      /\ kernel' = (kernel \cup UNION {Fresh(r) : r \in Repos})
                     \ UNION {Released(extended[r]) : r \in again}
      /\ internal_rx' = {}
      /\ pending_git' = [r \in Repos |-> unless_due(GitPending(r))]
      /\ pending_gitignore' = [r \in Repos |-> unless_due(GitignorePending(r))]
      /\ UNCHANGED <<fsVars, watched_dirs>>

(* GIT_DEBOUNCE_MS have passed. *)
GitElapses(r) ==
  /\ pending_git[r] = "young"
  /\ pending_git' = [pending_git EXCEPT ![r] = "due"]
  /\ UNCHANGED <<fsVars, kernel, repo, watched_dirs, internal_rx, pending_gitignore>>
GitignoreElapses(r) ==
  /\ pending_gitignore[r] = "young"
  /\ pending_gitignore' = [pending_gitignore EXCEPT ![r] = "due"]
  /\ UNCHANGED <<fsVars, kernel, repo, watched_dirs, internal_rx, pending_git>>

-----------------------------------------------------------------------------
(* What other programs do, and the events of the watches there are. *)

Report(dir, events) == internal_rx' = IF dir \in kernel THEN internal_rx \cup events ELSE internal_rx

(* A file in the directory, or the mode of a directory in it. *)
Change(d, entry) ==
  /\ {d, entry} \subseteq exists
  /\ Report(d, {Fs(d, entry)})
  /\ UNCHANGED <<fsVars, kernel, repo, watched_dirs, pendingVars>>

MakeDir(r, s) ==
  /\ <<r, s>> \notin exists
  /\ exists' = exists \cup {<<r, s>>}
  /\ Report(<<r, Top>>, {Fs(<<r, Top>>, <<r, s>>)})
  /\ UNCHANGED <<ignored, kernel, repo, watched_dirs, pendingVars>>

(* The kernel drops the watch with the directory. *)
RemoveDir(r, s) ==
  /\ <<r, s>> \in exists
  /\ exists' = exists \ {<<r, s>>}
  /\ kernel' = kernel \ {<<r, s>>}
  /\ Report(<<r, Top>>, {Fs(<<r, Top>>, <<r, s>>)})
  /\ UNCHANGED <<ignored, repo, watched_dirs, pendingVars>>

EditRules(r, s) ==
  /\ ignored' = IF <<r, s>> \in ignored THEN ignored \ {<<r, s>>} ELSE ignored \cup {<<r, s>>}
  /\ Report(<<r, Top>>, {GitignoreChange(r), Fs(<<r, Top>>, <<r, Top>>)})
  /\ UNCHANGED <<exists, kernel, repo, watched_dirs, pendingVars>>

Commit(r) ==
  /\ Report(<<r, Git>>, {GitChange(r)})
  /\ UNCHANGED <<fsVars, kernel, repo, watched_dirs, pendingVars>>
=============================================================================
