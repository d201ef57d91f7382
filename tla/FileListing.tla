---------------------------- MODULE FileListing ----------------------------
(***************************************************************************)
(* The listing a file manager shows and how it is read anew: dir_load.rs   *)
(* and lib.rs of crates/panel-file-manager, for local directories.  A      *)
(* directory is read by a thread; reloads closer than RELOAD_DEBOUNCE_MS   *)
(* are put off.                                                            *)
(***************************************************************************)

(* shown:  nothing yet, what is in the directory now, or something else     *)
(* reload: async_reload_receiver: no thread, one that has not read the      *)
(*         directory, one that has, or had when it changed                  *)
(* dirty:  reload_dirty;  recent: the last reload was just now;  stale:     *)
(*         is_stale, set while the panel is collapsed                       *)
(* cache:  git_status_cache: the entries git said are ignored               *)
(* status: git_status_receiver: no thread, one that has not asked git, one  *)
(*         that has, and found these ignored                                *)
ListingType(entries) ==
  [shown : {"loading", "fresh", "old"}, reload : {"none", "asked", "read", "outdated"},
   dirty : BOOLEAN, recent : BOOLEAN, stale : BOOLEAN,
   cache : SUBSET entries, status : {"none", "asked", "read"}, found : SUBSET entries]

Unloaded ==
  [shown |-> "loading", reload |-> "none", dirty |-> FALSE, recent |-> FALSE, stale |-> FALSE,
   cache |-> {}, status |-> "none", found |-> {}]

(* refresh_git_status: a thread whose result is awaited is forgotten. *)
RefreshGitStatus(l) == [l EXCEPT !.status = "asked", !.found = {}]

(* check_git_status_async *)
CheckGitStatusAsync(l) ==
  IF l.status = "read" THEN [l EXCEPT !.cache = l.found, !.status = "none", !.found = {}] ELSE l

(* load_directory_inner: so are both threads. *)
LoadDirectoryInner(l) == RefreshGitStatus([l EXCEPT !.shown = "loading", !.reload = "asked", !.cache = {}])

(* load_directory *)
LoadDirectory(l) == LoadDirectoryInner([l EXCEPT !.recent = TRUE])

(* reload_directory: a reload too soon after another is skipped. *)
ReloadDirectory(l) == IF l.recent THEN l ELSE LoadDirectory(l)

(* Mutation: a reload too soon after another is skipped. *)
StartAsyncReload_Skips(l) ==
  IF l.recent \/ l.reload # "none" THEN l
  ELSE [l EXCEPT !.recent = TRUE, !.reload = "asked"]

(* start_async_reload: it is remembered.  The time is noted before it is    *)
(* known whether a thread is at work.                                       *)
StartAsyncReload(l) ==
  IF l.recent THEN [l EXCEPT !.dirty = TRUE]
  ELSE IF l.reload # "none" THEN [l EXCEPT !.recent = TRUE, !.dirty = TRUE]
  ELSE [l EXCEPT !.recent = TRUE, !.dirty = FALSE, !.reload = "asked"]

(* check_async_reload *)
CheckAsyncReload(l) ==
  IF l.reload = "none" THEN (IF l.dirty THEN StartAsyncReload(l) ELSE l)
  ELSE IF l.reload = "asked" THEN l
  ELSE [l EXCEPT !.reload = "none", !.shown = IF l.reload = "read" THEN "fresh" ELSE "old"]

(* MarkStale and RefreshIfStale *)
MarkStale(l) == [l EXCEPT !.stale = TRUE]
RefreshIfStale(l) == IF l.stale THEN RefreshGitStatus(ReloadDirectory([l EXCEPT !.stale = FALSE])) ELSE l

(* What OnFsUpdate and OnGitUpdate do in a repository about what concerns   *)
(* them.                                                                    *)
Update(l) == RefreshGitStatus(StartAsyncReload(l))

(* The threads read the directory and ask git; the directory changes; time  *)
(* passes.                                                                  *)
ReadDir(l) == [l EXCEPT !.reload = "read"]
ReadStatus(l, ignored) == [l EXCEPT !.status = "read", !.found = ignored]
Outdate(l) ==
  [l EXCEPT !.shown = IF @ = "fresh" THEN "old" ELSE @, !.reload = IF @ = "read" THEN "outdated" ELSE @]
Settle(l) == [l EXCEPT !.recent = FALSE]
=============================================================================
