# termide: verification project

TLA+ models of termide, a terminal IDE written in Rust (`crates/*`, about 157 000 lines of
source): what TLC checks of them on small instances, and what TLAPS proves of them for every
value of their constants. `PROJECT.json` lists the components, the runs, the theorems, the
hazards and, for every definition that models code, the lines it models.

## 1. The system

termide is one process with an event loop on its main thread (`crates/app`). The loop draws,
waits for a key or a tick, and polls everything that runs beside it: the file-operation manager
(a thread for each copy, move or deletion), the file watcher (a thread of the `notify` library
and one for each directory walk), language servers (a reader and a writer thread each), git,
database and remote-file workers. They share nothing with the loop but channels, atomic flags and
a few mutexes. A session may also be *detached*: the whole process then runs inside a PTY owned by
a daemon, and terminals come and go over a Unix socket.

### Components

| component | state it keeps | operations | who it talks to |
|---|---|---|---|
| operation queue (`file-ops/src/queue.rs`) | waiting operations, by priority and arrival | enqueue, dequeue, remove, clear | owned by the manager |
| operation manager (`file-ops/src/manager.rs`) | `active` threads with their flags and channels, the queue, the next id | queue, start now, pause, resume, cancel, cancel all, resolve a conflict, poll | the application calls it; workers send events and receive answers |
| workers (`file-ops/src/worker/*`) | sources left, conflict mode, partial file | transfer, check a conflict, stop when cancelled | manager's channels and flags, file system |
| batch driver (`app`: `batch_handler`, `operation_manager_handler`, `state`) | one pending action, one modal, one batch | start the next sub-operation, ask, advance, pause, cancel | manager's events, modals |
| text buffer (`buffer`) | rope, undo and redo stacks, pending action, ranges for the language server | insert, delete, undo, redo, reload | editor panel |
| editor (`panel-editor`) | cursor, selection, `modified`, known file time, external-change flag | edit commands, save, force save, save as, reload, close | buffer, file system, watcher events, language server |
| LSP client (`lsp`) | server status, pending requests, outgoing queue | start, request, notify, shut down | a child process through two threads |
| detached sessions (`detach`) | the daemon's client slot, connections, registry files | spawn, attach, detach, list, reap | clients over a socket, the hosted termide, other termide processes through files |
| watcher (`watcher`, `app/watcher.rs`) | watched repositories and directories with counts, pending walks and installations, debounced events | watch, unwatch, install, poll | `notify`, walk threads, main loop |
| listings (`panel-file-manager`) | entries, the thread that reads them, `reload_dirty`, `is_stale`, what git said is ignored | load, reload, settle, filter events | watcher events through the main loop, a thread per read, one per git status |
| session store (`session`, `app/session.rs`) | session.toml and a file for each untitled document, per project | save, load, restore orphans, clean up, delete, switch, create, move | editors, file system |
| layout (`layout`) | groups of panels, focus, expanded panel | add, move, close, resize, split | panels |
| virtual file system (`vfs`) | connections, directory caches | list, read, write, reconnect | remote hosts through actors |
| git, highlight, terminal, database, configuration, widgets, document formats | see `PROJECT.json` | | |

### What is hard

* **Threads against a polling loop.** A worker's event is sent at one moment and handled at
  another; between the two the user pauses, cancels or answers. `poll()` itself drains the
  channel and then looks at each thread, one after the other.
* **Questions and answers by channel.** A worker that meets an existing file blocks until a dialog
  is answered; one answer too many or too few is taken by, or missing for, the next question.
* **Positions that outlive their text.** An undo action remembers a line and a column and is
  applied later, to a text other undos must have restored exactly. Columns count graphemes, the
  rope counts characters and the language server counts UTF-16 units.
* **The disk has other writers.** Whether a document may be closed or saved is decided from a time
  stamp and a flag that an event sets later; a listing is read by a thread while it changes.
* **One slot for everybody's dialog.** A batch of copies lives in the application's single
  `pending_action` between two operations; so do all other dialogs.
* **Calls that fail half-way.** A copy that is cancelled, a move across devices of which the second
  half fails, a session file that is cut short by a crash: what is left must be enough.
* **Threads that end each other.** The language client's shutdown joins a writer and a reader that
  wait for one another, for a queue and for a child process.
* **Two clients for one slot, and files as a registry.** The daemon's threads, and processes that
  merely list the sessions, read and write the same sidecar without a lock.

### Properties looked for

| component | correct means |
|---|---|
| manager and queue | thread limit; an operation is in one place; priority and arrival order; `Completed` is the last event; one question, one answer; nothing accepted is lost; whatever is accepted or cancelled ends |
| buffer | undo and redo walk along the versions the document had; no panic; the cursor follows an insertion; the language server's copy and the backlog make up the document |
| editor and file | what may be closed without a question is on disk; the external-change flag means somebody else's change; a text that is not saved is marked, through undo and redo |
| detached sessions | one client; every attach is answered; a client that is gone or released is so on both sides; the host ends with its program |
| batch driver | every file is handed over once and in order, counted for what became of it and asked about by name; a remote source is deleted only when it was copied; a batch ends |
| workers | no content is lost and no fragment stays, whatever fails or is cancelled; a success is one; what was not to be replaced is still there |
| watcher and listings | what a registered panel shows is watched, new directories included; a commit is reported in the end however busy the repository is; a listing catches up with the last change |
| LSP client | the server's document is the editor's when everything has arrived; requests and the loading mark end; shutdown ends |
| session store | a text that was saved is on disk until the user gives it up, and open whenever its project is; two documents share a file only if one save named both |

## 2. Modules

| module | models | kind |
|---|---|---|
| `OperationQueue` | queue.rs | operators on the queue, used by the manager and its proofs |
| `OperationManager` | manager.rs with the control of the workers | state machine; implements `OperationService` |
| `OperationService` | what the manager promises the application | abstract specification |
| `BatchOperation` | the application's batch of copies, moves, downloads or uploads | state machine over `OperationService`, whose actions its own conjoin |
| `LocalWorker` | worker/local.rs and conflict.rs: copy, move, delete | state machine over a small file system |
| `UndoTimeline` | what an editor promises about undo and redo | abstract specification |
| `TextGeometry` | line, grapheme and UTF-16 coordinates, replacing a range | operators and recursive functions |
| `EditHistory` | history.rs: push, merge, flush, undo, redo, trimming | operators and stacks |
| `TextBuffer` | buffer.rs, the editor's cursor and its LSP backlog | state machine; implements `UndoTimeline` |
| `EditorFile` | saving, reloading and external changes | state machine; its document *is* an `UndoTimeline` |
| `DetachSession` | crates/detach | state machine |
| `UnifiedWatcher` | crates/watcher | actions on watches, walks and debounced events |
| `FileListing` | the reload of a listing | operators on a listing |
| `DirectoryRefresh` | the main loop between the two, panels and other programs | composition of `UnifiedWatcher` and `FileListing` |
| `LspServer` | crates/lsp and the editor's use of it | state machine |
| `SessionStore` | crates/session, app/session.rs, the sessions dialog | state machine with crashes |
| `MC*` | constants of the runs | |
| `OperationManagerProofs`, `EditorFileProofs`, `ConnectionProofs` (of `DetachSession` and `LspServer`), `SessionStoreProofs`, `BatchOperationProofs`, `LocalWorkerProofs`, `DirectoryRefreshProofs`, `TextBufferProofs` | theorems | |

`OperationManager` is shown to implement `OperationService` and `BatchOperation` is built on
`OperationService`: together they are the manager and its application, without the product of
their states. `TextBuffer` and `EditorFile` meet at `UndoTimeline` in the same way.

Definitions called `X_Something` are mutations of `X`, each a plausible mistake in the code `X`
models: every property of a passing run is violated when one of them takes the place of its
original.

### OperationManager

`queue`, `active`, `next_id`, `event_rx` are the manager's fields; `pc` and `job` each operation's
thread and what is left for it, `resolution_rx` and `progress_rx` its channels, `paused` and
`cancelled` its control flags; `poll`, `visit`, `reading` and `events` are where `poll()` is;
`accepted`, `withdrawn` and `ended` record history for the properties. `poll()` is not atomic:
`PollDrain` takes the channel, `PollProgress` handles one drained event, `PollReap` meets a thread
that has finished, joins it and puts `Completed` behind the drained events, `PollRemove` drops it from `active`, `PollRefill`
dequeues and starts, and `PollReturn` hands the events over. Between any two the workers move:
`WorkerTop` (next source, cancelled, paused), `WorkerCheckConflict`, `WorkerAnswered`,
`WorkerTransfer`, `WorkerFail`, `WorkerEnd`. The user acts between polls: `QueueOperation`,
`StartNow` (and `StartNowAtLimit`, the branch that re-queues), `SetPaused`, `Cancel`, `CancelAll`,
`ResolveConflict`. `queue_operation` and `cancel_all` are part of the crate's interface though the
application does not call them. What a worker does to the file system is reduced to whether an item
conflicts, is transferred or fails. `resolve_conflict` also stores the chosen mode in the
operation; nothing reads it, and it is left out.

### TextBuffer, EditHistory, TextGeometry, UndoTimeline

A text is a sequence of characters; `Marks` are characters that share the grapheme before them, so
that columns and characters differ. Actions: `Insert`, `DeleteChar`, `Backspace`, `DeleteRange`,
`Undo`, `Redo` (and `RedoNothing`), `Reload`, and `Flush`, which sends the recorded ranges (or the
whole text) to the server. Editor commands that combine them (replace a selection, indent) are
several steps. A merged or trimmed history, an action whose line is not found any more and a range
past the end of the rope (a panic) are outcomes of the model as they are of the code.
`ImplementsTimeline` maps the stacks to a line of versions by undoing and redoing them:
`versions` is past, text, future, and every step must be a step of `UndoTimeline` or a stutter.
The next version is not prescribed, which is what makes the property about undo alone.

### EditorFile

The document is an `UndoTimeline` (which `TextBuffer` is proved to implement), the disk a content,
a line ending, a time and an author for each file. `Edit`, `UndoRedo` (with the comparison to the
disk that decides `modified`), `Save`, `ForceSave`, `SaveAs`, `Reload`; `Stat`, the step that reads
the time after a file was written or read; `Notice`, the handling of a watcher event;
`ExternalWrite` and `ExternalDelete`. Every write gets a later time than the one before. Files with
CRLF are compared as the code compares them: the buffer normalises, the file does not.

### DetachSession

`slot` and `lock` are `Session::client` and its mutex; `pc` places each thread: the server thread of
each client's connection (`hello`, `term`, the sidecar, the greeting, `loop`, `release`), those of
the hosted program's own requests to detach, the pump, the reaper, the launcher (the forking parent)
and a lister in another process. `down` are frames under way, `shut` the connections the daemon has
shut down, `conn` the client's view. `set_attached` is three steps, the read, the truncation and the
fill of the file, because other processes read it in between; `Send` may block on a full socket, with
the mutex held. One action per handler: `Accept`, `WriteTerm`, `SetAttached`, `Send`,
`ClientLoopEnds`, `DetachClient`, `Reap`, `Clean`, `Exit`, `Crash`; `Attach`, `Receive`, `Leave`;
`Fork`, `WriteInfo`; `Scan`, `Remove`. The results of `attach()` are `failed` (an error), `detached`
(exit code 0) and `ended` (the program's code). Input, resizes and SIGUSR1 are only forwarded and
left out, except that input for a program that has ended ends its connection.

### OperationService and BatchOperation

`status` is all the application can know of an operation: fresh, going, asking, over or withdrawn.
`BatchOperation` adds `pending` and `modal` (`pending_action`, `active_modal`), the `about` of an
open conflict dialog, the batch's `card`, `sub`, `pending_delete` and `pending_upload`
(`BatchState`), and of the manager `task`, `held`, `cancelling` and the `event` that poll() has just
returned. `StartBatchSubOperation` and `CheckPendingBatchOperation` are the functions of these names;
`HandleSuccess`, `HandlePartialSuccess`, `HandleFailed` and `HandleCancelled` are the branches of
`handle_operation_completed`; `ConfirmCopyOrMove`, `ConfirmUpload`, `AnswerConflict`, `AnswerRename`,
`AnswerQuestion`, `Acknowledge`, `Escape` and `OpenDialog` are the modal handlers; `TogglePause`,
`CancelConfirmed`, `StartStandalone` the cards. History variables: `fate`, `report`, `deleted`,
`crossed` (another operation's end was handled while the batch waited for one of its own) and
`misapplied`.

### LocalWorker

One thread, `step` by step: `Scan`, `TakeUp` a source and look for a conflict, `Rename` (or fall
back on copying across devices), `BeginCopy`, `OpenFile`, `WriteFile`, `SourceCopied`, and the second
phase of a move, `CleanUp`; `BeginDelete`, `DeleteFile`, `DeleteEnds`. Every call may fail, and
`Pause`, `Resume` and `Cancel` come at any moment. A file contains what some path contained at first,
or is `Fragment`, one that is being written: this is all the properties need of contents.

### UnifiedWatcher, FileListing, DirectoryRefresh

`kernel` are the directories `notify` has a watch on, `repo[r]` what the watcher keeps of a
repository (count, paths, the walk's thread and its channel, the installation queue, the debounce
after a change of .gitignore), `internal_rx` the unread events and `pending_git` the commit debounce.
A listing is what is shown against what is there (`loading`, `fresh`, `old`), the thread that reads
(`asked`, `read`, `outdated`), three flags of the panel, and of git's status the entries it calls
ignored: `cache`, what a panel goes by, and the thread that asks git (`status`, `found`), which a
later question leaves behind. An event names a directory and the entry of it that changed;
`Concerned` is the test of `OnFsUpdate`, which in a repository passes over an entry in the cache. A
burst of events may be told as one for each directory, any of them (`Fanouts`). The main loop's turn is in the code's
order: `TickPanels`, `Register`, `InstallWatches`, `PollWatcherEvents`, `Background`. The user opens,
closes, navigates, collapses and refreshes panels; others change files and entries, make and remove
directories, commit and edit .gitignore; threads end and intervals pass in `ThreadsAndTime`. History variables
name the places where the code is known to lose something (section 4): `strayed`, `deserted`, `gone`,
`missed`, `passed_over`.

### LspServer

`writer_rx` is the queue to the writer thread, `to_server` and `to_client` the pipes, `writer` and
`reader` where the threads are, `main` where the main thread is, through the two joins of
`shutdown()`; `editor` is an `Editor`'s part (`pending_change`, `completion_rx`, the loading mark) and
`server` the process with the document it has. The document is the number of its changes, a change
message the pair of numbers it leads from and to. `DocAfter` is what a server makes of messages of
either `TextDocumentSyncKind`. The server may answer, report progress, edit the document
(`workspace/applyEdit`), exit and die.

### SessionStore

A save is four kinds of step: the names (`Save`, atomic: one loop), which are times in milliseconds
and new, but may be the same for documents next to each other (`Namings`), each document's text
(`WriteBuffer`, `SkipEditor`), session.toml (`WriteSession`), the clean-up (`CleanupStaleBuffers`);
then what it was for (`Resume`, `SwitchToSession`, `CreateNewSession`, `MoveSessionTo`). A `Crash`
comes between any two, and a write may fail or be cut short. `Start` first removes old sessions
(`Gone`) and then loads: `Loads` are the documents session.toml names and the orphans, in any order.
`kept` is what the property speaks of: it gains a file when it was saved where the next start finds
it, and loses it when the user empties, names or closes the document, replaces or deletes the
session, when a write of it fails, or when its project is opened without a readable session.toml.
`shared` are the files that one save gave to several documents; what they contain is the text written
last, so `kept` never gains them and `OwnFile` excepts them. A name leaves `shared` when it is nowhere
any more.

## 3. Runs

| run | properties | instance |
|---|---|---|
| `manager_safety` | `ThreadsBounded` `OnePlace` `QueueInOrder` `OneQuestionPerConflict` `ImplementsService` | two slots, a queue of two, three operations of three priorities, one of which cannot be started; 4.3 M states |
| `manager_liveness` | `NothingLost` `AcceptedEnds` `CancelEnds` | one slot, two operations that ask, pause and resume, no limit to the queue |
| `batch` | `DeletedIsCopiedUncrossed` `CountedIsDone` `HandedInOrder` `AnswerIsForSource` `AllCounted` `BatchEnds` | three local files, two moved from a server, two moved to one, one small file; one slot, a standalone operation beside the batch |
| `worker` | `NothingLost` `OneFragment` `DoneMeansDone` `BystandersKept` | copy, delete, move by rename, across devices and mixed, of a file and a directory of two, over six layouts of the destination; 11 000 states |
| `buffer` | `NoPanic` `LspMirror` `ImplementsTimeline` `CursorFollowsInsertion` | texts of up to four characters, three edits with pastes of one and two lines, a history of one action, a backlog of two ranges; 47 000 states |
| `editor` | `SafeToClose` `UnsavedIsModified` `FlagMeansOther` | three files, one that may be deleted and one that may not be written, both line endings, save as, torn writes, another writer; 0.9 M states |
| `detach_clients` | `OneClient` | two clients, a request to detach, a crash, a listing, two frames in a socket; 3.2 M states |
| `detach_liveness` | `NoticesGone` `ReleasedLearns` `AttachAnswered` `SessionEnds` | two clients that compete, one frame in a socket |
| `refresh` | `RegisteredIsWatched` `WatchCovers` `GitEmits` `ListingCatchesUp` | a repository with a directory that comes and goes, ignored at first or not, a plain directory, two panels, one listing, three moves or changes of which at most two moves; 1.1 M states |
| `lsp` | `MirrorKept` `RequestsEnd` `LoadingEnds` `ShutdownEnds` | both sync kinds, two edits, a request, a progress report, an edit by the server; 0.5 M states |
| `session` | `SavedSurvives` `OwnFile` | a project and one nested in its directory, three names (symmetric), two documents, which a save may name alike, writes cut short; 8.9 M states |
| `worker_onto` | `SourcesKept`, **violated** | a file copied onto itself |

**Bounds.** One slot for two operations, or two for three, make every operation wait, be re-queued
and overtake another; a queue of two lets priorities disagree with arrival. `MaxEvents` bounds the
undelivered events a pause may add to (0 turns pausing off in the large safety run; the liveness
run has it). Three files make a batch whose middle one is skipped, renamed or failed between two
others; `MaxOps` is one more than the files, for the standalone operation. A directory of two
entries can be half copied, half deleted and merged; deeper trees repeat one level. A history of one
action (1000 in the code) reaches its end at the second edit, a backlog of two ranges (512) its
ceiling at the third; four characters hold two lines and an edit at each end of both. `MaxTime`
counts writes to the disk: four give the editor and the other program two turns each. Two clients
suffice for one to come while another goes; one frame is the smallest socket that blocks.
`MaxListings` is the number of listings by other processes. `MaxActs` = 3 are a panel opened on the
repository and two changes in it, or two moves and a change: an ignored directory is made, found by
git and changed within it; `MaxMoves` keeps the user to two of them. Commits are not bounded. `InstallChunk` of two splits the
installation of a repository of three directories into two turns of the loop; `Races = FALSE`
keeps directories and rules still while a repository is being installed, where the code admits to
missing changes. Two edits are an edit while another is under way. Three names let a document lose
its file to a failed write, get another and leave an orphan, in either project; they differ in nothing
but identity, which makes the symmetry sound for the invariants. `MaxShared` = 1: two documents are
named alike at a time, and a third is opened beside them.

**Deadlock** is checked in `manager_*`, `editor`, `refresh` and `session`. The other systems may stop:
a session ends with its program, a batch, a worker and a language client are over, a buffer has had
its edits.

**Fairness.** `OperationManager!SystemSpec`: the event loop polls again and again (its tick), and a
worker that can move moves (the scheduler). `AnsweredSpec` adds that the user answers: strong
fairness, because a question can be answered only between two polls and the loop keeps polling.
Cancelling, pausing and submitting are never assumed, and `AcceptedEnds` concerns behaviours in which
the user in the end leaves nothing paused.
`BatchOperation!FairSpec`: the loop polls and checks on its tick, a running operation ends, and the
user decides every conflict in the end, a typed name included; dialogs of his own choosing he may
open or not. Checks and answers get strong fairness because an event being handled disables them in
between.
`DetachSession!FairSpec`: threads are scheduled; a thread that waits for the mutex gets it when it is
free again and again (strong fairness of the server threads and the reaper; the pump could hold it
for ever otherwise, and `std::sync::Mutex` does not promise order but does not starve in practice);
a client keeps reading while it is attached. Nothing obliges a client to come or leave, or the
hosted program to end. Without the assumption on clients none of the liveness properties hold: a
client that stops reading while its connection is open keeps the mutex with the pump.
`DirectoryRefresh`: the loop turns, the threads that walk and read end, intervals pass; nobody is
obliged to change or look at anything, and git need not answer. `LspServer`: the client's threads run; a server that lives reads, answers, ends the
progress it began and ends with its stdin. The last is a real assumption: a server that ignores the
end of its input keeps `shutdown()` waiting.

**Exceptions the properties make.** A property with a history variable for its exception
(`crossed`, `misapplied`; `strayed`, `deserted`, `gone`, `missed`, `passed_over`; `overwritten`; `shared`, the losses
of `kept`) fails without it. Each exception is a behaviour of the code that section 4 describes; the
variable is raised by that behaviour alone, so the property speaks of all others.

## 4. Where code and documentation disagree

One disagreement is a run TLC must find violated.

* `worker_onto`: a file copied to its own path (two panels on one directory, Overwrite) is emptied by
  `File::create` on the destination before it is read; the copy is then refused for its size and
  removed as partial. The only copy is gone.

The models show more of the kind. They are steps the models take, or values of a constant that the
runs leave out.

*Manager.*
* `start_now` at the limit with a full queue (100 in the default configuration) answers Ok for an
  operation that is nowhere (manager.rs:142), and a queued request that cannot be started is dropped
  without a word when poll() comes to it (line 458); `NothingLost` fails after either, so
  `manager_liveness` leaves the queue unbounded and its requests can be started.
* A worker that waits for an answer does not look at its cancel flag (conflict.rs:95): `CancelEnds`
  needs `AnsweredSpec`. Cancelling an operation that is still queued produces no event.

*Batch* (`app/src/app`).
* The end of any other operation advances a waiting batch and is counted for the source it is at
  (operation_manager_handler.rs:100), and takes its `pending_delete` with it: with two slots, a remote
  source is deleted whose download is not over (line 110; `DeletedIsCopied`, the property without
  its exception, fails with `MaxConcurrent = 2`).
* Any dialog opened during a batch, and a worker's own conflict question, replace the batch in
  `pending_action`: it stops silently with its card open (line 584). `BatchEnds` leaves these out.
* `RenameAll` renames one file. A single small file has no card and stays pending for ever after
  Skip. An upload whose first destination is taken has no card either: Skip and Overwrite All stop
  it without a message. `start_remote_to_remote_operation` copies only the first source. A queued
  download that is cancelled leaves `pending_delete` set, and the next success deletes a source that
  was never downloaded. The clean-up offered after a cancelled copy is never shown for the batch's
  own cancel, whatever doc/en/operations.md says, and where it is shown its two answers are swapped
  (select_handler.rs:321) and the files to delete include ones that were there before.

*Workers.*
* The guard that removes a partial file is armed before `File::create`: a destination that cannot be
  opened for writing is removed though nothing was written. A typed new name is not looked up again,
  and what appears between the look-up and the creation is replaced.

*Buffer and editor.*
* A combining mark typed behind a letter is recorded behind the letter and becomes part of its
  grapheme; undo looks the column up again and removes past the end of the rope, which panics
  (`NoPanic` with a mark in `Marks`). Backspace over an accented letter followed by undo does not
  give the text back. After a paste that ends with a newline the cursor stands at the end of the
  last pasted line (`CursorFollowsInsertion` excepts it).
* Save As keeps the known time of the previous file, so the event of its own write counts as
  another program's change and the next save is refused: `FlagMeansOther` is about the file opened.
* `SafeToClose` fails when another program writes between the editor's write and its `stat`
  (`Interrupts = TRUE`) and when the file that was opened cannot be written. A save before the
  watcher's event is handled replaces the other program's text, whatever the comment at
  editor_file_io.rs:19 says. A file with CRLF stays modified after undo back to the saved text.

*Detached sessions.*
* `--list-sessions`, `--attach` without a name and `--detached` remove a session whose sidecar they
  cannot read, also while it is being started or rewritten; it lives on and cannot be attached to.
* A client may be thrown out right after it attached: the server thread of the *previous* client
  ends its loop later and lets go of whoever is in the slot (daemon.rs:369). It may be rejected
  although the slot was free, if the pump sends output before the greeting (daemon.rs:343-359). An
  attached client whose program ends while input is under way may be told 0 instead of the exit
  code. The sidecar's `attached` may stay wrong (daemon.rs:357), and an `.info` file may be written
  after the session's files were removed.

*Watcher and listings.*
* Entering a directory, its parent or home never registers a watch (`strayed`), though
  app/watcher.rs says "Called when panels are added or navigated". Closing one of two file managers of
  a repository unwatches it for both (`deserted`): the reference count never exceeds one. A directory
  removed and made again is not watched again (`gone`); changes between a walk and the installation
  of its watches are not seen (`missed`). A change of .gitignore registers a repository again that
  nobody shows. Ctrl+R and an uncovered panel may lose their reload to the debounce.
* In a repository a change of an entry git ignores is passed over (panel-file-manager/src/lib.rs:756),
  also when the entry is in the directory shown, where it is listed like any other: a log file keeps
  its old size and a `target` that was removed stays, until something else reloads the listing
  (`passed_over`). What git ignores is what it said last: an entry that is ignored no more is still
  passed over until the answer about the changed rules is in. "One representative per directory reaches
  exactly the same panels" (app/watcher.rs:22) holds but for this test: when a burst of more than 64
  changes is collapsed, an ignored entry may stand for a directory whose other changes are then passed
  over too.

*Language client.*
* A progress report handled between `ShuttingDown` and the writer's next look at the status replaces
  it; the writer then waits for ever on a queue whose sender the waiting thread holds, and the exit
  hangs (`overwritten`). `shutdown` and `exit` are normally never written. A dead server stays in the
  table and is never started again, and who waits for it is never answered. `initialized` and
  `didOpen` do not wait for the answer to `initialize`. Of two editors of one file only the first gets
  a server's edits, and closing one tells the server that the document is closed.

*Sessions.*
* If session.toml is torn or missing, `load_session` returns before it looks for orphans (the
  comments in app/session.rs and the branches for an unparsable file in `restore_orphaned_buffers` are about
  this case); the default layout opens and its first save removes the texts. Both files are written
  in place.
* A text that cannot be written is left out of session.toml, and the clean-up removes its older copy.
* Deleting or moving a session removes the sessions nested in its directory with their texts;
  the clean-up of old sessions takes care not to ("never shadowed by, or deleted together with, an
  ancestor session", maintenance.rs). `Removable` excludes it.
* `generate_unsaved_filename` promises "a unique filename" (maintenance.rs:13) and makes it of the time in
  milliseconds; `save_session` names all documents that need one in one loop (app/session.rs:28), so
  two untitled documents modified since the last save practically always get the same file. The second
  text overwrites the first, and after a restart both documents show it. The test
  `test_generate_unsaved_filename_uniqueness` knows ("They might be the same if called within the same
  millisecond") and asserts nothing. `Save` in the model names them alike or apart; `OwnFile` fails
  without its exception `shared`, at the first save of two documents.
* Switching to a session that cannot be read, or whose directory is gone, ends the program. A new
  session, or a move, to a directory that has one discards its unsaved texts.

## 5. Proofs

TLAPS proves the following from the named assumptions of the modules (limits are natural numbers,
requests are well typed, directories and the names of files are finite, `.` and `.git` are not directories that come and go, `NoClient` is not a client, `Absent` not a content, `None` and `Torn` not the contents of a session.toml), for every limit, set of
requests, number of operations, set of clients, socket capacity, set of texts, files and projects, and any layout of the file system.

* **OperationManager.** `TypeOKHolds`; `ThreadsBoundedHolds`; `OnePlaceHolds`; `QueueInOrderHolds`.
  - `TypeOK` becomes inductive with `ItemsLeft` (a worker in the middle of an item has one left, so
    that counting it off stays a natural number), together `TypeInv`.
  - `ThreadsInv` bounds `active` instead of the threads: `poll()` drops an operation only when it
    has joined its thread, and `active` grows only below the limit.
  - `PlaceInv` keeps the queue apart from `active` and from the operations whose end has been
    reported *or is about to be* (`Completed` in the vector `poll()` is building), all with ids below
    `next_id`; it says that such an operation's thread is joined and that it has left `active` when
    the queue is refilled, and carries the order of the queue along.
  - The order itself is `EnqueueInOrder` (`enqueue` keeps an ordered queue
    ordered when the id is larger than every queued one) with lemmas that removing an element or
    the head keeps it.
* **OperationManager implements OperationService.** `OneQuestionPerConflictHolds`;
  `ImplementsServiceHolds`, the refinement; `NothingLostHolds`, if every request can be started and
  there are no more operations than the queue can hold (both conditions are needed: section 4).
  - `QuestionInv` counts the questions and answers outstanding for an operation: in the channel, in
    the vector `poll()` builds, with the dialog, and in the channel back. The sum is one while its
    worker waits and zero otherwise, so no answer is left for the next question. It needs that the
    vector is empty between two polls, where `PollDrain` overwrites it.
  - `LifeInv`: whatever the queue, `active` or the vector know was accepted, what the user withdrew
    is in none of them, and accepted ids are below `next_id`. With it and `PlaceInv` every step of
    the manager is a step of the service (accept, deliver, answer, withdraw) or changes nothing the
    application can know.
  - `KeptInv` adds to `NothingLost` that a joined thread still in `active` has its end in the vector, so
    that `active.remove` takes nothing out that is not about to be reported. That the queue always has
    room is a pigeonhole argument: its ids are distinct and smaller than the new one (`QueueLength`).
* **EditorFile.** `TypeOKHolds`; `UnsavedIsModifiedHolds`; `FlagMeansOtherHolds`, if the name opened is
  not chosen for Save As; `SafeToCloseHolds`, if the opened file is one that can be written and
  nobody writes between the editor's access and its `stat`. The conditions are hypotheses of the
  theorems; the model without them has counterexamples (section 4).
  - `UnsavedInv` adds to the property what undo relies on: only a deleted file can be missing, and an
    untitled document that is not marked has no history (undo keeps the mark when there is no file
    to compare with).
  - `FlagInv`: while the content of the opened file is the editor's own, either its time is about to
    be read or the known time is that of the file and the flag is down.
  - `CloseInv`: a file later than the known time is flagged or has an event under way
    (`NoticedOrPending`); one that is not later holds the text last read or saved, and a document
    that differs from it is marked (`SeenIsSynced`); between an access and its `stat` the file is as
    the access left it (`StatInv`).
* **DetachSession.** `TypeOKHolds` and `OneClientHolds`. `OneClient` speaks of clients that *show*
  the session, which they begin to do when they read a frame sent earlier; `Admitted` adds the
  clients to whom such a frame is under way, and is inductive: a frame `Attached` is sent only to
  the client in the slot, and whoever leaves the slot is shut down in the same critical section.
* **LspServer**, in the same module. `LspTypeOKHolds` and `MirrorKeptHolds`, for any number of edits,
  requests and reports.
  - `Reads` says that messages, read one after the other, lead a server from one document to another;
    `ReadsMore` and `ReadsRest` put messages behind and take the first away, and `HeardIs` that it
    is what the recursive `Heard` computes.
  - `LspInv` adds to `MirrorKept` that it holds from the start, before the document is opened
    (`Mirrors`), and that capabilities the client knows of are those of the server (`SyncKept`), without
    which it could send ranges to a server that takes none. That the edits the server asked for, any
    number of them in one `Poll`, keep what one keeps is `AfterEditsIn`.
* **SessionStore.** `TypeOKHolds`; `OwnFileHolds`, without a hypothesis: documents that one save names
  alike are in the model, and the theorem is that nothing else gives a file to two of them;
  `SavedSurvivesHolds`, if no directory that is removed has sessions inside (section 4 has what
  happens without).
  - `LoadsProperty`: a load opens every text there is and nothing else, and each once if session.toml
    names none twice, but for the files that are shared. `SaveEffect`, `SaveShares` and `SaveDistinct`:
    a save gives new names to documents that need one and changes nothing else; a name that two of
    them get is shared, and one that ceases to be shared is in no editor and no session.toml
    (`SaveSessions`).
  - `OwnInv` adds to `OwnFile` that no session.toml names a file twice, and that the files the save
    under way has written are those of documents it has left behind, hence not of the one it is at;
    both but for the files that are shared.
  - `KeptInv` follows a kept file through a save: it is the file of an editor with unsaved text
    (`InEditors`); if the save has passed that editor, it is among the files the save has written
    (`InPanels`); so it is named by the session.toml when the others are removed (`Spared`). A file
    that is kept has a session and a text, so the clean-up of old sessions does not touch it.
* **BatchOperation.** `TypeOKHolds`; `HandedInOrderHolds`, `DeletedIsCopiedUncrossedHolds`,
  `CountedIsDoneHolds` and `AnswerIsForSourceHolds`, all up to the first operation that ends while
  the batch waits for another (`crossed`, which is raised by nothing else); `AllCountedHolds` without
  that exception.
  - Some thirty actions lead through the same code, so they are sorted first: a step of the driver
    with a batch in hand keeps the batch (with at most one source passed over), starts its current
    source, or shows the results (`Keeps`, `Starts`, `Finishes`; `ProcessDrives`, `ResolveDrives`), and
    `NextBatchStep` shows that each step of the system leaves the batch alone (`Quiet`), opens the
    copy dialog, hands the batch to the driver (`Carries`; after counting a source, `Counts`), or is a
    step of an upload. Each invariant has then one lemma per shape.
  - `GroundInv` holds whatever crosses: an operation that is over has the result its event carried,
    nothing is started before the batch is, and every source before the batch's place has been
    counted (`FilledInv`), so nothing is missing from the results.
  - `Alone` is the heart: the batch has at most one operation running or with its end unhandled
    (`OneEngaged`); that operation's source is where the batch stands, the earlier ones lie before it
    (`HandInv`, `UploadInv`), it is the one a remote source is kept back for (`DeleteInv`), and there is
    none while a dialog of the batch asks (`AskInv`, which needs the dialog to name the batch's place).
    The tick may go on only when the manager has no operation left, an answer only when a dialog is
    open, an event only when it is that operation's, unless it crosses.
  - `TruthInv` follows the counts: only the end of an operation counts a source as copied, and by
    `Alone` the end that arrives is that of the source counted.

* **LocalWorker.** `TypeOKHolds` and `OneFragmentHolds`; `NothingLostHolds` and `DoneMeansDoneHolds`, if
  the sources are different items that go to different names, none of them a source's (`Apart`);
  `BystandersKeptHolds`, if moreover a typed name is not that of a file there (`NamesFree`). A
  selection in one panel with the directory of another as its destination is `Apart`, unless
  the user types another item's name; the run `worker_onto` shows what a copy onto itself does. TLC
  evaluates both conditions on the instance of `worker`.
  - Every call may fail, so the steps are sorted first: those that go on, one by one, the end of a
    success, and the early returns in one (`Stops`), which have written nothing but the file being
    copied or the source being removed (`Shapes`). `Frame` says what each may write.
  - `PlaceInv`: no two sources have one place, and none the place of a source. A name made up by
    `generate_unique_path` is free when it is made up; that no later source takes it rests on
    `GoingInv`, by which the place of a source that is done with exists, so the question is asked.
  - `CopyInv` follows a copy (what is not still to be copied is there or being written), `LeftSafe`
    and `OverSafe` say of a source that is left that it is as it was and of one that is done with that
    all of it is at its place. One of the two survives every early return (`SourcesSafe`).
  - `ByInv`: a place a source has under another name than its own held nothing at first but what
    a source was allowed to replace.
  - `GoneInv` and `CountInv` are for the success: the difference between total and counted files is
    always what the remaining sources add up to, by what they held at first (`Rest`), although a move
    counts a source as one until it falls back on copying. That the recursive sum exists, is
    unique and is a number is proved by the least counterexample (`Upward`, `SumExists`, `SumUnique`).
* **DirectoryRefresh.** `TypeOKHolds`; `RegisteredIsWatchedHolds`; `WatchCoversHolds`, if `Races` is
  false: what changes between the walk of a repository and the installation of its watches is not
  seen (section 4).
  - `EntryInv`: a repository's entry is in one of four stages (not watched, walked, being installed,
    watched), its directories are its own, and a walk has found at least the top directory, which always
    exists and is never ignored; so what the walk queues is never nothing and no registration is lost
    between two stages (`StaysOn`). It also bounds the reference count by one.
  - `CoverInv` follows the directories through the stages: a walk has found all that are visible
    (`WalkCovers`), what is queued or watched covers them (`QueueCovers`), and a watched repository has
    the watch of its top directory (`TopWatched`), so that what is made or edited there later is
    reported. Changed rules are settled only by the step that starts the registration anew. What is in
    the set of watched paths but has lost its watch is in `gone`.

* **TextBuffer implements UndoTimeline.** `TypeOKHolds` and `LspMirrorHolds` for all texts;
  `NoPanicHolds` and `ImplementsTimelineHolds` for texts without combining marks;
  `CursorFollowsInsertionHolds` if moreover no text of several lines that is inserted ends in a newline.
  Both hypotheses are those of section 4, which says what happens without them.
  - The geometry comes first: lines and places of a text are defined by counting, so the lemmas are
    about sets of newlines and graphemes (`CharIdxProperty`, `PositionIsCursor`, `PositionPrefix`), and
    about `Replace` (`RemoveInserted` and `InsertRemoved` undo one another, `LspRoundTrip` finds a
    recorded range again).
  - Types and `LspMirror` are inductive together: a range is recorded against the text the server has
    reached by then. The server's copy is a recursive function of the backlog; that it exists, is
    unique and grows by one step with each range is proved by `Upward` (`AppliedIs`, `AppliedOneMore`).
  - `HInv`, for undo, says that the stacks lead through versions: there is a sequence of texts `h`
    such that each action that can be undone leads from one to the next (`IsPast`), and one for those
    that were undone (`IsFuture`). `Links` ties an action to the two texts, and its position to a
    place of both, which is why undo finds it. `MergeLinks` shows that two keystrokes merged lead over
    both, `PushVersions` that a push replaces the last version, adds one, or drops the first (`Grown`),
    `UndoVersions` and `RedoVersions` that a version moves from one sequence to the other.
  - For the refinement, `VersionsIs` shows that what the mapping computes from the stacks are these
    versions, and `UndoMaps`, `RedoMaps` and `EditMaps` that they move as `UndoTimeline` does.

Only model-checked: liveness (fairness is out of the prover's reach here). Every invariant of the runs is
a theorem, some under the hypotheses named above.

## 6. What could come next

* Remote workers over a file system that disconnects, with their retries.
* Two termide processes on one project: each removes the unsaved texts of the other.
* The registry of detached sessions with several daemons, and the colours git gives the entries of a
  listing, which a second thread fills in.

The project keeps to a dozen runs; a further one takes the place of one that asks little.

## 7. Not modelled

Rendering and widgets, themes, translations and configuration (static data), document formats and
syntax highlighting (pure transformations of text), the terminal emulator's escape sequences, wire
protocols of remote file systems and databases (library code), and thin wrappers around git and the
clipboard. They are the larger part of the source. The layout of panels is sequential state of one thread that unit tests cover. `PROJECT.json` names
each component with its reason.

Within the modelled components: symbolic links, permissions and metadata; progress messages; remote
workers beyond their outcome; nested repositories and systems whose watches are recursive; logs and
the layout in a session; positions inside a server's edits; indentation, search and vim commands of
the editor, which are sequences of the buffer's operations.

## 8. Running

    tlc -workers 2 -config manager_safety.cfg MCOperationManager    # likewise for the other runs
    tlapm OperationManagerProofs.tla
