-------------------------- MODULE OperationManager --------------------------
(***************************************************************************)
(* The background file-operation manager, crates/file-ops/src/manager.rs:  *)
(* the UI thread that accepts, pauses, cancels and polls operations, one   *)
(* worker thread per active operation, the priority queue behind them, and *)
(* the channels between them (events, progress, conflict resolutions).     *)
(*                                                                         *)
(* Every method of the manager runs on the UI thread, so each is one       *)
(* action, except poll(): it reads what the workers write concurrently,    *)
(* and is split at each of those reads.                                    *)
(***************************************************************************)
EXTENDS OperationQueue, FiniteSets

CONSTANTS
  MaxConcurrent,  \* OperationManagerConfig::max_concurrent
  MaxOps,         \* bound: ids handed out by generate_id
  MaxEvents,      \* bound: undelivered events before the user pauses again
  Requests,       \* the requests the application makes
  Resolutions     \* the answers the user gives to a conflict

(* ConflictMode and ConflictResolution (the two "All" groups coincide). *)
AllModes == {"OverwriteAll", "SkipAll", "RenameAll"}
ConflictMode == {"Ask"} \cup AllModes
ConflictResolution == {"Overwrite", "Skip", "Rename", "Cancel"} \cup AllModes

(* What a worker works with: its ConflictContext::conflict_mode, the items  *)
(* it has still to handle, and whether it moves them by a rename.           *)
Job == [mode : ConflictMode, left : Nat, renames : BOOLEAN]
NoJob == [mode |-> "Ask", left |-> 0, renames |-> FALSE]

(* A request: `valid` is what create_worker decides, Ok or Err. *)
RequestType == [priority : Priority, valid : BOOLEAN, job : Job]

ASSUME ManagerAssumption ==
  /\ MaxConcurrent \in Nat \ {0}
  /\ MaxOps \in Nat
  /\ MaxEvents \in Nat
  /\ Requests \subseteq RequestType
  /\ Resolutions \subseteq ConflictResolution

Ids == 1..MaxOps
None == 0

EventKind == {"Started", "Progress", "Completed", "Paused", "Resumed", "ConflictDetected"}
EventType == [kind : EventKind, id : Ids]
Event(kind, id) == [kind |-> kind, id |-> id]

VARIABLES
  next_id,        \* the id generate_id will return
  queue,          \* OperationQueue::operations
  active,         \* the keys of `active`
  paused,         \* OperationControl::pause_flag
  cancelled,      \* OperationControl::cancel_flag
  event_rx,       \* the event channel, oldest first
  progress_rx,    \* whether an operation's progress channel holds anything
  resolution_rx   \* the conflict-resolution channel of each operation
VARIABLES
  pc,             \* where a worker thread is ("none": no thread)
  job             \* what it works with
VARIABLES
  poll,           \* where poll() is
  visit,          \* active operations poll() has yet to visit
  reading,        \* the one whose progress it has drained but not reaped
  events          \* the vector poll() is going to return
VARIABLES
  accepted,       \* history: ids returned as Ok to the application
  withdrawn,      \* history: ids the user took out of the queue
  ended,          \* history: ids whose Completed poll() has returned
  asked           \* conflicts the application has been told of and not answered

uiVars == <<accepted, withdrawn, ended, asked>>
workerVars == <<pc, job>>
pollVars == <<poll, visit, reading, events>>
controlVars == <<paused, cancelled>>
channels == <<event_rx, progress_rx, resolution_rx>>
vars == <<next_id, queue, active, controlVars, channels, workerVars,
          pollVars, uiVars>>

Init ==
  /\ next_id = 1
  /\ queue = <<>>
  /\ active = {}
  /\ paused = [id \in Ids |-> FALSE]
  /\ cancelled = [id \in Ids |-> FALSE]
  /\ event_rx = <<>>
  /\ progress_rx = [id \in Ids |-> FALSE]
  /\ resolution_rx = [id \in Ids |-> <<>>]
  /\ pc = [id \in Ids |-> "none"]
  /\ job = [id \in Ids |-> NoJob]
  /\ poll = "idle"
  /\ visit = {}
  /\ reading = None
  /\ events = <<>>
  /\ accepted = {}
  /\ withdrawn = {}
  /\ ended = {}
  /\ asked = {}

-----------------------------------------------------------------------------
(* The methods of the manager. *)

(* Mutation: the limit is off by one. *)
HasCapacity_OffByOne == Cardinality(active) <= MaxConcurrent

HasCapacity == Cardinality(active) < MaxConcurrent

(* start_operation below the limit: the request moves into a worker, whose  *)
(* thread is spawned with fresh control flags and channels, and a Started   *)
(* event is sent.  A request create_worker refuses leaves nothing behind.   *)
Spawn(id, r) ==
  IF r.valid
  THEN /\ active' = active \cup {id}
       /\ pc' = [pc EXCEPT ![id] = "top"]
       /\ job' = [job EXCEPT ![id] = r.job]
       /\ event_rx' = Append(event_rx, Event("Started", id))
  ELSE UNCHANGED <<active, workerVars, event_rx>>

GenerateId == next_id \in Ids /\ next_id' = next_id + 1

(* queue_operation: refused, with the id spent, when the queue is full. *)
QueueOperation(r) ==
  /\ poll = "idle"
  /\ GenerateId
  /\ queue' = Enqueue(queue, [id |-> next_id, priority |-> r.priority, request |-> r])
  /\ accepted' = IF IsFull(queue) THEN accepted ELSE accepted \cup {next_id}
  /\ UNCHANGED <<active, controlVars, channels, workerVars, pollVars,
                 withdrawn, ended, asked>>

(* start_now below the limit: Err if the worker cannot be made. *)
StartNow(r) ==
  /\ poll = "idle"
  /\ HasCapacity
  /\ GenerateId
  /\ Spawn(next_id, r)
  /\ accepted' = IF r.valid THEN accepted \cup {next_id} ELSE accepted
  /\ UNCHANGED <<queue, controlVars, progress_rx, resolution_rx, pollVars,
                 withdrawn, ended, asked>>

(* Mutation: the operation is not put back into the queue. *)
StartNowAtLimit_NotQueued(r) ==
  /\ poll = "idle"
  /\ ~HasCapacity
  /\ GenerateId
  /\ accepted' = accepted \cup {next_id}
  /\ UNCHANGED <<queue, active, controlVars, channels, workerVars, pollVars,
                 withdrawn, ended, asked>>

(* start_now at the limit: the operation goes back to the queue with High   *)
(* priority.  The result of that enqueue is ignored and Ok(id) is returned. *)
StartNowAtLimit(r) ==
  /\ poll = "idle"
  /\ ~HasCapacity
  /\ GenerateId
  /\ queue' = Enqueue(queue, [id |-> next_id, priority |-> High, request |-> r])
  /\ accepted' = accepted \cup {next_id}
  /\ UNCHANGED <<active, controlVars, channels, workerVars, pollVars,
                 withdrawn, ended, asked>>

(* pause and resume act on active operations only. *)
SetPaused(id, flag, kind) ==
  /\ poll = "idle"
  /\ id \in active
  /\ paused[id] # flag
  /\ Len(event_rx) < MaxEvents
  /\ paused' = [paused EXCEPT ![id] = flag]
  /\ event_rx' = Append(event_rx, Event(kind, id))
  /\ UNCHANGED <<next_id, queue, active, cancelled, progress_rx,
                 resolution_rx, workerVars, pollVars, uiVars>>

Pause(id) == SetPaused(id, TRUE, "Paused")
Resume(id) == SetPaused(id, FALSE, "Resumed")

(* cancel: raises the flag of an active operation, removes a queued one. *)
Cancel(id) ==
  /\ poll = "idle"
  /\ id \in active \cup QueuedIds(queue)
  /\ cancelled' = [cancelled EXCEPT ![id] = @ \/ id \in active]
  /\ queue' = RemoveId(queue, id)
  /\ withdrawn' = withdrawn \cup ({id} \cap QueuedIds(queue))
  /\ UNCHANGED <<next_id, active, paused, channels, workerVars, pollVars,
                 accepted, ended, asked>>

CancelAll ==
  /\ poll = "idle"
  /\ cancelled' = [id \in Ids |-> cancelled[id] \/ id \in active]
  /\ queue' = <<>>
  /\ withdrawn' = withdrawn \cup QueuedIds(queue)
  /\ UNCHANGED <<next_id, active, paused, channels, workerVars, pollVars,
                 accepted, ended, asked>>

(* Mutations: the answer is not sent; the dialog stays open. *)
ResolveConflict_NotSent(id, resolution) ==
  /\ poll = "idle"
  /\ id \in asked
  /\ asked' = asked \ {id}
  /\ UNCHANGED <<next_id, queue, active, controlVars, channels, workerVars, pollVars,
                 accepted, withdrawn, ended>>

ResolveConflict_Twice(id, resolution) ==
  /\ poll = "idle"
  /\ id \in asked \cap active
  /\ Len(resolution_rx[id]) <= 1
  /\ resolution_rx' = [resolution_rx EXCEPT ![id] = Append(@, resolution)]
  /\ UNCHANGED <<next_id, queue, active, controlVars, event_rx, progress_rx,
                 workerVars, pollVars, uiVars>>

(* resolve_conflict: called once per ConflictDetected the application has   *)
(* been given (it opens one dialog for each).                               *)
ResolveConflict(id, resolution) ==
  /\ poll = "idle"
  /\ id \in asked
  /\ asked' = asked \ {id}
  /\ resolution_rx' = IF id \in active
                      THEN [resolution_rx EXCEPT ![id] = Append(@, resolution)]
                      ELSE resolution_rx
  /\ UNCHANGED <<next_id, queue, active, controlVars, event_rx, progress_rx,
                 workerVars, pollVars, accepted, withdrawn, ended>>

-----------------------------------------------------------------------------
(* poll(): drain the event channel, visit every active operation in the     *)
(* order of a HashMap, drop the completed ones, refill from the queue.      *)

PollDrain ==
  /\ poll = "idle"
  /\ poll' = "visit"
  /\ events' = event_rx
  /\ event_rx' = <<>>
  /\ visit' = active
  /\ UNCHANGED <<next_id, queue, active, controlVars, progress_rx,
                 resolution_rx, workerVars, reading, uiVars>>

PollProgress(id) ==
  /\ poll = "visit"
  /\ reading = None
  /\ id \in visit
  /\ reading' = id
  /\ progress_rx' = [progress_rx EXCEPT ![id] = FALSE]
  /\ events' = IF progress_rx[id] THEN Append(events, Event("Progress", id)) ELSE events
  /\ UNCHANGED <<next_id, queue, active, controlVars, event_rx, resolution_rx,
                 workerVars, poll, visit, uiVars>>

(* Mutation: the handle is not taken, and the thread found finished again. *)
PollReap_HandleKept ==
  /\ poll = "visit"
  /\ reading # None
  /\ visit' = visit \ {reading}
  /\ reading' = None
  /\ events' = IF pc[reading] = "finished" THEN Append(events, Event("Completed", reading)) ELSE events
  /\ UNCHANGED <<next_id, queue, active, controlVars, channels, workerVars, poll, uiVars>>

(* is_finished and join: the thread is gone, its operation not yet removed. *)
PollReap ==
  /\ poll = "visit"
  /\ reading # None
  /\ visit' = visit \ {reading}
  /\ reading' = None
  /\ IF pc[reading] = "finished"
     THEN /\ pc' = [pc EXCEPT ![reading] = "joined"]
          /\ events' = Append(events, Event("Completed", reading))
     ELSE UNCHANGED <<pc, events>>
  /\ UNCHANGED <<next_id, queue, active, controlVars, channels, job,
                 poll, uiVars>>

(* active.remove drops the control flags and channels with the operation.   *)
PollRemove ==
  /\ poll = "visit"
  /\ visit = {}
  /\ poll' = "refill"
  /\ LET kept == {id \in active : pc[id] # "joined"}
     IN  /\ active' = kept
         /\ paused' = [id \in Ids |-> id \in kept /\ paused[id]]
         /\ cancelled' = [id \in Ids |-> id \in kept /\ cancelled[id]]
         /\ progress_rx' = [id \in Ids |-> id \in kept /\ progress_rx[id]]
         /\ resolution_rx' = [id \in Ids |-> IF id \in kept THEN resolution_rx[id] ELSE <<>>]
  /\ UNCHANGED <<next_id, queue, event_rx, workerVars, visit, reading,
                 events, uiVars>>

(* Mutation: peek instead of dequeue. *)
PollRefill_Peek ==
  /\ poll = "refill"
  /\ HasCapacity
  /\ queue # <<>>
  /\ Spawn(Head(queue).id, Head(queue).request)
  /\ UNCHANGED <<next_id, queue, controlVars, progress_rx, resolution_rx, pollVars, uiVars>>

(* One turn of the refill loop; an error from start_operation is discarded. *)
PollRefill ==
  /\ poll = "refill"
  /\ HasCapacity
  /\ queue # <<>>
  /\ queue' = Tail(queue)
  /\ Spawn(Head(queue).id, Head(queue).request)
  /\ UNCHANGED <<next_id, controlVars, progress_rx, resolution_rx, pollVars, uiVars>>

About(kind) == {events[i].id : i \in {j \in 1..Len(events) : events[j].kind = kind}}

(* poll() returns its vector, and the application takes note of what ended  *)
(* and of the conflicts it has to ask about.                                *)
PollReturn ==
  /\ poll = "refill"
  /\ ~(HasCapacity /\ queue # <<>>)
  /\ poll' = "idle"
  /\ events' = <<>>
  /\ ended' = ended \cup About("Completed")
  /\ asked' = asked \cup About("ConflictDetected")
  /\ UNCHANGED <<next_id, queue, active, controlVars, channels, workerVars,
                 visit, reading, accepted, withdrawn>>

Poll == PollDrain \/ (\E id \in Ids : PollProgress(id)) \/ PollReap \/ PollRemove
        \/ PollRefill \/ PollReturn

-----------------------------------------------------------------------------
(* The worker threads: the control every worker shares, that of             *)
(* LocalCopyWorker::execute_with_conflicts.  What is copied is modelled     *)
(* elsewhere; here an item is handled, skipped, refused or never reached.   *)

Goto(id, label) == pc' = [pc EXCEPT ![id] = label]

(* The thread returns its result; what it worked with is gone. *)
Finish(id) ==
  /\ Goto(id, "finished")
  /\ job' = [job EXCEPT ![id] = NoJob]

(* An item is over: copied, moved or skipped. *)
ItemDone(id, newMode) ==
  /\ job' = [job EXCEPT ![id].left = @ - 1, ![id].mode = newMode]
  /\ Goto(id, "top")

SendProgress(id) == progress_rx' = [progress_rx EXCEPT ![id] = TRUE]

workerFrame == <<next_id, queue, active, controlVars, pollVars, uiVars>>

(* The top of the loop over the sources: Cancelled, or the next source. *)
WorkerTop(id) ==
  /\ pc[id] = "top"
  /\ job[id].left > 0
  /\ IF cancelled[id] THEN Finish(id) ELSE Goto(id, "conflict") /\ UNCHANGED job
  /\ UNCHANGED <<workerFrame, channels>>

(* After the last source: Success, or PartialSuccess if some were skipped. *)
WorkerEnd(id) ==
  /\ pc[id] = "top"
  /\ job[id].left = 0
  /\ SendProgress(id)
  /\ Finish(id)
  /\ UNCHANGED <<workerFrame, event_rx, resolution_rx>>

(* check_conflict: the destination may or may not exist. *)
WorkerCheckConflict(id) ==
  /\ pc[id] = "conflict"
  /\ \/ /\ Goto(id, "transfer")                     \* no such destination
        /\ UNCHANGED <<event_rx, job>>
     \/ /\ job[id].mode = "SkipAll"
        /\ ItemDone(id, "SkipAll")
        /\ UNCHANGED event_rx
     \/ /\ job[id].mode = "Ask"
        /\ event_rx' = Append(event_rx, Event("ConflictDetected", id))
        /\ Goto(id, "ask")
        /\ UNCHANGED job
  /\ UNCHANGED <<workerFrame, progress_rx, resolution_rx>>

(* resolution_rx.recv(): blocks, whatever the control flags say. *)
WorkerAnswered(id) ==
  /\ pc[id] = "ask"
  /\ resolution_rx[id] # <<>>
  /\ resolution_rx' = [resolution_rx EXCEPT ![id] = Tail(@)]
  /\ LET resolution == Head(resolution_rx[id])
         newMode == IF resolution \in AllModes THEN resolution ELSE job[id].mode
     IN  \/ resolution = "Cancel" /\ Finish(id)
         \/ resolution \in {"Skip", "SkipAll"} /\ ItemDone(id, newMode)
         \/ /\ resolution \notin {"Cancel", "Skip", "SkipAll"}
            /\ Goto(id, "transfer")
            /\ job' = [job EXCEPT ![id].mode = newMode]
  /\ UNCHANGED <<workerFrame, event_rx, progress_rx>>

(* Mutation: wait_if_paused does not look at the cancel flag. *)
WorkerTransfer_DeafPause(id) ==
  /\ pc[id] = "transfer"
  /\ job[id].renames \/ ~paused[id]
  /\ IF cancelled[id] /\ ~job[id].renames
     THEN Finish(id) /\ UNCHANGED progress_rx
     ELSE ItemDone(id, job[id].mode) /\ SendProgress(id)
  /\ UNCHANGED <<workerFrame, event_rx, resolution_rx>>

(* The transfer of one item: check_cancelled, then wait_if_paused, which    *)
(* looks at the cancel flag again; a rename consults neither flag.          *)
WorkerTransfer(id) ==
  /\ pc[id] = "transfer"
  /\ \/ /\ ~job[id].renames /\ cancelled[id]
        /\ Finish(id)
        /\ UNCHANGED progress_rx
     \/ /\ job[id].renames \/ ~(cancelled[id] \/ paused[id])
        /\ ItemDone(id, job[id].mode)
        /\ SendProgress(id)
  /\ UNCHANGED <<workerFrame, event_rx, resolution_rx>>

(* Failed: a source that cannot be read, an i/o error, a panic. *)
WorkerFail(id) ==
  /\ \/ pc[id] = "conflict"
     \/ pc[id] = "transfer" /\ (job[id].renames \/ ~paused[id])
  /\ Finish(id)
  /\ UNCHANGED <<workerFrame, channels>>

Worker(id) ==
  \/ WorkerTop(id) \/ WorkerEnd(id) \/ WorkerCheckConflict(id) \/ WorkerAnswered(id)
  \/ WorkerTransfer(id) \/ WorkerFail(id)

-----------------------------------------------------------------------------
Submit(r) == QueueOperation(r) \/ StartNow(r) \/ StartNowAtLimit(r)

User == \/ \E r \in Requests : Submit(r)
        \/ \E id \in Ids : Pause(id) \/ Resume(id) \/ Cancel(id)
        \/ CancelAll

Answer(id) == \E resolution \in Resolutions : ResolveConflict(id, resolution)

Next == User \/ (\E id \in Ids : Answer(id)) \/ Poll \/ (\E id \in Ids : Worker(id))

(* The event loop calls poll() on every tick and the OS schedules every     *)
(* worker; the user is under no obligation.                                 *)
SystemFairness == WF_vars(Poll) /\ \A id \in Ids : WF_vars(Worker(id))

Spec == Init /\ [][Next]_vars
SystemSpec == Spec /\ SystemFairness
(* The same with a user who answers every conflict dialog.  The keystroke    *)
(* is handled between two ticks, when no poll() is under way: hence SF.      *)
AnsweredSpec == SystemSpec /\ \A id \in Ids : SF_vars(Answer(id))

-----------------------------------------------------------------------------
Location == {"none", "top", "conflict", "ask", "transfer", "finished", "joined"}

(* Type correctness of every variable. *)
TypeOK ==
  /\ next_id \in 1..MaxOps + 1
  /\ queue \in Seq(Entries(Ids, Requests))
  /\ active \subseteq Ids
  /\ paused \in [Ids -> BOOLEAN]
  /\ cancelled \in [Ids -> BOOLEAN]
  /\ event_rx \in Seq(EventType)
  /\ progress_rx \in [Ids -> BOOLEAN]
  /\ resolution_rx \in [Ids -> Seq(ConflictResolution)]
  /\ pc \in [Ids -> Location]
  /\ job \in [Ids -> Job]
  /\ poll \in {"idle", "visit", "refill"}
  /\ visit \subseteq Ids
  /\ reading \in Ids \cup {None}
  /\ events \in Seq(EventType)
  /\ accepted \subseteq Ids
  /\ withdrawn \subseteq Ids
  /\ ended \subseteq Ids
  /\ asked \subseteq Ids

Threads == {id \in Ids : pc[id] \in Location \ {"none", "joined"}}

(* There are never more worker threads than max_concurrent, and none whose  *)
(* operation has been dropped from `active`: whatever poll() removes has    *)
(* been joined, and start_operation re-queues at the limit.                 *)
ThreadsBounded ==
  /\ Threads \subseteq active
  /\ Cardinality(Threads) <= MaxConcurrent

(* An operation is in one place: never queued twice, never queued again     *)
(* once it runs or has ended, never known under an id not handed out.       *)
OnePlace ==
  /\ DistinctIds(queue)
  /\ QueuedIds(queue) \cap active = {}
  /\ ended \cap (QueuedIds(queue) \cup active) = {}
  /\ \A id \in QueuedIds(queue) \cup active \cup ended : id < next_id

(* The queue holds the operations of each priority in arrival order and     *)
(* higher priorities first, the ones start_now had to re-queue included.    *)
QueueInOrder == InOrder(queue)

(* A worker blocked on a conflict has exactly one question outstanding: in  *)
(* the channel, in the vector being returned, with the application, or      *)
(* answered and not yet read; no other operation has any, so an answer is   *)
(* never taken by a later conflict than the one it was given for.           *)
Outstanding(id) ==
  Cardinality({i \in 1..Len(event_rx) : event_rx[i] = Event("ConflictDetected", id)})
  + Cardinality({i \in 1..Len(events) : events[i] = Event("ConflictDetected", id)})
  + (IF id \in asked THEN 1 ELSE 0) + Len(resolution_rx[id])

OneQuestionPerConflict ==
  \A id \in Ids : Outstanding(id) = IF pc[id] = "ask" THEN 1 ELSE 0

Reported(id) == id \in ended \/ id \in About("Completed")

(* The documented contract of Ok(id): the operation is waiting, running or  *)
(* over, unless the user took it out of the queue.                          *)
NothingLost ==
  \A id \in accepted : \/ id \in QueuedIds(queue) \cup active \cup withdrawn
                       \/ Reported(id)

(* The manager implements the service the application is written against:   *)
(* no end is told twice or before a question was answered, none is told of  *)
(* an operation taken out of the queue, no id comes back to life, and an    *)
(* operation that is over is not heard of again although events, progress   *)
(* and the end of the thread are read at different moments.                 *)
HeardOf(id) == \/ \E i \in 1..Len(events) : events[i].id = id
               \/ \E i \in 1..Len(event_rx) : event_rx[i].id = id

ServiceStatus ==
  [id \in Ids |-> IF id \in ended /\ ~HeardOf(id) THEN "over"
                  ELSE IF id \in asked THEN "asking"
                  ELSE IF id \in withdrawn THEN "withdrawn"
                  ELSE IF id \in accepted THEN "going" ELSE "fresh"]

Service == INSTANCE OperationService WITH status <- ServiceStatus
ImplementsService == Service!ServiceSpec

(* Unless the user goes on pausing for ever, every accepted operation comes *)
(* to an end the application is told of, or was withdrawn from the queue.   *)
AcceptedEnds ==
  <>[](\A id \in Ids : ~paused[id]) =>
     \A id \in Ids : id \in accepted ~> id \in ended \cup withdrawn

(* cancel() of a running operation ends it, paused or not, and its end is   *)
(* reported, once a question it may be waiting with has been answered.      *)
CancelEnds == \A id \in Ids : (id \in active /\ cancelled[id]) ~> id \in ended
=============================================================================
