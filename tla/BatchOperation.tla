--------------------------- MODULE BatchOperation ---------------------------
(***************************************************************************)
(* The application's side of a copy or move of several files,              *)
(* crates/app/src/app: a BatchOperation is handed from one pending_action  *)
(* to the next; each of its files becomes one operation of the manager,    *)
(* and the end of that operation, a conflict dialog or the tick of the     *)
(* event loop carries the batch on.                                        *)
(*                                                                         *)
(* There is ONE pending_action and one modal for the whole application:    *)
(* other dialogs, standalone operations (an editor saving to a remote      *)
(* file) and a worker's own questions share them with the batch.  The      *)
(* manager is the abstract OperationService.                               *)
(***************************************************************************)
EXTENDS OperationService, FiniteSets

CONSTANTS
  Batches,        \* the copies and moves the user may ask for
  MaxConcurrent,  \* OperationManagerConfig::max_concurrent
  MaxStandalone   \* bound: standalone operations

(* Where from and where to, decided by the paths; `large`: a directory or a *)
(* file of more than 1 MB.                                                  *)
BatchType == [n : Nat \ {0}, kind : {"local", "download", "upload"}, move : BOOLEAN, large : BOOLEAN]

ASSUME BatchAssumption ==
  /\ MaxOps \in Nat /\ MaxConcurrent \in Nat \ {0} /\ MaxStandalone \in Nat
  /\ Batches \subseteq BatchType

Results == {"Success", "PartialSuccess", "Failed", "Cancelled"}
None == 0
NoEvent == [id |-> None, kind |-> "none"]

VARIABLES
  batch,           \* what the user is going to ask for: sources 1..batch.n
  pending,         \* AppState::pending_action
  modal,           \* AppState::active_modal
  about,           \* the source an open conflict dialog names
  card,            \* the batch's card: batch.tracking_id and its is_paused
  sub,             \* batch.sub_operation_id
  pending_delete,  \* batch.pending_delete: a remote source
  pending_upload   \* batch.pending_upload: the source being uploaded
VARIABLES
  task,            \* what an operation was started for (source None: standalone)
  event,           \* what poll() has just returned: an operation and how it ended
  held,            \* operations paused in the manager
  cancelling,      \* operations whose cancel flag is up
  result           \* how an operation started for a source ended
VARIABLES
  fate,            \* history: what became of the batch
  report,          \* history: the counts shown at its end
  deleted,         \* history: remote sources deleted
  crossed,         \* history: another operation ended while the batch ran
  misapplied       \* history: an answer was applied to another source

driver == <<pending, modal, about, card, sub, pending_delete, pending_upload>>
manager == <<status, task, event, held, cancelling, result>>
history == <<fate, report, deleted, crossed, misapplied>>
vars == <<batch, driver, manager, history>>

Sources == 1..batch.n

(* The part of BatchOperation that steers: `counted` stands for the three   *)
(* counters and says which source each of them was raised for.              *)
Outcome == {"none", "success", "partial", "error", "skipped"}
NewOp == [index |-> 1, mode |-> "Ask", paused |-> FALSE, counted |-> [s \in Sources |-> "none"]]

Nothing == [kind |-> "none", op |-> NewOp, id |-> None]
ContinueBatchOperation(o) == [kind |-> "continue", op |-> o, id |-> None]
RenameWithPattern(o) == [kind |-> "rename", op |-> o, id |-> None]
CancelCopyCleanup(o) == [kind |-> "cleanup", op |-> o, id |-> None]
ResolveOperationConflict(i) == [kind |-> "resolve", op |-> NewOp, id |-> i]
CancelOperation(i) == [kind |-> "cancel", op |-> NewOp, id |-> i]
CopyPath == [kind |-> "copy", op |-> NewOp, id |-> None]
OtherDialog == [kind |-> "other", op |-> NewOp, id |-> None]

Alive == {id \in Ids : status[id] \in {"going", "asking"}}

(* start_now re-queues above the limit with one priority, so operations     *)
(* start in the order of their ids.                                         *)
Waiting(id) == Cardinality({other \in Alive : other < id}) >= MaxConcurrent

(* The driver has the batch in hand: its next step is in pending_action. *)
InHand == pending.kind \in {"continue", "rename"}

Init ==
  /\ batch \in Batches
  /\ pending = Nothing /\ modal = "none" /\ about = None
  /\ card = "none" /\ sub = None /\ pending_delete = None /\ pending_upload = None
  /\ ServiceInit
  /\ task = [id \in Ids |-> [source |-> None, asks |-> FALSE]]
  /\ event = NoEvent /\ held = {} /\ cancelling = {}
  /\ result = [id \in Ids |-> "none"]
  /\ fate = "none" /\ report = NewOp.counted /\ deleted = {}
  /\ crossed = FALSE /\ misapplied = FALSE

-----------------------------------------------------------------------------
(* The BatchOperation's own steps. *)

(* Mutation: the index is advanced twice. *)
Advance_Twice(o, outcome) == [o EXCEPT !.index = @ + 2, !.counted[o.index] = outcome]

(* Count the current source and go on to the next one. *)
Advance(o, outcome) == [o EXCEPT !.index = @ + 1, !.counted[o.index] = outcome]

(* start_operation_now; create_worker accepts every request made here. *)
NextId == CHOOSE id \in Ids : /\ status[id] = "fresh"
                              /\ \A other \in Ids : other < id => status[other] # "fresh"

StartOperationNow(source, asks) ==
  /\ \E id \in Ids : status[id] = "fresh"
  /\ Accept(NextId)
  /\ task' = [task EXCEPT ![NextId] = [source |-> source, asks |-> asks]]

(* What process_batch_operation finds besides the operation: the modal on   *)
(* screen, the source it names, and the deletion still to be made.          *)
Here == [modal |-> modal, about |-> about, delete |-> pending_delete]

Leave(c) == modal' = c.modal /\ about' = c.about /\ pending_delete' = c.delete
Show(m, source) == modal' = m /\ about' = source

nothingStarted == <<card, sub, status, task>>

(* Mutation: the batch is put back already advanced. *)
StartBatchSubOperation_Advanced(o, mode, c) ==
  /\ StartOperationNow(o.index, batch.kind = "local" /\ mode = "Ask")
  /\ pending_delete' = IF batch.kind = "download" /\ batch.move THEN o.index ELSE c.delete
  /\ sub' = NextId
  /\ card' = IF card = "none" THEN "running" ELSE card
  /\ pending' = ContinueBatchOperation([o EXCEPT !.index = @ + 1])

(* start_batch_sub_operation.  A download that moves leaves the deletion of *)
(* the remote source to the end of the download.                            *)
StartBatchSubOperation(o, mode, c) ==
  /\ StartOperationNow(o.index, batch.kind = "local" /\ mode = "Ask")
  /\ pending_delete' = IF batch.kind = "download" /\ batch.move THEN o.index ELSE c.delete
  /\ sub' = NextId
  /\ card' = IF card = "none" THEN "running" ELSE card
  /\ pending' = ContinueBatchOperation(o)

(* Mutation: the index is advanced before the question is answered. *)
AskAbout_Advanced(o, c) ==
  /\ pending' = ContinueBatchOperation([o EXCEPT !.index = @ + 1])
  /\ Show("conflict", o.index)
  /\ pending_delete' = c.delete
  /\ UNCHANGED nothingStarted

(* The destination of the current source exists: ask. *)
AskAbout(o, c) ==
  /\ pending' = ContinueBatchOperation(o)
  /\ Show("conflict", o.index)
  /\ pending_delete' = c.delete
  /\ UNCHANGED nothingStarted

ShouldTrack(o) ==
  o.index = 1 /\ (batch.n > 1 \/ batch.kind # "local" \/ batch.large) /\ card = "none"

StartTracking(o, c) ==
  /\ pending' = ContinueBatchOperation(o)
  /\ Show("none", None)
  /\ card' = "running"
  /\ pending_delete' = c.delete
  /\ UNCHANGED <<sub, status, task, fate, report>>

(* The last source is done: the card goes and the counts are shown, in an   *)
(* error dialog if the only source was not copied.                          *)
ShowResults(o, c) ==
  /\ pending' = Nothing
  /\ card' = "none" /\ sub' = None
  /\ IF batch.n = 1 /\ o.counted[1] # "success" THEN Show("error", None) ELSE Show(c.modal, c.about)
  /\ pending_delete' = c.delete
  /\ fate' = "ended" /\ report' = o.counted
  /\ UNCHANGED <<status, task>>

(* process_batch_operation below its early returns.  Whether a local        *)
(* destination exists is open (a remote one is not looked at), and so is    *)
(* whether a source can be handled at all (it may be neither file nor       *)
(* directory, or its remote panel may be gone).                             *)
ProcessSource(o, c) ==
  \/ batch.kind # "upload" /\ o.mode = "Ask" /\ AskAbout(o, c)
  \/ /\ batch.kind # "upload" /\ o.mode = "SkipAll"
     /\ pending' = ContinueBatchOperation(Advance(o, "skipped"))
     /\ Leave(c) /\ UNCHANGED nothingStarted
  \/ /\ StartBatchSubOperation(o, o.mode, c)
     /\ Show(c.modal, c.about)
  \/ /\ pending' = ContinueBatchOperation(Advance(o, "error"))
     /\ Leave(c) /\ UNCHANGED nothingStarted

(* process_batch_operation *)
Process(o, c) ==
  \/ ShouldTrack(o) /\ StartTracking(o, c)
  \/ /\ ~ShouldTrack(o) /\ o.paused
     /\ pending' = ContinueBatchOperation(o)
     /\ Leave(c) /\ UNCHANGED <<nothingStarted, fate, report>>
  \/ ~ShouldTrack(o) /\ ~o.paused /\ o.index > batch.n /\ ShowResults(o, c)
  \/ /\ ~ShouldTrack(o) /\ ~o.paused /\ o.index <= batch.n
     /\ ProcessSource(o, c)
     /\ UNCHANGED <<fate, report>>

(* Mutation: the tick does not wait for the running operation. *)
CheckPendingBatchOperation_NoWait ==
  /\ event = NoEvent
  /\ card # "none" /\ modal = "none" /\ pending # Nothing
  /\ IF pending.kind = "continue"
     THEN Process(pending.op, Here)
     ELSE pending' = Nothing /\ UNCHANGED <<modal, about, pending_delete, nothingStarted, fate, report>>
  /\ UNCHANGED <<batch, pending_upload, event, held, cancelling, result, deleted, crossed, misapplied>>

(* check_pending_batch_operation, on every tick: whatever is pending is     *)
(* taken, and only the continuation of a batch is not dropped.              *)
CheckPendingBatchOperation ==
  /\ event = NoEvent
  /\ Alive = {}
  /\ card # "none" /\ modal = "none" /\ pending # Nothing
  /\ IF pending.kind = "continue"
     THEN Process(pending.op, Here)
     ELSE pending' = Nothing /\ UNCHANGED <<modal, about, pending_delete, nothingStarted, fate, report>>
  /\ UNCHANGED <<batch, pending_upload, event, held, cancelling, result, deleted, crossed, misapplied>>

-----------------------------------------------------------------------------
(* poll_operation_manager.  A worker's end is returned by poll() and then   *)
(* handled before anything else happens on the UI thread; the ends of one   *)
(* poll() are handled one after the other, as those of several are.         *)

(* Only a cancelled operation ends as Cancelled, and only a copy of several *)
(* items that may be skipped ends as PartialSuccess.                        *)
Ends(id, kind) ==
  /\ event = NoEvent
  /\ status[id] = "going" /\ ~Waiting(id)
  /\ id \notin held \/ id \in cancelling
  /\ kind = "Cancelled" => id \in cancelling
  /\ kind = "PartialSuccess" => task[id].source # None /\ batch.kind = "local"
  /\ Deliver({id}, {})
  /\ event' = [id |-> id, kind |-> kind]
  /\ result' = IF task[id].source = None THEN result ELSE [result EXCEPT ![id] = kind]
  /\ held' = held \ {id} /\ cancelling' = cancelling \ {id}
  /\ UNCHANGED <<batch, task, driver, history>>

(* ConflictDetected: the question takes the place of whatever is pending. *)
ConflictDetected(id) ==
  /\ event = NoEvent
  /\ task[id].asks /\ ~Waiting(id)
  /\ Deliver({}, {id})
  /\ pending' = ResolveOperationConflict(id)
  /\ Show("conflict", None)
  /\ UNCHANGED <<batch, card, sub, pending_delete, pending_upload, task, event, held, cancelling, result, history>>

(* A result is counted for the source the batch is at, whichever operation  *)
(* it came from.                                                            *)
Count(outcome, c) ==
  /\ pending.kind = "continue"
  /\ LET o == pending.op
     IN  Process(IF o.index <= batch.n THEN Advance(o, outcome) ELSE o, c)

(* Without a batch in hand an end is at most a message. *)
NoBatch(c) ==
  /\ pending.kind # "continue"
  /\ Leave(c)
  /\ UNCHANGED <<pending, nothingStarted>>

(* Another operation's end, handled while the batch waits for one of its    *)
(* own: what the driver does not tell apart.                                *)
Crosses(id) ==
  /\ task[id].source = None
  /\ pending.kind = "continue" \/ pending_delete # None \/ pending_upload # None

Handle(kinds) ==
  /\ event.kind \in kinds
  /\ event' = NoEvent
  /\ crossed' = (crossed \/ Crosses(event.id))
  /\ UNCHANGED <<batch, held, cancelling, result, misapplied>>

Forget == [Here EXCEPT !.delete = None]

(* Success while an upload is pending: whatever succeeded, a move deletes   *)
(* the local source and the next upload starts.                             *)
NextUpload ==
  /\ pending_upload # None
  /\ deleted' = IF batch.move THEN deleted \cup {pending_upload} ELSE deleted
  /\ pending_delete' = None
  /\ \/ /\ pending_upload < batch.n
        /\ StartOperationNow(pending_upload + 1, FALSE)
        /\ pending_upload' = pending_upload + 1
        /\ UNCHANGED <<modal, about, fate, report>>
     \/ /\ pending_upload = batch.n
        /\ pending_upload' = None
        /\ Show("none", None)
        /\ fate' = "ended" /\ report' = [s \in Sources |-> "success"]
        /\ UNCHANGED <<status, task>>
  /\ UNCHANGED <<pending, card, sub>>

(* Success: the deletion left over is made, for whatever succeeded. *)
HandleSuccess ==
  /\ Handle({"Success"})
  /\ \/ NextUpload
     \/ /\ pending_upload = None
        /\ deleted' = deleted \cup ({pending_delete} \ {None})
        /\ Count("success", Forget) \/ (NoBatch(Forget) /\ UNCHANGED <<fate, report>>)
        /\ UNCHANGED pending_upload

HandlePartialSuccess ==
  /\ Handle({"PartialSuccess"})
  /\ Count("partial", Here) \/ (NoBatch(Here) /\ UNCHANGED <<fate, report>>)
  /\ UNCHANGED <<pending_upload, deleted>>

(* A pending upload is given up. *)
GiveUpUpload ==
  /\ pending_upload' = None
  /\ fate' = IF pending_upload # None THEN "cancelled" ELSE fate
  /\ UNCHANGED <<report, deleted>>

Failure == [Forget EXCEPT !.modal = "error", !.about = None]

(* Mutation: the deletion is made before the result is looked at. *)
HandleFailed_Deletes ==
  /\ Handle({"Failed"})
  /\ deleted' = deleted \cup ({pending_delete} \ {None})
  /\ \/ Count("error", Forget) /\ UNCHANGED pending_upload
     \/ NoBatch(Failure) /\ UNCHANGED <<pending_upload, fate, report>>

HandleFailed ==
  /\ Handle({"Failed"})
  /\ \/ Count("error", Forget) /\ UNCHANGED <<pending_upload, deleted>>
     \/ NoBatch(Failure) /\ GiveUpUpload

(* Cancelled: a batch in hand is given up and its clean-up offered, and for *)
(* an upload the deletion of the part that was sent.                        *)
HandleCancelled ==
  /\ Handle({"Cancelled"})
  /\ \/ /\ pending.kind = "continue"
        /\ pending' = CancelCopyCleanup(pending.op)
        /\ Show("choice", None)
        /\ card' = "none" /\ sub' = None /\ pending_delete' = None
        /\ fate' = "cancelled"
        /\ UNCHANGED <<status, task, pending_upload, report, deleted>>
     \/ pending_upload = None /\ NoBatch(Forget) /\ GiveUpUpload
     \/ /\ pending_upload # None
        /\ pending' = OtherDialog
        /\ Show("dialog", None)
        /\ pending_delete' = None
        /\ GiveUpUpload
        /\ UNCHANGED nothingStarted

PollOperationManager ==
  \/ \E id \in Ids : ConflictDetected(id) \/ \E kind \in Results : Ends(id, kind)
  \/ HandleSuccess \/ HandlePartialSuccess \/ HandleFailed \/ HandleCancelled

-----------------------------------------------------------------------------
(* The user, between two ticks. *)

UserActs == event = NoEvent

Closed == [Here EXCEPT !.modal = "none", !.about = None]

(* What the user's actions that start nothing leave alone. *)
userFrame == <<batch, task, event, result, pending_delete, pending_upload, report, deleted, crossed>>

(* Standalone operations have a card of their own, and so has the first     *)
(* upload of several.                                                       *)
OwnCard(id) == id \in Alive /\ (task[id].source = None \/ (task[id].source = 1 /\ id # sub))

(* A dialog opened from a menu, a panel or a card takes the place of        *)
(* whatever is pending; keys reach no panel while a modal is open.          *)
OpenDialog(action) ==
  /\ UserActs /\ modal = "none"
  /\ action = CopyPath => fate = "none"
  /\ action.kind = "cancel" => IF action.id = None THEN card # "none"
                               ELSE OwnCard(action.id)
  /\ pending' = action
  /\ Show("dialog", None)
  /\ fate' = IF action = CopyPath THEN "going" ELSE fate
  /\ UNCHANGED <<userFrame, card, sub, status, held, cancelling, misapplied>>

(* The copy or move dialog is confirmed: handle_file_operation. *)
ConfirmCopyOrMove ==
  /\ UserActs /\ modal = "dialog" /\ pending = CopyPath /\ batch.kind # "upload"
  /\ Process(NewOp, Closed)
  /\ UNCHANGED <<batch, pending_upload, event, held, cancelling, result, deleted, crossed, misapplied>>

(* start_upload_operation: a taken first destination is asked about as the  *)
(* start of a batch, but without its card; otherwise the uploads follow one *)
(* another by themselves.                                                   *)
ConfirmUpload ==
  /\ UserActs /\ modal = "dialog" /\ pending = CopyPath /\ batch.kind = "upload"
  /\ \/ AskAbout(NewOp, Here) /\ UNCHANGED pending_upload
     \/ /\ StartOperationNow(1, FALSE)
        /\ pending_upload' = 1
        /\ pending' = Nothing
        /\ Leave(Closed)
        /\ UNCHANGED <<card, sub>>
  /\ UNCHANGED <<batch, event, held, cancelling, result, history>>

(* event_cancel_operation: the card of the batch stands for its             *)
(* sub-operation; one still queued leaves without an event.                 *)
CancelConfirmed ==
  /\ UserActs /\ modal = "dialog" /\ pending.kind = "cancel"
  /\ LET id == IF pending.id = None THEN sub ELSE pending.id
     IN  \/ id \notin Alive /\ UNCHANGED <<status, cancelling>>
         \/ id \in Alive /\ ~Waiting(id) /\ cancelling' = cancelling \cup {id} /\ UNCHANGED status
         \/ id \in Alive /\ Waiting(id) /\ Withdraw({id}) /\ UNCHANGED cancelling
  /\ pending' = Nothing
  /\ Show("none", None)
  /\ UNCHANGED <<userFrame, card, sub, held, fate, misapplied>>

(* Any other dialog or message is confirmed: what was pending is taken. *)
Acknowledge ==
  /\ UserActs
  /\ \/ modal = "dialog" /\ pending.kind = "other"
     \/ modal \in {"error", "choice"}
     \/ modal = "conflict" /\ pending.kind \notin {"continue", "resolve"}
  /\ pending' = Nothing
  /\ Show("none", None)
  /\ UNCHANGED <<userFrame, card, sub, status, held, cancelling, fate, misapplied>>

(* Esc closes the modal and puts the pending action back; the rename dialog *)
(* returns to the conflict it came from, unless it is closed by the mouse.  *)
Escape ==
  /\ UserActs /\ modal # "none"
  /\ \/ modal = "rename" /\ pending.kind = "rename" /\ AskAbout(pending.op, Here)
     \/ Show("none", None) /\ UNCHANGED <<pending, pending_delete, nothingStarted>>
  /\ UNCHANGED <<batch, pending_upload, event, result, held, cancelling, history>>

AllAnswers == {"OverwriteAll", "SkipAll", "RenameAll"}
ConflictResolution == {"Overwrite", "Skip", "Rename"} \cup AllAnswers

(* Mutations: a skipped source is not counted; it stays the current one. *)
Resolve_SkipUncounted(o, resolution) ==
  /\ pending' = ContinueBatchOperation([o EXCEPT !.index = @ + 1])
  /\ Leave(Closed) /\ UNCHANGED nothingStarted

Resolve_SkipStays(o, resolution) ==
  /\ pending' = ContinueBatchOperation([o EXCEPT !.counted[o.index] = "skipped"])
  /\ Leave(Closed) /\ UNCHANGED nothingStarted

(* handle_continue_batch_operation for a source that is still there.  Both  *)
(* rename answers name one file: no pattern is kept for the others.         *)
Resolve(o, resolution) ==
  \/ /\ resolution = "Overwrite"
     /\ \/ StartBatchSubOperation(o, "OverwriteAll", Closed) /\ Show("none", None)
        \/ /\ pending' = ContinueBatchOperation(Advance(o, "error"))
           /\ Leave(Closed) /\ UNCHANGED nothingStarted
  \/ /\ resolution \in {"Skip", "SkipAll"}
     /\ LET mode == IF resolution = "SkipAll" THEN "SkipAll" ELSE o.mode
        IN  pending' = ContinueBatchOperation([Advance(o, "skipped") EXCEPT !.mode = mode])
     /\ Leave(Closed) /\ UNCHANGED nothingStarted
  \/ /\ resolution = "OverwriteAll"
     /\ pending' = ContinueBatchOperation([o EXCEPT !.mode = "OverwriteAll"])
     /\ Leave(Closed) /\ UNCHANGED nothingStarted
  \/ /\ resolution \in {"Rename", "RenameAll"}
     /\ pending' = RenameWithPattern(IF resolution = "RenameAll" THEN [o EXCEPT !.mode = "Ask"] ELSE o)
     /\ Show("rename", o.index)
     /\ UNCHANGED <<pending_delete, nothingStarted>>

(* The answer to the conflict dialog; the "All" buttons are there when      *)
(* sources remain.  A continuation past the last source is only put back.   *)
AnswerConflict(resolution) ==
  /\ UserActs /\ modal = "conflict" /\ pending.kind = "continue"
  /\ resolution \in AllAnswers => about < batch.n
  /\ misapplied' = (misapplied \/ about # pending.op.index)
  /\ IF pending.op.index <= batch.n
     THEN Resolve(pending.op, resolution)
     ELSE Leave(Closed) /\ UNCHANGED <<pending, nothingStarted>>
  /\ UNCHANGED <<batch, pending_upload, event, result, held, cancelling, fate, report, deleted, crossed>>

(* handle_rename_with_pattern: the new name may be taken as well.  Without  *)
(* the file manager it looks for nothing is started and the batch is gone.  *)
AnswerRename ==
  /\ UserActs /\ modal = "rename" /\ pending.kind = "rename"
  /\ \/ batch.kind # "upload" /\ AskAbout(pending.op, Here)
     \/ StartBatchSubOperation(pending.op, "Ask", Here) /\ Show("none", None)
     \/ pending' = Nothing /\ Leave(Closed) /\ UNCHANGED nothingStarted
  /\ UNCHANGED <<batch, pending_upload, event, result, held, cancelling, history>>

(* handle_resolve_operation_conflict: a worker's own question. *)
AnswerQuestion ==
  /\ UserActs /\ modal = "conflict" /\ pending.kind = "resolve"
  /\ Answered(pending.id)
  /\ pending' = Nothing
  /\ Show("none", None)
  /\ UNCHANGED <<userFrame, card, sub, held, cancelling, fate, misapplied>>

(* event_toggle_operation_pause on the batch's card. *)
TogglePause ==
  /\ UserActs /\ modal = "none" /\ card # "none"
  /\ LET pausing == card = "running"
     IN  /\ card' = IF pausing THEN "paused" ELSE "running"
         /\ held' = IF ~pausing THEN held \ {sub}
                    ELSE IF sub \in Alive /\ ~Waiting(sub) THEN held \cup {sub} ELSE held
         /\ pending' = IF pending.kind = "continue" THEN [pending EXCEPT !.op.paused = pausing] ELSE pending
  /\ UNCHANGED <<userFrame, modal, about, sub, status, cancelling, fate, misapplied>>

(* The same on the card of a standalone operation: set_batch_paused repaints *)
(* the batch's card all the same.                                            *)
ToggleStandalonePause(id) ==
  /\ UserActs /\ modal = "none"
  /\ OwnCard(id) /\ ~Waiting(id)
  /\ held' = IF id \in held THEN held \ {id} ELSE held \cup {id}
  /\ card' = IF card = "none" THEN card ELSE IF id \in held THEN "running" ELSE "paused"
  /\ UNCHANGED <<userFrame, pending, modal, about, sub, status, cancelling, fate, misapplied>>

(* An editor saves or opens a remote file: no dialog, pending_action stays. *)
StartStandalone ==
  /\ UserActs /\ modal = "none"
  /\ Cardinality({id \in Ids : status[id] # "fresh" /\ task[id].source = None}) < MaxStandalone
  /\ StartOperationNow(None, FALSE)
  /\ UNCHANGED <<batch, driver, event, held, cancelling, result, history>>

Answer == (\E resolution \in ConflictResolution : AnswerConflict(resolution)) \/ AnswerRename

User ==
  \/ OpenDialog(CopyPath) \/ OpenDialog(OtherDialog)
  \/ \E id \in Ids \cup {None} : OpenDialog(CancelOperation(id))
  \/ ConfirmCopyOrMove \/ ConfirmUpload \/ CancelConfirmed \/ Acknowledge \/ Escape
  \/ Answer \/ AnswerQuestion
  \/ TogglePause \/ (\E id \in Ids : ToggleStandalonePause(id))
  \/ StartStandalone

Next == User \/ PollOperationManager \/ CheckPendingBatchOperation

Spec == Init /\ [][Next]_vars

(* The event loop polls and checks on every tick, running workers end, and  *)
(* the user confirms what he asked for and decides every conflict in the    *)
(* end other than by looking for another name for ever.                     *)
Fairness ==
  /\ WF_vars(PollOperationManager)
  /\ \A id \in Ids : WF_vars(\E kind \in Results : Ends(id, kind))
  /\ SF_vars(CheckPendingBatchOperation)
  /\ SF_vars(\E resolution \in {"Overwrite", "Skip"} : AnswerConflict(resolution))
  /\ SF_vars(AnswerRename)
  /\ SF_vars(modal = "error" /\ Acknowledge)

FairSpec == Spec /\ Fairness

-----------------------------------------------------------------------------
OpType == [index : 1..batch.n + 1, mode : {"Ask", "OverwriteAll", "SkipAll"},
           paused : BOOLEAN, counted : [Sources -> Outcome]]

(* Type correctness of every variable. *)
TypeOK ==
  /\ batch \in Batches
  /\ pending \in [kind : {"none", "continue", "rename", "cleanup", "resolve", "cancel", "copy", "other"},
                   op : OpType, id : Ids \cup {None}]
  /\ modal \in {"none", "conflict", "rename", "choice", "dialog", "error"}
  /\ about \in Sources \cup {None}
  /\ card \in {"none", "running", "paused"}
  /\ sub \in Ids \cup {None}
  /\ pending_delete \in Sources \cup {None} /\ pending_upload \in Sources \cup {None}
  /\ status \in [Ids -> Standing]
  /\ task \in [Ids -> [source : Sources \cup {None}, asks : BOOLEAN]]
  /\ event \in {NoEvent} \cup [id : Ids, kind : Results]
  /\ held \subseteq Ids /\ cancelling \subseteq Ids
  /\ result \in [Ids -> Results \cup {"none"}]
  /\ fate \in {"none", "going", "ended", "cancelled"}
  /\ report \in [Sources -> Outcome]
  /\ deleted \subseteq Sources
  /\ crossed \in BOOLEAN /\ misapplied \in BOOLEAN

(* How the operation started for a source ended. *)
Transferred(s, kinds) == \E id \in Ids : task[id].source = s /\ result[id] \in kinds

(* A move between machines deletes a source only when its own transfer      *)
(* succeeded, so the file exists somewhere at every moment.                 *)
DeletedIsCopied == \A s \in deleted : Transferred(s, {"Success"})

(* The same as long as no other operation's end is handled while the batch  *)
(* waits for one of its own.                                                *)
DeletedIsCopiedUncrossed == crossed \/ DeletedIsCopied

(* What the user is shown as copied was copied: a source counted as done is *)
(* one whose own operation ended that way.                                  *)
CountedIsDone ==
  \/ crossed
  \/ \A counted \in {report, pending.op.counted} : \A s \in Sources :
       /\ counted[s] = "success" => Transferred(s, {"Success"})
       /\ counted[s] = "partial" => Transferred(s, {"PartialSuccess"})

(* The sources go to the manager once each, in order, one at a time: no     *)
(* tick, answer, pause or rename starts the current source again.           *)
HandedInOrder ==
  \/ crossed
  \/ /\ \A i, j \in Ids : i < j /\ task[i].source # None /\ task[j].source # None
                            => task[i].source < task[j].source
     /\ Cardinality({id \in Alive : task[id].source # None}) <= 1

(* The user's answer is applied to the file the dialog named. *)
AnswerIsForSource == crossed \/ ~misapplied

(* Nothing is left out of the results, crossed or not. *)
AllCounted == fate = "ended" => \A s \in Sources : report[s] # "none"

Halted == pending.op.paused \/ held # {}

(* A batch in hand that has its card, or an upload of several files, comes  *)
(* to an end the user is told of, unless it is left paused or another       *)
(* dialog or a worker's question took its place in pending_action.          *)
BatchEnds ==
  <>[]~Halted =>
    ((InHand /\ card # "none") \/ pending_upload # None
       ~> fate \in {"ended", "cancelled"} \/ ~(InHand \/ pending_upload # None))
=============================================================================
