------------------------- MODULE BatchOperationProofs -------------------------
(***************************************************************************)
(* What a batch does with its sources, for any number of files, slots and  *)
(* operations.                                                             *)
(***************************************************************************)
EXTENDS BatchOperation, FiniteSetTheorems, TLAPS

-----------------------------------------------------------------------------
(***************************************************************************)
(* Types.  Ids are handed out in order, a new name is asked for that of a  *)
(* source, and a worker's question comes from an operation.                *)
(***************************************************************************)
FreshInv == \E k \in 0..MaxOps : \A id \in Ids : status[id] = "fresh" <=> id > k
DialogInv ==
  /\ pending.kind = "rename" => pending.op.index <= batch.n
  /\ pending.kind = "resolve" => pending.id \in Ids

TypeInv == TypeOK /\ FreshInv /\ DialogInv

PendingType ==
  [kind : {"none", "continue", "rename", "cleanup", "resolve", "cancel", "copy", "other"},
   op : OpType, id : Ids \cup {None}]
Modals == {"none", "conflict", "rename", "choice", "dialog", "error"}

LEMMA BatchTyped ==
  ASSUME TypeOK
  PROVE  /\ batch.n \in Nat \ {0} /\ Sources = 1..batch.n /\ 1 \in Sources /\ None \notin Sources
         /\ batch.kind \in {"local", "download", "upload"} /\ batch.move \in BOOLEAN
         /\ MaxOps \in Nat
  BY BatchAssumption DEF TypeOK, BatchType, Sources, None

LEMMA NewOpTyped ==
  ASSUME TypeOK
  PROVE  /\ NewOp \in OpType /\ NewOp.index = 1 /\ ~NewOp.paused
         /\ \A s \in Sources : NewOp.counted[s] = "none"
<1>1. [s \in Sources |-> "none"] \in [Sources -> Outcome]
  BY DEF Outcome
<1>2. 1 \in 1..batch.n + 1
  BY BatchTyped
<1>3. QED
  BY <1>1, <1>2 DEF NewOp, OpType

LEMMA AdvanceTyped ==
  ASSUME TypeOK, NEW o \in OpType, o.index <= batch.n, NEW outcome \in Outcome
  PROVE  /\ Advance(o, outcome) \in OpType
         /\ Advance(o, outcome).index = o.index + 1
         /\ Advance(o, outcome).counted = [o.counted EXCEPT ![o.index] = outcome]
         /\ o.index \in Sources
<1>1. /\ o.index \in 1..batch.n + 1 /\ o.counted \in [Sources -> Outcome]
      /\ o.mode \in {"Ask", "OverwriteAll", "SkipAll"} /\ o.paused \in BOOLEAN
  BY DEF OpType
<1>2. o.index \in Sources /\ o.index + 1 \in 1..batch.n + 1
  BY <1>1, BatchTyped
<1> DEFINE counted == [o.counted EXCEPT ![o.index] = outcome]
           next == o.index + 1
<1>3. counted \in [Sources -> Outcome]
  BY <1>1
<1>4. Advance(o, outcome) = [[o EXCEPT !.index = next] EXCEPT !.counted = counted]
  BY <1>1 DEF OpType, Advance
<1>5. next \in 1..batch.n + 1
  BY <1>2
<1> HIDE DEF counted, next
<1>6. [o EXCEPT !.index = next] \in OpType /\ [o EXCEPT !.index = next].index = next
  BY <1>5 DEF OpType
<1>7. QED
  BY <1>2, <1>3, <1>4, <1>6 DEF OpType, counted, next

LEMMA ModeTyped ==
  ASSUME TypeOK, NEW o \in OpType, NEW mode \in {"Ask", "OverwriteAll", "SkipAll"}, NEW paused \in BOOLEAN
  PROVE  /\ [o EXCEPT !.mode = mode] \in OpType
         /\ [o EXCEPT !.mode = mode].index = o.index /\ [o EXCEPT !.mode = mode].counted = o.counted
         /\ [o EXCEPT !.paused = paused] \in OpType
         /\ [o EXCEPT !.paused = paused].index = o.index /\ [o EXCEPT !.paused = paused].counted = o.counted
  BY DEF OpType

(* What may be pending. *)
LEMMA PendingTyped ==
  ASSUME TypeOK, NEW o \in OpType, NEW i \in Ids \cup {None}
  PROVE  /\ {Nothing, CopyPath, OtherDialog} \subseteq PendingType
         /\ {ContinueBatchOperation(o), RenameWithPattern(o), CancelCopyCleanup(o)} \subseteq PendingType
         /\ {ResolveOperationConflict(i), CancelOperation(i)} \subseteq PendingType
         /\ ContinueBatchOperation(o).kind = "continue" /\ ContinueBatchOperation(o).op = o
         /\ RenameWithPattern(o).kind = "rename" /\ RenameWithPattern(o).op = o
         /\ CancelCopyCleanup(o).kind = "cleanup" /\ CancelCopyCleanup(o).op = o
         /\ Nothing.kind = "none" /\ CopyPath.kind = "copy" /\ OtherDialog.kind = "other"
         /\ ResolveOperationConflict(i).kind = "resolve" /\ CancelOperation(i).kind = "cancel"
         /\ Nothing.op = NewOp /\ CopyPath.op = NewOp /\ OtherDialog.op = NewOp
         /\ ResolveOperationConflict(i).op = NewOp /\ CancelOperation(i).op = NewOp
         /\ CancelOperation(i).id = i /\ ResolveOperationConflict(i).id = i
  BY NewOpTyped DEF PendingType, Nothing, CopyPath, OtherDialog, ContinueBatchOperation, RenameWithPattern,
                    CancelCopyCleanup, ResolveOperationConflict, CancelOperation

(* An operation gets the next id. *)
LEMMA StartEffect ==
  ASSUME TypeInv, NEW source \in Sources \cup {None}, NEW asks \in BOOLEAN, StartOperationNow(source, asks)
  PROVE  /\ NextId \in Ids /\ status[NextId] = "fresh"
         /\ \A id \in Ids : status[id] # "fresh" => id < NextId
         /\ status' = [status EXCEPT ![NextId] = "going"]
         /\ task' = [task EXCEPT ![NextId] = [source |-> source, asks |-> asks]]
         /\ status' \in [Ids -> Standing] /\ FreshInv'
         /\ task' \in [Ids -> [source : Sources \cup {None}, asks : BOOLEAN]]
<1>1. PICK k \in 0..MaxOps : \A id \in Ids : status[id] = "fresh" <=> id > k
  BY DEF TypeInv, FreshInv
<1>2. MaxOps \in Nat
  BY BatchAssumption
<1>3. k + 1 \in Ids
  <2>1. PICK id \in Ids : status[id] = "fresh"
    BY DEF StartOperationNow
  <2>2. id > k
    BY <1>1, <2>1
  <2>3. QED
    BY <1>2, <2>2 DEF Ids
<1>4. /\ NextId \in Ids /\ status[NextId] = "fresh"
      /\ \A other \in Ids : other < NextId => status[other] # "fresh"
  <2>1. status[k + 1] = "fresh" /\ \A other \in Ids : other < k + 1 => status[other] # "fresh"
    BY <1>1, <1>2, <1>3 DEF Ids
  <2>2. \E id \in Ids : /\ status[id] = "fresh"
                        /\ \A other \in Ids : other < id => status[other] # "fresh"
    BY <1>3, <2>1
  <2>3. QED
    BY <2>2 DEF NextId
<1>5. NextId = k + 1
  <2>1. NextId > k /\ ~(k + 1 < NextId)
    BY <1>1, <1>2, <1>3, <1>4 DEF Ids
  <2>2. QED
    BY <1>2, <1>4, <2>1 DEF Ids
<1>6. \A id \in Ids : status[id] # "fresh" => id < NextId
  BY <1>1, <1>2, <1>5 DEF Ids
<1>7. /\ status' = [status EXCEPT ![NextId] = "going"]
      /\ task' = [task EXCEPT ![NextId] = [source |-> source, asks |-> asks]]
  BY DEF StartOperationNow, Accept
<1>8. status' \in [Ids -> Standing] /\ task' \in [Ids -> [source : Sources \cup {None}, asks : BOOLEAN]]
  BY <1>4, <1>7 DEF TypeInv, TypeOK, Standing
<1>9. FreshInv'
  <2>1. \A id \in Ids : status'[id] = "fresh" <=> id > k + 1
    BY <1>1, <1>2, <1>4, <1>5, <1>7 DEF Ids, TypeInv, TypeOK
  <2>2. k + 1 \in 0..MaxOps
    BY <1>2, <1>3 DEF Ids
  <2>3. QED
    BY <2>1, <2>2 DEF FreshInv
<1>10. QED
  BY <1>4, <1>6, <1>7, <1>8, <1>9

-----------------------------------------------------------------------------
(***************************************************************************)
(* What a step of the driver can do with the batch it has in hand, read    *)
(* off process_batch_operation and the answers to its dialogs once: it     *)
(* keeps the batch, starts the current source, or shows the results.       *)
(***************************************************************************)
Context == [modal : Modals, about : Sources \cup {None}, delete : Sources \cup {None}]

(* At most one source is passed over on the way. *)
Carried(o, p) ==
  \/ p.index = o.index /\ p.counted = o.counted
  \/ /\ o.index \in Sources /\ p.index = o.index + 1
     /\ \E outcome \in {"error", "skipped"} : p.counted = [o.counted EXCEPT ![o.index] = outcome]

Keeps(o, c, p) ==
  /\ Carried(o, p)
  /\ \/ pending' = ContinueBatchOperation(p) /\ (modal' = "conflict" => about' = p.index \/ c.modal = "conflict")
     \/ p.index <= batch.n /\ pending' = RenameWithPattern(p)
  /\ pending_delete' = c.delete
  /\ UNCHANGED <<status, task, fate, report>>

Starts(o, c) ==
  /\ o.index \in Sources
  /\ \E asks \in BOOLEAN : StartOperationNow(o.index, asks)
  /\ pending' = ContinueBatchOperation(o)
  /\ modal' = "conflict" => c.modal = "conflict"
  /\ pending_delete' = IF batch.kind = "download" /\ batch.move THEN o.index ELSE c.delete
  /\ UNCHANGED <<fate, report>>

Finishes(o, c) ==
  /\ o.index > batch.n
  /\ pending' = Nothing
  /\ pending_delete' = c.delete
  /\ fate' = "ended" /\ report' = o.counted
  /\ UNCHANGED <<status, task>>

Shown ==
  /\ modal' \in Modals /\ about' \in Sources \cup {None}
  /\ card' \in {"none", "running", "paused"} /\ sub' \in Ids \cup {None}

Drives(o, c) == Shown /\ ((\E p \in OpType : Keeps(o, c, p)) \/ Starts(o, c) \/ Finishes(o, c))

LEMMA ContextTyped ==
  ASSUME TypeOK
  PROVE  /\ Here \in Context /\ Here.delete = pending_delete /\ Here.modal = modal
         /\ Forget \in Context /\ Forget.delete = None /\ Forget.modal = modal
         /\ Closed \in Context /\ Closed.delete = pending_delete /\ Closed.modal = "none"
         /\ Failure \in Context /\ Failure.delete = None /\ Failure.modal = "error"
<1>1. Here = [modal |-> modal, about |-> about, delete |-> pending_delete]
  BY DEF Here
<1>2. Forget = [modal |-> modal, about |-> about, delete |-> None]
  BY <1>1 DEF Forget
<1>3. Closed = [modal |-> "none", about |-> None, delete |-> pending_delete]
  <2>1. [Here EXCEPT !.modal = "none"] = [modal |-> "none", about |-> about, delete |-> pending_delete]
    BY <1>1
  <2>2. Closed = [[Here EXCEPT !.modal = "none"] EXCEPT !.about = None]
    BY DEF Closed
  <2>3. QED
    BY <2>1, <2>2
<1>4. Failure = [modal |-> "error", about |-> None, delete |-> None]
  <2>1. [Forget EXCEPT !.modal = "error"] = [modal |-> "error", about |-> about, delete |-> None]
    BY <1>2
  <2>2. Failure = [[Forget EXCEPT !.modal = "error"] EXCEPT !.about = None]
    BY DEF Failure
  <2>3. QED
    BY <2>1, <2>2
<1>5. /\ {modal, "none", "error"} \subseteq Modals
      /\ {about, pending_delete, None} \subseteq Sources \cup {None}
  BY DEF TypeOK, Modals
<1>6. QED
  BY <1>1, <1>2, <1>3, <1>4, <1>5 DEF Context

LEMMA SameTyped ==
  ASSUME TypeOK
  PROVE  /\ card \in {"none", "running", "paused"} /\ sub \in Ids \cup {None}
         /\ modal \in Modals /\ about \in Sources \cup {None}
  BY DEF TypeOK, Modals

LEMMA CarriedItself ==
  ASSUME NEW o
  PROVE  Carried(o, o)
  BY DEF Carried

LEMMA AdvanceCarried ==
  ASSUME TypeOK, NEW o \in OpType, o.index <= batch.n, NEW outcome \in {"error", "skipped"}
  PROVE  Advance(o, outcome) \in OpType /\ Carried(o, Advance(o, outcome))
<1>1. outcome \in Outcome
  BY DEF Outcome
<1>2. QED
  BY <1>1, AdvanceTyped DEF Carried

LEMMA LeaveTyped ==
  ASSUME NEW c \in Context, Leave(c)
  PROVE  /\ modal' = c.modal /\ about' = c.about /\ pending_delete' = c.delete
         /\ modal' \in Modals /\ about' \in Sources \cup {None}
  BY DEF Leave, Context

LEMMA StartBatchDrives ==
  ASSUME TypeInv, NEW o \in OpType, NEW mode, NEW c \in Context, o.index <= batch.n,
         StartBatchSubOperation(o, mode, c), modal' \in Modals, about' \in Sources \cup {None},
         modal' \in {"none", c.modal}, UNCHANGED <<fate, report>>
  PROVE  Drives(o, c)
<1>1. o.index \in Sources
  BY BatchTyped DEF OpType, TypeInv
<1> DEFINE asks == batch.kind = "local" /\ mode = "Ask"
<1>2. asks \in BOOLEAN /\ StartOperationNow(o.index, asks)
  BY DEF StartBatchSubOperation
<1>3. NextId \in Ids
  BY <1>1, <1>2, StartEffect
<1>4. Starts(o, c)
  BY <1>1, <1>2 DEF StartBatchSubOperation, Starts
<1>5. Shown
  BY <1>3, SameTyped DEF StartBatchSubOperation, Shown, TypeInv
<1>6. QED
  BY <1>4, <1>5 DEF Drives

LEMMA AskDrives ==
  ASSUME TypeInv, NEW o \in OpType, NEW c \in Context, o.index <= batch.n,
         AskAbout(o, c), UNCHANGED <<fate, report>>
  PROVE  Drives(o, c)
<1>1. o.index \in Sources
  BY BatchTyped DEF OpType, TypeInv
<1>2. Keeps(o, c, o)
  BY CarriedItself DEF AskAbout, Show, nothingStarted, Keeps
<1>3. Shown
  BY <1>1, SameTyped DEF AskAbout, Show, nothingStarted, Shown, TypeInv, Modals
<1>4. QED
  BY <1>2, <1>3 DEF Drives

(* The batch is put back, the dialog is the context's. *)
LEMMA PutBackDrives ==
  ASSUME TypeInv, NEW o \in OpType, NEW p \in OpType, Carried(o, p), NEW c \in Context,
         pending' = ContinueBatchOperation(p), Leave(c),
         UNCHANGED <<card, sub, status, task, fate, report>>
  PROVE  Drives(o, c)
<1>1. Keeps(o, c, p)
  BY LeaveTyped DEF Keeps
<1>2. Shown
  BY LeaveTyped, SameTyped DEF Shown, TypeInv
<1>3. QED
  BY <1>1, <1>2 DEF Drives

LEMMA ProcessDrives ==
  ASSUME TypeInv, NEW o \in OpType, NEW c \in Context, Process(o, c)
  PROVE  Drives(o, c)
<1> USE DEF TypeInv
<1>1. CASE StartTracking(o, c)
  <2>1. Keeps(o, c, o)
    BY <1>1, CarriedItself DEF StartTracking, Show, Keeps
  <2>2. Shown
    BY <1>1, SameTyped DEF StartTracking, Show, Shown, Modals
  <2>3. QED
    BY <2>1, <2>2 DEF Drives
<1>2. CASE /\ pending' = ContinueBatchOperation(o)
           /\ Leave(c) /\ UNCHANGED <<nothingStarted, fate, report>>
  BY <1>2, PutBackDrives, CarriedItself DEF nothingStarted
<1>3. CASE o.index > batch.n /\ ShowResults(o, c)
  <2>1. Finishes(o, c)
    BY <1>3 DEF ShowResults, Finishes
  <2>2. c.modal \in Modals /\ c.about \in Sources \cup {None}
    BY DEF Context
  <2>3. Shown
    BY <1>3, <2>2 DEF ShowResults, Show, Shown, Modals
  <2>4. QED
    BY <2>1, <2>3 DEF Drives
<1>4. CASE o.index <= batch.n /\ ProcessSource(o, c) /\ UNCHANGED <<fate, report>>
  <2>1. CASE AskAbout(o, c)
    BY <1>4, <2>1, AskDrives
  <2>2. CASE /\ pending' = ContinueBatchOperation(Advance(o, "skipped"))
             /\ Leave(c) /\ UNCHANGED nothingStarted
    BY <1>4, <2>2, AdvanceCarried, PutBackDrives DEF nothingStarted
  <2>3. CASE StartBatchSubOperation(o, o.mode, c) /\ Show(c.modal, c.about)
    <3>1. modal' = c.modal /\ modal' \in Modals /\ about' \in Sources \cup {None}
      BY <2>3 DEF Show, Context
    <3>2. QED
      BY <1>4, <2>3, <3>1, StartBatchDrives
  <2>4. CASE /\ pending' = ContinueBatchOperation(Advance(o, "error"))
             /\ Leave(c) /\ UNCHANGED nothingStarted
    BY <1>4, <2>4, AdvanceCarried, PutBackDrives DEF nothingStarted
  <2>5. QED
    BY <1>4, <2>1, <2>2, <2>3, <2>4 DEF ProcessSource
<1>5. QED
  BY <1>1, <1>2, <1>3, <1>4 DEF Process

LEMMA ResolveDrives ==
  ASSUME TypeInv, NEW o \in OpType, o.index <= batch.n, NEW resolution \in ConflictResolution,
         Resolve(o, resolution), UNCHANGED <<fate, report>>
  PROVE  Drives(o, Closed)
<1> USE DEF TypeInv
<1>1. Closed \in Context /\ Closed.delete = pending_delete /\ Closed.modal = "none"
  BY ContextTyped
<1>2. CASE StartBatchSubOperation(o, "OverwriteAll", Closed) /\ Show("none", None)
  BY <1>1, <1>2, StartBatchDrives DEF Show, Modals
<1>3. CASE /\ pending' = ContinueBatchOperation(Advance(o, "error"))
           /\ Leave(Closed) /\ UNCHANGED nothingStarted
  BY <1>1, <1>3, AdvanceCarried, PutBackDrives DEF nothingStarted
<1>4. ASSUME NEW mode \in {"SkipAll", o.mode},
             pending' = ContinueBatchOperation([Advance(o, "skipped") EXCEPT !.mode = mode]),
             Leave(Closed) /\ UNCHANGED nothingStarted
      PROVE  Drives(o, Closed)
  <2> DEFINE a == Advance(o, "skipped")
             p == [a EXCEPT !.mode = mode]
  <2>1. a \in OpType /\ Carried(o, a)
    BY AdvanceCarried
  <2>2. mode \in {"Ask", "OverwriteAll", "SkipAll"}
    BY DEF OpType
  <2> HIDE DEF a
  <2>3. p \in OpType /\ p.index = a.index /\ p.counted = a.counted
    BY <2>1, <2>2, ModeTyped
  <2>4. Carried(o, p)
    BY <2>1, <2>3 DEF Carried
  <2>5. QED
    BY <1>1, <1>4, <2>3, <2>4, PutBackDrives DEF nothingStarted, a
<1>5. CASE /\ pending' = ContinueBatchOperation([o EXCEPT !.mode = "OverwriteAll"])
           /\ Leave(Closed) /\ UNCHANGED nothingStarted
  <2> DEFINE p == [o EXCEPT !.mode = "OverwriteAll"]
  <2>1. p \in OpType /\ Carried(o, p)
    BY ModeTyped DEF Carried
  <2>2. QED
    BY <1>1, <1>5, <2>1, PutBackDrives DEF nothingStarted
<1>6. CASE /\ pending' = RenameWithPattern(IF resolution = "RenameAll" THEN [o EXCEPT !.mode = "Ask"] ELSE o)
           /\ Show("rename", o.index)
           /\ UNCHANGED <<pending_delete, nothingStarted>>
  <2> DEFINE p == IF resolution = "RenameAll" THEN [o EXCEPT !.mode = "Ask"] ELSE o
  <2>1. p \in OpType /\ Carried(o, p) /\ p.index = o.index
    BY ModeTyped DEF Carried
  <2>2. Keeps(o, Closed, p)
    BY <1>1, <1>6, <2>1 DEF Keeps, nothingStarted
  <2>3. o.index \in Sources
    BY BatchTyped DEF OpType
  <2>4. Shown
    BY <1>6, <2>3, SameTyped DEF Show, Shown, Modals, nothingStarted
  <2>5. QED
    BY <2>1, <2>2, <2>4 DEF Drives
<1>7. QED
  <2>1. resolution \in {"Skip", "SkipAll"} =>
          (IF resolution = "SkipAll" THEN "SkipAll" ELSE o.mode) \in {"SkipAll", o.mode}
    OBVIOUS
  <2>2. QED
    BY <1>2, <1>3, <1>4, <1>5, <1>6, <2>1 DEF Resolve

-----------------------------------------------------------------------------
(* What the manager tells, takes or hears. *)
LEMMA StandingMoves ==
  ASSUME TypeInv, NEW id \in Ids, status[id] # "fresh", NEW new \in Standing, new # "fresh",
         status' = [status EXCEPT ![id] = new]
  PROVE  status' \in [Ids -> Standing] /\ FreshInv'
<1>1. PICK k \in 0..MaxOps : \A i \in Ids : status[i] = "fresh" <=> i > k
  BY DEF TypeInv, FreshInv
<1>2. status \in [Ids -> Standing]
  BY DEF TypeInv, TypeOK
<1>3. \A i \in Ids : status'[i] = "fresh" <=> status[i] = "fresh"
  BY <1>2
<1>4. FreshInv'
  BY <1>1, <1>3 DEF FreshInv
<1>5. QED
  BY <1>2, <1>4

LEMMA EndEffect ==
  ASSUME TypeInv, NEW id \in Ids, Deliver({id}, {})
  PROVE  /\ status[id] = "going" /\ status' = [status EXCEPT ![id] = "over"]
         /\ status' \in [Ids -> Standing] /\ FreshInv'
<1>1. status[id] = "going" /\ status' = [status EXCEPT ![id] = "over"]
  BY DEF Deliver, TypeInv, TypeOK
<1>2. QED
  BY <1>1, StandingMoves DEF Standing

LEMMA QuestionEffect ==
  ASSUME TypeInv, NEW id \in Ids, Deliver({}, {id})
  PROVE  /\ status[id] = "going" /\ status' = [status EXCEPT ![id] = "asking"]
         /\ status' \in [Ids -> Standing] /\ FreshInv'
<1>1. status[id] = "going" /\ status' = [status EXCEPT ![id] = "asking"]
  BY DEF Deliver, TypeInv, TypeOK
<1>2. QED
  BY <1>1, StandingMoves DEF Standing

LEMMA WithdrawEffect ==
  ASSUME TypeInv, NEW id \in Ids, Withdraw({id})
  PROVE  /\ status[id] = "going" /\ status' = [status EXCEPT ![id] = "withdrawn"]
         /\ status' \in [Ids -> Standing] /\ FreshInv'
<1>1. status[id] = "going" /\ status' = [status EXCEPT ![id] = "withdrawn"]
  BY DEF Withdraw, TypeInv, TypeOK
<1>2. QED
  BY <1>1, StandingMoves DEF Standing

LEMMA AnsweredEffect ==
  ASSUME TypeInv, NEW id \in Ids, Answered(id)
  PROVE  /\ status[id] = "asking" /\ status' = [status EXCEPT ![id] = "going"]
         /\ status' \in [Ids -> Standing] /\ FreshInv'
<1>1. status[id] = "asking" /\ status' = [status EXCEPT ![id] = "going"]
  BY DEF Answered
<1>2. QED
  BY <1>1, StandingMoves DEF Standing

-----------------------------------------------------------------------------
(* Types are kept: first what the driver's steps write, then the rest. *)
Beside ==
  /\ pending_upload \in Sources \cup {None}
  /\ event \in {NoEvent} \cup [id : Ids, kind : Results]
  /\ held \subseteq Ids /\ cancelling \subseteq Ids
  /\ result \in [Ids -> Results \cup {"none"}]
  /\ deleted \subseteq Sources
  /\ crossed \in BOOLEAN /\ misapplied \in BOOLEAN

Steered ==
  /\ pending \in PendingType /\ DialogInv
  /\ modal \in Modals /\ about \in Sources \cup {None}
  /\ card \in {"none", "running", "paused"} /\ sub \in Ids \cup {None}
  /\ pending_delete \in Sources \cup {None}

Managed ==
  /\ status \in [Ids -> Standing] /\ FreshInv
  /\ task \in [Ids -> [source : Sources \cup {None}, asks : BOOLEAN]]

Told ==
  /\ fate \in {"none", "going", "ended", "cancelled"}
  /\ report \in [Sources -> Outcome]

LEMMA TypeParts ==
  /\ TypeInv <=> batch \in Batches /\ Steered /\ Managed /\ Told /\ Beside
  BY DEF TypeInv, TypeOK, Steered, Managed, Told, Beside, PendingType, Modals

LEMMA TypePartsNext ==
  TypeInv' <=> batch' \in Batches /\ Steered' /\ Managed' /\ Told' /\ Beside'
  BY DEF TypeInv, TypeOK, Steered, Managed, Told, Beside, PendingType, Modals

(* What does not change keeps its type. *)
LEMMA StableTypes ==
  ASSUME TypeInv, batch' = batch
  PROVE  /\ batch' \in Batches /\ Sources' = Sources /\ OpType' = OpType /\ PendingType' = PendingType
         /\ UNCHANGED <<pending, modal, about, card, sub, pending_delete>> => Steered'
         /\ UNCHANGED <<status, task>> => Managed'
         /\ UNCHANGED <<fate, report>> => Told'
         /\ UNCHANGED <<pending_upload, event, held, cancelling, result, deleted, crossed, misapplied>> => Beside'
<1>1. batch \in Batches /\ Steered /\ Managed /\ Told /\ Beside
  BY TypeParts
<1>2. Sources' = Sources
  BY DEF Sources
<1>3. OpType' = OpType
  BY <1>2 DEF OpType
<1>4. PendingType' = PendingType
  BY <1>3 DEF PendingType
<1>5. UNCHANGED <<pending, modal, about, card, sub, pending_delete>> => Steered'
  BY <1>1, <1>2, <1>4 DEF Steered, DialogInv
<1>6. UNCHANGED <<status, task>> => Managed'
  BY <1>1, <1>2 DEF Managed, FreshInv
<1>7. UNCHANGED <<fate, report>> => Told'
  BY <1>1, <1>2 DEF Told
<1>8. UNCHANGED <<pending_upload, event, held, cancelling, result, deleted, crossed, misapplied>> => Beside'
  BY <1>1, <1>2 DEF Beside
<1>9. QED
  BY <1>1, <1>2, <1>3, <1>4, <1>5, <1>6, <1>7, <1>8

LEMMA DrivesTyped ==
  ASSUME TypeInv, batch' = batch, NEW o \in OpType, NEW c \in Context, Drives(o, c), Beside'
  PROVE  TypeInv'
<1>1. TypeOK
  BY DEF TypeInv
<1>2. Sources' = Sources /\ OpType' = OpType /\ PendingType' = PendingType
  BY StableTypes
<1>3. pending_delete' \in Sources \cup {None}
  BY DEF Drives, Keeps, Starts, Finishes, Context
<1>4. ASSUME pending' \in PendingType, DialogInv' PROVE Steered'
  BY <1>2, <1>3, <1>4 DEF Drives, Shown, Steered
<1>5. ASSUME NEW p \in OpType, Keeps(o, c, p)
      PROVE  TypeInv'
  <2>1. pending' \in PendingType /\ DialogInv'
    BY <1>1, <1>5, PendingTyped DEF Keeps, DialogInv
  <2>2. Managed' /\ Told' /\ batch' \in Batches
    BY <1>5, StableTypes DEF Keeps
  <2>3. QED
    BY <1>4, <2>1, <2>2, TypePartsNext
<1>6. CASE Starts(o, c)
  <2>1. pending' \in PendingType /\ DialogInv'
    BY <1>1, <1>6, PendingTyped DEF Starts, DialogInv
  <2>2. Managed'
    BY <1>2, <1>6, StartEffect DEF Starts, Managed
  <2>3. Told' /\ batch' \in Batches
    BY <1>6, StableTypes DEF Starts
  <2>4. QED
    BY <1>4, <2>1, <2>2, <2>3, TypePartsNext
<1>7. CASE Finishes(o, c)
  <2>1. pending' \in PendingType /\ DialogInv'
    BY <1>1, <1>7, PendingTyped DEF Finishes, DialogInv
  <2>2. Managed' /\ batch' \in Batches
    BY <1>7, StableTypes DEF Finishes
  <2>3. Told'
    BY <1>2, <1>7 DEF Finishes, Told, OpType
  <2>4. QED
    BY <1>4, <2>1, <2>2, <2>3, TypePartsNext
<1>8. QED
  BY <1>5, <1>6, <1>7 DEF Drives

LEMMA CheckTyped ==
  ASSUME TypeInv, CheckPendingBatchOperation
  PROVE  TypeInv'
<1>1. /\ UNCHANGED <<batch, pending_upload, event, held, cancelling, result, deleted, crossed, misapplied>>
      /\ Beside' /\ batch' \in Batches
  BY StableTypes DEF CheckPendingBatchOperation
<1>2. CASE Process(pending.op, Here)
  <2>1. pending.op \in OpType /\ Here \in Context
    BY ContextTyped DEF TypeInv, TypeOK
  <2>2. QED
    BY <1>1, <1>2, <2>1, ProcessDrives, DrivesTyped
<1>3. CASE pending' = Nothing /\ UNCHANGED <<modal, about, pending_delete, nothingStarted, fate, report>>
  <2>1. Steered'
    BY <1>1, <1>3, StableTypes, TypeParts, NewOpTyped, PendingTyped
       DEF TypeInv, Steered, DialogInv, nothingStarted
  <2>2. Managed' /\ Told'
    BY <1>1, <1>3, StableTypes DEF nothingStarted
  <2>3. QED
    BY <1>1, <2>1, <2>2, TypePartsNext
<1>4. QED
  BY <1>2, <1>3 DEF CheckPendingBatchOperation

LEMMA EndsTyped ==
  ASSUME TypeInv, NEW id \in Ids, NEW kind \in Results, Ends(id, kind)
  PROVE  TypeInv'
<1>1. batch' = batch /\ UNCHANGED <<task, driver, history>>
  BY DEF Ends
<1>2. Steered' /\ Told' /\ batch' \in Batches
  BY <1>1, StableTypes DEF driver, history
<1>3. Managed'
  BY <1>1, EndEffect, StableTypes, TypeParts DEF Ends, Managed
<1>4. Beside'
  <2>1. event' \in [id : Ids, kind : Results]
    BY DEF Ends
  <2>2. result' \in [Ids -> Results \cup {"none"}]
    BY DEF Ends, TypeInv, TypeOK
  <2>3. QED
    BY <1>1, <2>1, <2>2, StableTypes, TypeParts DEF Ends, Beside, driver, history
<1>5. QED
  BY <1>2, <1>3, <1>4, TypePartsNext

LEMMA QuestionTyped ==
  ASSUME TypeInv, NEW id \in Ids, ConflictDetected(id)
  PROVE  TypeInv'
<1>1. batch' = batch /\ UNCHANGED <<card, sub, pending_delete, pending_upload, task, event, held, cancelling, result, history>>
  BY DEF ConflictDetected
<1>2. Told' /\ Beside' /\ batch' \in Batches
  BY <1>1, StableTypes DEF history
<1>3. Managed'
  BY <1>1, QuestionEffect, StableTypes, TypeParts DEF ConflictDetected, Managed
<1>4. pending' \in PendingType /\ DialogInv'
  BY <1>1, NewOpTyped, PendingTyped, StableTypes DEF ConflictDetected, TypeInv, DialogInv
<1>5. Steered'
  BY <1>1, <1>4, StableTypes, TypeParts DEF ConflictDetected, Show, Steered, Modals
<1>6. QED
  BY <1>2, <1>3, <1>5, TypePartsNext

LEMMA HandleTyped ==
  ASSUME TypeInv, NEW kinds, Handle(kinds),
         pending_upload' \in Sources \cup {None}, deleted' \subseteq Sources
  PROVE  /\ batch' = batch /\ batch' \in Batches /\ Beside'
         /\ event \in [id : Ids, kind : Results] \/ event = NoEvent
<1>1. batch' = batch /\ event' = NoEvent /\ UNCHANGED <<held, cancelling, result, misapplied>>
  BY DEF Handle
<1>2. crossed' \in BOOLEAN
  BY DEF Handle, Crosses, TypeInv, TypeOK
<1>3. QED
  BY <1>1, <1>2, StableTypes, TypeParts DEF Beside

LEMMA CountDrives ==
  ASSUME TypeInv, NEW outcome \in Outcome, NEW c \in Context, Count(outcome, c)
  PROVE  /\ pending.kind = "continue"
         /\ \E o \in OpType : /\ o = IF pending.op.index <= batch.n THEN Advance(pending.op, outcome) ELSE pending.op
                              /\ Drives(o, c)
<1> DEFINE o == IF pending.op.index <= batch.n THEN Advance(pending.op, outcome) ELSE pending.op
<1>1. TypeOK /\ pending.op \in OpType
  BY DEF TypeInv, TypeOK
<1>2. o \in OpType
  BY <1>1, AdvanceTyped
<1>3. Process(o, c) /\ pending.kind = "continue"
  BY DEF Count
<1> HIDE DEF o
<1>4. Drives(o, c)
  BY <1>2, <1>3, ProcessDrives
<1> USE DEF o
<1>5. QED
  BY <1>2, <1>3, <1>4

LEMMA NoBatchTyped ==
  ASSUME TypeInv, batch' = batch, NEW c \in Context, NoBatch(c)
  PROVE  Steered' /\ Managed'
<1>1. /\ UNCHANGED <<pending, card, sub, status, task>>
      /\ modal' \in Modals /\ about' \in Sources \cup {None} /\ pending_delete' \in Sources \cup {None}
  BY LeaveTyped DEF NoBatch, nothingStarted, Context
<1>2. QED
  BY <1>1, StableTypes, TypeParts DEF Steered, DialogInv

LEMMA NextUploadTyped ==
  ASSUME TypeInv, batch' = batch, NextUpload
  PROVE  /\ Steered' /\ Managed' /\ Told' /\ pending_upload' \in Sources \cup {None} /\ deleted' \subseteq Sources
         /\ pending_upload \in Sources
<1>1. pending_upload \in Sources /\ batch.n \in Nat \ {0} /\ Sources = 1..batch.n
  BY BatchTyped DEF NextUpload, TypeInv, TypeOK
<1>2. deleted' \subseteq Sources
  BY <1>1 DEF NextUpload, TypeInv, TypeOK
<1>3. CASE /\ pending_upload < batch.n
           /\ StartOperationNow(pending_upload + 1, FALSE)
           /\ pending_upload' = pending_upload + 1
           /\ UNCHANGED <<modal, about, fate, report>>
  <2>1. pending_upload + 1 \in Sources
    BY <1>1, <1>3
  <2>2. Managed'
    BY <1>3, <2>1, StartEffect, StableTypes DEF Managed
  <2>3. Told'
    BY <1>3, StableTypes
  <2>4. Steered'
    BY <1>3, StableTypes, TypeParts DEF NextUpload, Steered, DialogInv
  <2>5. QED
    BY <1>1, <1>2, <1>3, <2>1, <2>2, <2>3, <2>4
<1>4. CASE /\ pending_upload = batch.n
           /\ pending_upload' = None
           /\ Show("none", None)
           /\ fate' = "ended" /\ report' = [s \in Sources |-> "success"]
           /\ UNCHANGED <<status, task>>
  <2>1. Managed'
    BY <1>4, StableTypes
  <2>2. Told'
    <3>1. [s \in Sources |-> "success"] \in [Sources -> Outcome]
      BY DEF Outcome
    <3>2. QED
      BY <1>4, <3>1, StableTypes DEF Told
  <2>3. Steered'
    BY <1>4, StableTypes, TypeParts DEF NextUpload, Show, Steered, DialogInv, Modals
  <2>4. QED
    BY <1>1, <1>2, <1>4, <2>1, <2>2, <2>3
<1>5. QED
  BY <1>3, <1>4 DEF NextUpload

LEMMA HandlersTyped ==
  ASSUME TypeInv, HandleSuccess \/ HandlePartialSuccess \/ HandleFailed \/ HandleCancelled
  PROVE  TypeInv'
<1>1. TypeOK /\ {"success", "partial", "error"} \subseteq Outcome
  BY DEF TypeInv, Outcome
<1>2. /\ Here \in Context /\ Forget \in Context /\ Failure \in Context
      /\ pending_upload \in Sources \cup {None} /\ deleted \subseteq Sources /\ pending_delete \in Sources \cup {None}
  BY <1>1, ContextTyped DEF TypeOK
<1>3. PICK kinds : Handle(kinds)
  BY DEF HandleSuccess, HandlePartialSuccess, HandleFailed, HandleCancelled
<1>4. batch' = batch
  BY <1>3 DEF Handle
<1>5. /\ pending_upload' \in Sources \cup {None}
      /\ deleted' \subseteq Sources
  BY <1>2, <1>4, NextUploadTyped
     DEF HandleSuccess, HandlePartialSuccess, HandleFailed, HandleCancelled, GiveUpUpload, None
<1>6. Beside' /\ batch' \in Batches
  BY <1>3, <1>5, HandleTyped
<1>7. ASSUME NEW outcome \in {"success", "partial", "error"}, NEW c \in Context, Count(outcome, c)
      PROVE  TypeInv'
  <2>1. PICK o \in OpType : Drives(o, c)
    BY <1>1, <1>7, CountDrives
  <2>2. QED
    BY <1>4, <1>6, <2>1, DrivesTyped
<1>8. ASSUME NEW c \in Context, NoBatch(c), Told'
      PROVE  TypeInv'
  BY <1>4, <1>6, <1>8, NoBatchTyped, TypePartsNext
<1>9. UNCHANGED <<fate, report>> => Told'
  BY <1>4, StableTypes
<1>10. GiveUpUpload => Told'
  BY <1>4, StableTypes, TypeParts DEF GiveUpUpload, Told
<1>11. CASE HandleSuccess
  <2>1. CASE NextUpload
    BY <1>4, <1>6, <2>1, NextUploadTyped, TypePartsNext
  <2>2. QED
    BY <1>2, <1>7, <1>8, <1>9, <1>11, <2>1 DEF HandleSuccess
<1>12. CASE HandlePartialSuccess
  BY <1>2, <1>7, <1>8, <1>9, <1>12 DEF HandlePartialSuccess
<1>13. CASE HandleFailed
  BY <1>2, <1>7, <1>8, <1>10, <1>13 DEF HandleFailed
<1>14. CASE HandleCancelled
  <2>1. CASE /\ pending.kind = "continue"
             /\ pending' = CancelCopyCleanup(pending.op)
             /\ Show("choice", None)
             /\ card' = "none" /\ sub' = None /\ pending_delete' = None
             /\ fate' = "cancelled"
             /\ UNCHANGED <<status, task, pending_upload, report, deleted>>
    <3>1. pending' \in PendingType /\ DialogInv'
      BY <1>1, <2>1, PendingTyped DEF TypeOK, DialogInv
    <3>2. Steered'
      BY <1>4, <2>1, <3>1, StableTypes DEF Show, Steered, Modals
    <3>3. Managed' /\ Told'
      BY <1>4, <2>1, StableTypes, TypeParts DEF Told
    <3>4. QED
      BY <1>6, <3>2, <3>3, TypePartsNext
  <2>2. CASE pending_upload = None /\ NoBatch(Forget) /\ GiveUpUpload
    BY <1>2, <1>8, <1>10, <2>2
  <2>3. CASE /\ pending' = OtherDialog
             /\ Show("dialog", None)
             /\ pending_delete' = None
             /\ GiveUpUpload
             /\ UNCHANGED nothingStarted
    <3>1. pending' \in PendingType /\ DialogInv'
      BY <1>1, <2>3, NewOpTyped, PendingTyped DEF TypeOK, DialogInv
    <3>2. Steered'
      BY <1>4, <2>3, <3>1, StableTypes, TypeParts DEF Show, Steered, Modals, nothingStarted
    <3>3. Managed' /\ Told'
      BY <1>4, <1>10, <2>3, StableTypes DEF nothingStarted
    <3>4. QED
      BY <1>6, <3>2, <3>3, TypePartsNext
  <2>4. QED
    BY <1>14, <2>1, <2>2, <2>3 DEF HandleCancelled
<1>15. QED
  BY <1>11, <1>12, <1>13, <1>14

(* What the user does without starting anything. *)
LEMMA SimpleUserTyped ==
  ASSUME TypeInv,
         UNCHANGED <<batch, task, event, result, pending_delete, pending_upload, report, deleted, crossed>>,
         pending' \in PendingType, DialogInv', modal' \in Modals, about' \in Sources \cup {None},
         card' \in {"none", "running", "paused"}, sub' = sub,
         status' \in [Ids -> Standing], FreshInv',
         fate' \in {"none", "going", "ended", "cancelled"},
         held' \subseteq Ids, cancelling' \subseteq Ids, misapplied' = misapplied
  PROVE  TypeInv'
<1>1. Sources' = Sources /\ OpType' = OpType /\ PendingType' = PendingType /\ batch' \in Batches
  BY StableTypes
<1>2. Steered'
  BY <1>1, TypeParts DEF Steered
<1>3. Managed' /\ Told' /\ Beside'
  BY <1>1, TypeParts DEF Managed, Told, Beside
<1>4. QED
  BY <1>1, <1>2, <1>3, TypePartsNext

LEMMA FreshSame ==
  ASSUME TypeInv, status' = status
  PROVE  FreshInv' /\ status' \in [Ids -> Standing]
  BY DEF TypeInv, TypeOK, FreshInv

LEMMA OpenDialogTyped ==
  ASSUME TypeInv,
         NEW action \in {CopyPath, OtherDialog} \cup {CancelOperation(id) : id \in Ids \cup {None}},
         OpenDialog(action)
  PROVE  TypeInv'
<1>1. action \in PendingType /\ action.kind \notin {"rename", "resolve"}
  BY NewOpTyped, PendingTyped DEF TypeInv
<1>2. pending' \in PendingType /\ DialogInv' /\ modal' \in Modals /\ about' \in Sources \cup {None}
  BY <1>1 DEF OpenDialog, DialogInv, Show, Modals
<1>3. QED
  BY <1>2, FreshSame, SimpleUserTyped DEF OpenDialog, userFrame, TypeInv, TypeOK

LEMMA CancelTyped ==
  ASSUME TypeInv, CancelConfirmed
  PROVE  TypeInv'
<1> DEFINE id == IF pending.id = None THEN sub ELSE pending.id
<1>1. id \in Alive => id \in Ids
  BY DEF Alive
<1>2. status' \in [Ids -> Standing] /\ FreshInv' /\ cancelling' \subseteq Ids
  BY <1>1, WithdrawEffect, FreshSame DEF CancelConfirmed, TypeInv, TypeOK
<1>3. pending' \in PendingType /\ DialogInv'
  BY NewOpTyped, PendingTyped DEF CancelConfirmed, TypeInv, DialogInv
<1>4. modal' \in Modals /\ about' \in Sources \cup {None}
  BY DEF CancelConfirmed, Show, Modals
<1>5. QED
  BY <1>2, <1>3, <1>4, SimpleUserTyped DEF CancelConfirmed, userFrame, TypeInv, TypeOK

LEMMA AcknowledgeTyped ==
  ASSUME TypeInv, Acknowledge
  PROVE  TypeInv'
<1>1. pending' \in PendingType /\ DialogInv'
  BY NewOpTyped, PendingTyped DEF Acknowledge, TypeInv, DialogInv
<1>2. modal' \in Modals /\ about' \in Sources \cup {None}
  BY DEF Acknowledge, Show, Modals
<1>3. QED
  BY <1>1, <1>2, FreshSame, SimpleUserTyped DEF Acknowledge, userFrame, TypeInv, TypeOK

LEMMA AnswerQuestionTyped ==
  ASSUME TypeInv, AnswerQuestion
  PROVE  TypeInv'
<1>1. pending' \in PendingType /\ DialogInv'
  BY NewOpTyped, PendingTyped DEF AnswerQuestion, TypeInv, DialogInv
<1>2. modal' \in Modals /\ about' \in Sources \cup {None}
  BY DEF AnswerQuestion, Show, Modals
<1>3. pending.id \in Ids
  BY DEF AnswerQuestion, TypeInv, DialogInv
<1>4. status' \in [Ids -> Standing] /\ FreshInv'
  BY <1>3, AnsweredEffect DEF AnswerQuestion
<1>5. QED
  BY <1>1, <1>2, <1>4, SimpleUserTyped DEF AnswerQuestion, userFrame, TypeInv, TypeOK

LEMMA PauseTyped ==
  ASSUME TypeInv, TogglePause \/ (\E id \in Ids : ToggleStandalonePause(id))
  PROVE  TypeInv'
<1>1. CASE TogglePause
  <2>1. pending' \in PendingType /\ DialogInv'
    <3>1. CASE pending.kind = "continue"
      <4>1. PICK pausing \in BOOLEAN : pending' = [pending EXCEPT !.op.paused = pausing]
        BY <1>1, <3>1 DEF TogglePause
      <4> DEFINE o == [pending.op EXCEPT !.paused = pausing]
      <4>2. o \in OpType
        BY ModeTyped DEF TypeInv, TypeOK
      <4>3. pending' = [pending EXCEPT !.op = o]
        BY <4>1
      <4> HIDE DEF o
      <4>4. QED
        BY <3>1, <4>2, <4>3 DEF TypeInv, TypeOK, PendingType, DialogInv
    <3>2. CASE pending.kind # "continue"
      BY <1>1, <3>2, TypeParts DEF TogglePause, userFrame, Steered, DialogInv
    <3>3. QED
      BY <3>1, <3>2
  <2>2. held' \subseteq Ids
    BY <1>1 DEF TogglePause, TypeInv, TypeOK, Alive
  <2>3. QED
    BY <1>1, <2>1, <2>2, FreshSame, SimpleUserTyped DEF TogglePause, userFrame, TypeInv, TypeOK, Modals
<1>2. ASSUME NEW id \in Ids, ToggleStandalonePause(id)
      PROVE  TypeInv'
  <2>1. pending' \in PendingType /\ DialogInv'
    BY <1>2, TypeParts DEF ToggleStandalonePause, userFrame, Steered, DialogInv
  <2>2. held' \subseteq Ids
    BY <1>2 DEF ToggleStandalonePause, TypeInv, TypeOK
  <2>3. QED
    BY <1>2, <2>1, <2>2, FreshSame, SimpleUserTyped
       DEF ToggleStandalonePause, userFrame, TypeInv, TypeOK, Modals
<1>3. QED
  BY <1>1, <1>2

LEMMA StandaloneTyped ==
  ASSUME TypeInv, StartStandalone
  PROVE  TypeInv'
<1>1. StartOperationNow(None, FALSE) /\ UNCHANGED <<batch, driver, event, held, cancelling, result, history>>
  BY DEF StartStandalone
<1>2. Managed'
  BY <1>1, StartEffect, StableTypes DEF Managed
<1>3. Steered' /\ Told' /\ Beside' /\ batch' \in Batches
  BY <1>1, StableTypes DEF driver, history
<1>4. QED
  BY <1>2, <1>3, TypePartsNext

(* The user's steps that carry the batch on. *)
LEMMA ConfirmCopyDrives ==
  ASSUME TypeInv, ConfirmCopyOrMove
  PROVE  NewOp \in OpType /\ Closed \in Context /\ Drives(NewOp, Closed)
  BY NewOpTyped, ContextTyped, ProcessDrives DEF ConfirmCopyOrMove, TypeInv

LEMMA AnswerConflictDrives ==
  ASSUME TypeInv, NEW resolution \in ConflictResolution, AnswerConflict(resolution)
  PROVE  \/ Drives(pending.op, Closed)
         \/ Leave(Closed) /\ UNCHANGED <<pending, nothingStarted, fate, report>>
<1>1. pending.op \in OpType
  BY DEF TypeInv, TypeOK
<1>2. QED
  BY <1>1, ResolveDrives DEF AnswerConflict

LEMMA AnswerRenameDrives ==
  ASSUME TypeInv, AnswerRename
  PROVE  \/ Drives(pending.op, Here)
         \/ pending' = Nothing /\ Leave(Closed) /\ UNCHANGED <<nothingStarted, fate, report>>
<1>1. pending.op \in OpType /\ pending.op.index <= batch.n /\ Here \in Context
  BY ContextTyped DEF TypeInv, TypeOK, DialogInv, AnswerRename
<1>2. CASE AskAbout(pending.op, Here)
  BY <1>1, <1>2, AskDrives DEF AnswerRename, history
<1>3. CASE StartBatchSubOperation(pending.op, "Ask", Here) /\ Show("none", None)
  BY <1>1, <1>3, StartBatchDrives DEF AnswerRename, history, Show, Modals
<1>4. QED
  BY <1>2, <1>3 DEF AnswerRename, history

LEMMA EscapeDrives ==
  ASSUME TypeInv, Escape
  PROVE  \/ pending.kind = "rename" /\ Drives(pending.op, Here)
         \/ Show("none", None) /\ UNCHANGED <<pending, pending_delete, nothingStarted, fate, report>>
<1>1. pending.kind = "rename" => pending.op \in OpType /\ pending.op.index <= batch.n /\ Here \in Context
  BY ContextTyped DEF TypeInv, TypeOK, DialogInv
<1>2. QED
  BY <1>1, AskDrives DEF Escape, history

LEMMA ConfirmUploadDrives ==
  ASSUME TypeInv, ConfirmUpload
  PROVE  \/ Drives(NewOp, Here) /\ UNCHANGED pending_upload
         \/ /\ StartOperationNow(1, FALSE)
            /\ pending_upload' = 1
            /\ pending' = Nothing
            /\ Leave(Closed)
            /\ UNCHANGED <<card, sub, fate, report>>
<1>1. NewOp \in OpType /\ NewOp.index <= batch.n /\ Here \in Context
  <2>1. 1 <= batch.n /\ NewOp \in OpType /\ NewOp.index = 1
    BY NewOpTyped, BatchTyped DEF TypeInv
  <2>2. QED
    BY <2>1, ContextTyped DEF TypeInv
<1>2. QED
  BY <1>1, AskDrives DEF ConfirmUpload, history

LEMMA CarryingTyped ==
  ASSUME TypeInv, ConfirmCopyOrMove \/ ConfirmUpload \/ Answer \/ Escape
  PROVE  TypeInv'
<1>1. /\ pending.op \in OpType /\ NewOp \in OpType /\ Here \in Context /\ Closed \in Context
      /\ 1 \in Sources /\ None \notin Sources /\ TypeOK
  BY ContextTyped, NewOpTyped, BatchTyped DEF TypeInv, TypeOK
<1>2. ASSUME Leave(Closed) \/ (Show("none", None) /\ UNCHANGED pending_delete),
             pending' \in {pending, Nothing}, batch' = batch, UNCHANGED <<card, sub>>
      PROVE  Steered'
  <2>1. pending' \in PendingType /\ DialogInv'
    BY <1>1, <1>2, TypeParts, NewOpTyped, PendingTyped DEF Steered, DialogInv
  <2>2. modal' \in Modals /\ about' \in Sources \cup {None} /\ pending_delete' \in Sources \cup {None}
    BY <1>1, <1>2, LeaveTyped, TypeParts DEF Show, Modals, Context, Steered
  <2>3. QED
    BY <1>2, <2>1, <2>2, StableTypes, TypeParts DEF Steered
<1>3. CASE ConfirmCopyOrMove
  <2>1. Beside' /\ batch' = batch
    BY <1>3, StableTypes DEF ConfirmCopyOrMove
  <2>2. QED
    BY <1>1, <1>3, <2>1, ConfirmCopyDrives, DrivesTyped
<1>4. CASE ConfirmUpload
  <2>1. batch' = batch /\ UNCHANGED <<event, held, cancelling, result, history>>
    BY <1>4 DEF ConfirmUpload
  <2>2. pending_upload' \in Sources \cup {None} => Beside'
    BY <2>1, StableTypes, TypeParts DEF Beside, history
  <2>3. CASE Drives(NewOp, Here) /\ UNCHANGED pending_upload
    BY <1>1, <2>1, <2>2, <2>3, DrivesTyped DEF TypeOK
  <2>4. CASE /\ StartOperationNow(1, FALSE)
             /\ pending_upload' = 1
             /\ pending' = Nothing
             /\ Leave(Closed)
             /\ UNCHANGED <<card, sub, fate, report>>
    <3>1. Managed'
      BY <1>1, <2>1, <2>4, StartEffect, StableTypes DEF Managed
    <3>2. Steered' /\ Told' /\ Beside' /\ batch' \in Batches
      BY <1>1, <1>2, <2>1, <2>2, <2>4, StableTypes
    <3>3. QED
      BY <3>1, <3>2, TypePartsNext
  <2>5. QED
    BY <1>4, <2>3, <2>4, ConfirmUploadDrives
<1>5. ASSUME NEW resolution \in ConflictResolution, AnswerConflict(resolution)
      PROVE  TypeInv'
  <2>1. UNCHANGED <<batch, pending_upload, event, result, held, cancelling, fate, report, deleted, crossed>>
    BY <1>5 DEF AnswerConflict
  <2>2. misapplied' \in BOOLEAN
    BY <1>1, <1>5 DEF AnswerConflict, TypeOK
  <2>3. Beside' /\ batch' \in Batches /\ Told'
    BY <2>1, <2>2, StableTypes, TypeParts DEF Beside
  <2>4. CASE Leave(Closed) /\ UNCHANGED <<pending, nothingStarted, fate, report>>
    <3>1. Steered' /\ Managed'
      BY <1>2, <2>1, <2>4, StableTypes DEF nothingStarted
    <3>2. QED
      BY <2>3, <3>1, TypePartsNext
  <2>5. QED
    BY <1>1, <1>5, <2>1, <2>3, <2>4, AnswerConflictDrives, DrivesTyped
<1>6. CASE AnswerRename
  <2>1. UNCHANGED <<batch, pending_upload, event, result, held, cancelling, history>>
    BY <1>6 DEF AnswerRename
  <2>2. Beside' /\ batch' \in Batches /\ Told'
    BY <2>1, StableTypes DEF history
  <2>3. CASE pending' = Nothing /\ Leave(Closed) /\ UNCHANGED <<nothingStarted, fate, report>>
    <3>1. Steered' /\ Managed'
      BY <1>2, <2>1, <2>3, StableTypes DEF nothingStarted
    <3>2. QED
      BY <2>2, <3>1, TypePartsNext
  <2>4. QED
    BY <1>1, <1>6, <2>1, <2>2, <2>3, AnswerRenameDrives, DrivesTyped
<1>7. CASE Escape
  <2>1. UNCHANGED <<batch, pending_upload, event, result, held, cancelling, history>>
    BY <1>7 DEF Escape
  <2>2. Beside' /\ batch' \in Batches /\ Told'
    BY <2>1, StableTypes DEF history
  <2>3. CASE Show("none", None) /\ UNCHANGED <<pending, pending_delete, nothingStarted, fate, report>>
    <3>1. Steered' /\ Managed'
      BY <1>2, <2>1, <2>3, StableTypes DEF nothingStarted
    <3>2. QED
      BY <2>2, <3>1, TypePartsNext
  <2>4. QED
    BY <1>1, <1>7, <2>1, <2>2, <2>3, EscapeDrives, DrivesTyped
<1>8. QED
  BY <1>3, <1>4, <1>5, <1>6, <1>7 DEF Answer

LEMMA InitTyped == Init => TypeInv
<1> SUFFICES ASSUME Init PROVE TypeInv
  OBVIOUS
<1>1. batch \in Batches /\ batch \in BatchType /\ MaxOps \in Nat
  BY BatchAssumption DEF Init
<1>2. [s \in Sources |-> "none"] \in [Sources -> Outcome]
  BY DEF Outcome
<1>3. NewOp \in OpType /\ NewOp.counted \in [Sources -> Outcome]
  <2>1. 1 \in 1..batch.n + 1
    BY <1>1 DEF BatchType
  <2>2. QED
    BY <1>2, <2>1 DEF NewOp, OpType
<1>4. Steered
  BY <1>3 DEF Init, Steered, PendingType, Nothing, DialogInv, Modals, None
<1>5. Managed
  <2>1. FreshInv
    BY <1>1 DEF Init, ServiceInit, FreshInv, Ids
  <2>2. QED
    BY <2>1 DEF Init, ServiceInit, Managed, Standing
<1>6. Told /\ Beside
  BY <1>3 DEF Init, Told, Beside
<1>7. QED
  BY <1>1, <1>4, <1>5, <1>6, TypeParts

(* Every variable keeps its type, ids are given out in order, and the       *)
(* dialogs ask about a file of the batch or for an operation.               *)
THEOREM TypeInvHolds == Spec => []TypeInv
<1>1. TypeInv /\ [Next]_vars => TypeInv'
  <2> SUFFICES ASSUME TypeInv, [Next]_vars PROVE TypeInv'
    OBVIOUS
  <2>1. CASE UNCHANGED vars
    <3>1. UNCHANGED <<batch, driver, manager, history>>
      BY <2>1 DEF vars
    <3>2. batch' \in Batches /\ Steered' /\ Managed' /\ Told' /\ Beside'
      BY <3>1, StableTypes DEF driver, manager, history
    <3>3. QED
      BY <3>2, TypePartsNext
  <2>2. CASE User
    BY <2>2, OpenDialogTyped, CarryingTyped, CancelTyped, AcknowledgeTyped, AnswerQuestionTyped,
       PauseTyped, StandaloneTyped DEF User
  <2>3. CASE PollOperationManager
    BY <2>3, EndsTyped, QuestionTyped, HandlersTyped DEF PollOperationManager
  <2>4. CASE CheckPendingBatchOperation
    BY <2>4, CheckTyped
  <2>5. QED
    BY <2>1, <2>2, <2>3, <2>4 DEF Next
<1>2. QED
  BY <1>1, InitTyped, PTL DEF Spec

(* The part of it that is the type invariant of the module. *)
THEOREM TypeOKHolds == Spec => []TypeOK
  BY TypeInvHolds, PTL DEF TypeInv

-----------------------------------------------------------------------------
(***************************************************************************)
(* What any step does to the operations: one ends, starts, or moves        *)
(* between going, asking and withdrawn; or nothing happens to them.        *)
(***************************************************************************)
Taken == event' \in {event, NoEvent} /\ UNCHANGED result

Moves(id) ==
  /\ status[id] \in {"going", "asking"}
  /\ \E new \in {"going", "asking", "withdrawn"} : status' = [status EXCEPT ![id] = new]
  /\ UNCHANGED <<task, event, result>>

ManagerStep ==
  \/ Taken /\ UNCHANGED <<status, task>>
  \/ Taken /\ \E source \in Sources \cup {None}, asks \in BOOLEAN : StartOperationNow(source, asks)
  \/ \E id \in Ids : Moves(id)
  \/ \E id \in Ids, kind \in Results : Ends(id, kind)

LEMMA DrivesManager ==
  ASSUME NEW o, NEW c, Drives(o, c), Taken
  PROVE  ManagerStep
  BY DEF Drives, Keeps, Starts, Finishes, ManagerStep

LEMMA HandlersManager ==
  ASSUME TypeInv, HandleSuccess \/ HandlePartialSuccess \/ HandleFailed \/ HandleCancelled
  PROVE  ManagerStep
<1>1. Taken
  BY DEF HandleSuccess, HandlePartialSuccess, HandleFailed, HandleCancelled, Handle, Taken
<1>2. /\ Here \in Context /\ Forget \in Context /\ Failure \in Context
      /\ {"success", "partial", "error"} \subseteq Outcome
  BY ContextTyped DEF TypeInv, Outcome
<1>3. ASSUME NEW outcome \in {"success", "partial", "error"}, NEW c \in Context, Count(outcome, c)
      PROVE  ManagerStep
  BY <1>1, <1>2, <1>3, CountDrives, DrivesManager
<1>4. ASSUME NEW c, NoBatch(c)
      PROVE  ManagerStep
  BY <1>1, <1>4 DEF NoBatch, nothingStarted, ManagerStep
<1>5. NextUpload => ManagerStep
  <2>1. SUFFICES ASSUME NextUpload PROVE ManagerStep
    OBVIOUS
  <2>2. pending_upload < batch.n => pending_upload + 1 \in Sources
    BY <2>1, BatchTyped DEF NextUpload, TypeInv, TypeOK
  <2>3. QED
    BY <1>1, <2>1, <2>2 DEF NextUpload, ManagerStep
<1>6. CASE HandleSuccess
  BY <1>2, <1>3, <1>4, <1>5, <1>6 DEF HandleSuccess
<1>7. CASE HandlePartialSuccess
  BY <1>2, <1>3, <1>4, <1>7 DEF HandlePartialSuccess
<1>8. CASE HandleFailed
  BY <1>2, <1>3, <1>4, <1>8 DEF HandleFailed
<1>9. CASE HandleCancelled
  BY <1>1, <1>4, <1>9 DEF HandleCancelled, nothingStarted, ManagerStep
<1>10. QED
  BY <1>6, <1>7, <1>8, <1>9

LEMMA CarryingManager ==
  ASSUME TypeInv, ConfirmCopyOrMove \/ ConfirmUpload \/ Answer \/ Escape
  PROVE  ManagerStep
<1>1. Taken
  BY DEF ConfirmCopyOrMove, ConfirmUpload, Answer, AnswerConflict, AnswerRename, Escape, Taken, UserActs
<1>2. UNCHANGED nothingStarted => ManagerStep
  BY <1>1 DEF nothingStarted, ManagerStep
<1>3. 1 \in Sources
  BY BatchTyped DEF TypeInv
<1>4. CASE ConfirmCopyOrMove
  BY <1>1, <1>4, ConfirmCopyDrives, DrivesManager
<1>5. CASE ConfirmUpload
  BY <1>1, <1>3, <1>5, ConfirmUploadDrives, DrivesManager DEF ManagerStep
<1>6. CASE Answer
  BY <1>1, <1>2, <1>6, AnswerConflictDrives, AnswerRenameDrives, DrivesManager DEF Answer
<1>7. CASE Escape
  BY <1>1, <1>2, <1>7, EscapeDrives, DrivesManager
<1>8. QED
  BY <1>4, <1>5, <1>6, <1>7

LEMMA NextManager ==
  ASSUME TypeInv, [Next]_vars
  PROVE  ManagerStep
<1>1. CASE \/ UNCHANGED vars
           \/ \E action : OpenDialog(action)
           \/ Acknowledge \/ TogglePause \/ \E id \in Ids : ToggleStandalonePause(id)
  <2>1. UNCHANGED <<status, task, event, result>>
    BY <1>1 DEF vars, manager, OpenDialog, Acknowledge, TogglePause, ToggleStandalonePause, userFrame
  <2>2. QED
    BY <2>1 DEF ManagerStep, Taken
<1>2. CASE CancelConfirmed
  <2>1. PICK id : /\ UNCHANGED <<task, event, result>>
                  /\ \/ UNCHANGED status
                     \/ id \in Alive /\ Withdraw({id})
    BY <1>2 DEF CancelConfirmed, userFrame
  <2>2. CASE UNCHANGED status
    BY <2>1, <2>2 DEF ManagerStep, Taken
  <2>3. CASE id \in Alive /\ Withdraw({id})
    BY <2>1, <2>3, WithdrawEffect DEF ManagerStep, Moves, Alive
  <2>4. QED
    BY <2>1, <2>2, <2>3
<1>3. CASE AnswerQuestion
  <2>1. pending.id \in Ids /\ Answered(pending.id) /\ UNCHANGED <<task, event, result>>
    BY <1>3 DEF AnswerQuestion, userFrame, TypeInv, DialogInv
  <2>2. QED
    BY <2>1, AnsweredEffect DEF ManagerStep, Moves
<1>4. CASE StartStandalone
  BY <1>4 DEF StartStandalone, ManagerStep, Taken
<1>5. CASE \E id \in Ids : ConflictDetected(id)
  <2>1. PICK id \in Ids : ConflictDetected(id)
    BY <1>5
  <2>2. Deliver({}, {id}) /\ UNCHANGED <<task, event, result>>
    BY <2>1 DEF ConflictDetected
  <2>3. QED
    BY <2>2, QuestionEffect DEF ManagerStep, Moves
<1>6. CASE CheckPendingBatchOperation
  <2>1. Taken /\ Here \in Context /\ pending.op \in OpType
    BY <1>6, ContextTyped DEF CheckPendingBatchOperation, Taken, TypeInv, TypeOK
  <2>2. CASE Process(pending.op, Here)
    BY <2>1, <2>2, ProcessDrives, DrivesManager
  <2>3. CASE UNCHANGED nothingStarted
    BY <2>1, <2>3 DEF nothingStarted, ManagerStep
  <2>4. QED
    BY <1>6, <2>2, <2>3 DEF CheckPendingBatchOperation
<1>7. QED
  BY <1>1, <1>2, <1>3, <1>4, <1>5, <1>6, HandlersManager, CarryingManager
     DEF Next, User, PollOperationManager, ManagerStep

-----------------------------------------------------------------------------
(* An operation that has not started was started for nothing, only one that *)
(* is over has a result, and the end in hand is that of such a one.         *)
Own(id) == task[id].source # None

BlankInv == \A id \in Ids : status[id] = "fresh" => ~Own(id)
ResultInv == \A id \in Ids : result[id] # "none" => status[id] = "over"
EventInv ==
  event # NoEvent => /\ event.id \in Ids /\ status[event.id] = "over"
                     /\ Own(event.id) => result[event.id] = event.kind

LogInv == BlankInv /\ ResultInv /\ EventInv

(* What was once started keeps its task, what ended its result. *)
Keeping ==
  /\ \A id \in Ids : status[id] # "fresh" => task'[id] = task[id] /\ status'[id] # "fresh"
  /\ \A id \in Ids : status[id] = "over" => result'[id] = result[id] /\ status'[id] = "over"

LEMMA EndsLog ==
  ASSUME TypeInv, LogInv, NEW id \in Ids, NEW kind \in Results, Ends(id, kind)
  PROVE  LogInv' /\ Keeping
<1>1. /\ event = NoEvent /\ event' = [id |-> id, kind |-> kind] /\ task' = task
      /\ result' = IF task[id].source = None THEN result ELSE [result EXCEPT ![id] = kind]
  BY DEF Ends
<1>2. /\ status[id] = "going" /\ status' = [status EXCEPT ![id] = "over"]
      /\ status \in [Ids -> Standing] /\ result \in [Ids -> Results \cup {"none"}]
  BY EndEffect DEF Ends, TypeInv, TypeOK
<1>3. BlankInv' /\ ResultInv'
  BY <1>1, <1>2 DEF LogInv, BlankInv, ResultInv, Own
<1>4. EventInv'
  BY <1>1, <1>2 DEF EventInv, Own
<1>5. Keeping
  BY <1>1, <1>2 DEF Keeping
<1>6. QED
  BY <1>3, <1>4, <1>5 DEF LogInv

LEMMA ManagerStepLog ==
  ASSUME TypeInv, LogInv, ManagerStep
  PROVE  LogInv' /\ Keeping
<1>1. /\ status \in [Ids -> Standing] /\ task \in [Ids -> [source : Sources \cup {None}, asks : BOOLEAN]]
      /\ event \in {NoEvent} \cup [id : Ids, kind : Results] /\ NoEvent.id \notin Ids
  BY DEF TypeInv, TypeOK, NoEvent, None, Ids
<1>2. CASE Taken /\ UNCHANGED <<status, task>>
  BY <1>2 DEF Taken, LogInv, BlankInv, ResultInv, EventInv, Own, Keeping
<1>3. ASSUME Taken, NEW source \in Sources \cup {None}, NEW asks \in BOOLEAN, StartOperationNow(source, asks)
      PROVE  LogInv' /\ Keeping
  <2>1. /\ NextId \in Ids /\ status[NextId] = "fresh"
        /\ status' = [status EXCEPT ![NextId] = "going"]
        /\ task' = [task EXCEPT ![NextId] = [source |-> source, asks |-> asks]]
    BY <1>3, StartEffect
  <2>2. \A id \in Ids : id # NextId => status'[id] = status[id] /\ task'[id] = task[id]
    BY <1>1, <2>1
  <2>3. status'[NextId] = "going"
    BY <1>1, <2>1
  <2>4. BlankInv' /\ ResultInv' /\ Keeping
    BY <1>3, <2>1, <2>2, <2>3 DEF Taken, LogInv, BlankInv, ResultInv, Own, Keeping
  <2>5. EventInv'
    BY <1>3, <2>1, <2>2 DEF Taken, LogInv, EventInv, Own
  <2>6. QED
    BY <2>4, <2>5 DEF LogInv
<1>4. ASSUME NEW id \in Ids, Moves(id)
      PROVE  LogInv' /\ Keeping
  BY <1>1, <1>4 DEF Moves, LogInv, BlankInv, ResultInv, EventInv, Own, Keeping
<1>5. QED
  BY <1>2, <1>3, <1>4, EndsLog DEF ManagerStep

LEMMA InitLog == Init => LogInv
  BY DEF Init, ServiceInit, LogInv, BlankInv, ResultInv, EventInv, Own

LEMMA NextLog ==
  ASSUME TypeInv, LogInv, [Next]_vars
  PROVE  LogInv' /\ Keeping
  BY NextManager, ManagerStepLog

LEMMA TransferredKept ==
  ASSUME TypeInv, LogInv, [Next]_vars, NEW s \in Sources, NEW kinds, "none" \notin kinds, Transferred(s, kinds)
  PROVE  Transferred(s, kinds)'
<1>1. PICK id \in Ids : task[id].source = s /\ result[id] \in kinds
  BY DEF Transferred
<1>2. status[id] = "over"
  BY <1>1 DEF LogInv, ResultInv
<1>3. task'[id] = task[id] /\ result'[id] = result[id]
  BY <1>2, NextLog DEF Keeping
<1>4. QED
  BY <1>1, <1>3 DEF Transferred

-----------------------------------------------------------------------------
(***************************************************************************)
(* What any step does to the batch.  Most leave it as it is or give it up; *)
(* the others begin it, carry it on, count an end, or start an upload.     *)
(***************************************************************************)
Engaged(id) == Own(id) /\ (id \in Alive \/ event.id = id)

SameBatch ==
  pending'.kind = pending.kind /\ pending'.op.index = pending.op.index /\ pending'.op.counted = pending.op.counted
GivenUp ==
  /\ pending'.kind \notin {"continue", "rename", "copy"}
  /\ pending'.op.counted \in {NewOp.counted, pending.op.counted}

(* The operations started for sources stay the same; that of a batch in     *)
(* hand may end but is not forgotten.                                       *)
QuietManager ==
  /\ \A id \in Ids : task'[id].source = task[id].source
  /\ \A id \in Ids : Engaged(id)' => Engaged(id)
  /\ pending'.kind = "continue" => \A id \in Ids : Engaged(id) => Engaged(id)'

Quiet ==
  /\ SameBatch \/ GivenUp
  /\ QuietManager
  /\ pending'.kind = "continue" /\ modal' = "conflict" =>
       pending.kind = "continue" /\ modal = "conflict" /\ about' = about
  /\ pending_delete' \in {pending_delete, None} /\ pending_upload' \in {pending_upload, None}
  /\ report' = report
  /\ fate' = fate \/ (fate' = "cancelled" /\ (pending_upload # None \/ pending.kind = "continue"))

Begins == OpenDialog(CopyPath)

Carries(o, c) ==
  /\ event = NoEvent /\ UNCHANGED <<event, result, pending_upload, deleted, crossed>>
  /\ c.delete = pending_delete /\ c.modal # "conflict"
  /\ \/ pending.kind = "continue" /\ (Alive = {} \/ modal = "conflict") /\ o = pending.op
     \/ pending.kind = "rename" /\ o = pending.op
     \/ pending.kind = "copy" /\ o = NewOp
  /\ Drives(o, c)

Counts(o, c, outcome) ==
  /\ pending.kind = "continue"
  /\ event # NoEvent /\ event' = NoEvent /\ crossed' = (crossed \/ Crosses(event.id))
  /\ outcome = "success" => event.kind = "Success"
  /\ outcome = "partial" => event.kind = "PartialSuccess"
  /\ o = IF pending.op.index <= batch.n THEN Advance(pending.op, outcome) ELSE pending.op
  /\ c.delete \in {pending_delete, None} /\ c.modal = modal
  /\ UNCHANGED <<result, pending_upload>>
  /\ Drives(o, c)

UploadsFirst ==
  /\ event = NoEvent /\ UNCHANGED <<event, result>>
  /\ pending.kind = "copy" /\ pending' = Nothing
  /\ StartOperationNow(1, FALSE) /\ pending_upload' = 1
  /\ UNCHANGED <<pending_delete, fate, report>>

UploadsNext == Handle({"Success"}) /\ NextUpload

BatchStep ==
  \/ Quiet \/ Begins \/ UploadsFirst \/ UploadsNext
  \/ \E o \in OpType, c \in Context : Carries(o, c)
  \/ \E o \in OpType, c \in Context, outcome \in {"success", "partial", "error"} : Counts(o, c, outcome)

LEMMA QuietUnchanged ==
  ASSUME TypeInv, UNCHANGED <<status, task>>, event' \in {event, NoEvent},
         pending'.kind = "continue" => event' = event
  PROVE  QuietManager
  BY DEF QuietManager, Engaged, Own, Alive, TypeInv, TypeOK, NoEvent, None, Ids

LEMMA QuietMoves ==
  ASSUME TypeInv, NEW id \in Ids, Moves(id), pending'.kind = "continue" => status'[id] # "withdrawn"
  PROVE  QuietManager
<1>1. PICK new \in {"going", "asking", "withdrawn"} : status' = [status EXCEPT ![id] = new]
  BY DEF Moves
<1>2. status \in [Ids -> Standing] /\ id \in Alive /\ UNCHANGED <<task, event>>
  BY DEF TypeInv, TypeOK, Moves, Alive
<1>3. Alive' \subseteq Alive /\ (new # "withdrawn" => Alive' = Alive)
  BY <1>1, <1>2 DEF Alive
<1>4. status'[id] = new
  BY <1>1, <1>2
<1>5. QED
  BY <1>2, <1>3, <1>4 DEF QuietManager, Engaged, Own

(* Dialogs and pauses. *)
LEMMA QuietUser ==
  ASSUME TypeInv, LogInv,
         \/ OpenDialog(OtherDialog) \/ (\E id \in Ids \cup {None} : OpenDialog(CancelOperation(id)))
         \/ Acknowledge \/ TogglePause \/ (\E id \in Ids : ToggleStandalonePause(id))
  PROVE  Quiet
<1>1. /\ UNCHANGED <<status, task, event, pending_delete, pending_upload, report, fate>>
      /\ pending'.kind = "continue" => pending.kind = "continue"
      /\ SameBatch \/ GivenUp
  <2>1. CASE OpenDialog(OtherDialog) \/ (\E id \in Ids \cup {None} : OpenDialog(CancelOperation(id)))
    <3>1. PICK action \in {OtherDialog} \cup {CancelOperation(id) : id \in Ids \cup {None}} : OpenDialog(action)
      BY <2>1
    <3>2. action.op = NewOp /\ action.kind \in {"other", "cancel"}
      BY PendingTyped, NewOpTyped DEF TypeInv
    <3>3. action # CopyPath
      BY <3>2 DEF CopyPath
    <3>4. QED
      BY <3>1, <3>2, <3>3 DEF OpenDialog, userFrame, GivenUp
  <2>2. CASE Acknowledge
    BY <2>2, PendingTyped, NewOpTyped DEF Acknowledge, userFrame, GivenUp, TypeInv
  <2>3. CASE TogglePause
    <3>1. PICK pausing \in BOOLEAN : pending' \in {pending, [pending EXCEPT !.op.paused = pausing]}
      BY <2>3 DEF TogglePause
    <3>2. SameBatch
      BY <3>1 DEF SameBatch, TypeInv, TypeOK, OpType
    <3>3. QED
      BY <2>3, <3>2 DEF TogglePause, userFrame, SameBatch
  <2>4. CASE \E id \in Ids : ToggleStandalonePause(id)
    BY <2>4 DEF ToggleStandalonePause, userFrame, SameBatch
  <2>5. QED
    BY <2>1, <2>2, <2>3, <2>4
<1>2. modal' # "conflict"
  BY DEF OpenDialog, Acknowledge, TogglePause, ToggleStandalonePause, userFrame, Show
<1>3. QuietManager
  BY <1>1, QuietUnchanged
<1>4. QED
  BY <1>1, <1>2, <1>3 DEF Quiet

(* A dialog is answered that is not the batch's. *)
LEMMA QuietAnswers ==
  ASSUME TypeInv, CancelConfirmed \/ AnswerQuestion
  PROVE  Quiet
<1>1. /\ UNCHANGED <<task, event, result, pending_delete, pending_upload, report, fate>>
      /\ pending' = Nothing
  BY DEF CancelConfirmed, AnswerQuestion, userFrame
<1>2. pending'.kind = "none" /\ GivenUp
  BY <1>1, PendingTyped, NewOpTyped DEF GivenUp, TypeInv
<1>3. QuietManager
  <2>1. CASE UNCHANGED status
    BY <1>1, <2>1, QuietUnchanged
  <2>2. CASE \E id \in Ids : Withdraw({id})
    <3>1. PICK id \in Ids : Withdraw({id})
      BY <2>2
    <3>2. Moves(id)
      BY <1>1, <3>1, WithdrawEffect DEF Moves
    <3>3. QED
      BY <1>2, <3>2, QuietMoves
  <2>3. CASE \E id \in Ids : Answered(id)
    <3>1. PICK id \in Ids : Answered(id)
      BY <2>3
    <3>2. Moves(id)
      BY <1>1, <3>1, AnsweredEffect DEF Moves
    <3>3. QED
      BY <1>2, <3>2, QuietMoves
  <2>4. QED
    BY <2>1, <2>2, <2>3 DEF CancelConfirmed, AnswerQuestion, Alive, TypeInv, DialogInv
<1>4. QED
  BY <1>1, <1>2, <1>3 DEF Quiet

LEMMA QuietQuestion ==
  ASSUME TypeInv, NEW id \in Ids, ConflictDetected(id)
  PROVE  Quiet
<1>1. /\ UNCHANGED <<task, event, result, pending_delete, pending_upload, report, fate>>
      /\ pending' = ResolveOperationConflict(id) /\ Deliver({}, {id})
  BY DEF ConflictDetected, history
<1>2. pending'.kind = "resolve" /\ GivenUp
  BY <1>1, PendingTyped, NewOpTyped DEF GivenUp, TypeInv
<1>3. Moves(id)
  BY <1>1, QuestionEffect DEF Moves
<1>4. QuietManager
  BY <1>2, <1>3, QuietMoves
<1>5. QED
  BY <1>1, <1>2, <1>4 DEF Quiet

LEMMA QuietEnds ==
  ASSUME TypeInv, LogInv, NEW id \in Ids, NEW kind \in Results, Ends(id, kind)
  PROVE  Quiet
<1>1. /\ event = NoEvent /\ event' = [id |-> id, kind |-> kind] /\ UNCHANGED <<task, driver, history>>
      /\ status[id] = "going" /\ status' = [status EXCEPT ![id] = "over"]
      /\ status \in [Ids -> Standing]
  BY EndEffect DEF Ends, TypeInv, TypeOK
<1>2. Alive' = Alive \ {id} /\ id \in Alive
  BY <1>1 DEF Alive
<1>3. event'.id = id /\ event.id \notin Ids
  BY <1>1 DEF NoEvent, None, Ids
<1>4. QuietManager
  BY <1>1, <1>2, <1>3 DEF QuietManager, Engaged, Own
<1>5. QED
  BY <1>1, <1>4 DEF Quiet, SameBatch, driver, history

LEMMA QuietStandalone ==
  ASSUME TypeInv, LogInv, StartStandalone
  PROVE  Quiet
<1>1. /\ NextId \in Ids /\ status[NextId] = "fresh"
      /\ status' = [status EXCEPT ![NextId] = "going"]
      /\ task' = [task EXCEPT ![NextId] = [source |-> None, asks |-> FALSE]]
      /\ UNCHANGED <<driver, event, history>>
  BY StartEffect DEF StartStandalone
<1>2. \A id \in Ids : task'[id].source = task[id].source
  BY <1>1 DEF LogInv, BlankInv, Own, TypeInv, TypeOK
<1>3. Alive' = Alive \cup {NextId} /\ ~Own(NextId)
  BY <1>1 DEF Alive, LogInv, BlankInv, TypeInv, TypeOK
<1>4. QuietManager
  BY <1>1, <1>2, <1>3 DEF QuietManager, Engaged, Own
<1>5. QED
  BY <1>1, <1>4 DEF Quiet, SameBatch, driver, history

LEMMA CheckStep ==
  ASSUME TypeInv, CheckPendingBatchOperation
  PROVE  BatchStep
<1>1. pending.op \in OpType /\ Here \in Context /\ Here.delete = pending_delete /\ Here.modal = modal
  BY ContextTyped DEF TypeInv, TypeOK
<1>2. CASE pending.kind = "continue"
  <2>1. Drives(pending.op, Here)
    BY <1>1, <1>2, ProcessDrives DEF CheckPendingBatchOperation
  <2>2. Carries(pending.op, Here)
    BY <1>1, <1>2, <2>1 DEF CheckPendingBatchOperation, Carries
  <2>3. QED
    BY <1>1, <2>2 DEF BatchStep
<1>3. CASE pending.kind # "continue"
  <2>1. /\ pending' = Nothing /\ UNCHANGED <<status, task, event, pending_delete, pending_upload, report, fate>>
    BY <1>3 DEF CheckPendingBatchOperation, nothingStarted
  <2>2. pending'.kind = "none" /\ GivenUp
    BY <2>1, PendingTyped, NewOpTyped DEF GivenUp, TypeInv
  <2>3. QuietManager
    BY <2>1, QuietUnchanged
  <2>4. QED
    BY <2>1, <2>2, <2>3 DEF Quiet, BatchStep
<1>4. QED
  BY <1>2, <1>3

LEMMA CarryingStep ==
  ASSUME TypeInv, ConfirmCopyOrMove \/ ConfirmUpload \/ Answer \/ Escape
  PROVE  BatchStep
<1>1. /\ pending.op \in OpType /\ NewOp \in OpType /\ Here \in Context /\ Closed \in Context
      /\ Here.delete = pending_delete /\ Here.modal = modal
      /\ Closed.delete = pending_delete /\ Closed.modal = "none"
  BY ContextTyped, NewOpTyped DEF TypeInv, TypeOK
<1>2. event = NoEvent /\ UNCHANGED <<event, result, deleted, crossed>>
  BY DEF ConfirmCopyOrMove, ConfirmUpload, Answer, AnswerConflict, AnswerRename, Escape, UserActs, history
<1>3. CASE ConfirmCopyOrMove
  <2>1. pending.kind = "copy" /\ UNCHANGED pending_upload
    BY <1>3, PendingTyped DEF ConfirmCopyOrMove, CopyPath
  <2>2. Carries(NewOp, Closed)
    BY <1>1, <1>2, <1>3, <2>1, ConfirmCopyDrives DEF Carries
  <2>3. QED
    BY <1>1, <2>2 DEF BatchStep
<1>4. CASE ConfirmUpload
  <2>1. pending.kind = "copy" /\ modal = "dialog"
    BY <1>4, PendingTyped DEF ConfirmUpload, CopyPath
  <2>2. CASE Drives(NewOp, Here) /\ UNCHANGED pending_upload
    BY <1>1, <1>2, <2>1, <2>2 DEF Carries, BatchStep
  <2>3. CASE /\ StartOperationNow(1, FALSE)
             /\ pending_upload' = 1
             /\ pending' = Nothing
             /\ Leave(Closed)
             /\ UNCHANGED <<card, sub, fate, report>>
    BY <1>1, <1>2, <2>1, <2>3, LeaveTyped DEF UploadsFirst, BatchStep
  <2>4. QED
    BY <1>4, <2>2, <2>3, ConfirmUploadDrives
<1>5. ASSUME NEW resolution \in ConflictResolution, AnswerConflict(resolution)
      PROVE  BatchStep
  <2>1. pending.kind = "continue" /\ modal = "conflict" /\ UNCHANGED pending_upload
    BY <1>5 DEF AnswerConflict
  <2>2. CASE Drives(pending.op, Closed)
    BY <1>1, <1>2, <2>1, <2>2 DEF Carries, BatchStep
  <2>3. CASE Leave(Closed) /\ UNCHANGED <<pending, nothingStarted, fate, report>>
    <3>1. pending_delete' = pending_delete /\ modal' = "none" /\ UNCHANGED <<status, task>> /\ SameBatch
      BY <1>1, <2>3, LeaveTyped DEF nothingStarted, SameBatch
    <3>2. QuietManager
      BY <1>2, <3>1, QuietUnchanged
    <3>3. QED
      BY <2>1, <2>3, <3>1, <3>2 DEF Quiet, BatchStep
  <2>4. QED
    BY <1>5, <2>2, <2>3, AnswerConflictDrives
<1>6. CASE AnswerRename
  <2>1. pending.kind = "rename" /\ modal = "rename" /\ UNCHANGED <<pending_upload, report, fate>>
    BY <1>6 DEF AnswerRename, history
  <2>2. CASE Drives(pending.op, Here)
    BY <1>1, <1>2, <2>1, <2>2 DEF Carries, BatchStep
  <2>3. CASE pending' = Nothing /\ Leave(Closed) /\ UNCHANGED <<nothingStarted, fate, report>>
    <3>1. pending_delete' = pending_delete /\ modal' = "none" /\ UNCHANGED <<status, task>>
      BY <1>1, <2>3, LeaveTyped DEF nothingStarted
    <3>2. pending'.kind = "none" /\ GivenUp
      BY <2>3, PendingTyped, NewOpTyped DEF GivenUp, TypeInv
    <3>3. QuietManager
      BY <1>2, <3>1, QuietUnchanged
    <3>4. QED
      BY <2>1, <3>1, <3>2, <3>3 DEF Quiet, BatchStep
  <2>4. QED
    BY <1>6, <2>2, <2>3, AnswerRenameDrives
<1>7. CASE Escape
  <2>1. UNCHANGED <<pending_upload, report, fate>>
    BY <1>7 DEF Escape, history
  <2>2. CASE pending.kind = "rename" /\ modal = "rename" /\ Drives(pending.op, Here)
    BY <1>1, <1>2, <2>1, <2>2 DEF Carries, BatchStep
  <2>3. CASE Show("none", None) /\ UNCHANGED <<pending, pending_delete, nothingStarted>>
    <3>1. modal' = "none" /\ UNCHANGED <<status, task>> /\ SameBatch
      BY <2>3 DEF nothingStarted, SameBatch, Show
    <3>2. QuietManager
      BY <1>2, <3>1, QuietUnchanged
    <3>3. QED
      BY <2>1, <2>3, <3>1, <3>2 DEF Quiet, BatchStep
  <2>4. CASE modal = "rename" /\ pending.kind = "rename" /\ AskAbout(pending.op, Here)
    <3>1. pending.op.index <= batch.n
      BY <2>4 DEF TypeInv, DialogInv
    <3>2. QED
      BY <1>1, <2>1, <2>2, <2>4, <3>1, AskDrives
  <2>5. QED
    BY <1>7, <2>3, <2>4 DEF Escape
<1>8. QED
  BY <1>3, <1>4, <1>5, <1>6, <1>7 DEF Answer

LEMMA HandlersStep ==
  ASSUME TypeInv, HandleSuccess \/ HandlePartialSuccess \/ HandleFailed \/ HandleCancelled
  PROVE  BatchStep
<1>1. /\ Here \in Context /\ Here.delete = pending_delete /\ Here.modal = modal
      /\ Forget \in Context /\ Forget.delete = None /\ Forget.modal = modal
      /\ Failure \in Context /\ Failure.delete = None /\ Failure.modal = "error"
  BY ContextTyped DEF TypeInv
<1>2. /\ event # NoEvent /\ event' = NoEvent /\ UNCHANGED result
      /\ crossed' = (crossed \/ Crosses(event.id))
  BY DEF HandleSuccess, HandlePartialSuccess, HandleFailed, HandleCancelled, Handle, NoEvent
<1>3. ASSUME NEW outcome \in {"success", "partial", "error"}, NEW c \in {Here, Forget}, Count(outcome, c),
             UNCHANGED pending_upload,
             outcome = "success" => event.kind = "Success",
             outcome = "partial" => event.kind = "PartialSuccess"
      PROVE  BatchStep
  <2>1. c \in Context /\ outcome \in Outcome
    BY <1>1 DEF Outcome
  <2>2. /\ pending.kind = "continue"
        /\ \E o \in OpType : /\ o = IF pending.op.index <= batch.n THEN Advance(pending.op, outcome) ELSE pending.op
                             /\ Drives(o, c)
    BY <1>3, <2>1, CountDrives
  <2>3. PICK o \in OpType : /\ o = IF pending.op.index <= batch.n THEN Advance(pending.op, outcome) ELSE pending.op
                            /\ Drives(o, c)
    BY <2>2
  <2>4. c.delete \in {pending_delete, None} /\ c.modal = modal
    BY <1>1
  <2>5. Counts(o, c, outcome)
    BY <1>2, <1>3, <2>2, <2>3, <2>4 DEF Counts
  <2>6. QED
    BY <2>1, <2>5 DEF BatchStep
<1>4. ASSUME NEW c \in {Here, Forget, Failure}, NoBatch(c), pending_upload' \in {pending_upload, None},
             report' = report,
             fate' = fate \/ (fate' = "cancelled" /\ pending_upload # None)
      PROVE  BatchStep
  <2>1. /\ pending.kind # "continue" /\ UNCHANGED <<pending, status, task>>
        /\ pending_delete' \in {pending_delete, None}
    BY <1>1, <1>4, LeaveTyped DEF NoBatch, nothingStarted
  <2>2. QuietManager
    BY <1>2, <2>1, QuietUnchanged
  <2>3. QED
    BY <1>4, <2>1, <2>2 DEF Quiet, SameBatch, BatchStep
<1>5. GiveUpUpload => /\ pending_upload' \in {pending_upload, None} /\ report' = report
                      /\ fate' = fate \/ (fate' = "cancelled" /\ pending_upload # None)
  BY DEF GiveUpUpload
<1>6. CASE HandleSuccess
  <2>1. event.kind = "Success" /\ Handle({"Success"})
    BY <1>6 DEF HandleSuccess, Handle
  <2>2. CASE NextUpload
    BY <2>1, <2>2 DEF UploadsNext, BatchStep
  <2>3. CASE Count("success", Forget) /\ UNCHANGED pending_upload
    BY <1>3, <2>1, <2>3
  <2>4. CASE NoBatch(Forget) /\ UNCHANGED <<fate, report, pending_upload>>
    BY <1>4, <2>4
  <2>5. QED
    BY <1>6, <2>2, <2>3, <2>4 DEF HandleSuccess
<1>7. CASE HandlePartialSuccess
  <2>1. event.kind = "PartialSuccess" /\ UNCHANGED pending_upload
    BY <1>7 DEF HandlePartialSuccess, Handle
  <2>2. QED
    BY <1>3, <1>4, <1>7, <2>1 DEF HandlePartialSuccess
<1>8. CASE HandleFailed
  BY <1>3, <1>4, <1>5, <1>8 DEF HandleFailed
<1>9. CASE HandleCancelled
  <2>1. CASE /\ pending.kind = "continue"
             /\ pending' = CancelCopyCleanup(pending.op)
             /\ Show("choice", None)
             /\ card' = "none" /\ sub' = None /\ pending_delete' = None
             /\ fate' = "cancelled"
             /\ UNCHANGED <<status, task, pending_upload, report, deleted>>
    <3>1. pending'.kind = "cleanup" /\ GivenUp
      BY <2>1 DEF GivenUp, CancelCopyCleanup
    <3>2. QuietManager
      BY <1>2, <2>1, <3>1, QuietUnchanged
    <3>3. QED
      BY <2>1, <3>1, <3>2 DEF Quiet, BatchStep
  <2>2. CASE pending_upload = None /\ NoBatch(Forget) /\ GiveUpUpload
    BY <1>4, <1>5, <2>2
  <2>3. CASE /\ pending_upload # None
             /\ pending' = OtherDialog
             /\ Show("dialog", None)
             /\ pending_delete' = None
             /\ GiveUpUpload
             /\ UNCHANGED nothingStarted
    <3>1. pending'.kind = "other" /\ GivenUp
      BY <2>3, PendingTyped, NewOpTyped DEF GivenUp, TypeInv
    <3>2. QuietManager
      BY <1>2, <2>3, <3>1, QuietUnchanged DEF nothingStarted
    <3>3. QED
      BY <1>5, <2>3, <3>1, <3>2 DEF Quiet, BatchStep
  <2>4. QED
    BY <1>9, <2>1, <2>2, <2>3 DEF HandleCancelled
<1>10. QED
  BY <1>6, <1>7, <1>8, <1>9

LEMMA NextBatchStep ==
  ASSUME TypeInv, LogInv, [Next]_vars
  PROVE  BatchStep
<1>1. CASE UNCHANGED vars
  <2>1. QuietManager
    BY <1>1, QuietUnchanged DEF vars, manager
  <2>2. QED
    BY <1>1, <2>1 DEF vars, driver, history, Quiet, SameBatch, BatchStep
<1>2. CASE User
  BY <1>2, QuietUser, QuietAnswers, QuietStandalone, CarryingStep DEF User, BatchStep, Begins
<1>3. CASE PollOperationManager
  BY <1>3, QuietEnds, QuietQuestion, HandlersStep DEF PollOperationManager, BatchStep
<1>4. QED
  BY <1>1, <1>2, <1>3, CheckStep DEF Next

-----------------------------------------------------------------------------
(***************************************************************************)
(* Before the batch, and the completeness of its results.  Neither asks    *)
(* who ended what.                                                         *)
(***************************************************************************)
Unstarted == fate = "none" \/ pending.kind = "copy"

StartInv ==
  /\ Unstarted => /\ \A id \in Ids : ~Own(id)
                  /\ pending_delete = None /\ pending_upload = None /\ ~InHand
  /\ pending.kind = "copy" => fate = "going"

(* Every source before the current one is counted. *)
Filled(o) == \A s \in Sources : s < o.index => o.counted[s] # "none"
FilledInv ==
  /\ InHand => Filled(pending.op)
  /\ fate = "ended" => \A s \in Sources : report[s] # "none"

LEMMA NextBatch ==
  ASSUME [Next]_vars
  PROVE  batch' = batch
  BY DEF Next, vars, User, PollOperationManager, OpenDialog, ConfirmCopyOrMove, ConfirmUpload, CancelConfirmed,
         Acknowledge, Escape, Answer, AnswerConflict, AnswerRename, AnswerQuestion, TogglePause,
         ToggleStandalonePause, StartStandalone, ConflictDetected, Ends, HandleSuccess, HandlePartialSuccess,
         HandleFailed, HandleCancelled, Handle, CheckPendingBatchOperation, userFrame

LEMMA DrivesPending ==
  ASSUME TypeInv, NEW o \in OpType, NEW c \in Context, Drives(o, c)
  PROVE  /\ pending'.kind \in {"continue", "rename", "none"}
         /\ fate' \in {fate, "ended"}
<1>1. CASE \E p \in OpType : Keeps(o, c, p)
  BY <1>1, PendingTyped DEF Keeps, TypeInv
<1>2. CASE Starts(o, c)
  BY <1>2, PendingTyped DEF Starts, TypeInv
<1>3. CASE Finishes(o, c)
  BY <1>3, PendingTyped DEF Finishes, TypeInv, Nothing
<1>4. QED
  BY <1>1, <1>2, <1>3 DEF Drives

LEMMA NextStart ==
  ASSUME TypeInv, LogInv, StartInv, [Next]_vars
  PROVE  StartInv'
<1>1. CASE Quiet
  <2>1. Unstarted' => Unstarted
    BY <1>1 DEF Quiet, SameBatch, GivenUp, Unstarted
  <2>2. Unstarted' => ~InHand'
    BY <1>1, <2>1 DEF Quiet, SameBatch, GivenUp, StartInv, InHand
  <2>3. Unstarted' => \A id \in Ids : ~Own(id)'
    BY <1>1, <2>1 DEF Quiet, QuietManager, StartInv, Own
  <2>4. Unstarted' => pending_delete' = None /\ pending_upload' = None
    BY <1>1, <2>1 DEF Quiet, StartInv
  <2>5. pending'.kind = "copy" => fate' = "going"
    BY <1>1 DEF Quiet, SameBatch, GivenUp, StartInv, Unstarted
  <2>6. QED
    BY <2>2, <2>3, <2>4, <2>5 DEF StartInv
<1>2. CASE Begins
  <2>1. /\ fate = "none" /\ fate' = "going" /\ pending' = CopyPath
        /\ UNCHANGED <<task, pending_delete, pending_upload>>
    BY <1>2 DEF Begins, OpenDialog, userFrame
  <2>2. QED
    BY <2>1, PendingTyped DEF StartInv, Unstarted, Own, InHand, CopyPath
<1>3. CASE UploadsFirst
  BY <1>3 DEF UploadsFirst, StartInv, Unstarted, Nothing
<1>4. CASE UploadsNext
  <2>1. pending_upload # None /\ pending' = pending /\ fate' \in {fate, "ended"}
    BY <1>4 DEF UploadsNext, NextUpload
  <2>2. QED
    BY <2>1 DEF StartInv, Unstarted
<1>5. ASSUME NEW o \in OpType, NEW c \in Context, Drives(o, c), pending.kind \in {"continue", "rename", "copy"}
      PROVE  StartInv'
  <2>1. fate # "none"
    BY <1>5 DEF StartInv, Unstarted, InHand
  <2>2. QED
    BY <1>5, <2>1, DrivesPending DEF StartInv, Unstarted
<1>6. QED
  BY <1>1, <1>2, <1>3, <1>4, <1>5, NextBatchStep DEF BatchStep, Carries, Counts

LEMMA DrivesFilled ==
  ASSUME TypeInv, batch' = batch, FilledInv, NEW o \in OpType, NEW c \in Context, Drives(o, c), Filled(o)
  PROVE  FilledInv'
<1>1. Sources' = Sources /\ Sources = 1..batch.n /\ batch.n \in Nat /\ o.index \in Nat
  BY BatchTyped DEF Sources, TypeInv, OpType
<1>2. ASSUME NEW p \in OpType, Keeps(o, c, p)
      PROVE  FilledInv'
  <2>1. Filled(p)
    <3>1. CASE p.index = o.index /\ p.counted = o.counted
      BY <3>1 DEF Filled
    <3>2. CASE /\ o.index \in Sources /\ p.index = o.index + 1
               /\ \E outcome \in {"error", "skipped"} : p.counted = [o.counted EXCEPT ![o.index] = outcome]
      <4>1. o.counted \in [Sources -> Outcome]
        BY DEF OpType
      <4>2. SUFFICES ASSUME NEW s \in Sources, s < p.index PROVE p.counted[s] # "none"
        BY DEF Filled
      <4>3. s < o.index \/ s = o.index
        BY <1>1, <3>2, <4>2
      <4>4. QED
        BY <3>2, <4>1, <4>3 DEF Filled
    <3>3. QED
      BY <1>2, <3>1, <3>2 DEF Keeps, Carried
  <2>2. pending'.op = p
    BY <1>2, PendingTyped DEF Keeps, TypeInv
  <2>3. QED
    BY <1>1, <1>2, <2>1, <2>2 DEF FilledInv, Filled, Keeps
<1>3. CASE Starts(o, c)
  <2>1. pending'.op = o
    BY <1>3, PendingTyped DEF Starts, TypeInv
  <2>2. QED
    BY <1>1, <1>3, <2>1 DEF FilledInv, Filled, Starts
<1>4. CASE Finishes(o, c)
  <2>1. \A s \in Sources : s < o.index
    BY <1>1, <1>4 DEF Finishes
  <2>2. ~InHand'
    BY <1>4 DEF Finishes, InHand, Nothing
  <2>3. QED
    BY <1>1, <1>4, <2>1, <2>2 DEF FilledInv, Filled, Finishes
<1>5. QED
  BY <1>2, <1>3, <1>4 DEF Drives

LEMMA NextFilled ==
  ASSUME TypeInv, LogInv, FilledInv, [Next]_vars
  PROVE  FilledInv'
<1>1. Sources' = Sources /\ batch' = batch
  BY NextBatch DEF Sources
<1>2. CASE Quiet
  BY <1>1, <1>2 DEF Quiet, SameBatch, GivenUp, FilledInv, Filled, InHand
<1>3. CASE Begins \/ UploadsFirst
  <2>1. pending' \in {CopyPath, Nothing} /\ fate' \in {"going", fate} /\ report' = report
    BY <1>3 DEF Begins, OpenDialog, UploadsFirst, userFrame
  <2>2. ~InHand'
    BY <2>1 DEF InHand, CopyPath, Nothing
  <2>3. QED
    BY <1>1, <2>1, <2>2 DEF FilledInv
<1>4. CASE UploadsNext
  <2>1. /\ pending' = pending
        /\ (fate' = fate /\ report' = report) \/ report' = [s \in Sources |-> "success"]
    BY <1>4 DEF UploadsNext, NextUpload
  <2>2. QED
    BY <1>1, <2>1 DEF FilledInv, Filled, InHand
<1>5. ASSUME NEW o \in OpType, NEW c \in Context, Carries(o, c)
      PROVE  FilledInv'
  <2>1. Filled(o)
    <3>1. CASE pending.kind \in {"continue", "rename"}
      BY <1>5, <3>1 DEF Carries, FilledInv, InHand
    <3>2. CASE o = NewOp
      BY <3>2, NewOpTyped, BatchTyped DEF Filled, TypeInv
    <3>3. QED
      BY <1>5, <3>1, <3>2 DEF Carries
  <2>2. QED
    BY <1>1, <1>5, <2>1, DrivesFilled DEF Carries
<1>6. ASSUME NEW o \in OpType, NEW c \in Context, NEW outcome \in {"success", "partial", "error"},
             Counts(o, c, outcome)
      PROVE  FilledInv'
  <2>1. Filled(pending.op) /\ pending.op \in OpType
    BY <1>6 DEF Counts, FilledInv, InHand, TypeInv, TypeOK
  <2>2. Filled(o)
    <3>1. CASE pending.op.index <= batch.n
      <4>1. /\ o.index = pending.op.index + 1
            /\ o.counted = [pending.op.counted EXCEPT ![pending.op.index] = outcome]
            /\ pending.op.index \in Sources
        BY <1>6, <2>1, <3>1, AdvanceTyped DEF Counts, Outcome, TypeInv
      <4>2. pending.op.counted \in [Sources -> Outcome] /\ Sources = 1..batch.n /\ batch.n \in Nat
        BY <2>1, BatchTyped DEF OpType, TypeInv
      <4>3. \A s \in Sources : s < o.index => s < pending.op.index \/ s = pending.op.index
        BY <4>1, <4>2
      <4>4. QED
        BY <2>1, <4>1, <4>2, <4>3 DEF Filled
    <3>2. QED
      BY <1>6, <2>1, <3>1 DEF Counts
  <2>3. QED
    BY <1>1, <1>6, <2>2, DrivesFilled DEF Counts
<1>7. QED
  BY <1>2, <1>3, <1>4, <1>5, <1>6, NextBatchStep DEF BatchStep

LEMMA InitEarly == Init => StartInv /\ FilledInv
  BY DEF Init, StartInv, FilledInv, Unstarted, Own, InHand, Nothing

GroundInv == TypeInv /\ LogInv /\ StartInv /\ FilledInv

(* Whatever crosses: the log of ended operations agrees with their standing, *)
(* nothing is started for a batch not yet in hand, and every source before   *)
(* the batch's place has been counted.                                       *)
THEOREM GroundInvHolds == Spec => []GroundInv
<1>1. Init => GroundInv
  BY InitTyped, InitLog, InitEarly DEF GroundInv
<1>2. GroundInv /\ [Next]_vars => StartInv' /\ FilledInv' /\ LogInv'
  BY NextStart, NextFilled, NextLog DEF GroundInv
<1>3. QED
  BY <1>1, <1>2, TypeInvHolds, PTL DEF Spec, GroundInv

(* Whatever else ends meanwhile, no source is missing from the results the   *)
(* user is shown.                                                           *)
THEOREM AllCountedHolds == Spec => []AllCounted
<1>1. GroundInv => AllCounted
  BY DEF GroundInv, FilledInv, AllCounted
<1>2. QED
  BY <1>1, GroundInvHolds, PTL

-----------------------------------------------------------------------------
(***************************************************************************)
(* While no other operation's end is taken for the batch's: one operation  *)
(* of the batch is under way at a time, started for the source the driver  *)
(* is at, and the driver asks a question only when none is.                *)
(***************************************************************************)
OneEngaged == \A i, j \in Ids : Engaged(i) /\ Engaged(j) => i = j

OrderInv ==
  \A i, j \in Ids : i < j /\ Own(i) /\ Own(j) => task[i].source < task[j].source

HandInv ==
  InHand =>
    /\ pending_upload = None
    /\ \A id \in Ids : Own(id) => /\ Engaged(id) => task[id].source = pending.op.index
                                  /\ ~Engaged(id) => task[id].source < pending.op.index

UploadInv ==
  pending_upload # None =>
    /\ \A id \in Ids : Own(id) => /\ task[id].source <= pending_upload
                                  /\ Engaged(id) => task[id].source = pending_upload
    /\ \A s \in Sources : s < pending_upload => Transferred(s, {"Success"})

DeleteInv ==
  pending_delete # None =>
    /\ batch.kind = "download" /\ batch.move
    /\ \A id \in Ids : Engaged(id) => task[id].source = pending_delete

AskInv ==
  /\ pending.kind = "rename" => \A id \in Ids : ~Engaged(id)
  /\ pending.kind = "continue" /\ modal = "conflict" =>
       about = pending.op.index /\ \A id \in Ids : ~Engaged(id)

Alone == OneEngaged /\ OrderInv /\ HandInv /\ UploadInv /\ DeleteInv /\ AskInv

(* Nothing of the batch runs, and every source handed in lies behind. *)
Ready(o) == \A id \in Ids : Own(id) => id \notin Alive /\ task[id].source < o.index

LEMMA SourceTyped ==
  ASSUME TypeInv, NEW id \in Ids, Own(id)
  PROVE  task[id].source \in Sources /\ task[id].source \in Nat
<1>1. task[id].source \in Sources
  BY DEF TypeInv, TypeOK, Own
<1>2. Sources = 1..batch.n /\ batch.n \in Nat
  BY BatchTyped DEF TypeInv
<1>3. QED
  BY <1>1, <1>2

LEMMA NoneEngaged ==
  ASSUME \A id \in Ids : ~Engaged(id)', OrderInv', pending_upload' = None,
         InHand' => \A id \in Ids : Own(id)' => task'[id].source < pending'.op.index,
         pending_delete' # None => batch'.kind = "download" /\ batch'.move,
         pending'.kind = "continue" /\ modal' = "conflict" => about' = pending'.op.index
  PROVE  Alone'
  BY DEF Alone, OneEngaged, HandInv, UploadInv, DeleteInv, AskInv

(* The order when the next operation is started for a later source. *)
LEMMA StartOrder ==
  ASSUME TypeInv, LogInv, OrderInv, NEW s \in Sources, NEW asks \in BOOLEAN, StartOperationNow(s, asks),
         \A id \in Ids : Own(id) => id \notin Alive /\ task[id].source < s,
         event' = NoEvent
  PROVE  /\ OrderInv'
         /\ \A id \in Ids : Engaged(id)' => task'[id].source = s
         /\ \A i, j \in Ids : Engaged(i)' /\ Engaged(j)' => i = j
         /\ \A id \in Ids : Own(id)' => Engaged(id)' \/ task'[id].source < s
<1>1. /\ NextId \in Ids /\ status[NextId] = "fresh"
      /\ \A id \in Ids : status[id] # "fresh" => id < NextId
      /\ status' = [status EXCEPT ![NextId] = "going"]
      /\ task' = [task EXCEPT ![NextId] = [source |-> s, asks |-> asks]]
      /\ status \in [Ids -> Standing]
      /\ task \in [Ids -> [source : Sources \cup {None}, asks : BOOLEAN]]
  BY StartEffect DEF TypeInv, TypeOK
<1>2. /\ \A id \in Ids : id # NextId => task'[id] = task[id] /\ status'[id] = status[id]
      /\ task'[NextId].source = s /\ status'[NextId] = "going"
  BY <1>1
<1>3. s # None /\ s \in Nat
  BY BatchTyped DEF TypeInv
<1>4. \A id \in Ids : Own(id) => id < NextId /\ ~(NextId < id)
  <2>1. \A id \in Ids : Own(id) => id < NextId
    BY <1>1 DEF LogInv, BlankInv
  <2>2. QED
    BY <1>1, <2>1 DEF Ids
<1>5. \A id \in Ids : Own(id)' <=> Own(id) \/ id = NextId
  BY <1>1, <1>2, <1>3 DEF Own
<1>6. \A id \in Ids : Own(id) => id # NextId
  BY <1>1 DEF LogInv, BlankInv
<1>7. OrderInv'
  <2>1. SUFFICES ASSUME NEW i \in Ids, NEW j \in Ids, i < j, Own(i)', Own(j)'
                 PROVE  task'[i].source < task'[j].source
    BY DEF OrderInv
  <2>2. CASE j = NextId
    <3>1. Own(i) /\ i # NextId
      BY <1>1, <1>5, <2>1, <2>2 DEF Ids
    <3>2. QED
      BY <1>2, <2>2, <3>1
  <2>3. CASE j # NextId
    <3>1. Own(j)
      BY <1>5, <2>1, <2>3
    <3>2. i # NextId /\ Own(i)
      BY <1>4, <1>5, <2>1, <3>1
    <3>3. QED
      BY <1>2, <2>1, <2>3, <3>1, <3>2 DEF OrderInv
  <2>4. QED
    BY <2>2, <2>3
<1>8. event'.id \notin Ids
  BY DEF NoEvent, None, Ids
<1>9. \A id \in Ids : Engaged(id)' <=> id = NextId
  <2>1. \A id \in Ids : id \in Alive' <=> id \in Alive \/ id = NextId
    BY <1>1, <1>2 DEF Alive
  <2>2. QED
    BY <1>5, <1>8, <2>1 DEF Engaged
<1>10. QED
  BY <1>2, <1>5, <1>6, <1>7, <1>9

LEMMA DrivesAlone ==
  ASSUME TypeInv, LogInv, batch' = batch, NEW o \in OpType, NEW c \in Context, Drives(o, c),
         Ready(o), OrderInv, event' = NoEvent, pending_upload' = None,
         c.delete # None => batch.kind = "download" /\ batch.move,
         c.modal # "conflict"
  PROVE  Alone'
<1>1. event'.id \notin Ids
  BY DEF NoEvent, None, Ids
<1>2. ASSUME UNCHANGED <<status, task>>
      PROVE  OrderInv' /\ \A id \in Ids : ~Engaged(id)' /\ (Own(id)' <=> Own(id))
  BY <1>1, <1>2 DEF Engaged, Own, Alive, Ready, OrderInv
<1>3. ASSUME NEW p \in OpType, Keeps(o, c, p)
      PROVE  Alone'
  <2>1. pending'.op = p
    BY <1>3, PendingTyped DEF Keeps, TypeInv
  <2>2. o.index \in Nat /\ p.index \in Nat /\ o.index <= p.index
    BY <1>3, BatchTyped DEF Keeps, Carried, OpType, TypeInv
  <2>3. \A id \in Ids : Own(id)' => task'[id].source < p.index
    <3>1. SUFFICES ASSUME NEW id \in Ids, Own(id)' PROVE task'[id].source < p.index
      OBVIOUS
    <3>2. Own(id) /\ task'[id].source = task[id].source
      BY <1>2, <1>3, <3>1 DEF Keeps
    <3>3. QED
      BY <2>2, <3>2, SourceTyped DEF Ready
  <2>4. pending'.kind = "continue" /\ modal' = "conflict" => about' = p.index
    BY <1>3, PendingTyped DEF Keeps, TypeInv
  <2>5. QED
    BY <1>2, <1>3, <2>1, <2>3, <2>4, NoneEngaged DEF Keeps
<1>4. CASE Starts(o, c)
  <2>1. PICK asks \in BOOLEAN : StartOperationNow(o.index, asks)
    BY <1>4 DEF Starts
  <2>2. /\ OrderInv'
        /\ \A id \in Ids : Engaged(id)' => task'[id].source = o.index
        /\ \A i, j \in Ids : Engaged(i)' /\ Engaged(j)' => i = j
        /\ \A id \in Ids : Own(id)' => Engaged(id)' \/ task'[id].source < o.index
    BY <1>4, <2>1, StartOrder DEF Starts, Ready
  <2>3. pending'.op = o /\ pending'.kind = "continue" /\ modal' # "conflict"
    BY <1>4, PendingTyped DEF Starts, TypeInv
  <2>4. OneEngaged' /\ AskInv' /\ UploadInv'
    BY <2>2, <2>3 DEF OneEngaged, AskInv, UploadInv
  <2>5. HandInv'
    BY <2>2, <2>3 DEF HandInv
  <2>6. DeleteInv'
    BY <1>4, <2>2 DEF Starts, DeleteInv
  <2>7. QED
    BY <2>2, <2>4, <2>5, <2>6 DEF Alone
<1>5. CASE Finishes(o, c)
  <2>1. pending'.kind = "none"
    BY <1>5 DEF Finishes, Nothing
  <2>2. QED
    BY <1>2, <1>5, <2>1, NoneEngaged DEF Finishes, InHand
<1>6. QED
  BY <1>3, <1>4, <1>5 DEF Drives

LEMMA QuietAlone ==
  ASSUME TypeInv, LogInv, [Next]_vars, Quiet, Alone
  PROVE  Alone'
<1>1. batch' = batch /\ Sources' = Sources
  BY NextBatch DEF Sources
<1>2. /\ \A id \in Ids : task'[id].source = task[id].source /\ (Own(id)' <=> Own(id))
      /\ \A id \in Ids : Engaged(id)' => Engaged(id)
      /\ pending'.kind = "continue" => \A id \in Ids : Engaged(id) => Engaged(id)'
  BY DEF Quiet, QuietManager, Own
<1>3. OneEngaged' /\ OrderInv'
  BY <1>2 DEF Alone, OneEngaged, OrderInv
<1>4. pending'.kind \in {"continue", "rename"} => SameBatch
  BY DEF Quiet, GivenUp
<1>5. AskInv'
  BY <1>2, <1>4 DEF Quiet, SameBatch, Alone, AskInv
<1>6. HandInv'
  <2>1. SUFFICES ASSUME InHand' PROVE HandInv'
    BY DEF HandInv
  <2>2. InHand /\ pending'.op.index = pending.op.index /\ pending_upload' = None
    BY <1>4, <2>1 DEF InHand, SameBatch, Alone, HandInv, Quiet
  <2>3. \A id \in Ids : Engaged(id)' <=> Engaged(id)
    BY <1>2, <1>4, <2>1 DEF InHand, SameBatch, Alone, AskInv
  <2>4. QED
    BY <1>2, <2>2, <2>3 DEF Alone, HandInv
<1>7. UploadInv'
  <2>1. SUFFICES ASSUME pending_upload' # None PROVE UploadInv'
    BY DEF UploadInv
  <2>2. pending_upload' = pending_upload /\ pending_upload # None
    BY <2>1 DEF Quiet
  <2>3. \A s \in Sources : s < pending_upload => Transferred(s, {"Success"})'
    BY <2>2, TransferredKept DEF Alone, UploadInv
  <2>4. QED
    BY <1>1, <1>2, <2>2, <2>3 DEF Alone, UploadInv
<1>8. DeleteInv'
  BY <1>1, <1>2 DEF Quiet, Alone, DeleteInv
<1>9. QED
  BY <1>3, <1>5, <1>6, <1>7, <1>8 DEF Alone

(* The end in hand, when it was not another operation's. *)
LEMMA EndIsOwn ==
  ASSUME TypeInv, LogInv, event # NoEvent, ~Crosses(event.id),
         pending.kind = "continue" \/ pending_delete # None \/ pending_upload # None
  PROVE  /\ event.id \in Ids /\ Own(event.id) /\ Engaged(event.id) /\ event.id \notin Alive
         /\ task[event.id].source \in Sources
         /\ result[event.id] = event.kind /\ Transferred(task[event.id].source, {event.kind})
<1>1. event.id \in Ids /\ Own(event.id)
  BY DEF Crosses, Own, LogInv, EventInv
<1>2. result[event.id] = event.kind /\ status[event.id] = "over"
  BY <1>1 DEF LogInv, EventInv
<1>3. event.id \notin Alive /\ Engaged(event.id)
  BY <1>1, <1>2 DEF Alive, Engaged
<1>4. QED
  BY <1>1, <1>2, <1>3, SourceTyped DEF Transferred

LEMMA CarriesAlone ==
  ASSUME GroundInv, batch' = batch, Alone, NEW o \in OpType, NEW c \in Context, Carries(o, c)
  PROVE  Alone'
<1>1. TypeInv /\ LogInv /\ StartInv
  BY DEF GroundInv
<1>2. \A id \in Ids : Own(id) => ~Engaged(id)
  BY <1>1 DEF Carries, Engaged, NoEvent, None, Ids, Alone, AskInv, StartInv, Unstarted
<1>3. Ready(o)
  <2>1. \A id \in Ids : Own(id) => id \notin Alive
    BY <1>2 DEF Engaged
  <2>2. \A id \in Ids : Own(id) => task[id].source < o.index
    BY <1>1, <1>2 DEF Carries, Alone, HandInv, InHand, StartInv, Unstarted
  <2>3. QED
    BY <2>1, <2>2 DEF Ready
<1>4. pending_upload' = None
  BY <1>1 DEF Carries, Alone, HandInv, InHand, StartInv, Unstarted
<1>5. QED
  BY <1>1, <1>3, <1>4, DrivesAlone DEF Carries, Alone, DeleteInv

LEMMA CountsAlone ==
  ASSUME GroundInv, batch' = batch, Alone, NEW o \in OpType, NEW c \in Context,
         NEW outcome \in {"success", "partial", "error"}, Counts(o, c, outcome), ~crossed'
  PROVE  /\ Alone'
         /\ pending.op.index \in Sources /\ Transferred(pending.op.index, {event.kind})
         /\ o.index = pending.op.index + 1
         /\ o.counted = [pending.op.counted EXCEPT ![pending.op.index] = outcome]
<1>1. TypeInv /\ LogInv /\ pending.op \in OpType
  BY DEF GroundInv, TypeInv, TypeOK
<1>2. InHand /\ event # NoEvent /\ ~Crosses(event.id) /\ event' = NoEvent
  BY DEF Counts, InHand
<1>3. /\ event.id \in Ids /\ Own(event.id) /\ Engaged(event.id) /\ event.id \notin Alive
      /\ task[event.id].source \in Sources /\ Transferred(task[event.id].source, {event.kind})
  BY <1>1, <1>2, EndIsOwn DEF Counts
<1>4. task[event.id].source = pending.op.index
  BY <1>2, <1>3 DEF Alone, HandInv
<1>5. pending.op.index \in Sources /\ pending.op.index <= batch.n
  BY <1>1, <1>3, <1>4, BatchTyped DEF TypeInv
<1>6. o.index = pending.op.index + 1 /\ o.counted = [pending.op.counted EXCEPT ![pending.op.index] = outcome]
  BY <1>1, <1>5, AdvanceTyped DEF Counts, Outcome, TypeInv
<1>7. Ready(o)
  <2>1. SUFFICES ASSUME NEW id \in Ids, Own(id) PROVE id \notin Alive /\ task[id].source < o.index
    BY DEF Ready
  <2>2. CASE id = event.id
    BY <1>3, <1>4, <1>6, <2>1, <2>2, SourceTyped, <1>1
  <2>3. CASE id # event.id
    <3>1. ~Engaged(id)
      BY <1>3, <2>3 DEF Alone, OneEngaged
    <3>2. id \notin Alive /\ task[id].source < pending.op.index
      BY <1>2, <2>1, <3>1 DEF Engaged, Alone, HandInv
    <3>3. task[id].source \in Nat /\ pending.op.index \in Nat
      BY <1>1, <2>1, SourceTyped DEF OpType
    <3>4. QED
      BY <1>6, <3>2, <3>3
  <2>4. QED
    BY <2>2, <2>3
<1>8. c.modal # "conflict"
  BY <1>3 DEF Counts, Alone, AskInv
<1>9. c.delete # None => batch.kind = "download" /\ batch.move
  BY DEF Counts, Alone, DeleteInv
<1>10. pending_upload' = None
  BY <1>2 DEF Counts, Alone, HandInv
<1>11. Alone'
  BY <1>1, <1>2, <1>7, <1>8, <1>9, <1>10, DrivesAlone DEF Counts, Alone
<1>12. QED
  BY <1>3, <1>4, <1>5, <1>6, <1>11

LEMMA BeginsAlone ==
  ASSUME GroundInv, batch' = batch, Begins
  PROVE  Alone'
<1>1. /\ pending' = CopyPath /\ fate = "none"
      /\ UNCHANGED <<task, event, status, pending_delete, pending_upload>>
  BY DEF Begins, OpenDialog, userFrame
<1>2. pending_delete' = None /\ pending_upload' = None /\ \A id \in Ids : ~Own(id)'
  BY <1>1 DEF GroundInv, StartInv, Unstarted, Own
<1>3. pending'.kind = "copy"
  BY <1>1 DEF CopyPath
<1>4. QED
  BY <1>2, <1>3, NoneEngaged DEF OrderInv, Engaged, InHand

LEMMA UploadsFirstAlone ==
  ASSUME GroundInv, batch' = batch, Alone, UploadsFirst
  PROVE  Alone'
<1>1. TypeInv /\ LogInv /\ 1 \in Sources /\ Sources' = Sources /\ Sources = 1..batch.n /\ batch.n \in Nat
  BY BatchTyped DEF GroundInv, TypeInv, Sources
<1>2. pending_delete' = None /\ \A id \in Ids : ~Own(id)
  BY DEF GroundInv, StartInv, Unstarted, UploadsFirst
<1>3. /\ OrderInv'
      /\ \A id \in Ids : Engaged(id)' => task'[id].source = 1
      /\ \A i, j \in Ids : Engaged(i)' /\ Engaged(j)' => i = j
      /\ \A id \in Ids : Own(id)' => Engaged(id)' \/ task'[id].source < 1
  BY <1>1, <1>2, StartOrder DEF UploadsFirst, Alone
<1>4. pending_upload' = 1 /\ pending'.kind = "none"
  BY DEF UploadsFirst, Nothing
<1>5. UploadInv'
  <2>1. \A id \in Ids : Own(id)' => task'[id].source <= 1
    <3>1. SUFFICES ASSUME NEW id \in Ids, Own(id)' PROVE task'[id].source <= 1
      OBVIOUS
    <3>2. task'[id].source \in Nat
      <4>1. task' \in [Ids -> [source : Sources \cup {None}, asks : BOOLEAN]]
        BY <1>1, StartEffect DEF UploadsFirst
      <4>2. QED
        BY <1>1, <4>1 DEF None
    <3>3. QED
      BY <1>3, <3>1, <3>2
  <2>2. \A s \in Sources : ~(s < 1)
    BY <1>1
  <2>3. QED
    BY <1>1, <1>3, <1>4, <2>1, <2>2 DEF UploadInv
<1>6. QED
  BY <1>2, <1>3, <1>4, <1>5 DEF Alone, OneEngaged, HandInv, DeleteInv, AskInv, InHand

LEMMA UploadsNextAlone ==
  ASSUME GroundInv, [Next]_vars, Alone, UploadsNext, ~crossed'
  PROVE  /\ Alone'
         /\ pending_upload \in Sources
         /\ \A s \in Sources : s <= pending_upload => Transferred(s, {"Success"})
<1>1. TypeInv /\ LogInv /\ batch' = batch /\ Sources' = Sources /\ Sources = 1..batch.n /\ batch.n \in Nat
  BY BatchTyped, NextBatch DEF GroundInv, TypeInv, Sources
<1>2. /\ pending_upload # None /\ pending_upload \in Sources
      /\ event.kind = "Success" /\ event # NoEvent /\ event' = NoEvent /\ ~Crosses(event.id)
      /\ pending' = pending /\ pending_delete' = None
  <2>1. event.kind = "Success" /\ event' = NoEvent /\ ~Crosses(event.id)
    BY DEF UploadsNext, Handle
  <2>2. event # NoEvent
    BY <2>1 DEF NoEvent
  <2>3. pending_upload # None /\ pending' = pending /\ pending_delete' = None
    BY DEF UploadsNext, NextUpload
  <2>4. pending_upload \in Sources
    BY <1>1, <2>3 DEF TypeInv, TypeOK
  <2>5. QED
    BY <2>1, <2>2, <2>3, <2>4
<1>3. /\ event.id \in Ids /\ Own(event.id) /\ Engaged(event.id) /\ event.id \notin Alive
      /\ Transferred(task[event.id].source, {"Success"})
  BY <1>1, <1>2, EndIsOwn
<1>4. task[event.id].source = pending_upload
  BY <1>2, <1>3 DEF Alone, UploadInv
<1>5. \A s \in Sources : s <= pending_upload => Transferred(s, {"Success"})
  <2>1. SUFFICES ASSUME NEW s \in Sources, s <= pending_upload PROVE Transferred(s, {"Success"})
    OBVIOUS
  <2>2. s < pending_upload \/ s = pending_upload
    BY <1>1, <1>2, <2>1
  <2>3. QED
    BY <1>2, <1>3, <1>4, <2>2 DEF Alone, UploadInv
<1>6. ~InHand'
  BY <1>2 DEF Alone, HandInv, InHand
<1>7. \A id \in Ids : Own(id) => id \notin Alive /\ task[id].source < pending_upload + 1
  <2>1. SUFFICES ASSUME NEW id \in Ids, Own(id)
                 PROVE  id \notin Alive /\ task[id].source < pending_upload + 1
    OBVIOUS
  <2>2. id \notin Alive
    BY <1>3, <2>1 DEF Alone, OneEngaged, Engaged
  <2>3. task[id].source <= pending_upload /\ task[id].source \in Nat
    BY <1>1, <1>2, <2>1, SourceTyped DEF Alone, UploadInv
  <2>4. QED
    BY <1>1, <1>2, <2>2, <2>3
<1>8. CASE /\ pending_upload < batch.n
           /\ StartOperationNow(pending_upload + 1, FALSE)
           /\ pending_upload' = pending_upload + 1
  <2>1. pending_upload + 1 \in Sources
    BY <1>1, <1>2, <1>8
  <2>2. /\ OrderInv'
        /\ \A id \in Ids : Engaged(id)' => task'[id].source = pending_upload + 1
        /\ \A i, j \in Ids : Engaged(i)' /\ Engaged(j)' => i = j
        /\ \A id \in Ids : Own(id)' => Engaged(id)' \/ task'[id].source < pending_upload + 1
    BY <1>1, <1>2, <1>7, <1>8, <2>1, StartOrder DEF Alone
  <2>3. UploadInv'
    <3>1. \A id \in Ids : Own(id)' => task'[id].source <= pending_upload + 1
      <4>1. SUFFICES ASSUME NEW id \in Ids, Own(id)' PROVE task'[id].source <= pending_upload + 1
        OBVIOUS
      <4>2. task'[id].source \in Nat
        <5>1. task' \in [Ids -> [source : Sources \cup {None}, asks : BOOLEAN]]
          BY <1>1, <1>8, <2>1, StartEffect
        <5>2. QED
          BY <1>1, <5>1 DEF None
      <4>3. QED
        BY <1>1, <1>2, <2>2, <4>1, <4>2
    <3>2. \A s \in Sources : s < pending_upload + 1 => Transferred(s, {"Success"})'
      <4>1. SUFFICES ASSUME NEW s \in Sources, s < pending_upload + 1 PROVE Transferred(s, {"Success"})'
        OBVIOUS
      <4>2. s <= pending_upload
        BY <1>1, <1>2, <4>1
      <4>3. QED
        BY <1>1, <1>5, <4>2, TransferredKept
    <3>3. QED
      BY <1>1, <1>8, <2>2, <3>1, <3>2 DEF UploadInv
  <2>4. Alone'
    BY <1>2, <1>6, <2>2, <2>3 DEF Alone, OneEngaged, HandInv, DeleteInv, AskInv, InHand
  <2>5. QED
    BY <1>2, <1>5, <2>4
<1>9. CASE pending_upload' = None /\ UNCHANGED <<status, task>>
  <2>1. event'.id \notin Ids
    BY <1>2 DEF NoEvent, None, Ids
  <2>2. OrderInv' /\ \A id \in Ids : ~Engaged(id)'
    BY <1>7, <1>9, <2>1 DEF Engaged, Own, Alive, OrderInv, Alone
  <2>3. Alone'
    BY <1>2, <1>6, <1>9, <2>2, NoneEngaged DEF InHand
  <2>4. QED
    BY <1>2, <1>5, <2>3
<1>10. QED
  BY <1>8, <1>9 DEF UploadsNext, NextUpload

LEMMA InitAlone == Init => Alone
<1>1. SUFFICES ASSUME Init PROVE Alone
  OBVIOUS
<1>2. (\A id \in Ids : ~Own(id)) /\ pending.kind = "none" /\ pending_delete = None /\ pending_upload = None
  BY <1>1 DEF Init, Own, Nothing
<1>3. QED
  BY <1>2 DEF Alone, OneEngaged, OrderInv, HandInv, UploadInv, DeleteInv, AskInv, Engaged, InHand

LEMMA NextAlone ==
  ASSUME GroundInv, [Next]_vars, Alone, ~crossed'
  PROVE  Alone'
  BY QuietAlone, BeginsAlone, UploadsFirstAlone, UploadsNextAlone, CarriesAlone, CountsAlone, NextBatchStep,
     NextBatch DEF BatchStep, GroundInv

(* Once crossed, always crossed. *)
LEMMA CrossedStays ==
  ASSUME [Next]_vars, crossed
  PROVE  crossed'
  BY DEF Next, vars, User, PollOperationManager, OpenDialog, ConfirmCopyOrMove, ConfirmUpload, CancelConfirmed,
         Acknowledge, Escape, Answer, AnswerConflict, AnswerRename, AnswerQuestion, TogglePause,
         ToggleStandalonePause, StartStandalone, ConflictDetected, Ends, HandleSuccess, HandlePartialSuccess,
         HandleFailed, HandleCancelled, Handle, CheckPendingBatchOperation, userFrame, history

(* Until another operation ends while the batch waits, the batch has at most *)
(* one operation to its name, and its place, the upload's place, the source  *)
(* left over to delete and the open dialog all agree with that operation.    *)
THEOREM AloneHolds == Spec => [](crossed \/ Alone)
<1>1. GroundInv /\ (crossed \/ Alone) /\ [Next]_vars => (crossed \/ Alone)'
  BY NextAlone, CrossedStays
<1>2. QED
  BY <1>1, InitAlone, GroundInvHolds, PTL DEF Spec

(* The sources go to the manager once each, in order, one at a time: the     *)
(* tick, the end of an operation and an answer never start one twice.        *)
THEOREM HandedInOrderHolds == Spec => []HandedInOrder
<1>1. GroundInv /\ (crossed \/ Alone) => HandedInOrder
  <2>1. SUFFICES ASSUME GroundInv, Alone
                 PROVE  /\ \A i, j \in Ids : i < j /\ task[i].source # None /\ task[j].source # None
                                               => task[i].source < task[j].source
                        /\ Cardinality({id \in Alive : task[id].source # None}) <= 1
    BY DEF HandedInOrder
  <2>2. \A i, j \in Ids : i < j /\ task[i].source # None /\ task[j].source # None
                            => task[i].source < task[j].source
    BY <2>1 DEF Alone, OrderInv, Own
  <2> DEFINE running == {id \in Alive : task[id].source # None}
  <2>3. \A i, j \in running : i = j
    BY <2>1 DEF Alone, OneEngaged, Engaged, Own, Alive
  <2>4. CASE running = {}
    BY <2>2, <2>4, FS_EmptySet
  <2>5. CASE running # {}
    <3>1. PICK id : running = {id}
      BY <2>3, <2>5
    <3>2. Cardinality({id}) = 1
      BY FS_Singleton
    <3>3. QED
      BY <2>2, <3>1, <3>2
  <2>6. QED
    BY <2>4, <2>5
<1>2. QED
  BY <1>1, GroundInvHolds, AloneHolds, PTL

-----------------------------------------------------------------------------
(***************************************************************************)
(* What is counted and deleted.                                            *)
(***************************************************************************)
Truthful(counted) ==
  \A s \in Sources : /\ counted[s] = "success" => Transferred(s, {"Success"})
                     /\ counted[s] = "partial" => Transferred(s, {"PartialSuccess"})

TruthInv == Truthful(report) /\ Truthful(pending.op.counted)

LEMMA TruthKept ==
  ASSUME TypeInv, LogInv, [Next]_vars, NEW counted, Truthful(counted), NEW s \in Sources
  PROVE  /\ counted[s] = "success" => Transferred(s, {"Success"})'
         /\ counted[s] = "partial" => Transferred(s, {"PartialSuccess"})'
  BY TransferredKept DEF Truthful

LEMMA NewOpTruthful ==
  ASSUME TypeInv
  PROVE  Truthful(NewOp.counted)
  BY NewOpTyped DEF Truthful, TypeInv

LEMMA TruthNext ==
  ASSUME TypeInv, LogInv, [Next]_vars, Truthful(report'), Truthful(pending'.op.counted)
  PROVE  TruthInv'
<1>1. Sources' = Sources
  BY NextBatch DEF Sources
<1>2. QED
  BY <1>1, TruthKept DEF TruthInv, Truthful

(* A step of the driver counts nothing as copied by itself: what it leaves  *)
(* is as true, of the operations before the step, as what it was given.     *)
LEMMA DrivesTruth ==
  ASSUME TypeInv, NEW o \in OpType, NEW c \in Context, Drives(o, c), Truthful(o.counted), Truthful(report)
  PROVE  Truthful(report') /\ Truthful(pending'.op.counted)
<1>1. ASSUME NEW p \in OpType, Keeps(o, c, p)
      PROVE  Truthful(report') /\ Truthful(pending'.op.counted)
  <2>1. pending'.op = p /\ report' = report
    BY <1>1, PendingTyped DEF Keeps, TypeInv
  <2>2. o.counted \in [Sources -> Outcome]
    BY DEF OpType
  <2>3. Truthful(p.counted)
    BY <1>1, <2>2 DEF Keeps, Carried, Truthful
  <2>4. QED
    BY <2>1, <2>3
<1>2. CASE Starts(o, c)
  BY <1>2, PendingTyped DEF Starts, TypeInv
<1>3. CASE Finishes(o, c)
  BY <1>3, PendingTyped, NewOpTruthful DEF Finishes, TypeInv
<1>4. QED
  BY <1>1, <1>2, <1>3 DEF Drives

LEMMA NextTruth ==
  ASSUME GroundInv, [Next]_vars, Alone, TruthInv, ~crossed'
  PROVE  TruthInv'
<1>1. TypeInv /\ LogInv /\ Truthful(NewOp.counted) /\ batch' = batch
  BY NewOpTruthful, NextBatch DEF GroundInv
<1>2. SUFFICES Truthful(report') /\ Truthful(pending'.op.counted)
  BY <1>1, TruthNext
<1>3. CASE Quiet
  BY <1>1, <1>3 DEF Quiet, SameBatch, GivenUp, TruthInv
<1>4. CASE Begins \/ UploadsFirst
  <2>1. pending' \in {CopyPath, Nothing} /\ report' = report
    BY <1>4 DEF Begins, OpenDialog, UploadsFirst, userFrame
  <2>2. pending'.op = NewOp
    BY <2>1, PendingTyped, NewOpTyped DEF CopyPath, Nothing
  <2>3. QED
    BY <1>1, <2>1, <2>2 DEF TruthInv
<1>5. CASE UploadsNext
  <2>1. /\ pending_upload \in Sources
        /\ \A s \in Sources : s <= pending_upload => Transferred(s, {"Success"})
    BY <1>5, UploadsNextAlone
  <2>2. pending' = pending
    BY <1>5 DEF UploadsNext, NextUpload
  <2>3. CASE report' = report
    BY <2>2, <2>3 DEF TruthInv
  <2>4. CASE pending_upload = batch.n /\ report' = [s \in Sources |-> "success"]
    <3>1. \A s \in Sources : s <= pending_upload
      BY <1>1, <2>4, BatchTyped DEF TypeInv
    <3>2. QED
      BY <2>1, <2>2, <2>4, <3>1 DEF TruthInv, Truthful
  <2>5. QED
    BY <1>5, <2>3, <2>4 DEF UploadsNext, NextUpload
<1>6. ASSUME NEW o \in OpType, NEW c \in Context, Carries(o, c)
      PROVE  Truthful(report') /\ Truthful(pending'.op.counted)
  <2>1. Truthful(o.counted)
    BY <1>1, <1>6 DEF Carries, TruthInv
  <2>2. QED
    BY <1>1, <1>6, <2>1, DrivesTruth DEF Carries, TruthInv
<1>7. ASSUME NEW o \in OpType, NEW c \in Context, NEW outcome \in {"success", "partial", "error"},
             Counts(o, c, outcome)
      PROVE  Truthful(report') /\ Truthful(pending'.op.counted)
  <2>1. /\ pending.op.index \in Sources /\ Transferred(pending.op.index, {event.kind})
        /\ o.counted = [pending.op.counted EXCEPT ![pending.op.index] = outcome]
    BY <1>1, <1>7, CountsAlone
  <2>2. pending.op.counted \in [Sources -> Outcome]
    BY <1>1 DEF TypeInv, TypeOK, OpType
  <2>3. Truthful(o.counted)
    BY <1>7, <2>1, <2>2 DEF Counts, TruthInv, Truthful
  <2>4. QED
    BY <1>1, <1>7, <2>3, DrivesTruth DEF Counts, TruthInv
<1>8. QED
  BY <1>1, <1>3, <1>4, <1>5, <1>6, <1>7, NextBatchStep DEF BatchStep

(* Only the end of a transfer deletes anything: what was left over for it. *)
LEMMA NextDeleted ==
  ASSUME GroundInv, [Next]_vars
  PROVE  \/ deleted' = deleted
         \/ /\ event.kind = "Success" /\ event # NoEvent /\ crossed' = (crossed \/ Crosses(event.id))
            /\ \/ pending_upload # None /\ deleted' \subseteq deleted \cup {pending_upload}
               \/ pending_upload = None /\ deleted' = deleted \cup ({pending_delete} \ {None})
<1>1. CASE HandleSuccess
  <2>1. event.kind = "Success" /\ event # NoEvent /\ crossed' = (crossed \/ Crosses(event.id))
    BY <1>1 DEF HandleSuccess, Handle, NoEvent
  <2>2. \/ pending_upload # None /\ deleted' \subseteq deleted \cup {pending_upload}
        \/ pending_upload = None /\ deleted' = deleted \cup ({pending_delete} \ {None})
    BY <1>1 DEF HandleSuccess, NextUpload
  <2>3. QED
    BY <2>1, <2>2
<1>2. CASE ~HandleSuccess
  BY <1>2 DEF Next, vars, User, PollOperationManager, OpenDialog, ConfirmCopyOrMove, ConfirmUpload, CancelConfirmed,
         Acknowledge, Escape, Answer, AnswerConflict, AnswerRename, AnswerQuestion, TogglePause,
         ToggleStandalonePause, StartStandalone, ConflictDetected, Ends, HandlePartialSuccess,
         HandleFailed, HandleCancelled, GiveUpUpload, CheckPendingBatchOperation, userFrame, history
<1>3. QED
  BY <1>1, <1>2

LEMMA NextDeletedIsCopied ==
  ASSUME GroundInv, [Next]_vars, Alone, DeletedIsCopied, ~crossed'
  PROVE  DeletedIsCopied'
<1>1. TypeInv /\ LogInv /\ deleted \subseteq Sources
  BY DEF GroundInv, TypeInv, TypeOK
<1>2. \A s \in deleted : Transferred(s, {"Success"})'
  BY <1>1, TransferredKept DEF DeletedIsCopied
<1>3. SUFFICES ASSUME NEW s \in deleted', s \notin deleted PROVE Transferred(s, {"Success"})'
  BY <1>2 DEF DeletedIsCopied
<1>4. /\ event.kind = "Success" /\ event # NoEvent /\ ~Crosses(event.id)
      /\ \/ pending_upload # None /\ s = pending_upload
         \/ pending_delete # None /\ s = pending_delete
  BY <1>3, NextDeleted
<1>5. /\ event.id \in Ids /\ Engaged(event.id)
      /\ task[event.id].source \in Sources /\ Transferred(task[event.id].source, {"Success"})
  BY <1>1, <1>4, EndIsOwn
<1>6. task[event.id].source = s
  BY <1>4, <1>5 DEF Alone, UploadInv, DeleteInv, Engaged
<1>7. QED
  BY <1>1, <1>5, <1>6, TransferredKept

LEMMA NextApplied ==
  ASSUME [Next]_vars, Alone, ~misapplied
  PROVE  ~misapplied'
<1>1. ASSUME NEW resolution \in ConflictResolution, AnswerConflict(resolution)
      PROVE  ~misapplied'
  <2>1. about = pending.op.index
    BY <1>1 DEF AnswerConflict, Alone, AskInv
  <2>2. QED
    BY <1>1, <2>1 DEF AnswerConflict
<1>2. CASE ~\E resolution \in ConflictResolution : AnswerConflict(resolution)
  BY <1>2 DEF Next, vars, User, PollOperationManager, OpenDialog, ConfirmCopyOrMove, ConfirmUpload, CancelConfirmed,
         Acknowledge, Escape, Answer, AnswerRename, AnswerQuestion, TogglePause,
         ToggleStandalonePause, StartStandalone, ConflictDetected, Ends, HandleSuccess, HandlePartialSuccess,
         HandleFailed, HandleCancelled, Handle, CheckPendingBatchOperation, userFrame, history
<1>3. QED
  BY <1>1, <1>2

Faithful == Alone /\ TruthInv /\ DeletedIsCopied /\ ~misapplied

(* The inductive invariant of a batch nothing has crossed: alone, counted as *)
(* it ended, deleted only when copied, and answered for the file asked about. *)
THEOREM FaithfulHolds == Spec => [](crossed \/ Faithful)
<1>1. Init => Faithful
  <2>1. SUFFICES ASSUME Init PROVE Faithful
    OBVIOUS
  <2>2. report = NewOp.counted /\ pending.op = NewOp /\ deleted = {} /\ ~misapplied
    BY <2>1 DEF Init, Nothing
  <2>3. Truthful(NewOp.counted)
    BY <2>1, InitTyped, NewOpTruthful
  <2>4. QED
    BY <2>1, <2>2, <2>3, InitAlone DEF Faithful, TruthInv, DeletedIsCopied
<1>2. GroundInv /\ (crossed \/ Faithful) /\ [Next]_vars => (crossed \/ Faithful)'
  BY NextAlone, NextTruth, NextDeletedIsCopied, NextApplied, CrossedStays DEF Faithful
<1>3. QED
  BY <1>1, <1>2, GroundInvHolds, PTL DEF Spec

(* A move between machines deletes only what its own transfer has copied.   *)
THEOREM DeletedIsCopiedUncrossedHolds == Spec => []DeletedIsCopiedUncrossed
<1>1. (crossed \/ Faithful) => DeletedIsCopiedUncrossed
  BY DEF Faithful, DeletedIsCopiedUncrossed
<1>2. QED
  BY <1>1, FaithfulHolds, PTL

(* A source counted as copied, or as copied in part, is one whose own       *)
(* operation ended that way.                                                *)
THEOREM CountedIsDoneHolds == Spec => []CountedIsDone
<1>1. (crossed \/ Faithful) => CountedIsDone
  BY DEF Faithful, TruthInv, Truthful, CountedIsDone
<1>2. QED
  BY <1>1, FaithfulHolds, PTL

(* The answer to a conflict dialog goes to the file the dialog named.       *)
THEOREM AnswerIsForSourceHolds == Spec => []AnswerIsForSource
<1>1. (crossed \/ Faithful) => AnswerIsForSource
  BY DEF Faithful, AnswerIsForSource
<1>2. QED
  BY <1>1, FaithfulHolds, PTL
=============================================================================
