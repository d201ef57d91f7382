--------------------------- MODULE OperationQueue ---------------------------
(***************************************************************************)
(* The priority queue of pending file operations,                          *)
(* crates/file-ops/src/queue.rs.  A queue is a sequence of entries, highest *)
(* priority first and, within one priority, in arrival order.              *)
(***************************************************************************)
EXTENDS Integers, Sequences, SequencesExt

CONSTANT MaxQueueSize   \* OperationManagerConfig::max_queue_size, 0 = unlimited

ASSUME QueueSizeAssumption == MaxQueueSize \in Nat

(* OperationPriority: Low, Normal, High and Immediate, ordered as in the enum. *)
Low == 0
Normal == 1
High == 2
Immediate == 3
Priority == Low..Immediate

(* QueuedOperation; the queue never looks into the request. *)
Entries(ids, requests) == [id : ids, priority : Priority, request : requests]

IsFull(q) == MaxQueueSize > 0 /\ Len(q) >= MaxQueueSize

(* Mutation: a new operation goes before those of its own priority. *)
InsertPos_NotStrict(q, p) ==
  LET lower == SelectInSeq(q, LAMBDA e : e.priority <= p)
  IN  IF lower = 0 THEN Len(q) + 1 ELSE lower

(* The position of the first operation of a strictly lower priority. *)
InsertPos(q, p) ==
  LET lower == SelectInSeq(q, LAMBDA e : e.priority < p)
  IN  IF lower = 0 THEN Len(q) + 1 ELSE lower

(* enqueue: the queue afterwards; a full queue is left as it is. *)
Enqueue(q, e) == IF IsFull(q) THEN q ELSE InsertAt(q, InsertPos(q, e.priority), e)

QueuedIds(q) == {q[i].id : i \in 1..Len(q)}

(* remove: the queue without the first entry of that id. *)
RemoveId(q, id) ==
  LET pos == SelectInSeq(q, LAMBDA e : e.id = id)
  IN  IF pos = 0 THEN q ELSE RemoveAt(q, pos)

(***************************************************************************)
(* What the queue promises: what leaves first is what has the highest      *)
(* priority, and of those what arrived first.  Ids are handed out in       *)
(* arrival order, so the arrival order of two entries is that of their ids.*)
(***************************************************************************)
Before(a, b) == \/ a.priority > b.priority
                \/ a.priority = b.priority /\ a.id < b.id

DistinctIds(q) == \A i, j \in 1..Len(q) : q[i].id = q[j].id => i = j

InOrder(q) == \A i, j \in 1..Len(q) : i < j => Before(q[i], q[j])
=============================================================================
