-------------------------- MODULE OperationService --------------------------
(***************************************************************************)
(* What the operation manager promises the application, without its queue, *)
(* threads or channels: an accepted operation asks a question only after   *)
(* the last one was answered, and ends, as far as the application is told, *)
(* at most once and never with a question open or after it was withdrawn.  *)
(*                                                                         *)
(* OperationManager implements it (Service there); BatchOperation is       *)
(* built on it.                                                            *)
(***************************************************************************)
EXTENDS Integers

CONSTANT MaxOps  \* bound: ids handed out by generate_id

VARIABLE status  \* what the application can know of an operation

Ids == 1..MaxOps

Standing == {"fresh", "going", "asking", "over", "withdrawn"}

ServiceInit == status = [id \in Ids |-> "fresh"]

(* start_now or queue_operation returned Ok(id); ids only grow. *)
Accept(id) ==
  /\ \A other \in Ids : other >= id => status[other] = "fresh"
  /\ status' = [status EXCEPT ![id] = "going"]

(* One poll() told the application of these ends and these conflicts. *)
Deliver(ended, asked) ==
  /\ ended \cap asked = {}
  /\ \A id \in ended \cup asked : status[id] = "going"
  /\ status' = [id \in Ids |-> IF id \in ended THEN "over"
                               ELSE IF id \in asked THEN "asking" ELSE status[id]]

(* resolve_conflict *)
Answered(id) ==
  /\ status[id] = "asking"
  /\ status' = [status EXCEPT ![id] = "going"]

(* cancel or cancel_all took these out of the queue: no event follows. *)
Withdraw(ids) ==
  /\ \A id \in ids : status[id] = "going"
  /\ status' = [id \in Ids |-> IF id \in ids THEN "withdrawn" ELSE status[id]]

ServiceNext ==
  \/ \E id \in Ids : Accept(id) \/ Answered(id)
  \/ \E ended, asked \in SUBSET Ids : Deliver(ended, asked)
  \/ \E ids \in SUBSET Ids : Withdraw(ids)

ServiceSpec == ServiceInit /\ [][ServiceNext]_status
=============================================================================
