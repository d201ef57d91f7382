---------------------------- MODULE EditHistory ----------------------------
(***************************************************************************)
(* The undo and redo stacks of a buffer, crates/buffer/src/history.rs.     *)
(* Consecutive keystrokes accumulate in a pending action, which joins the  *)
(* undo stack when something else happens.                                 *)
(***************************************************************************)
EXTENDS TextGeometry

CONSTANT MaxHistory    \* History::max_size

ASSUME HistoryAssumption == MaxHistory \in Nat \ {0}

(* An action replaces nothing by `text` at a cursor, or `text` by nothing. *)
Insertion(cursor, text) == [kind |-> "Insert", position |-> cursor, text |-> text]
Deletion(cursor, text) == [kind |-> "Delete", position |-> cursor, text |-> text]
Action == [kind : {"Insert", "Delete"}, position : Cursor, text : Seq(Char)]

Inverted(action) == [action EXCEPT !.kind = IF @ = "Insert" THEN "Delete" ELSE "Insert"]

VARIABLES
  undo_stack,
  redo_stack,      \* what was undone last at its end
  pending_action   \* the accumulated action: none, or a sequence of one

historyVars == <<undo_stack, redo_stack, pending_action>>

(* Every action that can be undone, the pending one last. *)
Done == undo_stack \o pending_action

HistoryInit == undo_stack = <<>> /\ redo_stack = <<>> /\ pending_action = <<>>

(* can_merge_with: one byte more on the same line, right behind what was    *)
(* inserted, or right before what was deleted.                              *)
CanMerge(a, b) ==
  /\ a.kind = b.kind
  /\ a.position.line = b.position.line
  /\ Len(b.text) = 1 /\ b.text[1] \in Ascii
  /\ ~Contains(a.text, Newline)
  /\ IF a.kind = "Insert"
     THEN b.position.column = a.position.column + Len(a.text)
     ELSE b.position.column + 1 = a.position.column

Merge(a, b) ==
  IF a.kind = "Insert"
  THEN [a EXCEPT !.text = @ \o b.text]
  ELSE [b EXCEPT !.text = @ \o a.text]

(* Mutation: the history is never trimmed. *)
Push_Untrimmed(action) ==
  /\ redo_stack' = <<>>
  /\ IF pending_action # <<>> /\ CanMerge(pending_action[1], action)
     THEN /\ pending_action' = <<Merge(pending_action[1], action)>>
          /\ UNCHANGED undo_stack
     ELSE /\ pending_action' = <<action>>
          /\ undo_stack' = Done

(* Mutation: what was undone can still be redone. *)
Push_KeepsRedo(action) ==
  /\ UNCHANGED redo_stack
  /\ pending_action' = <<action>>
  /\ undo_stack' = IF Len(Done) > MaxHistory THEN Tail(Done) ELSE Done

(* push: merge with the pending action, or start a new one. *)
Push(action) ==
  /\ redo_stack' = <<>>
  /\ IF pending_action # <<>> /\ CanMerge(pending_action[1], action)
     THEN /\ pending_action' = <<Merge(pending_action[1], action)>>
          /\ UNCHANGED undo_stack
     ELSE /\ pending_action' = <<action>>
          /\ undo_stack' = IF Len(Done) > MaxHistory THEN Tail(Done) ELSE Done

(* commit_pending, then pop: the action to apply is Inverted(Last(Done)). *)
PopUndo ==
  /\ Done # <<>>
  /\ undo_stack' = Front(Done)
  /\ pending_action' = <<>>
  /\ redo_stack' = Append(redo_stack, Last(Done))

(* The action to apply is Last(redo_stack). *)
PopRedo ==
  /\ redo_stack # <<>>
  /\ undo_stack' = Append(Done, Last(redo_stack))
  /\ pending_action' = <<>>
  /\ redo_stack' = Front(redo_stack)

(* redo() with nothing to redo still ends the pending action. *)
CommitPending ==
  /\ undo_stack' = Done
  /\ pending_action' = <<>>
  /\ UNCHANGED redo_stack
=============================================================================
