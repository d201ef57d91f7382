-------------------------- MODULE MCOperationManager --------------------------
(* Instances of OperationManager for TLC. *)
EXTENDS OperationManager

Req(p, v, m, n, moves) ==
  [priority |-> p, valid |-> v, job |-> [mode |-> m, left |-> n, renames |-> moves]]

(* A copy of two sources that may stop to ask, and a move of one. *)
AskingRequests == {Req(Normal, TRUE, "Ask", 2, FALSE), Req(Normal, TRUE, "Ask", 1, TRUE)}
(* Three priorities: a copy that asks, a move that does not, a request create_worker refuses. *)
MixedRequests == {Req(Low, TRUE, "Ask", 2, FALSE), Req(High, TRUE, "OverwriteAll", 1, TRUE),
                  Req(Normal, FALSE, "Ask", 1, FALSE)}

(* One answer of each effect on the worker, and the two that end a question. *)
AnswerKinds == {"Overwrite", "Skip", "OverwriteAll", "SkipAll", "Cancel"}
SomeAnswers == {"Overwrite", "SkipAll", "Cancel"}
=============================================================================
