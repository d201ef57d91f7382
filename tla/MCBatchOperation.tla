-------------------------- MODULE MCBatchOperation --------------------------
(* Instances of BatchOperation for TLC. *)
EXTENDS BatchOperation

Batch(n, kind, move, large) == [n |-> n, kind |-> kind, move |-> move, large |-> large]

(* Two files moved from a server, two moved to one, three local files, one small one. *)
AllBatches == {Batch(2, "download", TRUE, FALSE), Batch(2, "upload", TRUE, FALSE),
               Batch(3, "local", FALSE, FALSE), Batch(1, "local", FALSE, FALSE)}
=============================================================================
