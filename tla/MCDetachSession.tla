--------------------------- MODULE MCDetachSession ---------------------------
(* Instances of DetachSession for TLC. *)
EXTENDS DetachSession

CONSTANTS a, b, d   \* clients a and b, the request d to detach

TwoClients == {a, b}
OneRequest == {d}
NoRequest == {}
=============================================================================
