--------------------------- MODULE MCSessionStore ---------------------------
(* A project and one nested in its directory.  The names of files are       *)
(* interchangeable.                                                         *)
EXTENDS SessionStore
CONSTANTS outer, inner, n1, n2, n3
MCProjects == {outer, inner}
MCInside == {<<inner, outer>>}
MCRemovable == {inner}
MCCut == {"buffer", "session"}
MCNames == {n1, n2, n3}
AnyNames == Permutations(MCNames)
=============================================================================
