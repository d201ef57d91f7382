---------------------------- MODULE MCLocalWorker ----------------------------
(* Instances of LocalWorker for TLC: a file f and a directory t of files x and y, whose *)
(* destinations are g and u; n and m are free names.                                    *)
EXTENDS LocalWorker

Names == {"f", "t", "g", "u", "n", "m"}
To(r) == CASE r = "f" -> "g" [] r = "t" -> "u" [] OTHER -> r
Request(kind, sources, cross) ==
  [kind |-> kind, sources |-> sources, dest |-> [r \in Names |-> To(r)], cross |-> cross]

Twice == <<"f", "t">>
AllRequests ==
  {Request("copy", Twice, {}), Request("delete", Twice, {}), Request("move", Twice, {}),
   Request("move", Twice, {"f", "t"}), Request("move", <<"t", "f">>, {"t"})}

Found(isDir, extra) ==
  [dirs |-> {"t"} \cup isDir, files |-> {<<"f", "self">>, <<"t", "x">>, <<"t", "y">>} \cup extra]
(* Nothing there; a file in the way of either; a directory to be merged with, or empty. *)
AllLayouts ==
  {Found({}, {}), Found({}, {<<"g", "self">>}), Found({}, {<<"u", "self">>}),
   Found({"u"}, {<<"u", "x">>}), Found({"u"}, {}), Found({"u"}, {<<"g", "self">>, <<"u", "y">>})}

FreeName == [r \in Names |-> CASE r = "f" -> {"n"} [] r = "t" -> {"m"} [] OTHER -> {}]
TwoEntries == {"x", "y"}

ASSUME RequestsApart == Apart(AllRequests) /\ NamesFree

(* The destination directory is the source's own. *)
OntoItself ==
  {[Request("copy", <<"f">>, {}) EXCEPT !.dest = [r \in Names |-> r]]}
=============================================================================
