---------------------------- MODULE MCTextBuffer ----------------------------
(* Instances of TextBuffer for TLC: "x" is a letter, "n" the newline. *)
EXTENDS TextBuffer

Letter == {"x"}
NoMarks == {}
(* Typed characters, a newline, and pastes of one line and of several. *)
Pastes == {<<"x">>, <<"n">>, <<"x", "n", "x">>}
TwoLines == {<<"x", "n", "x">>}
=============================================================================
