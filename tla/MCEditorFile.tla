---------------------------- MODULE MCEditorFile ----------------------------
(* An instance of EditorFile for TLC. *)
EXTENDS EditorFile

CONSTANTS a, b, p, q, r   \* texts, b of several lines; files

TwoTexts == {a, b}
Lines == {b}
ThreeFiles == {p, q, r}
Elsewhere == {q, r}
Spare == {q}
Locked == {r}
Both == {"LF", "CRLF"}
=============================================================================
