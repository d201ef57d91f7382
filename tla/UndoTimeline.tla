---------------------------- MODULE UndoTimeline ----------------------------
(***************************************************************************)
(* What an editor promises about undo and redo: the document is at one     *)
(* place on a line of versions, undo and redo walk along that line without *)
(* changing it, and an edit cuts the line off behind the current version   *)
(* and puts a new one there.  TextBuffer implements this with stacks of    *)
(* textual edits.                                                          *)
(***************************************************************************)
EXTENDS Integers, Sequences

CONSTANTS
  Texts,        \* what a document may contain
  MaxVersions   \* the length of the line at which its oldest version is dropped, 2 or more

VARIABLES
  versions,   \* the line of versions, oldest first
  at          \* the current one

timelineVars == <<versions, at>>

Document == versions[at]

(* A document is opened, or read anew from its file: no history. *)
Load(t) == versions' = <<t>> /\ at' = 1

(* A new version follows the current one or, when typing goes on, replaces  *)
(* it: consecutive keystrokes are undone together.                          *)
Edit(t) ==
  /\ \E keep \in {at - 1, at} \ {0} :
       LET line == Append(SubSeq(versions, 1, keep), t)
       IN  versions' = IF Len(line) > MaxVersions THEN Tail(line) ELSE line
  /\ at' = Len(versions')

Undo == at > 1 /\ at' = at - 1 /\ UNCHANGED versions

Redo == at < Len(versions) /\ at' = at + 1 /\ UNCHANGED versions

Init == versions \in [{1} -> Texts] /\ at = 1

(* What the document is read or edited into is its next content. *)
Changed ==
  LET t == versions'[at']
  IN  t \in Texts /\ (Load(t) \/ Edit(t))

Next == Undo \/ Redo \/ Changed

Spec == Init /\ [][Next]_timelineVars
=============================================================================
