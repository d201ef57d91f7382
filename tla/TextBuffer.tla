----------------------------- MODULE TextBuffer -----------------------------
(***************************************************************************)
(* A document open in the editor: the rope and its history                 *)
(* (crates/buffer/src/buffer.rs), the editor's cursor, and the changes     *)
(* recorded for the language server until the editor flushes them          *)
(* (crates/panel-editor/src/editor_lsp.rs).  The `modified` flag and the   *)
(* file are in EditorFile.                                                 *)
(***************************************************************************)
EXTENDS EditHistory

CONSTANTS
  Insertions,      \* the texts that are typed or pasted
  Documents,       \* the texts files hold when they are opened or reloaded
  ServerSync,      \* what the file's language server takes: "none" if there is none
  MaxPendingLsp,   \* MAX_PENDING_LSP_CHANGES
  MaxLen,          \* bound: characters in a document
  MaxEdits         \* bound: edits and reloads

ASSUME BufferAssumption ==
  /\ Insertions \subseteq Seq(Char) \ {<<>>}
  /\ Documents \subseteq Seq(Char)
  /\ ServerSync \in {"none", "full", "incremental"}
  /\ MaxPendingLsp \in Nat \ {0}
  /\ MaxLen \in Nat /\ MaxEdits \in Nat

VARIABLES
  text,        \* TextBuffer::rope
  cursor,      \* Editor::cursor
  panicked,    \* a range reached past the end of the rope
  edits        \* edits so far
VARIABLES
  lsp_changes,           \* ranges replaced since the last drain
  lsp_needs_full_sync,   \* they no longer describe the document
  pending_change,        \* LspState::pending_change
  server                 \* the server's copy of the document

lspVars == <<lsp_changes, lsp_needs_full_sync>>
vars == <<historyVars, text, cursor, panicked, edits, lspVars, pending_change, server>>

(* An opened document: init_lsp has sent it whole and drained the changes. *)
Init ==
  /\ HistoryInit
  /\ text \in Documents
  /\ cursor = CursorAt(0, 0)
  /\ panicked = FALSE
  /\ edits = 0
  /\ lsp_changes = <<>>
  /\ lsp_needs_full_sync = FALSE
  /\ pending_change = FALSE
  /\ server = text

-----------------------------------------------------------------------------
LspChange(t, i, j, s) == [start |-> LspPosition(t, i), end |-> LspPosition(t, j), text |-> s]

(* Mutation: the changes are cleared at the ceiling, and no more is asked. *)
RecordLspChange_Forgets(i, j, s) ==
  /\ lsp_changes' = IF Len(lsp_changes) >= MaxPendingLsp THEN <<>>
                    ELSE Append(lsp_changes, LspChange(text, i, j, s))
  /\ UNCHANGED lsp_needs_full_sync

(* record_lsp_change: called before the rope changes, and it gives up on    *)
(* ranges at the ceiling.                                                   *)
RecordLspChange(i, j, s) ==
  IF lsp_needs_full_sync THEN UNCHANGED lspVars
  ELSE IF Len(lsp_changes) >= MaxPendingLsp
  THEN lsp_changes' = <<>> /\ lsp_needs_full_sync' = TRUE
  ELSE /\ lsp_changes' = Append(lsp_changes, LspChange(text, i, j, s))
       /\ UNCHANGED lsp_needs_full_sync

(* mark_changed: the server, if there is one, is to be told on the next flush. *)
MarkChanged == pending_change' = (ServerSync # "none")

(* The rope's characters i..j are replaced by s. *)
ReplaceRange(i, j, s) ==
  /\ text' = Replace(text, i, j, s)
  /\ RecordLspChange(i, j, s)
  /\ MarkChanged

MayEdit == ~panicked /\ edits < MaxEdits /\ edits' = edits + 1

(* An edit of the user's: it changes the rope and is pushed on the history. *)
UserEdit(i, j, s, action) ==
  /\ MayEdit
  /\ ReplaceRange(i, j, s)
  /\ Push(action)
  /\ UNCHANGED <<panicked, server>>

(* The user moves the cursor freely between two commands, which changes     *)
(* nothing else; so each command takes the cursor c it starts from.  A      *)
(* command that makes several edits (a paste over a selection, a bracket    *)
(* closed with its opening one, an indented block) is that many steps.      *)

(* insert_char, insert_newline, paste_text. *)
Insert(c, s) ==
  LET i == CharIdx(text, c)
  IN  /\ Len(text) + Len(s) <= MaxLen
      /\ UserEdit(i, i, s, Insertion(c, s))
      /\ cursor' = ClampCursor(text', AdvanceCursor(c, s))

(* delete_char: the character at the cursor, which stays. *)
DeleteChar(c) ==
  LET i == CharIdx(text, c)
  IN  /\ i < Len(text)
      /\ UserEdit(i, i + 1, <<>>, Deletion(c, <<text[i + 1]>>))
      /\ cursor' = c

(* One grapheme back, or to the end of the line before. *)
GraphemeBefore(c) ==
  IF c.column > 0 THEN CursorAt(c.line, c.column - 1)
  ELSE CursorAt(c.line - 1, LineLen(text, c.line - 1))

(* Mutation: the position recorded is that before the deletion. *)
Backspace_OldPosition(c) ==
  LET i == CharIdx(text, c)
  IN  /\ i > 0
      /\ UserEdit(i - 1, i, <<>>, Deletion(c, <<text[i]>>))
      /\ cursor' = ClampCursor(text', GraphemeBefore(c))

(* backspace: the character before the cursor, which goes back by a grapheme. *)
Backspace(c) ==
  LET i == CharIdx(text, c)
  IN  /\ i > 0
      /\ UserEdit(i - 1, i, <<>>, Deletion(GraphemeBefore(c), <<text[i]>>))
      /\ cursor' = ClampCursor(text', GraphemeBefore(c))

(* delete_selection: from one cursor to another, where the cursor ends up. *)
DeleteRange(start, end) ==
  LET i == CharIdx(text, start)
      j == CharIdx(text, end)
  IN  /\ i < j
      /\ UserEdit(i, j, <<>>, Deletion(start, SubSeq(text, i + 1, j)))
      /\ cursor' = start

(* apply_action: it fails on a line the text does not have, after the       *)
(* history was popped; a deletion past the end of the rope panics.          *)
ApplyAction(action) ==
  LET found == action.position.line < LineCount(text)
      i == CharIdx(text, action.position)
      j == IF action.kind = "Insert" THEN i ELSE i + Len(action.text)
      s == IF action.kind = "Insert" THEN action.text ELSE <<>>
      moved == IF action.kind = "Insert" THEN AdvanceCursor(action.position, s)
               ELSE action.position
  IN  \/ /\ found /\ j <= Len(text)
         /\ ReplaceRange(i, j, s)
         /\ cursor' = ClampCursor(text', moved)
         /\ UNCHANGED panicked
      \/ /\ found /\ j > Len(text)
         /\ panicked' = TRUE
         /\ UNCHANGED <<text, cursor, lspVars, pending_change>>
      \/ /\ ~found
         /\ UNCHANGED <<text, cursor, panicked, lspVars, pending_change>>

Undo ==
  /\ ~panicked
  /\ PopUndo
  /\ ApplyAction(Inverted(Last(Done)))
  /\ UNCHANGED <<edits, server>>

Redo ==
  /\ ~panicked
  /\ PopRedo
  /\ ApplyAction(Last(redo_stack))
  /\ UNCHANGED <<edits, server>>

(* Redo pressed with nothing to redo. *)
RedoNothing ==
  /\ ~panicked
  /\ redo_stack = <<>>
  /\ CommitPending
  /\ UNCHANGED <<text, cursor, panicked, edits, lspVars, pending_change, server>>

(* reload_from_disk: a new buffer, with no history and no ranges. *)
Reload(t) ==
  /\ MayEdit
  /\ text' = t
  /\ cursor' = CursorAt(0, 0)
  /\ undo_stack' = <<>> /\ redo_stack' = <<>> /\ pending_action' = <<>>
  /\ lsp_changes' = <<>> /\ lsp_needs_full_sync' = TRUE
  /\ MarkChanged
  /\ UNCHANGED <<panicked, server>>

(* The server applies one change after the other to its copy. *)
AppliedTo(change) ==
  [t \in Seq(Char) |->
     Replace(t, LspOffset(t, change.start), LspOffset(t, change.end), change.text)]

Applied(t, changes) ==
  LET copy[n \in 0..Len(changes)] ==
        IF n = 0 THEN t ELSE AppliedTo(changes[n])[copy[n - 1]]
  IN  copy[Len(changes)]

(* flush_lsp_changes: the recorded ranges, or the whole text if they no     *)
(* longer describe it or the server does not take ranges.                   *)
Flush ==
  /\ ~panicked
  /\ pending_change
  /\ pending_change' = FALSE
  /\ lsp_changes' = <<>> /\ lsp_needs_full_sync' = FALSE
  /\ server' = IF ServerSync = "incremental" /\ ~lsp_needs_full_sync THEN Applied(server, lsp_changes)
               ELSE text
  /\ UNCHANGED <<historyVars, text, cursor, panicked, edits>>

Next ==
  \/ \E c \in CursorsOf(text) :
       \/ \E s \in Insertions : Insert(c, s)
       \/ DeleteChar(c) \/ Backspace(c)
       \/ \E end \in CursorsOf(text) : DeleteRange(c, end)
  \/ Undo \/ Redo \/ RedoNothing
  \/ \E t \in Documents : Reload(t)
  \/ Flush

Spec == Init /\ [][Next]_vars

-----------------------------------------------------------------------------
LspChangeType == [start : Cursor, end : Cursor, text : Seq(Char)]

(* Types, and the ceilings: the history keeps max_size actions and one      *)
(* pending, the backlog its maximum, and the cursor is always on a grapheme *)
(* of the text or at the end of a line, after undo and redo too.            *)
TypeOK ==
  /\ text \in Seq(Char)
  /\ undo_stack \in Seq(Action) /\ redo_stack \in Seq(Action)
  /\ pending_action \in Seq(Action) /\ Len(pending_action) <= 1
  /\ Len(Done) + Len(redo_stack) <= MaxHistory + 1
  /\ cursor \in CursorsOf(text)
  /\ panicked \in BOOLEAN
  /\ edits \in 0..MaxEdits
  /\ lsp_changes \in Seq(LspChangeType) /\ Len(lsp_changes) <= MaxPendingLsp
  /\ lsp_needs_full_sync \in BOOLEAN
  /\ pending_change \in BOOLEAN
  /\ server \in Seq(Char)

(* Undo and redo never delete past the end of the rope, which would panic:  *)
(* the positions recorded in line and column find the recorded text again.  *)
NoPanic == ~panicked

(* The backlog and the server's copy make up the document, whatever was     *)
(* edited, undone, reloaded or dropped at the ceiling since the last flush. *)
LspMirror == lsp_needs_full_sync \/ Applied(server, lsp_changes) = text

(* After typing or pasting, the cursor is right behind what was inserted.   *)
CursorFollowsInsertion ==
  [][\A c \in CursorsOf(text), s \in Insertions :
       Insert(c, s) => CharIdx(text', cursor') = CharIdx(text, c) + Len(s)]_vars

-----------------------------------------------------------------------------
(* The line of versions the stacks stand for: the text with the last n      *)
(* actions undone, and with the last n undone ones redone.                  *)
Effect(action) ==
  [t \in Seq(Char) |->
     LET i == CharIdx(t, action.position)
     IN  IF action.kind = "Insert" THEN Replace(t, i, i, action.text)
         ELSE Replace(t, i, i + Len(action.text), <<>>)]

Past(done, t) ==
  LET back[n \in 0..Len(done)] ==
        IF n = 0 THEN t ELSE Effect(Inverted(done[Len(done) - n + 1]))[back[n - 1]]
  IN  [k \in 1..Len(done) |-> back[Len(done) - k + 1]]

Future(undone, t) ==
  LET ahead[n \in 0..Len(undone)] ==
        IF n = 0 THEN t ELSE Effect(undone[Len(undone) - n + 1])[ahead[n - 1]]
  IN  [k \in 1..Len(undone) |-> ahead[k]]

Versions(done, undone, t) == Past(done, t) \o <<t>> \o Future(undone, t)

Timeline == INSTANCE UndoTimeline WITH
  Texts <- Seq(Char),
  MaxVersions <- MaxHistory + 2,
  versions <- Versions(Done, redo_stack, text),
  at <- Len(Done) + 1

(* Undo and redo walk along the versions the document had; nothing but an   *)
(* edit or a reload changes them.                                           *)
ImplementsTimeline == Timeline!Spec
=============================================================================
