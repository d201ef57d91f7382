---------------------------- MODULE TextGeometry ----------------------------
(***************************************************************************)
(* Texts, and the places in them, as crates/buffer/src/buffer.rs sees      *)
(* them: the rope counts characters, a cursor counts lines and graphemes.  *)
(* A text is a sequence of characters; a combining mark is a character of  *)
(* its own that shares the grapheme of the character before it.            *)
(***************************************************************************)
EXTENDS Integers, Sequences, SequencesExt, FiniteSetsExt

CONSTANTS
  Ascii,     \* characters of one byte, other than the newline
  Marks,     \* combining marks (of several bytes)
  Newline

ASSUME CharAssumption == /\ Ascii \cap Marks = {}
                         /\ Newline \notin Ascii \cup Marks

Char == Ascii \cup Marks \cup {Newline}

-----------------------------------------------------------------------------
(* Offsets count the characters before a place, as in the rope. *)

(* The line of an offset: the newlines before it. *)
LineOf(t, offset) == Quantify(1..offset, LAMBDA i : t[i] = Newline)

LineCount(t) == LineOf(t, Len(t)) + 1

LineStart(t, line) ==
  CHOOSE offset \in 0..Len(t) :
    LineOf(t, offset) = line /\ (offset = 0 \/ t[offset] = Newline)

(* The end of a line, its newline included. *)
LineEnd(t, line) == IF line = LineCount(t) - 1 THEN Len(t) ELSE LineStart(t, line + 1)

(* The offsets at which the graphemes of a line begin, its newline included. *)
Graphemes(t, line) ==
  {offset \in LineStart(t, line)..LineEnd(t, line) - 1 :
     offset = LineStart(t, line) \/ t[offset + 1] \notin Marks}

(* line_len_graphemes: the newline does not count. *)
LineLen(t, line) == Quantify(Graphemes(t, line), LAMBDA offset : t[offset + 1] # Newline)

-----------------------------------------------------------------------------
(* Cursors. *)

Cursor == [line : Nat, column : Nat]
CursorAt(line, column) == [line |-> line, column |-> column]

(* The cursors of a text the user can move to. *)
CursorsOf(t) == UNION {{CursorAt(line, column) : column \in 0..LineLen(t, line)} :
                        line \in 0..LineCount(t) - 1}

(* cursor_to_char_idx: a column past the line's graphemes, of which its     *)
(* newline is one, means the end of the line.                               *)
CharIdx(t, cursor) ==
  LET starts == Graphemes(t, cursor.line)
  IN  IF cursor.column >= Cardinality(starts) THEN LineEnd(t, cursor.line)
      ELSE CHOOSE offset \in starts :
             Quantify(starts, LAMBDA o : o < offset) = cursor.column

(* clamp_cursor: the editor brings its cursor back into the text. *)
ClampCursor(t, cursor) ==
  LET line == Min({cursor.line, LineCount(t) - 1})
  IN  CursorAt(line, Min({cursor.column, LineLen(t, line)}))

(* str::lines(): an unfinished last line counts if it is not empty. *)
StrLines(s) == IF s = <<>> \/ Last(s) = Newline THEN LineCount(s) - 1 ELSE LineCount(s)

(* Mutation: one line too far after several lines. *)
AdvanceCursor_OffByOne(cursor, s) ==
  IF StrLines(s) > 1 THEN CursorAt(cursor.line + StrLines(s), LineLen(s, StrLines(s) - 1))
  ELSE IF Contains(s, Newline) THEN CursorAt(cursor.line + 1, 0)
  ELSE CursorAt(cursor.line, cursor.column + LineLen(s, 0))

(* advance_cursor: where the cursor goes after an insertion. *)
AdvanceCursor(cursor, s) ==
  LET lines == StrLines(s)
  IN  IF lines = 0 \/ (lines = 1 /\ Last(s) = Newline)
      THEN CursorAt(cursor.line + 1, 0)
      ELSE IF lines = 1
      THEN CursorAt(cursor.line, cursor.column + LineLen(s, 0))
      ELSE CursorAt(cursor.line + lines - 1, LineLen(s, lines - 1))

-----------------------------------------------------------------------------
(* The rope: the characters from offset i to offset j replaced by s. *)
Replace(t, i, j, s) == SubSeq(t, 1, i) \o s \o SubSeq(t, j + 1, Len(t))

(* An offset in the coordinates of the language server: its line and the    *)
(* units before it on that line (lsp_position_at).  One unit per character  *)
(* stands for the character's UTF-16 length.                                *)
LspPosition(t, offset) ==
  LET line == LineOf(t, offset) IN CursorAt(line, offset - LineStart(t, line))

(* How a server finds the offset of a position in its own copy.  A position  *)
(* past the end of the line or of the text is brought back to it.           *)
LspOffset(t, position) ==
  IF position.line >= LineCount(t) THEN Len(t)
  ELSE Min({LineStart(t, position.line) + position.column, LineEnd(t, position.line)})
=============================================================================
