------------------------------- MODULE Editor -------------------------------
(***************************************************************************)
(* The text editor (src/src/core/shell/Editor.cpp): a zero-terminated      *)
(* array with an insertion point, and Render, which draws it after every   *)
(* key.  Saving is in Ext4; it leaves this state alone.  Terminal composes *)
(* the editor with the window it draws in.                                 *)
(***************************************************************************)
EXTENDS Integers, Sequences, SequencesExt

CONSTANTS
  BufSize,         \* 10240
  TERM_W, TERM_H,  \* 60 x 25
  Chars,           \* characters of texts; "\n" may be among them
  Texts,           \* what Ext4::ReadFile may deliver
  NUL,
  NoBuffer         \* content == 0

ASSUME EditorAssumption ==
  /\ BufSize \in Nat /\ BufSize >= 1
  /\ TERM_W \in Nat \ {0} /\ TERM_H \in Nat /\ TERM_H >= 2
  /\ NUL \notin Chars
  /\ NoBuffer \notin [0..(BufSize - 1) -> Chars \cup {NUL}]
  /\ Texts \subseteq Seq(Chars) /\ \A t \in Texts : Len(t) < BufSize

Index == 0..(BufSize - 1)

VARIABLES
  content,       \* the buffer, or NoBuffer while the editor is closed
  content_size,
  cursor_idx

editor_vars == <<content, content_size, cursor_idx>>

Opened == content # NoBuffer

EditorInit ==
  /\ content = NoBuffer
  /\ content_size = 0
  /\ cursor_idx = 0

\* Start: a zeroed buffer, then the file's text and its NUL.
Start(t) ==
  /\ ~Opened
  /\ content' = [i \in Index |-> IF i < Len(t) THEN t[i + 1] ELSE NUL]
  /\ content_size' = Len(t)
  /\ cursor_idx' = 0

\* Ctrl+Q.  The sizes mean nothing until the next Start, which sets them.
Quit ==
  /\ Opened
  /\ content' = NoBuffer
  /\ content_size' = 0
  /\ cursor_idx' = 0

\* Left and Up: one character back.
Back ==
  /\ Opened
  /\ cursor_idx > 0
  /\ cursor_idx' = cursor_idx - 1
  /\ UNCHANGED <<content, content_size>>

\* Right and Down: one character on.
Forward ==
  /\ Opened
  /\ cursor_idx < content_size
  /\ cursor_idx' = cursor_idx + 1
  /\ UNCHANGED <<content, content_size>>

\* Mutant of Removed: the terminator is not moved.
RemovedUnterminated ==
  [i \in Index |-> IF i \in (cursor_idx - 1)..(content_size - 2)
                   THEN content[i + 1] ELSE content[i]]

\* The buffer without the character before the cursor.
Removed ==
  [i \in Index |-> IF i = content_size - 1 THEN NUL
                   ELSE IF i \in (cursor_idx - 1)..(content_size - 2)
                        THEN content[i + 1] ELSE content[i]]

Backspace ==
  /\ Opened
  /\ cursor_idx > 0
  /\ content' = Removed
  /\ content_size' = content_size - 1
  /\ cursor_idx' = cursor_idx - 1

\* Mutant of Inserted: the shift runs forwards and repeats a character.
InsertedSmeared(c) ==
  [i \in Index |-> IF i = cursor_idx THEN c
                   ELSE IF i \in (cursor_idx + 1)..content_size
                        THEN content[cursor_idx]
                        ELSE IF i = content_size + 1 THEN NUL
                             ELSE content[i]]

\* The buffer with c at the cursor.
Inserted(c) ==
  [i \in Index |-> IF i = cursor_idx THEN c
                   ELSE IF i \in (cursor_idx + 1)..content_size
                        THEN content[i - 1]
                        ELSE IF i = content_size + 1 THEN NUL
                             ELSE content[i]]

\* Typing, the ENTER key included.
Type(c) ==
  /\ Opened
  /\ content_size < BufSize - 1
  /\ content' = Inserted(c)
  /\ cursor_idx' = cursor_idx + 1
  /\ content_size' = content_size + 1

EditorNext ==
  \/ \E t \in Texts : Start(t)
  \/ Quit
  \/ Back
  \/ Forward
  \/ Backspace
  \/ \E c \in Chars : Type(c)

EditorSpec == EditorInit /\ [][EditorNext]_editor_vars

-----------------------------------------------------------------------------
(* Render: a loop over the text that stops at the status line.  A drawing  *)
(* is the loop's state; its field cells collects what is written and where.*)

Drawing(row, col, cx, cy, cells) ==
  [row |-> row, col |-> col, cx |-> cx, cy |-> cy, cells |-> cells]

Draw0 == Drawing(0, 0, 0, 0, {})

\* Mutant of Place: the row is not left when it is full.
PlaceNoWrap(r, c) ==
  IF c = "\n" THEN Drawing(r.row + 1, 0, r.cx, r.cy, r.cells)
  ELSE Drawing(r.row, r.col + 1, r.cx, r.cy, r.cells \cup {<<r.row, r.col, c>>})

\* One character is placed: a newline, the next column, or the next row.
Place(r, c) ==
  IF c = "\n" THEN Drawing(r.row + 1, 0, r.cx, r.cy, r.cells)
  ELSE IF r.col < TERM_W
       THEN Drawing(r.row, r.col + 1, r.cx, r.cy,
                    r.cells \cup {<<r.row, r.col, c>>})
       ELSE Drawing(r.row + 1, 1, r.cx, r.cy,
                    r.cells \cup {<<r.row + 1, 0, c>>})

\* The cursor is where the drawing has got to.
CursorHere(r) == Drawing(r.row, r.col, r.col, r.row, r.cells)

\* The loop has reached the status line.
Stopped(r) == r.row >= TERM_H - 1

\* The loop body for index i of the text, with the cursor at cur.
DrawStep(r, text, i, cur) ==
  IF Stopped(r) THEN r
  ELSE Place(IF i = cur THEN CursorHere(r) ELSE r, text[i])

\* The loop over the first size characters.
DrawText(text, size, cur) ==
  LET draw[k \in 0..size] ==
        IF k = 0 THEN Draw0 ELSE DrawStep(draw[k - 1], text, k - 1, cur)
  IN  draw[size]

\* Mutant of Render: the end of the text is not shown as a place.
RenderNoEnd(text, size, cur) == DrawText(text, size, cur)

\* Render with the cursor at index cur; at the end it follows the text.
Render(text, size, cur) ==
  LET r == DrawText(text, size, cur)
  IN  IF cur = size THEN CursorHere(r) ELSE r

-----------------------------------------------------------------------------
\* The buffer is a zero-terminated text of content_size characters and the
\* cursor is in it or at its end, after any keys: what Ctrl+S writes is what
\* strlen would find.
EditorInv ==
  Opened =>
    /\ content \in [Index -> Chars \cup {NUL}]
    /\ content_size \in 0..(BufSize - 1)
    /\ cursor_idx \in 0..content_size
    /\ \A i \in Index : content[i] = NUL <=> i >= content_size

\* The array implements the split text.
Abstract == INSTANCE TextEdit WITH
  Limit <- BufSize - 1,
  open <- Opened,
  before <- IF Opened THEN [k \in 1..cursor_idx |-> content[k - 1]] ELSE <<>>,
  after <- IF Opened THEN [k \in 1..(content_size - cursor_idx) |->
                             content[cursor_idx + k - 1]]
           ELSE <<>>

\* Inserting and deleting move the rest of the text as a whole, and moving
\* the cursor changes no text (Editor.cpp:106-153).
ImplementsTextEdit == Abstract!Spec

\* Render draws only cells of the window, however long the text and its
\* lines are: it has no other bound than the break at the status line.
RenderInBounds ==
  Opened =>
    \A p \in Render(content, content_size, cursor_idx).cells :
      p[1] \in 0..(TERM_H - 1) /\ p[2] \in 0..(TERM_W - 1)

\* The cursor tells the user where he is: as long as the text fits above the
\* status line, different positions are drawn at different places.
CursorTellsPosition ==
  LET draw == [i \in 0..content_size |-> Render(content, content_size, i)]
  IN  (Opened /\ ~Stopped(draw[cursor_idx])) =>
        \A i, j \in 0..content_size :
          i # j => <<draw[i].cy, draw[i].cx>> # <<draw[j].cy, draw[j].cx>>

=============================================================================
