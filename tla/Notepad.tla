------------------------------ MODULE Notepad -------------------------------
(***************************************************************************)
(* Notepad (src/programs.cpp): a buffer that is drawn up to its NUL and    *)
(* saved up to the cursor.  The disk is one file, external to src/.        *)
(***************************************************************************)
EXTENDS Integers, Sequences

CONSTANTS
  BufferSize,   \* 1024
  NoteMax,      \* 1020: no key is taken from here on
  NoteChars,    \* what keys type; ENTER types "\n"
  NoteNUL,
  NoNote        \* note.txt does not exist

ASSUME NotepadAssumption ==
  /\ {BufferSize, NoteMax} \subseteq Nat /\ NoteMax < BufferSize
  /\ NoteNUL \notin NoteChars \cup {"\n"}

VARIABLES
  buffer,
  cursor,
  saved,       \* the title bar says "Saved!"
  note,        \* note.txt: a sequence of characters, or NoNote
  mounted,     \* EXT2::IsMounted()
  written      \* history: the last Save wrote note.txt

notepad_vars == <<buffer, cursor, saved, note, mounted, written>>

\* Notepad::Init
Emptied ==
  /\ buffer' = [i \in 0..(BufferSize - 1) |-> NoteNUL]
  /\ cursor' = 0
  /\ saved' = FALSE
  /\ written' = FALSE

NotepadInit ==
  /\ buffer = [i \in 0..(BufferSize - 1) |-> NoteNUL]
  /\ cursor = 0 /\ saved = FALSE /\ written = FALSE
  /\ note = NoNote
  /\ mounted \in BOOLEAN

\* Mutant of Rubbed: the character stays in the buffer.
RubbedNot == buffer

\* The buffer after Backspace.
Rubbed == [buffer EXCEPT ![cursor - 1] = NoteNUL]

\* Input: Backspace.
InputBackspace ==
  /\ cursor > 0
  /\ buffer' = Rubbed
  /\ cursor' = cursor - 1
  /\ saved' = FALSE
  /\ UNCHANGED <<note, mounted, written>>

\* Input: Enter, which does not terminate the text.
InputEnter ==
  /\ cursor < NoteMax
  /\ buffer' = [buffer EXCEPT ![cursor] = "\n"]
  /\ cursor' = cursor + 1
  /\ saved' = FALSE
  /\ UNCHANGED <<note, mounted, written>>

\* Input: a character.
InputChar(c) ==
  /\ cursor < NoteMax
  /\ buffer' = [buffer EXCEPT ![cursor] = c, ![cursor + 1] = NoteNUL]
  /\ cursor' = cursor + 1
  /\ saved' = FALSE
  /\ UNCHANGED <<note, mounted, written>>

\* Input: a key without a character, Backspace at the start, a full buffer.
InputIgnored ==
  /\ saved' = FALSE
  /\ UNCHANGED <<buffer, cursor, note, mounted, written>>

\* Save, with or without a disk.
Save(useEXT2) ==
  /\ written' = (useEXT2 /\ mounted)
  /\ note' = IF written' THEN [k \in 1..cursor |-> buffer[k - 1]] ELSE note
  /\ saved' = TRUE
  /\ UNCHANGED <<buffer, cursor, mounted>>

NotepadNext ==
  \/ InputBackspace
  \/ InputEnter
  \/ \E c \in NoteChars : InputChar(c)
  \/ InputIgnored
  \/ \E use \in BOOLEAN : Save(use)

-----------------------------------------------------------------------------

\* What Draw shows: the buffer up to its first NUL.
ShownNote ==
  LET len == CHOOSE n \in DOMAIN buffer :
               buffer[n] = NoteNUL /\ \A m \in 0..(n - 1) : buffer[m] # NoteNUL
  IN  [k \in 1..len |-> buffer[k - 1]]

\* "Notepad - Saved!" means that the disk holds the text the window shows, if
\* there was a disk to write to: no key after the save left the mark on, and
\* the cursor, which Save goes by, is at the NUL, which Draw goes by, although
\* Enter does not set one (programs.cpp:265-292, 308).
SavedIsShown == saved /\ written => note = ShownNote

=============================================================================
