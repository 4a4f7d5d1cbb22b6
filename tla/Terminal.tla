------------------------------ MODULE Terminal ------------------------------
(***************************************************************************)
(* The terminal window (src/src/core/gui/TerminalWindow.cpp): the line     *)
(* being typed, the history, and the screen that echoes them.  OnKeyDown   *)
(* runs inside the keyboard interrupt, one key at a time, and calls itself *)
(* to erase and retype text: a key is one action, its nested calls folds.  *)
(*                                                                         *)
(* The editor takes the window over: Start and Quit of module Editor are   *)
(* a command's and a key's part, and what Render draws is the screen.      *)
(*                                                                         *)
(* Colours are left out.  The shell's commands are abstracted to what they *)
(* do to the window: print something, clear it, or start the editor.       *)
(***************************************************************************)
EXTENDS Editor

CONSTANTS
  InputSize,       \* 128, the size of input[] and of a history row
  InputMax,        \* 120, the longest line
  PrefixCap,       \* 63, the longest prefix TAB looks up
  MaxHist,         \* 10
  Keys,            \* the characters of ScancodeToAscii
  PromptText,      \* "root@fs:~$ "
  Banner,          \* what the constructor prints
  Outputs,         \* what commands print
  Commands,        \* the registered command names, in order
  FileNames,       \* names of files that may exist
  StatusText,      \* "[EDIT] Ctrl+S: Save | Ctrl+Q: Quit"
  ESC, Digits

\* A string is a sequence without NUL; a plain one moves the cursor by one
\* column per character.
IsString(str) == Len(str) \in Nat /\ \A k \in 1..Len(str) : str[k] # NUL
Plain(str) == IsString(str) /\ \A k \in 1..Len(str) : str[k] \notin {ESC, "\n"}

ASSUME TerminalAssumption ==
  /\ {InputMax, PrefixCap, MaxHist} \subseteq Nat \ {0}
  /\ InputSize \in Nat /\ InputMax < InputSize
  /\ Keys \cap {NUL, ESC, "\n"} = {} /\ NUL \notin {ESC, "\n"}
  /\ PromptText \in Seq(STRING) /\ Plain(PromptText) /\ Len(PromptText) > 0
  /\ PromptText[1] \notin Digits \cup {"[", "m", ";"}
  /\ DOMAIN Commands \subseteq Nat
  /\ \A k \in DOMAIN Commands : Plain(Commands[k])
  /\ \A str \in FileNames \cup Outputs \cup {Banner} : IsString(str)

VARIABLES
  line,         \* [input, input_len, input_cursor]
  screen,       \* [buffer, cursor_row, cursor_col, ansi_state]
  history,      \* the rows in use; history_count is its length
  history_idx,
  mode          \* "SHELL" or "EDITOR"

window_vars == <<line, screen, history, history_idx, mode>>

vars == <<line, screen, history, history_idx, mode, editor_vars>>

Row == 0..(TERM_H - 1)
Col == 0..(TERM_W - 1)

-----------------------------------------------------------------------------
(* The screen.                                                             *)

Screen(b, r, c, a) ==
  [buffer |-> b, cursor_row |-> r, cursor_col |-> c, ansi_state |-> a]

Blank == [c \in Col |-> NUL]

\* Clear()
Cleared == Screen([r \in Row |-> Blank], 0, 0, 0)

\* Scroll()
ScrollUp(b) == [r \in Row |-> IF r + 1 \in Row THEN b[r + 1] ELSE Blank]

\* Mutant of NewLine: scrolls a line too late.
NewLineLate(s) ==
  IF s.cursor_row + 1 > TERM_H
  THEN Screen(ScrollUp(s.buffer), s.cursor_row, 0, s.ansi_state)
  ELSE Screen(s.buffer, s.cursor_row + 1, 0, s.ansi_state)

\* cursor_row++, cursor_col = 0, and Scroll when the screen is full.
NewLine(s) ==
  IF s.cursor_row + 1 >= TERM_H
  THEN Screen(ScrollUp(s.buffer), s.cursor_row, 0, s.ansi_state)
  ELSE Screen(s.buffer, s.cursor_row + 1, 0, s.ansi_state)

\* The characters the escape parser consumes.
Swallowed(st, c) ==
  \/ st = 0 /\ c = ESC
  \/ st = 1 /\ c = "["
  \/ st = 2 /\ c \in Digits \cup {"m", ";"}

\* ansi_state after c; a stray character aborts the sequence.
AnsiNext(st, c) ==
  IF ~Swallowed(st, c) THEN 0
  ELSE IF c = ESC THEN 1 ELSE IF c = "m" THEN 0 ELSE 2

\* PutChar past the parser: a newline, or a cell after a wrap if needed.
Put(s, c) ==
  IF c = "\n" THEN NewLine(s)
  ELSE LET t == IF s.cursor_col >= TERM_W THEN NewLine(s) ELSE s
       IN  Screen([t.buffer EXCEPT ![t.cursor_row][t.cursor_col] = c],
                  t.cursor_row, t.cursor_col + 1, t.ansi_state)

PutChar(s, c) ==
  LET t == Screen(s.buffer, s.cursor_row, s.cursor_col,
                  AnsiNext(s.ansi_state, c))
  IN  IF Swallowed(s.ansi_state, c) THEN t ELSE Put(t, c)

PrintStr(s, str) ==
  LET after[k \in 0..Len(str)] ==
        IF k = 0 THEN s ELSE PutChar(after[k - 1], str[k])
  IN  after[Len(str)]

\* Mutant of RubOut: the cell keeps its character.
RubOutCursor(s) ==
  IF s.cursor_col = 0 THEN s
  ELSE Screen(s.buffer, s.cursor_row, s.cursor_col - 1, s.ansi_state)

\* Backspace on the screen: it does not go back over a wrap.
RubOut(s) ==
  IF s.cursor_col = 0 THEN s
  ELSE Screen([s.buffer EXCEPT ![s.cursor_row][s.cursor_col - 1] = NUL],
              s.cursor_row, s.cursor_col - 1, s.ansi_state)

-----------------------------------------------------------------------------
(* The line.                                                               *)

Line(i, n, c) == [input |-> i, input_len |-> n, input_cursor |-> c]

EmptyLine == Line([i \in 0..(InputSize - 1) |-> NUL], 0, 0)

\* Mutant of TypeChar: input_cursor stays behind.
TypeCharBehind(l, c) ==
  IF l.input_len >= InputMax THEN l
  ELSE Line([l.input EXCEPT ![l.input_len] = c], l.input_len + 1,
            l.input_cursor)

\* input[input_len++] = ascii; input_cursor++
TypeChar(l, c) ==
  IF l.input_len >= InputMax THEN l
  ELSE Line([l.input EXCEPT ![l.input_len] = c], l.input_len + 1,
            l.input_cursor + 1)

\* Backspace in the line: the characters after the cursor move left.
DropChar(l) ==
  Line([i \in DOMAIN l.input |->
          IF i = l.input_len - 1 THEN NUL
          ELSE IF i \in (l.input_cursor - 1)..(l.input_len - 2)
               THEN l.input[i + 1] ELSE l.input[i]],
       l.input_len - 1, l.input_cursor - 1)

\* A zero-terminated array as a sequence.
Text(i) ==
  LET n == CHOOSE n \in DOMAIN i : i[n] = NUL /\ \A m \in 0..(n - 1) : i[m] # NUL
  IN  [k \in 1..n |-> i[k - 1]]

-----------------------------------------------------------------------------
(* Keys, on the pair of line and screen.                                   *)

Both(l, s) == [line |-> l, screen |-> s]

\* OnKeyDown(0, c)
Typed(t, c) ==
  IF t.line.input_len >= InputMax THEN t
  ELSE Both(TypeChar(t.line, c), PutChar(t.screen, c))

\* OnKeyDown(0x0E, 0)
Backspaced(t) ==
  IF t.line.input_cursor > 0
  THEN Both(DropChar(t.line), RubOut(t.screen)) ELSE t

TypeAll(t, str) ==
  LET after[k \in 0..Len(str)] ==
        IF k = 0 THEN t ELSE Typed(after[k - 1], str[k])
  IN  after[Len(str)]

\* Mutant of Erase: one backspace too many.
EraseOneMore(t, n) ==
  LET after[k \in 0..(n + 1)] == IF k = 0 THEN t ELSE Backspaced(after[k - 1])
  IN  after[n + 1]

\* n backspaces.
Erase(t, n) ==
  LET after[k \in 0..n] == IF k = 0 THEN t ELSE Backspaced(after[k - 1])
  IN  after[n]

\* Mutant of EraseLine: the old text stays.
EraseLineNot(t) == t

\* while (input_len > 0) backspace, which ends because the cursor is at the
\* end of the line (LineInv).
EraseLine(t) == Erase(t, t.line.input_len)

\* Prompt()
Prompted(s) == Both(EmptyLine, PrintStr(s, PromptText))

Becomes(t) == line' = t.line /\ screen' = t.screen

Now == Both(line, screen)

-----------------------------------------------------------------------------
\* The constructor.
Init ==
  /\ EditorInit
  /\ LET t == Prompted(PrintStr(Cleared, Banner))
     IN  line = t.line /\ screen = t.screen
  /\ history = <<>>
  /\ history_idx = 0
  /\ mode = "SHELL"

InShell == mode = "SHELL"

KeyChar(c) ==
  /\ InShell
  /\ Becomes(Typed(Now, c))
  /\ UNCHANGED <<history, history_idx, mode>>

KeyBackspace ==
  /\ InShell
  /\ Becomes(Backspaced(Now))
  /\ UNCHANGED <<history, history_idx, mode>>

\* The text behind the last space of the line.
LastWord ==
  LET txt == SubSeq(Text(line.input), 1, line.input_len)
      spaces == {k \in DOMAIN txt : txt[k] = " "}
      start == CHOOSE k \in spaces \cup {0} : \A j \in spaces : j <= k
  IN  SubSeq(txt, start + 1, Len(txt))

\* What TAB looks up: at most PrefixCap characters, from the word's start.
Prefix == SubSeq(LastWord, 1, IF Len(LastWord) < PrefixCap
                              THEN Len(LastWord) ELSE PrefixCap)

\* GetAutocompleteSuggestion: the first command, else a file of the moment.
Suggestions(p) ==
  LET cmds == {k \in DOMAIN Commands : IsPrefix(p, Commands[k])}
  IN  IF cmds # {}
      THEN {Commands[CHOOSE k \in cmds : \A j \in cmds : k <= j]}
      ELSE {f \in FileNames : IsPrefix(p, f)}

\* TAB with a suggestion: the prefix is erased and the suggestion typed.
KeyTab ==
  /\ InShell
  /\ Prefix # <<>>
  /\ \E sug \in Suggestions(Prefix) :
       Becomes(TypeAll(Erase(Now, Len(Prefix)), sug))
  /\ UNCHANGED <<history, history_idx, mode>>

\* ARROW UP
KeyUp ==
  /\ InShell
  /\ history # <<>>
  /\ history_idx' = IF history_idx > 0 THEN history_idx - 1 ELSE 0
  /\ Becomes(TypeAll(EraseLine(Now), Text(history[history_idx' + 1])))
  /\ UNCHANGED <<history, mode>>

\* ARROW DOWN: below the newest entry the line is empty.
KeyDown ==
  /\ InShell
  /\ history_idx < Len(history)
  /\ history_idx' = history_idx + 1
  /\ Becomes(IF history_idx' < Len(history)
             THEN TypeAll(EraseLine(Now), Text(history[history_idx' + 1]))
             ELSE EraseLine(Now))
  /\ UNCHANGED <<history, mode>>

\* ENTER on an empty line.
EnterEmpty ==
  /\ InShell
  /\ line.input_len = 0
  /\ Becomes(Prompted(PutChar(screen, "\n")))
  /\ UNCHANGED <<history, history_idx, mode>>

\* Mutant of Remember: the oldest entry is kept, the newest dropped.
RememberOldest(h, i) ==
  IF Len(h) < MaxHist THEN Append(h, i) ELSE h

\* The history rows after line i was entered: the oldest goes.
Remember(h, i) ==
  IF Len(h) < MaxHist THEN Append(h, i) ELSE Append(Tail(h), i)

\* ENTER up to the shell's Execute.
Enter ==
  /\ InShell
  /\ line.input_len > 0
  /\ history' = Remember(history, line.input)
  /\ history_idx' = Len(history')

\* A command that prints.
EnterPrint(out) ==
  /\ Enter
  /\ Becomes(Prompted(PrintStr(PutChar(screen, "\n"), out)))
  /\ UNCHANGED mode

\* CmdClear
EnterClear ==
  /\ Enter
  /\ Becomes(Prompted(Cleared))
  /\ UNCHANGED mode

\* What Editor::Render leaves on the screen: the text, and over it the status
\* line in the last row.
Rendered(text, size, cur) ==
  LET d == Render(text, size, cur)
      At(r, c) == {p \in d.cells : p[1] = r /\ p[2] = c}
      Cell(r, c) == IF r = TERM_H - 1 /\ c < Len(StatusText)
                    THEN StatusText[c + 1]
                    ELSE IF At(r, c) = {} THEN NUL
                         ELSE (CHOOSE p \in At(r, c) : TRUE)[3]
  IN  Screen([r \in Row |-> [c \in Col |-> Cell(r, c)]], d.cy, d.cx, 0)

\* CmdEdit: the prompt is printed over the editor's screen.
EnterEdit(t) ==
  /\ Enter
  /\ mode' = "EDITOR"
  /\ Start(t)
  /\ Becomes(Prompted(Rendered(content', content_size', cursor_idx')))

\* Left and Up, Right and Down, at an end of the text; Ctrl+S.
Redraw == Opened /\ UNCHANGED editor_vars

\* A key of the editor.
EditorKey ==
  /\ mode = "EDITOR"
  /\ \/ Back
     \/ Forward
     \/ Redraw
     \/ Backspace
     \/ \E c \in Chars : Type(c)
  /\ screen' = Rendered(content', content_size', cursor_idx')
  /\ UNCHANGED <<line, history, history_idx, mode>>

\* Ctrl+Q
EditorQuit ==
  /\ mode = "EDITOR"
  /\ mode' = "SHELL"
  /\ Quit
  /\ Becomes(Prompted(Cleared))
  /\ UNCHANGED <<history, history_idx>>

\* A key of the shell that leaves the editor alone.
ShellKey ==
  \/ \E c \in Keys : KeyChar(c)
  \/ KeyBackspace
  \/ KeyTab
  \/ KeyUp
  \/ KeyDown
  \/ EnterEmpty
  \/ \E out \in Outputs : EnterPrint(out)
  \/ EnterClear

Next ==
  \/ ShellKey /\ UNCHANGED editor_vars
  \/ \E t \in Texts : EnterEdit(t)
  \/ EditorKey
  \/ EditorQuit

Spec == Init /\ [][Next]_vars

-----------------------------------------------------------------------------
\* The line is a zero-terminated string with the cursor at its end, after
\* any mix of typing, recall, completion and erasing.  The loops that erase
\* the line (TerminalWindow.cpp:196, 210) end only because of it, and
\* Shell::Execute and history read input[] up to its NUL.
LineInv ==
  /\ line.input_cursor = line.input_len
  /\ line.input_len \in 0..InputMax
  /\ \A i \in DOMAIN line.input : line.input[i] = NUL <=> i >= line.input_len

\* UP and DOWN never read a row that was never written.
HistoryInv ==
  /\ Len(history) <= MaxHist
  /\ history_idx \in 0..Len(history)
  /\ \A k \in DOMAIN history : Text(history[k]) # <<>>

\* Every cell PutChar writes exists, the column being at most one past the
\* row, also where the prompt follows what the editor rendered; and whatever
\* a command printed, a cut escape sequence included, the parser is at rest
\* when the user types.
ScreenInv ==
  /\ screen.cursor_row \in Row
  /\ screen.cursor_col \in 0..TERM_W
  /\ screen.ansi_state = 0

\* History and screen stay within their arrays, and the window is in editor
\* mode exactly while the editor has a buffer: keys reach a text that exists,
\* and meanwhile the line waits empty.
WindowInv ==
  /\ HistoryInv
  /\ ScreenInv
  /\ mode = (IF Opened THEN "EDITOR" ELSE "SHELL")
  /\ Opened => line = EmptyLine

\* What the line shows: prompt and text.
Shown == PromptText \o SubSeq(Text(line.input), 1, line.input_len)

\* The row with the cursor shows the end of what ENTER would execute, and
\* nothing behind it: erased text never looks as if it were still there.
EchoIsTail ==
  InShell =>
    LET row == screen.buffer[screen.cursor_row]
        col == screen.cursor_col
    IN  /\ \A k \in 1..col : k <= Len(Shown) =>
             row[col - k] = Shown[Len(Shown) + 1 - k]
        /\ \A c \in Col : c >= col => row[c] = NUL

\* After UP or DOWN the line is exactly the entry selected, or empty below
\* the newest: nothing of the old line stays, nothing of the entry is cut.
RecallFaithful ==
  [][history_idx' # history_idx /\ history' = history =>
       Text(line'.input) = IF history_idx' < Len(history)
                           THEN Text(history[history_idx' + 1])
                           ELSE <<>>]_vars

\* The newest entry is the last non-empty line entered, also when the
\* history is full: UP after a command always brings that command back.
NewestIsLast ==
  [][history' # history \/ (mode = "SHELL" /\ mode' = "EDITOR") =>
       /\ history'[Len(history')] = line.input
       /\ history_idx' = Len(history')]_vars

\* Completion only adds to the line: the prefix that TAB erases with nested
\* backspaces is the one the suggestion puts back (TerminalWindow.cpp:149-165),
\* for words that fit the prefix buffer.
CompletionExtends ==
  [][KeyTab /\ Len(LastWord) <= PrefixCap =>
       IsPrefix(Text(line.input), Text(line'.input))]_vars

=============================================================================
