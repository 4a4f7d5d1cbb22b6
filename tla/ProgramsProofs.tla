--------------------------- MODULE ProgramsProofs ---------------------------
(***************************************************************************)
(* Proofs about programs: what a program reads with system call 3, for any *)
(* number of key presses and any interleaving of the keyboard interrupt    *)
(* with GetChar; and what the two programs of src/programs.cpp keep, for   *)
(* every grid, every size of their arrays and every alphabet.              *)
(***************************************************************************)
EXTENDS KeyRead, Programs, TLAPS

-----------------------------------------------------------------------------
(* System call 3.                                                          *)

\* At boot no key is held and none has been read.
LEMMA KeyInit == Init => KeyInv
  BY DEF Init, KeyInv, TypeOK, InOrder

\* One case per action of the program and of the hardware.
LEMMA KeyStep == KeyInv /\ [Next]_vars => KeyInv'
<1> SUFFICES ASSUME KeyInv, [Next]_vars PROVE KeyInv'
  OBVIOUS
<1> USE DEF KeyInv, TypeOK, InOrder
<1>1. CASE Press
  BY <1>1 DEF Press
<1>2. CASE KeyboardIRQ
  <2>1. PICK ascii \in {0, handled + 1} :
          lastKey' = IF ascii # 0 THEN ascii ELSE lastKey
    BY <1>2 DEF KeyboardIRQ, ScancodeToAscii
  <2>2. CASE ascii # 0
    BY <1>2, <2>1, <2>2 DEF KeyboardIRQ
  <2>3. CASE ascii = 0
    BY <1>2, <2>1, <2>3 DEF KeyboardIRQ
  <2> QED BY <2>2, <2>3
<1>3. CASE Enter
  BY <1>3 DEF Enter
<1>4. CASE Sti
  BY <1>4 DEF Sti
<1>5. CASE Load
  BY <1>5 DEF Load
<1>6. CASE Clear
  BY <1>6 DEF Clear
<1>7. CASE Test
  BY <1>7 DEF Test
<1>8. CASE Cli
  <2> DEFINE n == Len(delivered)
  <2>1. /\ n \in Nat /\ DOMAIN delivered = 1..n
        /\ delivered' \in Seq(Nat) /\ DOMAIN delivered' = 1..(n + 1)
        /\ delivered'[n + 1] = c
        /\ \A i \in 1..n : delivered'[i] = delivered[i]
    BY <1>8 DEF Cli
  <2> HIDE DEF n
  <2>2. \A i \in DOMAIN delivered' : i \in 1..n \/ i = n + 1
    BY <2>1
  <2>3. /\ pc' = "iret" /\ lastKey' = lastKey /\ c' = c /\ c # 0
        /\ handled' = handled
    BY <1>8 DEF Cli
  <2>4. InOrder'
    <3> SUFFICES ASSUME NEW i \in DOMAIN delivered',
                        NEW j \in DOMAIN delivered', i < j
                 PROVE  delivered'[i] < delivered'[j]
      OBVIOUS
    <3>1. i \in 1..n /\ (j \in 1..n \/ j = n + 1)
      BY <2>1, <2>2
    <3>2. CASE j \in 1..n
      BY <2>1, <3>1, <3>2
    <3>3. CASE j = n + 1
      BY <1>8, <2>1, <3>1, <3>3 DEF Cli
    <3> QED BY <3>1, <3>2, <3>3
  <2>5. \A i \in DOMAIN delivered' :
          0 < delivered'[i] /\ delivered'[i] <= handled'
    BY <2>1, <2>2, <2>3
  <2>6. lastKey' # 0 =>
          \A i \in DOMAIN delivered' : delivered'[i] < lastKey'
    BY <1>8, <2>1, <2>2, <2>3 DEF Cli
  <2> QED BY <1>8, <2>1, <2>3, <2>4, <2>5, <2>6 DEF Cli
<1>9. CASE Iret
  BY <1>9 DEF Iret
<1>10. CASE UNCHANGED vars
  BY <1>10 DEF vars
<1> QED BY <1>1, <1>2, <1>3, <1>4, <1>5, <1>6, <1>7, <1>8, <1>9, <1>10
        DEF Next, Kernel

\* The inductive invariant holds in every reachable state.
THEOREM KeyInvariant == Spec => []KeyInv
  BY KeyInit, KeyStep, PTL DEF Spec

\* Keys are read at most once each, in the order they were pressed.
THEOREM KeysInOrder == Spec => []InOrder
<1>1. KeyInv => InOrder
  BY DEF KeyInv
<1> QED BY <1>1, KeyInvariant, PTL

-----------------------------------------------------------------------------
(* Notepad.                                                                *)

\* What Save writes: the buffer up to the cursor.
TextBefore == [k \in 1..cursor |-> buffer[k - 1]]

\* The characters end at the cursor, also after Enter, because nothing but
\* NULs lies behind it; and a save that is still announced is up to date.
NoteOK ==
  /\ cursor \in 0..NoteMax
  /\ DOMAIN buffer = 0..(BufferSize - 1)
  /\ \A m \in 0..(BufferSize - 1) : (buffer[m] = NoteNUL) <=> (cursor <= m)
  /\ saved /\ written => note = TextBefore

\* The sizes of the buffer and the characters keys type.
LEMMA NoteFacts ==
  /\ BufferSize \in Nat /\ NoteMax \in Nat /\ NoteMax < BufferSize
  /\ \A x \in NoteChars : x # NoteNUL
  /\ "\n" # NoteNUL
  BY NotepadAssumption

\* An empty note.
LEMMA NoteEmpty ==
  /\ NotepadInit => NoteOK
  /\ Emptied => NoteOK'
<1>1. ASSUME NotepadInit PROVE NoteOK
  BY <1>1, NoteFacts DEF NotepadInit, NoteOK
<1>2. ASSUME Emptied PROVE NoteOK'
  BY <1>2, NoteFacts DEF Emptied, NoteOK
<1> QED BY <1>1, <1>2

\* A step of another program.
LEMMA NoteSame == NoteOK /\ UNCHANGED notepad_vars => NoteOK'
  BY DEF NoteOK, TextBefore, notepad_vars

\* Every key and every save.
LEMMA NoteStep == NoteOK /\ NotepadNext => NoteOK'
<1> SUFFICES ASSUME NoteOK, NotepadNext PROVE NoteOK'
  OBVIOUS
<1> USE NoteFacts
<1>0. /\ cursor \in Nat /\ cursor <= NoteMax
      /\ DOMAIN buffer = 0..(BufferSize - 1)
      /\ \A m \in 0..(BufferSize - 1) : (buffer[m] = NoteNUL) <=> (cursor <= m)
  BY DEF NoteOK
<1>1. CASE InputBackspace
  <2>1. /\ cursor > 0 /\ cursor' = cursor - 1 /\ ~saved'
        /\ buffer' = [buffer EXCEPT ![cursor - 1] = NoteNUL]
    BY <1>1 DEF InputBackspace, Rubbed
  <2> QED BY <1>0, <2>1 DEF NoteOK
<1>2. CASE InputEnter
  <2> DEFINE x == "\n"
  <2>1. /\ cursor < NoteMax /\ cursor' = cursor + 1 /\ ~saved'
        /\ buffer' = [buffer EXCEPT ![cursor] = x] /\ x # NoteNUL
    BY <1>2 DEF InputEnter
  <2> HIDE DEF x
  <2> QED BY <1>0, <2>1 DEF NoteOK
<1>3. ASSUME NEW x \in NoteChars, InputChar(x) PROVE NoteOK'
  <2>1. /\ cursor < NoteMax /\ cursor' = cursor + 1 /\ ~saved' /\ x # NoteNUL
        /\ buffer' = [buffer EXCEPT ![cursor] = x, ![cursor + 1] = NoteNUL]
    BY <1>3 DEF InputChar
  <2> QED BY <1>0, <2>1 DEF NoteOK
<1>4. CASE InputIgnored
  BY <1>0, <1>4 DEF InputIgnored, NoteOK
<1>5. ASSUME NEW use \in BOOLEAN, Save(use) PROVE NoteOK'
  <2>1. /\ buffer' = buffer /\ cursor' = cursor
        /\ note' = IF written' THEN TextBefore ELSE note
    BY <1>5 DEF Save, TextBefore
  <2>2. TextBefore' = TextBefore
    BY <2>1 DEF TextBefore
  <2> QED BY <1>0, <2>1, <2>2 DEF NoteOK
<1> QED BY <1>1, <1>2, <1>3, <1>4, <1>5, Zenon DEF NotepadNext

\* What Draw shows is what Save writes.
LEMMA ShownIsBefore == NoteOK => ShownNote = TextBefore
<1> SUFFICES ASSUME NoteOK PROVE ShownNote = TextBefore
  OBVIOUS
<1> USE NoteFacts
<1> DEFINE End(n) == buffer[n] = NoteNUL /\ \A m \in 0..(n - 1) : buffer[m] # NoteNUL
           len == CHOOSE n \in DOMAIN buffer : End(n)
<1>0. /\ cursor \in Nat /\ cursor <= NoteMax
      /\ DOMAIN buffer = 0..(BufferSize - 1)
      /\ \A m \in 0..(BufferSize - 1) : (buffer[m] = NoteNUL) <=> (cursor <= m)
  BY DEF NoteOK
<1>1. cursor \in DOMAIN buffer /\ End(cursor)
  BY <1>0
<1>2. ASSUME NEW n \in DOMAIN buffer, End(n) PROVE n = cursor
  BY <1>0, <1>2
<1>3. len \in DOMAIN buffer /\ End(len)
  <2> HIDE DEF End
  <2> QED BY <1>1
<1>4. ShownNote = [k \in 1..len |-> buffer[k - 1]]
  BY DEF ShownNote
<1> HIDE DEF len, End
<1>5. len = cursor
  BY <1>2, <1>3
<1> QED BY <1>4, <1>5 DEF TextBefore

\* Whatever the programs do, "Saved!" means that the disk holds the note that
\* the window shows (programs.cpp:265-292, 308).
THEOREM SavedIsShownHolds == ProgramsSpec => []SavedIsShown
<1>1. ProgramsInit => NoteOK
  BY NoteEmpty DEF ProgramsInit
<1>2. NoteOK /\ [ProgramsNext]_<<app, snake_vars, notepad_vars>> => NoteOK'
  <2> SUFFICES ASSUME NoteOK, [ProgramsNext]_<<app, snake_vars, notepad_vars>>
               PROVE  NoteOK'
    OBVIOUS
  <2>1. CASE LaunchSnake \/ LaunchNotepad
    BY <2>1, NoteEmpty DEF LaunchSnake, LaunchNotepad
  <2>2. CASE RunNotepad
    BY <2>2, NoteStep DEF RunNotepad
  <2>3. CASE RunSnake \/ UNCHANGED <<app, snake_vars, notepad_vars>>
    BY <2>3, NoteSame DEF RunSnake
  <2> QED BY <2>1, <2>2, <2>3 DEF ProgramsNext
<1>3. NoteOK => SavedIsShown
  BY ShownIsBefore DEF NoteOK, SavedIsShown
<1> QED BY <1>1, <1>2, <1>3, PTL DEF ProgramsSpec

-----------------------------------------------------------------------------
(* Snake.                                                                  *)

Touching(p, q) ==
  \E d \in {<<0, 1>>, <<0, -1>>, <<1, 0>>, <<-1, 0>>} :
    p = <<q[1] + d[1], q[2] + d[2]>>

\* A body of n cells: no two are the same, and each touches the one before.
BodyOf(b, n) ==
  /\ b \in Seq(Cell) /\ Len(b) = n
  /\ \A i, j \in 1..n : b[i] = b[j] => i = j
  /\ \A i \in 2..n : Touching(b[i], b[i - 1])

\* The length that goes with a score of 10 * k.
Length(k) == IF k + 3 < MAX_LENGTH THEN k + 3 ELSE MAX_LENGTH - 1

\* The body, its length and the direction that the next move takes.
SnakeOK ==
  /\ direction \in 0..3
  /\ \E k \in Nat : score = 10 * k /\ BodyOf(snake, Length(k))

\* The sizes of the grid and of the arrays.
LEMMA GridFacts ==
  /\ gridW \in Nat /\ gridW >= 3 /\ gridH \in Nat /\ gridH >= 6
  /\ MAX_LENGTH \in Nat /\ MAX_LENGTH >= 4
  BY SnakeAssumption

\* The cells are pairs of coordinates.
LEMMA CellPair ==
  ASSUME NEW x \in Int, NEW y \in Int
  PROVE  /\ <<x, y>> \in Cell <=> (0 <= x /\ x <= gridW - 1 /\ 0 <= y /\ y <= gridH - 1)
         /\ <<x, y>>[1] = x /\ <<x, y>>[2] = y
  BY GridFacts DEF Cell

\* Two cells that share an edge.
LEMMA TouchingPair ==
  ASSUME NEW x \in Int, NEW y \in Int, NEW u \in Int, NEW v \in Int,
         (u = x /\ (v = y + 1 \/ v = y - 1)) \/ (v = y /\ (u = x + 1 \/ u = x - 1))
  PROVE  Touching(<<u, v>>, <<x, y>>)
<1>1. CASE u = x /\ v = y + 1
  <2>1. <<u, v>> = <<<<x, y>>[1] + <<0, 1>>[1], <<x, y>>[2] + <<0, 1>>[2]>>
    BY <1>1
  <2> QED BY <2>1 DEF Touching
<1>2. CASE u = x /\ v = y - 1
  <2>1. <<u, v>> = <<<<x, y>>[1] + <<0, -1>>[1], <<x, y>>[2] + <<0, -1>>[2]>>
    BY <1>2
  <2> QED BY <2>1 DEF Touching
<1>3. CASE v = y /\ u = x + 1
  <2>1. <<u, v>> = <<<<x, y>>[1] + <<1, 0>>[1], <<x, y>>[2] + <<1, 0>>[2]>>
    BY <1>3
  <2> QED BY <2>1 DEF Touching
<1>4. CASE v = y /\ u = x - 1
  <2>1. <<u, v>> = <<<<x, y>>[1] + <<-1, 0>>[1], <<x, y>>[2] + <<-1, 0>>[2]>>
    BY <1>4
  <2> QED BY <2>1 DEF Touching
<1> QED BY <1>1, <1>2, <1>3, <1>4

\* The snake in the middle of the grid.
LEMMA FreshOK == BodyOf(Fresh, Length(0))
<1> DEFINE a == gridW \div 2
           e == gridH \div 2
<1>1. /\ a \in Nat /\ a <= gridW - 1 /\ e \in Nat /\ e + 2 <= gridH - 1
  BY GridFacts
<1>2. Fresh = [i \in 1..3 |-> <<a, e + i - 1>>]
  BY DEF Fresh
<1>3. Length(0) = 3
  BY GridFacts DEF Length
<1> HIDE DEF a, e
<1>4. \A i \in 1..3 : Fresh[i] = <<a, e + i - 1>> /\ e + i - 1 \in Int
  BY <1>1, <1>2
<1>5. \A i \in 1..3 : Fresh[i] \in Cell
  <2> SUFFICES ASSUME NEW i \in 1..3 PROVE Fresh[i] \in Cell
    OBVIOUS
  <2>1. e + i - 1 \in Int /\ 0 <= e + i - 1 /\ e + i - 1 <= gridH - 1 /\ a \in Int
    BY <1>1, GridFacts
  <2>2. <<a, e + i - 1>> \in Cell
    BY <1>1, <2>1, CellPair
  <2> QED BY <1>4, <2>2
<1>6. Fresh \in Seq(Cell) /\ Len(Fresh) = 3
  <2> DEFINE n == 3
  <2>1. Fresh \in [1..n -> Cell] /\ n \in Nat
    BY <1>2, <1>5
  <2> HIDE DEF n
  <2>2. Fresh \in Seq(Cell) /\ Len(Fresh) = n
    BY <2>1
  <2> QED BY <2>2 DEF n
<1>7. ASSUME NEW i \in 1..3, NEW j \in 1..3, Fresh[i] = Fresh[j] PROVE i = j
  <2>1. <<a, e + i - 1>> = <<a, e + j - 1>>
    BY <1>4, <1>7
  <2>2. e + i - 1 = e + j - 1
    BY <2>1
  <2> QED BY <1>1, <2>2
<1>8. ASSUME NEW i \in 2..3 PROVE Touching(Fresh[i], Fresh[i - 1])
  <2>1. Fresh[i] = <<a, e + i - 1>> /\ Fresh[i - 1] = <<a, e + (i - 1) - 1>>
    BY <1>4
  <2>2. e + i - 1 = (e + (i - 1) - 1) + 1 /\ e + i - 1 \in Int /\ e + (i - 1) - 1 \in Int /\ a \in Int
    BY <1>1
  <2>3. Touching(<<a, e + i - 1>>, <<a, e + (i - 1) - 1>>)
    BY <2>2, TouchingPair
  <2> QED BY <2>1, <2>3
<1> QED BY <1>3, <1>6, <1>7, <1>8 DEF BodyOf

\* A new game.
LEMMA SnakeFresh ==
  /\ SnakeInit => SnakeOK
  /\ snake' = Fresh /\ direction' = 0 /\ score' = 0 => SnakeOK'
<1>1. 0 \in Nat /\ 0 = 10 * 0 /\ 0 \in 0..3
  OBVIOUS
<1>2. ASSUME SnakeInit PROVE SnakeOK
  BY <1>1, <1>2, FreshOK DEF SnakeInit, SnakeOK
<1>3. ASSUME snake' = Fresh /\ direction' = 0 /\ score' = 0 PROVE SnakeOK'
  <2>1. BodyOf(snake', Length(0))
    BY <1>3, FreshOK
  <2>2. score' = 10 * 0 /\ direction' \in 0..3
    BY <1>3
  <2> QED BY <2>1, <2>2 DEF SnakeOK, BodyOf
<1> QED BY <1>2, <1>3

\* The cell ahead of the head touches it, from both sides.
LEMMA AheadTouches ==
  ASSUME NEW dir \in 0..3, snake[1] \in Cell
  PROVE  Touching(snake[1], Ahead(dir))
<1>1. PICK x \in 0..(gridW - 1), y \in 0..(gridH - 1) : snake[1] = <<x, y>>
  BY DEF Cell
<1>2. x \in Int /\ y \in Int /\ snake[1][1] = x /\ snake[1][2] = y
  BY <1>1, GridFacts
<1>3. CASE dir = 0
  <2>1. Ahead(dir) = <<x, y - 1>>
    BY <1>2, <1>3 DEF Ahead
  <2>2. y - 1 \in Int /\ y = (y - 1) + 1
    BY <1>2
  <2> QED BY <1>1, <1>2, <2>1, <2>2, TouchingPair
<1>4. CASE dir = 1
  <2>1. Ahead(dir) = <<x + 1, y>>
    BY <1>2, <1>4 DEF Ahead
  <2>2. x + 1 \in Int /\ x = (x + 1) - 1
    BY <1>2
  <2> QED BY <1>1, <1>2, <2>1, <2>2, TouchingPair
<1>5. CASE dir = 2
  <2>1. Ahead(dir) = <<x, y + 1>>
    BY <1>2, <1>5 DEF Ahead
  <2>2. y + 1 \in Int /\ y = (y + 1) - 1
    BY <1>2
  <2> QED BY <1>1, <1>2, <2>1, <2>2, TouchingPair
<1>6. CASE dir = 3
  <2>1. Ahead(dir) = <<x - 1, y>>
    BY <1>2, <1>6 DEF Ahead
  <2>2. x - 1 \in Int /\ x = (x - 1) + 1
    BY <1>2
  <2> QED BY <1>1, <1>2, <2>1, <2>2, TouchingPair
<1> QED BY <1>3, <1>4, <1>5, <1>6

\* The body that has followed its head into a free cell is one again.
LEMMA MovedOK ==
  ASSUME NEW n \in Nat, n >= 3, BodyOf(snake, n), NEW m \in {n, n + 1},
         NEW dir \in 0..3, ~Hits(Ahead(dir))
  PROVE  BodyOf(Moved(Ahead(dir), m), m)
<1> DEFINE a == Ahead(dir)
           b == Moved(a, m)
<1>1. /\ snake \in Seq(Cell) /\ Len(snake) = n /\ DOMAIN snake = 1..n
      /\ \A i \in 1..n : snake[i] \in Cell
      /\ \A i, j \in 1..n : snake[i] = snake[j] => i = j
      /\ \A i \in 2..n : Touching(snake[i], snake[i - 1])
  BY DEF BodyOf
<1>2. a \in Cell /\ \A i \in 1..n : snake[i] # a
  BY <1>1 DEF Hits
<1>3. Touching(snake[1], a)
  BY <1>1, AheadTouches
<1>4. b = [i \in 1..m |-> IF i = 1 THEN a ELSE snake[i - 1]]
  BY DEF Moved
<1> HIDE DEF a, b
<1>5. m \in Nat /\ m >= 3 /\ m <= n + 1
  OBVIOUS
<1>6. b[1] = a /\ \A i \in 2..m : b[i] = snake[i - 1] /\ i - 1 \in 1..n
  BY <1>4, <1>5
<1>7. b \in Seq(Cell) /\ Len(b) = m
  <2>1. b \in [1..m -> Cell]
    BY <1>1, <1>2, <1>4, <1>5
  <2>2. b \in Seq(Cell)
    BY <1>5, <2>1
  <2> QED BY <1>5, <2>1, <2>2
<1>8. ASSUME NEW i \in 1..m, NEW j \in 1..m, b[i] = b[j] PROVE i = j
  <2>1. CASE i = 1 /\ j = 1
    BY <2>1
  <2>2. CASE i = 1 /\ j \in 2..m
    BY <1>2, <1>6, <1>8, <2>2
  <2>3. CASE i \in 2..m /\ j = 1
    BY <1>2, <1>6, <1>8, <2>3
  <2>4. CASE i \in 2..m /\ j \in 2..m
    BY <1>1, <1>5, <1>6, <1>8, <2>4
  <2> QED BY <1>5, <2>1, <2>2, <2>3, <2>4
<1>9. ASSUME NEW i \in 2..m PROVE Touching(b[i], b[i - 1])
  <2>1. CASE i = 2
    BY <1>3, <1>5, <1>6, <2>1
  <2>2. CASE i \in 3..m
    <3>1. i - 1 \in 2..m /\ i - 1 \in 2..n /\ (i - 1) - 1 \in 1..n
      BY <1>5, <2>2
    <3>2. b[i] = snake[i - 1] /\ b[i - 1] = snake[(i - 1) - 1]
      BY <1>6, <3>1
    <3> QED BY <1>1, <3>1, <3>2
  <2> QED BY <1>5, <2>1, <2>2
<1>10. BodyOf(b, m)
  BY <1>7, <1>8, <1>9 DEF BodyOf
<1> QED BY <1>10 DEF a, b

\* Every frame of the game.
LEMMA SnakeStep == SnakeOK /\ SnakeNext => SnakeOK'
<1> SUFFICES ASSUME SnakeOK, SnakeNext PROVE SnakeOK'
  OBVIOUS
<1>0. PICK k \in Nat : score = 10 * k /\ BodyOf(snake, Length(k))
  BY DEF SnakeOK
<1>1. CASE Restart
  BY <1>1, SnakeFresh DEF Restart
<1>2. CASE Update
  <2>1. PICK dir \in {Turned(w) : w \in 0..3} \cup {direction} : Wait(dir) \/ Move(dir)
    BY <1>2 DEF Update
  <2>2. dir \in 0..3
    BY <2>1 DEF Turned, SnakeOK
  <2>3. ASSUME snake' = snake, score' = score, direction' = dir PROVE SnakeOK'
    BY <1>0, <2>2, <2>3 DEF SnakeOK, BodyOf
  <2>4. CASE Wait(dir)
    BY <2>3, <2>4 DEF Wait
  <2>5. CASE Move(dir) /\ Hits(Ahead(dir)) /\ UNCHANGED <<snake, score>>
    BY <2>3, <2>5 DEF Move
  <2>6. ASSUME Move(dir), ~Hits(Ahead(dir)), Ahead(dir) = apple,
               snake' = Moved(Ahead(dir), Longer(Len(snake))), score' = score + 10
        PROVE  SnakeOK'
    <3>1. /\ Length(k) \in Nat /\ Length(k) >= 3 /\ Len(snake) = Length(k)
          /\ Longer(Length(k)) \in {Length(k), Length(k) + 1}
          /\ Longer(Length(k)) = Length(k + 1)
      BY <1>0, GridFacts DEF Length, Longer, BodyOf
    <3>2. BodyOf(snake', Length(k + 1))
      BY <1>0, <2>2, <2>6, <3>1, MovedOK
    <3>3. score' = 10 * (k + 1) /\ k + 1 \in Nat /\ direction' \in 0..3
      BY <1>0, <2>2, <2>6 DEF Move
    <3> QED BY <3>2, <3>3 DEF SnakeOK, BodyOf
  <2>7. ASSUME Move(dir), ~Hits(Ahead(dir)),
               snake' = Moved(Ahead(dir), Len(snake)), score' = score
        PROVE  SnakeOK'
    <3>1. Length(k) \in Nat /\ Length(k) >= 3 /\ Len(snake) = Length(k)
      BY <1>0, GridFacts DEF Length, BodyOf
    <3>2. BodyOf(snake', Length(k))
      BY <1>0, <2>2, <2>7, <3>1, MovedOK
    <3>3. direction' \in 0..3
      BY <2>2, <2>7 DEF Move
    <3> QED BY <1>0, <2>7, <3>2, <3>3 DEF SnakeOK, BodyOf
  <2>8. CASE Move(dir)
    <3>1. \/ Hits(Ahead(dir)) /\ UNCHANGED <<snake, score>>
          \/ /\ ~Hits(Ahead(dir)) /\ Ahead(dir) = apple
             /\ snake' = Moved(Ahead(dir), Longer(Len(snake))) /\ score' = score + 10
          \/ /\ ~Hits(Ahead(dir))
             /\ snake' = Moved(Ahead(dir), Len(snake)) /\ score' = score
      BY <2>8, Zenon DEF Move
    <3> QED BY <2>5, <2>6, <2>7, <2>8, <3>1
  <2> QED BY <2>1, <2>4, <2>8
<1> QED BY <1>1, <1>2 DEF SnakeNext

\* The snake's cells, turns and length in every state of the programs.
THEOREM SnakeOKHolds == ProgramsSpec => []SnakeOK
<1>1. ProgramsInit => SnakeOK
  BY SnakeFresh DEF ProgramsInit
<1>2. SnakeOK /\ [ProgramsNext]_<<app, snake_vars, notepad_vars>> => SnakeOK'
  <2> SUFFICES ASSUME SnakeOK, [ProgramsNext]_<<app, snake_vars, notepad_vars>>
               PROVE  SnakeOK'
    OBVIOUS
  <2>1. CASE LaunchSnake \/ LaunchNotepad
    BY <2>1, SnakeFresh DEF LaunchSnake, LaunchNotepad
  <2>2. CASE RunSnake
    BY <2>2, SnakeStep DEF RunSnake
  <2>3. CASE RunNotepad \/ UNCHANGED <<app, snake_vars, notepad_vars>>
    BY <2>3 DEF RunNotepad, snake_vars, SnakeOK, BodyOf
  <2> QED BY <2>1, <2>2, <2>3 DEF ProgramsNext
<1> QED BY <1>1, <1>2, PTL DEF ProgramsSpec

\* The drawn snake is one body on the grid, for every grid and every length
\* of the arrays (Update, programs.cpp:137-196).
THEOREM SnakeBodyHolds == ProgramsSpec => []SnakeBody
<1>1. SnakeOK => SnakeBody
  <2> SUFFICES ASSUME SnakeOK PROVE SnakeBody
    OBVIOUS
  <2>0. PICK k \in Nat : score = 10 * k /\ BodyOf(snake, Length(k))
    BY DEF SnakeOK
  <2> DEFINE n == Length(k)
  <2>1. n \in 3..(MAX_LENGTH - 1)
    BY GridFacts DEF Length
  <2>2. /\ Len(snake) = n /\ DOMAIN snake = 1..n
        /\ \A i \in 1..n : snake[i] \in Cell
        /\ \A i, j \in 1..n : snake[i] = snake[j] => i = j
        /\ \A i \in 2..n : Touching(snake[i], snake[i - 1])
    BY <2>0 DEF BodyOf
  <2> HIDE DEF n
  <2>3. ASSUME NEW i \in DOMAIN snake
        PROVE  /\ snake[i] \in Cell
               /\ \A j \in 1..(i - 1) : snake[i] # snake[j]
               /\ i > 1 => Touching(snake[i], snake[i - 1])
    <3>1. i \in 1..n /\ n \in Nat
      BY <2>1, <2>2, GridFacts
    <3>2. \A j \in 1..(i - 1) : j \in 1..n /\ i # j
      BY <3>1
    <3>3. i > 1 => i \in 2..n
      BY <3>1
    <3> QED BY <2>2, <3>1, <3>2, <3>3
  <2>4. Len(snake) \in 3..(MAX_LENGTH - 1)
    BY <2>1, <2>2
  <2> QED BY <2>3, <2>4, Zenon DEF SnakeBody, Touching
<1> QED BY <1>1, SnakeOKHolds, PTL

\* Ten points are one cell until the arrays are full (programs.cpp:184-185).
THEOREM ScoreTellsLengthHolds == ProgramsSpec => []ScoreTellsLength
<1>1. SnakeOK => ScoreTellsLength
  <2> SUFFICES ASSUME SnakeOK PROVE ScoreTellsLength
    OBVIOUS
  <2>0. PICK k \in Nat : score = 10 * k /\ BodyOf(snake, Length(k))
    BY DEF SnakeOK
  <2>1. score \div 10 = k /\ score % 10 = 0
    BY <2>0
  <2>2. Len(snake) = Length(k)
    BY <2>0 DEF BodyOf
  <2> QED BY <2>1, <2>2 DEF ScoreTellsLength, Length
<1> QED BY <1>1, SnakeOKHolds, PTL

=============================================================================
