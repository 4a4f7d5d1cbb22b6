------------------------------- MODULE Snake --------------------------------
(***************************************************************************)
(* The Snake game (src/programs.cpp).  Update is called once per frame     *)
(* with the scancode of the frame; the snake moves on every FrameMax-th    *)
(* call, and may be turned on each.  The pseudo-random place of an apple   *)
(* is any place of its range.                                              *)
(***************************************************************************)
EXTENDS Integers, Sequences

CONSTANTS
  gridW, gridH,   \* the screen in cells of GRID_SIZE
  MAX_LENGTH,     \* 100
  FrameMax,       \* 5
  MaxScore        \* bound: the score is an int that the code never limits

ASSUME SnakeAssumption ==
  /\ gridW \in Nat /\ gridW >= 3
  /\ gridH \in Nat /\ gridH >= 6
  /\ MAX_LENGTH \in Nat /\ MAX_LENGTH >= 4
  /\ FrameMax \in Nat \ {0}
  /\ MaxScore \in Nat

VARIABLES
  snake,          \* the first snakeLength cells of snakeX and snakeY, head first
  direction,      \* 0 = up, 1 = right, 2 = down, 3 = left
  apple,
  score,
  gameOver,
  frameCounter

snake_vars == <<snake, direction, apple, score, gameOver, frameCounter>>

Cell == (0..(gridW - 1)) \X (0..(gridH - 1))

\* PlaceApple: never in the outermost row or column, maybe on the snake.
AppleCells == (1..(gridW - 2)) \X (1..(gridH - 2))

\* The snake in the middle, head up.
Fresh == [i \in 1..3 |-> <<gridW \div 2, (gridH \div 2) + i - 1>>]

SnakeInit ==
  /\ snake = Fresh
  /\ direction = 0
  /\ score = 0
  /\ gameOver = FALSE
  /\ frameCounter = 0
  /\ apple \in AppleCells

\* Update when the game is over: Init again.
Restart ==
  /\ gameOver
  /\ snake' = Fresh
  /\ direction' = 0
  /\ score' = 0
  /\ gameOver' = FALSE
  /\ frameCounter' = 0
  /\ apple' \in AppleCells

\* The direction after a key asks for want: the opposite is refused.
Turned(want) == IF direction = (want + 2) % 4 THEN direction ELSE want

\* A frame without a move.
Wait(dir) ==
  /\ ~gameOver
  /\ frameCounter + 1 < FrameMax
  /\ direction' = dir
  /\ frameCounter' = frameCounter + 1
  /\ UNCHANGED <<snake, apple, score, gameOver>>

\* The cell in front of the head.
Ahead(dir) ==
  LET h == snake[1]
  IN  CASE dir = 0 -> <<h[1], h[2] - 1>>
        [] dir = 1 -> <<h[1] + 1, h[2]>>
        [] dir = 2 -> <<h[1], h[2] + 1>>
        [] dir = 3 -> <<h[1] - 1, h[2]>>

\* Mutant of Hits: the snake's own body is not tested.
HitsWall(c) == c \notin Cell

\* Wall or self collision; the tail counts although it is about to move.
Hits(c) == c \notin Cell \/ \E i \in DOMAIN snake : snake[i] = c

\* Mutant of Longer: no bound.
LongerAlways(n) == n + 1

\* The length after an apple.
Longer(n) == IF n < MAX_LENGTH - 1 THEN n + 1 ELSE n

\* The body follows the head: each cell takes its predecessor's place.
Moved(c, n) == [i \in 1..n |-> IF i = 1 THEN c ELSE snake[i - 1]]

\* A frame with a move.
Move(dir) ==
  /\ ~gameOver
  /\ frameCounter + 1 >= FrameMax
  /\ direction' = dir
  /\ frameCounter' = 0
  /\ LET c == Ahead(dir)
         ate == c = apple
     IN  \/ /\ Hits(c)
            /\ gameOver' = TRUE
            /\ UNCHANGED <<snake, apple, score>>
         \/ /\ ~Hits(c)
            /\ ate => score < MaxScore
            /\ snake' = Moved(c, IF ate THEN Longer(Len(snake)) ELSE Len(snake))
            /\ score' = IF ate THEN score + 10 ELSE score
            /\ IF ate THEN apple' \in AppleCells ELSE UNCHANGED apple
            /\ UNCHANGED gameOver

\* Update(scancode): a key that asks for a direction, or another one.
Update == \E dir \in {Turned(w) : w \in 0..3} \cup {direction} :
            Wait(dir) \/ Move(dir)

SnakeNext == Restart \/ Update

-----------------------------------------------------------------------------

\* The drawn snake is one: its cells are on the grid, no two are the same, and
\* each touches the one before it, after any turns between two moves (Update
\* lets two quick turns reverse it into itself) and wherever it grew.
SnakeBody ==
  /\ Len(snake) \in 3..(MAX_LENGTH - 1)
  /\ \A i \in DOMAIN snake :
       /\ snake[i] \in Cell
       /\ \A j \in 1..(i - 1) : snake[i] # snake[j]
       /\ i > 1 => \E d \in {<<0, 1>>, <<0, -1>>, <<1, 0>>, <<-1, 0>>} :
                     snake[i] = <<snake[i - 1][1] + d[1], snake[i - 1][2] + d[2]>>

\* The score tells the length: every ten points are one more cell, until the
\* arrays are full; from then on the score grows alone.
ScoreTellsLength ==
  LET eaten == score \div 10
  IN  /\ score % 10 = 0
      /\ Len(snake) = IF eaten + 3 < MAX_LENGTH THEN eaten + 3 ELSE MAX_LENGTH - 1

=============================================================================
