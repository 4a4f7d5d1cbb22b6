------------------------------ MODULE Programs ------------------------------
(***************************************************************************)
(* The two programs of src/programs.cpp behind their menu: one runs at a   *)
(* time, from its Init, and only note.txt outlives it.  The loop that      *)
(* calls them is not in the repository; AppState (programs.h) and the      *)
(* menu's text say what it does.                                           *)
(***************************************************************************)
EXTENDS Snake, Notepad

VARIABLE app   \* AppState

ProgramsInit ==
  /\ SnakeInit
  /\ NotepadInit
  /\ app = "APP_DESKTOP"

\* Snake::Init; the Notepad's buffer is not read before its own Init.
LaunchSnake ==
  /\ app # "APP_SNAKE" /\ app' = "APP_SNAKE"
  /\ snake' = Fresh /\ direction' = 0 /\ score' = 0
  /\ gameOver' = FALSE /\ frameCounter' = 0
  /\ apple' \in AppleCells
  /\ Emptied
  /\ UNCHANGED <<note, mounted>>

\* Notepad::Init; the game is not read before its own Init.
LaunchNotepad ==
  /\ app # "APP_NOTEPAD" /\ app' = "APP_NOTEPAD"
  /\ Emptied
  /\ UNCHANGED <<note, mounted>>
  /\ snake' = Fresh /\ direction' = 0 /\ score' = 0
  /\ gameOver' = FALSE /\ frameCounter' = 0
  /\ UNCHANGED apple

RunSnake == app = "APP_SNAKE" /\ SnakeNext /\ UNCHANGED <<app, notepad_vars>>

RunNotepad == app = "APP_NOTEPAD" /\ NotepadNext /\ UNCHANGED <<app, snake_vars>>

ProgramsNext == LaunchSnake \/ LaunchNotepad \/ RunSnake \/ RunNotepad

ProgramsSpec == ProgramsInit /\ [][ProgramsNext]_<<app, snake_vars, notepad_vars>>

=============================================================================
