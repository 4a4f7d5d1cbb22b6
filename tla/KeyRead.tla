------------------------------- MODULE KeyRead ------------------------------
(***************************************************************************)
(* A user program that reads the keyboard with system call 3, and the      *)
(* keyboard interrupt (src/src/core/interrupts.cpp, keyboard.cpp).  The    *)
(* two share one character, Keyboard::lastKey.  The system call turns      *)
(* interrupts on and polls GetChar, whose load and clear of lastKey are    *)
(* two instructions; the interrupt handler runs with interrupts off.       *)
(*                                                                         *)
(* A key press is named by its number, so a character read twice, or in    *)
(* the wrong order, shows.                                                 *)
(***************************************************************************)
EXTENDS Integers, Sequences

CONSTANT MaxKeys   \* bound on the number of key presses

ASSUME KeysAssumption == MaxKeys \in Nat

VARIABLES
  lastKey,    \* Keyboard::lastKey: 0, or the press it holds
  c,          \* the system call's local
  pc,         \* where the program is
  IF_flag,    \* the CPU's interrupt flag
  pressed,    \* presses made; the controller queues those not handled
  handled,    \* presses the interrupt handler has taken
  delivered   \* what the system calls have returned, in order

vars == <<lastKey, c, pc, IF_flag, pressed, handled, delivered>>

Init ==
  /\ lastKey = 0
  /\ c = 0
  /\ pc = "user"
  /\ IF_flag = TRUE
  /\ pressed = 0
  /\ handled = 0
  /\ delivered = <<>>

\* A key goes down (the hardware).
Press ==
  /\ pressed < MaxKeys
  /\ pressed' = pressed + 1
  /\ UNCHANGED <<lastKey, c, pc, IF_flag, handled, delivered>>

\* A key has a character, or none (arrows, Ctrl and what the table leaves out);
\* the character is named by the press.
ScancodeToAscii(press) == {0, press}

\* Interrupt 0x21, from the read of port 0x60 to the EOI.
KeyboardIRQ ==
  /\ IF_flag
  /\ handled < pressed
  /\ handled' = handled + 1
  /\ \E ascii \in ScancodeToAscii(handled + 1) :
       lastKey' = IF ascii # 0 THEN ascii ELSE lastKey
  /\ UNCHANGED <<c, pc, IF_flag, pressed, delivered>>

\* int 0x80 through an interrupt gate, eax = 3.
Enter ==
  /\ pc = "user"
  /\ pc' = "sti"
  /\ IF_flag' = FALSE
  /\ UNCHANGED <<lastKey, c, pressed, handled, delivered>>

\* sti; char c = 0
Sti ==
  /\ pc = "sti"
  /\ pc' = "load"
  /\ IF_flag' = TRUE
  /\ c' = 0
  /\ UNCHANGED <<lastKey, pressed, handled, delivered>>

\* Mutant of Load: lastKey is cleared before it is read.
LoadCleared ==
  /\ pc = "load"
  /\ pc' = "clear"
  /\ c' = 0
  /\ lastKey' = 0
  /\ UNCHANGED <<IF_flag, pressed, handled, delivered>>

\* GetChar: char c = lastKey
Load ==
  /\ pc = "load"
  /\ pc' = "clear"
  /\ c' = lastKey
  /\ UNCHANGED <<lastKey, IF_flag, pressed, handled, delivered>>

\* Mutant of Clear: the character stays in lastKey.
ClearForgotten ==
  /\ pc = "clear"
  /\ pc' = "test"
  /\ UNCHANGED <<lastKey, c, IF_flag, pressed, handled, delivered>>

\* GetChar: lastKey = 0, whatever it holds now.
Clear ==
  /\ pc = "clear"
  /\ pc' = "test"
  /\ lastKey' = 0
  /\ UNCHANGED <<c, IF_flag, pressed, handled, delivered>>

\* while (c == 0)
Test ==
  /\ pc = "test"
  /\ pc' = IF c = 0 THEN "load" ELSE "cli"
  /\ UNCHANGED <<lastKey, c, IF_flag, pressed, handled, delivered>>

\* cli; stack[7] = c
Cli ==
  /\ pc = "cli"
  /\ pc' = "iret"
  /\ IF_flag' = FALSE
  /\ delivered' = Append(delivered, c)
  /\ UNCHANGED <<lastKey, c, pressed, handled>>

\* iret restores the program's flags.
Iret ==
  /\ pc = "iret"
  /\ pc' = "user"
  /\ IF_flag' = TRUE
  /\ UNCHANGED <<lastKey, c, pressed, handled, delivered>>

Kernel == Sti \/ Load \/ Clear \/ Test \/ Cli \/ Iret

Next == Press \/ KeyboardIRQ \/ Enter \/ Kernel

\* The processor executes the system call, and takes a pending interrupt once
\* they are enabled; nobody has to press a key or call read.
Fairness == WF_vars(Kernel) /\ WF_vars(KeyboardIRQ)

Spec == Init /\ [][Next]_vars /\ Fairness

-----------------------------------------------------------------------------
TypeOK ==
  /\ lastKey \in Nat /\ c \in Nat
  /\ pc \in {"user", "sti", "load", "clear", "test", "cli", "iret"}
  /\ IF_flag \in BOOLEAN
  /\ pressed \in Nat /\ handled \in Nat
  /\ delivered \in Seq(Nat)

\* Reads return each key at most once and in the order of the presses,
\* however the interrupt handler interleaves with GetChar.
InOrder ==
  \A i, j \in DOMAIN delivered : i < j => delivered[i] < delivered[j]

\* The inductive invariant: what lastKey and c hold is newer than everything
\* delivered, and lastKey is newer than c once c's copy has been cleared.
KeyInv ==
  /\ TypeOK
  /\ lastKey <= handled /\ c <= handled
  /\ \A i \in DOMAIN delivered : 0 < delivered[i] /\ delivered[i] <= handled
  /\ lastKey # 0 => \A i \in DOMAIN delivered : delivered[i] < lastKey
  /\ (pc \in {"clear", "test", "cli"} /\ c # 0) =>
       \A i \in DOMAIN delivered : delivered[i] < c
  /\ (pc = "clear" /\ lastKey # 0) => c <= lastKey
  /\ (pc \in {"test", "cli"} /\ lastKey # 0) => c < lastKey
  /\ pc = "cli" => c # 0
  /\ InOrder

\* A character that is in lastKey when the poll looks is returned to the
\* program, whatever keys come meanwhile.
LatchedIsReturned == (pc = "load" /\ lastKey # 0) ~> (pc = "iret")

\* What GetChar throws away is what it has just read: "lastKey = 0; //
\* Consumption" (keyboard.cpp:7).
ClearsWhatItRead == pc = "clear" => lastKey = c

=============================================================================
