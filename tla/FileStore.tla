----------------------------- MODULE FileStore ------------------------------
(***************************************************************************)
(* What the shell's file commands promise, as a map from names to          *)
(* contents.  "ro" holds the names that live on the disk: they can be      *)
(* read, and never change or disappear.  "op" is the last command that     *)
(* completed, with what it showed to the user; "up" turns FALSE when the   *)
(* system stops serving commands.                                          *)
(***************************************************************************)
CONSTANTS
  Names,     \* file names
  Contents,  \* file contents
  Empty,     \* the empty content
  Absent     \* the value of a name that names no file

VARIABLES ro, store, up, op

vars == <<ro, store, up, op>>

Op(cmd, a, b, out) == [cmd |-> cmd, a |-> a, b |-> b, out |-> out]

\* What reading n shows: a file that does not exist reads as empty.
Value(n) == IF store[n] = Absent THEN Empty ELSE store[n]

Init ==
  /\ ro \subseteq Names
  /\ store \in [Names -> Contents \cup {Absent}]
  /\ \A n \in Names : store[n] = Absent <=> n \notin ro
  /\ up = TRUE
  /\ op = Op("boot", Empty, Empty, Empty)

\* A command other than a failure: it needs a system that is up.
Does(o, s) ==
  /\ up
  /\ op' = o
  /\ store' = s
  /\ UNCHANGED <<ro, up>>

Cat(n) == Does(Op("cat", n, n, Value(n)), store)

Open(n) == Does(Op("open", n, n, Value(n)), store)

Touch(n) ==
  Does(Op("touch", n, n, Empty), [store EXCEPT ![n] = Value(n)])

\* A directory is never made.
MkDir(n) == Does(Op("mkdir", n, n, Empty), store)

Rm(n) ==
  Does(Op("rm", n, n, Empty),
       IF n \in ro THEN store ELSE [store EXCEPT ![n] = Absent])

Save(n, c) ==
  /\ n \notin ro
  /\ Does(Op("save", n, n, c), [store EXCEPT ![n] = c])

Cp(s, d) ==
  /\ d \notin ro
  /\ Does(Op("cp", s, d, Empty), [store EXCEPT ![d] = Value(s)])

\* Moving a file onto itself removes it; moving one from the disk copies it.
Mv(s, d) ==
  /\ d \notin ro
  /\ Does(Op("mv", s, d, Empty),
          LET copied == [store EXCEPT ![d] = Value(s)]
          IN  IF s \in ro THEN copied ELSE [copied EXCEPT ![s] = Absent])

\* The system stops, with its files as they were.
Fail ==
  /\ up
  /\ up' = FALSE
  /\ UNCHANGED <<ro, store, op>>

Next ==
  \/ \E n \in Names : Cat(n) \/ Open(n) \/ Touch(n) \/ MkDir(n) \/ Rm(n)
  \/ \E n \in Names, c \in Contents : Save(n, c)
  \/ \E s, d \in Names : Cp(s, d) \/ Mv(s, d)
  \/ Fail

Spec == Init /\ [][Next]_vars

=============================================================================
