----------------------------- MODULE Interrupts -----------------------------
(***************************************************************************)
(* How InterruptManager sets up the two interrupt controllers and the      *)
(* descriptor table (src/src/core/interrupts.cpp), and how a request is    *)
(* delivered and acknowledged.  A set s of request lines is in service:    *)
(* lines 0-7 at the master, 8-15 at the slave, which the master sees as    *)
(* its line 2.                                                             *)
(***************************************************************************)
EXTENDS Integers

\* RemapPIC: masks 0xF8 and 0xEF.
Unmasked == {0, 1, 2, 12}

\* RemapPIC: the master's lines start at 0x20, the slave's at 0x28.
Vector(irq) == IF irq < 8 THEN 32 + irq ELSE 40 + (irq - 8)

\* InterruptManager: the gates that lead to HandleInterrupt.  Any other one
\* returns at once, without an acknowledgement.
Gates == {14, 32, 33, 44, 128}

\* A controller passes a line on if nothing of its or a higher priority is in
\* service.
Passes(irq, s) ==
  /\ irq \in Unmasked
  /\ \A i \in s : i < 8 => (IF irq < 8 THEN irq ELSE 2) < i
  /\ irq >= 8 => \A i \in s : i >= 8 => irq < i

\* The lines in service once irq is delivered.
InService(irq, s) == s \cup IF irq < 8 THEN {irq} ELSE {2, irq}

\* What is left in service after a controller's lines got an 0x20: the
\* command ends the highest priority one.
Acked(s) == {i \in s : \E j \in s : j < i}

\* Mutant of Eoi: only the master is acknowledged.
EoiMaster(v, s) == Acked({i \in s : i < 8}) \cup {i \in s : i >= 8}

\* The end of HandleInterrupt, for the vector v of a hardware interrupt.
Eoi(v, s) ==
  LET master == {i \in s : i < 8}
      slave == {i \in s : i >= 8}
  IN  Acked(master) \cup IF v >= 40 THEN Acked(slave) ELSE slave

=============================================================================
