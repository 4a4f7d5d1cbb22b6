---------------------------- MODULE MachineWord ----------------------------
(***************************************************************************)
(* uint32_t: addresses and sizes are numbers modulo Word, 2^32 in the      *)
(* build, so that sums may wrap.                                           *)
(***************************************************************************)
EXTENDS Integers

CONSTANT Word

ASSUME WordAssumption == Word \in Nat \ {0} /\ Word % 4 = 0

=============================================================================
