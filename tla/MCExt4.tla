------------------------------- MODULE MCExt4 -------------------------------
(***************************************************************************)
(* Small instance of Ext4: two names that can be created and one the disk  *)
(* lists when it is mounted, two contents, and a heap that lasts for about *)
(* seven commands.                                                         *)
(***************************************************************************)
EXTENDS Ext4

CONSTANTS a, b, d, e, x

MCDiskContent == [n \in {d} |-> x]
MCContentSize == [c \in {e, x} |-> IF c = e THEN 0 ELSE 3]
MCDiskBlocks == [n \in {d} |-> 1]

=============================================================================
