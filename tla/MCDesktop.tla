----------------------------- MODULE MCDesktop ------------------------------
(***************************************************************************)
(* Small instance of Desktop: bytes of four bits, a screen of 6 x 5, one   *)
(* window with a title bar of height 1, as at boot.                        *)
(***************************************************************************)
EXTENDS Desktop

MCPlaces == << [x |-> 1, y |-> 1, width |-> 3, height |-> 3] >>

=============================================================================
