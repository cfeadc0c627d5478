---------------------------- MODULE MCMultiWipe ----------------------------
(***************************************************************************)
(* Two disks: one whose size is a multiple of the chunk, one that is not.  *)
(***************************************************************************)
EXTENDS MultiWipe

TwoDisks == <<2, 3>>

=============================================================================
