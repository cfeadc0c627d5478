---------------------------- MODULE MCImageCopy ----------------------------
(***************************************************************************)
(* An image that is copied to two disks.                                   *)
(***************************************************************************)
EXTENDS ImageCopy

CONSTANTS d1, d2

TwoDisks == {d1, d2}
Both     == {{d1, d2}}
Silent   == [d \in TwoDisks |-> 0]
Raising  == {d1}

=============================================================================
