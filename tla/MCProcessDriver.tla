-------------------------- MODULE MCProcessDriver --------------------------
(***************************************************************************)
(* Two silent commands whose threads do not raise, or one that prints two  *)
(* lines and whose threads may: c1 alone, or c2 and c3.                    *)
(***************************************************************************)
EXTENDS ProcessDriver

CONSTANTS c1, c2, c3

AllProcs  == {c1, c2, c3}
OneOrTwo  == {{c1}, {c2, c3}}
OnlyOne   == {{c1}}
Verbose   == [p \in AllProcs |-> IF p = c1 THEN 2 ELSE 0]
Silent    == [p \in AllProcs |-> 0]
Raising   == {c1}

=============================================================================
