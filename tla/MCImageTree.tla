---------------------------- MODULE MCImageTree -----------------------------
(***************************************************************************)
(* Two categories, of which the catalog has one.  An image that is not in  *)
(* the catalog hides the one of the same name that is.                     *)
(***************************************************************************)
EXTENDS ImageTree

CONSTANTS a, b, listed, unlisted

TwoNames == {a, b}
TwoCategories == {listed, unlisted}
OneCatalog == {listed}
UnlistedLast == [category \in TwoCategories |-> IF category = listed THEN 0 ELSE 1]
TwoImages == {[category |-> listed, name |-> a], [category |-> unlisted, name |-> b]}
OldListOrNone == {None, {[category |-> listed, name |-> b]}}

=============================================================================
