------------------------------ MODULE EventLog ------------------------------
(***************************************************************************)
(* What a reader of the event log may count on: the table is always a      *)
(* stretch of what was logged, in the order it was logged; rows enter it   *)
(* at the new end, and leave it at the old end only.                       *)
(***************************************************************************)
EXTENDS Naturals, Sequences

CONSTANTS Row

VARIABLES
  log,     \* everything that was logged
  table    \* what a reader sees

evars == <<log, table>>

\* How many rows have left the table is not visible to a reader.
Stretch(gone, n) == SubSeq(log, gone + 1, gone + n)

Init == log = <<>> /\ table = <<>>

Log ==
  /\ \E row \in Row : log' = Append(log, row)
  /\ UNCHANGED table

Store ==
  /\ \E gone \in 0 .. Len(log) : \E n \in Len(table) .. Len(log) - gone :
       /\ table = Stretch(gone, Len(table))
       /\ table' = Stretch(gone, n)
  /\ UNCHANGED log

Expire ==
  /\ \E n \in 1 .. Len(table) : table' = SubSeq(table, n + 1, Len(table))
  /\ UNCHANGED log

Next == Log \/ Store \/ Expire

Spec == Init /\ [][Next]_evars

=============================================================================
