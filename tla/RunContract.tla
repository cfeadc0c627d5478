---------------------------- MODULE RunContract ----------------------------
(***************************************************************************)
(* What a run of a disk operation promises, whatever its tasks do: the     *)
(* tasks get their turn in the order of the plan; after a fault, or after  *)
(* the user has stopped the run, only teardown tasks do; and the outcome   *)
(* is a success only if every task had its turn and none was at fault.     *)
(***************************************************************************)
EXTENDS Naturals, Sequences

CONSTANTS Plans

VARIABLES
  plan,      \* the tasks of the run
  turn,      \* whose turn it is
  ran,       \* the tasks that had their turn and were run
  fault,     \* a task was at fault
  cancel,    \* the user stopped the run in time
  outcome    \* "open", "Success", "Failed" or "Lost"

cvars == <<plan, turn, ran, fault, cancel, outcome>>

Init ==
  /\ plan = <<>> /\ turn = 0 /\ ran = {}
  /\ fault = FALSE /\ cancel = FALSE
  /\ outcome = "open"

Accept ==
  /\ turn = 0
  /\ plan' \in Plans
  /\ turn' = 1
  /\ UNCHANGED <<ran, fault, cancel, outcome>>

Open == outcome = "open" /\ turn > 0

Run ==
  /\ Open /\ turn <= Len(plan)
  /\ ~(fault \/ cancel) \/ plan[turn].teardown
  /\ ran' = ran \cup {turn}
  /\ UNCHANGED <<plan, turn, fault, cancel, outcome>>

\* The task that has the turn is over, well or not; it was run, or else
\* skipped for a reason.
Pass ==
  /\ Open /\ turn <= Len(plan)
  /\ turn \in ran \/ fault \/ cancel
  /\ turn' = turn + 1
  /\ fault' \in {fault, TRUE}
  /\ UNCHANGED <<plan, ran, cancel, outcome>>

Cancel ==
  /\ Open
  /\ cancel' = TRUE
  /\ UNCHANGED <<plan, turn, ran, fault, outcome>>

Conclude ==
  /\ Open
  /\ \/ outcome' = "Success" /\ turn > Len(plan) /\ ran = 1 .. Len(plan) /\ ~fault
     \/ outcome' = "Failed" /\ turn > Len(plan) /\ (fault \/ cancel)
     \/ outcome' = "Lost" /\ fault
  /\ UNCHANGED <<plan, turn, ran, fault, cancel>>

Next == Accept \/ Run \/ Pass \/ Cancel \/ Conclude

Spec == Init /\ [][Next]_cvars

=============================================================================
