-------------------------- MODULE MCProcessRunner --------------------------
(***************************************************************************)
(* Two requests to run a command of one kind, and requests to stop it.     *)
(***************************************************************************)
EXTENDS ProcessRunner

CONSTANTS j1, j2, s1, s2

TwoJobs  == {j1, j2}
TwoStops == {s1, s2}
NoStop   == {}
Mix(k1, k2) == [j \in TwoJobs |-> IF j = j1 THEN k1 ELSE k2]
Pairs    == {Mix("tidy", "tidy"), Mix("noisy", "missing"), Mix("noisy", "broken")}
Lines    == [k \in Kinds |-> IF k = "noisy" THEN 3 ELSE 1]

=============================================================================
