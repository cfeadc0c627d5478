---------------------------- MODULE DriverStream ----------------------------
(***************************************************************************)
(* What bin/process_driver.py promises the process that started it: a      *)
(* stream of events about the commands it runs, and an exit code.          *)
(*                                                                         *)
(*   - a command's start comes before everything else about it;            *)
(*   - its exit comes at most once, with the code it ended with;           *)
(*   - after the driver has exited nothing more comes;                     *)
(*   - it exits with 0 only if it told that all its commands ended with 0. *)
(*                                                                         *)
(* Lines of output may come at any time after the start, also after the    *)
(* exit.  ProcessDriver implements this module, RsyncTask relies on it.    *)
(***************************************************************************)
EXTENDS Naturals, Sequences

CONSTANTS
  Procs,    \* the commands there may be
  MaxOut    \* bound: events that wait in the pipe

VARIABLES
  cmds,     \* the commands it was given
  phase,    \* what was told of each command
  out,      \* the pipe: standard error of the driver
  exit      \* the driver's exit code: "none", "good" (0), "bad"

streamVars == <<cmds, phase, out, exit>>

\* "good" and "bad" are an exit with code 0 and with another code.
Kinds  == {"start", "line", "error", "good", "bad"}
Phases == {"new", "started", "good", "bad"}

StreamInit ==
  /\ cmds \in SUBSET Procs
  /\ phase = [p \in Procs |-> "new"]
  /\ out = <<>>
  /\ exit = "none"

Put(type, p) ==
  /\ exit = "none" /\ Len(out) < MaxOut
  /\ out' = Append(out, [type |-> type, proc |-> p])
  /\ UNCHANGED exit

TellStart(p) ==
  /\ phase[p] = "new"
  /\ Put("start", p)
  /\ phase' = [phase EXCEPT ![p] = "started"]

Tell(p) ==
  /\ phase[p] # "new"
  /\ \E type \in {"line", "error"} : Put(type, p)
  /\ UNCHANGED phase

TellExit(p) ==
  /\ phase[p] = "started"
  /\ \E type \in {"good", "bad"} :
       Put(type, p) /\ phase' = [phase EXCEPT ![p] = type]

Finish ==
  /\ exit = "none"
  /\ \/ exit' = "bad"
     \/ exit' = "good" /\ \A p \in cmds : phase[p] = "good"
  /\ UNCHANGED <<phase, out>>

\* The parent reads some of what waits.
ReadFirst(k) ==
  /\ k \in 1 .. Len(out)
  /\ out' = SubSeq(out, k + 1, Len(out))
  /\ UNCHANGED <<phase, exit>>

Emit == \E p \in cmds : TellStart(p) \/ Tell(p) \/ TellExit(p)

StreamNext ==
  /\ Emit \/ Finish \/ \E k \in 1 .. Len(out) : ReadFirst(k)
  /\ UNCHANGED cmds

StreamSpec == StreamInit /\ [][StreamNext]_streamVars

=============================================================================
