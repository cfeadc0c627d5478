----------------------------- MODULE MCMessages -----------------------------
(***************************************************************************)
(* Three rows, two of them messages, and a page of two.                    *)
(***************************************************************************)
EXTENDS Messages

ThreeRows ==
  << [type |-> "MESSAGE", level |-> "none", source |-> "message"],
     [type |-> "LOG", level |-> "INFO", source |-> "triage"],
     [type |-> "ERROR", level |-> "none", source |-> "message"] >>

OnlyMessages  == {{}, {"MESSAGE", "ERROR"}}
OnlyInfo      == {{}, {"INFO"}}
OneSource     == {{}}
TwoPages      == {0, 1}

=============================================================================
