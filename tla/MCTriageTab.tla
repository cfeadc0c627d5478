---------------------------- MODULE MCTriageTab -----------------------------
(***************************************************************************)
(* Two components, one of them the sound card.                             *)
(***************************************************************************)
EXTENDS TriageTab

CONSTANTS sound, network

TwoComponents == {sound, network}

=============================================================================
