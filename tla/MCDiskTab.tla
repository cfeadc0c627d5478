----------------------------- MODULE MCDiskTab ------------------------------
(***************************************************************************)
(* All tabs; two disks, none of them mounted at first; two reports on one  *)
(* of them.                                                                *)
(***************************************************************************)
EXTENDS DiskTab

CONSTANTS sda, sdb

TwoDisks == {sda, sdb}
AllTabs == {"load", "save", "wipe", "sync"}
AllFree == {[d \in TwoDisks |-> "free"]}
TwoReports == << [device |-> sda, state |-> "Running", timed |-> TRUE],
                 [device |-> sda, state |-> "Success", timed |-> TRUE] >>

=============================================================================
