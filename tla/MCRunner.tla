------------------------------ MODULE MCRunner ------------------------------
(***************************************************************************)
(* Runner on small plans.                                                  *)
(***************************************************************************)
EXTENDS Runner

Ordinary(k) == [kind |-> k, teardown |-> FALSE]
Teardown(k) == [kind |-> k, teardown |-> TRUE]

\* The shapes of prepare(): bless.py (mount, bless, unmount at the end),
\* create_image_runner.py (a teardown task in the middle and one at the end),
\* the tail of restore_image_runner.py (an optional task at the very end), and
\* the middle of its plan.
MountUse   == <<Ordinary("fetch"), Ordinary("mount"), Ordinary("python"), Teardown("unmount")>>
CreateImage == <<Ordinary("mount"), Teardown("unmount"), Ordinary("fsck"), Teardown("expand")>>
RestoreTail == <<Ordinary("set_uuid"), Ordinary("unmount"), Ordinary("boot_entry")>>
SkipThenTidy == <<Ordinary("boot_entry"), Ordinary("process"), Teardown("unmount")>>

\* partition_runner.py after a wipe, and the middle of bless.py.
Repartition == <<Ordinary("wipe"), Ordinary("partprobe"), Ordinary("process")>>
InstallBoot == <<Ordinary("mount"), Ordinary("grub"), Teardown("unmount")>>

SmallPlans == {MountUse, CreateImage, RestoreTail, SkipThenTidy, Repartition, InstallBoot}

=============================================================================
