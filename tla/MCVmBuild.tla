------------------------------ MODULE MCVmBuild ------------------------------
(***************************************************************************)
(* Model checking VmBuild.  The module adds the statements of the          *)
(* repository's comments that the code does not live up to, each checked   *)
(* by a run of its own that is expected to be violated.                    *)
(***************************************************************************)
EXTENDS VmBuild

\* builder.go:117 "No artifact (all disks were readonly)": the message that
\* all disk images are read-only is returned only when they are.
ReadonlyMessageTrue == Result = "readonly" => writable = 0

\* step_shutdown_vm.go:21-24 "waits for it to stop by polling VMInfo until
\* the VM is no longer found": the disks are read from a stopped guest.
DisksQuiescentAlways == pc \in {"collect", "copy"} => ~GuestActive

\* step_shutdown_vm.go:23 "If the VM does not stop within the timeout, it
\* force-deletes the VM": once it waits, the step ends, by itself.
ShutdownBounded == pc = "poll" ~> pc # "poll"
=============================================================================
