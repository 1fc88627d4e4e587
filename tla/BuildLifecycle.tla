---------------------------- MODULE BuildLifecycle ---------------------------
(***************************************************************************)
(* What Builder.Run promises to Packer, without its steps' insides: the    *)
(* lifecycle of the comment above Builder.Run (builder.go).  Steps run in  *)
(* order and none begins after a cancellation; whatever began is undone,   *)
(* last step first; the hypervisor belongs to the first step and is given  *)
(* back before the build returns; an artifact means every step ran.        *)
(***************************************************************************)
EXTENDS Naturals

VARIABLES
    phase,      \* "run", then "cleanup", then "done"
    ran,        \* how many steps have begun
    undo,       \* how many of them are still to be undone
    cancelled,  \* the build was interrupted
    held,       \* a hypervisor process runs and nobody has killed it
    outcome     \* what the build returned

absVars == <<phase, ran, undo, cancelled, held, outcome>>

StepCount == 7
Outcomes  == {"none", "artifact", "error", "readonly"}

AbsInit ==
    /\ phase = "run"
    /\ ran = 0
    /\ undo = 0
    /\ cancelled = FALSE
    /\ held = FALSE
    /\ outcome = "none"

Begin ==
    /\ phase = "run"
    /\ ran < StepCount
    /\ ~cancelled
    /\ ran' = ran + 1
    /\ undo' = ran + 1
    /\ UNCHANGED <<phase, cancelled, held, outcome>>

\* Only the first step starts a hypervisor.
Acquire ==
    /\ phase = "run"
    /\ ran = 1
    /\ ~held
    /\ ~cancelled
    /\ held' = TRUE
    /\ UNCHANGED <<phase, ran, undo, cancelled, outcome>>

\* It can go at any time: it crashes, or somebody kills it.
Lose ==
    /\ held
    /\ held' = FALSE
    /\ UNCHANGED <<phase, ran, undo, cancelled, outcome>>

Unwind ==
    /\ phase = "run"
    /\ phase' = "cleanup"
    /\ UNCHANGED <<ran, undo, cancelled, held, outcome>>

\* Undoing the first step requires that no hypervisor is held any more.
Undo ==
    /\ phase = "cleanup"
    /\ undo > 0
    /\ undo = 1 => ~held
    /\ undo' = undo - 1
    /\ UNCHANGED <<phase, ran, cancelled, held, outcome>>

Deliver ==
    /\ phase = "cleanup"
    /\ undo = 0
    /\ phase' = "done"
    /\ outcome' \in Outcomes \ {"none"}
    /\ outcome' = "artifact" => ran = StepCount
    /\ UNCHANGED <<ran, undo, cancelled, held>>

Interrupt ==
    /\ phase # "done"
    /\ ~cancelled
    /\ cancelled' = TRUE
    /\ UNCHANGED <<phase, ran, undo, held, outcome>>

AbsNext ==
    \/ Begin \/ Acquire \/ Lose
    \/ Unwind \/ Undo \/ Deliver
    \/ Interrupt

AbsSpec == AbsInit /\ [][AbsNext]_absVars
=============================================================================
