----------------------------- MODULE AtomicCollect -----------------------------
(***************************************************************************)
(* What StepCollectArtifact.Run promises, without copies and paths: a      *)
(* build's writable images are handed over all at once, as the guest left  *)
(* them, or not at all, and only a guest ever writes to an image.          *)
(***************************************************************************)
VARIABLES
    images,    \* what each configured image holds
    writable,  \* those a guest can write to
    phase,     \* "idle", "collecting", or "returned" with the step's result
    delivered  \* the artifact: what it holds of each image, or nothing at all

atomicVars == <<images, writable, phase, delivered>>

Nothing == [k \in {} |-> {}]

AtomicInit ==
    /\ writable \subseteq DOMAIN images
    /\ phase = "idle"
    /\ delivered = Nothing

\* A guest has written to the writable images, and is gone.
Guest ==
    /\ phase = "idle"
    /\ DOMAIN images' = DOMAIN images
    /\ \A k \in DOMAIN images \ writable : images'[k] = images[k]
    /\ phase' = IF writable = {} THEN "returned" ELSE "collecting"
    /\ UNCHANGED <<writable, delivered>>

Deliver ==
    /\ phase = "collecting"
    /\ delivered' = [k \in writable |-> images[k]]
    /\ phase' = "returned"
    /\ UNCHANGED <<images, writable>>

DeliverNothing ==
    /\ phase = "collecting"
    /\ phase' = "returned"
    /\ UNCHANGED <<images, writable, delivered>>

\* The artifact is destroyed, or kept and forgotten by the next build.
Discard ==
    /\ phase = "returned"
    /\ delivered' = Nothing
    /\ phase' = "idle"
    /\ UNCHANGED <<images, writable>>

AtomicNext == Guest \/ Deliver \/ DeliverNothing \/ Discard
=============================================================================
