-------------------------------- MODULE Ranks --------------------------------
(***************************************************************************)
(* The lexicographic order of tuples of natural numbers, in which the      *)
(* other modules state that a loop, a step or a build makes progress.      *)
(***************************************************************************)
EXTENDS Naturals

\* r comes before q: at the first component in which they differ, r is less.
Less(r, q) ==
    \E i \in DOMAIN q :
        /\ r[i] < q[i]
        /\ \A j \in 1..(i - 1) : r[j] = q[j]
=============================================================================
