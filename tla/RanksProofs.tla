----------------------------- MODULE RanksProofs -----------------------------
(***************************************************************************)
(* What makes Less fit for a proof of progress: nothing falls for ever.    *)
(***************************************************************************)
EXTENDS Ranks, WellFoundedInduction, TLAPS

\* The order of the natural numbers as a relation, and the order of the
\* library it gives on tuples of n of them.
Below            == {p \in Nat \X Nat : p[1] < p[2]}
Lexicographic(n) == LexProductOrdering(Below, Nat, n)

\* Below is well-founded.
LEMMA BelowWellFounded == IsWellFoundedOn(Below, Nat)
  <1>1. OpToRel(<, Nat) = Below
    BY DEF OpToRel, Below
  <1> QED
    BY <1>1, NatLessThanWellFounded

\* Less is that order.
LEMMA LessIsLexicographic ==
    ASSUME NEW n \in Nat, NEW r \in [1..n -> Nat], NEW q \in [1..n -> Nat],
           Less(r, q)
    PROVE  <<r, q>> \in Lexicographic(n)
  <1>1. PICK i \in 1..n : r[i] < q[i] /\ \A j \in 1..(i - 1) : r[j] = q[j]
    BY DEF Less
  <1>2. <<r[i], q[i]>> \in Below
    BY <1>1 DEF Below
  <1> QED
    BY <1>1, <1>2 DEF Lexicographic, LexProductOrdering

\* A quantity that only ever falls in this order falls finitely often: no
\* sequence of ranks descends for ever, whatever the number of components.
THEOREM NoEndlessDescent ==
    ASSUME NEW n \in Nat
    PROVE  ~ \E f \in [Nat -> [1..n -> Nat]] :
                \A k \in Nat : Less(f[k + 1], f[k])
  <1>1. IsWellFoundedOn(Lexicographic(n), [1..n -> Nat])
    BY BelowWellFounded, WFLexProductOrdering DEF Lexicographic
  <1>2. SUFFICES ASSUME NEW f \in [Nat -> [1..n -> Nat]],
                        \A k \in Nat : Less(f[k + 1], f[k])
                 PROVE  FALSE
    OBVIOUS
  <1>3. ASSUME NEW k \in Nat PROVE <<f[k + 1], f[k]>> \in Lexicographic(n)
    <2>1. f[k + 1] \in [1..n -> Nat] /\ f[k] \in [1..n -> Nat]
      OBVIOUS
    <2> QED
      BY <2>1, <1>2, LessIsLexicographic
  <1> QED
    BY <1>1, <1>3 DEF IsWellFoundedOn
=============================================================================
