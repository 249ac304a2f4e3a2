------------------------------- MODULE SetSizes -------------------------------
(* What the proofs use about finite sets, as one hypothesis of the lemmas   *)
(* that need it. A module of proofs instantiates FiniteSetTheorems after    *)
(* those lemmas, shows SetFacts from it and then states its theorems: a     *)
(* prover's obligation carries everything that was stated before it, and is *)
(* several times slower with the library in it.                             *)
EXTENDS Integers, FiniteSets

EmptyFact ==
    /\ IsFiniteSet({}) /\ Cardinality({}) = 0
    /\ \A S : IsFiniteSet(S) => (Cardinality(S) = 0 <=> S = {})
SingletonFact == \A x : IsFiniteSet({x}) /\ Cardinality({x}) = 1
CountFact == \A S : IsFiniteSet(S) => Cardinality(S) \in Nat
SubsetFact ==
    \A S : IsFiniteSet(S) =>
        \A T \in SUBSET S : IsFiniteSet(T) /\ Cardinality(T) <= Cardinality(S)
AddFact ==
    \A S, x : IsFiniteSet(S) =>
        /\ IsFiniteSet(S \cup {x})
        /\ Cardinality(S \cup {x}) =
             IF x \in S THEN Cardinality(S) ELSE Cardinality(S) + 1
RemoveFact ==
    \A S, x : IsFiniteSet(S) =>
        /\ IsFiniteSet(S \ {x})
        /\ Cardinality(S \ {x}) =
             IF x \in S THEN Cardinality(S) - 1 ELSE Cardinality(S)
IntervalFact ==
    \A a, b \in Int :
        /\ IsFiniteSet(a..b)
        /\ Cardinality(a..b) = IF a > b THEN 0 ELSE b - a + 1

SetFacts ==
    /\ EmptyFact /\ SingletonFact /\ CountFact /\ SubsetFact
    /\ AddFact /\ RemoveFact /\ IntervalFact
=============================================================================
