------------------------- MODULE MCFederatedVoting -------------------------
EXTENDS FederatedVoting, FiniteSets, TLC

CONSTANTS n1, n2, n3, n4

(* Three of four, one of which may be arbitrary.                           *)
MCSlices == [n \in Node |-> {S \in SUBSET Node : Cardinality(S) >= 3}]

(* The good nodes are alike.                                               *)
Sym == Permutations({n1, n2, n3})
=============================================================================
