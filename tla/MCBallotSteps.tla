--------------------------- MODULE MCBallotSteps ---------------------------
(* Two nodes that need each other, of which one may restart.               *)
EXTENDS BallotSteps, FiniteSets

CONSTANTS n1, n2

MCSlices == [n \in Node |-> {S \in SUBSET Node : Cardinality(S) >= 2}]

MCVBlocking == [n \in Node |-> {S \in SUBSET Node :
                    \A T \in MCSlices[n] : S \cap T # {}}]

MCValidity == [n \in Node |-> [v \in Value |-> "full"]]

(* n1 comes up with 2; n2 with 1 or 2, in any order.                       *)
MCCandidates == [n \in Node |-> IF n = n1 THEN {2} ELSE {1, 2}]
=============================================================================
