-------------------------- MODULE MCBallotNetwork --------------------------
(***************************************************************************)
(* Instances of BallotNetwork: two or three nodes, any two of which make a *)
(* quorum.                                                                 *)
(***************************************************************************)
EXTENDS BallotNetwork

CONSTANTS n1, n2, n3

MCSlices == [n \in Node |-> {S \in SUBSET Node : Cardinality(S) >= 2}]

MCVBlocking == [n \in Node |-> {S \in SUBSET Node :
                    \A T \in MCSlices[n] : S \cap T # {}}]

(* At most one timeout at each node, or at n2 only.                        *)
OneTimeout == [n \in Node |-> 2]
TimeOut2 == [n \in Node |-> IF n = n2 THEN 2 ELSE 1]

(* Everybody hears everybody; or n2 hears both and n1 and n3 only n2.      *)
Everyone == [n \in Node |-> Node \ {n}]
Chain == [n \in Node |-> IF n = n2 THEN {n1, n3} ELSE {n2}]

(* Every value is valid everywhere, or n3 cannot fully validate 1 yet.     *)
AllValid == [n \in Node |-> [v \in Value |-> "full"]]
SomeMaybe == [n \in Node |-> [v \in Value |->
                IF n = n3 /\ v = 1 THEN "maybe" ELSE "full"]]

(* What nomination comes up with: 1 at n1, 2 at n3, and both at n2, which  *)
(* makes a quorum with either; or any value at any node, in any order.     *)
Candidates3 == [n \in Node |-> IF n = n1 THEN {1}
                               ELSE IF n = n2 THEN {1, 2} ELSE {2}]
AnyCandidates == [n \in Node |-> Value]
=============================================================================
