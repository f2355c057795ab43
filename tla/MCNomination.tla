---------------------------- MODULE MCNomination ----------------------------
(***************************************************************************)
(* Two nodes, each needed by the other, one of which restarts.             *)
(***************************************************************************)
EXTENDS NominationProtocol

MCSlices == [n \in Node |-> {Node}]

(* A node proposes its own value, and 3 after a restart.                   *)
MCProposals == [n \in Node |-> [k \in Nat |-> IF k = 0 THEN {n} ELSE {3}]]
MCRestarts == [n \in Node |-> IF n = 2 THEN 1 ELSE 0]

(* Node 1 cannot validate 3, and votes for 2 in its place.                 *)
MCValid == [n \in Node |-> IF n = 1 THEN Value \ {3} ELSE Value]
MCVariation == [n \in Node |-> [v \in Value |-> IF v = 3 THEN 2 ELSE NoValue]]
=============================================================================
