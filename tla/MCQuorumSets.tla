---------------------------- MODULE MCQuorumSets ----------------------------
(***************************************************************************)
(* Instances of QuorumSets: every quorum set of a few shapes.              *)
(***************************************************************************)
EXTENDS QuorumSets

QSet(t, v, i) == [threshold |-> t, validators |-> v, innerSets |-> i]

Lists(max) ==
  UNION {{s \in [1 .. k -> Node] :
            \A i, j \in 1 .. k : i # j => s[i] # s[j]} : k \in 0 .. max}

Sane(Q) == {q \in Q : isQuorumSetSane(q, FALSE)}

(* Up to three validators, in any order; the same as an only inner set;    *)
(* and pairs of small ones without a common node.                          *)
Flat == Sane({QSet(t, v, << >>) : t \in 1 .. 3, v \in Lists(3)})
Wrapped == {QSet(1, << >>, <<q>>) : q \in Flat}
Pairs == {<<q, r>> \in Flat \X Flat :
            /\ Size(q) <= 2 /\ Size(r) <= 2
            /\ NodesOf(q) \cap NodesOf(r) = {}}
Nested ==
  Sane({QSet(t, v, i) : t \in 1 .. 3, v \in Lists(2),
        i \in {<< >>} \cup {<<q>> : q \in Flat \cup Wrapped} \cup Pairs})

Alone(n) == QSet(1, <<n>>, << >>)

(* One node with any nested quorum set, the others on their own.           *)
OneNested ==
  {[n \in Node |-> IF n = 1 THEN q ELSE Alone(n)] : q \in Nested}

(* Every node but one with any flat quorum set of these nodes, in order.   *)
Sorted == {q \in Flat : /\ 4 \notin NodesOf(q)
                        /\ \A i, j \in DOMAIN q.validators :
                             i < j => q.validators[i] < q.validators[j]}
AllFlat == {[n \in Node |-> IF n = 4 THEN Alone(n) ELSE f[n]] :
              f \in [Node \ {4} -> Sorted]}

MCConfigs == OneNested \cup AllFlat
=============================================================================
