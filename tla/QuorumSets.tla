----------------------------- MODULE QuorumSets -----------------------------
(***************************************************************************)
(* Quorum sets: nested thresholds over validators, the tests LocalNode     *)
(* makes with them, their sanity check and their normal form.  The ballot  *)
(* protocol uses them through isQuorumSlice, isVBlocking and isQuorum; its *)
(* model takes these as families of sets (QuorumSlices, VBlocking), and    *)
(* the properties below justify that.                                      *)
(*                                                                         *)
(* Nodes are integers, because quorum sets are ordered by their node IDs.  *)
(***************************************************************************)
EXTENDS Integers, Sequences, FiniteSets, FiniteSetsExt, SequencesExt,
        TLC

CONSTANTS
  Node,      \* the node IDs
  Configs    \* the quorum sets the nodes may be configured with:
             \* functions from Node to quorum sets

NoNode == 0

ASSUME NodeAssumption == Node \subseteq Nat \ {NoNode}

VARIABLE qsets   \* qsets[n]: the quorum set of n

-----------------------------------------------------------------------------
(* The nodes of a quorum set, in order: forAllNodes.                       *)
RECURSIVE AllNodes(_)
AllNodes(q) ==
  LET RECURSIVE Inner(_)
      Inner(k) == IF k = 0 THEN q.validators
                  ELSE Inner(k - 1) \o AllNodes(q.innerSets[k])
  IN  Inner(Len(q.innerSets))

NodesOf(q) == {AllNodes(q)[k] : k \in DOMAIN AllNodes(q)}

Size(q) == Len(q.validators) + Len(q.innerSets)

(* How many of the entries of q are in S, or are inner sets of inner.      *)
Hits(q, S, inner) ==
  Cardinality({k \in DOMAIN q.validators : q.validators[k] \in S})
    + Cardinality({k \in DOMAIN q.innerSets : q.innerSets[k] \in inner})

InnerOf(q) == {q.innerSets[k] : k \in DOMAIN q.innerSets}

(* thresholdLeft is unsigned: with a threshold of 0 it wraps around and    *)
(* the test never succeeds.                                                *)
RECURSIVE isQuorumSlice(_, _)
isQuorumSlice(q, S) ==
  /\ q.threshold # 0
  /\ Hits(q, S, {i \in InnerOf(q) : isQuorumSlice(i, S)}) >= q.threshold

RECURSIVE isVBlocking(_, _)
(* Mutant: one entry too few blocks.                                       *)
isVBlockingTooFew(q, S) ==
  LET hits == Hits(q, S, {i \in InnerOf(q) : isVBlocking(i, S)})
  IN  q.threshold # 0 /\ hits > 0 /\ hits >= Size(q) - q.threshold

isVBlocking(q, S) ==
  LET leftTillBlock == 1 + Size(q) - q.threshold
      hits == Hits(q, S, {i \in InnerOf(q) : isVBlocking(i, S)})
  IN  q.threshold # 0 /\ hits > 0 /\ hits >= leftTillBlock

(* isQuorum drops the nodes without a slice among those left until none    *)
(* is dropped.                                                             *)
RECURSIVE Prune(_)
(* Mutant: a single pass.                                                  *)
PruneOnce(P) == {m \in P : isQuorumSlice(qsets[m], P)}

Prune(P) ==
  LET left == {m \in P : isQuorumSlice(qsets[m], P)}
  IN  IF left = P THEN P ELSE Prune(left)

isQuorum(q, S) == isQuorumSlice(q, Prune(S))

-----------------------------------------------------------------------------
(* Whether the nodes of `nodes` can fail one by one: the nodes to add to   *)
(* those outside `nodes` to block q.  excluded counts as neither.          *)

RECURSIVE Shortest(_, _)
Shortest(k, lists) ==
  IF k = 0 \/ lists = << >> THEN << >>
  ELSE LET i == CHOOSE i \in DOMAIN lists : \A j \in DOMAIN lists :
                  \/ Len(lists[i]) < Len(lists[j])
                  \/ Len(lists[i]) = Len(lists[j]) /\ i <= j
           rest == SubSeq(lists, 1, i - 1) \o SubSeq(lists, i + 1, Len(lists))
       IN  lists[i] \o Shortest(k - 1, rest)

RECURSIVE findClosestVBlocking(_, _, _)
(* Mutant: inner sets that are blocked already are not counted.            *)
ClosestMiscounted(q, nodes, excluded) ==
  LET res == SelectSeq(q.validators, LAMBDA v : v # excluded /\ v \in nodes)
      inner == [k \in DOMAIN q.innerSets |->
                  findClosestVBlocking(q.innerSets[k], nodes, excluded)]
      left == 1 + Size(q) - q.threshold - (Len(q.validators) - Len(res))
      top == SubSeq(res, 1, Min({left, Len(res)}))
  IN  IF left <= 0 THEN << >>
      ELSE top \o Shortest(left - Len(top),
                           SelectSeq(inner, LAMBDA l : l # << >>))

findClosestVBlocking(q, nodes, excluded) ==
  LET counted == SelectSeq(q.validators, LAMBDA v : v # excluded)
      res == SelectSeq(counted, LAMBDA v : v \in nodes)
      inner == [k \in DOMAIN q.innerSets |->
                  findClosestVBlocking(q.innerSets[k], nodes, excluded)]
      blocked == Len(counted) - Len(res)
                   + Cardinality({k \in DOMAIN inner : inner[k] = << >>})
      left == 1 + Size(q) - q.threshold - blocked
      top == SubSeq(res, 1, Min({left, Len(res)}))
  IN  IF left <= 0 THEN << >>
      ELSE top \o Shortest(left - Len(top),
                           SelectSeq(inner, LAMBDA l : l # << >>))

-----------------------------------------------------------------------------
(* The weight of a node: the share of m its entry has, rounded up at each  *)
(* level.  bigDivide computes the share in 128 bits, so nothing overflows  *)
(* and UINT64_MAX is scaled down: only that it is far larger than a quorum *)
(* set matters.                                                            *)
UINT64_MAX == 100

(* Mutant: the fraction upside down.                                       *)
computeWeightInverted(m, total, threshold) ==
  (m * total + threshold - 1) \div threshold

computeWeight(m, total, threshold) == (m * threshold + total - 1) \div total

RECURSIVE getNodeWeight(_, _)
getNodeWeight(n, q) ==
  LET inner == {k \in DOMAIN q.innerSets :
                  getNodeWeight(n, q.innerSets[k]) # 0}
      Share(m) == computeWeight(m, Size(q), q.threshold)
  IN  IF \E k \in DOMAIN q.validators : q.validators[k] = n
      THEN Share(UINT64_MAX)
      ELSE IF inner # {} THEN Share(getNodeWeight(n, q.innerSets[Min(inner)]))
      ELSE 0

-----------------------------------------------------------------------------
MAXIMUM_QUORUM_NESTING_LEVEL == 4

RECURSIVE Shaped(_, _, _)
Shaped(q, extraChecks, depth) ==
  /\ depth <= MAXIMUM_QUORUM_NESTING_LEVEL
  /\ 1 <= q.threshold /\ q.threshold <= Size(q)
  /\ extraChecks => q.threshold >= Size(q) - q.threshold + 1
  /\ \A k \in DOMAIN q.innerSets :
       Shaped(q.innerSets[k], extraChecks, depth + 1)

isQuorumSetSane(q, extraChecks) ==
  /\ Shaped(q, extraChecks, 0)
  /\ Cardinality(NodesOf(q)) = Len(AllNodes(q))
  /\ Len(AllNodes(q)) \in 1 .. 1000

-----------------------------------------------------------------------------
(* The normal form.                                                        *)

RECURSIVE normalizeQSetSimplify(_, _)
(* Mutant: every inner set of threshold 1 is merged, which drops nodes.    *)
SimplifyTooMuch(q, idToRemove) ==
  LET simpler == [k \in DOMAIN q.innerSets |->
                    normalizeQSetSimplify(q.innerSets[k], idToRemove)]
      Singleton(i) == i.threshold = 1 /\ i.innerSets = << >>
      merged == SelectSeq(simpler, Singleton)
  IN  [q EXCEPT !.validators = @ \o [k \in DOMAIN merged |->
                                       merged[k].validators[1]],
                !.innerSets = SelectSeq(simpler, LAMBDA i : ~Singleton(i))]

normalizeQSetSimplify(q, idToRemove) ==
  LET kept == SelectSeq(q.validators, LAMBDA v : v # idToRemove)
      simpler == [k \in DOMAIN q.innerSets |->
                    normalizeQSetSimplify(q.innerSets[k], idToRemove)]
      Singleton(i) == i.threshold = 1 /\ Len(i.validators) = 1
                        /\ i.innerSets = << >>
      merged == SelectSeq(simpler, Singleton)
      r == [threshold |-> q.threshold - (Len(q.validators) - Len(kept)),
            validators |-> kept \o [k \in DOMAIN merged |->
                                      merged[k].validators[1]],
            innerSets |-> SelectSeq(simpler, LAMBDA i : ~Singleton(i))]
  IN  IF r.threshold = 1 /\ r.validators = << >> /\ Len(r.innerSets) = 1
      THEN r.innerSets[1] ELSE r

Sign(k) == IF k < 0 THEN -1 ELSE IF k > 0 THEN 1 ELSE 0

(* comp[k] compares the k-th elements; the shorter sequence is the lower   *)
(* when they all agree.                                                    *)
intLexicographicalCompare(comp, lenL, lenR) ==
  LET differ == {k \in DOMAIN comp : comp[k] # 0}
  IN  IF differ # {} THEN comp[Min(differ)] ELSE Sign(lenL - lenR)

RECURSIVE qSetCompareInt(_, _)
qSetCompareInt(l, r) ==
  LET lv == l.validators
      rv == r.validators
      li == l.innerSets
      ri == r.innerSets
      byValidators == intLexicographicalCompare(
        [k \in DOMAIN lv \cap DOMAIN rv |-> Sign(lv[k] - rv[k])],
        Len(lv), Len(rv))
      byInner == intLexicographicalCompare(
        [k \in DOMAIN li \cap DOMAIN ri |-> qSetCompareInt(li[k], ri[k])],
        Len(li), Len(ri))
  IN  IF byValidators # 0 THEN byValidators
      ELSE IF byInner # 0 THEN byInner
      ELSE Sign(l.threshold - r.threshold)

RECURSIVE normalizeQuorumSetReorder(_)
normalizeQuorumSetReorder(q) ==
  [q EXCEPT
     !.validators = SortSeq(@, <),
     !.innerSets = SortSeq([k \in DOMAIN @ |-> normalizeQuorumSetReorder(@[k])],
                           LAMBDA l, r : qSetCompareInt(l, r) < 0)]

normalizeQSet(q, idToRemove) ==
  normalizeQuorumSetReorder(normalizeQSetSimplify(q, idToRemove))

-----------------------------------------------------------------------------
(* Nodes are configured with sane quorum sets; LocalNode's constructor     *)
(* puts its own into normal form.                                          *)

Init == qsets \in {f \in Configs : \A n \in Node : isQuorumSetSane(f[n], FALSE)}

LocalNode(n) == qsets' = [qsets EXCEPT ![n] = normalizeQSet(@, NoNode)]

Next == \E n \in Node : LocalNode(n)

Spec == Init /\ [][Next]_qsets

-----------------------------------------------------------------------------
Slices(q) == {S \in SUBSET Node : isQuorumSlice(q, S)}

(* isVBlocking, which counts down per nesting level, finds exactly the     *)
(* sets that meet every slice; and slices are closed upwards, not empty.   *)
BlockingMeetsSlices == \A n \in Node :
  LET slices == Slices(qsets[n])
  IN  /\ Node \in slices /\ {} \notin slices
      /\ \A S \in slices : \A m \in Node : S \cup {m} \in slices
      /\ \A S \in SUBSET Node :
           isVBlocking(qsets[n], S) <=> \A T \in slices : S \cap T # {}

(* isQuorum's loop finds a quorum exactly when S contains one: a set that  *)
(* has a slice of the local node and a slice of each of its own members.   *)
QuorumFound == \A n \in Node : \A S \in SUBSET Node :
  isQuorum(qsets[n], S) <=>
    \E Q \in SUBSET S : /\ isQuorumSlice(qsets[n], Q)
                        /\ \A m \in Q : isQuorumSlice(qsets[m], Q)

(* T blocks q, with the nodes outside `nodes` but for one that never fails. *)
Blocks(q, nodes, up, T) == isVBlocking(q, (Node \ (nodes \cup {up})) \cup T)

(* Whom findClosestVBlocking may leave out: nobody, or, of a quorum set    *)
(* that is normal and passes the extra checks, any node but an only one.   *)
Excludable(q) == {NoNode} \cup
  {m \in Node : /\ isQuorumSetSane(q, TRUE) /\ normalizeQSet(q, NoNode) = q
                /\ NodesOf(q) # {m}}

(* findClosestVBlocking returns nodes whose failure, with the ones already *)
(* missing, blocks the quorum set, and no smaller set of nodes does; with  *)
(* a node excluded, as getJsonQuorumInfo does with the one it reports on,  *)
(* the same is true of the others, that node being up.                     *)
ClosestIsBest == \A n \in Node : \A nodes \in SUBSET Node :
  \A up \in Excludable(qsets[n]) :
    LET found == findClosestVBlocking(qsets[n], nodes, up)
        F == {found[k] : k \in DOMAIN found}
    IN  /\ F \subseteq nodes \ {up} /\ Blocks(qsets[n], nodes, up, F)
        /\ \A T \in SUBSET (nodes \ {up}) :
             Blocks(qsets[n], nodes, up, T) => Cardinality(T) >= Len(found)

(* Any other node of the quorum set may become a nomination leader:        *)
(* updateRoundLeaders takes the local node out of the quorum set, which    *)
(* lowers thresholds, and every node left must have a positive weight no   *)
(* more than the maximum, or its loop would never find a new leader.  Only *)
(* for quorum sets that pass the extra checks made of a configuration.     *)
LeaderPossible == \A n \in Node :
  LET q == normalizeQSet(qsets[n], n)
  IN  isQuorumSetSane(qsets[n], TRUE) =>
        /\ NodesOf(q) = NodesOf(qsets[n]) \ {n}
        /\ \A m \in Node : LET w == getNodeWeight(m, q)
                           IN  IF m \in NodesOf(q)
                               THEN 0 < w /\ w <= UINT64_MAX ELSE w = 0

RECURSIVE Backwards(_)
Backwards(q) ==
  [q EXCEPT !.validators = Reverse(@),
            !.innerSets = Reverse([k \in DOMAIN @ |-> Backwards(@[k])])]

(* The normal form of a quorum set is sane, has the same slices and nodes, *)
(* is reached at once, and does not depend on the order in which a quorum  *)
(* set is written down: nodes with the same quorum set send the same hash. *)
NormalForm == \A n \in Node :
  LET q == qsets[n]
      normal == normalizeQSet(q, NoNode)
  IN  /\ isQuorumSetSane(normal, FALSE)
      /\ Slices(normal) = Slices(q) /\ NodesOf(normal) = NodesOf(q)
      /\ normalizeQSet(normal, NoNode) = normal
      /\ normalizeQSet(Backwards(q), NoNode) = normal
=============================================================================
