------------------------- MODULE BallotPledgeProofs -------------------------
(***************************************************************************)
(* The attempts of the ballot protocol, on the pledges of all the nodes:   *)
(* each is a step of federated voting, because the statements a node acts  *)
(* upon are backed by what their authors pledged.                          *)
(***************************************************************************)
EXTENDS BallotStateProofs, BallotSteps

(* Most leaves are steps of logic and are left to Zenon; those that need   *)
(* arithmetic say so.                                                      *)
USE Zenon

-----------------------------------------------------------------------------
(* Pledges are sets of ballots.                                            *)
LEMMA PledgeType ==
  ASSUME NEW r \in Pledges, NEW s
  PROVE  Pledge(r, s) \in Pledges
<1>1. \A phase, S : In(s, phase, S) \subseteq Ballot
  BY DEF In
<1>2. QED BY <1>1 DEF Pledge, Pledges

-----------------------------------------------------------------------------
(* Federated voting on the pledges P of all nodes.                         *)

VotedPrep(P, b) ==
  {m \in Node :
     \/ \E x \in P[m].votedPrepare : areBallotsLessAndCompatible(b, x)
     \/ \E x \in P[m].acceptedCommit : areBallotsCompatible(b, x)}

AcceptedPrep(P, b) ==
  {m \in Node : \E x \in P[m].acceptedPrepare : areBallotsLessAndCompatible(b, x)}

ExternPrep(P, b) ==
  {m \in Node : \E x \in P[m].committed : areBallotsCompatible(b, x)}

VotedComm(P, a) ==
  {m \in Node :
     \/ a \in P[m].votedCommit
     \/ \E x \in P[m].acceptedCommit : areBallotsLessAndCompatible(x, a)}

AcceptedComm(P, a) == {m \in Node : a \in P[m].acceptedCommit}

ExternComm(P, a) ==
  {m \in Node : \E x \in P[m].committed : areBallotsLessAndCompatible(x, a)}

MayAcceptPrepare(P, n, b) ==
  Voting!Accept(n, VotedPrep(P, b), AcceptedPrep(P, b), ExternPrep(P, b))

MayConfirmPrepare(P, n, b) ==
  Voting!Convinced(n, AcceptedPrep(P, b), ExternPrep(P, b))

MayAcceptCommit(P, n, a) ==
  Voting!Accept(n, VotedComm(P, a), AcceptedComm(P, a), ExternComm(P, a))

MayConfirmCommit(P, n, a) ==
  Voting!Convinced(n, AcceptedComm(P, a), ExternComm(P, a))

(* A quorum the code finds (isQuorum) convinces n in the sense of          *)
(* federated voting.                                                       *)
LEMMA QuorumConvinced ==
  ASSUME NEW n \in Node, NEW s, NEW S, isQuorum(n, s, S), NEW Plain, NEW Ext,
         \A m \in Node : m \in S =>
           IF IsExternalize(s.M[m]) THEN m \in Ext ELSE m \in Plain
  PROVE  Voting!Convinced(n, Plain, Ext)
<1>1. PICK Q \in QuorumSlices[n] :
        /\ Q \subseteq S
        /\ \A m \in Q : IsExternalize(s.M[m]) \/ Q \in QuorumSlices[m]
  BY DEF isQuorum
<1>2. Q \in SUBSET Node
  BY <1>1, SliceAssumption
<1>3. \A m \in Q \cap Node : \/ m \in Ext
                             \/ m \in Plain /\ Q \in QuorumSlices[m]
  BY <1>1, <1>2
<1>4. QED BY <1>1, <1>2, <1>3 DEF Voting!Convinced

(* A v-blocking set of n meets every slice of n.                           *)
LEMMA BlockingBlocked ==
  ASSUME NEW n \in Node, NEW S \in VBlocking[n], NEW T, S \subseteq T
  PROVE  Voting!Blocked(n, T)
<1>1. \A X \in QuorumSlices[n] : S \cap X # {}
  BY SliceAssumption
<1>2. QED BY <1>1 DEF Voting!Blocked

(* federatedAccept and federatedRatify, on sets of nodes that pledged, are *)
(* accepting and confirming in federated voting.                           *)
LEMMA AcceptSound ==
  ASSUME NEW n \in Node, NEW s, NEW voted, NEW accepted,
         federatedAccept(n, s, voted, accepted),
         NEW Votes, NEW Accepts, NEW Ext,
         \A m \in Node : m \in voted =>
           IF IsExternalize(s.M[m]) THEN m \in Ext ELSE m \in Votes,
         \A m \in Node : m \in accepted =>
           IF IsExternalize(s.M[m]) THEN m \in Ext ELSE m \in Accepts,
         accepted \subseteq Node
  PROVE  Voting!Accept(n, Votes, Accepts, Ext)
<1>1. CASE accepted \in VBlocking[n]
  <2>1. accepted \subseteq Accepts \cup Ext
    OBVIOUS
  <2>2. QED BY <1>1, <2>1, BlockingBlocked DEF Voting!Accept
<1>2. CASE isQuorum(n, s, voted \cup accepted)
  <2>1. \A m \in Node : m \in voted \cup accepted =>
          IF IsExternalize(s.M[m]) THEN m \in Ext ELSE m \in Votes \cup Accepts
    OBVIOUS
  <2>2. QED BY <1>2, <2>1, QuorumConvinced DEF Voting!Accept
<1>3. QED BY <1>1, <1>2 DEF federatedAccept

-----------------------------------------------------------------------------
(* What a statement says is among the pledges of its author.               *)
Honest(P, st) ==
  LET r == P[st.node]
  IN  /\ IsPrepare(st) =>
           /\ st.b \in r.votedPrepare \cup {NullBallot}
           /\ st.p \in r.acceptedPrepare \cup {NullBallot}
           /\ st.pp \in r.acceptedPrepare \cup {NullBallot}
           /\ st.nC # 0 => \A k \in st.nC .. st.nH :
                             makeBallot(k, st.b.value) \in r.votedCommit
      /\ IsConfirm(st) =>
           /\ makeBallot(st.nPrepared, st.b.value) \in r.acceptedPrepare
           /\ st.nCommit <= st.nH
           /\ \A k \in st.nCommit .. st.nH :
                makeBallot(k, st.b.value) \in r.acceptedCommit
      /\ IsExternalize(st) => st.commit \in r.committed

HonestOf(P, m, st) == st = NoStatement \/ (st.node = m /\ Honest(P, st))

HonestKnown(P, s) == \A m \in Node : HonestOf(P, m, s.M[m])

(* A statement for which votesPrepared holds comes from a node that voted  *)
(* for the ballot or for what implies it.                                  *)
LEMMA VotesPreparedSound ==
  ASSUME NEW P, NEW st \in Statement, Honest(P, st), NEW x \in Ballot,
         votesPrepared(x, st)
  PROVE  IF IsExternalize(st) THEN st.node \in ExternPrep(P, x)
                              ELSE st.node \in VotedPrep(P, x)
<1>1. st.node \in Node
  BY StatementFields
<1>2. CASE IsPrepare(st)
  <2>1. areBallotsLessAndCompatible(x, st.b) /\ ~IsExternalize(st)
    BY <1>2, StatementFields DEF votesPrepared
  <2>2. st.b # NullBallot
    <3>1. x.value = st.b.value /\ x.value # 0
      BY <2>1, BallotFields DEF areBallotsLessAndCompatible,
                                areBallotsCompatible, BallotOrNull
    <3>2. QED BY <3>1, SMT DEF NullBallot
  <2>3. st.b \in P[st.node].votedPrepare
    BY <1>2, <2>2 DEF Honest
  <2>4. QED BY <1>1, <2>1, <2>3 DEF VotedPrep
<1>3. CASE IsConfirm(st)
  <2>1. ~IsPrepare(st) /\ ~IsExternalize(st) /\ st.nCommit \in Nat
        /\ st.nH \in Nat /\ st.nCommit <= st.nH
    BY <1>3, StatementFields, CounterNat DEF Honest
  <2>2. areBallotsCompatible(x, makeBallot(st.nCommit, st.b.value))
    BY <1>3, <2>1 DEF votesPrepared, getWorkingBallot
  <2>3. makeBallot(st.nCommit, st.b.value) \in P[st.node].acceptedCommit
    BY <1>3, <2>1, SMT DEF Honest
  <2>4. QED BY <1>1, <2>1, <2>2, <2>3 DEF VotedPrep
<1>4. CASE IsExternalize(st)
  <2>1. ~IsPrepare(st) /\ ~IsConfirm(st)
    BY <1>4, StatementFields
  <2>2. areBallotsCompatible(x, st.commit)
    BY <1>4, <2>1 DEF votesPrepared, getWorkingBallot
  <2>3. st.commit \in P[st.node].committed
    BY <1>4 DEF Honest
  <2>4. QED BY <1>1, <1>4, <2>2, <2>3 DEF ExternPrep
<1>5. QED BY <1>2, <1>3, <1>4, StatementFields

(* A statement for which hasPreparedBallot holds comes from a node that    *)
(* accepted the ballot as prepared.                                        *)
LEMMA HasPreparedSound ==
  ASSUME NEW P, NEW st \in Statement, Honest(P, st), NEW x \in Ballot,
         hasPreparedBallot(x, st)
  PROVE  IF IsExternalize(st) THEN st.node \in ExternPrep(P, x)
                              ELSE st.node \in AcceptedPrep(P, x)
<1>1. st.node \in Node
  BY StatementFields
<1>2. CASE IsPrepare(st)
  <2>1. ~IsConfirm(st) /\ ~IsExternalize(st)
    BY <1>2, StatementFields
  <2>2. PICK y \in {st.p, st.pp} \ {NullBallot} :
          areBallotsLessAndCompatible(x, y)
    BY <1>2, <2>1 DEF hasPreparedBallot
  <2>3. y \in P[st.node].acceptedPrepare
    BY <1>2, <2>2 DEF Honest
  <2>4. QED BY <1>1, <2>1, <2>2, <2>3 DEF AcceptedPrep
<1>3. CASE IsConfirm(st)
  <2>1. ~IsPrepare(st) /\ ~IsExternalize(st)
    BY <1>3, StatementFields
  <2>2. areBallotsLessAndCompatible(x, makeBallot(st.nPrepared, st.b.value))
    BY <1>3, <2>1 DEF hasPreparedBallot
  <2>3. makeBallot(st.nPrepared, st.b.value) \in P[st.node].acceptedPrepare
    BY <1>3 DEF Honest
  <2>4. QED BY <1>1, <2>1, <2>2, <2>3 DEF AcceptedPrep
<1>4. CASE IsExternalize(st)
  <2>1. ~IsPrepare(st) /\ ~IsConfirm(st)
    BY <1>4, StatementFields
  <2>2. areBallotsCompatible(x, st.commit)
    BY <1>4, <2>1 DEF hasPreparedBallot
  <2>3. st.commit \in P[st.node].committed
    BY <1>4 DEF Honest
  <2>4. QED BY <1>1, <1>4, <2>2, <2>3 DEF ExternPrep
<1>5. QED BY <1>2, <1>3, <1>4, StatementFields

(* A statement that votes to commit the ballots of v from lo to hi comes   *)
(* from a node that did.                                                   *)
LEMMA VotesCommitSound ==
  ASSUME NEW P, NEW st \in Statement, Honest(P, st), NEW v \in Value,
         NEW lo \in Counter \ {0}, NEW hi \in Counter \ {0},
         NEW k \in lo .. hi, votesCommit(v, lo, hi, st)
  PROVE  IF IsExternalize(st) THEN st.node \in ExternComm(P, makeBallot(k, v))
                              ELSE st.node \in VotedComm(P, makeBallot(k, v))
<1>1. st.node \in Node
  BY StatementFields
<1>2. lo \in Nat \ {0} /\ hi \in Nat /\ k \in Nat /\ lo <= k /\ k <= hi
  BY CounterNat, SMT
<1>3. CASE IsPrepare(st)
  <2>1. /\ ~IsConfirm(st) /\ ~IsExternalize(st) /\ st.nC \in Nat
        /\ st.nH \in Nat
    BY <1>3, StatementFields, CounterNat
  <2>2. v = st.b.value /\ st.nC # 0 /\ st.nC <= lo /\ hi <= st.nH
    BY <1>3, <2>1 DEF votesCommit, getWorkingBallot
  <2>3. k \in st.nC .. st.nH
    BY <1>2, <2>1, <2>2, SMT
  <2>4. makeBallot(k, v) \in P[st.node].votedCommit
    BY <1>3, <2>2, <2>3 DEF Honest
  <2>5. QED BY <1>1, <2>1, <2>4 DEF VotedComm
<1>4. CASE IsConfirm(st)
  <2>1. /\ ~IsPrepare(st) /\ ~IsExternalize(st) /\ st.nCommit \in Nat \ {0}
        /\ st.nH \in Nat /\ st.nCommit <= st.nH /\ st.nCommit \in Counter
        /\ st.b.value \in Value
    BY <1>4, StatementFields, CounterNat, BallotFields DEF Honest, Ballot
  <2>2. v = st.b.value /\ st.nCommit <= lo
    BY <1>4, <2>1 DEF votesCommit, getWorkingBallot, makeBallot
  <2>3. makeBallot(st.nCommit, v) \in P[st.node].acceptedCommit
    BY <1>4, <2>1, <2>2, SMT DEF Honest
  <2>4. areBallotsLessAndCompatible(makeBallot(st.nCommit, v), makeBallot(k, v))
    BY <1>2, <2>1, <2>2, SMT
    DEF makeBallot, areBallotsLessAndCompatible, areBallotsCompatible, LessEq,
        Less
  <2>5. QED BY <1>1, <2>1, <2>3, <2>4 DEF VotedComm
<1>5. CASE IsExternalize(st)
  <2>1. /\ ~IsPrepare(st) /\ ~IsConfirm(st) /\ st.commit \in Ballot
        /\ st.commit.counter \in Nat
        /\ st.commit = makeBallot(st.commit.counter, st.commit.value)
    BY <1>5, StatementFields, BallotFields DEF BallotOrNull, makeBallot
  <2>2. v = st.commit.value /\ st.commit.counter <= lo
    BY <1>5, <2>1 DEF votesCommit, getWorkingBallot
  <2>3. st.commit \in P[st.node].committed
    BY <1>5 DEF Honest
  <2>4. areBallotsLessAndCompatible(st.commit, makeBallot(k, v))
    BY <1>2, <2>1, <2>2, SMT
    DEF makeBallot, areBallotsLessAndCompatible, areBallotsCompatible, LessEq,
        Less
  <2>5. QED BY <1>1, <1>5, <2>3, <2>4 DEF ExternComm
<1>6. QED BY <1>3, <1>4, <1>5, StatementFields

(* A statement that says the ballots of v from lo to hi are accepted as    *)
(* committed comes from a node that accepted them.                         *)
LEMMA CommitPredicateSound ==
  ASSUME NEW P, NEW st \in Statement, Honest(P, st), NEW v \in Value,
         NEW lo \in Counter \ {0}, NEW hi \in Counter \ {0},
         NEW k \in lo .. hi, commitPredicate(v, lo, hi, st)
  PROVE  IF IsExternalize(st) THEN st.node \in ExternComm(P, makeBallot(k, v))
                              ELSE st.node \in AcceptedComm(P, makeBallot(k, v))
<1>1. st.node \in Node
  BY StatementFields
<1>2. lo \in Nat \ {0} /\ hi \in Nat /\ k \in Nat /\ lo <= k /\ k <= hi
  BY CounterNat, SMT
<1>3. ~IsPrepare(st)
  BY StatementFields DEF commitPredicate
<1>4. CASE IsConfirm(st)
  <2>1. /\ ~IsExternalize(st) /\ st.nCommit \in Nat /\ st.nH \in Nat
    BY <1>4, StatementFields, CounterNat
  <2>2. v = st.b.value /\ st.nCommit <= lo /\ hi <= st.nH
    BY <1>3, <1>4, <2>1 DEF commitPredicate, getWorkingBallot, makeBallot
  <2>3. k \in st.nCommit .. st.nH
    BY <1>2, <2>1, <2>2, SMT
  <2>4. makeBallot(k, v) \in P[st.node].acceptedCommit
    BY <1>4, <2>2, <2>3 DEF Honest
  <2>5. QED BY <1>1, <2>1, <2>4 DEF AcceptedComm
<1>5. CASE IsExternalize(st)
  <2>1. v = st.commit.value /\ st.commit.counter <= lo
    BY <1>3, <1>5, StatementFields DEF commitPredicate, getWorkingBallot
  <2>2. votesCommit(v, lo, hi, st)
    BY <1>3, <1>5, <2>1, StatementFields DEF votesCommit, getWorkingBallot
  <2>3. QED BY <1>5, <2>2, VotesCommitSound
<1>6. QED BY <1>3, <1>4, <1>5, StatementFields

-----------------------------------------------------------------------------
(* What the node finds in the statements it knows.                         *)

(* The statements a node knows are backed by pledges.                      *)
LEMMA KnownHonest ==
  ASSUME NEW P, NEW s \in NodeState, HonestKnown(P, s), NEW m \in Known(s)
  PROVE  /\ m \in Node /\ s.M[m] \in Statement /\ s.M[m].node = m
         /\ Honest(P, s.M[m])
BY DEF HonestKnown, HonestOf, Known, NodeState

(* What the code accepts as prepared may be accepted in federated voting.  *)
LEMMA AcceptPrepareSound ==
  ASSUME NEW P, NEW n \in Node, NEW s \in NodeState, HonestKnown(P, s),
         NEW x \in Ballot,
         federatedAccept(n, s, {m \in Known(s) : votesPrepared(x, s.M[m])},
                         acceptedPrepared(s, x))
  PROVE  MayAcceptPrepare(P, n, x)
<1> DEFINE voted == {m \in Known(s) : votesPrepared(x, s.M[m])}
           accepted == acceptedPrepared(s, x)
<1>1. \A m \in Node : m \in voted =>
        IF IsExternalize(s.M[m]) THEN m \in ExternPrep(P, x)
                                 ELSE m \in VotedPrep(P, x)
  BY KnownHonest, VotesPreparedSound
<1>2. \A m \in Node : m \in accepted =>
        IF IsExternalize(s.M[m]) THEN m \in ExternPrep(P, x)
                                 ELSE m \in AcceptedPrep(P, x)
  BY KnownHonest, HasPreparedSound DEF acceptedPrepared
<1>3. accepted \subseteq Node
  BY DEF acceptedPrepared, Known
<1>4. federatedAccept(n, s, voted, accepted)
  OBVIOUS
<1> HIDE DEF voted, accepted
<1>5. QED BY <1>1, <1>2, <1>3, <1>4, AcceptSound DEF MayAcceptPrepare

(* What the code confirms as prepared may be confirmed in federated        *)
(* voting.                                                                 *)
LEMMA ConfirmPrepareSound ==
  ASSUME NEW P, NEW n \in Node, NEW s \in NodeState, HonestKnown(P, s),
         NEW x \in Ballot, federatedRatify(n, s, acceptedPrepared(s, x))
  PROVE  MayConfirmPrepare(P, n, x)
<1>1. \A m \in Node : m \in acceptedPrepared(s, x) =>
        IF IsExternalize(s.M[m]) THEN m \in ExternPrep(P, x)
                                 ELSE m \in AcceptedPrep(P, x)
  BY KnownHonest, HasPreparedSound DEF acceptedPrepared
<1>2. QED BY <1>1, QuorumConvinced DEF federatedRatify, MayConfirmPrepare

(* What the code accepts as committed may be accepted in federated voting. *)
LEMMA AcceptCommitSound ==
  ASSUME NEW P, NEW n \in Node, NEW s \in NodeState, HonestKnown(P, s),
         NEW v \in Value, NEW lo \in Counter \ {0}, NEW hi \in Counter \ {0},
         federatedAccept(n, s, {m \in Known(s) : votesCommit(v, lo, hi, s.M[m])},
                         pledgedCommit(s, v, lo, hi)),
         NEW k \in lo .. hi
  PROVE  MayAcceptCommit(P, n, makeBallot(k, v))
<1> DEFINE voted == {m \in Known(s) : votesCommit(v, lo, hi, s.M[m])}
           accepted == pledgedCommit(s, v, lo, hi)
           a == makeBallot(k, v)
<1>1. \A m \in Node : m \in voted =>
        IF IsExternalize(s.M[m]) THEN m \in ExternComm(P, a)
                                 ELSE m \in VotedComm(P, a)
  BY KnownHonest, VotesCommitSound, SMT
<1>2. \A m \in Node : m \in accepted =>
        IF IsExternalize(s.M[m]) THEN m \in ExternComm(P, a)
                                 ELSE m \in AcceptedComm(P, a)
  BY KnownHonest, CommitPredicateSound, SMT DEF pledgedCommit
<1>3. accepted \subseteq Node
  BY DEF pledgedCommit, Known
<1>4. federatedAccept(n, s, voted, accepted)
  OBVIOUS
<1> HIDE DEF voted, accepted
<1>5. QED BY <1>1, <1>2, <1>3, <1>4, AcceptSound DEF MayAcceptCommit

(* What the code confirms as committed may be confirmed in federated       *)
(* voting.                                                                 *)
LEMMA ConfirmCommitSound ==
  ASSUME NEW P, NEW n \in Node, NEW s \in NodeState, HonestKnown(P, s),
         NEW v \in Value, NEW lo \in Counter \ {0}, NEW hi \in Counter \ {0},
         federatedRatify(n, s, pledgedCommit(s, v, lo, hi)),
         NEW k \in lo .. hi
  PROVE  MayConfirmCommit(P, n, makeBallot(k, v))
<1> DEFINE a == makeBallot(k, v)
<1>1. \A m \in Node : m \in pledgedCommit(s, v, lo, hi) =>
        IF IsExternalize(s.M[m]) THEN m \in ExternComm(P, a)
                                 ELSE m \in AcceptedComm(P, a)
  BY KnownHonest, CommitPredicateSound, SMT DEF pledgedCommit
<1>2. QED BY <1>1, QuorumConvinced DEF federatedRatify, MayConfirmCommit

-----------------------------------------------------------------------------
(* Pledges are never taken back.                                           *)
GrewBy(r, q) ==
  /\ r.votedPrepare \subseteq q.votedPrepare
  /\ r.acceptedPrepare \subseteq q.acceptedPrepare
  /\ r.votedCommit \subseteq q.votedCommit
  /\ r.acceptedCommit \subseteq q.acceptedCommit
  /\ r.committed \subseteq q.committed

Grew(P, Q) == \A m \in Node : GrewBy(P[m], Q[m])

(* A statement backed by pledges stays so as pledges grow.                 *)
LEMMA HonestGrew ==
  ASSUME NEW P, NEW Q, Grew(P, Q), NEW st \in Statement, Honest(P, st)
  PROVE  Honest(Q, st)
<1>1. GrewBy(P[st.node], Q[st.node])
  BY StatementFields DEF Grew
<1>2. QED BY <1>1 DEF Honest, GrewBy

(* What may be confirmed as prepared may still be as pledges grow.         *)
LEMMA ConfirmableGrew ==
  ASSUME NEW P, NEW Q, Grew(P, Q), NEW n \in Node, NEW x,
         MayConfirmPrepare(P, n, x)
  PROVE  MayConfirmPrepare(Q, n, x)
<1>1. /\ AcceptedPrep(P, x) \subseteq AcceptedPrep(Q, x)
      /\ ExternPrep(P, x) \subseteq ExternPrep(Q, x)
  BY DEF Grew, GrewBy, AcceptedPrep, ExternPrep
<1>2. QED BY <1>1 DEF MayConfirmPrepare, Voting!Convinced

(* What may be confirmed as prepared may be so at every lower compatible   *)
(* ballot.                                                                 *)
LEMMA ConfirmableDown ==
  ASSUME NEW P \in [Node -> Pledges], NEW n \in Node, NEW x \in Ballot,
         NEW y \in Ballot,
         areBallotsLessAndCompatible(x, y), MayConfirmPrepare(P, n, y)
  PROVE  MayConfirmPrepare(P, n, x)
<1>1. AcceptedPrep(P, y) \subseteq AcceptedPrep(P, x)
  <2>1. SUFFICES ASSUME NEW m \in Node, NEW z \in P[m].acceptedPrepare,
                        areBallotsLessAndCompatible(y, z)
                 PROVE  areBallotsLessAndCompatible(x, z)
    BY DEF AcceptedPrep
  <2>2. z \in BallotOrNull /\ x \in BallotOrNull /\ y \in BallotOrNull
    BY <2>1 DEF Pledges, BallotOrNull
  <2>3. QED BY <2>1, <2>2, BallotOrder
            DEF areBallotsLessAndCompatible, areBallotsCompatible
<1>2. ExternPrep(P, y) \subseteq ExternPrep(P, x)
  BY DEF ExternPrep, areBallotsLessAndCompatible, areBallotsCompatible
<1>3. QED BY <1>1, <1>2 DEF MayConfirmPrepare, Voting!Convinced

-----------------------------------------------------------------------------
(* The pledges a state shows.                                              *)
BallotRange(v, lo, hi) == {makeBallot(k, v) : k \in lo .. hi}

(* The ballots from c to h are those of one value with the counters        *)
(* between; there are none when c is null.                                 *)
LEMMA RangeFacts ==
  ASSUME NEW s \in NodeState
  PROVE  /\ CommitRange(s) \subseteq Ballot
         /\ s.c = NullBallot => CommitRange(s) = {}
         /\ s.c # NullBallot /\ s.h # NullBallot
            /\ areBallotsLessAndCompatible(s.c, s.h) =>
              /\ CommitRange(s) =
                   BallotRange(s.c.value, s.c.counter, s.h.counter)
              /\ s.c \in CommitRange(s) /\ s.h \in CommitRange(s)
<1>1. s.c \in BallotOrNull /\ s.h \in BallotOrNull
  BY DEF NodeState
<1>2. CommitRange(s) \subseteq Ballot
  BY DEF CommitRange
<1>3. ASSUME s.c = NullBallot, NEW x \in CommitRange(s) PROVE FALSE
  <2>1. x \in Ballot /\ x.value = 0
    BY <1>3, SMT DEF CommitRange, areBallotsLessAndCompatible,
                areBallotsCompatible, NullBallot
  <2>2. QED BY <2>1, BallotFields DEF BallotOrNull
<1>4. ASSUME s.c # NullBallot, s.h # NullBallot,
             areBallotsLessAndCompatible(s.c, s.h)
      PROVE  /\ CommitRange(s) = BallotRange(s.c.value, s.c.counter, s.h.counter)
             /\ s.c \in CommitRange(s) /\ s.h \in CommitRange(s)
  <2>1. s.c \in Ballot /\ s.h \in Ballot /\ s.h.value = s.c.value
    BY <1>1, <1>4, BallotFields
    DEF areBallotsLessAndCompatible, areBallotsCompatible
  <2>2. /\ s.c.counter \in Nat \ {0} /\ s.h.counter \in Nat
        /\ s.c.counter \in Counter /\ s.h.counter \in Counter
        /\ s.c.value \in Value
    BY <1>1, <2>1, BallotFields
  <2>3. ASSUME NEW x \in CommitRange(s)
        PROVE  x \in BallotRange(s.c.value, s.c.counter, s.h.counter)
    <3>1. /\ x \in Ballot /\ areBallotsLessAndCompatible(s.c, x)
          /\ areBallotsLessAndCompatible(x, s.h)
      BY <2>3 DEF CommitRange
    <3>2. x.value = s.c.value
      BY <3>1 DEF areBallotsLessAndCompatible, areBallotsCompatible
    <3>3. s.c.counter <= x.counter /\ x.counter <= s.h.counter
      BY <1>1, <2>1, <3>1, <3>2, SameValueOrder DEF BallotOrNull
    <3>4. x = makeBallot(x.counter, s.c.value) /\ x.counter \in Nat
      BY <3>1, <3>2, BallotFields DEF BallotOrNull, makeBallot
    <3>5. x.counter \in s.c.counter .. s.h.counter
      BY <2>2, <3>3, <3>4, SMT
    <3>6. QED BY <3>4, <3>5 DEF BallotRange
  <2>4. ASSUME NEW k \in s.c.counter .. s.h.counter
        PROVE  makeBallot(k, s.c.value) \in CommitRange(s)
    <3>1. k \in Nat \ {0} /\ s.c.counter <= k /\ k <= s.h.counter
      BY <2>2, <2>4, SMT
    <3>2. k \in Counter \ {0}
      BY <2>2, <3>1, CounterAssumption, SMT DEF Counter
    <3>3. PICK x \in Ballot : x = makeBallot(k, s.c.value)
      BY <2>2, <3>2, MakeBallot
    <3>4. x.counter = k /\ x.value = s.c.value
      BY <3>3 DEF makeBallot
    <3>5. /\ areBallotsLessAndCompatible(s.c, x)
          /\ areBallotsLessAndCompatible(x, s.h)
      BY <1>1, <2>1, <3>1, <3>4, SameValueOrder DEF BallotOrNull
    <3>6. QED BY <3>3, <3>5 DEF CommitRange
  <2>5. CommitRange(s) = BallotRange(s.c.value, s.c.counter, s.h.counter)
    BY <2>3, <2>4 DEF BallotRange
  <2>6. s.c \in CommitRange(s) /\ s.h \in CommitRange(s)
    <3>1. s.c.counter <= s.h.counter
      BY <1>1, <1>4, <2>1, SameValueOrder
    <3>2. areBallotsLessAndCompatible(s.c, s.c) /\
          areBallotsLessAndCompatible(s.h, s.h)
      BY <1>1, <2>2, SameValueOrder, SMT
    <3>3. QED BY <1>4, <2>1, <3>2 DEF CommitRange
  <2>7. QED BY <2>5, <2>6
<1>5. QED BY <1>2, <1>3, <1>4

-----------------------------------------------------------------------------
(* The pledges r already hold what s shows.                                *)
Current(r, s) ==
  /\ s.phase = "PREPARE" =>
       /\ s.b \in r.votedPrepare \cup {NullBallot}
       /\ s.p \in r.acceptedPrepare \cup {NullBallot}
       /\ s.pp \in r.acceptedPrepare \cup {NullBallot}
       /\ CommitRange(s) \subseteq r.votedCommit
  /\ s.phase = "CONFIRM" =>
       /\ {makeBallot(s.p.counter, s.b.value)} \cap Ballot
            \subseteq r.acceptedPrepare
       /\ CommitRange(s) \subseteq r.acceptedCommit
  /\ s.phase = "EXTERNALIZE" => CommitRange(s) \subseteq r.committed

(* What each kind of pledge becomes, by the phase of the node; pledges are *)
(* never withdrawn.                                                        *)
LEMMA PledgeFields ==
  ASSUME NEW r \in Pledges, NEW s \in NodeState
  PROVE  LET R == Pledge(r, s)
         IN  /\ R \in Pledges /\ GrewBy(r, R)
             /\ s.phase = "PREPARE" =>
                  /\ R.votedPrepare = r.votedPrepare \cup ({s.b} \cap Ballot)
                  /\ R.acceptedPrepare =
                       r.acceptedPrepare \cup ({s.p, s.pp} \cap Ballot)
                  /\ R.votedCommit = r.votedCommit \cup CommitRange(s)
                  /\ R.acceptedCommit = r.acceptedCommit
                  /\ R.committed = r.committed
             /\ s.phase = "CONFIRM" =>
                  /\ R.votedPrepare = r.votedPrepare
                  /\ R.acceptedPrepare = r.acceptedPrepare \cup
                       ({makeBallot(s.p.counter, s.b.value)} \cap Ballot)
                  /\ R.votedCommit = r.votedCommit
                  /\ R.acceptedCommit = r.acceptedCommit \cup CommitRange(s)
                  /\ R.committed = r.committed
             /\ s.phase = "EXTERNALIZE" =>
                  /\ R.votedPrepare = r.votedPrepare
                  /\ R.acceptedPrepare = r.acceptedPrepare
                  /\ R.votedCommit = r.votedCommit
                  /\ R.acceptedCommit = r.acceptedCommit
                  /\ R.committed = r.committed \cup CommitRange(s)
<1>1. PICK C : C = CommitRange(s)
  OBVIOUS
<1>2. C \subseteq Ballot
  BY <1>1, RangeFacts
<1>3. PICK q : q = makeBallot(s.p.counter, s.b.value)
  OBVIOUS
<1> DEFINE R == Pledge(r, s)
<1>4. R = [votedPrepare |-> r.votedPrepare \cup In(s, "PREPARE", {s.b}),
           acceptedPrepare |-> r.acceptedPrepare
             \cup In(s, "PREPARE", {s.p, s.pp}) \cup In(s, "CONFIRM", {q}),
           votedCommit |-> r.votedCommit \cup In(s, "PREPARE", C),
           acceptedCommit |-> r.acceptedCommit \cup In(s, "CONFIRM", C),
           committed |-> r.committed \cup In(s, "EXTERNALIZE", C)]
  BY <1>1, <1>3 DEF Pledge
<1>5. R \in Pledges
  BY PledgeType
<1> HIDE DEF R
<1>6. /\ R.votedPrepare = r.votedPrepare \cup In(s, "PREPARE", {s.b})
      /\ R.acceptedPrepare = r.acceptedPrepare
           \cup In(s, "PREPARE", {s.p, s.pp}) \cup In(s, "CONFIRM", {q})
      /\ R.votedCommit = r.votedCommit \cup In(s, "PREPARE", C)
      /\ R.acceptedCommit = r.acceptedCommit \cup In(s, "CONFIRM", C)
      /\ R.committed = r.committed \cup In(s, "EXTERNALIZE", C)
  BY <1>4
<1>12. GrewBy(r, R)
  BY <1>6 DEF GrewBy
<1> SUFFICES
      /\ s.phase = "PREPARE" =>
           /\ R.votedPrepare = r.votedPrepare \cup ({s.b} \cap Ballot)
           /\ R.acceptedPrepare =
                r.acceptedPrepare \cup ({s.p, s.pp} \cap Ballot)
           /\ R.votedCommit = r.votedCommit \cup C
           /\ R.acceptedCommit = r.acceptedCommit
           /\ R.committed = r.committed
      /\ s.phase = "CONFIRM" =>
           /\ R.votedPrepare = r.votedPrepare
           /\ R.acceptedPrepare = r.acceptedPrepare \cup ({q} \cap Ballot)
           /\ R.votedCommit = r.votedCommit
           /\ R.acceptedCommit = r.acceptedCommit \cup C
           /\ R.committed = r.committed
      /\ s.phase = "EXTERNALIZE" =>
           /\ R.votedPrepare = r.votedPrepare
           /\ R.acceptedPrepare = r.acceptedPrepare
           /\ R.votedCommit = r.votedCommit
           /\ R.acceptedCommit = r.acceptedCommit
           /\ R.committed = r.committed \cup C
  BY <1>1, <1>3, <1>5, <1>12 DEF R
<1>7. C \cap Ballot = C
  BY <1>2
<1>8. CASE s.phase = "PREPARE"
  <2>1. /\ In(s, "PREPARE", {s.b}) = {s.b} \cap Ballot
        /\ In(s, "PREPARE", {s.p, s.pp}) = {s.p, s.pp} \cap Ballot
        /\ In(s, "CONFIRM", {q}) = {} /\ In(s, "PREPARE", C) = C
        /\ In(s, "CONFIRM", C) = {} /\ In(s, "EXTERNALIZE", C) = {}
    BY <1>7, <1>8 DEF In
  <2>2. QED BY <1>6, <1>8, <2>1
<1>9. CASE s.phase = "CONFIRM"
  <2>1. /\ In(s, "PREPARE", {s.b}) = {} /\ In(s, "PREPARE", {s.p, s.pp}) = {}
        /\ In(s, "CONFIRM", {q}) = {q} \cap Ballot
        /\ In(s, "PREPARE", C) = {}
        /\ In(s, "CONFIRM", C) = C /\ In(s, "EXTERNALIZE", C) = {}
    BY <1>7, <1>9 DEF In
  <2>2. QED BY <1>6, <1>9, <2>1
<1>10. CASE s.phase = "EXTERNALIZE"
  <2>1. /\ In(s, "PREPARE", {s.b}) = {} /\ In(s, "PREPARE", {s.p, s.pp}) = {}
        /\ In(s, "CONFIRM", {q}) = {} /\ In(s, "PREPARE", C) = {}
        /\ In(s, "CONFIRM", C) = {} /\ In(s, "EXTERNALIZE", C) = C
    BY <1>7, <1>10 DEF In
  <2>2. QED BY <1>6, <1>10, <2>1
<1>11. QED BY <1>8, <1>9, <1>10 DEF NodeState

(* What a node pledges in its PREPARE phase.                               *)
LEMMA PledgePrepare ==
  ASSUME NEW r \in Pledges, NEW s \in NodeState, s.phase = "PREPARE"
  PROVE  LET R == Pledge(r, s)
         IN  /\ R.votedPrepare = r.votedPrepare \cup ({s.b} \cap Ballot)
             /\ R.acceptedPrepare = r.acceptedPrepare \cup ({s.p, s.pp} \cap Ballot)
             /\ R.votedCommit = r.votedCommit \cup CommitRange(s)
             /\ R.acceptedCommit = r.acceptedCommit
             /\ R.committed = r.committed
BY PledgeFields

(* What it pledges in its CONFIRM phase.                                   *)
LEMMA PledgeConfirm ==
  ASSUME NEW r \in Pledges, NEW s \in NodeState, s.phase = "CONFIRM"
  PROVE  LET R == Pledge(r, s)
         IN  /\ R.votedPrepare = r.votedPrepare
             /\ R.acceptedPrepare = r.acceptedPrepare \cup
                  ({makeBallot(s.p.counter, s.b.value)} \cap Ballot)
             /\ R.votedCommit = r.votedCommit
             /\ R.acceptedCommit = r.acceptedCommit \cup CommitRange(s)
             /\ R.committed = r.committed
BY PledgeFields

(* What it pledges once it has externalized.                               *)
LEMMA PledgeExternalize ==
  ASSUME NEW r \in Pledges, NEW s \in NodeState, s.phase = "EXTERNALIZE"
  PROVE  LET R == Pledge(r, s)
         IN  /\ R.votedPrepare = r.votedPrepare
             /\ R.acceptedPrepare = r.acceptedPrepare
             /\ R.votedCommit = r.votedCommit
             /\ R.acceptedCommit = r.acceptedCommit
             /\ R.committed = r.committed \cup CommitRange(s)
BY PledgeFields

(* Two records of pledges with the same fields are equal.                  *)
LEMMA PledgesEqual ==
  ASSUME NEW r \in Pledges, NEW q \in Pledges,
         q.votedPrepare = r.votedPrepare, q.acceptedPrepare = r.acceptedPrepare,
         q.votedCommit = r.votedCommit, q.acceptedCommit = r.acceptedCommit,
         q.committed = r.committed
  PROVE  q = r
BY SMT DEF Pledges

(* What a state shows is among the pledges afterwards.                     *)
LEMMA PledgeCurrent ==
  ASSUME NEW r \in Pledges, NEW s \in NodeState
  PROVE  Current(Pledge(r, s), s)
<1>1. /\ s.b \in BallotOrNull /\ s.p \in BallotOrNull /\ s.pp \in BallotOrNull
  BY DEF NodeState
<1> DEFINE R == Pledge(r, s)
<1>2. /\ s.phase = "PREPARE" =>
           /\ R.votedPrepare = r.votedPrepare \cup ({s.b} \cap Ballot)
           /\ R.acceptedPrepare =
                r.acceptedPrepare \cup ({s.p, s.pp} \cap Ballot)
           /\ R.votedCommit = r.votedCommit \cup CommitRange(s)
      /\ s.phase = "CONFIRM" =>
           /\ R.acceptedPrepare = r.acceptedPrepare \cup
                ({makeBallot(s.p.counter, s.b.value)} \cap Ballot)
           /\ R.acceptedCommit = r.acceptedCommit \cup CommitRange(s)
      /\ s.phase = "EXTERNALIZE" =>
           R.committed = r.committed \cup CommitRange(s)
  BY PledgeFields, ZenonT(40)
<1> HIDE DEF R
<1>3. Current(R, s)
  BY <1>1, <1>2 DEF Current, BallotOrNull
<1>4. QED BY <1>3 DEF R

(* A state that shows nothing new adds no pledge.                          *)
LEMMA PledgeSame ==
  ASSUME NEW r \in Pledges, NEW s \in NodeState, Current(r, s)
  PROVE  Pledge(r, s) = r
<1> DEFINE R == Pledge(r, s)
<1>0. NullBallot \notin Ballot
  BY DEF NullBallot, Ballot
<1>1. R \in Pledges
  BY PledgeType
<1>2. CASE s.phase = "PREPARE"
  <2>1. /\ R.votedPrepare = r.votedPrepare \cup ({s.b} \cap Ballot)
        /\ R.acceptedPrepare = r.acceptedPrepare \cup ({s.p, s.pp} \cap Ballot)
        /\ R.votedCommit = r.votedCommit \cup CommitRange(s)
        /\ R.acceptedCommit = r.acceptedCommit
        /\ R.committed = r.committed
    BY <1>2, PledgeFields
  <2>2. /\ {s.b} \cap Ballot \subseteq r.votedPrepare
        /\ {s.p, s.pp} \cap Ballot \subseteq r.acceptedPrepare
        /\ CommitRange(s) \subseteq r.votedCommit
    BY <1>0, <1>2 DEF Current
  <2> HIDE DEF R
  <2>3. /\ R.votedPrepare = r.votedPrepare
        /\ R.acceptedPrepare = r.acceptedPrepare
        /\ R.votedCommit = r.votedCommit
    BY <2>1, <2>2
  <2>4. R = r
    BY <1>1, <2>1, <2>3, PledgesEqual
  <2>5. QED BY <2>4 DEF R
<1>3. CASE s.phase = "CONFIRM"
  <2>1. /\ R.votedPrepare = r.votedPrepare
        /\ R.acceptedPrepare = r.acceptedPrepare \cup
             ({makeBallot(s.p.counter, s.b.value)} \cap Ballot)
        /\ R.votedCommit = r.votedCommit
        /\ R.acceptedCommit = r.acceptedCommit \cup CommitRange(s)
        /\ R.committed = r.committed
    BY <1>3, PledgeFields
  <2>2. /\ {makeBallot(s.p.counter, s.b.value)} \cap Ballot
             \subseteq r.acceptedPrepare
        /\ CommitRange(s) \subseteq r.acceptedCommit
    BY <1>3 DEF Current
  <2> HIDE DEF R
  <2>3. /\ R.acceptedPrepare = r.acceptedPrepare
        /\ R.acceptedCommit = r.acceptedCommit
    BY <2>1, <2>2
  <2>4. R = r
    BY <1>1, <2>1, <2>3, PledgesEqual
  <2>5. QED BY <2>4 DEF R
<1>4. CASE s.phase = "EXTERNALIZE"
  <2>1. /\ R.votedPrepare = r.votedPrepare
        /\ R.acceptedPrepare = r.acceptedPrepare
        /\ R.votedCommit = r.votedCommit
        /\ R.acceptedCommit = r.acceptedCommit
        /\ R.committed = r.committed \cup CommitRange(s)
    BY <1>4, PledgeFields
  <2>2. CommitRange(s) \subseteq r.committed
    BY <1>4 DEF Current
  <2> HIDE DEF R
  <2>3. R.committed = r.committed
    BY <2>1, <2>2
  <2>4. R = r
    BY <1>1, <2>1, <2>3, PledgesEqual
  <2>5. QED BY <2>4 DEF R
<1>5. QED BY <1>2, <1>3, <1>4 DEF NodeState

(* Only the ballots and the phase count.                                   *)
LEMMA CurrentSame ==
  ASSUME NEW r, NEW s, NEW t, SameCore(s, t)
  PROVE  Current(r, s) => Current(r, t)
<1>1. CommitRange(t) = CommitRange(s)
  BY DEF CommitRange, SameCore
<1>2. QED BY <1>1 DEF Current, SameCore

(* The pledges a state shows depend on its ballots and its phase only.     *)
LEMMA PledgeSameCore ==
  ASSUME NEW r, NEW s, NEW t, SameCore(s, t)
  PROVE  Pledge(r, t) = Pledge(r, s)
<1>1. CommitRange(t) = CommitRange(s)
  BY DEF CommitRange, SameCore
<1>2. QED BY <1>1 DEF Pledge, In, SameCore

-----------------------------------------------------------------------------
(* The steps of federated voting, on the pledges of one node.              *)

(* A ballot contradicted by one that n has accepted as prepared, or may    *)
(* confirm as prepared.                                                    *)
Left(P, n, a) ==
  \E q \in Ballot :
    /\ q \in P[n].acceptedPrepare \/ MayConfirmPrepare(P, n, q)
    /\ areBallotsLessAndIncompatible(a, q)

MayVotePrepare(P, n, b) ==
  /\ b \in Ballot /\ \A x \in P[n].votedPrepare : Less(x, b)
  /\ \A a \in P[n].votedCommit :
       areBallotsLessAndIncompatible(a, b) => Left(P, n, a)

MayVoteCommit(P, n, a) ==
  /\ a \in Ballot /\ MayConfirmPrepare(P, n, a)
  /\ \A b \in P[n].votedPrepare : ~areBallotsLessAndIncompatible(a, b)

AnyRange(C) == \E v \in Value, lo \in Counter \ {0}, hi \in Counter :
                 C = BallotRange(v, lo, hi)

OneBallot(B) == B = {} \/ \E b \in Ballot : B = {b}

VoteStep(P, n, R) ==
  /\ \E b \in Ballot : /\ MayVotePrepare(P, n, b)
                       /\ R.votedPrepare = P[n].votedPrepare \cup {b}
  /\ R.acceptedPrepare = P[n].acceptedPrepare
  /\ R.votedCommit = P[n].votedCommit
  /\ R.acceptedCommit = P[n].acceptedCommit /\ R.committed = P[n].committed

AcceptStep(P, n, R) ==
  /\ \E b \in Ballot : /\ b \notin P[n].acceptedPrepare
                       /\ MayAcceptPrepare(P, n, b)
                       /\ R.acceptedPrepare = P[n].acceptedPrepare \cup {b}
  /\ R.votedPrepare = P[n].votedPrepare /\ R.votedCommit = P[n].votedCommit
  /\ R.acceptedCommit = P[n].acceptedCommit /\ R.committed = P[n].committed

ConfirmStep(P, n, R) ==
  /\ \E C, B : /\ AnyRange(C) /\ OneBallot(B)
               /\ \A a \in C : MayVoteCommit(P, n, a)
               /\ \A b \in B : MayVotePrepare(P, n, b)
               /\ \A x, y \in C \cup B : areBallotsCompatible(x, y)
               /\ R.votedCommit = P[n].votedCommit \cup C
               /\ R.votedPrepare = P[n].votedPrepare \cup B
  /\ R.acceptedPrepare = P[n].acceptedPrepare
  /\ R.acceptedCommit = P[n].acceptedCommit /\ R.committed = P[n].committed

AcceptCommitStep(P, n, R) ==
  /\ \E A, B : /\ AnyRange(A) /\ OneBallot(B) /\ A \subseteq Ballot
               /\ \A a \in A : MayAcceptCommit(P, n, a)
               /\ \A q \in B : \E x \in P[n].acceptedCommit \cup A :
                    areBallotsCompatible(q, x)
               /\ R.acceptedCommit = P[n].acceptedCommit \cup A
               /\ R.acceptedPrepare = P[n].acceptedPrepare \cup B
  /\ R.votedPrepare = P[n].votedPrepare /\ R.votedCommit = P[n].votedCommit
  /\ R.committed = P[n].committed

ConfirmCommitStep(P, n, R) ==
  /\ \E A : /\ AnyRange(A) /\ A \subseteq Ballot
            /\ \A a \in A : MayConfirmCommit(P, n, a)
            /\ R.committed = P[n].committed \cup A
  /\ R.votedPrepare = P[n].votedPrepare
  /\ R.acceptedPrepare = P[n].acceptedPrepare
  /\ R.votedCommit = P[n].votedCommit
  /\ R.acceptedCommit = P[n].acceptedCommit

VotingStep(P, n, R) ==
  \/ R = P[n] \/ VoteStep(P, n, R) \/ AcceptStep(P, n, R)
  \/ ConfirmStep(P, n, R) \/ AcceptCommitStep(P, n, R)
  \/ ConfirmCommitStep(P, n, R)

(* What ties a node's votes to its ballots while it is in PREPARE: it is   *)
(* on the highest ballot it voted for; a ballot it voted to commit is of   *)
(* the value of c and at most h, or was left; and it was on no ballot      *)
(* from c on of another value.                                             *)
VotesOK(P, n, s) ==
  s.phase = "PREPARE" =>
    /\ \A x \in P[n].votedPrepare : LessEq(x, s.b)
    /\ \A a \in P[n].votedCommit :
         \/ s.c # NullBallot /\ a.value = s.c.value /\ LessEq(a, s.h)
         \/ Left(P, n, a)
    /\ s.c # NullBallot => \A x \in P[n].votedPrepare :
         LessEq(s.c, x) => x.value = s.c.value

(* A ballot that was left stays left.                                      *)
LEMMA LeftGrew ==
  ASSUME NEW P, NEW Q, Grew(P, Q), NEW n \in Node, NEW a, Left(P, n, a)
  PROVE  Left(Q, n, a)
<1>1. PICK q \in Ballot :
        /\ q \in P[n].acceptedPrepare \/ MayConfirmPrepare(P, n, q)
        /\ areBallotsLessAndIncompatible(a, q)
  BY DEF Left
<1>2. q \in Q[n].acceptedPrepare \/ MayConfirmPrepare(Q, n, q)
  BY <1>1, ConfirmableGrew DEF Grew, GrewBy
<1>3. QED BY <1>1, <1>2 DEF Left

(* Votes stay tied to the ballots while other nodes pledge.                *)
LEMMA VotesSame ==
  ASSUME NEW P, NEW Q, Grew(P, Q), NEW n \in Node, Q[n] = P[n], NEW s,
         NEW t, SameCore(s, t), VotesOK(P, n, s)
  PROVE  VotesOK(Q, n, t)
BY LeftGrew DEF VotesOK, SameCore

(* The ballots from c to h depend on c and h only.                         *)
LEMMA RangeSame ==
  ASSUME NEW s, NEW t, t.c = s.c, t.h = s.h
  PROVE  CommitRange(t) = CommitRange(s)
BY DEF CommitRange

(* The empty set is a range of ballots.                                    *)
LEMMA EmptyRange == Value # {} => AnyRange({})
<1>1. SUFFICES ASSUME NEW v \in Value PROVE AnyRange({})
  OBVIOUS
<1>2. 1 .. 0 = {}
  BY SMT
<1>3. BallotRange(v, 1, 0) = {}
  BY <1>2 DEF BallotRange
<1>4. 1 \in Counter \ {0} /\ 0 \in Counter
  BY CounterAssumption, SMT DEF Counter
<1>5. QED BY <1>3, <1>4 DEF AnyRange

(* At most one ballot is in a set of one.                                  *)
LEMMA MeetsOne == \A x : OneBallot({x} \cap Ballot)
<1>1. SUFFICES ASSUME NEW x PROVE OneBallot({x} \cap Ballot)
  OBVIOUS
<1>2. CASE x \in Ballot
  <2>1. {x} \cap Ballot = {x}
    BY <1>2
  <2>2. QED BY <1>2, <2>1 DEF OneBallot
<1>3. CASE x \notin Ballot
  <2>1. {x} \cap Ballot = {}
    BY <1>3
  <2>2. QED BY <2>1 DEF OneBallot
<1>4. QED BY <1>2, <1>3

(* The change from s to t is a step of federated voting, after which the   *)
(* votes are again tied to the ballots.                                    *)
Moves(P, n, t) ==
  /\ VotingStep(P, n, Pledge(P[n], t))
  /\ \A Q : Grew(P, Q) /\ Q[n] = Pledge(P[n], t) => VotesOK(Q, n, t)

(* A state with the same ballots and phase shows nothing new.              *)
LEMMA MovesSame ==
  ASSUME NEW P \in [Node -> Pledges], NEW n \in Node, NEW s \in NodeState,
         Current(P[n], s), VotesOK(P, n, s),
         NEW t \in NodeState, SameCore(s, t)
  PROVE  Pledge(P[n], t) = P[n] /\ Moves(P, n, t)
<1>1. P[n] \in Pledges
  OBVIOUS
<1>2. Pledge(P[n], t) = P[n]
  BY <1>1, PledgeSame, CurrentSame
<1>3. QED BY <1>2, VotesSame DEF Moves, VotingStep

-----------------------------------------------------------------------------
(* attemptAcceptPrepared is a step of federated voting: it accepts one     *)
(* ballot as prepared, or shows nothing new.                               *)
LEMMA MoveAcceptPrepared ==
  ASSUME NEW P \in [Node -> Pledges], NEW n \in Node, NEW s \in NodeState,
         HonestKnown(P, s), Current(P[n], s), VotesOK(P, n, s), Consistent(s),
         NEW t, AttemptedAcceptPrepared(n, s, t)
  PROVE  Moves(P, n, t)
<1> DEFINE r == P[n]
           R == Pledge(r, t)
<1>1. /\ t \in NodeState /\ t.b = s.b /\ t.h = s.h /\ t.phase = s.phase
      /\ t.c \in {s.c, NullBallot} /\ r \in Pledges /\ R \in Pledges
      /\ GrewBy(r, R)
  BY PledgeFields DEF AttemptedAcceptPrepared, Attempted
<1>2. /\ t.p \in BallotOrNull /\ t.pp \in BallotOrNull /\ t.h \in BallotOrNull
      /\ t.c \in BallotOrNull /\ s.phase \in {"PREPARE", "CONFIRM", "EXTERNALIZE"}
  BY <1>1 DEF NodeState
<1>3. CommitRange(t) \subseteq CommitRange(s)
  <2>1. CASE t.c = s.c
    BY <1>1, <2>1, RangeSame
  <2>2. CASE t.c = NullBallot
    BY <1>1, <2>2, RangeFacts
  <2>3. QED BY <1>1, <2>1, <2>2
<1>4. CASE s.phase = "PREPARE"
  <2>1. /\ R.votedPrepare = r.votedPrepare \cup ({t.b} \cap Ballot)
        /\ R.acceptedPrepare = r.acceptedPrepare \cup ({t.p, t.pp} \cap Ballot)
        /\ R.votedCommit = r.votedCommit \cup CommitRange(t)
        /\ R.acceptedCommit = r.acceptedCommit
        /\ R.committed = r.committed
    <3>1. t.phase = "PREPARE"
      BY <1>1, <1>4
    <3> QED
      BY <1>1, <3>1, PledgePrepare
  <2>2. /\ s.b \in r.votedPrepare \cup {NullBallot}
        /\ s.p \in r.acceptedPrepare \cup {NullBallot}
        /\ s.pp \in r.acceptedPrepare \cup {NullBallot}
        /\ CommitRange(s) \subseteq r.votedCommit
    BY <1>4 DEF Current
  <2> HIDE DEF R
  <2>3. R.votedPrepare = r.votedPrepare /\ R.votedCommit = r.votedCommit
    <3>1. {t.b} \cap Ballot \subseteq r.votedPrepare
      BY <1>1, <2>2, MakeBallot
    <3>2. CommitRange(t) \subseteq r.votedCommit
      BY <1>1, <1>3, <2>2
    <3> QED
      BY <2>1, <3>1, <3>2
  <2>4. VotingStep(P, n, R)
    <3>1. CASE t.p = s.p /\ t.pp = s.pp
      <4>1. R.acceptedPrepare = r.acceptedPrepare
        <5>1. {t.p, t.pp} \cap Ballot \subseteq r.acceptedPrepare
          BY <2>2, <3>1, MakeBallot
        <5> QED
          BY <2>1, <5>1
      <4>2. R = r
        BY <1>1, <2>1, <2>3, <4>1, PledgesEqual
      <4>3. QED BY <4>2 DEF VotingStep
    <3>2. ASSUME NEW x \in Ballot,
             federatedAccept(n, s, {m \in Known(s) : votesPrepared(x, s.M[m])},
                             acceptedPrepared(s, x)),
             AcceptedPrepared(s, x, t)
          PROVE  VotingStep(P, n, R)
      <4>1. /\ t.p \in {s.p, s.pp, x} /\ t.pp \in {s.p, s.pp, x}
            /\ x \in {t.p, t.pp}
        BY <3>2 DEF AcceptedPrepared
      <4>2. R.acceptedPrepare = r.acceptedPrepare \cup {x}
        <5>1. ASSUME NEW y \in {t.p, t.pp} \cap Ballot
              PROVE  y \in r.acceptedPrepare \cup {x}
          <6>1. y \in {s.p, s.pp, x} /\ y # NullBallot
            BY <4>1, <5>1, MakeBallot
          <6> QED
            BY <2>2, <6>1
        <5>2. x \in {t.p, t.pp} \cap Ballot
          BY <4>1
        <5> QED
          BY <2>1, <5>1, <5>2
      <4>3. CASE x \in r.acceptedPrepare
        <5>1. R.acceptedPrepare = r.acceptedPrepare
          BY <4>2, <4>3
        <5>2. R = r
          BY <1>1, <2>1, <2>3, <5>1, PledgesEqual
        <5>3. QED BY <5>2 DEF VotingStep
      <4>4. CASE x \notin r.acceptedPrepare
        <5>1. MayAcceptPrepare(P, n, x)
          BY <3>2, AcceptPrepareSound
        <5>2. AcceptStep(P, n, R)
          BY <2>1, <2>3, <4>2, <4>4, <5>1 DEF AcceptStep
        <5>3. QED BY <5>2 DEF VotingStep
      <4>5. QED BY <4>3, <4>4
    <3>3. QED BY <3>1, <3>2 DEF AttemptedAcceptPrepared
  <2>5. ASSUME NEW Q, Grew(P, Q), Q[n] = R PROVE VotesOK(Q, n, t)
    <3>1. \A a \in r.votedCommit :
            \/ t.c # NullBallot /\ a.value = t.c.value /\ LessEq(a, t.h)
            \/ Left(Q, n, a)
      <4>1. SUFFICES ASSUME NEW a \in r.votedCommit, ~Left(Q, n, a)
                     PROVE  t.c # NullBallot /\ a.value = t.c.value
                            /\ LessEq(a, t.h)
        OBVIOUS
      <4>2. s.c # NullBallot /\ a.value = s.c.value /\ LessEq(a, s.h)
        BY <1>4, <2>5, <4>1, LeftGrew DEF VotesOK
      <4>3. CASE t.c = s.c
        BY <1>1, <4>2, <4>3
      <4>4. CASE t.c # s.c
        <5>1. PICK y \in {t.p, t.pp} \ {NullBallot} :
                areBallotsLessAndIncompatible(s.h, y)
          BY <4>4 DEF AttemptedAcceptPrepared
        <5>2. y \in Ballot /\ y \in Q[n].acceptedPrepare
          BY <1>2, <2>1, <2>5, <5>1 DEF BallotOrNull
        <5>3. a \in BallotOrNull /\ y \in BallotOrNull /\ s.h \in BallotOrNull
              /\ s.c.value = s.h.value
          BY <1>1, <1>2, <4>1, <4>2, <5>2, ConsistentFacts DEF Pledges, BallotOrNull
        <5>4. areBallotsLessAndIncompatible(a, y)
          BY <4>2, <5>1, <5>3, BallotOrder
          DEF areBallotsLessAndIncompatible, areBallotsCompatible
        <5>5. QED BY <4>1, <5>2, <5>4 DEF Left
      <4>5. QED BY <4>3, <4>4
    <3>2. QED BY <1>1, <1>4, <2>3, <2>5, <3>1 DEF VotesOK
  <2>6. QED BY <2>4, <2>5 DEF Moves, R
<1>5. CASE s.phase = "CONFIRM"
  <2> DEFINE q == makeBallot(t.p.counter, t.b.value)
             B == {q} \cap Ballot
  <2>1. /\ R.votedPrepare = r.votedPrepare
        /\ R.acceptedPrepare = r.acceptedPrepare \cup B
        /\ R.votedCommit = r.votedCommit
        /\ R.acceptedCommit = r.acceptedCommit \cup CommitRange(t)
        /\ R.committed = r.committed
    <3>1. t.phase = "CONFIRM"
      BY <1>1, <1>5
    <3> QED
      BY <1>1, <3>1, PledgeConfirm
  <2>2. CommitRange(s) \subseteq r.acceptedCommit
    BY <1>5 DEF Current
  <2>3. s.c \in CommitRange(s) /\ s.c.value = s.b.value /\ s.c \in Ballot
    <3>1. /\ s.c \in BallotOrNull /\ s.c # NullBallot /\ s.h # NullBallot
          /\ areBallotsLessAndCompatible(s.c, s.h) /\ s.c.value = s.b.value
      BY <1>5, ConsistentFacts
      DEF areBallotsLessAndCompatible, areBallotsCompatible
    <3>2. QED BY <3>1, RangeFacts, BallotFields
  <2> HIDE DEF R
  <2>4. R.acceptedCommit = r.acceptedCommit \cup {}
    BY <1>3, <2>1, <2>2
  <2>5. q.value = s.b.value
    BY <1>1 DEF makeBallot
  <2>6. OneBallot(B)
    BY MeetsOne
  <2>7. AnyRange({})
    BY <2>3, EmptyRange, BallotFields DEF BallotOrNull
  <2>8. \A x \in B : \E y \in r.acceptedCommit \cup {} : areBallotsCompatible(x, y)
    BY <2>2, <2>3, <2>5 DEF areBallotsCompatible
  <2> HIDE DEF B
  <2>9. AcceptCommitStep(P, n, R)
    BY <2>1, <2>4, <2>6, <2>7, <2>8 DEF AcceptCommitStep
  <2>10. QED BY <1>1, <1>5, <2>9 DEF Moves, VotingStep, VotesOK, R
<1>6. CASE s.phase = "EXTERNALIZE"
  <2>1. /\ R.votedPrepare = r.votedPrepare
        /\ R.acceptedPrepare = r.acceptedPrepare
        /\ R.votedCommit = r.votedCommit
        /\ R.acceptedCommit = r.acceptedCommit
        /\ R.committed = r.committed \cup CommitRange(t)
    <3>1. t.phase = "EXTERNALIZE"
      BY <1>1, <1>6
    <3> QED
      BY <1>1, <3>1, PledgeExternalize
  <2>2. CommitRange(s) \subseteq r.committed
    BY <1>6 DEF Current
  <2> HIDE DEF R
  <2>3. R.committed = r.committed
    BY <1>3, <2>1, <2>2
  <2>4. R = r
    BY <1>1, <2>1, <2>3, PledgesEqual
  <2>5. QED BY <1>1, <1>6, <2>4 DEF Moves, VotingStep, VotesOK, R
<1>7. QED BY <1>2, <1>4, <1>5, <1>6

(* Every ballot voted for is below one above the current ballot.           *)
LEMMA VotesBelow ==
  ASSUME NEW P \in [Node -> Pledges], NEW n \in Node, NEW s \in NodeState,
         VotesOK(P, n, s), s.phase = "PREPARE", NEW y \in Ballot, Less(s.b, y)
  PROVE  \A x \in P[n].votedPrepare : Less(x, y) /\ LessEq(x, y)
<1>1. SUFFICES ASSUME NEW x \in P[n].votedPrepare PROVE Less(x, y)
  BY DEF LessEq
<1>2. LessEq(x, s.b)
  BY <1>1 DEF VotesOK
<1>3. x \in BallotOrNull /\ y \in BallotOrNull /\ s.b \in BallotOrNull
  BY <1>1 DEF Pledges, BallotOrNull, NodeState
<1>4. QED BY <1>2, <1>3, LessTrans

(* updateCurrentValue is a vote for a higher ballot, or shows nothing new. *)
LEMMA MoveUpdated ==
  ASSUME NEW P \in [Node -> Pledges], NEW n \in Node, NEW s \in NodeState,
         Current(P[n], s), VotesOK(P, n, s), Consistent(s),
         NEW t, UpdatedValue(s, t)
  PROVE  Moves(P, n, t)
<1> DEFINE r == P[n]
           R == Pledge(r, t)
<1>1. t \in NodeState /\ r \in Pledges /\ R \in Pledges /\ GrewBy(r, R)
  BY PledgeFields DEF UpdatedValue, Attempted
<1>2. CASE SameCore(s, t)
  BY <1>1, <1>2, MovesSame
<1>3. ASSUME NEW ballot, MovedTo(s, ballot, t) PROVE Moves(P, n, t)
  <2>1. /\ s.phase # "EXTERNALIZE" /\ ballot \in Ballot /\ Less(s.b, ballot)
        /\ s.c # NullBallot => s.c.value = ballot.value
        /\ t.b = ballot /\ t.p = s.p /\ t.pp = s.pp /\ t.phase = s.phase
        /\ t.c = s.c
        /\ t.h = IF s.h # NullBallot /\ ballot.value # s.h.value
                 THEN NullBallot ELSE s.h
    BY <1>3 DEF MovedTo, areBallotsCompatible
  <2>2. s.c # NullBallot => /\ t.h = s.h /\ s.b.value = ballot.value
    BY <2>1, ConsistentFacts
  <2>3. CommitRange(t) = CommitRange(s)
    <3>1. CASE s.c = NullBallot
      BY <1>1, <2>1, <3>1, RangeFacts
    <3>2. CASE s.c # NullBallot
      BY <2>1, <2>2, <3>2, RangeSame
    <3>3. QED BY <3>1, <3>2
  <2>4. CASE s.phase = "CONFIRM"
    <3>1. s.c # NullBallot
      BY <2>4, ConsistentFacts
    <3>2. t.b.value = s.b.value
      BY <2>1, <2>2, <3>1
    <3>3. Current(r, t)
      BY <2>1, <2>3, <2>4, <3>2 DEF Current
    <3>4. R = r
      BY <1>1, <3>3, PledgeSame
    <3>5. QED BY <2>1, <2>4, <3>4 DEF Moves, VotingStep, VotesOK
  <2>5. CASE s.phase = "PREPARE"
    <3>1. /\ R.votedPrepare = r.votedPrepare \cup ({t.b} \cap Ballot)
          /\ R.acceptedPrepare = r.acceptedPrepare \cup ({t.p, t.pp} \cap Ballot)
          /\ R.votedCommit = r.votedCommit \cup CommitRange(t)
          /\ R.acceptedCommit = r.acceptedCommit
          /\ R.committed = r.committed
      <4>1. t.phase = "PREPARE"
        BY <2>1, <2>5
      <4> QED
        BY <1>1, <4>1, PledgePrepare
    <3>2. /\ s.p \in r.acceptedPrepare \cup {NullBallot}
          /\ s.pp \in r.acceptedPrepare \cup {NullBallot}
          /\ CommitRange(s) \subseteq r.votedCommit
      BY <2>5 DEF Current
    <3> HIDE DEF R
    <3>3. /\ R.votedPrepare = r.votedPrepare \cup {ballot}
          /\ R.acceptedPrepare = r.acceptedPrepare
          /\ R.votedCommit = r.votedCommit
      BY <2>1, <2>3, <3>1, <3>2, MakeBallot
    <3>4. \A x \in r.votedPrepare : Less(x, ballot) /\ LessEq(x, ballot)
      BY <2>1, <2>5, VotesBelow
    <3>5. \A a \in r.votedCommit :
            areBallotsLessAndIncompatible(a, ballot) => Left(P, n, a)
      BY <2>1, <2>5
      DEF VotesOK, areBallotsLessAndIncompatible, areBallotsCompatible
    <3>6. VoteStep(P, n, R)
      BY <2>1, <3>1, <3>3, <3>4, <3>5 DEF VoteStep, MayVotePrepare
    <3>7. ASSUME NEW Q, Grew(P, Q), Q[n] = R PROVE VotesOK(Q, n, t)
      <4>1. \A x \in Q[n].votedPrepare : LessEq(x, t.b)
        <5>1. t.b = ballot /\ Q[n].votedPrepare = r.votedPrepare \cup {ballot}
          BY <2>1, <3>3, <3>7
        <5>2. LessEq(ballot, ballot)
          BY DEF LessEq
        <5> QED
          BY <3>4, <5>1, <5>2
      <4>2. ASSUME NEW a \in Q[n].votedCommit
            PROVE  \/ t.c # NullBallot /\ a.value = t.c.value /\ LessEq(a, t.h)
                   \/ Left(Q, n, a)
        <5>1. \/ s.c # NullBallot /\ a.value = s.c.value /\ LessEq(a, s.h)
              \/ Left(P, n, a)
          BY <2>5, <3>3, <3>7, <4>2 DEF VotesOK
        <5>2. QED BY <2>1, <2>2, <3>7, <5>1, LeftGrew
      <4>3. ASSUME t.c # NullBallot, NEW x \in Q[n].votedPrepare, LessEq(t.c, x)
            PROVE  x.value = t.c.value
        BY <2>1, <2>5, <3>3, <3>7, <4>3 DEF VotesOK
      <4>4. QED BY <4>1, <4>2, <4>3 DEF VotesOK
    <3>8. QED BY <3>6, <3>7 DEF Moves, VotingStep, R
  <2>6. QED BY <2>1, <2>4, <2>5 DEF NodeState
<1>4. QED BY <1>2, <1>3 DEF UpdatedValue

-----------------------------------------------------------------------------
(* attemptAcceptCommit is a step of federated voting: it accepts an        *)
(* interval of ballots as committed.                                       *)
LEMMA MoveAcceptCommit ==
  ASSUME NEW P \in [Node -> Pledges], NEW n \in Node, NEW s \in NodeState,
         HonestKnown(P, s), Current(P[n], s), VotesOK(P, n, s), Consistent(s),
         NEW t, AttemptedAcceptCommit(n, s, t)
  PROVE  Moves(P, n, t)
<1> DEFINE r == P[n]
           R == Pledge(r, t)
<1>1. t \in NodeState /\ r \in Pledges
  BY DEF AttemptedAcceptCommit, Attempted
<1>2. CASE SameCore(s, t)
  BY <1>1, <1>2, MovesSame
<1>3. ASSUME NEW v, NEW lo, NEW hi, AcceptableInterval(n, s, v, lo, hi),
             AcceptedCommit(s, makeBallot(lo, v), makeBallot(hi, v), t)
      PROVE  Moves(P, n, t)
  <2> DEFINE A == BallotRange(v, lo, hi)
             q == makeBallot(t.p.counter, t.b.value)
             B == {q} \cap Ballot
  <2>1. /\ v \in Value /\ lo \in Counter \ {0} /\ hi \in Counter \ {0}
        /\ lo <= hi
        /\ federatedAccept(n, s,
             {m \in Known(s) : votesCommit(v, lo, hi, s.M[m])},
             pledgedCommit(s, v, lo, hi))
    BY <1>3 DEF AcceptableInterval
  <2>2. /\ t.phase = "CONFIRM" /\ t.c = makeBallot(lo, v)
        /\ t.h = makeBallot(hi, v) /\ t.c \in Ballot /\ t.h \in Ballot
        /\ t.c.value = v /\ t.h.value = v /\ t.c.counter = lo
        /\ t.h.counter = hi
    <3>1. t.phase = "CONFIRM" /\ t.c = makeBallot(lo, v) /\ t.h = makeBallot(hi, v)
      BY <1>3 DEF AcceptedCommit
    <3>2. makeBallot(lo, v) \in Ballot /\ makeBallot(hi, v) \in Ballot
      BY <2>1, MakeBallot
    <3>3. \A k : makeBallot(k, v).counter = k /\ makeBallot(k, v).value = v
      BY DEF makeBallot
    <3> QED
      BY <3>1, <3>2, <3>3
  <2>3. t.b.value = v
    BY <1>3, <2>2
    DEF AcceptedCommit, areBallotsLessAndCompatible, areBallotsCompatible
  <2>4. areBallotsLessAndCompatible(t.c, t.h)
    BY <2>1, <2>2, SameValueOrder DEF BallotOrNull
  <2>5. CommitRange(t) = A /\ t.c \in A /\ A \subseteq Ballot
    BY <1>1, <2>2, <2>4, RangeFacts, MakeBallot
  <2>6. \A a \in A : MayAcceptCommit(P, n, a)
    BY <2>1, AcceptCommitSound DEF BallotRange
  <2>7. /\ R.votedPrepare = r.votedPrepare
        /\ R.acceptedPrepare = r.acceptedPrepare \cup B
        /\ R.votedCommit = r.votedCommit
        /\ R.acceptedCommit = r.acceptedCommit \cup A
        /\ R.committed = r.committed
    BY <1>1, <2>2, <2>5, PledgeConfirm, ZenonT(40)
  <2>8. OneBallot(B) /\ AnyRange(A)
    BY <2>1, MeetsOne DEF AnyRange
  <2>9. \A x \in B : \E y \in r.acceptedCommit \cup A : areBallotsCompatible(x, y)
    <3>1. q.value = t.b.value
      BY DEF makeBallot
    <3>2. t.c \in r.acceptedCommit \cup A /\ t.c.value = q.value
      BY <2>2, <2>3, <2>5, <3>1
    <3> HIDE DEF q, A
    <3> QED
      BY <3>2 DEF areBallotsCompatible
  <2> HIDE DEF R, A, B
  <2>10. AcceptCommitStep(P, n, R)
    BY <2>5, <2>6, <2>7, <2>8, <2>9 DEF AcceptCommitStep
  <2>11. QED BY <2>2, <2>10 DEF Moves, VotingStep, VotesOK, R
<1>4. QED BY <1>2, <1>3 DEF AttemptedAcceptCommit

(* Every value handed to valueExternalized is one the node committed.      *)
Externalized(r, s) == \A v \in s.ext : \E x \in r.committed : x.value = v

(* attemptConfirmCommit is a step of federated voting: it commits an       *)
(* interval of ballots, whose value is the one externalized.               *)
LEMMA MoveConfirmCommit ==
  ASSUME NEW P \in [Node -> Pledges], NEW n \in Node, NEW s \in NodeState,
         HonestKnown(P, s), Current(P[n], s), VotesOK(P, n, s), Consistent(s),
         Externalized(P[n], s), NEW t, AttemptedConfirmCommit(n, s, t)
  PROVE  Moves(P, n, t) /\ Externalized(Pledge(P[n], t), t)
<1> DEFINE r == P[n]
           R == Pledge(r, t)
<1>1. t \in NodeState /\ r \in Pledges /\ GrewBy(r, R)
  BY PledgeFields DEF AttemptedConfirmCommit, Attempted
<1>2. CASE SameCore(s, t) /\ t.ext = s.ext
  <2>1. Moves(P, n, t)
    BY <1>1, <1>2, MovesSame
  <2>2. Externalized(R, t)
    BY <1>1, <1>2 DEF Externalized, GrewBy
  <2> QED
    BY <2>1, <2>2
<1>3. ASSUME NEW v, NEW lo, NEW hi, ConfirmableInterval(n, s, v, lo, hi),
             ConfirmedCommit(s, makeBallot(lo, v), makeBallot(hi, v), t)
      PROVE  Moves(P, n, t) /\ Externalized(Pledge(P[n], t), t)
  <2> DEFINE A == BallotRange(v, lo, hi)
  <2>1. /\ v \in Value /\ lo \in Counter \ {0} /\ hi \in Counter \ {0}
        /\ lo <= hi /\ federatedRatify(n, s, pledgedCommit(s, v, lo, hi))
    BY <1>3 DEF ConfirmableInterval
  <2>2. /\ t.phase = "EXTERNALIZE" /\ t.c = makeBallot(lo, v)
        /\ t.h = makeBallot(hi, v) /\ t.c \in Ballot /\ t.h \in Ballot
        /\ t.c.value = v /\ t.h.value = v /\ t.c.counter = lo
        /\ t.h.counter = hi /\ t.ext = s.ext \cup {v}
    <3>1. t.phase = "EXTERNALIZE" /\ t.c = makeBallot(lo, v) /\ t.h = makeBallot(hi, v)
          /\ t.ext = s.ext \cup {makeBallot(lo, v).value}
      BY <1>3 DEF ConfirmedCommit
    <3>2. makeBallot(lo, v) \in Ballot /\ makeBallot(hi, v) \in Ballot
      BY <2>1, MakeBallot
    <3>3. \A k : makeBallot(k, v).counter = k /\ makeBallot(k, v).value = v
      BY DEF makeBallot
    <3> QED
      BY <3>1, <3>2, <3>3
  <2>4. areBallotsLessAndCompatible(t.c, t.h)
    BY <2>1, <2>2, SameValueOrder DEF BallotOrNull
  <2>5. CommitRange(t) = A /\ t.c \in A /\ A \subseteq Ballot
    BY <1>1, <2>2, <2>4, RangeFacts, MakeBallot
  <2>6. \A a \in A : MayConfirmCommit(P, n, a)
    BY <2>1, ConfirmCommitSound DEF BallotRange
  <2>7. /\ R.votedPrepare = r.votedPrepare
        /\ R.acceptedPrepare = r.acceptedPrepare
        /\ R.votedCommit = r.votedCommit
        /\ R.acceptedCommit = r.acceptedCommit
        /\ R.committed = r.committed \cup A
    BY <1>1, <2>2, <2>5, PledgeExternalize, ZenonT(40)
  <2>8. AnyRange(A)
    BY <2>1 DEF AnyRange
  <2> HIDE DEF R, A
  <2>9. ConfirmCommitStep(P, n, R)
    BY <2>5, <2>6, <2>7, <2>8 DEF ConfirmCommitStep
  <2>10. Externalized(R, t)
    BY <2>2, <2>5, <2>7 DEF Externalized
  <2>11. QED BY <2>2, <2>9, <2>10 DEF Moves, VotingStep, VotesOK, R
<1>4. QED BY <1>2, <1>3 DEF AttemptedConfirmCommit

-----------------------------------------------------------------------------
(* attemptConfirmPrepared.                                                 *)

(* The ballots from c to newH may be voted to commit, and c is or becomes  *)
(* the lowest of them.                                                     *)
LEMMA CommitVotes ==
  ASSUME NEW P \in [Node -> Pledges], NEW n \in Node, NEW s \in NodeState,
         HonestKnown(P, s), VotesOK(P, n, s), Consistent(s),
         NEW newC, NEW newH, Confirmable(n, s, newC, newH),
         s.b = NullBallot \/ areBallotsCompatible(s.b, newH),
         NEW c, c = (IF newC # NullBallot THEN newC ELSE s.c), c # NullBallot
  PROVE  /\ c \in Ballot /\ areBallotsLessAndCompatible(c, newH)
         /\ \A x \in P[n].votedPrepare : LessEq(c, x) => x.value = c.value
<1>1. /\ s.phase = "PREPARE" /\ newH \in Ballot /\ newC \in BallotOrNull
      /\ s.h # NullBallot => Less(s.h, newH)
      /\ newC # NullBallot => LessEq(s.b, newC)
                              /\ areBallotsLessAndCompatible(newC, newH)
  BY DEF Confirmable
<1>2. \A x \in P[n].votedPrepare : LessEq(x, s.b) /\ x \in BallotOrNull
  BY <1>1 DEF VotesOK, Pledges, BallotOrNull
<1>3. s.b \in BallotOrNull /\ s.h \in BallotOrNull /\ s.c \in BallotOrNull
      /\ newH \in BallotOrNull
  BY <1>1 DEF NodeState, BallotOrNull
<1>4. CASE newC # NullBallot
  <2>1. \A x \in P[n].votedPrepare : LessEq(newC, x) => x = newC
    BY <1>1, <1>2, <1>3, <1>4, BallotOrder
  <2>2. QED BY <1>1, <1>4, <2>1, BallotFields
<1>5. CASE newC = NullBallot
  <2>1. c = s.c /\ c \in Ballot
    BY <1>3, <1>5, BallotFields
  <2>2. /\ s.h # NullBallot /\ LessEq(c, s.h) /\ c.value = s.h.value
        /\ s.b # NullBallot /\ s.b.value = s.h.value
    BY <2>1, ConsistentFacts
  <2>3. c.value = newH.value
    BY <2>2 DEF areBallotsCompatible
  <2>4. LessEq(c, newH)
    <3>1. LessEq(c, s.h) /\ LessEq(s.h, newH) /\ c \in BallotOrNull
      BY <1>1, <1>3, <2>1, <2>2, BallotOrder
    <3> QED
      BY <1>3, <3>1, BallotOrder
  <2>5. QED BY <1>1, <2>1, <2>3, <2>4
            DEF VotesOK, areBallotsLessAndCompatible, areBallotsCompatible
<1>6. QED BY <1>4, <1>5

(* attemptConfirmPrepared is a step of federated voting: it votes to       *)
(* commit an interval of ballots and may move to a compatible one.         *)
LEMMA MoveConfirmPrepared ==
  ASSUME NEW P \in [Node -> Pledges], NEW n \in Node, NEW s \in NodeState,
         HonestKnown(P, s), Current(P[n], s), VotesOK(P, n, s), Consistent(s),
         NEW t, AttemptedConfirmPrepared(n, s, t)
  PROVE  Moves(P, n, t)
<1> DEFINE r == P[n]
           R == Pledge(r, t)
<1>1. /\ t \in NodeState /\ r \in Pledges /\ R \in Pledges /\ GrewBy(r, R)
      /\ t.p = s.p /\ t.pp = s.pp /\ t.phase = s.phase
  BY PledgeFields DEF AttemptedConfirmPrepared, Attempted
<1>2. CASE SameCore(s, t)
  BY <1>1, <1>2, MovesSame
<1>3. ASSUME NEW newC, NEW newH, Confirmable(n, s, newC, newH),
             ConfirmedPrepared(s, newC, newH, t)
      PROVE  Moves(P, n, t)
  <2> DEFINE C == CommitRange(t)
  <2>1. /\ s.phase = "PREPARE" /\ newH \in Ballot /\ newC \in BallotOrNull
        /\ s.h # NullBallot => Less(s.h, newH)
        /\ newC # NullBallot => s.c = NullBallot
        /\ federatedRatify(n, s, acceptedPrepared(s, newH))
    BY <1>3 DEF Confirmable
  <2>2. MayConfirmPrepare(P, n, newH)
    BY <2>1, ConfirmPrepareSound
  <2>3. \A a : areBallotsLessAndIncompatible(a, newH) => Left(P, n, a)
    BY <2>1, <2>2 DEF Left
  <2>4. /\ s.b \in BallotOrNull /\ s.h \in BallotOrNull /\ s.c \in BallotOrNull
        /\ t.c \in BallotOrNull /\ t.h \in BallotOrNull
        /\ newH \in BallotOrNull
    BY <1>1, <2>1 DEF NodeState, BallotOrNull
  <2>5. ASSUME Less(s.b, newH) PROVE MayVotePrepare(P, n, newH)
    BY <2>1, <2>3, <2>5, VotesBelow DEF MayVotePrepare
  <2>6. /\ R.votedPrepare = r.votedPrepare \cup ({t.b} \cap Ballot)
        /\ R.acceptedPrepare = r.acceptedPrepare \cup ({t.p, t.pp} \cap Ballot)
        /\ R.votedCommit = r.votedCommit \cup C
        /\ R.acceptedCommit = r.acceptedCommit
        /\ R.committed = r.committed
    <3>1. t.phase = "PREPARE"
      BY <1>1, <2>1
    <3> QED
      BY <1>1, <3>1, PledgePrepare
  <2>7. /\ s.b \in r.votedPrepare \cup {NullBallot}
        /\ s.p \in r.acceptedPrepare \cup {NullBallot}
        /\ s.pp \in r.acceptedPrepare \cup {NullBallot}
    BY <2>1 DEF Current
  <2> HIDE DEF R
  <2>8. R.acceptedPrepare = r.acceptedPrepare
    <3>1. {t.p, t.pp} \cap Ballot \subseteq r.acceptedPrepare
      BY <1>1, <2>7, MakeBallot
    <3> QED
      BY <2>6, <3>1
  <2>9. newH.value \in Value /\ AnyRange({})
    BY <2>1, <2>4, EmptyRange, BallotFields
  <2>10. CASE /\ s.b = NullBallot \/ areBallotsCompatible(s.b, newH)
              /\ t.h = newH /\ t.c = IF newC # NullBallot THEN newC ELSE s.c
              /\ t.b = IF s.b = NullBallot \/ Less(s.b, newH) THEN newH ELSE s.b
    <3>1. t.c # NullBallot =>
            /\ t.c \in Ballot /\ areBallotsLessAndCompatible(t.c, newH)
            /\ t.c.value = newH.value
            /\ \A x \in r.votedPrepare : LessEq(t.c, x) => x.value = t.c.value
      <4>1. SUFFICES ASSUME t.c # NullBallot
                     PROVE  /\ t.c \in Ballot /\ areBallotsLessAndCompatible(t.c, newH)
                            /\ t.c.value = newH.value
                            /\ \A x \in r.votedPrepare :
                                 LessEq(t.c, x) => x.value = t.c.value
        OBVIOUS
      <4>2. /\ t.c \in Ballot /\ areBallotsLessAndCompatible(t.c, newH)
            /\ \A x \in P[n].votedPrepare : LessEq(t.c, x) => x.value = t.c.value
        <5>1. ASSUME NEW c, c = (IF newC # NullBallot THEN newC ELSE s.c),
                     c # NullBallot
              PROVE  /\ c \in Ballot /\ areBallotsLessAndCompatible(c, newH)
                     /\ \A x \in P[n].votedPrepare : LessEq(c, x) => x.value = c.value
          <6>1. s.b = NullBallot \/ areBallotsCompatible(s.b, newH)
            BY <2>10
          <6> HIDE DEF C, r, R
          <6>2. Confirmable(n, s, newC, newH)
            BY <1>3
          <6> QED
            BY <5>1, <6>1, <6>2, CommitVotes, SMT
        <5> QED
          BY <2>10, <4>1, <5>1
      <4> QED
        BY <4>2 DEF areBallotsLessAndCompatible, areBallotsCompatible
    <3>2. /\ AnyRange(C) /\ C \subseteq Ballot
          /\ \A a \in C : /\ t.c # NullBallot /\ a.value = newH.value
                          /\ LessEq(t.c, a) /\ LessEq(a, newH)
      <4>1. CASE t.c = NullBallot
        BY <1>1, <2>9, <4>1, RangeFacts
      <4>2. CASE t.c # NullBallot
        <5>1. C = BallotRange(t.c.value, t.c.counter, t.h.counter)
          BY <1>1, <2>1, <2>4, <2>10, <3>1, <4>2, RangeFacts, MakeBallot
        <5>2. t.c.value \in Value /\ t.c.counter \in Counter \ {0}
              /\ t.h.counter \in Counter
          BY <2>4, <3>1, <4>2, BallotFields
        <5>3. AnyRange(C)
          BY <5>1, <5>2 DEF AnyRange
        <5>4. C \subseteq Ballot
          BY <1>1, RangeFacts
        <5>5. \A a \in C : a.value = newH.value /\ LessEq(t.c, a)
                           /\ LessEq(a, newH)
          BY <2>10, <3>1, <4>2
          DEF CommitRange, areBallotsLessAndCompatible, areBallotsCompatible
        <5>6. QED BY <4>2, <5>3, <5>4, <5>5
      <4>3. QED BY <4>1, <4>2
    <3>3. ASSUME NEW a \in C PROVE MayVoteCommit(P, n, a)
      <4>1. /\ a \in Ballot /\ t.c # NullBallot /\ a.value = newH.value
            /\ LessEq(t.c, a) /\ LessEq(a, newH)
        BY <3>2, <3>3
      <4>2. MayConfirmPrepare(P, n, a)
        BY <2>1, <2>2, <4>1, ConfirmableDown
        DEF areBallotsLessAndCompatible, areBallotsCompatible
      <4>3. ASSUME NEW x \in r.votedPrepare, LessEq(a, x)
            PROVE  x.value = a.value
        <5>1. x \in BallotOrNull /\ a \in BallotOrNull
          BY <1>1, <4>1, <4>3 DEF Pledges, BallotOrNull
        <5>2. LessEq(t.c, x)
          BY <2>4, <4>1, <4>3, <5>1, BallotOrder
        <5>3. QED BY <3>1, <4>1, <4>3, <5>2
      <4>4. QED BY <4>1, <4>2, <4>3
                DEF MayVoteCommit, areBallotsLessAndIncompatible,
                    areBallotsCompatible
    <3> HIDE DEF C
    <3>4. \A x \in {newH}, a \in C : x.value = a.value
      BY <3>2
    <3>5. CASE s.b = NullBallot \/ Less(s.b, newH)
      <4>1. t.b = newH /\ Less(s.b, newH)
        BY <2>1, <2>10, <3>5, NullLess
      <4>2. R.votedPrepare = r.votedPrepare \cup {newH}
        BY <2>1, <2>6, <4>1
      <4>3. /\ AnyRange(C) /\ OneBallot({newH})
            /\ \A a \in C : MayVoteCommit(P, n, a)
            /\ \A b \in {newH} : MayVotePrepare(P, n, b)
            /\ \A x, y \in C \cup {newH} : areBallotsCompatible(x, y)
        BY <2>1, <2>5, <3>2, <3>3, <4>1 DEF OneBallot, areBallotsCompatible
      <4>4. ConfirmStep(P, n, R)
        BY <2>6, <2>8, <4>2, <4>3 DEF ConfirmStep
      <4>5. ASSUME NEW Q, Grew(P, Q), Q[n] = R PROVE VotesOK(Q, n, t)
        <5>1. \A x \in r.votedPrepare : LessEq(x, newH)
          BY <2>1, <4>1, VotesBelow
        <5>2. \A x \in Q[n].votedPrepare : LessEq(x, t.b)
          <6>1. t.b = newH /\ Q[n].votedPrepare = r.votedPrepare \cup {newH}
            BY <4>1, <4>2, <4>5
          <6>2. LessEq(newH, newH)
            BY DEF LessEq
          <6> QED
            BY <5>1, <6>1, <6>2
        <5>3. ASSUME NEW a \in Q[n].votedCommit
              PROVE  \/ t.c # NullBallot /\ a.value = t.c.value /\ LessEq(a, t.h)
                     \/ Left(Q, n, a)
          <6>1. CASE a \in C
            BY <2>10, <3>1, <3>2, <6>1
          <6>2. CASE a \in r.votedCommit
            <7>1. CASE Left(P, n, a)
              BY <4>5, <7>1, LeftGrew
            <7>2. CASE s.c # NullBallot /\ a.value = s.c.value /\ LessEq(a, s.h)
              <8>1. t.c = s.c /\ Less(s.h, newH)
                BY <2>1, <2>10, <7>2, ConsistentFacts
              <8>2. a \in BallotOrNull
                BY <1>1, <6>2 DEF Pledges, BallotOrNull
              <8>3. LessEq(a, newH)
                BY <2>4, <7>2, <8>1, <8>2, BallotOrder
              <8>4. QED BY <2>10, <7>2, <8>1, <8>3
            <7>3. QED BY <2>1, <6>2, <7>1, <7>2 DEF VotesOK
          <6>3. QED BY <2>6, <4>5, <5>3, <6>1, <6>2
        <5>4. ASSUME t.c # NullBallot, NEW x \in Q[n].votedPrepare,
                     LessEq(t.c, x)
              PROVE  x.value = t.c.value
          BY <3>1, <4>2, <4>5, <5>4
        <5>5. QED BY <5>2, <5>3, <5>4 DEF VotesOK
      <4>6. QED BY <4>4, <4>5 DEF Moves, VotingStep, R
    <3>6. CASE ~(s.b = NullBallot \/ Less(s.b, newH))
      <4>1. t.b = s.b /\ s.b \in r.votedPrepare
        BY <2>7, <2>10, <3>6
      <4>2. R.votedPrepare = r.votedPrepare
        BY <2>6, <4>1
      <4>3. /\ AnyRange(C) /\ OneBallot({})
            /\ \A a \in C : MayVoteCommit(P, n, a)
            /\ \A b \in {} : MayVotePrepare(P, n, b)
            /\ \A x, y \in C \cup {} : areBallotsCompatible(x, y)
        BY <3>2, <3>3 DEF OneBallot, areBallotsCompatible
      <4>4. ConfirmStep(P, n, R)
        <5>1. R.votedPrepare = r.votedPrepare \cup {}
          BY <4>2
        <5>2. QED BY <2>6, <2>8, <4>3, <5>1 DEF ConfirmStep
      <4>5. ASSUME NEW Q, Grew(P, Q), Q[n] = R PROVE VotesOK(Q, n, t)
        <5>2. \A x \in Q[n].votedPrepare : LessEq(x, t.b)
          BY <2>1, <4>1, <4>2, <4>5 DEF VotesOK
        <5>3. ASSUME NEW a \in Q[n].votedCommit
              PROVE  \/ t.c # NullBallot /\ a.value = t.c.value /\ LessEq(a, t.h)
                     \/ Left(Q, n, a)
          <6>1. CASE a \in C
            BY <2>10, <3>1, <3>2, <6>1
          <6>2. CASE a \in r.votedCommit
            <7>1. CASE Left(P, n, a)
              BY <4>5, <7>1, LeftGrew
            <7>2. CASE s.c # NullBallot /\ a.value = s.c.value /\ LessEq(a, s.h)
              <8>1. t.c = s.c /\ Less(s.h, newH)
                BY <2>1, <2>10, <7>2, ConsistentFacts
              <8>2. a \in BallotOrNull
                BY <1>1, <6>2 DEF Pledges, BallotOrNull
              <8>3. LessEq(a, newH)
                BY <2>4, <7>2, <8>1, <8>2, BallotOrder
              <8>4. QED BY <2>10, <7>2, <8>1, <8>3
            <7>3. QED BY <2>1, <6>2, <7>1, <7>2 DEF VotesOK
          <6>3. QED BY <2>6, <4>5, <5>3, <6>1, <6>2
        <5>4. ASSUME t.c # NullBallot, NEW x \in Q[n].votedPrepare,
                     LessEq(t.c, x)
              PROVE  x.value = t.c.value
          BY <3>1, <4>2, <4>5, <5>4
        <5>5. QED BY <5>2, <5>3, <5>4 DEF VotesOK
      <4>6. QED BY <4>4, <4>5 DEF Moves, VotingStep, R
    <3>7. QED BY <3>5, <3>6
  <2>11. CASE /\ s.b # NullBallot /\ ~areBallotsCompatible(s.b, newH)
              /\ Less(s.b, newH)
              /\ t.h = NullBallot /\ t.c = NullBallot /\ t.b = newH
    <3>1. C = {}
      BY <1>1, <2>11, RangeFacts
    <3>2. /\ R.votedPrepare = r.votedPrepare \cup {newH}
          /\ R.votedCommit = r.votedCommit \cup {}
      BY <2>1, <2>6, <2>11, <3>1
    <3>3. /\ AnyRange({}) /\ OneBallot({newH})
          /\ \A a \in {} : MayVoteCommit(P, n, a)
          /\ \A b \in {newH} : MayVotePrepare(P, n, b)
          /\ \A x, y \in {} \cup {newH} : areBallotsCompatible(x, y)
      BY <2>1, <2>5, <2>9, <2>11 DEF OneBallot, areBallotsCompatible
    <3>4. ConfirmStep(P, n, R)
      BY <2>6, <2>8, <3>2, <3>3 DEF ConfirmStep
    <3>5. ASSUME NEW Q, Grew(P, Q), Q[n] = R PROVE VotesOK(Q, n, t)
      <4>1. \A x \in r.votedPrepare : LessEq(x, newH)
        BY <2>1, <2>11, VotesBelow
      <4>2. \A x \in Q[n].votedPrepare : LessEq(x, t.b)
        BY <2>11, <3>2, <3>5, <4>1 DEF LessEq
      <4>3. ASSUME NEW a \in Q[n].votedCommit PROVE Left(Q, n, a)
        <5>1. CASE Left(P, n, a)
          BY <3>5, <5>1, LeftGrew
        <5>2. CASE s.c # NullBallot /\ a.value = s.c.value /\ LessEq(a, s.h)
          <6>1. /\ s.h # NullBallot /\ LessEq(s.h, s.b)
                /\ a.value = s.b.value
            BY <5>2, ConsistentFacts
          <6>2. a \in BallotOrNull
            BY <1>1, <3>2, <3>5, <4>3 DEF Pledges, BallotOrNull
          <6>3. LessEq(a, newH)
            BY <2>1, <2>4, <5>2, <6>1, <6>2, BallotOrder
          <6>4. areBallotsLessAndIncompatible(a, newH)
            BY <2>11, <6>1, <6>3
            DEF areBallotsLessAndIncompatible, areBallotsCompatible
          <6>5. QED BY <2>3, <3>5, <6>4, LeftGrew
        <5>3. QED BY <2>1, <3>2, <3>5, <4>3, <5>1, <5>2 DEF VotesOK
      <4>4. QED BY <2>11, <4>2, <4>3 DEF VotesOK
    <3>6. QED BY <3>4, <3>5 DEF Moves, VotingStep, R
  <2>12. QED BY <1>3, <2>10, <2>11 DEF ConfirmedPrepared
<1>4. QED BY <1>2, <1>3 DEF AttemptedConfirmPrepared

-----------------------------------------------------------------------------
(* The statements a node knows, has sent or is about to send are honest.   *)
HonestState(P, n, s) ==
  /\ HonestKnown(P, s)
  /\ \A st \in s.sent : HonestOf(P, n, st)
  /\ HonestOf(P, n, s.lastEnvelope) /\ HonestOf(P, n, s.lastEnvelopeEmit)
  /\ \A i \in 1 .. Len(s.stack) :
       s.stack[i].self => HonestOf(P, n, s.stack[i].hint)

(* A statement of m backed by pledges stays so as pledges grow.            *)
LEMMA HonestOfGrew ==
  ASSUME NEW P, NEW Q, Grew(P, Q), NEW m, NEW st \in Statement \cup {NoStatement},
         HonestOf(P, m, st)
  PROVE  HonestOf(Q, m, st)
BY HonestGrew DEF HonestOf

(* So do all the statements a node holds.                                  *)
LEMMA HonestStateGrew ==
  ASSUME NEW P, NEW Q, Grew(P, Q), NEW n \in Node, NEW s \in NodeState,
         HonestState(P, n, s)
  PROVE  HonestState(Q, n, s)
<1>1. /\ s.M \in [Node -> Statement \cup {NoStatement}]
      /\ s.sent \in SUBSET Statement /\ s.stack \in Seq(Frame)
      /\ s.lastEnvelope \in Statement \cup {NoStatement}
      /\ s.lastEnvelopeEmit \in Statement \cup {NoStatement}
  BY DEF NodeState
<1>2. HonestKnown(Q, s)
  BY <1>1, HonestOfGrew DEF HonestState, HonestKnown
<1>3. \A st \in s.sent : HonestOf(Q, n, st)
  BY <1>1, HonestOfGrew DEF HonestState
<1>4. HonestOf(Q, n, s.lastEnvelope) /\ HonestOf(Q, n, s.lastEnvelopeEmit)
  BY <1>1, HonestOfGrew DEF HonestState
<1>5. ASSUME NEW i \in 1 .. Len(s.stack), s.stack[i].self
      PROVE  HonestOf(Q, n, s.stack[i].hint)
  <2>0. s.stack[i] \in Frame
    BY <1>1, <1>5, ElementOfSeq
  <2>1. s.stack[i].hint \in Statement
    BY <2>0 DEF Frame
  <2>2. QED BY <1>5, <2>1, HonestOfGrew DEF HonestState
<1>6. QED BY <1>2, <1>3, <1>4, <1>5 DEF HonestState

(* A statement made from what was pledged is backed by pledges.            *)
LEMMA CreateHonest ==
  ASSUME NEW P \in [Node -> Pledges], NEW n \in Node, NEW s \in NodeState,
         Current(P[n], s), Consistent(s), Sayable(s)
  PROVE  HonestOf(P, n, createStatement(n, s))
<1> DEFINE st == createStatement(n, s)
           r == P[n]
<1>1. st \in Statement /\ st.node = n /\ st.type = s.phase
  BY CreateFacts DEF Sayable
<1>2. s.phase \in {"PREPARE", "CONFIRM", "EXTERNALIZE"}
  BY DEF NodeState
<1>3. s.c # NullBallot =>
        /\ CommitRange(s) = BallotRange(s.c.value, s.c.counter, s.h.counter)
        /\ s.c \in CommitRange(s) /\ s.c.counter <= s.h.counter
        /\ s.c.value = s.b.value /\ s.b \in Ballot
  <2>1. SUFFICES ASSUME s.c # NullBallot
                 PROVE  /\ CommitRange(s) =
                             BallotRange(s.c.value, s.c.counter, s.h.counter)
                        /\ s.c \in CommitRange(s) /\ s.c.counter <= s.h.counter
                        /\ s.c.value = s.b.value /\ s.b \in Ballot
    OBVIOUS
  <2>2. /\ s.c \in BallotOrNull /\ s.h \in BallotOrNull /\ s.h # NullBallot
        /\ LessEq(s.c, s.h) /\ s.c.value = s.h.value /\ s.c.value = s.b.value
        /\ s.b \in BallotOrNull /\ s.b # NullBallot
    BY <2>1, ConsistentFacts
  <2>3. areBallotsLessAndCompatible(s.c, s.h)
    BY <2>2 DEF areBallotsLessAndCompatible, areBallotsCompatible
  <2>4. s.c.counter <= s.h.counter /\ s.b \in Ballot
    BY <2>2, <2>3, SameValueOrder, BallotFields
  <2>5. QED BY <2>1, <2>2, <2>3, <2>4, RangeFacts
<1>4. CASE s.phase = "PREPARE"
  <2>1. /\ st.b = s.b /\ st.p = s.p /\ st.pp = s.pp
        /\ st.nC = s.c.counter /\ st.nH = s.h.counter
        /\ ~IsConfirm(st) /\ ~IsExternalize(st)
    BY <1>4 DEF createStatement, IsConfirm, IsExternalize
  <2> HIDE DEF st
  <2>2. st.nC # 0 => s.c # NullBallot
    BY <2>1, SMT DEF NullBallot
  <2>3. st.nC # 0 => \A k \in st.nC .. st.nH :
                       makeBallot(k, st.b.value) \in r.votedCommit
    BY <1>3, <1>4, <2>1, <2>2 DEF Current, BallotRange
  <2>4. QED BY <1>1, <1>4, <2>1, <2>3 DEF HonestOf, Honest, Current, st
<1>5. CASE s.phase = "CONFIRM"
  <2>1. /\ st.b = s.b /\ st.nPrepared = s.p.counter
        /\ st.nCommit = s.c.counter /\ st.nH = s.h.counter
        /\ ~IsPrepare(st) /\ ~IsExternalize(st)
    BY <1>5 DEF createStatement, IsPrepare, IsExternalize
  <2>2. s.c # NullBallot /\ s.p \in BallotOrNull /\ s.p # NullBallot
    BY <1>5, ConsistentFacts DEF Sayable
  <2>3. makeBallot(s.p.counter, s.b.value) \in Ballot
    BY <1>3, <2>2, BallotFields, MakeBallot DEF BallotOrNull
  <2> HIDE DEF st
  <2>4. /\ makeBallot(st.nPrepared, st.b.value) \in r.acceptedPrepare
        /\ st.nCommit <= st.nH
        /\ \A k \in st.nCommit .. st.nH :
             makeBallot(k, st.b.value) \in r.acceptedCommit
    BY <1>3, <1>5, <2>1, <2>2, <2>3 DEF Current, BallotRange
  <2>5. QED BY <1>1, <2>1, <2>4 DEF HonestOf, Honest, st
<1>6. CASE s.phase = "EXTERNALIZE"
  <2>1. st.commit = s.c /\ ~IsPrepare(st) /\ ~IsConfirm(st)
    BY <1>6 DEF createStatement, IsPrepare, IsConfirm
  <2>2. s.c # NullBallot
    BY <1>6, ConsistentFacts
  <2> HIDE DEF st
  <2>3. st.commit \in r.committed
    BY <1>3, <1>6, <2>1, <2>2 DEF Current
  <2>4. QED BY <1>1, <2>1, <2>3 DEF HonestOf, Honest, st
<1>7. QED BY <1>2, <1>4, <1>5, <1>6

Pledged(P, n, s) ==
  /\ HonestState(P, n, s) /\ Current(P[n], s) /\ VotesOK(P, n, s)
  /\ Externalized(P[n], s)

(* The statements held are backed by pledges if they are the same.         *)
LEMMA HonestSame ==
  ASSUME NEW P, NEW n, NEW s, NEW t, SameSaid(s, t), HonestState(P, n, s)
  PROVE  HonestState(P, n, t)
BY DEF HonestState, HonestKnown, SameSaid, SameCall

(* Pledges that stay the same have grown.                                  *)
LEMMA GrewRefl == \A P : Grew(P, P)
BY DEF Grew, GrewBy

(* The node is true to its pledges if its ballots and statements are the   *)
(* same.                                                                   *)
LEMMA PledgedSame ==
  ASSUME NEW P, NEW n \in Node, NEW s, NEW t, SameSaid(s, t), SameCore(s, t),
         t.ext = s.ext, Pledged(P, n, s)
  PROVE  Pledged(P, n, t)
<1>1. HonestState(P, n, t)
  BY HonestSame DEF Pledged
<1>2. Current(P[n], t)
  BY CurrentSame DEF Pledged
<1>3. VotesOK(P, n, t)
  BY VotesSame, GrewRefl DEF Pledged
<1>4. QED BY <1>1, <1>2, <1>3 DEF Pledged, Externalized

(* The node is true to its pledges after a step of federated voting, if    *)
(* its statements are the same.                                            *)
LEMMA PledgedMoved ==
  ASSUME NEW P \in [Node -> Pledges], NEW n \in Node, NEW s \in NodeState,
         Pledged(P, n, s), NEW t \in NodeState, SameSaid(s, t), Moves(P, n, t),
         Externalized(Pledge(P[n], t), t),
         NEW Q, Grew(P, Q), Q[n] = Pledge(P[n], t)
  PROVE  Pledged(Q, n, t)
<1>1. HonestState(Q, n, t)
  BY HonestStateGrew, HonestSame DEF Pledged
<1>2. Current(Q[n], t)
  BY PledgeCurrent
<1>3. VotesOK(Q, n, t)
  BY DEF Moves
<1>4. QED BY <1>1, <1>2, <1>3 DEF Pledged

(* The values externalized are committed as long as they are the same.     *)
LEMMA ExternalizedSame ==
  ASSUME NEW P \in [Node -> Pledges], NEW n \in Node, NEW s, NEW t \in NodeState,
         Externalized(P[n], s), t.ext = s.ext
  PROVE  Externalized(Pledge(P[n], t), t)
<1>1. GrewBy(P[n], Pledge(P[n], t))
  BY PledgeFields
<1>2. QED BY <1>1 DEF Externalized, GrewBy

(* The pledges of all grow when those of one node do.                      *)
LEMMA GrewOne ==
  ASSUME NEW P \in [Node -> Pledges], NEW n \in Node, NEW R \in Pledges,
         GrewBy(P[n], R)
  PROVE  LET Q == [P EXCEPT ![n] = R]
         IN  Q \in [Node -> Pledges] /\ Grew(P, Q) /\ Q[n] = R
<1> DEFINE Q == [P EXCEPT ![n] = R]
<1>1. Q \in [Node -> Pledges] /\ \A m \in Node : Q[m] = IF m = n THEN R ELSE P[m]
  OBVIOUS
<1> HIDE DEF Q
<1>2. \A m \in Node : GrewBy(P[m], P[m])
  BY DEF GrewBy
<1>3. Grew(P, Q)
  BY <1>1, <1>2 DEF Grew
<1>4. QED BY <1>1, <1>3 DEF Q

-----------------------------------------------------------------------------
(* The operators on ballots are those of the instance.                     *)
LEMMA VotingOps ==
  /\ Voting!Ballot = Ballot /\ Voting!Counter = Counter
  /\ \A k, v : Voting!makeBallot(k, v) = makeBallot(k, v)
  /\ \A x, y : Voting!Less(x, y) <=> Less(x, y)
  /\ \A x, y : Voting!areBallotsCompatible(x, y) <=> areBallotsCompatible(x, y)
  /\ \A x, y : Voting!areBallotsLessAndCompatible(x, y)
                 <=> areBallotsLessAndCompatible(x, y)
  /\ \A x, y : Voting!areBallotsLessAndIncompatible(x, y)
                 <=> areBallotsLessAndIncompatible(x, y)
BY DEF Voting!Ballot, Ballot, Voting!Counter, Counter, Voting!makeBallot,
       makeBallot, Voting!Less, Less, Voting!LessEq, LessEq,
       Voting!areBallotsCompatible, areBallotsCompatible,
       Voting!areBallotsLessAndCompatible, areBallotsLessAndCompatible,
       Voting!areBallotsLessAndIncompatible, areBallotsLessAndIncompatible

(* Who supports what, in the instance and on the pledges.                  *)
LEMMA VotingSupport ==
  ASSUME NEW b
  PROVE  /\ Voting!VotesPrepare(b) = VotedPrep(pledged, b)
         /\ Voting!AcceptsPrepare(b) = AcceptedPrep(pledged, b)
         /\ Voting!ExternalizesPrepare(b) = ExternPrep(pledged, b)
         /\ Voting!VotesCommit(b) = VotedComm(pledged, b)
         /\ Voting!AcceptsCommit(b) = AcceptedComm(pledged, b)
         /\ Voting!ExternalizesCommit(b) = ExternComm(pledged, b)
<1>1. Voting!VotesPrepare(b) = VotedPrep(pledged, b)
  BY VotingOps DEF Voting!VotesPrepare, VotedPrep
<1>2. Voting!AcceptsPrepare(b) = AcceptedPrep(pledged, b)
  BY VotingOps DEF Voting!AcceptsPrepare, AcceptedPrep
<1>3. Voting!ExternalizesPrepare(b) = ExternPrep(pledged, b)
  BY VotingOps DEF Voting!ExternalizesPrepare, ExternPrep
<1>4. Voting!VotesCommit(b) = VotedComm(pledged, b)
  BY VotingOps DEF Voting!VotesCommit, VotedComm
<1>5. Voting!AcceptsCommit(b) = AcceptedComm(pledged, b)
  BY VotingOps DEF Voting!AcceptsCommit, AcceptedComm
<1>6. Voting!ExternalizesCommit(b) = ExternComm(pledged, b)
  BY VotingOps DEF Voting!ExternalizesCommit, ExternComm
<1>7. QED BY <1>1, <1>2, <1>3, <1>4, <1>5, <1>6

(* What a node may vote for, accept and confirm, in the instance and on    *)
(* the pledges.                                                            *)
LEMMA VotingMay ==
  ASSUME NEW n \in Node, NEW b \in Ballot, pledged \in [Node -> Pledges]
  PROVE  /\ b \notin pledged[n].acceptedPrepare /\ MayAcceptPrepare(pledged, n, b)
              => b \in Voting!AcceptablePrepare(n)
         /\ MayConfirmPrepare(pledged, n, b) <=> b \in Voting!ConfirmablePrepare(n)
         /\ MayAcceptCommit(pledged, n, b) => b \in Voting!AcceptableCommit(n)
         /\ MayConfirmCommit(pledged, n, b) => b \in Voting!ConfirmableCommit(n)
         /\ MayVotePrepare(pledged, n, b) => b \in Voting!VotablePrepare(n)
         /\ MayVoteCommit(pledged, n, b) => b \in Voting!VotableCommit(n)
<1>0. b \in Voting!Ballot
  BY VotingOps
<1>1. b \notin pledged[n].acceptedPrepare /\ MayAcceptPrepare(pledged, n, b)
        => b \in Voting!AcceptablePrepare(n)
  BY <1>0, VotingSupport DEF Voting!AcceptablePrepare, MayAcceptPrepare
<1>2. \A x \in Ballot :
        MayConfirmPrepare(pledged, n, x) <=> x \in Voting!ConfirmablePrepare(n)
  BY VotingOps, VotingSupport DEF Voting!ConfirmablePrepare, MayConfirmPrepare
<1>3. MayAcceptCommit(pledged, n, b) => b \in Voting!AcceptableCommit(n)
  BY <1>0, VotingSupport DEF Voting!AcceptableCommit, MayAcceptCommit
<1>4. MayConfirmCommit(pledged, n, b) => b \in Voting!ConfirmableCommit(n)
  BY <1>0, VotingSupport DEF Voting!ConfirmableCommit, MayConfirmCommit
<1>5. ASSUME MayVotePrepare(pledged, n, b) PROVE b \in Voting!VotablePrepare(n)
  <2>1. \A a : Left(pledged, n, a) =>
          \E q \in pledged[n].acceptedPrepare \cup Voting!ConfirmablePrepare(n) :
            Voting!areBallotsLessAndIncompatible(a, q)
    BY <1>2, VotingOps DEF Left
  <2>2. QED BY <1>0, <1>5, <2>1, VotingOps DEF Voting!VotablePrepare, MayVotePrepare
<1>6. ASSUME MayVoteCommit(pledged, n, b) PROVE b \in Voting!VotableCommit(n)
  BY <1>2, <1>6, VotingOps DEF Voting!VotableCommit, MayVoteCommit
<1>7. QED BY <1>1, <1>2, <1>3, <1>4, <1>5, <1>6

(* The sets of ballots the actions of the instance take.                   *)
LEMMA VotingSets ==
  /\ \A C : AnyRange(C) => C \in Voting!Intervals
  /\ \A B : OneBallot(B) => B \in Voting!AtMostOne
<1>1. \A C : AnyRange(C) => C \in Voting!Intervals
  <2>1. \A v, lo, hi : Voting!Interval(v, lo, hi) = BallotRange(v, lo, hi)
    BY VotingOps DEF BallotRange, Voting!Interval
  <2>2. Voting!Counter = Counter
    BY VotingOps
  <2>3. QED BY <2>1, <2>2, SMT DEF AnyRange, Voting!Intervals
<1>2. \A B : OneBallot(B) => B \in Voting!AtMostOne
  BY VotingOps DEF OneBallot, Voting!AtMostOne
<1>3. QED BY <1>1, <1>2

(* The change of one kind of pledge of one node, as a change of a variable *)
(* of the instance.                                                        *)
LEMMA FieldStep ==
  ASSUME NEW n \in Node, NEW R \in Pledges, pledged \in [Node -> Pledges],
         pledged' = [pledged EXCEPT ![n] = R]
  PROVE  /\ \A S : R.votedPrepare = pledged[n].votedPrepare \cup S =>
              [m \in Node |-> pledged'[m].votedPrepare] =
                [[m \in Node |-> pledged[m].votedPrepare] EXCEPT ![n] = @ \cup S]
         /\ \A S : R.acceptedPrepare = pledged[n].acceptedPrepare \cup S =>
              [m \in Node |-> pledged'[m].acceptedPrepare] =
                [[m \in Node |-> pledged[m].acceptedPrepare] EXCEPT ![n] = @ \cup S]
         /\ \A S : R.votedCommit = pledged[n].votedCommit \cup S =>
              [m \in Node |-> pledged'[m].votedCommit] =
                [[m \in Node |-> pledged[m].votedCommit] EXCEPT ![n] = @ \cup S]
         /\ \A S : R.acceptedCommit = pledged[n].acceptedCommit \cup S =>
              [m \in Node |-> pledged'[m].acceptedCommit] =
                [[m \in Node |-> pledged[m].acceptedCommit] EXCEPT ![n] = @ \cup S]
         /\ \A S : R.committed = pledged[n].committed \cup S =>
              [m \in Node |-> pledged'[m].committed] =
                [[m \in Node |-> pledged[m].committed] EXCEPT ![n] = @ \cup S]
<1>1. \A m \in Node : pledged'[m] = IF m = n THEN R ELSE pledged[m]
  OBVIOUS
<1>2. QED BY <1>1

(* A kind of pledge that does not change is a variable that does not.      *)
LEMMA FieldSame ==
  ASSUME NEW n \in Node, NEW R \in Pledges, pledged \in [Node -> Pledges],
         pledged' = [pledged EXCEPT ![n] = R]
  PROVE  /\ R.votedPrepare = pledged[n].votedPrepare =>
              [m \in Node |-> pledged'[m].votedPrepare] =
                [m \in Node |-> pledged[m].votedPrepare]
         /\ R.acceptedPrepare = pledged[n].acceptedPrepare =>
              [m \in Node |-> pledged'[m].acceptedPrepare] =
                [m \in Node |-> pledged[m].acceptedPrepare]
         /\ R.votedCommit = pledged[n].votedCommit =>
              [m \in Node |-> pledged'[m].votedCommit] =
                [m \in Node |-> pledged[m].votedCommit]
         /\ R.acceptedCommit = pledged[n].acceptedCommit =>
              [m \in Node |-> pledged'[m].acceptedCommit] =
                [m \in Node |-> pledged[m].acceptedCommit]
         /\ R.committed = pledged[n].committed =>
              [m \in Node |-> pledged'[m].committed] =
                [m \in Node |-> pledged[m].committed]
<1>1. \A m \in Node : pledged'[m] = IF m = n THEN R ELSE pledged[m]
  OBVIOUS
<1>2. QED BY <1>1

(* A step of federated voting on the pledges is a step of the instance.    *)
LEMMA VotingBridge ==
  ASSUME NEW n \in Node, NEW R \in Pledges, pledged \in [Node -> Pledges],
         pledged' = [pledged EXCEPT ![n] = R], VotingStep(pledged, n, R)
  PROVE  Voting!Next \/ UNCHANGED Voting!vars
<1>1. CASE R = pledged[n]
  <2>1. pledged' = pledged
    BY <1>1
  <2>2. QED BY <2>1 DEF Voting!vars
<1>2. CASE VoteStep(pledged, n, R)
  <2>1. PICK b \in Ballot : /\ MayVotePrepare(pledged, n, b)
                            /\ R.votedPrepare = pledged[n].votedPrepare \cup {b}
    BY <1>2 DEF VoteStep
  <2>2. b \in Voting!VotablePrepare(n)
    BY <2>1, VotingMay
  <2>3. Voting!VotePrepare(n, b)
    BY <1>2, <2>1, <2>2, FieldStep, FieldSame DEF Voting!VotePrepare, VoteStep
  <2>4. QED BY <2>3, VotingOps DEF Voting!Next
<1>3. CASE AcceptStep(pledged, n, R)
  <2>1. PICK b \in Ballot :
          /\ b \notin pledged[n].acceptedPrepare /\ MayAcceptPrepare(pledged, n, b)
          /\ R.acceptedPrepare = pledged[n].acceptedPrepare \cup {b}
    BY <1>3 DEF AcceptStep
  <2>2. b \in Voting!AcceptablePrepare(n)
    BY <2>1, VotingMay
  <2>3. Voting!AcceptPrepare(n, b)
    BY <1>3, <2>1, <2>2, FieldStep, FieldSame DEF Voting!AcceptPrepare, AcceptStep
  <2>4. QED BY <2>3, VotingOps DEF Voting!Next
<1>4. CASE ConfirmStep(pledged, n, R)
  <2>1. PICK C, B :
          /\ AnyRange(C) /\ OneBallot(B)
          /\ \A a \in C : MayVoteCommit(pledged, n, a)
          /\ \A b \in B : MayVotePrepare(pledged, n, b)
          /\ \A x, y \in C \cup B : areBallotsCompatible(x, y)
          /\ R.votedCommit = pledged[n].votedCommit \cup C
          /\ R.votedPrepare = pledged[n].votedPrepare \cup B
    BY <1>4 DEF ConfirmStep
  <2>2. C \subseteq Voting!VotableCommit(n) /\ B \subseteq Voting!VotablePrepare(n)
    <3>1. C \subseteq Ballot /\ B \subseteq Ballot
      BY <2>1 DEF MayVoteCommit, MayVotePrepare
    <3>2. QED BY <2>1, <3>1, VotingMay
  <2>3. \A x, y \in C \cup B : Voting!areBallotsCompatible(x, y)
    BY <2>1, VotingOps
  <2>4. Voting!ConfirmPrepare(n, C, B)
    BY <1>4, <2>1, <2>2, <2>3, FieldStep, FieldSame
       DEF Voting!ConfirmPrepare, ConfirmStep
  <2>5. QED BY <2>1, <2>4, VotingSets DEF Voting!Next
<1>5. CASE AcceptCommitStep(pledged, n, R)
  <2>1. PICK A, B :
          /\ AnyRange(A) /\ OneBallot(B) /\ A \subseteq Ballot
          /\ \A a \in A : MayAcceptCommit(pledged, n, a)
          /\ \A q \in B : \E x \in pledged[n].acceptedCommit \cup A :
               areBallotsCompatible(q, x)
          /\ R.acceptedCommit = pledged[n].acceptedCommit \cup A
          /\ R.acceptedPrepare = pledged[n].acceptedPrepare \cup B
    BY <1>5 DEF AcceptCommitStep
  <2>2. A \subseteq Voting!AcceptableCommit(n)
    BY <2>1, VotingMay
  <2>3. \A q \in B : \E x \in pledged[n].acceptedCommit \cup A :
          Voting!areBallotsCompatible(q, x)
    BY <2>1, VotingOps
  <2>4. Voting!AcceptCommit(n, A, B)
    BY <1>5, <2>1, <2>2, <2>3, FieldStep, FieldSame
       DEF Voting!AcceptCommit, AcceptCommitStep
  <2>5. QED BY <2>1, <2>4, VotingSets DEF Voting!Next
<1>6. CASE ConfirmCommitStep(pledged, n, R)
  <2>1. PICK A : /\ AnyRange(A) /\ A \subseteq Ballot
                 /\ \A a \in A : MayConfirmCommit(pledged, n, a)
                 /\ R.committed = pledged[n].committed \cup A
    BY <1>6 DEF ConfirmCommitStep
  <2>2. A \subseteq Voting!ConfirmableCommit(n)
    BY <2>1, VotingMay
  <2>3. Voting!ConfirmCommit(n, A)
    BY <1>6, <2>1, <2>2, FieldStep, FieldSame
       DEF Voting!ConfirmCommit, ConfirmCommitStep
  <2>4. QED BY <2>1, <2>3, VotingSets DEF Voting!Next
<1>7. QED BY <1>1, <1>2, <1>3, <1>4, <1>5, <1>6 DEF VotingStep
=============================================================================
