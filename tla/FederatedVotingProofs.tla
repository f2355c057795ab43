----------------------- MODULE FederatedVotingProofs -----------------------
(***************************************************************************)
(* Agreement of FederatedVoting, for any nodes, quorum slices, values and  *)
(* counters: IInv is inductive and implies it.                             *)
(***************************************************************************)
EXTENDS FederatedVoting, TLAPS

-----------------------------------------------------------------------------
(* The order of ballots.                                                   *)

(* A ballot is a record of two naturals.                                   *)
LEMMA BallotFields ==
  ASSUME NEW b \in Ballot
  PROVE  b.counter \in Nat /\ b.value \in Nat /\ b.value \in Value
<1>1. b.counter \in Counter /\ b.value \in Value
  BY DEF Ballot
<1>2. b.value \in Nat
  BY <1>1, ValueAssumption, Zenon
<1>3. b.counter \in Nat
  BY <1>1, CounterAssumption DEF Counter
<1>4. QED BY <1>1, <1>2, <1>3

(* Contradicting a ballot is contradicting every higher compatible one.    *)
LEMMA IncompatibleUp ==
  ASSUME NEW a \in Ballot, NEW b \in Ballot, NEW c \in Ballot,
         areBallotsLessAndIncompatible(a, b),
         areBallotsLessAndCompatible(b, c)
  PROVE  areBallotsLessAndIncompatible(a, c)
BY BallotFields DEF areBallotsLessAndIncompatible, areBallotsLessAndCompatible,
     areBallotsCompatible, LessEq, Less

(* Being below a compatible ballot is transitive.                          *)
LEMMA CompatibleTrans ==
  ASSUME NEW a \in Ballot, NEW b \in Ballot, NEW c \in Ballot,
         areBallotsLessAndCompatible(a, b), areBallotsLessAndCompatible(b, c)
  PROVE  areBallotsLessAndCompatible(a, c)
BY BallotFields DEF areBallotsLessAndCompatible,
     areBallotsCompatible, LessEq, Less

(* Of two incompatible ballots one is the lower.                           *)
LEMMA IncompatibleTotal ==
  ASSUME NEW a \in Ballot, NEW b \in Ballot, ~areBallotsCompatible(a, b)
  PROVE  areBallotsLessAndIncompatible(a, b) \/ areBallotsLessAndIncompatible(b, a)
BY BallotFields DEF areBallotsLessAndIncompatible,
     areBallotsCompatible, LessEq, Less

(* A ballot is not above itself.                                           *)
LEMMA LessAndCompatibleRefl ==
  ASSUME NEW a \in Ballot
  PROVE  areBallotsLessAndCompatible(a, a)
BY DEF areBallotsLessAndCompatible, areBallotsCompatible, LessEq

-----------------------------------------------------------------------------
(* Quorums.                                                                *)

(* A set that convinces a good node is a quorum, unless a member counted   *)
(* on the strength of an EXTERNALIZE statement; a quorum has good members. *)
LEMMA ConvincedCases ==
  ASSUME NEW n \in Good, NEW Plain, NEW Ext, Convinced(n, Plain, Ext)
  PROVE  \/ \E m \in Good : m \in Ext
         \/ \E Q \in SUBSET Node :
              Quorum(Q) /\ (\A m \in Q \cap Good : m \in Plain)
                        /\ (\E m \in Good : m \in Plain)
<1>1. PICK U \in SUBSET Node :
        /\ \E S \in QuorumSlices[n] : S \subseteq U
        /\ \A m \in U \cap Good :
             \/ m \in Ext
             \/ m \in Plain /\ \E S \in QuorumSlices[m] : S \subseteq U
  BY DEF Convinced
<1>2. CASE \E m \in U \cap Good : m \in Ext
  BY <1>2
<1>3. CASE ~ \E m \in U \cap Good : m \in Ext
  <2>1. Quorum(U)
    BY <1>1, <1>3 DEF Quorum
  <2>2. U \cap U \cap Good # {}
    BY <2>1, QuorumIntersection
  <2>3. QED BY <2>1, <2>2, <1>1, <1>3
<1>4. QED BY <1>2, <1>3

(* A set that blocks a good node has a good member.                        *)
LEMMA BlockedHasGood ==
  ASSUME NEW n \in Good, NEW T, Blocked(n, T)
  PROVE  \E m \in Good : m \in T
BY GoodSlice DEF Blocked

(* What may still be committed is not dead.                                *)
LEMMA CommittableNotDead ==
  ASSUME NEW a, Committable(a), Dead(a)
  PROVE  FALSE
BY QuorumIntersection DEF Committable, Dead

-----------------------------------------------------------------------------
(* What accepting a ballot as prepared rules out.                          *)

RulesOut(a) ==
  Dead(a) \/ \E r \in Ballot : Committable(r) /\ areBallotsLessAndIncompatible(r, a)

(* A value that may be committed rules out what is below any ballot of it. *)
LEMMA CommittableRulesOut ==
  ASSUME IInv, NEW a \in Ballot, NEW b \in Ballot, NEW r0 \in Ballot,
         areBallotsLessAndIncompatible(a, b),
         Committable(r0), areBallotsCompatible(r0, b)
  PROVE  RulesOut(a)
<1>1. PICK r \in Ballot, m \in Good :
        /\ Committable(r) /\ areBallotsCompatible(r, r0)
        /\ \E q \in acceptedPrepare[m] : areBallotsLessAndCompatible(r, q)
  BY DEF IInv, CommittablePrepared
<1>2. PICK q \in acceptedPrepare[m] : areBallotsLessAndCompatible(r, q)
  BY <1>1
<1>3. q \in Ballot
  BY <1>2 DEF IInv, TypeOK
<1>4. ~areBallotsCompatible(a, r)
  BY <1>1 DEF areBallotsCompatible, areBallotsLessAndIncompatible
<1>5. CASE areBallotsLessAndIncompatible(r, a)
  BY <1>1, <1>5 DEF RulesOut
<1>6. CASE areBallotsLessAndIncompatible(a, r)
  <2>1. areBallotsLessAndIncompatible(a, q)
    BY <1>2, <1>3, <1>6, IncompatibleUp
  <2>2. QED BY <2>1 DEF IInv, PreparedRulesOut, RulesOut
<1>7. QED BY <1>4, <1>5, <1>6, IncompatibleTotal

(* So does a good node that says a ballot is prepared.                     *)
LEMMA PreparedNodeRulesOut ==
  ASSUME IInv, NEW a \in Ballot, NEW b \in Ballot, NEW m \in Good,
         areBallotsLessAndIncompatible(a, b),
         m \in AcceptsPrepare(b) \cup ExternalizesPrepare(b)
  PROVE  RulesOut(a)
<1>1. CASE m \in AcceptsPrepare(b)
  <2>1. PICK q \in acceptedPrepare[m] : areBallotsLessAndCompatible(b, q)
    BY <1>1 DEF AcceptsPrepare
  <2>2. q \in Ballot
    BY <2>1 DEF IInv, TypeOK
  <2>3. areBallotsLessAndIncompatible(a, q)
    BY <2>1, <2>2, IncompatibleUp
  <2>4. QED BY <2>1, <2>3 DEF IInv, PreparedRulesOut, RulesOut
<1>2. CASE m \in ExternalizesPrepare(b)
  <2>1. PICK x \in committed[m] : areBallotsCompatible(b, x)
    BY <1>2 DEF ExternalizesPrepare
  <2>2. PICK r \in Ballot : Committable(r) /\ areBallotsLessAndCompatible(r, x)
    BY <2>1 DEF IInv, CommittedFromQuorum, CommittableBelow
  <2>3. areBallotsCompatible(r, b)
    BY <2>1, <2>2 DEF areBallotsLessAndCompatible, areBallotsCompatible
  <2>4. QED BY <2>2, <2>3, CommittableRulesOut
<1>3. QED BY <1>1, <1>2

(* A good node that may accept b as prepared rules out what is below b.    *)
LEMMA AcceptableRulesOut ==
  ASSUME IInv, NEW n \in Good, NEW b \in AcceptablePrepare(n),
         NEW a \in Ballot, areBallotsLessAndIncompatible(a, b)
  PROVE  RulesOut(a)
<1>1. /\ b \in Ballot
      /\ Accept(n, VotesPrepare(b), AcceptsPrepare(b), ExternalizesPrepare(b))
  BY DEF AcceptablePrepare
<1>2. CASE \E m \in Good : m \in AcceptsPrepare(b) \cup ExternalizesPrepare(b)
  BY <1>1, <1>2, PreparedNodeRulesOut
<1>3. CASE ~ \E m \in Good : m \in AcceptsPrepare(b) \cup ExternalizesPrepare(b)
  <2>1. ~Blocked(n, AcceptsPrepare(b) \cup ExternalizesPrepare(b))
    BY <1>3, BlockedHasGood
  <2>2. Convinced(n, VotesPrepare(b) \cup AcceptsPrepare(b),
                  ExternalizesPrepare(b))
    BY <1>1, <2>1 DEF Accept
  <2>3. PICK Q \in SUBSET Node :
          Quorum(Q) /\ \A m \in Q \cap Good :
                         m \in VotesPrepare(b) \cup AcceptsPrepare(b)
    BY <2>2, <1>3, ConvincedCases
  <2>4. CASE \E m \in Q \cap Good : \E x \in acceptedCommit[m] :
               areBallotsCompatible(b, x)
    <3>1. PICK m \in Good : \E x \in acceptedCommit[m] : areBallotsCompatible(b, x)
      BY <2>4
    <3>2. PICK x \in acceptedCommit[m] : areBallotsCompatible(b, x)
      BY <3>1
    <3>3. PICK r \in Ballot : Committable(r) /\ areBallotsLessAndCompatible(r, x)
      BY <3>2 DEF IInv, AcceptedFromQuorum, CommittableBelow
    <3>4. areBallotsCompatible(r, b)
      BY <3>2, <3>3 DEF areBallotsLessAndCompatible, areBallotsCompatible
    <3>5. QED BY <1>1, <3>3, <3>4, CommittableRulesOut
  <2>5. CASE ~ \E m \in Q \cap Good : \E x \in acceptedCommit[m] :
                 areBallotsCompatible(b, x)
    <3>1. ASSUME NEW m \in Q \cap Good
          PROVE  \E x \in votedPrepare[m] : areBallotsLessAndIncompatible(a, x)
      <4>1. PICK x \in votedPrepare[m] : areBallotsLessAndCompatible(b, x)
        BY <1>3, <2>3, <2>5 DEF VotesPrepare
      <4>2. x \in Ballot
        BY <4>1 DEF IInv, TypeOK
      <4>3. QED BY <1>1, <4>1, <4>2, IncompatibleUp
    <3>2. CASE \E m \in Q \cap Good : a \in votedCommit[m]
      <4>1. PICK m \in Q \cap Good : a \in votedCommit[m]
        BY <3>2
      <4>2. PICK x \in votedPrepare[m] : areBallotsLessAndIncompatible(a, x)
        BY <3>1, <4>1
      <4>3. PICK q \in Ballot : /\ areBallotsLessAndIncompatible(a, q)
                                /\ AcceptsPrepare(q) \cup ExternalizesPrepare(q) # {}
        BY <4>1, <4>2 DEF IInv, LeftForPrepared
      <4>4. PICK k \in Good : k \in AcceptsPrepare(q) \cup ExternalizesPrepare(q)
        BY <4>3 DEF AcceptsPrepare, ExternalizesPrepare
      <4>5. QED BY <4>3, <4>4, PreparedNodeRulesOut
    <3>3. CASE ~ \E m \in Q \cap Good : a \in votedCommit[m]
      BY <2>3, <3>1, <3>3 DEF Dead, RulesOut
    <3>4. QED BY <3>2, <3>3
  <2>6. QED BY <2>4, <2>5
<1>4. QED BY <1>2, <1>3

(* Some good node says that a higher incompatible ballot is prepared.      *)
Contradicted(a) ==
  \E q \in Ballot : /\ areBallotsLessAndIncompatible(a, q)
                    /\ AcceptsPrepare(q) \cup ExternalizesPrepare(q) # {}

(* A node that accepted or confirmed such a ballot shows it.               *)
LEMMA KnownPrepared ==
  ASSUME IInv, NEW n \in Good, NEW a \in Ballot,
         NEW q \in acceptedPrepare[n] \cup ConfirmablePrepare(n),
         areBallotsLessAndIncompatible(a, q)
  PROVE  Contradicted(a)
<1>1. q \in Ballot
  BY DEF IInv, TypeOK, ConfirmablePrepare
<1>2. CASE q \in acceptedPrepare[n]
  BY <1>1, <1>2, LessAndCompatibleRefl DEF AcceptsPrepare, Contradicted
<1>3. CASE q \in ConfirmablePrepare(n)
  <2>1. Convinced(n, AcceptsPrepare(q), ExternalizesPrepare(q))
    BY <1>3 DEF ConfirmablePrepare
  <2>2. \E m \in Good : m \in AcceptsPrepare(q) \/ m \in ExternalizesPrepare(q)
    BY <2>1, ConvincedCases
  <2>3. QED BY <1>1, <2>2 DEF Contradicted
<1>4. QED BY <1>2, <1>3

(* What good nodes said is prepared they go on saying.                     *)
LEMMA ContradictedStays ==
  ASSUME \A m \in Good : /\ acceptedPrepare[m] \subseteq acceptedPrepare'[m]
                         /\ committed[m] \subseteq committed'[m]
  PROVE  \A a : Contradicted(a) => Contradicted(a)'
BY DEF Contradicted, AcceptsPrepare, ExternalizesPrepare

-----------------------------------------------------------------------------
(* What may be accepted or confirmed as committed was voted by a quorum.   *)

(* One good node that accepted or externalized a commit at or below a is   *)
(* enough: what it says came from a quorum that voted to commit.           *)
LEMMA CommitSupport ==
  ASSUME IInv, NEW a \in Ballot, NEW m \in Good,
         \/ \E x \in acceptedCommit[m] : areBallotsLessAndCompatible(x, a)
         \/ m \in ExternalizesCommit(a)
  PROVE  CommittableBelow(a)
<1>1. PICK x \in acceptedCommit[m] \cup committed[m] :
        areBallotsLessAndCompatible(x, a)
  BY DEF ExternalizesCommit
<1>2. x \in Ballot /\ CommittableBelow(x)
  BY <1>1 DEF IInv, TypeOK, AcceptedFromQuorum, CommittedFromQuorum
<1>3. PICK r \in Ballot : Committable(r) /\ areBallotsLessAndCompatible(r, x)
  BY <1>2 DEF CommittableBelow
<1>4. areBallotsLessAndCompatible(r, a)
  BY <1>1, <1>2, <1>3, CompatibleTrans
<1>5. QED BY <1>3, <1>4 DEF CommittableBelow

(* attemptConfirmCommit confirms only what a quorum voted to commit, at    *)
(* that ballot or below.                                                   *)
LEMMA ConfirmableCommitSupport ==
  ASSUME IInv, NEW n \in Good, NEW a \in ConfirmableCommit(n)
  PROVE  CommittableBelow(a)
<1>1. a \in Ballot /\ Convinced(n, AcceptsCommit(a), ExternalizesCommit(a))
  BY DEF ConfirmableCommit
<1>2. PICK m \in Good : m \in AcceptsCommit(a) \/ m \in ExternalizesCommit(a)
  BY <1>1, ConvincedCases
<1>3. QED BY <1>1, <1>2, CommitSupport, LessAndCompatibleRefl DEF AcceptsCommit

(* So does attemptAcceptCommit, through a quorum or a blocking set.        *)
LEMMA AcceptableCommitSupport ==
  ASSUME IInv, NEW n \in Good, NEW a \in AcceptableCommit(n)
  PROVE  CommittableBelow(a)
<1>1. /\ a \in Ballot
      /\ Accept(n, VotesCommit(a), AcceptsCommit(a), ExternalizesCommit(a))
  BY DEF AcceptableCommit
<1>2. CASE \E m \in Good : \/ m \in ExternalizesCommit(a)
                           \/ \E x \in acceptedCommit[m] :
                                areBallotsLessAndCompatible(x, a)
  BY <1>1, <1>2, CommitSupport
<1>3. CASE ~ \E m \in Good : \/ m \in ExternalizesCommit(a)
                             \/ \E x \in acceptedCommit[m] :
                                  areBallotsLessAndCompatible(x, a)
  <2>1. ~ \E m \in Good : m \in AcceptsCommit(a) \cup ExternalizesCommit(a)
    BY <1>1, <1>3, LessAndCompatibleRefl DEF AcceptsCommit
  <2>2. Convinced(n, VotesCommit(a) \cup AcceptsCommit(a), ExternalizesCommit(a))
    BY <1>1, <2>1, BlockedHasGood DEF Accept
  <2>3. PICK Q \in SUBSET Node :
          Quorum(Q) /\ \A m \in Q \cap Good :
                         m \in VotesCommit(a) \cup AcceptsCommit(a)
    BY <2>1, <2>2, ConvincedCases
  <2>4. \A m \in Q \cap Good : a \in votedCommit[m]
    BY <1>3, <2>1, <2>3 DEF VotesCommit
  <2>5. Committable(a)
    BY <2>3, <2>4 DEF Committable
  <2>6. QED BY <1>1, <2>5, LessAndCompatibleRefl DEF CommittableBelow
<1>4. QED BY <1>2, <1>3

-----------------------------------------------------------------------------
(* Initially there is nothing to show: quorums have good members.          *)
LEMMA InitIInv == Init => IInv
<1> SUFFICES ASSUME Init PROVE IInv
  OBVIOUS
<1>1. \A a : ~Committable(a)
  <2> SUFFICES ASSUME NEW a, Committable(a) PROVE FALSE
    OBVIOUS
  <2>1. PICK Q \in SUBSET Node :
          Quorum(Q) /\ \A m \in Q \cap Good : a \in votedCommit[m]
    BY DEF Committable
  <2>2. Q \cap Q \cap Good # {}
    BY <2>1, QuorumIntersection
  <2>3. QED BY <2>1, <2>2 DEF Init
<1>2. TypeOK
  BY DEF Init, TypeOK
<1>3. AcceptedFromQuorum /\ CommittedFromQuorum /\ LeftForPrepared
  BY DEF Init, AcceptedFromQuorum, CommittedFromQuorum, LeftForPrepared
<1>4. CommittablePrepared /\ OneCommittable
  BY <1>1 DEF CommittablePrepared, OneCommittable
<1>5. PreparedRulesOut
  BY DEF Init, PreparedRulesOut
<1>6. QED BY <1>2, <1>3, <1>4, <1>5 DEF IInv

-----------------------------------------------------------------------------
(* Each action preserves IInv.                                             *)

(* bumpToBallot: more ballots are dead, nothing else changes.              *)
LEMMA VotePrepareStep ==
  ASSUME IInv, NEW n \in Good, NEW b \in Ballot, VotePrepare(n, b)
  PROVE  IInv'
<1>1. /\ votedPrepare' = [votedPrepare EXCEPT ![n] = @ \cup {b}]
      /\ UNCHANGED <<acceptedPrepare, votedCommit, acceptedCommit, committed>>
      /\ b \in VotablePrepare(n)
  BY DEF VotePrepare
<1>2. TypeOK'
  BY <1>1 DEF IInv, TypeOK
<1>3. \A a : Committable(a)' <=> Committable(a)
  BY <1>1 DEF Committable
<1>4. \A a : Dead(a) => Dead(a)'
  <2> SUFFICES ASSUME NEW a, Dead(a) PROVE Dead(a)'
    OBVIOUS
  <2>1. \A m \in Good : votedPrepare[m] \subseteq votedPrepare'[m]
    BY <1>1 DEF IInv, TypeOK
  <2>2. QED BY <1>1, <2>1 DEF Dead
<1>5. AcceptedFromQuorum' /\ CommittedFromQuorum'
  BY <1>1, <1>3 DEF IInv, AcceptedFromQuorum, CommittedFromQuorum,
                    CommittableBelow
<1>6. LeftForPrepared'
  <2> SUFFICES ASSUME NEW m \in Good, NEW a \in votedCommit[m],
                      NEW x \in votedPrepare'[m],
                      areBallotsLessAndIncompatible(a, x)
               PROVE  Contradicted(a)'
    BY <1>1 DEF LeftForPrepared, Contradicted
  <2>1. a \in Ballot
    BY DEF IInv, TypeOK
  <2>2. Contradicted(a)
    <3>1. CASE x \in votedPrepare[m]
      BY <3>1 DEF IInv, LeftForPrepared, Contradicted
    <3>2. CASE m = n /\ x = b
      BY <1>1, <2>1, <3>2, KnownPrepared DEF VotablePrepare
    <3>3. QED BY <1>1, <3>1, <3>2 DEF IInv, TypeOK
  <2>3. QED BY <1>1, <2>2, ContradictedStays
<1>7. CommittablePrepared' /\ OneCommittable'
  BY <1>1, <1>3 DEF IInv, CommittablePrepared, OneCommittable
<1>8. PreparedRulesOut'
  BY <1>1, <1>3, <1>4 DEF IInv, PreparedRulesOut
<1>9. QED BY <1>2, <1>5, <1>6, <1>7, <1>8 DEF IInv

(* setAcceptPrepared: the new ballot rules out what is below it.           *)
LEMMA AcceptPrepareStep ==
  ASSUME IInv, NEW n \in Good, NEW b \in Ballot, AcceptPrepare(n, b)
  PROVE  IInv'
<1>1. /\ acceptedPrepare' = [acceptedPrepare EXCEPT ![n] = @ \cup {b}]
      /\ UNCHANGED <<votedPrepare, votedCommit, acceptedCommit, committed>>
      /\ b \in AcceptablePrepare(n)
  BY DEF AcceptPrepare
<1>2. TypeOK'
  BY <1>1 DEF IInv, TypeOK
<1>3. \A a : (Committable(a)' <=> Committable(a)) /\ (Dead(a)' <=> Dead(a))
  BY <1>1 DEF Committable, Dead
<1>4. \A m \in Good : acceptedPrepare[m] \subseteq acceptedPrepare'[m]
  BY <1>1 DEF IInv, TypeOK
<1>5. AcceptedFromQuorum' /\ CommittedFromQuorum'
  BY <1>1, <1>3 DEF IInv, AcceptedFromQuorum, CommittedFromQuorum,
                    CommittableBelow
<1>6. LeftForPrepared'
  <2>1. \A a : Contradicted(a) => Contradicted(a)'
    BY <1>1, <1>4, ContradictedStays
  <2>2. QED BY <1>1, <2>1 DEF IInv, LeftForPrepared, Contradicted
<1>7. CommittablePrepared' /\ OneCommittable'
  BY <1>3, <1>4 DEF IInv, CommittablePrepared, OneCommittable
<1>8. PreparedRulesOut'
  <2> SUFFICES ASSUME NEW m \in Good, NEW q \in acceptedPrepare'[m],
                      NEW a \in Ballot, areBallotsLessAndIncompatible(a, q)
               PROVE  RulesOut(a)
    BY <1>3 DEF PreparedRulesOut, RulesOut
  <2>1. CASE q \in acceptedPrepare[m]
    BY <2>1 DEF IInv, PreparedRulesOut, RulesOut
  <2>2. CASE q = b
    BY <1>1, <2>2, AcceptableRulesOut
  <2>3. QED BY <1>1, <2>1, <2>2 DEF IInv, TypeOK
<1>9. QED BY <1>2, <1>5, <1>6, <1>7, <1>8 DEF IInv

(* setAcceptCommit.  What the statement names as prepared is of a value    *)
(* that may be committed, and so rules out what is below it.               *)
LEMMA AcceptCommitStep ==
  ASSUME IInv, NEW n \in Good, NEW A, NEW P \in SUBSET Ballot,
         AcceptCommit(n, A, P)
  PROVE  IInv'
<1>1. /\ acceptedCommit' = [acceptedCommit EXCEPT ![n] = @ \cup A]
      /\ acceptedPrepare' = [acceptedPrepare EXCEPT ![n] = @ \cup P]
      /\ UNCHANGED <<votedPrepare, votedCommit, committed>>
      /\ A \subseteq AcceptableCommit(n)
      /\ \A q \in P : \E x \in acceptedCommit[n] \cup A : areBallotsCompatible(q, x)
  BY DEF AcceptCommit
<1>2. TypeOK'
  BY <1>1 DEF IInv, TypeOK, AcceptableCommit
<1>3. \A a : (Committable(a)' <=> Committable(a)) /\ (Dead(a)' <=> Dead(a))
  BY <1>1 DEF Committable, Dead
<1>4. \A m \in Good : acceptedPrepare[m] \subseteq acceptedPrepare'[m]
  BY <1>1 DEF IInv, TypeOK
<1>5. \A a \in acceptedCommit[n] \cup A : CommittableBelow(a)
  BY <1>1, AcceptableCommitSupport DEF IInv, AcceptedFromQuorum
<1>6. AcceptedFromQuorum'
  <2> SUFFICES ASSUME NEW m \in Good, NEW a \in acceptedCommit'[m]
               PROVE  CommittableBelow(a)
    BY <1>3 DEF AcceptedFromQuorum, CommittableBelow
  <2>1. CASE a \in acceptedCommit[m]
    BY <2>1 DEF IInv, AcceptedFromQuorum
  <2>2. CASE a \in A
    BY <1>5, <2>2
  <2>3. QED BY <1>1, <2>1, <2>2 DEF IInv, TypeOK
<1>7. CommittedFromQuorum'
  BY <1>1, <1>3 DEF IInv, CommittedFromQuorum, CommittableBelow
<1>8. LeftForPrepared'
  <2>1. \A a : Contradicted(a) => Contradicted(a)'
    BY <1>1, <1>4, ContradictedStays
  <2>2. QED BY <1>1, <2>1 DEF IInv, LeftForPrepared, Contradicted
<1>9. CommittablePrepared' /\ OneCommittable'
  BY <1>3, <1>4 DEF IInv, CommittablePrepared, OneCommittable
<1>10. PreparedRulesOut'
  <2> SUFFICES ASSUME NEW m \in Good, NEW q \in acceptedPrepare'[m],
                      NEW a \in Ballot, areBallotsLessAndIncompatible(a, q)
               PROVE  RulesOut(a)
    BY <1>3 DEF PreparedRulesOut, RulesOut
  <2>1. CASE q \in acceptedPrepare[m]
    BY <2>1 DEF IInv, PreparedRulesOut, RulesOut
  <2>2. CASE q \in P
    <3>1. PICK x \in acceptedCommit[n] \cup A : areBallotsCompatible(q, x)
      BY <1>1, <2>2
    <3>2. PICK r \in Ballot : Committable(r) /\ areBallotsLessAndCompatible(r, x)
      BY <1>5, <3>1 DEF CommittableBelow
    <3>3. q \in Ballot /\ areBallotsCompatible(r, q)
      BY <2>2, <3>1, <3>2 DEF areBallotsLessAndCompatible, areBallotsCompatible
    <3>4. QED BY <3>2, <3>3, CommittableRulesOut
  <2>3. QED BY <1>1, <2>1, <2>2 DEF IInv, TypeOK
<1>11. QED BY <1>2, <1>6, <1>7, <1>8, <1>9, <1>10 DEF IInv

(* setConfirmCommit.                                                       *)
LEMMA ConfirmCommitStep ==
  ASSUME IInv, NEW n \in Good, NEW A, ConfirmCommit(n, A)
  PROVE  IInv'
<1>1. /\ committed' = [committed EXCEPT ![n] = @ \cup A]
      /\ UNCHANGED <<votedPrepare, acceptedPrepare, votedCommit, acceptedCommit>>
      /\ A \subseteq ConfirmableCommit(n)
  BY DEF ConfirmCommit
<1>2. TypeOK'
  BY <1>1 DEF IInv, TypeOK, ConfirmableCommit
<1>3. \A a : (Committable(a)' <=> Committable(a)) /\ (Dead(a)' <=> Dead(a))
  BY <1>1 DEF Committable, Dead
<1>4. CommittedFromQuorum'
  <2> SUFFICES ASSUME NEW m \in Good, NEW a \in committed'[m]
               PROVE  CommittableBelow(a)
    BY <1>3 DEF CommittedFromQuorum, CommittableBelow
  <2>1. CASE a \in committed[m]
    BY <2>1 DEF IInv, CommittedFromQuorum
  <2>2. CASE a \in A
    BY <1>1, <2>2, ConfirmableCommitSupport
  <2>3. QED BY <1>1, <2>1, <2>2 DEF IInv, TypeOK
<1>5. AcceptedFromQuorum'
  BY <1>1, <1>3 DEF IInv, AcceptedFromQuorum, CommittableBelow
<1>6. LeftForPrepared'
  <2>1. \A m \in Good : committed[m] \subseteq committed'[m]
    BY <1>1 DEF IInv, TypeOK
  <2>2. \A a : Contradicted(a) => Contradicted(a)'
    BY <1>1, <2>1, ContradictedStays
  <2>3. QED BY <1>1, <2>2 DEF IInv, LeftForPrepared, Contradicted
<1>7. CommittablePrepared' /\ OneCommittable'
  BY <1>1, <1>3 DEF IInv, CommittablePrepared, OneCommittable
<1>8. PreparedRulesOut'
  BY <1>1, <1>3 DEF IInv, PreparedRulesOut
<1>9. QED BY <1>2, <1>4, <1>5, <1>6, <1>7, <1>8 DEF IInv

(* A good node that may vote to commit a knows it prepared, so nothing     *)
(* lower and incompatible may be committed.                                *)
LEMMA VotableAboveCommittable ==
  ASSUME IInv, NEW n \in Good, NEW a \in VotableCommit(n),
         NEW r \in Ballot, Committable(r), areBallotsLessAndIncompatible(r, a)
  PROVE  FALSE
<1>1. /\ a \in Ballot
      /\ Convinced(n, AcceptsPrepare(a), ExternalizesPrepare(a))
  BY DEF VotableCommit, ConfirmablePrepare
<1>2. PICK m \in Good : m \in AcceptsPrepare(a) \cup ExternalizesPrepare(a)
  BY <1>1, ConvincedCases
<1>3. RulesOut(r)
  BY <1>1, <1>2, PreparedNodeRulesOut
<1>4. ~Dead(r)
  BY CommittableNotDead
<1>5. PICK s \in Ballot : Committable(s) /\ areBallotsLessAndIncompatible(s, r)
  BY <1>3, <1>4 DEF RulesOut
<1>6. areBallotsCompatible(s, r)
  BY <1>5 DEF IInv, OneCommittable
<1>7. QED BY <1>5, <1>6 DEF areBallotsLessAndIncompatible

(* setConfirmPrepared, the only step that adds votes to commit.            *)
LEMMA ConfirmPrepareStep ==
  ASSUME IInv, NEW n \in Good, NEW C, NEW B, ConfirmPrepare(n, C, B)
  PROVE  IInv'
<1>1. /\ votedCommit' = [votedCommit EXCEPT ![n] = @ \cup C]
      /\ votedPrepare' = [votedPrepare EXCEPT ![n] = @ \cup B]
      /\ UNCHANGED <<acceptedPrepare, acceptedCommit, committed>>
      /\ C \subseteq VotableCommit(n)
      /\ B \subseteq VotablePrepare(n)
      /\ \A x, y \in C \cup B : areBallotsCompatible(x, y)
  BY DEF ConfirmPrepare
<1>2. C \subseteq Ballot /\ B \subseteq Ballot
  BY <1>1 DEF VotableCommit, ConfirmablePrepare, VotablePrepare
<1>3. TypeOK'
  BY <1>1, <1>2 DEF IInv, TypeOK
<1>4. \A a : Committable(a) => Committable(a)'
  <2>1. \A m \in Good : votedCommit[m] \subseteq votedCommit'[m]
    BY <1>1 DEF IInv, TypeOK
  <2>2. QED BY <2>1 DEF Committable
<1>5. \A a : Committable(a)' => Committable(a) \/ a \in C
  <2> SUFFICES ASSUME NEW a, Committable(a)', a \notin C PROVE Committable(a)
    OBVIOUS
  <2>1. \A m \in Good : a \in votedCommit'[m] => a \in votedCommit[m]
    BY <1>1 DEF IInv, TypeOK
  <2>2. QED BY <2>1 DEF Committable
<1>6. \A a : Dead(a) => Dead(a)'
  <2> SUFFICES ASSUME NEW a, Dead(a) PROVE Dead(a)'
    OBVIOUS
  <2>1. PICK Q \in SUBSET Node :
          /\ Quorum(Q)
          /\ \A m \in Q \cap Good :
               /\ a \notin votedCommit[m]
               /\ \E b \in votedPrepare[m] : areBallotsLessAndIncompatible(a, b)
    BY DEF Dead
  <2>2. ASSUME NEW m \in Q \cap Good PROVE a \notin votedCommit'[m]
    <3>1. m = n => a \notin C
      BY <1>1, <2>1 DEF VotableCommit
    <3>2. QED BY <1>1, <2>1, <3>1 DEF IInv, TypeOK
  <2>3. \A m \in Good : votedPrepare[m] \subseteq votedPrepare'[m]
    BY <1>1 DEF IInv, TypeOK
  <2>4. QED BY <2>1, <2>2, <2>3 DEF Dead
<1>7. AcceptedFromQuorum' /\ CommittedFromQuorum'
  BY <1>1, <1>4 DEF IInv, AcceptedFromQuorum, CommittedFromQuorum,
                    CommittableBelow
<1>8. LeftForPrepared'
  <2> SUFFICES ASSUME NEW m \in Good, NEW a \in votedCommit'[m],
                      NEW b \in votedPrepare'[m],
                      areBallotsLessAndIncompatible(a, b)
               PROVE  Contradicted(a)
    BY <1>1, ContradictedStays DEF LeftForPrepared, Contradicted
  <2>1. CASE a \in votedCommit[m] /\ b \in votedPrepare[m]
    BY <2>1 DEF IInv, LeftForPrepared, Contradicted
  <2>2. CASE m = n /\ a \in votedCommit[n] /\ b \in B
    <3>1. a \in Ballot
      BY <2>2 DEF IInv, TypeOK
    <3>2. QED BY <1>1, <2>2, <3>1, KnownPrepared DEF VotablePrepare
  <2>3. CASE m = n /\ a \in C /\ b \in votedPrepare[n]
    BY <1>1, <2>3 DEF VotableCommit
  <2>4. CASE m = n /\ a \in C /\ b \in B
    BY <1>1, <2>4 DEF areBallotsLessAndIncompatible
  <2>5. QED BY <1>1, <2>1, <2>2, <2>3, <2>4 DEF IInv, TypeOK
<1>9. CommittablePrepared'
  <2> SUFFICES ASSUME NEW a \in Ballot, Committable(a)'
               PROVE  \E r \in Ballot, m \in Good :
                        /\ Committable(r)' /\ areBallotsCompatible(r, a)
                        /\ \E q \in acceptedPrepare[m] :
                             areBallotsLessAndCompatible(r, q)
    BY <1>1 DEF CommittablePrepared
  <2>1. CASE \E s \in Ballot : Committable(s) /\ areBallotsCompatible(s, a)
    <3>1. PICK s \in Ballot : Committable(s) /\ areBallotsCompatible(s, a)
      BY <2>1
    <3>2. PICK r \in Ballot, m \in Good :
            /\ Committable(r) /\ areBallotsCompatible(r, s)
            /\ \E q \in acceptedPrepare[m] : areBallotsLessAndCompatible(r, q)
      BY <3>1 DEF IInv, CommittablePrepared
    <3>3. areBallotsCompatible(r, a)
      BY <3>1, <3>2 DEF areBallotsCompatible
    <3>4. QED BY <1>4, <3>2, <3>3
  <2>2. CASE ~ \E s \in Ballot : Committable(s) /\ areBallotsCompatible(s, a)
    <3>1. a \in C
      BY <1>5, <2>2 DEF areBallotsCompatible
    <3>2. Convinced(n, AcceptsPrepare(a), ExternalizesPrepare(a))
      BY <1>1, <3>1 DEF VotableCommit, ConfirmablePrepare
    <3>3. PICK m \in Good : m \in AcceptsPrepare(a) \/ m \in ExternalizesPrepare(a)
      BY <3>2, ConvincedCases
    <3>4. m \notin ExternalizesPrepare(a)
      BY <2>2 DEF ExternalizesPrepare, IInv, CommittedFromQuorum,
           CommittableBelow, areBallotsLessAndCompatible, areBallotsCompatible
    <3>5. \E q \in acceptedPrepare[m] : areBallotsLessAndCompatible(a, q)
      BY <3>3, <3>4 DEF AcceptsPrepare
    <3>6. areBallotsCompatible(a, a)
      BY DEF areBallotsCompatible
    <3>7. QED BY <3>5, <3>6
  <2>3. QED BY <2>1, <2>2
<1>10. PreparedRulesOut'
  BY <1>1, <1>4, <1>6 DEF IInv, PreparedRulesOut
<1>11. OneCommittable'
  <2>1. ASSUME NEW a \in C, Committable(a)', NEW b \in Ballot, Committable(b),
               ~areBallotsCompatible(a, b)
        PROVE  FALSE
    <3>1. a \in VotableCommit(n) /\ a \in Ballot
      BY <1>1, <1>2
    <3>2. areBallotsLessAndIncompatible(a, b)
      BY <2>1, <3>1, VotableAboveCommittable, IncompatibleTotal
    <3>4. RulesOut(a)
      BY <2>1, <3>1, <3>2, CommittableRulesOut DEF areBallotsCompatible
    <3>5. ~Dead(a)
      <4>1. Dead(a) => Dead(a)'
        BY <1>6
      <4>2. Dead(a)' /\ Committable(a)' => FALSE
        BY QuorumIntersection DEF Committable, Dead
      <4>3. QED BY <2>1, <4>1, <4>2
    <3>6. PICK r \in Ballot : Committable(r) /\ areBallotsLessAndIncompatible(r, a)
      BY <3>4, <3>5 DEF RulesOut
    <3>7. QED BY <3>1, <3>6, VotableAboveCommittable
  <2> SUFFICES ASSUME NEW a \in Ballot, NEW b \in Ballot,
                      Committable(a)', Committable(b)'
               PROVE  areBallotsCompatible(a, b)
    BY DEF OneCommittable
  <2>2. CASE Committable(a) /\ Committable(b)
    BY <2>2 DEF IInv, OneCommittable
  <2>3. CASE a \in C /\ b \in C
    BY <1>1, <2>3
  <2>4. CASE a \in C /\ Committable(b)
    BY <2>1, <2>4
  <2>5. CASE b \in C /\ Committable(a)
    BY <2>1, <2>5 DEF areBallotsCompatible
  <2>6. QED BY <1>5, <2>2, <2>3, <2>4, <2>5
<1>12. QED BY <1>3, <1>7, <1>8, <1>9, <1>10, <1>11 DEF IInv

-----------------------------------------------------------------------------
(* Every step keeps the invariant.                                         *)
LEMMA NextIInv == IInv /\ [Next]_vars => IInv'
<1> SUFFICES ASSUME IInv, [Next]_vars PROVE IInv'
  OBVIOUS
<1>1. ASSUME NEW n \in Good, NEW b \in Ballot, VotePrepare(n, b) PROVE IInv'
  BY <1>1, VotePrepareStep
<1>2. ASSUME NEW n \in Good, NEW b \in Ballot, AcceptPrepare(n, b) PROVE IInv'
  BY <1>2, AcceptPrepareStep
<1>3. ASSUME NEW n \in Good, NEW C, NEW B, ConfirmPrepare(n, C, B) PROVE IInv'
  BY <1>3, ConfirmPrepareStep
<1>4. ASSUME NEW n \in Good, NEW A, NEW P \in SUBSET Ballot,
             AcceptCommit(n, A, P)
      PROVE  IInv'
  BY <1>4, AcceptCommitStep
<1>5. ASSUME NEW n \in Good, NEW A, ConfirmCommit(n, A) PROVE IInv'
  BY <1>5, ConfirmCommitStep
<1>6. CASE UNCHANGED vars
  <2>1. /\ votedPrepare' = votedPrepare /\ acceptedPrepare' = acceptedPrepare
        /\ votedCommit' = votedCommit /\ acceptedCommit' = acceptedCommit
        /\ committed' = committed
    BY <1>6 DEF vars
  <2>2. TypeOK'
    BY <2>1 DEF IInv, TypeOK
  <2>3. /\ (AcceptedFromQuorum /\ CommittedFromQuorum)'
        /\ (LeftForPrepared /\ CommittablePrepared)'
    BY <2>1 DEF IInv, AcceptedFromQuorum, CommittedFromQuorum, CommittableBelow,
         LeftForPrepared, CommittablePrepared, Committable, Dead, AcceptsPrepare,
         ExternalizesPrepare
  <2>4. (PreparedRulesOut /\ OneCommittable)'
    BY <2>1 DEF IInv, PreparedRulesOut, OneCommittable, Committable, Dead
  <2> QED
    BY <2>2, <2>3, <2>4 DEF IInv
<1>7. AtMostOne \subseteq SUBSET Ballot
  BY DEF AtMostOne
<1>8. QED BY <1>1, <1>2, <1>3, <1>4, <1>5, <1>6, <1>7 DEF Next

(* IInv and TypeOK hold of every behaviour.                                *)
THEOREM Invariance == Spec => []IInv
BY InitIInv, NextIInv, PTL DEF Spec

(* All that may be committed is of one value, and so is all that good      *)
(* nodes externalize.                                                      *)
LEMMA IInvAgreement == IInv => Agreement
<1> SUFFICES ASSUME IInv, NEW m \in Good, NEW n \in Good,
                    NEW a \in committed[m], NEW b \in committed[n]
             PROVE  areBallotsCompatible(a, b)
  BY DEF Agreement
<1>1. PICK r \in Ballot : Committable(r) /\ areBallotsLessAndCompatible(r, a)
  BY DEF IInv, CommittedFromQuorum, CommittableBelow
<1>2. PICK s \in Ballot : Committable(s) /\ areBallotsLessAndCompatible(s, b)
  BY DEF IInv, CommittedFromQuorum, CommittableBelow
<1>3. areBallotsCompatible(r, s)
  BY <1>1, <1>2 DEF IInv, OneCommittable
<1>4. QED BY <1>1, <1>2, <1>3 DEF areBallotsLessAndCompatible,
                                  areBallotsCompatible

(* For any nodes, slices, values and counters that satisfy the             *)
(* assumptions on quorums, good nodes never externalize different values.  *)
THEOREM Safety == Spec => []Agreement
<1>1. IInv => Agreement
  BY IInvAgreement
<1>2. QED BY <1>1, Invariance, PTL
=============================================================================
