-------------------------- MODULE FederatedVoting --------------------------
(***************************************************************************)
(* What the ballot protocol promises, without statements, phases and call  *)
(* stacks: nodes vote for, accept and confirm ballots as prepared, and     *)
(* then as committed.  Each variable holds everything a node ever pledged; *)
(* the code keeps only the extremes (b, p, p', c, h).                      *)
(*                                                                         *)
(* The nodes outside Good are arbitrary: a condition on the members of a   *)
(* quorum or of a blocking set binds the good ones only.                   *)
(***************************************************************************)
EXTENDS SCPBallots

CONSTANTS
  Good,          \* the nodes that run this code
  QuorumSlices   \* QuorumSlices[n]: the sets that satisfy the quorum set of n

(* A set that can convince some good node and, with it, each of its own    *)
(* good members.                                                           *)
Quorum(Q) ==
  /\ Q \in SUBSET Node
  /\ \E n \in Good : \E S \in QuorumSlices[n] : S \subseteq Q
  /\ \A m \in Q \cap Good : \E S \in QuorumSlices[m] : S \subseteq Q

ASSUME GoodAssumption ==
  /\ Good \subseteq Node
  /\ QuorumSlices \in [Node -> SUBSET SUBSET Node]

ASSUME QuorumIntersection ==
  \A Q1, Q2 \in SUBSET Node :
    Quorum(Q1) /\ Quorum(Q2) => Q1 \cap Q2 \cap Good # {}

ASSUME GoodSlice ==
  \A n \in Good : \E S \in QuorumSlices[n] : S \subseteq Good

VARIABLES
  votedPrepare,     \* the ballots a node was on in its PREPARE phase
  acceptedPrepare,  \* the ballots it accepted as prepared
  votedCommit,      \* the ballots from c to h of its PREPARE phase
  acceptedCommit,   \* the ballots from c to h of its CONFIRM phase
  committed         \* the ballots from c to h it externalized with

vars == <<votedPrepare, acceptedPrepare, votedCommit, acceptedCommit,
          committed>>

TypeOK ==
  /\ votedPrepare \in [Good -> SUBSET Ballot]
  /\ acceptedPrepare \in [Good -> SUBSET Ballot]
  /\ votedCommit \in [Good -> SUBSET Ballot]
  /\ acceptedCommit \in [Good -> SUBSET Ballot]
  /\ committed \in [Good -> SUBSET Ballot]

-----------------------------------------------------------------------------
(* Who supports what.  A CONFIRM statement votes to prepare every ballot   *)
(* of its value and to commit the ones from nCommit up; an EXTERNALIZE     *)
(* statement has accepted all of these.                                    *)

VotesPrepare(b) ==
  {m \in Good : \/ \E x \in votedPrepare[m] : areBallotsLessAndCompatible(b, x)
                \/ \E x \in acceptedCommit[m] : areBallotsCompatible(b, x)}

AcceptsPrepare(b) ==
  {m \in Good : \E x \in acceptedPrepare[m] : areBallotsLessAndCompatible(b, x)}

ExternalizesPrepare(b) ==
  {m \in Good : \E x \in committed[m] : areBallotsCompatible(b, x)}

VotesCommit(a) ==
  {m \in Good : \/ a \in votedCommit[m]
                \/ \E x \in acceptedCommit[m] : areBallotsLessAndCompatible(x, a)}

AcceptsCommit(a) == {m \in Good : a \in acceptedCommit[m]}

ExternalizesCommit(a) ==
  {m \in Good : \E x \in committed[m] : areBallotsLessAndCompatible(x, a)}

(* n finds a quorum whose good members are in Plain, or in Ext on the      *)
(* strength of an EXTERNALIZE statement, whose quorum set is its author.   *)
Convinced(n, Plain, Ext) ==
  \E U \in SUBSET Node :
    /\ \E S \in QuorumSlices[n] : S \subseteq U
    /\ \A m \in U \cap Good :
         \/ m \in Ext
         \/ m \in Plain /\ \E S \in QuorumSlices[m] : S \subseteq U

(* Mutant: a slice that is met is enough.                                 *)
BlockedSome(n, T) == \E S \in QuorumSlices[n] : \E m \in S : m \in Good => m \in T

(* T, with the nodes that are not good, meets every slice of n.            *)
Blocked(n, T) == \A S \in QuorumSlices[n] : \E m \in S : m \in Good => m \in T

Accept(n, Votes, Accepts, Ext) ==
  Blocked(n, Accepts \cup Ext) \/ Convinced(n, Votes \cup Accepts, Ext)

(* The ballots n may accept, confirm, or vote for.                         *)
AcceptablePrepare(n) ==
  {b \in Ballot :
     /\ b \notin acceptedPrepare[n]
     /\ Accept(n, VotesPrepare(b), AcceptsPrepare(b), ExternalizesPrepare(b))}

ConfirmablePrepare(n) ==
  {b \in Ballot : Convinced(n, AcceptsPrepare(b), ExternalizesPrepare(b))}

AcceptableCommit(n) ==
  {a \in Ballot :
     Accept(n, VotesCommit(a), AcceptsCommit(a), ExternalizesCommit(a))}

ConfirmableCommit(n) ==
  {a \in Ballot : Convinced(n, AcceptsCommit(a), ExternalizesCommit(a))}

(* A node moves up through its ballots.  It leaves a ballot it voted to    *)
(* commit for a higher incompatible one only after accepting such a ballot *)
(* as prepared, or confirming one at once: that is when c is reset.        *)
VotablePrepare(n) ==
  {b \in Ballot :
     /\ \A x \in votedPrepare[n] : Less(x, b)
     /\ \A a \in votedCommit[n] : areBallotsLessAndIncompatible(a, b) =>
          \E q \in acceptedPrepare[n] \cup ConfirmablePrepare(n) :
            areBallotsLessAndIncompatible(a, q)}

(* Mutant: it votes to commit below an incompatible ballot it was on.      *)
VotableCommitAny(n) == ConfirmablePrepare(n)

(* It votes to commit what it confirmed prepared, and nothing below an     *)
(* incompatible ballot it was on.                                          *)
VotableCommit(n) ==
  {a \in ConfirmablePrepare(n) :
     \A b \in votedPrepare[n] : ~areBallotsLessAndIncompatible(a, b)}

-----------------------------------------------------------------------------
Init ==
  /\ votedPrepare = [n \in Good |-> {}]
  /\ acceptedPrepare = [n \in Good |-> {}]
  /\ votedCommit = [n \in Good |-> {}]
  /\ acceptedCommit = [n \in Good |-> {}]
  /\ committed = [n \in Good |-> {}]

(* What an action changes is said before what it is allowed to: a run that *)
(* checks an implementation tells the actions apart by it.                 *)

VotePrepare(n, b) ==
  /\ UNCHANGED <<acceptedPrepare, votedCommit, acceptedCommit, committed>>
  /\ votedPrepare' = [votedPrepare EXCEPT ![n] = @ \cup {b}]
  /\ b \in VotablePrepare(n)

AcceptPrepare(n, b) ==
  /\ UNCHANGED <<votedPrepare, votedCommit, acceptedCommit, committed>>
  /\ acceptedPrepare' = [acceptedPrepare EXCEPT ![n] = @ \cup {b}]
  /\ b \in AcceptablePrepare(n)

(* Votes to commit the ballots of C, all of one value, and moves to the    *)
(* ballot of B, if any, which is compatible with them.                     *)
ConfirmPrepare(n, C, B) ==
  /\ UNCHANGED <<acceptedPrepare, acceptedCommit, committed>>
  /\ votedCommit' = [votedCommit EXCEPT ![n] = @ \cup C]
  /\ votedPrepare' = [votedPrepare EXCEPT ![n] = @ \cup B]
  /\ C \subseteq VotableCommit(n)
  /\ B \subseteq VotablePrepare(n)
  /\ \A x, y \in C \cup B : areBallotsCompatible(x, y)

(* Accepts the ballots of A as committed.  A CONFIRM statement names one   *)
(* ballot of its value, that of P, as prepared: the author need not have   *)
(* looked for a quorum that voted to prepare it.                           *)
AcceptCommit(n, A, P) ==
  /\ UNCHANGED <<votedPrepare, votedCommit, committed>>
  /\ acceptedCommit' = [acceptedCommit EXCEPT ![n] = @ \cup A]
  /\ acceptedPrepare' = [acceptedPrepare EXCEPT ![n] = @ \cup P]
  /\ A \subseteq AcceptableCommit(n)
  /\ \A q \in P : \E x \in acceptedCommit[n] \cup A : areBallotsCompatible(q, x)

ConfirmCommit(n, A) ==
  /\ UNCHANGED <<votedPrepare, acceptedPrepare, votedCommit, acceptedCommit>>
  /\ committed' = [committed EXCEPT ![n] = @ \cup A]
  /\ A \subseteq ConfirmableCommit(n)

(* The ballots of one value with counters from lo to hi.                   *)
Interval(v, lo, hi) == {makeBallot(k, v) : k \in lo .. hi}

Intervals == {Interval(v, lo, hi) : v \in Value, lo \in Counter \ {0},
                                    hi \in Counter}

AtMostOne == {{}} \cup {{b} : b \in Ballot}

Next ==
  \E n \in Good :
    \/ \E b \in Ballot : VotePrepare(n, b) \/ AcceptPrepare(n, b)
    \/ \E C \in Intervals, B \in AtMostOne : ConfirmPrepare(n, C, B)
    \/ \E A \in Intervals, P \in AtMostOne : AcceptCommit(n, A, P)
    \/ \E A \in Intervals : ConfirmCommit(n, A)

Spec == Init /\ [][Next]_vars

-----------------------------------------------------------------------------
(* No two good nodes externalize different values, whatever the other      *)
(* nodes do: the purpose of BallotProtocol::attemptConfirmCommit's quorum. *)
Agreement ==
  \A m, n \in Good : \A a \in committed[m], b \in committed[n] :
    areBallotsCompatible(a, b)

-----------------------------------------------------------------------------
(* The inductive invariant behind Agreement.                               *)

(* A quorum has voted to commit a, so a may be accepted as committed.      *)
Committable(a) ==
  \E Q \in SUBSET Node :
    Quorum(Q) /\ \A m \in Q \cap Good : a \in votedCommit[m]

(* A quorum has moved past a to incompatible ballots without voting to     *)
(* commit it, and so never will.                                           *)
Dead(a) ==
  \E Q \in SUBSET Node :
    /\ Quorum(Q)
    /\ \A m \in Q \cap Good :
         /\ a \notin votedCommit[m]
         /\ \E b \in votedPrepare[m] : areBallotsLessAndIncompatible(a, b)

CommittableBelow(a) ==
  \E r \in Ballot : Committable(r) /\ areBallotsLessAndCompatible(r, a)

AcceptedFromQuorum ==
  \A n \in Good : \A a \in acceptedCommit[n] : CommittableBelow(a)

CommittedFromQuorum ==
  \A n \in Good : \A a \in committed[n] : CommittableBelow(a)

(* A node is on a ballot that contradicts one it voted to commit only if   *)
(* a good node says that a ballot that does is prepared.                   *)
LeftForPrepared ==
  \A n \in Good : \A a \in votedCommit[n], b \in votedPrepare[n] :
    areBallotsLessAndIncompatible(a, b) =>
      \E q \in Ballot : /\ areBallotsLessAndIncompatible(a, q)
                        /\ AcceptsPrepare(q) \cup ExternalizesPrepare(q) # {}

(* A value that may be committed was accepted as prepared at some ballot   *)
(* that may be committed.                                                  *)
CommittablePrepared ==
  \A a \in Ballot : Committable(a) =>
    \E r \in Ballot, m \in Good :
      /\ Committable(r) /\ areBallotsCompatible(r, a)
      /\ \E q \in acceptedPrepare[m] : areBallotsLessAndCompatible(r, q)

(* Accepting q as prepared rules out the lower incompatible ballots: each  *)
(* is dead, or contradicts a still lower one that may be committed.        *)
PreparedRulesOut ==
  \A m \in Good : \A q \in acceptedPrepare[m] : \A a \in Ballot :
    areBallotsLessAndIncompatible(a, q) =>
      \/ Dead(a)
      \/ \E r \in Ballot : Committable(r) /\ areBallotsLessAndIncompatible(r, a)

(* Quorums never vote to commit two values: the ballots that may be        *)
(* committed are compatible.                                               *)
OneCommittable ==
  \A a, b \in Ballot : Committable(a) /\ Committable(b) =>
    areBallotsCompatible(a, b)

IInv ==
  /\ TypeOK
  /\ AcceptedFromQuorum
  /\ CommittedFromQuorum
  /\ LeftForPrepared
  /\ CommittablePrepared
  /\ PreparedRulesOut
  /\ OneCommittable
=============================================================================
