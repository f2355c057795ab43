---------------------------- MODULE BallotSteps ----------------------------
(***************************************************************************)
(* The network of BallotNetwork with the handlers taken apart: a handler   *)
(* starts, and then each attempt of each nested advanceSlot is a step of   *)
(* its own.  While a handler runs no other starts: handlers of different   *)
(* nodes touch only their own node and what it has sent, and what a node   *)
(* sends it sends as its handler returns.                                  *)
(*                                                                         *)
(* A history variable holds all a node ever pledged, in terms of which the *)
(* steps implement FederatedVoting.                                        *)
(***************************************************************************)
EXTENDS AdvanceSlot

CONSTANTS
  Candidates,   \* as in BallotNetwork
  MaxCounter,   \* bound: a timer fires only below this counter
  MaxRestarts   \* bound: restarts of all the nodes together

ASSUME StepsAssumption ==
  /\ Candidates \in [Node -> SUBSET Value]
  /\ MaxCounter \in Nat /\ MaxRestarts \in Nat

VARIABLES
  node,       \* the state of each node
  restarts,   \* restarts so far
  pledged     \* pledged[n]: all the ballots n pledged, by kind

vars == <<node, restarts, pledged>>

Pledges ==
  [votedPrepare : SUBSET Ballot, acceptedPrepare : SUBSET Ballot,
   votedCommit : SUBSET Ballot, acceptedCommit : SUBSET Ballot,
   committed : SUBSET Ballot]

TypeOK ==
  /\ node \in [Node -> NodeState]
  /\ restarts \in Nat
  /\ pledged \in [Node -> Pledges]

-----------------------------------------------------------------------------
(* The ballots from c to h.                                                *)
CommitRange(s) == {x \in Ballot : /\ areBallotsLessAndCompatible(s.c, x)
                                  /\ areBallotsLessAndCompatible(x, s.h)}

In(s, phase, S) == IF s.phase = phase THEN S \cap Ballot ELSE {}

Pledge(r, s) ==
  [votedPrepare |-> r.votedPrepare \cup In(s, "PREPARE", {s.b}),
   acceptedPrepare |-> r.acceptedPrepare \cup In(s, "PREPARE", {s.p, s.pp})
     \cup In(s, "CONFIRM", {makeBallot(s.p.counter, s.b.value)}),
   votedCommit |-> r.votedCommit \cup In(s, "PREPARE", CommitRange(s)),
   acceptedCommit |-> r.acceptedCommit \cup In(s, "CONFIRM", CommitRange(s)),
   committed |-> r.committed \cup In(s, "EXTERNALIZE", CommitRange(s))]

Become(n, s) ==
  /\ node' = [node EXCEPT ![n] = s]
  /\ pledged' = [pledged EXCEPT ![n] = Pledge(@, s)]

-----------------------------------------------------------------------------
Sent == UNION {node[n].sent : n \in Node}

AllIdle == \A n \in Node : Alive(node[n]) => Idle(node[n])

ReceiveEnvelope(n) ==
  \E st \in Sent :
    /\ AllIdle /\ Alive(node[n])
    /\ st.node # n /\ Acceptable(n, node[n], st, FALSE)
    /\ Become(n, processEnvelope(n, node[n], st))
    /\ UNCHANGED restarts

NominationCandidate(n) ==
  \E v \in Candidates[n] :
    /\ AllIdle /\ Alive(node[n]) /\ node[n].phase # "EXTERNALIZE"
    /\ Become(n, nominationCandidate(n, node[n], v))
    /\ UNCHANGED restarts

TimerExpired(n) ==
  /\ AllIdle /\ Alive(node[n]) /\ node[n].timer
  /\ node[n].b.counter < MaxCounter \/ node[n].b.counter = UINT32_MAX
  /\ Become(n, ballotProtocolTimerExpired(n, node[n]))
  /\ UNCHANGED restarts

Restart(n) ==
  /\ AllIdle /\ Alive(node[n]) /\ restarts < MaxRestarts
  /\ Become(n, setStateFromEnvelope(n, node[n]))
  /\ restarts' = restarts + 1

AdvanceSlot(n) ==
  /\ Alive(node[n]) /\ ~Idle(node[n])
  /\ Become(n, Step(n, node[n]))
  /\ UNCHANGED restarts

Init ==
  /\ node = [n \in Node |-> InitialState]
  /\ restarts = 0
  /\ pledged = [n \in Node |-> Pledge([votedPrepare |-> {},
                  acceptedPrepare |-> {}, votedCommit |-> {},
                  acceptedCommit |-> {}, committed |-> {}], InitialState)]

Next == \E n \in Node :
  \/ ReceiveEnvelope(n) \/ NominationCandidate(n) \/ TimerExpired(n)
  \/ Restart(n) \/ AdvanceSlot(n)

Spec == Init /\ [][Next]_vars

-----------------------------------------------------------------------------
(* No two nodes hand different values of the slot to the ledger, and no    *)
(* node hands two, whatever attempt of whatever handler setConfirmCommit   *)
(* is reached from.                                                        *)
Agreement == \A m, n \in Node : \A v \in node[m].ext, w \in node[n].ext : v = w

(* The assertions that rest on the node's own state alone never fail.      *)
NoAssertionFails == TypeOK /\ \A n \in Node : node[n].bad \notin LocalAssertions

(* The steps implement federated voting, with every node a good one.       *)
Voting == INSTANCE FederatedVoting WITH
  Good <- Node,
  votedPrepare <- [n \in Node |-> pledged[n].votedPrepare],
  acceptedPrepare <- [n \in Node |-> pledged[n].acceptedPrepare],
  votedCommit <- [n \in Node |-> pledged[n].votedCommit],
  acceptedCommit <- [n \in Node |-> pledged[n].acceptedCommit],
  committed <- [n \in Node |-> pledged[n].committed]

ImplementsVoting == Voting!Spec
=============================================================================
