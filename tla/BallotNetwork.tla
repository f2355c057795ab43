--------------------------- MODULE BallotNetwork ---------------------------
(***************************************************************************)
(* The validators of a network running the ballot protocol of one slot.    *)
(* A node runs on one thread: each handler (an envelope received, a new    *)
(* nomination candidate, the ballot timer, a restart) is one step here,    *)
(* with every nested advanceSlot it causes.  Broadcast statements may be   *)
(* delivered in any order, again, late, or never.                          *)
(***************************************************************************)
EXTENDS AdvanceSlot, FiniteSets

CONSTANTS
  Candidates,   \* Candidates[n]: the composite candidates n's nomination
                \* protocol may come up with
  Hears,        \* Hears[n]: the nodes whose statements reach n; all that
                \* the others send is lost on the way to n
  MaxCounter,   \* bound: n's timer fires only below counter MaxCounter[n]
  Restartable,  \* the nodes that may restart
  MaxRestarts   \* bound: restarts of all the nodes together

ASSUME NetworkAssumption ==
  /\ Candidates \in [Node -> SUBSET Value]
  /\ Hears \in [Node -> SUBSET Node]
  /\ MaxCounter \in [Node -> Counter] /\ MaxRestarts \in Nat
  /\ Restartable \subseteq Node

VARIABLES
  node,      \* the state of each node
  restarts   \* restarts so far

vars == <<node, restarts>>

TypeOK ==
  /\ node \in [Node -> NodeState]
  /\ \A n \in Node : Alive(node[n]) => Idle(node[n])
  /\ restarts \in 0 .. MaxRestarts

-----------------------------------------------------------------------------
(* A handler runs until every advanceSlot it started has returned, or it   *)
(* dies of an assertion or an exception.                                   *)
RECURSIVE Run(_, _)
Run(n, s) == IF Idle(s) \/ ~Alive(s) THEN s ELSE Run(n, Step(n, s))

Heard(n) == UNION {node[m].sent : m \in Hears[n] \ {n}}

ReceiveEnvelope(n) ==
  \E st \in Heard(n) :
    /\ Alive(node[n])
    /\ Acceptable(n, node[n], st, FALSE)
    /\ node' = [node EXCEPT ![n] = Run(n, processEnvelope(n, @, st))]
    /\ UNCHANGED restarts

NominationCandidate(n) ==
  \E v \in Candidates[n] :
    /\ Alive(node[n]) /\ node[n].phase # "EXTERNALIZE"
    /\ node' = [node EXCEPT ![n] = Run(n, nominationCandidate(n, @, v))]
    /\ UNCHANGED restarts

TimerExpired(n) ==
  /\ Alive(node[n]) /\ node[n].timer
  /\ node[n].b.counter < MaxCounter[n] \/ node[n].b.counter = UINT32_MAX
  /\ node' = [node EXCEPT ![n] = Run(n, ballotProtocolTimerExpired(n, @))]
  /\ UNCHANGED restarts

Restart(n) ==
  /\ n \in Restartable /\ Alive(node[n]) /\ restarts < MaxRestarts
  /\ node' = [node EXCEPT ![n] = setStateFromEnvelope(n, @)]
  /\ restarts' = restarts + 1

Init ==
  /\ node = [n \in Node |-> InitialState]
  /\ restarts = 0

Next == \E n \in Node :
  ReceiveEnvelope(n) \/ NominationCandidate(n) \/ TimerExpired(n) \/ Restart(n)

Spec == Init /\ [][Next]_vars

(* The statements that would change n's view of the network.               *)
Pending(n) == {st \in Heard(n) : Acceptable(n, node[n], st, FALSE)}

Externalized(n) == node[n].phase = "EXTERNALIZE"

(* A statement reaches every node in the end: peers flood what they get,   *)
(* and a node that is behind is sent the latest statements again.  The     *)
(* nomination protocol comes up with a candidate in the end.  This is weak *)
(* fairness of ReceiveEnvelope and of a first NominationCandidate, with    *)
(* the condition that enables them written out: TLC is slow to find it     *)
(* from the handlers.                                                      *)
FairSpec ==
  /\ Spec
  /\ \A n \in Node :
       /\ []<>(Pending(n) = {}) \/ []<><<ReceiveEnvelope(n)>>_vars
       /\ []<>(node[n].cand # 0 \/ Externalized(n) \/ Candidates[n] = {})

-----------------------------------------------------------------------------
(* Safety.                                                                 *)

(* No two nodes hand different values of the slot to the ledger, and no    *)
(* node hands two: what setConfirmCommit passes to valueExternalized.      *)
Agreement == \A m, n \in Node : \A v \in node[m].ext, w \in node[n].ext : v = w

(* No handler runs into an assertion of the ballot protocol (those of      *)
(* checkInvariants, bumpToBallot, updateCurrentValue, setAcceptPrepared,   *)
(* setConfirmPrepared), the "moved to a bad state" exception or the        *)
(* recursion limit of advanceSlot; each returns with nothing left to do.   *)
NoBadState == TypeOK /\ \A n \in Node : Alive(node[n])


(* What a node last broadcast says where it stands now: whatever nested    *)
(* advanceSlot changed its state last, the statement that leaves at the    *)
(* end of the handler is the newest one.                                   *)
Published == \A n \in Node :
  node[n].fullyValidated /\ node[n].b # NullBallot =>
    node[n].lastEnvelopeEmit = createStatement(n, node[n])

(* A node that holds a statement it could not fully validate broadcasts    *)
(* nothing, however the statement reached it and whoever sent the next     *)
(* one: it may follow the network, but not vouch for it.                   *)
Muted ==
  [][\A n \in Node :
       (\E m \in Known(node'[n]) : validateValues(n, node'[n].M[m]) = "maybe")
         => node'[n].sent = node[n].sent]_vars

(* mHeardFromQuorum does not flip-flop: within a ballot counter it only    *)
(* goes from false to true, whatever arrives and in whatever order.        *)
HeardStable ==
  [][\A n \in Node : /\ node[n].heard /\ ~node'[n].heard
                     /\ restarts' = restarts
        => node[n].b.counter # node'[n].b.counter]_vars

(* What a node broadcasts is newer, for isNewerStatement, than all it has  *)
(* broadcast before, restarts included: its peers would drop it otherwise. *)
SentNewer ==
  [][\A n \in Node : \A st \in node'[n].sent \ node[n].sent :
       \A old \in node[n].sent : isNewerStatement(old, st)]_vars

(* Once a node accepted a commit it stays with that value and its phase    *)
(* never goes back; in CONFIRM the top h of its interval never goes down.  *)
CommitFixed ==
  [][\A n \in Node : node[n].phase # "PREPARE" =>
        /\ node'[n].phase # "PREPARE"
        /\ node'[n].c.value = node[n].c.value
        /\ node'[n].phase = "CONFIRM" =>
             node'[n].h.counter >= node[n].h.counter]_vars

(* A timeout moves n to a higher counter of the value it voted to commit.  *)
Moves(n) ==
  TimerExpired(n) /\ node[n].c # NullBallot =>
    /\ node'[n].b.value = node[n].c.value
    /\ node'[n].b.counter > node[n].b.counter

(* A timeout at a node that voted to commit moves it to a higher counter   *)
(* of the value it voted to commit, whatever its nomination protocol says  *)
(* by then: bumpState uses mValueOverride, "the value that we saw          *)
(* confirmed prepared or that we at least voted to commit to".             *)
TimeoutMoves == [][\A n \in Node : Moves(n)]_vars

(* It does while no node has restarted: whichever attempt made the node    *)
(* vote to commit has set mValueOverride.                                  *)
TimeoutMovesAtFirst == [][restarts = 0 => \A n \in Node : Moves(n)]_vars

-----------------------------------------------------------------------------
(* Liveness, under FairSpec.                                               *)

(* When one node externalizes, delivery alone brings all the others to     *)
(* externalize, without any timer.                                         *)
Spread ==
  (\E n \in Node : Externalized(n)) ~> (\A n \in Node : Externalized(n))

(* When only one value is ever nominated, every node externalizes, timers  *)
(* that fire at any moment notwithstanding.                                *)
Decides ==
  \A v \in Value : [](\A n \in Node : node[n].cand \in {0, v}) =>
    <>(\A n \in Node : Externalized(n))
=============================================================================
