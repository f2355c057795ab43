------------------------- MODULE NominationProtocol -------------------------
(***************************************************************************)
(* The nomination protocol of one slot, at all the nodes of a network.     *)
(*                                                                         *)
(* A node votes for values of its round leaders, accepts what its slices   *)
(* allow, and has a candidate once a quorum accepted it.  emitNomination   *)
(* feeds the node's own statement back into processEnvelope, which may     *)
(* change the node's state and emit again: such a nested pass is a step    *)
(* here, during which the node does nothing else (emitting).  The          *)
(* outermost statements are then older than what the innermost pass sent,  *)
(* and are not sent.                                                       *)
(*                                                                         *)
(* Hashes are not computed: which node a round adds to the leaders, and    *)
(* which of a leader's values is preferred, are chosen freely.             *)
(***************************************************************************)
EXTENDS Integers

CONSTANTS
  Node,          \* the node IDs, which are ordered
  Value,         \* the values of the slot
  QuorumSlices,  \* QuorumSlices[n]: the sets S with isQuorumSlice(qset of n, S)
  Proposals,     \* Proposals[n][k]: the values n may propose after k restarts;
                 \* they hold the time, so those of another life are new
  Valid,         \* Valid[n]: the values n's driver fully validates
  Variation,     \* Variation[n][v]: extractValidValue of v at n, or NoValue
  MaxRestarts    \* bound: MaxRestarts[n] restarts of n

NoValue == 0

ASSUME NodeAssumption == Node \subseteq Nat
ASSUME ValueAssumption == NoValue \notin Value
ASSUME SliceAssumption ==
  /\ QuorumSlices \in [Node -> SUBSET SUBSET Node]
  /\ \A n \in Node : QuorumSlices[n] # {} /\ {} \notin QuorumSlices[n]
ASSUME DriverAssumption ==
  /\ \A n \in Node : \A k \in 0 .. MaxRestarts[n] : Proposals[n][k] \subseteq Value
  /\ Valid \in [Node -> SUBSET Value]
  /\ Variation \in [Node -> [Value -> Value \cup {NoValue}]]
ASSUME RestartAssumption == MaxRestarts \in [Node -> Nat]

VARIABLES
  started,     \* mNominationStarted
  value,       \* what the node proposes, also when its timer fires
  leaders,     \* mRoundLeaders
  votes,       \* mVotes
  accepted,    \* mAccepted
  candidates,  \* mCandidates
  latest,      \* mLatestNominations
  emitting,    \* whether a pass of emitNomination is in progress
  muted,       \* whether the slot is no longer mFullyValidated
  saved,       \* mLastEnvelope, saved by persistSCPState before it is sent
  sent,        \* all the statements the node has sent
  restarts     \* restarts of the node so far

vars == <<started, value, leaders, votes, accepted, candidates, latest,
          emitting, muted, saved, sent, restarts>>

Statement == [votes : SUBSET Value, accepted : SUBSET Value]
NoStatement == [votes |-> {}, accepted |-> {}]

TypeOK ==
  /\ started \in [Node -> BOOLEAN] /\ emitting \in [Node -> BOOLEAN]
  /\ muted \in [Node -> BOOLEAN]
  /\ value \in [Node -> Value \cup {NoValue}]
  /\ leaders \in [Node -> SUBSET Node]
  /\ votes \in [Node -> SUBSET Value] /\ accepted \in [Node -> SUBSET Value]
  /\ candidates \in [Node -> SUBSET Value]
  /\ latest \in [Node -> [Node -> Statement]]
  /\ saved \in [Node -> Statement]
  /\ sent \in [Node -> SUBSET Statement]
  /\ restarts \in [Node -> Nat] /\ \A n \in Node : restarts[n] <= MaxRestarts[n]

-----------------------------------------------------------------------------
(* No statement is the empty one here, which isSane refuses.               *)
isNewerStatement(oldst, st) ==
  /\ oldst.votes \subseteq st.votes
  /\ oldst.accepted \subseteq st.accepted
  /\ oldst # st

isVBlocking(n, S) == \A Q \in QuorumSlices[n] : Q \cap S # {}

isQuorum(n, S) ==
  \E Q \in QuorumSlices[n] : Q \subseteq S /\ \A m \in Q : Q \in QuorumSlices[m]

(* known[m] is the latest statement of m.                                  *)
Accepting(known, v) == {m \in Node : v \in known[m].accepted}
Voting(known, v) == {m \in Node : v \in known[m].votes}

(* Mutant: a v-blocking set of votes is enough.                            *)
federatedAcceptVotes(n, known, v) ==
  isVBlocking(n, Accepting(known, v) \cup Voting(known, v))

federatedAccept(n, known, v) ==
  \/ isVBlocking(n, Accepting(known, v))
  \/ isQuorum(n, Accepting(known, v) \cup Voting(known, v))

federatedRatify(n, known, v) == isQuorum(n, Accepting(known, v))

(* A value to vote for in the place of v, if any.                          *)
ToNominate(n, v) == IF v \in Valid[n] THEN v ELSE Variation[n][v]

(* What getNewValueFromNomination chooses from; had is mVotes.             *)
NewValues(n, st, had) ==
  {ToNominate(n, v) : v \in st.votes \cup st.accepted} \ (had \cup {NoValue})

(* What processEnvelope does with a statement of m, recorded in known.     *)
NewlyAccepted(n, known, st) ==
  {v \in st.votes \ accepted[n] : federatedAccept(n, known, v)}

(* The values to add to the votes: one of those, if there is one.          *)
OneOf(S) == IF S = {} THEN {{}} ELSE {{v} : v \in S}

(* Mutant: nothing becomes a candidate once there is one.                  *)
promoteFirst(n, known, m, st) ==
  LET acceptable == NewlyAccepted(n, known, st)
      newAccepted == accepted[n] \cup (acceptable \cap Valid[n])
      newVotes == votes[n] \cup
        ({ToNominate(n, v) : v \in acceptable} \ {NoValue})
      newCandidates == IF candidates[n] # {} THEN candidates[n]
        ELSE {v \in newAccepted : federatedRatify(n, known, v)}
      fromLeader == IF newCandidates = {} /\ m \in leaders[n]
                    THEN NewValues(n, st, newVotes) ELSE {}
  IN  /\ latest' = [latest EXCEPT ![n] = known]
      /\ accepted' = [accepted EXCEPT ![n] = newAccepted]
      /\ candidates' = [candidates EXCEPT ![n] = newCandidates]
      /\ \E chosen \in OneOf(fromLeader) :
           votes' = [votes EXCEPT ![n] = newVotes \cup chosen]

promote(n, known, m, st) ==
  LET acceptable == NewlyAccepted(n, known, st)
      newAccepted == accepted[n] \cup (acceptable \cap Valid[n])
      newVotes == votes[n] \cup
        ({ToNominate(n, v) : v \in acceptable} \ {NoValue})
      newCandidates == candidates[n] \cup
        {v \in newAccepted : federatedRatify(n, known, v)}
      fromLeader == IF newCandidates = {} /\ m \in leaders[n]
                    THEN NewValues(n, st, newVotes) ELSE {}
  IN  /\ latest' = [latest EXCEPT ![n] = known]
      /\ accepted' = [accepted EXCEPT ![n] = newAccepted]
      /\ candidates' = [candidates EXCEPT ![n] = newCandidates]
      /\ \E chosen \in OneOf(fromLeader) :
           votes' = [votes EXCEPT ![n] = newVotes \cup chosen]

Modified(n) == accepted'[n] # accepted[n] \/ votes'[n] # votes[n]

-----------------------------------------------------------------------------
(* The statement of m arrives at n; before nomination has started, and     *)
(* after it has stopped, it is only recorded.                              *)
ReceiveEnvelope(n, m, st) ==
  /\ ~emitting[n] /\ isNewerStatement(latest[n][m], st)
  /\ IF started[n]
     THEN /\ promote(n, [latest[n] EXCEPT ![m] = st], m, st)
          /\ emitting' = [emitting EXCEPT ![n] = Modified(n)]
     ELSE /\ latest' = [latest EXCEPT ![n][m] = st]
          /\ UNCHANGED <<votes, accepted, candidates, emitting>>
  /\ UNCHANGED <<started, value, leaders, muted, saved, sent, restarts>>

(* One pass of emitNomination: the node processes its own statement, and   *)
(* sends it unless it has to emit again or cannot vouch for the slot.      *)
Own(n) == [votes |-> votes[n], accepted |-> accepted[n]]

(* Mutant: sent without being saved first.                                 *)
emitUnsaved(n) ==
  /\ emitting[n] /\ isNewerStatement(latest[n][n], Own(n))
  /\ promote(n, [latest[n] EXCEPT ![n] = Own(n)], n, Own(n))
  /\ emitting' = [emitting EXCEPT ![n] = Modified(n)]
  /\ IF ~Modified(n) /\ ~muted[n] /\ isNewerStatement(saved[n], Own(n))
     THEN sent' = [sent EXCEPT ![n] = @ \cup {Own(n)}]
     ELSE UNCHANGED sent
  /\ UNCHANGED <<started, value, leaders, muted, saved, restarts>>

emitNomination(n) ==
  /\ emitting[n] /\ isNewerStatement(latest[n][n], Own(n))
  /\ promote(n, [latest[n] EXCEPT ![n] = Own(n)], n, Own(n))
  /\ emitting' = [emitting EXCEPT ![n] = Modified(n)]
  /\ IF ~Modified(n) /\ ~muted[n] /\ isNewerStatement(saved[n], Own(n))
     THEN /\ saved' = [saved EXCEPT ![n] = Own(n)]
          /\ sent' = [sent EXCEPT ![n] = @ \cup {Own(n)}]
     ELSE UNCHANGED <<saved, sent>>
  /\ UNCHANGED <<started, value, leaders, muted, restarts>>

(* A round adds one of the nodes of the quorum set, until all are leaders. *)
CanLead(n) == {n} \cup UNION QuorumSlices[n]

(* Mutant: the local node is not counted in maxLeaderCount.                *)
updateRoundLeadersButOne(n) ==
  \E new \in OneOf(CanLead(n) \ leaders[n]) :
    leaders' = [leaders EXCEPT ![n] =
      IF @ \cup new = CanLead(n) THEN @ ELSE @ \cup new]

updateRoundLeaders(n) ==
  \E new \in OneOf(CanLead(n) \ leaders[n]) :
    leaders' = [leaders EXCEPT ![n] = @ \cup new]

(* The node's own value if it is a leader; then, leader by leader, one     *)
(* more value of each that has one.  pick[l] is the value of leader l.     *)
Proposal(n, v) == votes[n] \cup (IF n \in leaders'[n] THEN {v} ELSE {})
Had(n, v, pick, l) ==
  Proposal(n, v) \cup {pick[k] : k \in {k \in leaders'[n] : k < l}}

Picked(pick) == {pick[l] : l \in DOMAIN pick} \ {NoValue}

nominate(n, v) ==
  /\ ~emitting[n]
  /\ updateRoundLeaders(n)
  /\ \E pick \in [leaders'[n] -> Value \cup {NoValue}] :
       /\ \A l \in leaders'[n] :
            LET new == NewValues(n, latest[n][l], Had(n, v, pick, l))
            IN  IF new = {} THEN pick[l] = NoValue ELSE pick[l] \in new
       /\ votes' = [votes EXCEPT ![n] = Proposal(n, v) \cup Picked(pick)]
  /\ emitting' = [emitting EXCEPT ![n] = votes'[n] # votes[n]]
  /\ UNCHANGED <<accepted, candidates, latest, muted, saved, sent, restarts>>

(* triggerNextLedger nominates; then the timer starts a round after        *)
(* another.  An older slot that externalizes meanwhile makes the herder    *)
(* set its trigger again, and nominate a value of that moment.             *)
Nominate(n) == \E v \in Proposals[n][restarts[n]] :
  /\ value[n] = NoValue /\ nominate(n, v)
  /\ value' = [value EXCEPT ![n] = v]
  /\ started' = [started EXCEPT ![n] = TRUE]

NominateAgain(n) == \E v \in Proposals[n][restarts[n]] :
  /\ started[n] /\ nominate(n, v)
  /\ value' = [value EXCEPT ![n] = v]
  /\ UNCHANGED started

Timeout(n) ==
  /\ started[n] /\ nominate(n, value[n])
  /\ UNCHANGED <<value, started>>

(* The slot was externalized, which takes some node to have a candidate.   *)
StopNomination(n) ==
  /\ started[n] /\ ~emitting[n]
  /\ \E m \in Node : candidates[m] # {}
  /\ started' = [started EXCEPT ![n] = FALSE]
  /\ UNCHANGED <<value, leaders, votes, accepted, candidates, latest,
                 emitting, muted, saved, sent, restarts>>

(* The ballot protocol of the slot processes a statement whose value it    *)
(* can only hold for maybe valid: from then on nothing is sent.  When that *)
(* happens is left open; a new candidate may cause it within a pass.       *)
setFullyValidated(n) ==
  /\ ~muted[n]
  /\ muted' = [muted EXCEPT ![n] = TRUE]
  /\ UNCHANGED <<started, value, leaders, votes, accepted, candidates, latest,
                 emitting, saved, sent, restarts>>

(* The node crashes, in the middle of a handler or not, and restoreSCPState*)
(* restores it from what was saved last.                                   *)
Forget(n) ==
  /\ restarts[n] < MaxRestarts[n]
  /\ restarts' = [restarts EXCEPT ![n] = @ + 1]
  /\ started' = [started EXCEPT ![n] = FALSE]
  /\ value' = [value EXCEPT ![n] = NoValue]
  /\ leaders' = [leaders EXCEPT ![n] = {}]
  /\ candidates' = [candidates EXCEPT ![n] = {}]
  /\ latest' = [latest EXCEPT ![n] =
       [m \in Node |-> IF m = n THEN saved[n] ELSE NoStatement]]
  /\ emitting' = [emitting EXCEPT ![n] = FALSE]
  /\ muted' = [muted EXCEPT ![n] = FALSE]
  /\ UNCHANGED <<saved, sent>>

(* Mutant: the restored statement is recorded, not its votes.              *)
setStateRecordOnly(n) ==
  /\ Forget(n)
  /\ votes' = [votes EXCEPT ![n] = {}]
  /\ accepted' = [accepted EXCEPT ![n] = {}]

setStateFromEnvelope(n) ==
  /\ Forget(n)
  /\ votes' = [votes EXCEPT ![n] = saved[n].votes]
  /\ accepted' = [accepted EXCEPT ![n] = saved[n].accepted]

Init ==
  /\ started = [n \in Node |-> FALSE] /\ emitting = [n \in Node |-> FALSE]
  /\ muted = [n \in Node |-> FALSE]
  /\ value = [n \in Node |-> NoValue]
  /\ leaders = [n \in Node |-> {}]
  /\ votes = [n \in Node |-> {}] /\ accepted = [n \in Node |-> {}]
  /\ candidates = [n \in Node |-> {}]
  /\ latest = [n \in Node |-> [m \in Node |-> NoStatement]]
  /\ saved = [n \in Node |-> NoStatement]
  /\ sent = [n \in Node |-> {}]
  /\ restarts = [n \in Node |-> 0]

Receive(n) == \E m \in Node \ {n} : \E st \in sent[m] : ReceiveEnvelope(n, m, st)

Next == \E n \in Node :
  \/ Receive(n) \/ emitNomination(n) \/ Nominate(n) \/ NominateAgain(n)
  \/ Timeout(n) \/ StopNomination(n) \/ setFullyValidated(n)
  \/ setStateFromEnvelope(n)

Spec == Init /\ [][Next]_vars

(* Peers flood statements and send them again to a node that is behind,    *)
(* the node runs its handlers, its ledger triggers nomination, and its     *)
(* timer fires.                                                            *)
FairSpec ==
  /\ Spec
  /\ \A n \in Node :
       /\ WF_vars(Receive(n)) /\ WF_vars(emitNomination(n))
       /\ WF_vars(Nominate(n)) /\ WF_vars(Timeout(n))

-----------------------------------------------------------------------------
(* Safety.                                                                 *)

(* What emitNomination hands to processEnvelope is valid there: newer than *)
(* the node's own latest statement, so that no "moved to a bad state       *)
(* (nomination)" is thrown, whatever was restored from an earlier life.    *)
NoBadState == \A n \in Node :
  emitting[n] => isNewerStatement(latest[n][n], Own(n))

(* "accepted" is a subset of "votes", as applyAll says it should be, in    *)
(* all that nodes hold and send: promotion looks only at the votes of an   *)
(* incoming statement, and would miss the others.                          *)
AcceptedVoted == \A n \in Node :
  /\ accepted[n] \subseteq votes[n]
  /\ \A st \in sent[n] \cup {latest[n][m] : m \in Node} :
       st.accepted \subseteq st.votes

(* Nothing is accepted by contagion alone: when any node has accepted a    *)
(* value, every member of a quorum has voted for it, and still does after  *)
(* restarts.                                                               *)
AcceptedBacked == \A v \in UNION {accepted[n] : n \in Node} :
  \E n \in Node : isQuorum(n, {m \in Node : v \in votes[m]})

(* A candidate handed to the ballot protocol is valid to the node, and a   *)
(* quorum has accepted it and still does after restarts.                   *)
CandidateBacked == \A n \in Node : \A v \in candidates[n] :
  /\ v \in Valid[n]
  /\ isQuorum(n, {m \in Node : v \in accepted[m]})

Backed == AcceptedBacked /\ CandidateBacked

(* What a node sends is newer, for isNewerStatement, than all it has sent  *)
(* before, in this life and in earlier ones: its peers would drop it.      *)
SentNewer ==
  [][\A n \in Node : \A st \in sent'[n] \ sent[n] : \A old \in sent[n] :
       isNewerStatement(old, st)]_vars

-----------------------------------------------------------------------------
(* Liveness, under FairSpec.                                               *)

Decided == \E n \in Node : value[n] # NoValue /\ ~started[n]
Silent == \E n \in Node : muted[n]

(* Every node ends up with a candidate, unless the slot is externalized    *)
(* before or some node falls silent for good.                              *)
Nominated == \A n \in Node : <>(candidates[n] # {} \/ Decided \/ Silent)

(* Nodes converge: a candidate of one node becomes a candidate of every    *)
(* other that can validate it, although a node may have recorded the       *)
(* statements of the others before it started, or started again, and       *)
(* promotes only the values of the statement it processes.                 *)
Converges == \A m, n \in Node : \A v \in Valid[m] :
  v \in candidates[n] ~> v \in candidates[m] \/ Decided \/ Silent
=============================================================================
