----------------------- MODULE BallotRefinementProofs -----------------------
(***************************************************************************)
(* The handlers of the ballot protocol in the network: no assertion of a   *)
(* node's own fails, a node emits what it records, and every step of every *)
(* handler keeps each node true to its pledges and is a step of            *)
(* FederatedVoting or changes no pledge.  So the network implements        *)
(* federated voting, and the nodes agree.                                  *)
(***************************************************************************)
EXTENDS BallotPledgeProofs

(* Most leaves are steps of logic and are left to Zenon; those that need   *)
(* arithmetic say so.                                                      *)
USE Zenon

-----------------------------------------------------------------------------
(* No assertion fails.                                                     *)

(* Every node is in a state none of its operations fails in.               *)
SafeInv == TypeOK /\ \A n \in Node : StateOK(node[n])

(* The first state satisfies the invariant.                                *)
LEMMA SafeInit == Init => SafeInv
<1> SUFFICES ASSUME Init PROVE SafeInv
  OBVIOUS
<1>1. InitialState \in NodeState
  BY InitialFacts
<1>2. TypeOK
  <2>1. node \in [Node -> NodeState] /\ restarts \in Nat
    BY <1>1 DEF Init
  <2> DEFINE none == [votedPrepare |-> {}, acceptedPrepare |-> {},
                      votedCommit |-> {}, acceptedCommit |-> {},
                      committed |-> {}]
  <2>2. none \in Pledges
    BY DEF Pledges
  <2>3. pledged = [n \in Node |-> Pledge(none, InitialState)]
    BY DEF Init
  <2> HIDE DEF none
  <2>4. pledged \in [Node -> Pledges]
    BY <2>2, <2>3, PledgeType
  <2>5. QED BY <2>1, <2>4 DEF TypeOK
<1>3. StateOK(InitialState)
  <2>1. Len(InitialState.stack) = 0
    BY InitialFacts, EmptySeq
  <2>2. OwnRestorable(InitialState)
    BY <2>1, InitialFacts, OwnEmpty
  <2>3. checkInvariants(InitialState)
    BY InitialFacts DEF checkInvariants
  <2>4. QED BY <2>2, <2>3, InitialFacts DEF StateOK, LocalAssertions
<1>4. \A n \in Node : node[n] = InitialState
  BY DEF Init
<1>5. QED BY <1>2, <1>3, <1>4 DEF SafeInv

(* A step of n takes its state to another that meets the invariant.        *)
LEMMA SafeBecome ==
  ASSUME SafeInv, NEW n \in Node, NEW t, StateOK(t), Become(n, t),
         restarts' \in Nat
  PROVE  SafeInv'
<1>1. t \in NodeState
  BY DEF StateOK
<1>2. node' \in [Node -> NodeState]
  BY <1>1 DEF SafeInv, TypeOK, Become
<1>3. pledged[n] \in Pledges
  BY DEF SafeInv, TypeOK
<1>4. pledged' \in [Node -> Pledges]
  <2>1. Pledge(pledged[n], t) \in Pledges
    BY <1>3, PledgeType
  <2>2. QED BY <2>1 DEF SafeInv, TypeOK, Become
<1>5. \A m \in Node : node'[m] = IF m = n THEN t ELSE node[m]
  BY DEF SafeInv, TypeOK, Become
<1>6. \A m \in Node : StateOK(node'[m])
  BY <1>5 DEF SafeInv
<1>7. QED BY <1>2, <1>4, <1>6 DEF SafeInv, TypeOK

(* Every step keeps the invariant.                                         *)
LEMMA SafeNext == SafeInv /\ [Next]_vars => SafeInv'
<1> SUFFICES ASSUME SafeInv, [Next]_vars PROVE SafeInv'
  OBVIOUS
<1>0. restarts \in Nat /\ \A n \in Node : node[n] \in NodeState /\ StateOK(node[n])
  BY DEF SafeInv, TypeOK
<1>1. CASE UNCHANGED vars
  BY <1>1 DEF SafeInv, TypeOK, vars
<1>2. ASSUME NEW n \in Node, ReceiveEnvelope(n) PROVE SafeInv'
  <2>1. PICK st \in Sent : /\ Acceptable(n, node[n], st, FALSE)
                           /\ Become(n, processEnvelope(n, node[n], st))
                           /\ UNCHANGED restarts
    BY <1>2 DEF ReceiveEnvelope
  <2>2. st \in Statement
    <3>1. PICK m \in Node : st \in node[m].sent
      BY <2>1 DEF Sent
    <3>2. node[m].sent \subseteq Statement
      BY <1>0 DEF NodeState
    <3>3. QED BY <3>1, <3>2
  <2>3. StateOK(processEnvelope(n, node[n], st))
    BY <1>0, <2>1, <2>2, ProcessOK
  <2>4. QED BY <1>0, <2>1, <2>3, SafeBecome
<1>3. ASSUME NEW n \in Node, NominationCandidate(n) PROVE SafeInv'
  <2>1. PICK v \in Candidates[n] :
          /\ Alive(node[n])
          /\ Become(n, nominationCandidate(n, node[n], v))
          /\ UNCHANGED restarts
    BY <1>3 DEF NominationCandidate
  <2>2. v \in Value
    BY <2>1, StepsAssumption
  <2>3. StateOK(nominationCandidate(n, node[n], v))
    BY <1>0, <2>1, <2>2, NominationOK
  <2>4. QED BY <1>0, <2>1, <2>3, SafeBecome
<1>4. ASSUME NEW n \in Node, TimerExpired(n) PROVE SafeInv'
  <2>1. /\ Alive(node[n])
        /\ Become(n, ballotProtocolTimerExpired(n, node[n]))
        /\ UNCHANGED restarts
    BY <1>4 DEF TimerExpired
  <2>2. StateOK(ballotProtocolTimerExpired(n, node[n]))
    BY <1>0, <2>1, TimerOK
  <2>3. QED BY <1>0, <2>1, <2>2, SafeBecome
<1>5. ASSUME NEW n \in Node, Restart(n) PROVE SafeInv'
  <2>1. /\ Become(n, setStateFromEnvelope(n, node[n]))
        /\ restarts' = restarts + 1
    BY <1>5 DEF Restart
  <2>2. StateOK(setStateFromEnvelope(n, node[n]))
    BY <1>0, RestartOK
  <2>3. QED BY <1>0, <2>1, <2>2, SafeBecome, SMT
<1>6. ASSUME NEW n \in Node, AdvanceSlot(n) PROVE SafeInv'
  <2>1. /\ Alive(node[n]) /\ node[n].stack # <<>>
        /\ Become(n, Step(n, node[n]))
        /\ UNCHANGED restarts
    BY <1>6 DEF AdvanceSlot, Idle
  <2>2. StateOK(Step(n, node[n]))
    BY <1>0, <2>1, StepOK
  <2>3. QED BY <1>0, <2>1, <2>2, SafeBecome
<1>7. QED BY <1>1, <1>2, <1>3, <1>4, <1>5, <1>6 DEF Next

(* The assertions of BallotProtocol that rest on the node's own state      *)
(* (checkInvariants, bumpToBallot's, and that c is set once) never fail,   *)
(* whatever the nodes, the slices, the values and the schedule.            *)
THEOREM NoAssertion == Spec => []NoAssertionFails
<1>1. SafeInv => NoAssertionFails
  BY DEF SafeInv, NoAssertionFails, StateOK
<1>2. QED BY <1>1, SafeInit, SafeNext, PTL DEF Spec

NodeInv(P, n, s) ==
  Pledged(P, n, s) /\ (Alive(s) => Recorded(n, s) /\ Pending(n, s))

(* emitCurrentStateStatement keeps the invariant of the node and its       *)
(* ballots.                                                                *)
LEMMA EmitInv ==
  ASSUME NEW P \in [Node -> Pledges], NEW n \in Node, NEW u \in NodeState,
         u.p = NullBallot => u.pp = NullBallot,
         Pledged(P, n, u), Pending(n, u), Working(u),
         NEW t, Emitted(n, u, t)
  PROVE  NodeInv(P, n, t) /\ SameCore(u, t)
<1> DEFINE st == createStatement(n, u)
<1>1. CASE /\ ~Alive(t) /\ SameCore(u, t) /\ SameRest(u, t) /\ t.ext = u.ext
  BY <1>1, SameSaidFacts, PledgedSame DEF NodeInv
<1>2. CASE /\ u.M[n] = st /\ SameCore(u, t) /\ SameRest(u, t)
           /\ t.ext = u.ext /\ Sayable(u)
  <2>1. Pledged(P, n, t)
    BY <1>2, SameSaidFacts, PledgedSame
  <2>2. Pending(n, t)
    BY <1>2, PendingSame
  <2>3. t.M[n] = u.M[n] /\ createStatement(n, t) = st
    BY <1>2, RecordedSame DEF SameRest
  <2>4. st # NoStatement
    <3>1. Consistent(u)
      BY <1>2 DEF Sayable, Consistent
    <3>2. QED BY <1>2, <3>1, CreateFacts, StatementNotNone DEF Sayable
  <2>5. Recorded(n, t)
    BY <1>2, <2>3, <2>4 DEF Recorded
  <2>6. QED BY <1>2, <2>1, <2>2, <2>5 DEF NodeInv
<1>3. ASSUME Sayable(u) PROVE Consistent(u) /\ st \in Statement /\ st.node = n
                              /\ st # NoStatement /\ HonestOf(P, n, st)
  <2>1. Consistent(u)
    BY <1>3 DEF Sayable, Consistent
  <2>2. st \in Statement /\ st.node = n
    BY <1>3, <2>1, CreateFacts DEF Sayable
  <2>3. HonestOf(P, n, st)
    BY <1>3, <2>1, CreateHonest DEF Pledged
  <2>4. QED BY <2>1, <2>2, <2>3, StatementNotNone
<1>4. ASSUME Sayable(u), Supersedes(n, u),
             NEW f, OwnFrame(n, u, f), Pushed(n, u, f, t)
      PROVE  NodeInv(P, n, t) /\ SameCore(u, t)
  <2>1. Consistent(u) /\ st.node = n /\ st # NoStatement /\ HonestOf(P, n, st)
    BY <1>3, <1>4
  <2>2. Pending(n, t) /\ t.M[n] = st
    BY <1>4, <2>1, PendingOwn
  <2> HIDE DEF st
  <2>3. /\ SameCore(u, t) /\ t.lastEnvelope = u.lastEnvelope
        /\ t.lastEnvelopeEmit = u.lastEnvelopeEmit /\ t.sent = u.sent
        /\ t.ext = u.ext
        /\ \A m \in Node : t.M[m] = IF m = f.hint.node THEN f.hint ELSE u.M[m]
        /\ Len(t.stack) = Len(u.stack) + 1 /\ Len(u.stack) \in Nat
        /\ \A j \in 1 .. Len(u.stack) : t.stack[j] = u.stack[j]
        /\ t.stack[Len(u.stack) + 1] = f
    BY <1>4 DEF Pushed
  <2>4. f.hint = st
    BY <1>4 DEF OwnFrame, st
  <2>5. HonestKnown(P, t)
    BY <2>1, <2>3, <2>4 DEF Pledged, HonestState, HonestKnown
  <2>6. ASSUME NEW i \in 1 .. Len(t.stack), t.stack[i].self
        PROVE  HonestOf(P, n, t.stack[i].hint)
    <3>1. CASE i \in 1 .. Len(u.stack)
      BY <2>3, <2>6, <3>1 DEF Pledged, HonestState
    <3>2. CASE i = Len(u.stack) + 1
      BY <2>1, <2>3, <2>4, <3>2
    <3>3. QED BY <2>3, <2>6, <3>1, <3>2, SMT
  <2>7. HonestState(P, n, t)
    BY <2>3, <2>5, <2>6 DEF Pledged, HonestState
  <2>8. Current(P[n], t) /\ VotesOK(P, n, t) /\ Externalized(P[n], t)
    BY <2>3, CurrentSame, VotesSame, GrewRefl DEF Pledged, Externalized
  <2>9. Recorded(n, t)
    BY <2>1, <2>2, <2>3, RecordedSame, SMT DEF Recorded, st
  <2>10. QED BY <2>2, <2>3, <2>7, <2>8, <2>9 DEF NodeInv, Pledged
<1>5. ASSUME Sayable(u), Supersedes(n, u), u.phase = "EXTERNALIZE",
             Finished(recordEnvelope(u, st), st, u.b # NullBallot, t)
      PROVE  NodeInv(P, n, t) /\ SameCore(u, t)
  <2> DEFINE w == recordEnvelope(u, st)
  <2>1. /\ Consistent(u) /\ st.node = n /\ st # NoStatement
        /\ HonestOf(P, n, st) /\ st \in Statement
    BY <1>3, <1>5
  <2>2. Pending(n, t) /\ t.M[n] = st
    BY <1>5, <2>1, PendingFinished
  <2> HIDE DEF st
  <2>3. /\ w \in NodeState /\ SameCore(u, w) /\ SameOther(u, w)
        /\ w.stack = u.stack /\ w.lastEnvelope = u.lastEnvelope
        /\ w.lastEnvelopeEmit = u.lastEnvelopeEmit /\ w.sent = u.sent
        /\ \A m \in Node : w.M[m] = IF m = st.node THEN st ELSE u.M[m]
    BY <2>1, RecordFacts
  <2>4. Finished(w, st, u.b # NullBallot, t)
    BY <1>5
  <2> HIDE DEF w
  <2>5. /\ SameCore(w, t) /\ SameOther(w, t) /\ t.M = w.M /\ t.stack = w.stack
        /\ t.lastEnvelope \in {st, w.lastEnvelope}
        /\ t.lastEnvelopeEmit \in {st, w.lastEnvelopeEmit}
        /\ t.sent \subseteq w.sent \cup {st}
    BY <2>4 DEF Finished
  <2>6. SameCore(u, t) /\ t.ext = u.ext
    BY <2>3, <2>5 DEF SameCore, SameOther
  <2>7. HonestKnown(P, t)
    BY <2>1, <2>3, <2>5 DEF Pledged, HonestState, HonestKnown
  <2>8. HonestState(P, n, t)
    BY <2>1, <2>3, <2>5, <2>7 DEF Pledged, HonestState
  <2>9. Current(P[n], t) /\ VotesOK(P, n, t) /\ Externalized(P[n], t)
    BY <2>6, CurrentSame, VotesSame, GrewRefl DEF Pledged, Externalized
  <2>10. Recorded(n, t)
    BY <2>1, <2>2, <2>6, RecordedSame DEF Recorded, st
  <2>11. QED BY <2>2, <2>6, <2>8, <2>9, <2>10 DEF NodeInv, Pledged
<1>6. QED BY <1>1, <1>2, <1>4, <1>5 DEF Emitted

-----------------------------------------------------------------------------
(* From P, n becomes t by a step of federated voting, and its invariant    *)
(* holds in terms of the pledges afterwards.                               *)
Advances(P, n, t) ==
  /\ VotingStep(P, n, Pledge(P[n], t))
  /\ \A Q \in [Node -> Pledges] :
       Grew(P, Q) /\ Q[n] = Pledge(P[n], t) => NodeInv(Q, n, t)

(* A step of federated voting followed by emitCurrentStateStatement.       *)
LEMMA EmitAdvances ==
  ASSUME NEW P \in [Node -> Pledges], NEW n \in Node, NEW s \in NodeState,
         Pledged(P, n, s), NEW u \in NodeState, SameSaid(s, u), Moves(P, n, u),
         Externalized(Pledge(P[n], u), u), u.p = NullBallot => u.pp = NullBallot,
         Pending(n, u), Working(u), NEW t, Emitted(n, u, t)
  PROVE  Advances(P, n, t)
<1>1. ASSUME NEW Q \in [Node -> Pledges], Grew(P, Q), Q[n] = Pledge(P[n], u)
      PROVE  NodeInv(Q, n, t) /\ SameCore(u, t)
  <2>1. Pledged(Q, n, u)
    BY <1>1, PledgedMoved
  <2>2. QED BY <2>1, EmitInv
<1>2. SameCore(u, t)
  <2> DEFINE R == Pledge(P[n], u)
  <2>1. R \in Pledges /\ GrewBy(P[n], R)
    BY PledgeFields
  <2> HIDE DEF R
  <2> DEFINE Q == [P EXCEPT ![n] = R]
  <2>2. Q \in [Node -> Pledges] /\ Grew(P, Q) /\ Q[n] = R
    BY <2>1, GrewOne
  <2> HIDE DEF Q
  <2>3. QED BY <1>1, <2>2 DEF R
<1>3. Pledge(P[n], t) = Pledge(P[n], u)
  BY <1>2, PledgeSameCore
<1>4. QED BY <1>1, <1>3 DEF Advances, Moves

(* A step that shows nothing new.                                          *)
LEMMA StayAdvances ==
  ASSUME NEW P \in [Node -> Pledges], NEW n \in Node, NEW s \in NodeState,
         Pledged(P, n, s), NEW t \in NodeState, SameCore(s, t), t.ext = s.ext,
         HonestState(P, n, t), Alive(t) => Recorded(n, t) /\ Pending(n, t)
  PROVE  Advances(P, n, t)
<1>1. Pledge(P[n], t) = P[n] /\ Moves(P, n, t)
  BY MovesSame DEF Pledged
<1>2. ASSUME NEW Q \in [Node -> Pledges], Grew(P, Q), Q[n] = P[n]
      PROVE  NodeInv(Q, n, t)
  <2>1. HonestState(Q, n, t)
    BY <1>2, HonestStateGrew
  <2>2. Current(Q[n], t)
    BY <1>2, CurrentSame DEF Pledged
  <2>3. VotesOK(Q, n, t)
    BY <1>1, <1>2 DEF Moves
  <2>4. Externalized(Q[n], t)
    BY <1>2 DEF Pledged, Externalized
  <2>5. QED BY <2>1, <2>2, <2>3, <2>4 DEF NodeInv, Pledged
<1>3. QED BY <1>1, <1>2 DEF Advances, Moves

-----------------------------------------------------------------------------
(* An attempt of advanceSlot that is a step of federated voting, with the  *)
(* statement emitted after it.                                             *)
LEMMA ContinueAdvances ==
  ASSUME NEW P \in [Node -> Pledges], NEW n \in Node, NEW s \in NodeState,
         NodeInv(P, n, s), Alive(s), s.stack # << >>, NEW r, Result(s, r),
         Attempted(s, r[1]), r[1].p = NullBallot => r[1].pp = NullBallot,
         Moves(P, n, r[1]), Externalized(Pledge(P[n], r[1]), r[1]),
         ~r[2] => r[1].ext = s.ext, NEW pc \in PCs
  PROVE  Advances(P, n, Continue(n, s, r, pc))
<1>1. PICK t : t = r[1]
  OBVIOUS
<1>2. /\ t \in NodeState /\ SameRest(s, t) /\ t.stack # << >>
      /\ r[2] \in BOOLEAN /\ (r[2] \/ SameCore(s, t))
  BY <1>1 DEF Attempted, SameRest, Result
<1>3. Pending(n, t) /\ SameSaid(s, t)
  BY <1>2, PendingSame, SameSaidFacts DEF NodeInv
<1>4. Pledged(P, n, s)
  BY DEF NodeInv
<1>5. CASE r[2]
  <2> DEFINE u == SetTop(t, pc, TRUE)
             e == emitCurrentStateStatement(n, u, FALSE)
  <2>1. Continue(n, s, r, pc) = e
    BY <1>1, <1>5 DEF Continue
  <2>2. MovedOn(t, TRUE, u)
    BY <1>2, SetTopFacts
  <2> HIDE DEF u
  <2>3. Pending(n, u) /\ Working(u) /\ SameSaid(t, u)
    BY <1>3, <2>2, PendingMoved, SameSaidFacts
  <2>4. SameSaid(s, u)
    BY <1>3, <2>3, SameSaidFacts
  <2>5. u \in NodeState /\ SameCore(t, u) /\ u.ext = t.ext
    BY <2>2 DEF MovedOn, SameButStack, SameOther
  <2>6. Pledge(P[n], u) = Pledge(P[n], t)
    BY <2>5, PledgeSameCore
  <2>7. Moves(P, n, u) /\ Externalized(Pledge(P[n], u), u)
    <3>1. \A Q : VotesOK(Q, n, t) => VotesOK(Q, n, u)
      BY <2>5, VotesSame, GrewRefl
    <3>2. Moves(P, n, u)
      BY <1>1, <2>6, <3>1 DEF Moves
    <3>3. QED BY <1>1, <2>5, <2>6, <3>2 DEF Externalized
  <2>8. u.p = NullBallot => u.pp = NullBallot
    BY <1>1, <2>5 DEF SameCore
  <2>9. Emitted(n, u, e)
    BY <2>5, <2>8, EmitFacts
  <2> HIDE DEF e
  <2>10. Advances(P, n, e)
    BY <1>4, <2>3, <2>4, <2>5, <2>7, <2>8, <2>9, EmitAdvances
  <2>11. QED BY <2>1, <2>10
<1>6. CASE ~r[2]
  <2> DEFINE u == SetTop(t, pc, FALSE)
  <2>1. Continue(n, s, r, pc) = u
    BY <1>1, <1>6 DEF Continue
  <2>2. MovedOn(t, FALSE, u)
    BY <1>2, SetTopFacts
  <2> HIDE DEF u
  <2>3. Pending(n, u) /\ SameSaid(t, u)
    BY <1>3, <2>2, PendingMoved, SameSaidFacts
  <2>4. SameSaid(s, u)
    BY <1>3, <2>3, SameSaidFacts
  <2>5. u \in NodeState /\ SameCore(t, u) /\ u.ext = t.ext
    BY <2>2 DEF MovedOn, SameButStack, SameOther
  <2>6. SameCore(s, u) /\ u.ext = s.ext
    BY <1>1, <1>2, <1>6, <2>5 DEF SameCore
  <2>7. Recorded(n, u)
    BY <2>4, <2>6, RecordedSame DEF NodeInv, SameSaid
  <2>8. HonestState(P, n, u)
    BY <1>4, <2>4, HonestSame DEF Pledged
  <2>9. Advances(P, n, u)
    BY <1>4, <2>3, <2>5, <2>6, <2>7, <2>8, StayAdvances
  <2>10. QED BY <2>1, <2>9
<1>7. QED BY <1>2, <1>5, <1>6

(* A move to a higher ballot, with the statement emitted after it.         *)
LEMMA UpdatedAdvances ==
  ASSUME NEW P \in [Node -> Pledges], NEW n \in Node, NEW s \in NodeState,
         Pledged(P, n, s), Pending(n, s), Working(s), Consistent(s),
         NEW u, UpdatedValue(s, u), NEW t, Emitted(n, u, t)
  PROVE  Advances(P, n, t)
<1>1. Moves(P, n, u)
  BY MoveUpdated DEF Pledged
<1>2. u \in NodeState /\ SameRest(s, u) /\ u.ext = s.ext
  BY DEF UpdatedValue, Attempted
<1>3. Consistent(u)
  BY UpdatedConsistent
<1>4. Pending(n, u) /\ Working(u) /\ SameSaid(s, u)
  BY <1>2, PendingSame, SameSaidFacts
<1>5. Externalized(Pledge(P[n], u), u)
  BY <1>2, ExternalizedSame DEF Pledged
<1>6. u.p = NullBallot => u.pp = NullBallot
  BY <1>3 DEF Consistent
<1>7. QED BY <1>1, <1>2, <1>4, <1>5, <1>6, EmitAdvances

-----------------------------------------------------------------------------
(* The last step of an advanceSlot: a move to a higher ballot, or the      *)
(* return.                                                                 *)
LEMMA BumpAdvances ==
  ASSUME NEW P \in [Node -> Pledges], NEW n \in Node, NEW s, StateOK(s),
         NodeInv(P, n, s), Alive(s), s.stack # << >>
  PROVE  Advances(P, n, BumpOrReturn(n, s))
<1> DEFINE t == BumpOrReturn(n, s)
           s0 == SetTop(s, "bump", TRUE)
<1>1. s \in NodeState /\ Consistent(s)
  BY DEF StateOK, Consistent
<1>2. \/ \E u : UpdatedValue(s0, u) /\ t = emitCurrentStateStatement(n, u, TRUE)
      \/ \E w : AboutToReturn(s, w) /\ Returned(w, t)
  BY <1>1, BumpOrReturnFacts
<1>3. "bump" \in PCs /\ TRUE \in BOOLEAN
  BY DEF PCs
<1>4. MovedOn(s, TRUE, s0)
  BY <1>1, <1>3, SetTopFacts
<1>5. Pledged(P, n, s) /\ Recorded(n, s) /\ Pending(n, s)
  BY DEF NodeInv
<1> HIDE DEF t, s0
<1>6. CASE \E u : /\ UpdatedValue(s0, u)
                  /\ t = emitCurrentStateStatement(n, u, TRUE)
  <2>1. PICK u : UpdatedValue(s0, u) /\ t = emitCurrentStateStatement(n, u, TRUE)
    BY <1>6
  <2>2. s0 \in NodeState /\ SameCore(s, s0) /\ s0.ext = s.ext /\ SameSaid(s, s0)
    BY <1>4, SameSaidFacts DEF MovedOn, SameButStack, SameOther
  <2>3. Consistent(s0)
    BY <1>1, <2>2, CheckSame
  <2>4. Pending(n, s0) /\ Working(s0)
    BY <1>4, <1>5, PendingMoved
  <2>5. Pledged(P, n, s0)
    BY <1>5, <2>2, PledgedSame
  <2>6. Consistent(u) /\ u \in NodeState
    BY <2>1, <2>2, <2>3, UpdatedConsistent DEF UpdatedValue, Attempted
  <2>7. Emitted(n, u, t)
    BY <1>3, <2>1, <2>6, EmitFacts DEF Consistent
  <2>8. Advances(P, n, t)
    BY <2>1, <2>2, <2>3, <2>4, <2>5, <2>7, UpdatedAdvances
  <2>9. QED BY <2>8 DEF t
<1>7. CASE \E w : AboutToReturn(s, w) /\ Returned(w, t)
  <2>1. PICK w : AboutToReturn(s, w) /\ Returned(w, t)
    BY <1>7
  <2>2. /\ w \in NodeState /\ SameCore(s, w) /\ w.ext = s.ext /\ SameSaid(s, w)
        /\ w.fullyValidated = s.fullyValidated
        /\ \A j \in 1 .. Len(s.stack) : w.stack[j].work = s.stack[j].work
    BY <2>1, SameSaidFacts DEF AboutToReturn
  <2>3. Len(s.stack) \in Nat \ {0} /\ Len(w.stack) = Len(s.stack)
    BY <1>1, <2>2, EmptySeq DEF SameSaid, NodeState
  <2>4. w.stack # << >>
    BY <2>3, EmptySeq
  <2>5. Pending(n, w)
    <3>1. s.stack[1].work = w.stack[1].work /\ 1 \in 1 .. Len(s.stack)
      BY <2>2, <2>3, SMT
    <3>2. /\ w.M = s.M /\ w.lastEnvelope = s.lastEnvelope
          /\ w.lastEnvelopeEmit = s.lastEnvelopeEmit /\ Len(w.stack) = Len(s.stack)
          /\ w.fullyValidated = s.fullyValidated
          /\ \A j \in 1 .. Len(s.stack) : /\ w.stack[j].hint = s.stack[j].hint
                                           /\ w.stack[j].self = s.stack[j].self
                                           /\ w.stack[j].canEmit = s.stack[j].canEmit
      BY <2>2 DEF SameSaid, SameCall
    <3>3. Pending(n, s)
      BY <1>5
    <3> HIDE DEF t, s0
    <3>4. QED BY <3>1, <3>2, <3>3 DEF Pending
  <2>6. Pending(n, t)
    BY <2>1, <2>2, <2>4, <2>5, PendingReturned
  <2>7. HonestState(P, n, w)
    BY <1>5, <2>2, HonestSame DEF Pledged
  <2>8. Top(w) = w.stack[Len(w.stack)]
    BY DEF Top
  <2>9. Top(w).self => HonestOf(P, n, Top(w).hint)
    BY <2>3, <2>7, <2>8, SMT DEF HonestState
  <2>10. /\ t \in NodeState /\ SameCore(w, t) /\ t.ext = w.ext /\ t.M = w.M
         /\ Len(t.stack) = Len(w.stack) - 1
         /\ \A j \in 1 .. Len(w.stack) - 1 : t.stack[j] = w.stack[j]
    BY <2>1 DEF Returned, SameOther
  <2>11. /\ HonestOf(P, n, t.lastEnvelope) /\ HonestOf(P, n, t.lastEnvelopeEmit)
         /\ \A st \in t.sent : HonestOf(P, n, st)
    <3>1. \/ t.lastEnvelope = w.lastEnvelope
          \/ Top(w).self /\ t.lastEnvelope = Top(w).hint
      BY <2>1 DEF Returned
    <3>2. \/ t.lastEnvelopeEmit \in {w.lastEnvelope, w.lastEnvelopeEmit}
          \/ Top(w).self /\ t.lastEnvelopeEmit = Top(w).hint
      BY <2>1 DEF Returned
    <3>3. ASSUME NEW st \in t.sent
          PROVE  \/ st \in w.sent \/ st = w.lastEnvelope
                 \/ Top(w).self /\ st = Top(w).hint
      <4>1. t.sent \subseteq w.sent \cup ({w.lastEnvelope} \ {NoStatement})
                               \cup (IF Top(w).self THEN {Top(w).hint} ELSE {})
        BY <2>1 DEF Returned
      <4>2. QED BY <4>1
    <3>4. QED BY <2>7, <2>9, <3>1, <3>2, <3>3 DEF HonestState
  <2>12. \A i \in 1 .. Len(t.stack) :
           t.stack[i].self => HonestOf(P, n, t.stack[i].hint)
    BY <2>3, <2>7, <2>10, SMT DEF HonestState
  <2>13. HonestState(P, n, t)
    BY <2>7, <2>10, <2>11, <2>12 DEF HonestState, HonestKnown
  <2>14. SameCore(s, t) /\ t.ext = s.ext /\ t.M[n] = s.M[n]
    BY <2>2, <2>10 DEF SameCore, SameSaid
  <2>15. Recorded(n, t)
    BY <1>5, <2>14, RecordedSame
  <2>16. Advances(P, n, t)
    BY <1>1, <1>5, <2>6, <2>10, <2>13, <2>14, <2>15, StayAdvances
  <2>17. QED BY <2>16 DEF t
<1>8. QED BY <1>2, <1>6, <1>7

(* Every step of advanceSlot is one of federated voting.                   *)
LEMMA StepAdvances ==
  ASSUME NEW P \in [Node -> Pledges], NEW n \in Node, NEW s, StateOK(s),
         NodeInv(P, n, s), Alive(s), s.stack # << >>
  PROVE  Advances(P, n, Step(n, s))
<1> DEFINE f == Top(s)
           hint == Top(s).hint
           t == Step(n, s)
<1>1. s \in NodeState /\ Consistent(s)
  BY DEF StateOK, Consistent
<1>2. s.stack \in Seq(Frame) /\ Len(s.stack) \in Nat \ {0}
  BY <1>1, EmptySeq DEF NodeState
<1>3. f \in Frame
  BY <1>2, ElementOfSeq, SMT DEF Top
<1>4. hint \in Statement /\ f.pc \in PCs
  BY <1>3 DEF Frame, PCs
<1>5. Votable(hint)
  BY <1>2, SMT DEF StateOK, OwnRestorable, Top
<1>6. /\ Pledged(P, n, s) /\ HonestKnown(P, s) /\ Current(P[n], s)
      /\ VotesOK(P, n, s) /\ Externalized(P[n], s)
  BY DEF NodeInv, Pledged, HonestState
<1>7. ASSUME NEW r, NEW pc \in PCs, Result(s, r), Attempted(s, r[1]),
             r[1].p = NullBallot => r[1].pp = NullBallot,
             Moves(P, n, r[1]), r[1].ext = s.ext
      PROVE  Advances(P, n, Continue(n, s, r, pc))
  <2>1. r[1] \in NodeState
    BY <1>7 DEF Attempted
  <2>2. Externalized(Pledge(P[n], r[1]), r[1])
    BY <1>6, <1>7, <2>1, ExternalizedSame
  <2>3. QED BY <1>1, <1>7, <2>2, ContinueAdvances
<1>8. PCs = {"acceptPrepared", "confirmPrepared", "acceptCommit",
             "confirmCommit", "bump"}
  BY DEF PCs
<1>9. CASE f.pc = "acceptPrepared"
  <2> DEFINE r == attemptAcceptPrepared(n, s, hint)
  <2>1. t = Continue(n, s, r, "confirmPrepared")
    BY <1>9 DEF Step
  <2>2. Result(s, r) /\ AttemptedAcceptPrepared(n, s, r[1])
    BY <1>1, <1>4, AttemptAcceptPreparedFacts
  <2> HIDE DEF r
  <2>3. r[1].p = NullBallot => r[1].pp = NullBallot
    BY <1>1, <2>2, AcceptPreparedConsistent
  <2>4. Moves(P, n, r[1])
    BY <1>1, <1>6, <2>2, MoveAcceptPrepared
  <2>5. QED BY <1>7, <1>8, <2>1, <2>2, <2>3, <2>4 DEF AttemptedAcceptPrepared
<1>10. CASE f.pc = "confirmPrepared"
  <2> DEFINE r == attemptConfirmPrepared(n, s, hint)
  <2>1. t = Continue(n, s, r, "acceptCommit")
    BY <1>10 DEF Step
  <2>2. Result(s, r) /\ AttemptedConfirmPrepared(n, s, r[1])
    BY <1>1, <1>4, AttemptConfirmPreparedFacts
  <2> HIDE DEF r
  <2>3. r[1].p = NullBallot => r[1].pp = NullBallot
    BY <1>1, <2>2, ConfirmPreparedConsistent DEF Consistent
  <2>4. Moves(P, n, r[1])
    BY <1>1, <1>6, <2>2, MoveConfirmPrepared
  <2>5. QED BY <1>7, <1>8, <2>1, <2>2, <2>3, <2>4 DEF AttemptedConfirmPrepared
<1>11. CASE f.pc = "acceptCommit"
  <2> DEFINE r == attemptAcceptCommit(n, s, hint)
  <2>1. t = Continue(n, s, r, "confirmCommit")
    BY <1>11 DEF Step
  <2>2. Result(s, r) /\ AttemptedAcceptCommit(n, s, r[1])
    BY <1>1, <1>4, <1>5, AttemptAcceptCommitFacts
  <2> HIDE DEF r
  <2>3. r[1].p = NullBallot => r[1].pp = NullBallot
    BY <1>1, <2>2, AcceptCommitConsistent DEF Consistent
  <2>4. Moves(P, n, r[1])
    BY <1>1, <1>6, <2>2, MoveAcceptCommit
  <2>5. QED BY <1>7, <1>8, <2>1, <2>2, <2>3, <2>4 DEF AttemptedAcceptCommit
<1>12. CASE f.pc = "confirmCommit"
  <2> DEFINE r == attemptConfirmCommit(n, s, hint)
  <2>1. t = Continue(n, s, r, "bump")
    BY <1>12 DEF Step
  <2>2. Result(s, r) /\ AttemptedConfirmCommit(n, s, r[1])
    BY <1>1, <1>4, AttemptConfirmCommitFacts
  <2> HIDE DEF r
  <2>3. r[1].p = NullBallot => r[1].pp = NullBallot
    BY <1>1, <2>2, ConfirmCommitConsistent DEF Consistent
  <2>4. Moves(P, n, r[1]) /\ Externalized(Pledge(P[n], r[1]), r[1])
    BY <1>1, <1>6, <2>2, MoveConfirmCommit
  <2>5. ~r[2] => r[1].ext = s.ext
    BY <2>2 DEF Result, SameCore, AttemptedConfirmCommit, ConfirmedCommit, ConfirmableInterval
  <2>6. QED BY <1>1, <1>8, <2>1, <2>2, <2>3, <2>4, <2>5, ContinueAdvances
            DEF AttemptedConfirmCommit
<1>13. CASE f.pc = "bump"
  <2>1. t = BumpOrReturn(n, s)
    BY <1>13 DEF Step
  <2>2. QED BY <2>1, BumpAdvances
<1>14. QED BY <1>4, <1>8, <1>9, <1>10, <1>11, <1>12, <1>13

-----------------------------------------------------------------------------
(* Receiving a statement shows nothing new.                                *)
LEMMA ProcessAdvances ==
  ASSUME NEW P \in [Node -> Pledges], NEW n \in Node, NEW s, StateOK(s),
         NodeInv(P, n, s), Alive(s), Idle(s), NEW st \in Statement,
         st.node # n, HonestOf(P, st.node, st), Acceptable(n, s, st, FALSE)
  PROVE  Advances(P, n, processEnvelope(n, s, st))
<1> DEFINE t == processEnvelope(n, s, st)
<1>1. s \in NodeState /\ Len(s.stack) = 0
  BY EmptySeq DEF StateOK, Idle
<1>2. \/ s.phase = "EXTERNALIZE" /\ t = recordEnvelope(s, st)
      \/ \E f : ReceivedFrame(f, st) /\ Pushed(n, s, f, t)
  BY <1>1, ProcessFacts
<1>3. Pledged(P, n, s) /\ Recorded(n, s) /\ Pending(n, s)
  BY DEF NodeInv
<1> HIDE DEF t
<1>4. CASE t = recordEnvelope(s, st)
  <2>1. /\ t \in NodeState /\ SameCore(s, t) /\ t.ext = s.ext
        /\ t.stack = s.stack /\ t.lastEnvelope = s.lastEnvelope
        /\ t.lastEnvelopeEmit = s.lastEnvelopeEmit /\ t.sent = s.sent
        /\ t.fullyValidated = s.fullyValidated
        /\ \A m \in Node : t.M[m] = IF m = st.node THEN st ELSE s.M[m]
    BY <1>1, <1>4, RecordFacts DEF SameOther
  <2>2. t.M[n] = s.M[n]
    BY <2>1
  <2>3. HonestState(P, n, t)
    BY <1>3, <2>1 DEF Pledged, HonestState, HonestKnown
  <2>4. Pending(n, t)
    BY <1>3, <2>1, <2>2 DEF Pending
  <2>5. Recorded(n, t)
    BY <1>3, <2>1, <2>2, RecordedSame
  <2>6. Advances(P, n, t)
    BY <1>1, <1>3, <2>1, <2>3, <2>4, <2>5, StayAdvances
  <2>7. QED BY <2>6 DEF t
<1>5. CASE \E f : ReceivedFrame(f, st) /\ Pushed(n, s, f, t)
  <2>1. PICK f : ReceivedFrame(f, st) /\ Pushed(n, s, f, t)
    BY <1>5
  <2>2. Pending(n, t) /\ t.M[n] = s.M[n]
    BY <1>1, <1>3, <2>1, PendingReceived
  <2>3. /\ t \in NodeState /\ SameCore(s, t) /\ t.ext = s.ext
        /\ t.lastEnvelope = s.lastEnvelope
        /\ t.lastEnvelopeEmit = s.lastEnvelopeEmit /\ t.sent = s.sent
        /\ Len(t.stack) = Len(s.stack) + 1
        /\ t.stack[Len(s.stack) + 1] = f
        /\ \A m \in Node : t.M[m] = IF m = f.hint.node THEN f.hint ELSE s.M[m]
    BY <2>1 DEF Pushed
  <2>4. f.hint = st /\ ~f.self
    BY <2>1 DEF ReceivedFrame
  <2>5. \A i \in 1 .. Len(t.stack) : ~t.stack[i].self
    BY <1>1, <2>3, <2>4, SMT
  <2>6. HonestState(P, n, t)
    BY <1>3, <2>3, <2>4, <2>5 DEF Pledged, HonestState, HonestKnown
  <2>7. Recorded(n, t)
    BY <1>3, <2>2, <2>3, RecordedSame
  <2>8. Advances(P, n, t)
    BY <1>1, <1>3, <2>2, <2>3, <2>6, <2>7, StayAdvances
  <2>9. QED BY <2>8 DEF t
<1>6. QED BY <1>2, <1>4, <1>5

(* bumpState and abandonBallot are steps of federated voting.              *)
LEMMA BumpedAdvances ==
  ASSUME NEW P \in [Node -> Pledges], NEW n \in Node, NEW s, StateOK(s),
         NodeInv(P, n, s), Alive(s), Idle(s), NEW s1 \in NodeState,
         SameCore(s, s1), SameRest(s, s1), s1.ext = s.ext,
         NEW r, Bumped(n, s1, r)
  PROVE  Advances(P, n, r[1])
<1>1. s \in NodeState /\ Consistent(s) /\ Len(s.stack) = 0
  BY EmptySeq DEF StateOK, Consistent, Idle
<1>2. Pledged(P, n, s) /\ Recorded(n, s) /\ Pending(n, s)
  BY DEF NodeInv
<1>3. Consistent(s1) /\ Pending(n, s1) /\ Working(s1) /\ Pledged(P, n, s1)
  <2>1. SameSaid(s, s1)
    BY SameSaidFacts
  <2>2. Pledged(P, n, s1)
    BY <1>2, <2>1, PledgedSame
  <2>3. Pending(n, s1)
    BY <1>2, PendingSame
  <2>4. QED BY <1>1, <2>2, <2>3, CheckSame DEF Working, SameRest
<1>4. PICK u : /\ UpdatedValue(s1, u)
               /\ \/ SameCore(s1, u) /\ r = <<u, FALSE>>
                  \/ r = <<emitCurrentStateStatement(n, u, TRUE), TRUE>>
  BY DEF Bumped
<1>5. u \in NodeState /\ SameRest(s1, u) /\ u.ext = s1.ext /\ Consistent(u)
  BY <1>3, <1>4, UpdatedConsistent DEF UpdatedValue, Attempted
<1>6. ASSUME NEW x, NEW y PROVE <<x, y>>[1] = x
  OBVIOUS
<1> DEFINE e == emitCurrentStateStatement(n, u, TRUE)
<1>7. CASE SameCore(s1, u) /\ r = <<u, FALSE>>
  <2>1. r[1] = u
    BY <1>6, <1>7
  <2>2. SameSaid(s1, u) /\ SameSaid(s, s1)
    BY <1>5, SameSaidFacts
  <2>3. HonestState(P, n, u)
    BY <1>3, <2>2, HonestSame DEF Pledged
  <2>4. Pending(n, u)
    BY <1>3, <1>5, PendingSame
  <2>5. SameCore(s, u) /\ u.M[n] = s.M[n]
    BY <1>7, <2>2 DEF SameCore, SameSaid
  <2>6. Recorded(n, u)
    BY <1>2, <2>5, RecordedSame
  <2>7. Advances(P, n, u)
    BY <1>3, <1>5, <1>7, <2>3, <2>4, <2>6, StayAdvances
  <2>8. QED BY <2>1, <2>7
<1>8. CASE r = <<e, TRUE>>
  <2>1. Emitted(n, u, e)
    <3>1. TRUE \in BOOLEAN
      OBVIOUS
    <3>2. QED BY <1>5, <3>1, EmitFacts DEF Consistent
  <2> HIDE DEF e
  <2>2. r[1] = e
    BY <1>6, <1>8
  <2>3. Advances(P, n, e)
    BY <1>3, <1>4, <2>1, UpdatedAdvances
  <2>4. QED BY <2>2, <2>3
<1>9. QED BY <1>4, <1>7, <1>8

(* So is a new candidate,                                                  *)
LEMMA NominationAdvances ==
  ASSUME NEW P \in [Node -> Pledges], NEW n \in Node, NEW s, StateOK(s),
         NodeInv(P, n, s), Alive(s), Idle(s), NEW v \in Value
  PROVE  Advances(P, n, nominationCandidate(n, s, v))
<1>1. s \in NodeState /\ Consistent(s)
  BY DEF StateOK, Consistent
<1>2. PICK s1 : /\ s1 \in NodeState /\ SameCore(s, s1) /\ SameRest(s, s1)
                /\ s1.bad = s.bad /\ s1.ext = s.ext
                /\ \/ nominationCandidate(n, s, v) = s1
                   \/ \E r : /\ Bumped(n, s1, r)
                             /\ nominationCandidate(n, s, v) = r[1]
  BY <1>1, NominationFacts
<1>3. CASE nominationCandidate(n, s, v) = s1
  <2>1. Pledged(P, n, s) /\ Recorded(n, s) /\ Pending(n, s)
    BY DEF NodeInv
  <2>2. SameSaid(s, s1)
    BY <1>2, SameSaidFacts
  <2>3. HonestState(P, n, s1) /\ Pending(n, s1) /\ Recorded(n, s1)
    BY <1>2, <2>1, <2>2, HonestSame, PendingSame, RecordedSame
       DEF Pledged, SameSaid
  <2>4. Advances(P, n, s1)
    BY <1>1, <1>2, <2>1, <2>3, StayAdvances
  <2>5. QED BY <1>3, <2>4
<1>4. CASE \E r : Bumped(n, s1, r) /\ nominationCandidate(n, s, v) = r[1]
  BY <1>2, <1>4, BumpedAdvances
<1>5. QED BY <1>2, <1>3, <1>4

(* and so is the timer.                                                    *)
LEMMA TimerAdvances ==
  ASSUME NEW P \in [Node -> Pledges], NEW n \in Node, NEW s, StateOK(s),
         NodeInv(P, n, s), Alive(s), Idle(s)
  PROVE  Advances(P, n, ballotProtocolTimerExpired(n, s))
<1>1. s \in NodeState /\ Consistent(s)
  BY DEF StateOK, Consistent
<1>2. PICK s1, r :
        /\ s1 \in NodeState /\ SameCore(s, s1) /\ SameRest(s, s1)
        /\ s1.bad = s.bad /\ s1.ext = s.ext /\ Bumped(n, s1, r)
        /\ ballotProtocolTimerExpired(n, s) = r[1]
  BY <1>1, TimerFacts
<1>3. QED BY <1>2, BumpedAdvances

-----------------------------------------------------------------------------
(* Restarts, and the network.                                              *)

(* A state set from the statement of s shows what s showed, and has the    *)
(* same statement.                                                         *)
LEMMA RestoredSame ==
  ASSUME NEW n \in Node, NEW s \in NodeState, Consistent(s),
         NEW t \in NodeState, RestoredFrom(createStatement(n, s), t),
         createStatement(n, s) \in Statement, NEW P, NEW r,
         Current(r, s), VotesOK(P, n, s)
  PROVE  /\ Current(r, t) /\ VotesOK(P, n, t)
         /\ createStatement(n, t) = createStatement(n, s)
<1> DEFINE st == createStatement(n, s)
<1>1. /\ s.b \in BallotOrNull /\ s.p \in BallotOrNull /\ s.pp \in BallotOrNull
      /\ s.h \in BallotOrNull /\ s.c \in BallotOrNull
      /\ s.h # NullBallot => s.b # NullBallot /\ s.h.value = s.b.value
      /\ s.c # NullBallot => s.h # NullBallot /\ s.c.value = s.h.value
      /\ s.phase # "PREPARE" => s.c # NullBallot
  BY ConsistentFacts
<1>2. /\ BallotAt(s.h.counter, s.b.value) = s.h
      /\ BallotAt(s.c.counter, s.b.value) = s.c
  BY <1>1, BallotAtSame
<1>3. CASE s.phase = "PREPARE"
  <2>1. st = [type |-> "PREPARE", node |-> n, b |-> s.b, p |-> s.p,
              pp |-> s.pp, nC |-> s.c.counter, nH |-> s.h.counter]
    BY <1>3 DEF createStatement
  <2>2. /\ IsPrepare(st) /\ st.b = s.b /\ st.p = s.p /\ st.pp = s.pp
        /\ st.nC = s.c.counter /\ st.nH = s.h.counter
    BY <2>1, SMT DEF IsPrepare
  <2> HIDE DEF st
  <2>3. RestoredFrom(st, t)
    BY DEF st
  <2>4. SameCore(s, t)
    BY <1>2, <1>3, <2>2, <2>3 DEF RestoredFrom, SameCore
  <2>5. VotesOK(P, n, t)
    BY <2>4, VotesSame, GrewRefl
  <2>6. QED BY <2>4, <2>5, CurrentSame, RecordedSame
<1>4. CASE s.phase = "CONFIRM"
  <2>1. st = [type |-> "CONFIRM", node |-> n, b |-> s.b,
              nPrepared |-> s.p.counter, nCommit |-> s.c.counter,
              nH |-> s.h.counter]
    BY <1>4 DEF createStatement
  <2>2. /\ IsConfirm(st) /\ st.b = s.b /\ st.nPrepared = s.p.counter
        /\ st.nCommit = s.c.counter /\ st.nH = s.h.counter
    BY <2>1, SMT DEF IsConfirm
  <2> HIDE DEF st
  <2>3. RestoredFrom(st, t) /\ st \in Statement
    BY DEF st
  <2>4. /\ t.phase = "CONFIRM" /\ t.b = s.b /\ t.h = s.h /\ t.c = s.c
        /\ t.p = BallotAt(s.p.counter, s.b.value)
    BY <1>2, <2>2, <2>3 DEF RestoredFrom
  <2>5. s.p.counter \in Counter \ {0}
    BY <2>2, <2>3, StatementFields
  <2>6. t.p.counter = s.p.counter
    <3>1. s.p.counter # 0
      BY <2>5
    <3>2. t.p = makeBallot(s.p.counter, s.b.value)
      BY <2>4, <3>1 DEF BallotAt
    <3> QED
      BY <3>2, SMT DEF makeBallot
  <2>7. Current(r, t)
    BY <1>4, <2>4, <2>6, RangeSame DEF Current
  <2>8. VotesOK(P, n, t)
    BY <2>4 DEF VotesOK
  <2>9. createStatement(n, t) = st
    BY <2>1, <2>4, <2>6 DEF createStatement
  <2>10. QED BY <2>7, <2>8, <2>9 DEF st
<1>5. CASE s.phase = "EXTERNALIZE"
  <2>1. st = [type |-> "EXTERNALIZE", node |-> n, commit |-> s.c,
              nH |-> s.h.counter]
    BY <1>5 DEF createStatement
  <2>2. /\ IsExternalize(st) /\ st.commit = s.c /\ st.nH = s.h.counter
    BY <2>1, SMT DEF IsExternalize
  <2> HIDE DEF st
  <2>3. RestoredFrom(st, t)
    BY DEF st
  <2>4. makeBallot(s.h.counter, s.c.value) = s.h
    <3>1. s.h = [counter |-> s.h.counter, value |-> s.h.value]
      BY <1>1, BallotFields
    <3>2. s.c.value = s.h.value
      BY <1>1, <1>5
    <3>3. QED BY <3>1, <3>2 DEF makeBallot
  <2>5. t.phase = "EXTERNALIZE" /\ t.h = s.h /\ t.c = s.c
    BY <2>2, <2>3, <2>4 DEF RestoredFrom
  <2>6. Current(r, t)
    BY <1>5, <2>5, RangeSame DEF Current
  <2>7. VotesOK(P, n, t)
    BY <2>5 DEF VotesOK
  <2>8. createStatement(n, t) = st
    BY <2>1, <2>5 DEF createStatement
  <2>9. QED BY <2>6, <2>7, <2>8 DEF st
<1>6. QED BY <1>3, <1>4, <1>5 DEF NodeState

(* A restart shows nothing new: the state is set from the last statement   *)
(* emitted, which is that of the state before.                             *)
LEMMA RestartAdvances ==
  ASSUME NEW P \in [Node -> Pledges], NEW n \in Node, NEW s, StateOK(s),
         NodeInv(P, n, s), Alive(s), Idle(s), s.fullyValidated
  PROVE  Advances(P, n, setStateFromEnvelope(n, s))
<1> DEFINE t == setStateFromEnvelope(n, s)
           st == s.lastEnvelopeEmit
<1>1. s \in NodeState /\ Consistent(s) /\ Len(s.stack) = 0
  BY EmptySeq DEF StateOK, Consistent, Idle
<1>2. Pledged(P, n, s) /\ Recorded(n, s) /\ Pending(n, s)
  BY DEF NodeInv
<1>3. st = IF Said(s.M[n]) THEN s.M[n] ELSE NoStatement
  BY <1>1, <1>2, LastSaid
<1>4. Restorable(st)
  <2>1. Restorable(NoStatement)
    BY DEF NoStatement, Restorable, IsPrepare, IsConfirm, IsExternalize
  <2>2. st # NoStatement => Restorable(st)
    BY DEF StateOK, OwnRestorable
  <2>3. QED BY <2>1, <2>2
<1>5. Restored(s, t) /\ RestoredFrom(st, t)
  BY <1>1, <1>4, RestartFacts
<1>6. st \in Statement \cup {NoStatement} /\ HonestOf(P, n, st)
  BY <1>1, <1>2 DEF NodeState, Pledged, HonestState
<1> HIDE DEF t, st
<1>7. /\ t \in NodeState /\ t.sent = s.sent /\ t.ext = s.ext
      /\ Len(t.stack) = 0 /\ t.lastEnvelope = st /\ t.lastEnvelopeEmit = st
      /\ \A m \in Node :
           t.M[m] = IF st # NoStatement /\ m = st.node THEN st ELSE NoStatement
  BY <1>5, EmptySeq DEF Restored, st
<1>8. t.M[n] = st
  BY <1>6, <1>7 DEF HonestOf
<1>9. HonestState(P, n, t)
  <2>1. HonestKnown(P, t)
    BY <1>6, <1>7 DEF HonestKnown, HonestOf
  <2>2. 1 .. 0 = {}
    BY SMT
  <2>3. QED BY <1>2, <1>6, <1>7, <2>1, <2>2 DEF Pledged, HonestState
<1>10. Pending(n, t)
  <2>1. 1 .. 0 = {}
    BY SMT
  <2>2. st # NoStatement => Said(st)
    BY <1>3
  <2>3. QED BY <1>7, <1>8, <2>1, <2>2 DEF Pending, OldOrSame
<1>11. Current(P[n], t) /\ VotesOK(P, n, t) /\ Recorded(n, t)
  <2>1. CASE st = NoStatement
    <3>1. ~Said(s.M[n])
      BY <1>3, <2>1 DEF Said
    <3>2. s.phase = "PREPARE" /\ s.b = NullBallot /\ s.c = NullBallot
      BY <1>1, <1>2, <3>1, NothingSaid
    <3>3. Fresh(t)
      BY <1>5, <2>1 DEF RestoredFrom, Fresh
    <3>4. Current(P[n], t)
      <4>1. CommitRange(t) = {}
        BY <1>7, <3>3, RangeFacts DEF Fresh
      <4>2. QED BY <3>3, <4>1 DEF Fresh, Current
    <3>5. VotesOK(P, n, t)
      BY <1>2, <3>2, <3>3 DEF Pledged, VotesOK, Fresh
    <3>6. QED BY <1>8, <2>1, <3>3, <3>4, <3>5 DEF Recorded
  <2>2. CASE st # NoStatement
    <3>1. st = s.M[n] /\ st \in Statement
      BY <1>3, <1>6, <2>2
    <3>2. st = createStatement(n, s)
      BY <1>2, <2>2, <3>1 DEF Recorded
    <3>3. Current(P[n], s) /\ VotesOK(P, n, s)
      BY <1>2 DEF Pledged
    <3>4. /\ Current(P[n], t) /\ VotesOK(P, n, t)
          /\ createStatement(n, t) = createStatement(n, s)
      <4>1. /\ RestoredFrom(createStatement(n, s), t)
            /\ createStatement(n, s) \in Statement
        BY <1>5, <3>1, <3>2
      <4> HIDE DEF t, st
      <4> QED
        BY <1>1, <1>7, <3>3, <4>1, RestoredSame
    <3>5. QED BY <1>8, <2>2, <3>2, <3>4 DEF Recorded
  <2>3. QED BY <2>1, <2>2
<1>12. Pledged(P, n, t)
  BY <1>2, <1>7, <1>9, <1>11 DEF Pledged, Externalized
<1>13. SameCore(t, t)
  BY DEF SameCore
<1>14. Advances(P, n, t)
  BY <1>7, <1>9, <1>10, <1>11, <1>12, <1>13, StayAdvances
<1>15. QED BY <1>14 DEF t

-----------------------------------------------------------------------------
(* The invariant of the whole, and the steps that keep it.                 *)
VotingInv == SafeInv /\ \A n \in Node : NodeInv(pledged, n, node[n])

(* The first state satisfies the invariant, and no one has pledged.        *)
LEMMA VotingInit == Init => VotingInv /\ Voting!Init
<1> SUFFICES ASSUME Init PROVE VotingInv /\ Voting!Init
  OBVIOUS
<1> DEFINE none == [votedPrepare |-> {}, acceptedPrepare |-> {},
                    votedCommit |-> {}, acceptedCommit |-> {},
                    committed |-> {}]
           s == InitialState
<1>1. /\ none \in Pledges /\ none.votedPrepare = {} /\ none.acceptedPrepare = {}
      /\ none.votedCommit = {} /\ none.acceptedCommit = {} /\ none.committed = {}
  BY DEF Pledges
<1>2. pledged = [n \in Node |-> Pledge(none, s)] /\ \A n \in Node : node[n] = s
  BY DEF Init
<1> HIDE DEF none
<1>3. /\ s \in NodeState /\ Fresh(s) /\ s.M = [m \in Node |-> NoStatement]
      /\ Len(s.stack) = 0 /\ s.sent = {} /\ s.ext = {}
      /\ s.lastEnvelope = NoStatement /\ s.lastEnvelopeEmit = NoStatement
  BY InitialFacts, EmptySeq DEF Fresh
<1> HIDE DEF s
<1>4. CommitRange(s) = {}
  BY <1>3, RangeFacts DEF Fresh
<1>5. Current(none, s)
  BY <1>1, <1>3, <1>4 DEF Fresh, Current
<1>6. Pledge(none, s) = none
  BY <1>1, <1>3, <1>5, PledgeSame
<1>7. \A n \in Node : pledged[n] = none
  BY <1>2, <1>6
<1>8. ASSUME NEW n \in Node PROVE NodeInv(pledged, n, node[n])
  <2>1. 1 .. 0 = {}
    BY SMT
  <2>2. HonestState(pledged, n, s)
    BY <1>3, <2>1 DEF HonestState, HonestKnown, HonestOf
  <2>3. VotesOK(pledged, n, s)
    BY <1>1, <1>3, <1>7 DEF VotesOK, Fresh
  <2>4. Pending(n, s) /\ Recorded(n, s)
    BY <1>3, <2>1 DEF Pending, Said, Recorded
  <2>5. Externalized(pledged[n], s)
    BY <1>3 DEF Externalized
  <2>6. QED BY <1>2, <1>5, <1>7, <2>2, <2>3, <2>4, <2>5 DEF NodeInv, Pledged
<1>9. Voting!Init
  BY <1>1, <1>7 DEF Voting!Init
<1>10. QED BY <1>8, <1>9, SafeInit DEF VotingInv

(* The invariant of a node while another one pledges.                      *)
LEMMA OthersInv ==
  ASSUME NEW P, NEW Q, Grew(P, Q), NEW m \in Node, Q[m] = P[m],
         NEW s \in NodeState, NodeInv(P, m, s)
  PROVE  NodeInv(Q, m, s)
<1>1. HonestState(Q, m, s)
  BY HonestStateGrew DEF NodeInv, Pledged
<1>2. VotesOK(Q, m, s)
  <2>1. SameCore(s, s)
    BY DEF SameCore
  <2>2. QED BY <2>1, VotesSame DEF NodeInv, Pledged
<1>3. QED BY <1>1, <1>2 DEF NodeInv, Pledged

(* A step of n that advances keeps the invariant and is one of federated   *)
(* voting.                                                                 *)
LEMMA VotingBecome ==
  ASSUME VotingInv, NEW n \in Node, NEW t, StateOK(t), Become(n, t),
         restarts' \in Nat, Advances(pledged, n, t)
  PROVE  VotingInv' /\ (Voting!Next \/ UNCHANGED Voting!vars)
<1> DEFINE R == Pledge(pledged[n], t)
<1>1. /\ pledged \in [Node -> Pledges] /\ pledged[n] \in Pledges
      /\ node \in [Node -> NodeState] /\ t \in NodeState
  BY DEF VotingInv, SafeInv, TypeOK, StateOK
<1>2. R \in Pledges /\ GrewBy(pledged[n], R)
  BY <1>1, PledgeFields
<1>3. pledged' = [pledged EXCEPT ![n] = R]
  BY DEF Become
<1>4. VotingStep(pledged, n, R)
  BY DEF Advances
<1>5. SafeInv'
  BY SafeBecome DEF VotingInv
<1> HIDE DEF R
<1>6. Voting!Next \/ UNCHANGED Voting!vars
  BY <1>1, <1>2, <1>3, <1>4, VotingBridge
<1>7. /\ pledged' \in [Node -> Pledges] /\ Grew(pledged, pledged')
      /\ pledged'[n] = R
  BY <1>1, <1>2, <1>3, GrewOne
<1>8. NodeInv(pledged', n, t)
  BY <1>7 DEF Advances, R
<1>9. \A m \in Node : /\ node'[m] = IF m = n THEN t ELSE node[m]
                      /\ m # n => pledged'[m] = pledged[m]
  BY <1>1, <1>3 DEF Become
<1>10. ASSUME NEW m \in Node, m # n PROVE NodeInv(pledged', m, node[m])
  <2>1. NodeInv(pledged, m, node[m]) /\ node[m] \in NodeState
    BY <1>1 DEF VotingInv
  <2>2. QED BY <1>7, <1>9, <1>10, <2>1, OthersInv
<1>11. \A m \in Node : NodeInv(pledged', m, node'[m])
  BY <1>8, <1>9, <1>10
<1>12. QED BY <1>5, <1>6, <1>11 DEF VotingInv

(* A node that has not fully validated what it heard does not restart.     *)
(* What it decided since it stopped broadcasting is in no statement of its *)
(* own, and the restart would forget it.                                   *)
MutedStays == \A n \in Node : Restart(n) => node[n].fullyValidated

(* Every step keeps the invariant and is one of federated voting, or none. *)
LEMMA VotingNext ==
  ASSUME VotingInv, [Next]_vars, MutedStays \/ UNCHANGED vars
  PROVE  VotingInv' /\ [Voting!Next]_(Voting!vars)
<1>0. /\ restarts \in Nat /\ pledged \in [Node -> Pledges]
      /\ \A n \in Node : /\ node[n] \in NodeState /\ StateOK(node[n])
                         /\ NodeInv(pledged, n, node[n])
  BY DEF VotingInv, SafeInv, TypeOK
<1>1. CASE UNCHANGED vars
  <2>1. node' = node /\ pledged' = pledged
    BY <1>1 DEF vars
  <2>2. SafeInv'
    BY SafeNext DEF VotingInv
  <2>3. VotingInv'
    BY <1>0, <2>1, <2>2 DEF VotingInv
  <2>4. QED BY <2>1, <2>3 DEF Voting!vars
<1>2. ASSUME NEW n \in Node, ReceiveEnvelope(n)
      PROVE  VotingInv' /\ (Voting!Next \/ UNCHANGED Voting!vars)
  <2>1. PICK st \in Sent : /\ AllIdle /\ Alive(node[n]) /\ st.node # n
                           /\ Acceptable(n, node[n], st, FALSE)
                           /\ Become(n, processEnvelope(n, node[n], st))
                           /\ UNCHANGED restarts
    BY <1>2 DEF ReceiveEnvelope
  <2>2. PICK m \in Node : st \in node[m].sent
    BY <2>1 DEF Sent
  <2>3. st \in Statement
    BY <1>0, <2>2 DEF NodeState
  <2>4. HonestOf(pledged, st.node, st)
    <3>1. HonestOf(pledged, m, st)
      BY <1>0, <2>2 DEF NodeInv, Pledged, HonestState
    <3>2. QED BY <3>1 DEF HonestOf
  <2>5. StateOK(processEnvelope(n, node[n], st))
    BY <1>0, <2>1, <2>3, ProcessOK
  <2>6. Idle(node[n])
    BY <2>1 DEF AllIdle
  <2>7. Advances(pledged, n, processEnvelope(n, node[n], st))
    BY <1>0, <2>1, <2>3, <2>4, <2>6, ProcessAdvances
  <2>8. QED BY <1>0, <2>1, <2>5, <2>7, VotingBecome
<1>3. ASSUME NEW n \in Node, NominationCandidate(n)
      PROVE  VotingInv' /\ (Voting!Next \/ UNCHANGED Voting!vars)
  <2>1. PICK v \in Candidates[n] :
          /\ AllIdle /\ Alive(node[n])
          /\ Become(n, nominationCandidate(n, node[n], v))
          /\ UNCHANGED restarts
    BY <1>3 DEF NominationCandidate
  <2>2. v \in Value /\ Idle(node[n])
    BY <2>1, StepsAssumption DEF AllIdle
  <2>3. StateOK(nominationCandidate(n, node[n], v))
    BY <1>0, <2>1, <2>2, NominationOK
  <2>4. Advances(pledged, n, nominationCandidate(n, node[n], v))
    BY <1>0, <2>1, <2>2, NominationAdvances
  <2>5. QED BY <1>0, <2>1, <2>3, <2>4, VotingBecome
<1>4. ASSUME NEW n \in Node, TimerExpired(n)
      PROVE  VotingInv' /\ (Voting!Next \/ UNCHANGED Voting!vars)
  <2>1. /\ Alive(node[n]) /\ Idle(node[n])
        /\ Become(n, ballotProtocolTimerExpired(n, node[n]))
        /\ UNCHANGED restarts
    BY <1>4 DEF TimerExpired, AllIdle
  <2>2. StateOK(ballotProtocolTimerExpired(n, node[n]))
    BY <1>0, <2>1, TimerOK
  <2>3. Advances(pledged, n, ballotProtocolTimerExpired(n, node[n]))
    BY <1>0, <2>1, TimerAdvances
  <2>4. QED BY <1>0, <2>1, <2>2, <2>3, VotingBecome
<1>5. ASSUME NEW n \in Node, Restart(n), MutedStays
      PROVE  VotingInv' /\ (Voting!Next \/ UNCHANGED Voting!vars)
  <2>1. /\ Alive(node[n]) /\ Idle(node[n])
        /\ Become(n, setStateFromEnvelope(n, node[n]))
        /\ restarts' = restarts + 1
    BY <1>5 DEF Restart, AllIdle
  <2>2. StateOK(setStateFromEnvelope(n, node[n]))
    BY <1>0, RestartOK
  <2>3. node[n].fullyValidated
    BY <1>5 DEF MutedStays
  <2>4. Advances(pledged, n, setStateFromEnvelope(n, node[n]))
    BY <1>0, <2>1, <2>3, RestartAdvances
  <2>5. restarts' \in Nat
    BY <1>0, <2>1, SMT
  <2>6. QED BY <2>1, <2>2, <2>4, <2>5, VotingBecome
<1>6. ASSUME NEW n \in Node, AdvanceSlot(n)
      PROVE  VotingInv' /\ (Voting!Next \/ UNCHANGED Voting!vars)
  <2>1. /\ Alive(node[n]) /\ node[n].stack # <<>>
        /\ Become(n, Step(n, node[n]))
        /\ UNCHANGED restarts
    BY <1>6 DEF AdvanceSlot, Idle
  <2>2. StateOK(Step(n, node[n]))
    BY <1>0, <2>1, StepOK
  <2>3. Advances(pledged, n, Step(n, node[n]))
    BY <1>0, <2>1, StepAdvances
  <2>4. QED BY <1>0, <2>1, <2>2, <2>3, VotingBecome
<1>7. QED BY <1>1, <1>2, <1>3, <1>4, <1>5, <1>6 DEF Next

(* No behaviour restarts such a node.                                      *)
NoMutedRestart == [][MutedStays]_vars

(* The steps of the ballot protocol implement federated voting: whatever   *)
(* the nodes, the slices, the values and the schedule, every attempt of    *)
(* every advanceSlot, every bump and every restart votes for, accepts or   *)
(* confirms only what FederatedVoting allows, or changes no pledge.        *)
THEOREM Refinement == Spec /\ NoMutedRestart => ImplementsVoting
<1>1. Init => VotingInv /\ Voting!Init
  BY VotingInit
<1>2. VotingInv /\ [Next]_vars /\ [MutedStays]_vars
        => VotingInv' /\ [Voting!Next]_(Voting!vars)
  BY VotingNext
<1>3. QED BY <1>1, <1>2, PTL
          DEF Spec, NoMutedRestart, ImplementsVoting, Voting!Spec

(* The invariant behind it: what a node has sent and will send is backed   *)
(* by what it pledged, what it emitted last is what a restart needs, and   *)
(* its votes are tied to its ballots.                                      *)
THEOREM VotingInvariance == Spec /\ NoMutedRestart => []VotingInv
<1>1. Init => VotingInv
  BY VotingInit
<1>2. VotingInv /\ [Next]_vars /\ [MutedStays]_vars => VotingInv'
  BY VotingNext
<1>3. QED BY <1>1, <1>2, PTL DEF Spec, NoMutedRestart

(* When no handler is running, what a node last broadcast says where it    *)
(* stands.                                                                 *)
PublishedAtRest ==
  \A n \in Node :
    /\ Alive(node[n]) /\ Idle(node[n])
    /\ node[n].fullyValidated /\ node[n].b # NullBallot
    => node[n].lastEnvelopeEmit = createStatement(n, node[n])

(* Whatever nested advanceSlot changed the state last, and whatever        *)
(* restarts came in between, the statement that sendLatestEnvelope let out *)
(* at the end of the outermost one is the newest: the peers, and the       *)
(* node's own next life, see where it stands.                              *)
THEOREM Publishes == Spec /\ NoMutedRestart => []PublishedAtRest
<1>1. VotingInv => PublishedAtRest
  <2> SUFFICES ASSUME VotingInv, NEW n \in Node,
                      Alive(node[n]), Idle(node[n]),
                      node[n].fullyValidated, node[n].b # NullBallot
               PROVE  node[n].lastEnvelopeEmit = createStatement(n, node[n])
    BY DEF PublishedAtRest
  <2>1. Recorded(n, node[n]) /\ Pending(n, node[n])
    BY DEF VotingInv, NodeInv
  <2>2. Len(node[n].stack) = 0
    BY EmptySeq DEF Idle
  <2>3. 1 .. Len(node[n].stack) = {}
    BY <2>2, SMT
  <2>4. node[n].M[n] = createStatement(n, node[n])
    BY <2>1 DEF Recorded, Fresh
  <2>5. Said(node[n].M[n])
    <3>1. node[n].M[n] # NoStatement
      BY <2>1 DEF Recorded, Fresh
    <3>2. node[n] \in NodeState
      BY DEF VotingInv, SafeInv, TypeOK
    <3>3. ~(IsPrepare(node[n].M[n]) /\ node[n].M[n].b = NullBallot)
      <4>1. CASE node[n].phase = "PREPARE"
        BY <2>4, <4>1, SMT DEF createStatement
      <4>2. CASE node[n].phase = "CONFIRM"
        <5>1. node[n].M[n].type = "CONFIRM"
          BY <2>4, <4>2, SMT DEF createStatement
        <5>2. QED BY <5>1 DEF IsPrepare
      <4>3. CASE node[n].phase = "EXTERNALIZE"
        <5>1. node[n].M[n].type = "EXTERNALIZE"
          BY <2>4, <4>3, SMT DEF createStatement
        <5>2. QED BY <5>1 DEF IsPrepare
      <4>4. QED BY <3>2, <4>1, <4>2, <4>3 DEF NodeState
    <3>4. QED BY <3>1, <3>3 DEF Said
  <2>6. node[n].lastEnvelope = node[n].M[n]
    BY <2>1, <2>3, <2>5 DEF Pending
  <2>7. node[n].lastEnvelopeEmit = node[n].lastEnvelope
    BY <2>1, <2>2 DEF Pending
  <2>8. QED BY <2>4, <2>6, <2>7
<1>2. QED BY <1>1, VotingInvariance, PTL

-----------------------------------------------------------------------------
(* Agreement.                                                              *)

(* Any two quorums share a node.                                           *)
Intersecting ==
  \A Q1, Q2 \in SUBSET Node :
    Voting!Quorum(Q1) /\ Voting!Quorum(Q2) => Q1 \cap Q2 # {}

V == INSTANCE FederatedVotingProofs WITH
  Good <- Node,
  votedPrepare <- [n \in Node |-> pledged[n].votedPrepare],
  acceptedPrepare <- [n \in Node |-> pledged[n].acceptedPrepare],
  votedCommit <- [n \in Node |-> pledged[n].votedCommit],
  acceptedCommit <- [n \in Node |-> pledged[n].acceptedCommit],
  committed <- [n \in Node |-> pledged[n].committed]

(* The operators on ballots are the same in both instances.                *)
LEMMA SameOps ==
  /\ V!Counter = Voting!Counter
  /\ V!Ballot = Voting!Ballot
  /\ \A k, v : V!makeBallot(k, v) = Voting!makeBallot(k, v)
  /\ \A x, y : V!Less(x, y) <=> Voting!Less(x, y)
  /\ \A x, y : V!areBallotsCompatible(x, y) <=> Voting!areBallotsCompatible(x, y)
  /\ \A x, y : V!areBallotsLessAndCompatible(x, y) <=> Voting!areBallotsLessAndCompatible(x, y)
  /\ \A x, y : V!areBallotsLessAndIncompatible(x, y) <=> Voting!areBallotsLessAndIncompatible(x, y)
BY DEF V!Counter, Voting!Counter, V!Ballot, Voting!Ballot, V!makeBallot, Voting!makeBallot, V!Less, Voting!Less, V!areBallotsCompatible, Voting!areBallotsCompatible, V!areBallotsLessAndCompatible, Voting!areBallotsLessAndCompatible, V!areBallotsLessAndIncompatible, Voting!areBallotsLessAndIncompatible, V!LessEq, Voting!LessEq

(* So is who supports what,                                                *)
LEMMA SameSupport ==
  ASSUME NEW b
  PROVE  /\ V!VotesPrepare(b) = Voting!VotesPrepare(b)
         /\ V!AcceptsPrepare(b) = Voting!AcceptsPrepare(b)
         /\ V!ExternalizesPrepare(b) = Voting!ExternalizesPrepare(b)
         /\ V!VotesCommit(b) = Voting!VotesCommit(b)
         /\ V!AcceptsCommit(b) = Voting!AcceptsCommit(b)
         /\ V!ExternalizesCommit(b) = Voting!ExternalizesCommit(b)
<1>1. V!VotesPrepare(b) = Voting!VotesPrepare(b)
  BY SameOps DEF V!VotesPrepare, Voting!VotesPrepare
<1>2. V!AcceptsPrepare(b) = Voting!AcceptsPrepare(b)
  BY SameOps DEF V!AcceptsPrepare, Voting!AcceptsPrepare
<1>3. V!ExternalizesPrepare(b) = Voting!ExternalizesPrepare(b)
  BY SameOps DEF V!ExternalizesPrepare, Voting!ExternalizesPrepare
<1>4. V!VotesCommit(b) = Voting!VotesCommit(b)
  BY SameOps DEF V!VotesCommit, Voting!VotesCommit
<1>5. V!AcceptsCommit(b) = Voting!AcceptsCommit(b)
  BY SameOps DEF V!AcceptsCommit, Voting!AcceptsCommit
<1>6. V!ExternalizesCommit(b) = Voting!ExternalizesCommit(b)
  BY SameOps DEF V!ExternalizesCommit, Voting!ExternalizesCommit
<1>7. QED BY <1>1, <1>2, <1>3, <1>4, <1>5, <1>6

(* what convinces a node,                                                  *)
LEMMA SameQuorums ==
  /\ \A n, X, Y : V!Convinced(n, X, Y) <=> Voting!Convinced(n, X, Y)
  /\ \A n, X, Y, Z : V!Accept(n, X, Y, Z) <=> Voting!Accept(n, X, Y, Z)
BY DEF V!Convinced, Voting!Convinced, V!Accept, Voting!Accept, V!Blocked,
       Voting!Blocked

(* and what a node may vote for, accept and confirm.                       *)
LEMMA SameMay ==
  ASSUME NEW n
  PROVE  /\ V!AcceptablePrepare(n) = Voting!AcceptablePrepare(n)
         /\ V!ConfirmablePrepare(n) = Voting!ConfirmablePrepare(n)
         /\ V!AcceptableCommit(n) = Voting!AcceptableCommit(n)
         /\ V!ConfirmableCommit(n) = Voting!ConfirmableCommit(n)
         /\ V!VotablePrepare(n) = Voting!VotablePrepare(n)
         /\ V!VotableCommit(n) = Voting!VotableCommit(n)
<1>1. V!AcceptablePrepare(n) = Voting!AcceptablePrepare(n)
  BY SameOps, SameSupport, SameQuorums DEF V!AcceptablePrepare, Voting!AcceptablePrepare
<1>2. V!ConfirmablePrepare(n) = Voting!ConfirmablePrepare(n)
  BY SameOps, SameSupport, SameQuorums DEF V!ConfirmablePrepare, Voting!ConfirmablePrepare
<1>3. V!AcceptableCommit(n) = Voting!AcceptableCommit(n)
  BY SameOps, SameSupport, SameQuorums DEF V!AcceptableCommit, Voting!AcceptableCommit
<1>4. V!ConfirmableCommit(n) = Voting!ConfirmableCommit(n)
  BY SameOps, SameSupport, SameQuorums DEF V!ConfirmableCommit, Voting!ConfirmableCommit
<1>5. V!VotablePrepare(n) = Voting!VotablePrepare(n)
  BY <1>2, SameOps DEF V!VotablePrepare, Voting!VotablePrepare
<1>6. V!VotableCommit(n) = Voting!VotableCommit(n)
  BY <1>2, SameOps DEF V!VotableCommit, Voting!VotableCommit
<1>7. QED BY <1>1, <1>2, <1>3, <1>4, <1>5, <1>6

(* The steps of one are steps of the other,                                *)
LEMMA SameNext == Voting!Next => V!Next
<1>1. ASSUME NEW n, NEW b, Voting!VotePrepare(n, b) PROVE V!VotePrepare(n, b)
  BY <1>1, SameMay, SameOps DEF V!VotePrepare, Voting!VotePrepare
<1>2. ASSUME NEW n, NEW b, Voting!AcceptPrepare(n, b) PROVE V!AcceptPrepare(n, b)
  BY <1>2, SameMay, SameOps DEF V!AcceptPrepare, Voting!AcceptPrepare
<1>3. ASSUME NEW n, NEW C, NEW B, Voting!ConfirmPrepare(n, C, B) PROVE V!ConfirmPrepare(n, C, B)
  <2>1. /\ C \subseteq V!VotableCommit(n) /\ B \subseteq V!VotablePrepare(n)
        /\ \A x, y \in C \cup B : V!areBallotsCompatible(x, y)
    BY <1>3, SameMay, SameOps, SMT DEF Voting!ConfirmPrepare
  <2> QED
    BY <1>3, <2>1 DEF V!ConfirmPrepare, Voting!ConfirmPrepare
<1>4. ASSUME NEW n, NEW A, NEW P, Voting!AcceptCommit(n, A, P) PROVE V!AcceptCommit(n, A, P)
  BY <1>4, SameMay, SameOps, ZenonT(40) DEF V!AcceptCommit, Voting!AcceptCommit
<1>5. ASSUME NEW n, NEW A, Voting!ConfirmCommit(n, A) PROVE V!ConfirmCommit(n, A)
  BY <1>5, SameMay, SameOps DEF V!ConfirmCommit, Voting!ConfirmCommit
<1>6. V!Intervals = Voting!Intervals /\ V!AtMostOne = Voting!AtMostOne
  BY SameOps, SMT DEF V!Intervals, Voting!Intervals, V!Interval, Voting!Interval,
                 V!AtMostOne, Voting!AtMostOne
<1>7. QED BY <1>1, <1>2, <1>3, <1>4, <1>5, <1>6, SameOps DEF V!Next, Voting!Next

(* and so the behaviours of one are those of the other.                    *)
LEMMA SameVoting == Voting!Spec => V!Spec
<1>1. Voting!Init => V!Init
  BY DEF V!Init, Voting!Init
<1>2. V!vars = Voting!vars
  BY DEF V!vars, Voting!vars
<1>3. [Voting!Next]_(Voting!vars) => [V!Next]_(V!vars)
  BY <1>2, SameNext DEF V!vars, Voting!vars
<1>4. QED BY <1>1, <1>3, PTL DEF V!Spec, Voting!Spec

(* No two nodes externalize different values, whatever the nodes, the      *)
(* values, the messages delivered and the schedule, if any two quorums     *)
(* intersect and no node restarts while it has not fully validated what it *)
(* heard.                                                                  *)
THEOREM Safe ==
  ASSUME Intersecting
  PROVE  Spec /\ NoMutedRestart => []Agreement
<1> DEFINE QI == \A Q1, Q2 \in SUBSET Node :
                   V!Quorum(Q1) /\ V!Quorum(Q2) => Q1 \cap Q2 \cap Node # {}
           GA == Node \subseteq Node /\ QuorumSlices \in [Node -> SUBSET SUBSET Node]
           GS == \A n \in Node : \E S \in QuorumSlices[n] : S \subseteq Node
<1>1. QI
  <2>1. \A Q : V!Quorum(Q) => Voting!Quorum(Q)
    BY DEF V!Quorum, Voting!Quorum
  <2>2. \A Q1, Q2 \in SUBSET Node : Q1 \cap Q2 \cap Node = Q1 \cap Q2
    OBVIOUS
  <2>3. QED BY <2>1, <2>2, SMT DEF Intersecting
<1>2. GA
  BY SliceAssumption
<1>3. GS
  BY SliceAssumption
<1>4. V!Spec => []V!Agreement
  BY <1>1, <1>2, <1>3, V!Safety, ValueAssumption, CounterAssumption
<1>5. VotingInv /\ V!Agreement => Agreement
  <2> SUFFICES ASSUME VotingInv, V!Agreement, NEW m \in Node, NEW n \in Node,
                      NEW v \in node[m].ext, NEW w \in node[n].ext
               PROVE  v = w
    BY DEF Agreement
  <2>1. PICK x \in pledged[m].committed : x.value = v
    BY DEF VotingInv, NodeInv, Pledged, Externalized
  <2>2. PICK y \in pledged[n].committed : y.value = w
    BY DEF VotingInv, NodeInv, Pledged, Externalized
  <2>3. QED BY <2>1, <2>2, SMT DEF V!Agreement, V!areBallotsCompatible
<1>6. QED BY <1>4, <1>5, Refinement, VotingInvariance, SameVoting, PTL
          DEF ImplementsVoting
=============================================================================
