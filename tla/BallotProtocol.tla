--------------------------- MODULE BallotProtocol ---------------------------
(***************************************************************************)
(* The ballot protocol of one slot, as functions on the state of a node.   *)
(*                                                                         *)
(* A set* function that changed the state calls emitCurrentStateStatement, *)
(* which feeds the new statement back into processEnvelope and so into a   *)
(* nested advanceSlot.  The nesting is kept as an explicit call stack: one *)
(* frame for each advanceSlot in progress, holding its hint, the next      *)
(* attempt to make, and what remains to be done when it returns.  Step     *)
(* runs the innermost frame up to its next attempt.  A handler of the node *)
(* has returned when the stack is empty.                                   *)
(***************************************************************************)
EXTENDS SCPBallots, Sequences

CONSTANTS
  QuorumSlices,  \* QuorumSlices[n]: the sets S with isQuorumSlice(qset of n, S)
  VBlocking,     \* VBlocking[n]: the sets S with isVBlocking(qset of n, S)
  Validity       \* Validity[n][v]: the driver's validateValue at n

MAX_ADVANCE_SLOT_RECURSION == 50

ASSUME SliceAssumption ==
  /\ QuorumSlices \in [Node -> SUBSET SUBSET Node]
  /\ \A n \in Node : \A S \in QuorumSlices[n], T \in SUBSET Node :
       S \subseteq T => T \in QuorumSlices[n]
  /\ \A n \in Node : QuorumSlices[n] # {} /\ {} \notin QuorumSlices[n]
  /\ VBlocking = [n \in Node |-> {S \in SUBSET Node :
                    \A T \in QuorumSlices[n] : S \cap T # {}}]
ASSUME ValidityAssumption ==
  Validity \in [Node -> [Value -> {"invalid", "maybe", "full"}]]

-----------------------------------------------------------------------------
(* State of a node.  z is mValueOverride, M is mLatestEnvelopes, cand is   *)
(* the latest composite candidate of the nomination protocol (0: none).    *)
(* sent is what the node has broadcast; ext is the set of values it handed *)
(* to valueExternalized; bad names the assertion or exception that stopped *)
(* it.                                                                     *)

Frame ==
  [hint : Statement, pc : {"acceptPrepared", "confirmPrepared",
   "acceptCommit", "confirmCommit", "bump"}, work : BOOLEAN,
   self : BOOLEAN, canEmit : BOOLEAN, check : BOOLEAN]

(* The assertions and exceptions a node may stop with.                     *)
Failures ==
  {"checkInvariants", "bumpAfterCommit", "bumpNotMonotonic",
   "smallerBallot", "nullP", "pNotCompatibleWithC", "cClearedLate",
   "cAlreadySet", "movedToBadState", "maxTransitions"}

(* Those that rest on the node's own state alone: of checkInvariants and   *)
(* bumpToBallot, and that c is set once.                                   *)
LocalAssertions ==
  {"checkInvariants", "bumpAfterCommit", "bumpNotMonotonic", "cAlreadySet"}

NodeState ==
  [b : BallotOrNull, p : BallotOrNull, pp : BallotOrNull, h : BallotOrNull,
   c : BallotOrNull, phase : {"PREPARE", "CONFIRM", "EXTERNALIZE"},
   z : Value \cup {0}, M : [Node -> Statement \cup {NoStatement}],
   heard : BOOLEAN, timer : BOOLEAN,
   lastEnvelope : Statement \cup {NoStatement},
   lastEnvelopeEmit : Statement \cup {NoStatement}, fullyValidated : BOOLEAN,
   cand : Value \cup {0}, sent : SUBSET Statement, ext : SUBSET Value,
   stack : Seq(Frame), bad : Failures \cup {""}]

InitialState ==
  [b |-> NullBallot, p |-> NullBallot, pp |-> NullBallot, h |-> NullBallot,
   c |-> NullBallot, phase |-> "PREPARE", z |-> 0,
   M |-> [m \in Node |-> NoStatement], heard |-> FALSE, timer |-> FALSE,
   lastEnvelope |-> NoStatement, lastEnvelopeEmit |-> NoStatement,
   fullyValidated |-> TRUE, cand |-> 0, sent |-> {}, ext |-> {},
   stack |-> << >>, bad |-> ""]

Idle(s) == s.stack = << >>
Alive(s) == s.bad = ""

(* dbgAssert and throw: the first failure is kept.                         *)
Fail(s, why) == [s EXCEPT !.bad = IF @ = "" THEN why ELSE @]
dbgAssert(s, cond, why) == IF cond THEN s ELSE Fail(s, why)

-----------------------------------------------------------------------------
(* Federated voting over the latest statements.                            *)

Known(s) == {m \in Node : s.M[m] # NoStatement}

(* Mutant: the local node's own slices are not asked for.                  *)
isQuorumOfOthers(n, s, S) ==
  \E Q \in SUBSET S : \A m \in Q : IsExternalize(s.M[m]) \/ Q \in QuorumSlices[m]

(* LocalNode::isQuorum over the statements of the nodes in S: some subset  *)
(* of S contains a slice of every member and one of the local node.  An    *)
(* EXTERNALIZE statement stands for the quorum set holding only its author.*)
isQuorum(n, s, S) ==
  \E Q \in QuorumSlices[n] :
    /\ Q \subseteq S
    /\ \A m \in Q : IsExternalize(s.M[m]) \/ Q \in QuorumSlices[m]

federatedAccept(n, s, voted, accepted) ==
  accepted \in VBlocking[n] \/ isQuorum(n, s, voted \cup accepted)

federatedRatify(n, s, voted) == isQuorum(n, s, voted)

acceptedPrepared(s, ballot) ==
  {m \in Known(s) : hasPreparedBallot(ballot, s.M[m])}

-----------------------------------------------------------------------------
(* The current ballot.                                                     *)

checkInvariants(s) ==
  /\ s.b # NullBallot => s.b.counter # 0
  /\ s.p # NullBallot /\ s.pp # NullBallot =>
       areBallotsLessAndIncompatible(s.pp, s.p)
  /\ s.h # NullBallot =>
       s.b # NullBallot /\ areBallotsLessAndCompatible(s.h, s.b)
  /\ s.c # NullBallot => /\ s.h # NullBallot
                         /\ areBallotsLessAndCompatible(s.c, s.h)
  /\ s.phase = "CONFIRM" => s.c # NullBallot
  /\ s.phase = "EXTERNALIZE" => s.c # NullBallot /\ s.h # NullBallot

bumpToBallot(s, ballot, check) ==
  LET s1 == dbgAssert(s, s.phase # "EXTERNALIZE", "bumpAfterCommit")
      s2 == dbgAssert(s1, check => LessEq(s.b, ballot), "bumpNotMonotonic")
      lost == s.h # NullBallot /\ ~areBallotsCompatible(ballot, s.h)
  IN  [s2 EXCEPT !.b = ballot,
                 !.h = IF lost THEN NullBallot ELSE @,
                 !.c = IF lost THEN NullBallot ELSE @,
                 !.heard = @ /\ s.b.counter = ballot.counter]

updateCurrentIfNeeded(s, h) ==
  IF s.b = NullBallot \/ Less(s.b, h) THEN bumpToBallot(s, h, TRUE) ELSE s

(* Mutant: the node leaves the value it voted to commit.                   *)
updateCurrentAny(s, ballot) ==
  IF s.phase = "EXTERNALIZE" \/ ~Less(s.b, ballot)
  THEN <<s, FALSE>> ELSE <<bumpToBallot(s, ballot, TRUE), TRUE>>

(* <<state, updated>>                                                      *)
updateCurrentValue(s, ballot) ==
  IF s.phase = "EXTERNALIZE" THEN <<s, FALSE>>
  ELSE IF s.b = NullBallot THEN <<bumpToBallot(s, ballot, TRUE), TRUE>>
  ELSE LET s1 == dbgAssert(s, LessEq(s.b, ballot), "smallerBallot")
       IN  IF \/ s.c # NullBallot /\ ~areBallotsCompatible(s.c, ballot)
              \/ ~Less(s.b, ballot)
           THEN <<s1, FALSE>>
           ELSE <<bumpToBallot(s1, ballot, TRUE), TRUE>>

(* Mutant: nodes at higher counters are not counted.                       *)
checkHeardExactly(n, s) ==
  LET atCounter == {m \in Known(s) : IsPrepare(s.M[m]) =>
                                       s.b.counter = s.M[m].b.counter}
  IN  IF s.b = NullBallot THEN s
      ELSE IF isQuorum(n, s, atCounter)
      THEN [s EXCEPT !.heard = TRUE,
                     !.timer = s.phase # "EXTERNALIZE" /\ (@ \/ ~s.heard)]
      ELSE [s EXCEPT !.heard = FALSE, !.timer = FALSE]

(* Arms the timer when the node starts to hear from a quorum at its own    *)
(* counter or above.                                                       *)
checkHeardFromQuorum(n, s) ==
  LET atCounter == {m \in Known(s) : IsPrepare(s.M[m]) =>
                                       s.b.counter <= s.M[m].b.counter}
  IN  IF s.b = NullBallot THEN s
      ELSE IF isQuorum(n, s, atCounter)
      THEN [s EXCEPT !.heard = TRUE,
                     !.timer = s.phase # "EXTERNALIZE" /\ (@ \/ ~s.heard)]
      ELSE [s EXCEPT !.heard = FALSE, !.timer = FALSE]

-----------------------------------------------------------------------------
(* Own statements.                                                         *)

createStatement(n, s) ==
  CASE s.phase = "PREPARE" ->
         [type |-> "PREPARE", node |-> n, b |-> s.b, p |-> s.p, pp |-> s.pp,
          nC |-> s.c.counter, nH |-> s.h.counter]
    [] s.phase = "CONFIRM" ->
         [type |-> "CONFIRM", node |-> n, b |-> s.b,
          nPrepared |-> s.p.counter, nCommit |-> s.c.counter,
          nH |-> s.h.counter]
    [] s.phase = "EXTERNALIZE" ->
         [type |-> "EXTERNALIZE", node |-> n, commit |-> s.c,
          nH |-> s.h.counter]

sendLatestEnvelope(s) ==
  IF /\ Idle(s) /\ s.lastEnvelope # NoStatement /\ s.fullyValidated
     /\ s.lastEnvelope # s.lastEnvelopeEmit
  THEN [s EXCEPT !.lastEnvelopeEmit = s.lastEnvelope,
                 !.sent = @ \cup {s.lastEnvelope}]
  ELSE s

recordEnvelope(s, st) == [s EXCEPT !.M[st.node] = st]

(* processEnvelope's checks: the statement is sane, newer than what is     *)
(* known of its author, and none of its values is invalid.                 *)
validateValues(n, st) ==
  LET levels == {Validity[n][v] : v \in getStatementValues(st)}
  IN  IF levels = {} \/ "invalid" \in levels THEN "invalid"
      ELSE IF "maybe" \in levels THEN "maybe" ELSE "full"

Acceptable(n, s, st, self) ==
  /\ isStatementSane(st, self)
  /\ s.M[st.node] # NoStatement => isNewerStatement(s.M[st.node], st)
  /\ validateValues(n, st) # "invalid"
  /\ s.phase = "EXTERNALIZE" => s.c.value = getWorkingBallot(st).value

(* Mutant: the last statement decides whether the slot is fully validated. *)
recordAndForget(n, s, st, self, canEmit, check) ==
  LET frame == [hint |-> st, pc |-> "acceptPrepared", work |-> FALSE,
                self |-> self, canEmit |-> canEmit, check |-> check]
  IN  [recordEnvelope(s, st) EXCEPT
         !.fullyValidated = validateValues(n, st) = "full",
         !.stack = Append(@, frame)]

(* An acceptable statement is recorded; before EXTERNALIZE it starts an    *)
(* advanceSlot whose frame is pushed.                                      *)
recordAndAdvance(n, s, st, self, canEmit, check) ==
  LET frame == [hint |-> st, pc |-> "acceptPrepared", work |-> FALSE,
                self |-> self, canEmit |-> canEmit, check |-> check]
      s1 == [recordEnvelope(s, st) EXCEPT
               !.fullyValidated = @ /\ validateValues(n, st) = "full",
               !.stack = Append(@, frame)]
  IN  IF Len(s1.stack) >= MAX_ADVANCE_SLOT_RECURSION
      THEN Fail(s1, "maxTransitions")
      ELSE s1

(* Mutant: the statement is not compared with the last one.                *)
finishEmitAny(n, s, st, canEmit, check) ==
  LET s1 == IF canEmit THEN sendLatestEnvelope([s EXCEPT !.lastEnvelope = st])
            ELSE s
  IN  IF check THEN checkHeardFromQuorum(n, s1) ELSE s1

(* What emitCurrentStateStatement and its caller do once the statement has *)
(* been processed: check stands for bumpState's checkHeardFromQuorum.      *)
finishEmit(n, s, st, canEmit, check) ==
  LET newer == \/ s.lastEnvelope = NoStatement
               \/ isNewerStatement(s.lastEnvelope, st)
      s1 == IF canEmit /\ newer
            THEN sendLatestEnvelope([s EXCEPT !.lastEnvelope = st]) ELSE s
  IN  IF check THEN checkHeardFromQuorum(n, s1) ELSE s1

emitCurrentStateStatement(n, s, check) ==
  LET st == createStatement(n, s)
      canEmit == s.b # NullBallot
  IN  CASE ~checkInvariants(s) -> Fail(s, "checkInvariants")
        [] checkInvariants(s) /\ s.phase = "CONFIRM" /\ s.p = NullBallot ->
             Fail(s, "nullP")
        [] OTHER ->
             IF s.M[n] = st
             THEN IF check THEN checkHeardFromQuorum(n, s) ELSE s
             ELSE IF ~Acceptable(n, s, st, TRUE)
             THEN Fail(s, "movedToBadState")
             ELSE IF s.phase = "EXTERNALIZE"
             THEN finishEmit(n, recordEnvelope(s, st), st, canEmit, check)
             ELSE recordAndAdvance(n, s, st, TRUE, canEmit, check)

(* bumpState(value, n) and abandonBallot(counter): <<state, updated>>.     *)
bumpState(n, s, v, counter) ==
  LET r == updateCurrentValue(s, makeBallot(counter, IF s.z # 0 THEN s.z
                                                     ELSE v))
  IN  IF r[2] THEN <<emitCurrentStateStatement(n, r[1], TRUE), TRUE>> ELSE r

abandonBallot(n, s, counter) ==
  LET v == IF s.cand # 0 THEN s.cand ELSE s.b.value
      next == (s.b.counter + 1) % (UINT32_MAX + 1)
  IN  IF v = 0 THEN <<s, FALSE>>
      ELSE bumpState(n, s, v, IF counter = 0 THEN next ELSE counter)
=============================================================================
