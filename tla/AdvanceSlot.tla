---------------------------- MODULE AdvanceSlot ----------------------------
(***************************************************************************)
(* The attempt* / set* pairs of the ballot protocol and advanceSlot, which *)
(* runs them in order on a hint.  An attempt yields <<state, didWork>>;    *)
(* when it did work the code's set* function emits the current statement,  *)
(* which Step does here.                                                   *)
(***************************************************************************)
EXTENDS BallotProtocol

-----------------------------------------------------------------------------
(* Accepting and confirming prepared ballots.                              *)

HintBallots(hint) ==
  CASE IsPrepare(hint) -> {hint.b} \cup ({hint.p, hint.pp} \ {NullBallot})
    [] IsConfirm(hint) -> {makeBallot(hint.nPrepared, hint.b.value),
                           makeBallot(UINT32_MAX, hint.b.value)}
    [] IsExternalize(hint) -> {makeBallot(UINT32_MAX, hint.commit.value)}

CandidatesOf(st, topVote) ==
  CASE IsPrepare(st) ->
         {x \in {st.b} \cup ({st.p, st.pp} \ {NullBallot}) :
            areBallotsLessAndCompatible(x, topVote)}
    [] IsConfirm(st) ->
         {x \in {topVote, makeBallot(st.nPrepared, topVote.value)} :
            areBallotsCompatible(topVote, st.b) /\ LessEq(x, topVote)}
    [] IsExternalize(st) ->
         {x \in {topVote} : areBallotsCompatible(x, st.commit)}

getPrepareCandidates(s, hint) ==
  UNION {CandidatesOf(s.M[m], top) : m \in Known(s), top \in HintBallots(hint)}

(* Mutant: p' takes the old p even when it is compatible with the new one. *)
setPreparedAny(s, ballot) ==
  IF s.p = NullBallot THEN [s EXCEPT !.p = ballot]
  ELSE IF Less(s.p, ballot) THEN [s EXCEPT !.p = ballot, !.pp = s.p]
  ELSE s

setPrepared(s, ballot) ==
  IF s.p = NullBallot THEN [s EXCEPT !.p = ballot]
  ELSE IF Less(s.p, ballot)
  THEN [s EXCEPT !.p = ballot,
                 !.pp = IF areBallotsCompatible(s.p, ballot) THEN @ ELSE s.p]
  ELSE IF /\ Less(ballot, s.p)
          /\ \/ s.pp = NullBallot
             \/ Less(s.pp, ballot) /\ ~areBallotsCompatible(s.p, ballot)
  THEN [s EXCEPT !.pp = ballot]
  ELSE s

setAcceptPrepared(s, ballot) ==
  LET s1 == setPrepared(s, ballot)
      clear == /\ s1.c # NullBallot /\ s1.h # NullBallot
               /\ \E x \in {s1.p, s1.pp} \ {NullBallot} :
                    areBallotsLessAndIncompatible(s1.h, x)
      s2 == dbgAssert(s1, clear => s1.phase = "PREPARE", "cClearedLate")
  IN  IF clear THEN <<[s2 EXCEPT !.c = NullBallot], TRUE>>
      ELSE <<s1, s1 # s>>

(* The ballots of S that can still raise p or p'.                          *)
MayPrepare(s, S) ==
  {x \in S : /\ s.phase = "CONFIRM" => areBallotsLessAndCompatible(s.p, x)
             /\ s.pp # NullBallot => Less(s.pp, x)
             /\ s.p # NullBallot => ~areBallotsLessAndCompatible(x, s.p)}

attemptAcceptPrepared(n, s, hint) ==
  LET candidates == getPrepareCandidates(s, hint)
      acceptable ==
        {x \in MayPrepare(s, candidates) :
           federatedAccept(n, s,
             {m \in Known(s) : votesPrepared(x, s.M[m])},
             acceptedPrepared(s, x))}
      compatible == s.phase = "CONFIRM" => \A x \in candidates :
                      areBallotsLessAndCompatible(s.p, x) =>
                        areBallotsCompatible(s.c, x)
      s1 == dbgAssert(s, compatible, "pNotCompatibleWithC")
  IN  IF s.phase = "EXTERNALIZE" THEN <<s, FALSE>>
      ELSE IF HasMax(acceptable)
      THEN setAcceptPrepared(s1, MaxBallot(acceptable))
      ELSE <<s1, FALSE>>

(* Mutant: mValueOverride is not set.                                      *)
setConfirmNoOverride(s, newC, newH) ==
  LET compat == s.b = NullBallot \/ areBallotsCompatible(s.b, newH)
      raise == compat /\ (s.h = NullBallot \/ Less(s.h, newH))
      commit == compat /\ newC # NullBallot
      s2 == [s EXCEPT !.h = IF raise THEN newH ELSE @,
                      !.c = IF commit THEN newC ELSE @]
      s3 == updateCurrentIfNeeded(s2, newH)
  IN  <<s3, raise \/ commit \/ s3.b # s.b>>

setConfirmPrepared(s, newC, newH) ==
  LET compat == s.b = NullBallot \/ areBallotsCompatible(s.b, newH)
      raise == compat /\ (s.h = NullBallot \/ Less(s.h, newH))
      commit == compat /\ newC # NullBallot
      s1 == dbgAssert(s, commit => s.c = NullBallot, "cAlreadySet")
      s2 == [s1 EXCEPT !.z = newH.value,
                       !.h = IF raise THEN newH ELSE @,
                       !.c = IF commit THEN newC ELSE @]
      s3 == updateCurrentIfNeeded(s2, newH)
  IN  <<s3, raise \/ commit \/ s3.b # s.b>>

(* The lowest ballot down to which everything from newH is confirmed.      *)
LowestConfirmed(n, s, newH, candidates) ==
  LET range == {x \in candidates : areBallotsLessAndCompatible(x, newH)
                                     /\ LessEq(s.b, x)}
      solid == {x \in range : \A y \in range : LessEq(x, y) =>
                  federatedRatify(n, s, acceptedPrepared(s, y))}
  IN  IF HasMin(solid) THEN MinBallot(solid) ELSE NullBallot

attemptConfirmPrepared(n, s, hint) ==
  LET candidates == getPrepareCandidates(s, hint)
      confirmed == {x \in candidates :
                      /\ s.h # NullBallot => Less(s.h, x)
                      /\ federatedRatify(n, s, acceptedPrepared(s, x))}
      newH == MaxBallot(confirmed)
      mayCommit == /\ s.c = NullBallot
                   /\ \A x \in {s.p, s.pp} \ {NullBallot} :
                        ~areBallotsLessAndIncompatible(newH, x)
  IN  IF /\ s.phase = "PREPARE" /\ s.p # NullBallot
         /\ HasMax(confirmed)
      THEN setConfirmPrepared(s, IF mayCommit
                                 THEN LowestConfirmed(n, s, newH, candidates)
                                 ELSE NullBallot, newH)
      ELSE <<s, FALSE>>

-----------------------------------------------------------------------------
(* Accepting and confirming commits.                                       *)

BoundariesOf(st) ==
  CASE IsPrepare(st)     -> IF st.nC # 0 THEN {st.nC, st.nH} ELSE {}
    [] IsConfirm(st)     -> {st.nCommit, st.nH}
    [] IsExternalize(st) -> {st.commit.counter, st.nH, UINT32_MAX}

getCommitBoundariesFromStatements(s, v) ==
  UNION {BoundariesOf(s.M[m]) :
           m \in {m \in Known(s) : getWorkingBallot(s.M[m]).value = v}}

pledgedCommit(s, v, lo, hi) ==
  {m \in Known(s) : commitPredicate(v, lo, hi, s.M[m])}

setAcceptCommit(s, c, h) ==
  LET first == s.phase = "PREPARE"
      s1 == [s EXCEPT !.z = h.value, !.c = c, !.h = h]
      s2 == IF ~first THEN s1
            ELSE LET t == [s1 EXCEPT !.phase = "CONFIRM"]
                     u == IF /\ s.b # NullBallot
                             /\ ~areBallotsLessAndCompatible(h, s.b)
                          THEN bumpToBallot(t, h, FALSE) ELSE t
                 IN  [u EXCEPT !.pp = NullBallot]
  IN  IF first \/ s.h # h \/ s.c # c
      THEN <<updateCurrentIfNeeded(s2, h), TRUE>>
      ELSE <<s1, FALSE>>

attemptAcceptCommit(n, s, hint) ==
  LET v == getWorkingBallot(hint).value
      boundaries == getCommitBoundariesFromStatements(s, v)
      pred == {i \in boundaries \X boundaries :
                 federatedAccept(n, s,
                   {m \in Known(s) : votesCommit(v, i[1], i[2], s.M[m])},
                   pledgedCommit(s, v, i[1], i[2]))}
      found == findExtendedInterval(boundaries, pred)
      interval == CHOOSE x \in found : TRUE
  IN  IF /\ s.phase # "EXTERNALIZE"
         /\ IsPrepare(hint) => hint.nC # 0
         /\ s.phase = "CONFIRM" => v = s.h.value
         /\ found # {}
         /\ s.phase = "CONFIRM" => interval[2] > s.h.counter
      THEN setAcceptCommit(s, makeBallot(interval[1], v),
                           makeBallot(interval[2], v))
      ELSE <<s, FALSE>>

(* setConfirmCommit emits the EXTERNALIZE statement, stops nomination and  *)
(* hands the value to the driver.                                          *)
setConfirmCommit(s, c, h) ==
  LET s1 == updateCurrentIfNeeded([s EXCEPT !.c = c, !.h = h], h)
  IN  <<[s1 EXCEPT !.phase = "EXTERNALIZE", !.ext = @ \cup {c.value}], TRUE>>

attemptConfirmCommit(n, s, hint) ==
  LET v == getWorkingBallot(hint).value
      boundaries == getCommitBoundariesFromStatements(s, v)
      pred == {i \in boundaries \X boundaries :
                 federatedRatify(n, s, pledgedCommit(s, v, i[1], i[2]))}
      found == findExtendedInterval(boundaries, pred)
      interval == CHOOSE x \in found : TRUE
  IN  IF /\ s.phase = "CONFIRM" /\ s.h # NullBallot /\ s.c # NullBallot
         /\ ~IsPrepare(hint) /\ v = s.c.value
         /\ found # {}
      THEN setConfirmCommit(s, makeBallot(interval[1], v),
                           makeBallot(interval[2], v))
      ELSE <<s, FALSE>>

-----------------------------------------------------------------------------
(* Catching up with a v-blocking set that is at higher counters.           *)

hasVBlockingSubsetStrictlyAheadOf(n, s, k) ==
  {m \in Known(s) : statementBallotCounter(s.M[m]) > k} \in VBlocking[n]

(* Mutant: the node waits for its own timer instead.                       *)
attemptBumpNever(n, s) == <<s, FALSE>>

(* <<state, didBump>>; the statement has been emitted when didBump.        *)
attemptBump(n, s) ==
  LET allCounters == {statementBallotCounter(s.M[m]) : m \in Known(s)}
      free == {k \in allCounters :
                 /\ k > s.b.counter
                 /\ ~hasVBlockingSubsetStrictlyAheadOf(n, s, k)}
      lowest == {k \in free : \A j \in free : k <= j}
  IN  IF /\ s.phase # "EXTERNALIZE" /\ lowest # {}
         /\ hasVBlockingSubsetStrictlyAheadOf(n, s, s.b.counter)
      THEN abandonBallot(n, s, CHOOSE k \in lowest : TRUE)
      ELSE <<s, FALSE>>

-----------------------------------------------------------------------------
(* advanceSlot.                                                            *)

Top(s) == s.stack[Len(s.stack)]

SetTop(s, pc, work) ==
  [s EXCEPT !.stack[Len(s.stack)].pc = pc,
            !.stack[Len(s.stack)].work = @ \/ work]

(* The end of advanceSlot and the return into emitCurrentStateStatement.   *)
ReturnFromAdvanceSlot(n, s) ==
  LET f == Top(s)
      s1 == [s EXCEPT !.stack = SubSeq(@, 1, Len(@) - 1)]
      s2 == IF f.work THEN sendLatestEnvelope(s1) ELSE s1
  IN  IF f.self THEN finishEmit(n, s2, f.hint, f.canEmit, f.check) ELSE s2

(* The result r of an attempt: go on with pc, in a nested advanceSlot when *)
(* the attempt changed the state.                                          *)
Continue(n, s, r, pc) ==
  IF r[2] THEN emitCurrentStateStatement(n, SetTop(r[1], pc, TRUE), FALSE)
  ELSE SetTop(r[1], pc, FALSE)

BumpOrReturn(n, s) ==
  LET r == attemptBump(n, SetTop(s, "bump", TRUE))
  IN  IF Len(s.stack) > 1 THEN ReturnFromAdvanceSlot(n, s)
      ELSE IF r[2] THEN r[1]
      ELSE ReturnFromAdvanceSlot(n, checkHeardFromQuorum(n,
             [r[1] EXCEPT !.stack[1].work = Top(s).work]))

Step(n, s) ==
  LET hint == Top(s).hint
      pc == Top(s).pc
  IN  CASE pc = "acceptPrepared" ->
             Continue(n, s, attemptAcceptPrepared(n, s, hint),
                      "confirmPrepared")
        [] pc = "confirmPrepared" ->
             Continue(n, s, attemptConfirmPrepared(n, s, hint),
                      "acceptCommit")
        [] pc = "acceptCommit" ->
             Continue(n, s, attemptAcceptCommit(n, s, hint), "confirmCommit")
        [] pc = "confirmCommit" ->
             Continue(n, s, attemptConfirmCommit(n, s, hint), "bump")
        [] pc = "bump" -> BumpOrReturn(n, s)

-----------------------------------------------------------------------------
(* The handlers, up to the first nested advanceSlot.                       *)

(* SCP::receiveEnvelope.                                                   *)
processEnvelope(n, s, st) ==
  IF ~Acceptable(n, s, st, FALSE) THEN s
  ELSE IF s.phase = "EXTERNALIZE" THEN recordEnvelope(s, st)
  ELSE recordAndAdvance(n, s, st, FALSE, FALSE, FALSE)

(* The nomination protocol has a new composite candidate v, and starts the *)
(* ballot protocol with it unless it has started: bumpState(v, false).     *)
nominationCandidate(n, s, v) ==
  LET s1 == [s EXCEPT !.cand = v]
  IN  IF s.b # NullBallot THEN s1 ELSE bumpState(n, s1, v, 1)[1]

(* The timer fires once, and is re-armed by checkHeardFromQuorum.          *)
ballotProtocolTimerExpired(n, s) ==
  abandonBallot(n, [s EXCEPT !.timer = FALSE], 0)[1]

(* Mutants: nothing is restored; the phase is not.                         *)
restoreNothing(n, s) == [InitialState EXCEPT !.sent = s.sent, !.ext = s.ext]

restoreNoPhase(n, s) ==
  LET st == s.lastEnvelopeEmit
  IN  [s EXCEPT !.phase = IF IsConfirm(st) THEN "PREPARE" ELSE @, !.cand = 0]

(* A restart: the node keeps what it has sent, and sets its state from the *)
(* last statement it emitted, which is saved before it is broadcast.       *)
setStateFromEnvelope(n, s) ==
  LET st == s.lastEnvelopeEmit
      s0 == [InitialState EXCEPT !.sent = s.sent, !.ext = s.ext]
      s1 == [recordEnvelope(s0, st) EXCEPT !.lastEnvelope = st,
                                           !.lastEnvelopeEmit = st]
      At(k, v) == IF k = 0 THEN NullBallot ELSE makeBallot(k, v)
  IN  CASE st = NoStatement -> s0
        [] IsPrepare(st) ->
             [bumpToBallot(s1, st.b, TRUE) EXCEPT
                !.p = st.p, !.pp = st.pp, !.h = At(st.nH, st.b.value),
                !.c = At(st.nC, st.b.value)]
        [] IsConfirm(st) ->
             [bumpToBallot(s1, st.b, TRUE) EXCEPT
                !.p = At(st.nPrepared, st.b.value),
                !.h = At(st.nH, st.b.value),
                !.c = At(st.nCommit, st.b.value), !.phase = "CONFIRM"]
        [] IsExternalize(st) ->
             [bumpToBallot(s1, makeBallot(UINT32_MAX, st.commit.value), TRUE)
                EXCEPT !.p = makeBallot(UINT32_MAX, st.commit.value),
                       !.h = makeBallot(st.nH, st.commit.value),
                       !.c = st.commit, !.phase = "EXTERNALIZE"]
=============================================================================
