-------------------------- MODULE BallotStateProofs -------------------------
(***************************************************************************)
(* The ballot protocol on the state of one node, for any nodes, slices,    *)
(* values and counters. First what each operation does to the state: the   *)
(* order of ballots, the helpers, the statements a node creates, the four  *)
(* attempts of an advanceSlot and the moves to a higher ballot. Each fact  *)
(* is one predicate on the state before and after. Then the handlers made  *)
(* of them: they keep the assertions that rest on the node's own state     *)
(* alone, and what a node has said, and what the calls in progress have    *)
(* yet to say, is followed to the end of the outermost advanceSlot.        *)
(***************************************************************************)
EXTENDS AdvanceSlot, TLAPS

(* Most leaves are steps of logic and are left to Zenon; those that need   *)
(* arithmetic say so.                                                      *)
USE Zenon

-----------------------------------------------------------------------------
(* Sequences.                                                              *)

(* The empty sequence, and the length of any other.                        *)
LEMMA EmptySeq ==
  ASSUME NEW S
  PROVE  /\ << >> \in Seq(S) /\ Len(<< >>) = 0
         /\ \A q \in Seq(S) : q # << >> => Len(q) \in Nat \ {0}
BY SMT

(* The elements of a sequence.                                             *)
LEMMA ElementOfSeq ==
  ASSUME NEW S, NEW q \in Seq(S), NEW i \in 1 .. Len(q)
  PROVE  q[i] \in S
BY SMT

-----------------------------------------------------------------------------
(* Ballots.                                                                *)

(* A ballot is a record of two naturals, the null ballot one of two zeros. *)
LEMMA BallotFields ==
  ASSUME NEW b \in BallotOrNull
  PROVE  /\ b.counter \in Counter /\ b.counter \in Nat /\ b.value \in Nat
         /\ b # NullBallot => b \in Ballot
         /\ b \in Ballot => /\ b # NullBallot /\ b.counter # 0
                            /\ b.value \in Value /\ b.value # 0
         /\ b = [counter |-> b.counter, value |-> b.value]
<1>1. CASE b = NullBallot
  BY <1>1, ValueAssumption, CounterAssumption, SMT
     DEF NullBallot, Counter, BallotOrNull, Ballot
<1>2. CASE b \in Ballot
  <2>1. /\ b.counter \in Counter /\ b.counter # 0 /\ b.value \in Value
        /\ b = [counter |-> b.counter, value |-> b.value]
    BY <1>2 DEF Ballot
  <2>2. b.counter \in Nat /\ b.value \in Nat /\ b.value # 0
    BY <2>1, ValueAssumption, CounterAssumption, SMT DEF Counter
  <2>3. b # NullBallot
    BY <2>1, SMT DEF NullBallot
  <2>4. QED BY <1>2, <2>1, <2>2, <2>3
<1>3. QED BY <1>1, <1>2 DEF BallotOrNull

(* makeBallot yields a ballot, and the null ballot is a BallotOrNull.      *)
LEMMA MakeBallot ==
  /\ \A k \in Counter, v \in Value : k # 0 => makeBallot(k, v) \in Ballot
  /\ NullBallot \in BallotOrNull /\ Ballot \subseteq BallotOrNull
  /\ NullBallot \notin Ballot
BY DEF makeBallot, Ballot, BallotOrNull, NullBallot

(* The order of ballots is a total order with the null ballot the least.   *)
LEMMA BallotOrder ==
  ASSUME NEW x \in BallotOrNull, NEW y \in BallotOrNull, NEW z \in BallotOrNull
  PROVE  /\ LessEq(x, y) /\ LessEq(y, z) => LessEq(x, z)
         /\ LessEq(x, y) /\ LessEq(y, x) => x = y
         /\ LessEq(x, y) \/ Less(y, x)
         /\ ~(LessEq(x, y) /\ Less(y, x))
         /\ Less(x, y) => LessEq(x, y)
         /\ LessEq(NullBallot, x)
<1>1. /\ x.counter \in Nat /\ x.value \in Nat
      /\ x = [counter |-> x.counter, value |-> x.value]
  BY BallotFields
<1>2. /\ y.counter \in Nat /\ y.value \in Nat
      /\ y = [counter |-> y.counter, value |-> y.value]
  BY BallotFields
<1>3. z.counter \in Nat /\ z.value \in Nat
  BY BallotFields
<1>4. QED BY <1>1, <1>2, <1>3, SMT DEF LessEq, Less, NullBallot

-----------------------------------------------------------------------------
(* Operators that leave most of a node's state alone.                      *)

(* The fields the protocol's pledges are read from.                        *)
SameCore(s, t) ==
  /\ t.b = s.b /\ t.p = s.p /\ t.pp = s.pp /\ t.h = s.h /\ t.c = s.c
  /\ t.phase = s.phase

(* The fields that only emitting and receiving statements change.          *)
SameRest(s, t) ==
  /\ t.M = s.M /\ t.lastEnvelope = s.lastEnvelope
  /\ t.lastEnvelopeEmit = s.lastEnvelopeEmit /\ t.sent = s.sent
  /\ t.fullyValidated = s.fullyValidated /\ t.stack = s.stack

SameOther(s, t) ==
  t.bad = s.bad /\ t.ext = s.ext /\ t.z = s.z /\ t.cand = s.cand

(* A failed assertion is recorded and changes nothing else.                *)
LEMMA FailFacts ==
  ASSUME NEW s \in NodeState, NEW why \in Failures
  PROVE  /\ Fail(s, why) \in NodeState
         /\ SameCore(s, Fail(s, why)) /\ SameRest(s, Fail(s, why))
         /\ Fail(s, why).ext = s.ext /\ Fail(s, why).z = s.z
         /\ Fail(s, why).cand = s.cand
         /\ Fail(s, why).bad = IF s.bad = "" THEN why ELSE s.bad
BY ZenonT(40) DEF Fail, NodeState, SameCore, SameRest

(* checkInvariants, and p' is set after p.                                 *)
Consistent(s) ==
  checkInvariants(s) /\ (s.p = NullBallot => s.pp = NullBallot)

(* Both read the core only.                                                *)
LEMMA CheckSame ==
  ASSUME NEW s, NEW t, SameCore(s, t)
  PROVE  /\ checkInvariants(t) <=> checkInvariants(s)
         /\ Consistent(t) <=> Consistent(s)
BY DEF checkInvariants, SameCore, Consistent

(* bumpToBallot, when its assertions hold.                                 *)
LEMMA BumpFacts ==
  ASSUME NEW s \in NodeState, NEW ballot \in BallotOrNull, NEW check \in BOOLEAN,
         s.phase # "EXTERNALIZE", check = TRUE => LessEq(s.b, ballot)
  PROVE  LET t == bumpToBallot(s, ballot, check)
             lost == s.h # NullBallot /\ ~areBallotsCompatible(ballot, s.h)
         IN  /\ t \in NodeState /\ SameRest(s, t)
             /\ t.b = ballot /\ t.p = s.p /\ t.pp = s.pp /\ t.phase = s.phase
             /\ t.h = IF lost THEN NullBallot ELSE s.h
             /\ t.c = IF lost THEN NullBallot ELSE s.c
             /\ SameOther(s, t)
<1> DEFINE t == bumpToBallot(s, ballot, check)
           lost == s.h # NullBallot /\ ~areBallotsCompatible(ballot, s.h)
<1>1. t = [s EXCEPT !.b = ballot,
                    !.h = IF lost THEN NullBallot ELSE s.h,
                    !.c = IF lost THEN NullBallot ELSE s.c,
                    !.heard = s.heard /\ s.b.counter = ballot.counter]
  BY DEF bumpToBallot, dbgAssert
<1>2. t \in NodeState
  <2>1. ASSUME NEW h \in BallotOrNull, NEW c \in BallotOrNull, NEW heard \in BOOLEAN
        PROVE  [s EXCEPT !.b = ballot, !.h = h, !.c = c, !.heard = heard] \in NodeState
    BY DEF NodeState
  <2>2. /\ (IF lost THEN NullBallot ELSE s.h) \in BallotOrNull
        /\ (IF lost THEN NullBallot ELSE s.c) \in BallotOrNull
        /\ (s.heard /\ s.b.counter = ballot.counter) \in BOOLEAN
    BY MakeBallot DEF NodeState
  <2> HIDE DEF t, lost
  <2> QED
    BY <1>1, <2>1, <2>2
<1>3. QED BY <1>1, <1>2 DEF NodeState, SameRest, SameOther

(* updateCurrentIfNeeded: the current ballot is at least h afterwards.     *)
LEMMA UpdateIfNeededFacts ==
  ASSUME NEW s \in NodeState, NEW h \in Ballot, s.phase # "EXTERNALIZE",
         s.h # NullBallot => areBallotsCompatible(h, s.h)
  PROVE  LET t == updateCurrentIfNeeded(s, h)
         IN  /\ t \in NodeState /\ SameRest(s, t)
             /\ t.b = IF s.b = NullBallot \/ Less(s.b, h) THEN h ELSE s.b
             /\ t.p = s.p /\ t.pp = s.pp /\ t.h = s.h /\ t.c = s.c
             /\ t.phase = s.phase
             /\ SameOther(s, t)
<1>1. s.b \in BallotOrNull /\ h \in BallotOrNull
  BY MakeBallot DEF NodeState
<1>2. CASE s.b = NullBallot \/ Less(s.b, h)
  <2>1. LessEq(s.b, h)
    BY <1>1, <1>2, BallotOrder
  <2>2. updateCurrentIfNeeded(s, h) = bumpToBallot(s, h, TRUE)
    BY <1>2 DEF updateCurrentIfNeeded
  <2>3. ~(s.h # NullBallot /\ ~areBallotsCompatible(h, s.h))
    OBVIOUS
  <2> DEFINE t == bumpToBallot(s, h, TRUE)
  <2>4. /\ t \in NodeState /\ SameRest(s, t)
        /\ t.b = h /\ t.p = s.p /\ t.pp = s.pp /\ t.phase = s.phase
        /\ t.h = s.h /\ t.c = s.c
        /\ SameOther(s, t)
    BY <1>1, <2>1, <2>3, BumpFacts
  <2>5. QED BY <1>2, <2>2, <2>4
<1>3. CASE ~(s.b = NullBallot \/ Less(s.b, h))
  BY <1>3 DEF updateCurrentIfNeeded, SameRest, SameOther
<1>4. QED BY <1>2, <1>3

(* checkHeardFromQuorum changes mHeardFromQuorum and the timer only.       *)
LEMMA CheckHeardFacts ==
  ASSUME NEW n \in Node, NEW s \in NodeState
  PROVE  LET t == checkHeardFromQuorum(n, s)
         IN  /\ t \in NodeState /\ SameCore(s, t) /\ SameRest(s, t)
             /\ SameOther(s, t)
<1> DEFINE t == checkHeardFromQuorum(n, s)
<1>1. \/ t = s
      \/ \E x, y \in BOOLEAN : t = [s EXCEPT !.heard = x, !.timer = y]
  <2>1. s.timer \in BOOLEAN /\ s.heard \in BOOLEAN
    BY DEF NodeState
  <2>2. (s.phase # "EXTERNALIZE" /\ (s.timer \/ ~s.heard)) \in BOOLEAN
    OBVIOUS
  <2>3. QED BY <2>1, <2>2 DEF checkHeardFromQuorum
<1>2. CASE t = s
  BY <1>2 DEF SameCore, SameRest, SameOther
<1>3. CASE \E x, y \in BOOLEAN : t = [s EXCEPT !.heard = x, !.timer = y]
  <2>1. PICK x, y \in BOOLEAN : t = [s EXCEPT !.heard = x, !.timer = y]
    BY <1>3
  <2>2. t \in NodeState
    BY <2>1 DEF NodeState
  <2>3. QED BY <2>1, <2>2 DEF SameCore, SameRest, SameOther, NodeState
<1>4. QED BY <1>1, <1>2, <1>3

-----------------------------------------------------------------------------
(* Own statements.                                                         *)

(* What checkInvariants says of the state a statement is made from, in     *)
(* terms of the statement: the state it restores satisfies it again.       *)
Restorable(st) ==
  /\ IsPrepare(st) =>
       /\ st.p # NullBallot /\ st.pp # NullBallot =>
            areBallotsLessAndIncompatible(st.pp, st.p)
       /\ st.p = NullBallot => st.pp = NullBallot
       /\ st.nH # 0 => st.b # NullBallot /\ st.nH <= st.b.counter
       /\ st.nC # 0 => st.nH # 0 /\ st.nC <= st.nH
  /\ IsConfirm(st) => st.nCommit <= st.nH /\ st.nH <= st.b.counter
  /\ IsExternalize(st) => st.commit.counter <= st.nH

(* createStatement yields a statement of its type, fit to be restored.     *)
LEMMA CreateFacts ==
  ASSUME NEW n \in Node, NEW s \in NodeState, Consistent(s),
         s.phase = "CONFIRM" => s.p # NullBallot
  PROVE  LET st == createStatement(n, s)
         IN  /\ st \in Statement /\ st.node = n /\ Restorable(st)
             /\ st.type = s.phase
<1> DEFINE st == createStatement(n, s)
<1>1. /\ s.b \in BallotOrNull /\ s.p \in BallotOrNull /\ s.pp \in BallotOrNull
      /\ s.h \in BallotOrNull /\ s.c \in BallotOrNull
      /\ s.phase \in {"PREPARE", "CONFIRM", "EXTERNALIZE"}
  BY DEF NodeState
<1>2. /\ s.c # NullBallot => /\ s.h # NullBallot /\ s.c.counter <= s.h.counter
      /\ s.h # NullBallot => /\ s.b # NullBallot /\ s.h.counter <= s.b.counter
      /\ s.p # NullBallot /\ s.pp # NullBallot =>
           areBallotsLessAndIncompatible(s.pp, s.p)
      /\ s.p = NullBallot => s.pp = NullBallot
      /\ s.phase \in {"CONFIRM", "EXTERNALIZE"} => s.c # NullBallot
  BY <1>1, BallotFields, SMT DEF Consistent, checkInvariants, areBallotsLessAndCompatible,
       LessEq, Less
<1>3. \A x \in BallotOrNull : /\ x.counter \in Counter /\ x.counter \in Nat
                              /\ x # NullBallot => x.counter # 0 /\ x \in Ballot
                              /\ x = NullBallot => x.counter = 0
  BY BallotFields DEF NullBallot
<1>4. CASE s.phase = "PREPARE"
  <2>1. st = [type |-> "PREPARE", node |-> n, b |-> s.b, p |-> s.p,
              pp |-> s.pp, nC |-> s.c.counter, nH |-> s.h.counter]
    BY <1>4 DEF createStatement
  <2>2. st \in Prepare
    BY <1>1, <1>3, <2>1, SMT DEF Prepare
  <2>3. Restorable(st)
    BY <1>1, <1>2, <1>3, <2>1, SMT DEF Restorable, IsPrepare, IsConfirm,
         IsExternalize
  <2>4. QED BY <1>4, <2>1, <2>2, <2>3, SMT DEF Statement
<1>5. CASE s.phase = "CONFIRM"
  <2>1. st = [type |-> "CONFIRM", node |-> n, b |-> s.b,
              nPrepared |-> s.p.counter, nCommit |-> s.c.counter,
              nH |-> s.h.counter]
    BY <1>5 DEF createStatement
  <2>2. st \in Confirm
    BY <1>1, <1>2, <1>3, <1>5, <2>1, SMT DEF Confirm
  <2>3. Restorable(st)
    BY <1>1, <1>2, <1>3, <1>5, <2>1, SMT DEF Restorable, IsPrepare, IsConfirm,
         IsExternalize
  <2>4. QED BY <1>5, <2>1, <2>2, <2>3, SMT DEF Statement
<1>6. CASE s.phase = "EXTERNALIZE"
  <2>1. st = [type |-> "EXTERNALIZE", node |-> n, commit |-> s.c,
              nH |-> s.h.counter]
    BY <1>6 DEF createStatement
  <2>2. st \in Externalize
    BY <1>1, <1>2, <1>3, <1>6, <2>1, SMT DEF Externalize
  <2>3. Restorable(st)
    BY <1>1, <1>2, <1>3, <1>6, <2>1, SMT DEF Restorable, IsPrepare, IsConfirm,
         IsExternalize
  <2>4. QED BY <1>6, <2>1, <2>2, <2>3, SMT DEF Statement
<1>7. QED BY <1>1, <1>4, <1>5, <1>6

-----------------------------------------------------------------------------
(* Emitting.                                                               *)

(* sendLatestEnvelope: what is sent is the last statement, once the        *)
(* outermost advanceSlot has returned.                                     *)
LEMMA SendFacts ==
  ASSUME NEW s \in NodeState
  PROVE  LET t == sendLatestEnvelope(s)
         IN  /\ t \in NodeState /\ SameCore(s, t) /\ SameOther(s, t)
             /\ t.M = s.M /\ t.lastEnvelope = s.lastEnvelope
             /\ t.fullyValidated = s.fullyValidated /\ t.stack = s.stack
             /\ t.lastEnvelopeEmit =
                  IF Idle(s) /\ s.lastEnvelope # NoStatement /\ s.fullyValidated
                  THEN s.lastEnvelope ELSE s.lastEnvelopeEmit
             /\ t.sent \subseteq s.sent \cup ({s.lastEnvelope} \ {NoStatement})
<1> DEFINE t == sendLatestEnvelope(s)
<1>1. CASE /\ Idle(s) /\ s.lastEnvelope # NoStatement /\ s.fullyValidated
           /\ s.lastEnvelope # s.lastEnvelopeEmit
  <2>1. t = [s EXCEPT !.lastEnvelopeEmit = s.lastEnvelope,
                      !.sent = @ \cup {s.lastEnvelope}]
    BY <1>1 DEF sendLatestEnvelope
  <2>2. s.lastEnvelope \in Statement /\ s.sent \in SUBSET Statement
    BY <1>1 DEF NodeState
  <2>3. PICK sent \in SUBSET Statement : sent = s.sent \cup {s.lastEnvelope}
    BY <2>2
  <2>4. t = [s EXCEPT !.lastEnvelopeEmit = s.lastEnvelope, !.sent = sent]
    BY <2>1, <2>3
  <2>5. t \in NodeState
    BY <2>4, <2>2 DEF NodeState
  <2>6. /\ SameCore(s, t) /\ SameOther(s, t)
        /\ t.M = s.M /\ t.lastEnvelope = s.lastEnvelope
        /\ t.fullyValidated = s.fullyValidated /\ t.stack = s.stack
        /\ t.lastEnvelopeEmit = s.lastEnvelope /\ t.sent = sent
    BY <2>4 DEF NodeState, SameCore, SameOther
  <2>7. QED BY <1>1, <2>3, <2>5, <2>6
<1>2. CASE ~(/\ Idle(s) /\ s.lastEnvelope # NoStatement /\ s.fullyValidated
             /\ s.lastEnvelope # s.lastEnvelopeEmit)
  BY <1>2 DEF sendLatestEnvelope, SameCore, SameOther
<1>3. QED BY <1>1, <1>2

(* t is s with st made the last statement when it is newer, and sent as by *)
(* sendLatestEnvelope.                                                     *)
Finished(s, st, canEmit, t) ==
  LET newer == /\ canEmit
               /\ \/ s.lastEnvelope = NoStatement
                  \/ isNewerStatement(s.lastEnvelope, st)
  IN  /\ t \in NodeState /\ SameCore(s, t) /\ SameOther(s, t)
      /\ t.M = s.M /\ t.fullyValidated = s.fullyValidated
      /\ t.stack = s.stack
      /\ t.lastEnvelope = IF newer THEN st ELSE s.lastEnvelope
      /\ t.lastEnvelopeEmit = IF newer /\ Idle(s) /\ s.fullyValidated
                              THEN st ELSE s.lastEnvelopeEmit
      /\ t.sent \subseteq s.sent \cup {st}

(* finishEmit makes a newer statement the last one, and sends the last one *)
(* when no advanceSlot is running.                                         *)
LEMMA FinishFacts ==
  ASSUME NEW n \in Node, NEW s \in NodeState, NEW st \in Statement,
         NEW canEmit \in BOOLEAN, NEW check \in BOOLEAN
  PROVE  Finished(s, st, canEmit, finishEmit(n, s, st, canEmit, check))
<1> DEFINE newer == /\ canEmit
                    /\ \/ s.lastEnvelope = NoStatement
                       \/ isNewerStatement(s.lastEnvelope, st)
           s0 == [s EXCEPT !.lastEnvelope = st]
           s1 == IF newer THEN sendLatestEnvelope(s0) ELSE s
           t == finishEmit(n, s, st, canEmit, check)
<1>1. t = IF check THEN checkHeardFromQuorum(n, s1) ELSE s1
  BY DEF finishEmit
<1>2. /\ s1 \in NodeState /\ SameCore(s, s1) /\ SameOther(s, s1)
      /\ s1.M = s.M /\ s1.fullyValidated = s.fullyValidated
      /\ s1.stack = s.stack
      /\ s1.lastEnvelope = IF newer THEN st ELSE s.lastEnvelope
      /\ s1.lastEnvelopeEmit = IF newer /\ Idle(s) /\ s.fullyValidated
                               THEN st ELSE s.lastEnvelopeEmit
      /\ s1.sent \subseteq s.sent \cup {st}
  <2>1. CASE ~newer
    BY <2>1 DEF SameCore, SameOther
  <2>2. CASE newer
    <3>1. /\ s0 \in NodeState /\ SameCore(s, s0) /\ SameOther(s, s0)
          /\ s0.M = s.M /\ s0.lastEnvelope = st /\ s0.sent = s.sent
          /\ s0.fullyValidated = s.fullyValidated /\ s0.stack = s.stack
          /\ s0.lastEnvelopeEmit = s.lastEnvelopeEmit
      BY DEF NodeState, SameCore, SameOther
    <3>2. st # NoStatement
      BY SMT DEF Statement, Prepare, Confirm, Externalize, NoStatement
    <3>3. s1 = sendLatestEnvelope(s0)
      BY <2>2
    <3> HIDE DEF s0, s1, newer
    <3>4. /\ s1 \in NodeState /\ SameCore(s0, s1) /\ SameOther(s0, s1)
          /\ s1.M = s0.M /\ s1.lastEnvelope = s0.lastEnvelope
          /\ s1.fullyValidated = s0.fullyValidated /\ s1.stack = s0.stack
          /\ s1.lastEnvelopeEmit =
                  IF Idle(s0) /\ s0.lastEnvelope # NoStatement /\ s0.fullyValidated
                  THEN s0.lastEnvelope ELSE s0.lastEnvelopeEmit
          /\ s1.sent \subseteq s0.sent \cup ({s0.lastEnvelope} \ {NoStatement})
      BY <3>1, <3>3, SendFacts
    <3>5. QED BY <2>2, <3>1, <3>2, <3>4 DEF SameCore, SameOther, Idle
  <2>3. QED BY <2>1, <2>2
<1>3. /\ t \in NodeState /\ SameCore(s1, t) /\ SameRest(s1, t)
      /\ SameOther(s1, t)
  <2> HIDE DEF s1, t
  <2>1. CASE check = TRUE
    <3>1. t = checkHeardFromQuorum(n, s1)
      BY <1>1, <2>1
    <3>2. QED BY <1>2, <3>1, CheckHeardFacts
  <2>2. CASE check = FALSE
    <3>1. t = s1
      BY <1>1, <2>2
    <3>2. QED BY <1>2, <3>1 DEF SameCore, SameRest, SameOther
  <2>3. QED BY <2>1, <2>2
<1>4. /\ t \in NodeState /\ SameCore(s, t) /\ SameOther(s, t)
      /\ t.M = s.M /\ t.fullyValidated = s.fullyValidated
      /\ t.stack = s.stack
      /\ t.lastEnvelope = IF newer THEN st ELSE s.lastEnvelope
      /\ t.lastEnvelopeEmit = IF newer /\ Idle(s) /\ s.fullyValidated
                              THEN st ELSE s.lastEnvelopeEmit
      /\ t.sent \subseteq s.sent \cup {st}
  <2> HIDE DEF s1, t, newer
  <2>1. QED BY <1>2, <1>3 DEF SameCore, SameRest, SameOther
<1>5. QED BY <1>4 DEF Finished

-----------------------------------------------------------------------------
(* The call stack.                                                         *)

(* The fields that the call stack's own operations leave alone.            *)
SameButStack(s, t) ==
  /\ SameCore(s, t) /\ SameOther(s, t) /\ t.M = s.M
  /\ t.lastEnvelope = s.lastEnvelope
  /\ t.lastEnvelopeEmit = s.lastEnvelopeEmit /\ t.sent = s.sent
  /\ t.fullyValidated = s.fullyValidated

(* Two frames that differ at most in the next attempt and in didWork.      *)
SameCall(f, g) ==
  /\ g.hint = f.hint /\ g.self = f.self /\ g.canEmit = f.canEmit
  /\ g.check = f.check

(* A frame is replaced in the middle of the stack.                         *)
LEMMA StackExcept ==
  ASSUME NEW s \in NodeState, NEW i \in 1 .. Len(s.stack), NEW f \in Frame
  PROVE  LET t == [s EXCEPT !.stack = [s.stack EXCEPT ![i] = f]]
         IN  /\ t \in NodeState /\ SameButStack(s, t)
             /\ Len(t.stack) = Len(s.stack)
             /\ \A j \in 1 .. Len(s.stack) :
                  t.stack[j] = IF j = i THEN f ELSE s.stack[j]
<1>1. s.stack \in Seq(Frame)
  BY DEF NodeState
<1>2. PICK k : k = [s.stack EXCEPT ![i] = f]
  OBVIOUS
<1>3. /\ k \in Seq(Frame) /\ Len(k) = Len(s.stack)
      /\ \A j \in 1 .. Len(s.stack) : k[j] = IF j = i THEN f ELSE s.stack[j]
  BY <1>1, <1>2, SMT
<1>4. [s EXCEPT !.stack = k] \in NodeState
  BY <1>3 DEF NodeState
<1>5. SameButStack(s, [s EXCEPT !.stack = k]) /\ [s EXCEPT !.stack = k].stack = k
  BY DEF NodeState, SameButStack, SameCore, SameOther
<1>6. QED BY <1>2, <1>3, <1>4, <1>5

PCs == {"acceptPrepared", "confirmPrepared", "acceptCommit", "confirmCommit",
        "bump"}

(* t is s with the innermost advanceSlot moved on.                         *)
MovedOn(s, work, t) ==
  /\ t \in NodeState /\ SameButStack(s, t)
  /\ Len(t.stack) = Len(s.stack) /\ Len(s.stack) \in Nat \ {0}
  /\ \A j \in 1 .. Len(s.stack) : SameCall(s.stack[j], t.stack[j])
  /\ \A j \in 1 .. Len(s.stack) : j # Len(s.stack) =>
       t.stack[j] = s.stack[j]
  /\ t.stack[Len(s.stack)].work = (s.stack[Len(s.stack)].work \/ work)

(* SetTop changes the program counter of the innermost call, and whether   *)
(* it did work.                                                            *)
LEMMA SetTopFacts ==
  ASSUME NEW s \in NodeState, s.stack # << >>, NEW pc \in PCs,
         NEW work \in BOOLEAN
  PROVE  MovedOn(s, work, SetTop(s, pc, work))
<1>1. s.stack \in Seq(Frame) /\ Len(s.stack) \in Nat \ {0}
  BY EmptySeq DEF NodeState
<1>2. s.stack[Len(s.stack)] \in Frame
  BY <1>1, ElementOfSeq, SMT
<1>3. PICK f : f = [s.stack[Len(s.stack)] EXCEPT !.pc = pc, !.work = @ \/ work]
  OBVIOUS
<1>4. (s.stack[Len(s.stack)].work \/ work) \in BOOLEAN
  OBVIOUS
<1>5. f \in Frame
  BY <1>2, <1>3, <1>4 DEF Frame, PCs
<1>6. SetTop(s, pc, work) = [s EXCEPT !.stack = [s.stack EXCEPT ![Len(s.stack)] = f]]
  <2> DEFINE L == Len(s.stack)
             g == [s.stack[L] EXCEPT !.pc = pc]
             k == [s.stack EXCEPT ![L] = g]
             s2 == [s EXCEPT !.stack = k]
  <2>1. L \in DOMAIN s.stack /\ L \in 1 .. Len(s.stack)
    BY <1>1, SMT
  <2>2. s2.stack = k /\ k[L] = g
    BY <1>1, <2>1 DEF NodeState
  <2>3. SetTop(s, pc, work) = [s2 EXCEPT !.stack = [k EXCEPT ![L] =
                                             [g EXCEPT !.work = @ \/ work]]]
    BY <2>1, <2>2 DEF SetTop
  <2>4. [g EXCEPT !.work = @ \/ work] = f
    BY <1>2, <1>3 DEF Frame
  <2>5. [k EXCEPT ![L] = f] = [s.stack EXCEPT ![L] = f]
    OBVIOUS
  <2>6. QED BY <2>3, <2>4, <2>5 DEF NodeState
<1>7. /\ SameCall(s.stack[Len(s.stack)], f) /\ f.pc = pc
      /\ f.work = (s.stack[Len(s.stack)].work \/ work)
  BY <1>2, <1>3 DEF Frame, SameCall
<1>8. Len(s.stack) \in 1 .. Len(s.stack)
  BY <1>1, SMT
<1>9. \A g : SameCall(g, g)
  BY DEF SameCall
<1> DEFINE t == SetTop(s, pc, work)
<1>10. /\ t \in NodeState /\ SameButStack(s, t) /\ Len(t.stack) = Len(s.stack)
       /\ \A j \in 1 .. Len(s.stack) :
            t.stack[j] = IF j = Len(s.stack) THEN f ELSE s.stack[j]
  BY <1>5, <1>6, <1>8, StackExcept, SMT
<1> HIDE DEF t
<1>11. /\ t \in NodeState /\ SameButStack(s, t)
       /\ Len(t.stack) = Len(s.stack) /\ Len(s.stack) \in Nat \ {0}
       /\ \A j \in 1 .. Len(s.stack) : SameCall(s.stack[j], t.stack[j])
       /\ \A j \in 1 .. Len(s.stack) : j # Len(s.stack) =>
            t.stack[j] = s.stack[j]
       /\ t.stack[Len(s.stack)].work = (s.stack[Len(s.stack)].work \/ work)
  BY <1>1, <1>7, <1>8, <1>9, <1>10
<1>12. QED BY <1>11 DEF t, MovedOn

(* t is s with the statement of frame f recorded and f pushed; a 50th      *)
(* frame is a failure.                                                     *)
Pushed(n, s, f, t) ==
  /\ t \in NodeState /\ SameCore(s, t)
  /\ t.lastEnvelope = s.lastEnvelope
  /\ t.lastEnvelopeEmit = s.lastEnvelopeEmit /\ t.sent = s.sent
  /\ t.ext = s.ext /\ t.z = s.z /\ t.cand = s.cand
  /\ \A m \in Node : t.M[m] = IF m = f.hint.node THEN f.hint ELSE s.M[m]
  /\ t.fullyValidated =
       (s.fullyValidated /\ validateValues(n, f.hint) = "full")
  /\ Len(t.stack) = Len(s.stack) + 1 /\ Len(s.stack) \in Nat
  /\ \A j \in 1 .. Len(s.stack) : t.stack[j] = s.stack[j]
  /\ t.stack[Len(s.stack) + 1] = f
  /\ t.bad \in {s.bad, "maxTransitions"}

(* recordAndAdvance records the statement and pushes a frame.              *)
LEMMA RecordAndAdvanceFacts ==
  ASSUME NEW n \in Node, NEW s \in NodeState, NEW f \in Frame,
         f.pc = "acceptPrepared", ~f.work
  PROVE  Pushed(n, s, f, recordAndAdvance(n, s, f.hint, f.self, f.canEmit,
                                          f.check))
<1> DEFINE st == f.hint
<1>1. s.stack \in Seq(Frame) /\ s.M \in [Node -> Statement \cup {NoStatement}]
  BY DEF NodeState
<1>2. st \in Statement
  BY DEF Frame
<1>0. f = [hint |-> st, pc |-> "acceptPrepared", work |-> FALSE,
           self |-> f.self, canEmit |-> f.canEmit, check |-> f.check]
  BY DEF Frame
<1>3. PICK k : k = Append(s.stack, f)
  OBVIOUS
<1>4. /\ k \in Seq(Frame) /\ Len(k) = Len(s.stack) + 1 /\ Len(s.stack) \in Nat
      /\ \A j \in 1 .. Len(s.stack) : k[j] = s.stack[j]
      /\ k[Len(s.stack) + 1] = f
  BY <1>1, <1>3, SMT
<1>5. PICK M : M = [s.M EXCEPT ![st.node] = st]
  OBVIOUS
<1>6. /\ M \in [Node -> Statement \cup {NoStatement}]
      /\ \A m \in Node : M[m] = IF m = st.node THEN st ELSE s.M[m]
  BY <1>1, <1>2, <1>5 DEF Statement, Prepare, Confirm, Externalize
<1>7. PICK fv \in BOOLEAN :
        fv = (s.fullyValidated /\ validateValues(n, st) = "full")
  OBVIOUS
<1> DEFINE s1 == [s EXCEPT !.M = M, !.fullyValidated = fv, !.stack = k]
<1>8. s1 \in NodeState
  BY <1>4, <1>6 DEF NodeState
<1>9. [recordEnvelope(s, st) EXCEPT
         !.fullyValidated = @ /\ validateValues(n, st) = "full",
         !.stack = Append(@, f)] = s1
  BY <1>3, <1>5, <1>7 DEF recordEnvelope, NodeState
<1>10. /\ SameCore(s, s1) /\ SameOther(s, s1)
       /\ s1.lastEnvelope = s.lastEnvelope
       /\ s1.lastEnvelopeEmit = s.lastEnvelopeEmit /\ s1.sent = s.sent
       /\ s1.M = M /\ s1.fullyValidated = fv /\ s1.stack = k
  BY DEF SameCore, SameOther, NodeState
<1> DEFINE why == "maxTransitions"
           t == recordAndAdvance(n, s, st, f.self, f.canEmit, f.check)
<1>11. t = IF Len(s1.stack) >= MAX_ADVANCE_SLOT_RECURSION
           THEN Fail(s1, why) ELSE s1
  BY <1>0, <1>9 DEF recordAndAdvance
<1> HIDE DEF t, s1
<1>12. /\ t \in NodeState /\ SameCore(s1, t) /\ SameRest(s1, t)
       /\ t.ext = s1.ext /\ t.z = s1.z /\ t.cand = s1.cand
       /\ t.bad = s1.bad \/ t.bad = why
  <2>1. CASE t = s1
    BY <1>8, <2>1 DEF SameCore, SameRest
  <2>2. CASE t = Fail(s1, why)
    <3>1. why \in Failures
      BY DEF Failures
    <3> HIDE DEF why
    <3>2. QED BY <1>8, <2>2, <3>1, FailFacts
  <2>3. QED BY <1>11, <2>1, <2>2
<1>13. /\ t \in NodeState /\ SameCore(s, t)
       /\ t.lastEnvelope = s.lastEnvelope
       /\ t.lastEnvelopeEmit = s.lastEnvelopeEmit /\ t.sent = s.sent
       /\ t.ext = s.ext /\ t.z = s.z /\ t.cand = s.cand
       /\ t.M = M /\ t.fullyValidated = fv /\ t.stack = k
       /\ t.bad = s.bad \/ t.bad = why
  BY <1>10, <1>12 DEF SameCore, SameOther, SameRest
<1>14. /\ Len(t.stack) = Len(s.stack) + 1 /\ Len(s.stack) \in Nat
       /\ \A j \in 1 .. Len(s.stack) : t.stack[j] = s.stack[j]
       /\ t.stack[Len(s.stack) + 1] = f
  BY <1>4, <1>13
<1>15. QED BY <1>6, <1>7, <1>13, <1>14 DEF t, Pushed

-----------------------------------------------------------------------------
(* The invariant of a node's own state.                                    *)

(* A statement that votes to commit has a ballot.                          *)
Votable(st) == IsPrepare(st) /\ st.nC # 0 => st.b # NullBallot

(* The statements a restart may set the state from, now or later.          *)
OwnRestorable(s) ==
  /\ \A st \in {s.lastEnvelope, s.lastEnvelopeEmit} :
       st # NoStatement => Restorable(st)
  /\ \A i \in 1 .. Len(s.stack) :
       /\ s.stack[i].self => Restorable(s.stack[i].hint)
       /\ Votable(s.stack[i].hint)

StateOK(s) ==
  /\ s \in NodeState /\ s.bad \notin LocalAssertions
  /\ Alive(s) => checkInvariants(s)
  /\ s.p = NullBallot => s.pp = NullBallot
  /\ OwnRestorable(s)

(* A statement fit for a restart stays so while what was said and the      *)
(* calls in progress are the same.                                         *)
LEMMA OwnSame ==
  ASSUME NEW s, NEW t, OwnRestorable(s), t.lastEnvelope = s.lastEnvelope,
         t.lastEnvelopeEmit = s.lastEnvelopeEmit, t.stack = s.stack
  PROVE  OwnRestorable(t)
BY DEF OwnRestorable

(* A statement is not the absence of one.                                  *)
LEMMA StatementNotNone == NoStatement \notin Statement
BY DEF Statement, Prepare, Confirm, Externalize, NoStatement

(* finishEmit keeps the invariant when the statement can be restored.      *)
LEMMA FinishOK ==
  ASSUME NEW n \in Node, NEW s, StateOK(s), NEW st \in Statement,
         Restorable(st), NEW canEmit \in BOOLEAN, NEW check \in BOOLEAN
  PROVE  StateOK(finishEmit(n, s, st, canEmit, check))
<1> DEFINE t == finishEmit(n, s, st, canEmit, check)
<1>1. s \in NodeState
  BY DEF StateOK
<1>2. /\ t \in NodeState /\ SameCore(s, t) /\ SameOther(s, t)
      /\ t.stack = s.stack
      /\ t.lastEnvelope \in {st, s.lastEnvelope}
      /\ t.lastEnvelopeEmit \in {st, s.lastEnvelopeEmit}
  BY <1>1, FinishFacts, SMT DEF Finished
<1> HIDE DEF t
<1>3. OwnRestorable(t)
  BY <1>2 DEF StateOK, OwnRestorable
<1>4. checkInvariants(s) => checkInvariants(t)
  BY <1>2, CheckSame
<1>5. StateOK(t)
  BY <1>2, <1>3, <1>4 DEF StateOK, SameCore, SameOther, Alive
<1>6. QED BY <1>5 DEF t

(* emitCurrentStateStatement keeps the invariant and the core.             *)
LEMMA EmitOK ==
  ASSUME NEW n \in Node, NEW s, StateOK(s), NEW check \in BOOLEAN
  PROVE  LET t == emitCurrentStateStatement(n, s, check)
         IN  StateOK(t) /\ SameCore(s, t) /\ t.ext = s.ext
<1> DEFINE t == emitCurrentStateStatement(n, s, check)
           st == createStatement(n, s)
           canEmit == s.b # NullBallot
<1> SUFFICES StateOK(t) /\ SameCore(s, t) /\ t.ext = s.ext
  OBVIOUS
<1>0. /\ s \in NodeState /\ s.bad \notin LocalAssertions
      /\ s.bad = "" => checkInvariants(s)
      /\ s.p = NullBallot => s.pp = NullBallot
  BY DEF StateOK, Alive
<1>1. ASSUME NEW why \in Failures,
             s.bad # "" \/ why \notin LocalAssertions, t = Fail(s, why)
      PROVE  StateOK(t) /\ SameCore(s, t) /\ t.ext = s.ext
  <2> HIDE DEF t
  <2>1. /\ t \in NodeState /\ SameCore(s, t) /\ SameRest(s, t)
        /\ t.ext = s.ext /\ t.bad = IF s.bad = "" THEN why ELSE s.bad
    BY <1>0, <1>1, FailFacts
  <2>2. OwnRestorable(t)
    BY <2>1, OwnSame DEF StateOK, SameRest
  <2>3. t.bad # "" /\ t.bad \notin LocalAssertions
    BY <1>0, <1>1, <2>1 DEF Failures
  <2>4. QED BY <1>0, <2>1, <2>2, <2>3 DEF StateOK, Alive, SameCore
<1>2. CASE ~checkInvariants(s)
  <2>1. t = Fail(s, "checkInvariants")
    BY <1>2 DEF emitCurrentStateStatement
  <2>2. "checkInvariants" \in Failures
    BY DEF Failures
  <2>3. QED BY <1>0, <1>1, <1>2, <2>1, <2>2
<1>3. CASE checkInvariants(s) /\ s.phase = "CONFIRM" /\ s.p = NullBallot
  <2>1. t = Fail(s, "nullP")
    BY <1>3 DEF emitCurrentStateStatement
  <2>2. "nullP" \in Failures /\ "nullP" \notin LocalAssertions
    BY DEF Failures, LocalAssertions
  <2>3. QED BY <1>1, <2>1, <2>2
<1>4. CASE checkInvariants(s) /\ ~(s.phase = "CONFIRM" /\ s.p = NullBallot)
  <2>1. t = IF s.M[n] = st
            THEN IF check THEN checkHeardFromQuorum(n, s) ELSE s
            ELSE IF ~Acceptable(n, s, st, TRUE)
            THEN Fail(s, "movedToBadState")
            ELSE IF s.phase = "EXTERNALIZE"
            THEN finishEmit(n, recordEnvelope(s, st), st, canEmit, check)
            ELSE recordAndAdvance(n, s, st, TRUE, canEmit, check)
    BY <1>4 DEF emitCurrentStateStatement
  <2>2. st \in Statement /\ st.node = n /\ Restorable(st)
    BY <1>0, <1>4, CreateFacts DEF Consistent
  <2>3. canEmit \in BOOLEAN
    OBVIOUS
  <2> HIDE DEF t, st, canEmit
  <2>4. CASE t = s
    BY <2>4 DEF SameCore
  <2>5. CASE t = checkHeardFromQuorum(n, s)
    <3>1. /\ t \in NodeState /\ SameCore(s, t) /\ SameRest(s, t)
          /\ SameOther(s, t)
      BY <1>0, <2>5, CheckHeardFacts
    <3>2. OwnRestorable(t) /\ checkInvariants(t)
      BY <1>4, <3>1, OwnSame, CheckSame DEF StateOK, SameRest
    <3>3. QED BY <1>0, <3>1, <3>2 DEF StateOK, SameCore, SameOther
  <2>6. CASE t = Fail(s, "movedToBadState")
    <3>1. /\ "movedToBadState" \in Failures
          /\ "movedToBadState" \notin LocalAssertions
      BY DEF Failures, LocalAssertions
    <3>2. QED BY <1>1, <2>6, <3>1 DEF t
  <2>7. CASE t = finishEmit(n, recordEnvelope(s, st), st, canEmit, check)
    <3> DEFINE u == recordEnvelope(s, st)
    <3>1. /\ u \in NodeState /\ SameCore(s, u) /\ SameOther(s, u)
          /\ u.lastEnvelope = s.lastEnvelope /\ u.stack = s.stack
          /\ u.lastEnvelopeEmit = s.lastEnvelopeEmit
      BY <1>0, <2>2 DEF recordEnvelope, NodeState, SameCore, SameOther
    <3> HIDE DEF u
    <3>2. StateOK(u)
      BY <1>0, <1>4, <3>1, OwnSame, CheckSame DEF StateOK, SameCore, SameOther
    <3>3. StateOK(t)
      BY <2>2, <2>3, <2>7, <3>2, FinishOK DEF u
    <3>4. SameCore(u, t) /\ SameOther(u, t)
      BY <2>2, <2>3, <2>7, <3>1, FinishFacts DEF u, Finished
    <3>5. QED BY <3>1, <3>3, <3>4 DEF SameCore, SameOther
  <2>8. CASE t = recordAndAdvance(n, s, st, TRUE, canEmit, check)
    <3>0. PICK f \in Frame :
            f = [hint |-> st, pc |-> "acceptPrepared", work |-> FALSE,
                 self |-> TRUE, canEmit |-> canEmit, check |-> check]
      BY <2>2, <2>3 DEF Frame
    <3>a. /\ f.hint = st /\ f.pc = "acceptPrepared" /\ f.work = FALSE
          /\ f.self = TRUE /\ f.canEmit = canEmit /\ f.check = check
      BY <3>0
    <3>b. t = recordAndAdvance(n, s, f.hint, f.self, f.canEmit, f.check)
      BY <2>8, <3>a
    <3>c. f.hint = st /\ f.pc = "acceptPrepared" /\ ~f.work
      BY <3>a
    <3>d. Pushed(n, s, f, t)
      BY <1>0, <3>b, <3>c, RecordAndAdvanceFacts
    <3>1. /\ t \in NodeState /\ SameCore(s, t) /\ t.ext = s.ext
          /\ t.lastEnvelope = s.lastEnvelope
          /\ t.lastEnvelopeEmit = s.lastEnvelopeEmit
          /\ Len(t.stack) = Len(s.stack) + 1 /\ Len(s.stack) \in Nat
          /\ \A j \in 1 .. Len(s.stack) : t.stack[j] = s.stack[j]
          /\ t.stack[Len(s.stack) + 1] = f
          /\ t.bad \in {s.bad, "maxTransitions"}
      BY <3>d DEF Pushed
    <3>2. OwnRestorable(t)
      <4>1. ASSUME NEW i \in 1 .. Len(t.stack)
            PROVE  /\ t.stack[i].self => Restorable(t.stack[i].hint)
                   /\ Votable(t.stack[i].hint)
        <5>1. CASE i \in 1 .. Len(s.stack)
          BY <3>1, <4>1, <5>1 DEF StateOK, OwnRestorable
        <5>2. CASE i = Len(s.stack) + 1
          BY <2>2, <3>a, <3>1, <5>2 DEF Restorable, Votable
        <5>3. Len(t.stack) = Len(s.stack) + 1 /\ Len(s.stack) \in Nat
          BY <3>1
        <5>4. QED BY <5>1, <5>2, <5>3, SMT
      <4>2. QED BY <3>1, <4>1 DEF StateOK, OwnRestorable
    <3>3. checkInvariants(t)
      BY <1>4, <3>1, CheckSame
    <3>4. t.bad \notin LocalAssertions
      BY <1>0, <3>1 DEF LocalAssertions
    <3>5. QED BY <1>0, <3>1, <3>2, <3>3, <3>4 DEF StateOK, SameCore
  <2>9. QED BY <2>1, <2>4, <2>5, <2>6, <2>7, <2>8 DEF t
<1>5. QED BY <1>2, <1>3, <1>4

-----------------------------------------------------------------------------
(* The ballots an attempt looks at.                                        *)

(* The extreme ballots of a set are members of it.                         *)
LEMMA ExtremeIn ==
  ASSUME NEW S
  PROVE  /\ HasMax(S) => /\ MaxBallot(S) \in S
                         /\ \A y \in S : LessEq(y, MaxBallot(S))
         /\ HasMin(S) => /\ MinBallot(S) \in S
                         /\ \A y \in S : LessEq(MinBallot(S), y)
BY DEF HasMax, MaxBallot, HasMin, MinBallot

(* The fields of a statement, by its type.                                 *)
LEMMA StatementFields ==
  ASSUME NEW st \in Statement
  PROVE  /\ IsPrepare(st) \/ IsConfirm(st) \/ IsExternalize(st)
         /\ IsPrepare(st) => /\ st.b \in BallotOrNull /\ st.p \in BallotOrNull
                             /\ st.pp \in BallotOrNull /\ st.nC \in Counter
                             /\ st.nH \in Counter /\ st \in Prepare
                             /\ ~IsConfirm(st) /\ ~IsExternalize(st)
         /\ IsConfirm(st) => /\ st.b \in Ballot
                             /\ st.nPrepared \in Counter \ {0}
                             /\ st.nCommit \in Counter \ {0}
                             /\ st.nH \in Counter \ {0} /\ st \in Confirm
                             /\ ~IsPrepare(st) /\ ~IsExternalize(st)
         /\ IsExternalize(st) => /\ st.commit \in Ballot
                                 /\ st.nH \in Counter \ {0}
                                 /\ st \in Externalize
                                 /\ ~IsPrepare(st) /\ ~IsConfirm(st)
         /\ st.node \in Node
BY DEF Statement, Prepare, Confirm, Externalize, IsPrepare, IsConfirm,
       IsExternalize

(* HintBallots are ballots, or the null one of the node's own statement.   *)
LEMMA HintBallotsType ==
  ASSUME NEW st \in Statement
  PROVE  HintBallots(st) \subseteq BallotOrNull
<1>1. UINT32_MAX \in Counter /\ UINT32_MAX # 0
  BY CounterAssumption, SMT DEF Counter
<1>2. CASE IsPrepare(st)
  BY <1>2, StatementFields DEF HintBallots
<1>3. CASE IsConfirm(st)
  <2>1. st.b.value \in Value
    BY <1>3, StatementFields DEF Ballot
  <2>2. HintBallots(st) = {makeBallot(st.nPrepared, st.b.value),
                           makeBallot(UINT32_MAX, st.b.value)}
    BY <1>3, StatementFields DEF HintBallots
  <2>3. QED BY <1>1, <1>3, <2>1, <2>2, StatementFields, MakeBallot
<1>4. CASE IsExternalize(st)
  <2>1. st.commit.value \in Value
    BY <1>4, StatementFields DEF Ballot
  <2>2. HintBallots(st) = {makeBallot(UINT32_MAX, st.commit.value)}
    BY <1>4, StatementFields DEF HintBallots
  <2>3. QED BY <1>1, <2>1, <2>2, MakeBallot
<1>5. QED BY <1>2, <1>3, <1>4, StatementFields

(* The candidates of one statement below a top vote are ballots.           *)
LEMMA CandidatesOfType ==
  ASSUME NEW st \in Statement, NEW top \in BallotOrNull
  PROVE  CandidatesOf(st, top) \subseteq BallotOrNull
<1>2. CASE IsPrepare(st)
  BY <1>2, StatementFields DEF CandidatesOf
<1>3. CASE IsConfirm(st)
  <2>1. st.b.value \in Value
    BY <1>3, StatementFields DEF Ballot
  <2>2. CandidatesOf(st, top) =
          {x \in {top, makeBallot(st.nPrepared, top.value)} :
            areBallotsCompatible(top, st.b) /\ LessEq(x, top)}
    BY <1>3, StatementFields DEF CandidatesOf
  <2>3. CASE top.value = st.b.value
    BY <1>3, <2>1, <2>2, <2>3, StatementFields, MakeBallot
  <2>4. CASE top.value # st.b.value
    BY <2>2, <2>4 DEF areBallotsCompatible
  <2>5. QED BY <2>3, <2>4
<1>4. CASE IsExternalize(st)
  BY <1>4, StatementFields DEF CandidatesOf
<1>5. QED BY <1>2, <1>3, <1>4, StatementFields

(* What is known of a node is a statement.                                 *)
LEMMA KnownStatement ==
  ASSUME NEW s \in NodeState, NEW m \in Known(s)
  PROVE  m \in Node /\ s.M[m] \in Statement
BY DEF Known, NodeState

(* All the candidates are ballots.                                         *)
LEMMA CandidatesType ==
  ASSUME NEW s \in NodeState, NEW hint \in Statement
  PROVE  getPrepareCandidates(s, hint) \subseteq BallotOrNull
<1>1. \A m \in Known(s), top \in HintBallots(hint) :
        CandidatesOf(s.M[m], top) \subseteq BallotOrNull
  BY KnownStatement, HintBallotsType, CandidatesOfType
<1>2. QED BY <1>1, SMT DEF getPrepareCandidates

(* No statement says that the null ballot is prepared, so that no quorum   *)
(* confirms it.                                                            *)
LEMMA NullNotRatified ==
  ASSUME NEW n \in Node, NEW s \in NodeState
  PROVE  ~federatedRatify(n, s, acceptedPrepared(s, NullBallot))
<1>1. \A st \in Statement : ~hasPreparedBallot(NullBallot, st)
  <2> SUFFICES ASSUME NEW st \in Statement
               PROVE  ~hasPreparedBallot(NullBallot, st)
    OBVIOUS
  <2>0. NullBallot.value = 0
    BY DEF NullBallot
  <2>1. CASE IsPrepare(st)
    <3>1. \A x \in {st.p, st.pp} \ {NullBallot} : x.value # 0
      BY <2>1, StatementFields, BallotFields
    <3>2. QED BY <2>0, <2>1, <3>1, StatementFields
                 DEF hasPreparedBallot, areBallotsLessAndCompatible,
                     areBallotsCompatible
  <2>2. CASE IsConfirm(st)
    <3>1. st.b.value # 0
      BY <2>2, StatementFields, BallotFields, MakeBallot
    <3>2. QED BY <2>0, <2>2, <3>1, StatementFields
                 DEF hasPreparedBallot, areBallotsLessAndCompatible,
                     areBallotsCompatible, makeBallot
  <2>3. CASE IsExternalize(st)
    <3>1. st.commit.value # 0
      BY <2>3, StatementFields, BallotFields, MakeBallot
    <3>2. QED BY <2>0, <2>3, <3>1, StatementFields
                 DEF hasPreparedBallot, areBallotsCompatible
  <2>4. QED BY <2>1, <2>2, <2>3, StatementFields
<1>2. acceptedPrepared(s, NullBallot) = {}
  BY <1>1, KnownStatement DEF acceptedPrepared
<1>3. QED BY <1>2, SliceAssumption DEF federatedRatify, isQuorum

-----------------------------------------------------------------------------
(* The attempts.                                                           *)

(* What every attempt leaves alone.                                        *)
Attempted(s, t) == t \in NodeState /\ SameRest(s, t) /\ t.cand = s.cand

(* t is s with the ballot x accepted as prepared, in p or in p'.           *)
AcceptedPrepared(s, x, t) ==
  /\ \/ t.p = x /\ t.pp \in {s.p, s.pp}
     \/ t.p = s.p /\ t.pp = x
  /\ s.phase = "CONFIRM" => t.p = x /\ t.pp = s.pp /\ s.p.value = x.value
  /\ s.p # NullBallot => t.p # NullBallot
  /\ t.p = NullBallot => t.pp = NullBallot
  /\ t.p # NullBallot /\ t.pp # NullBallot =>
       areBallotsLessAndIncompatible(t.pp, t.p)

(* attemptAcceptPrepared: some ballot that may raise p or p', and that the *)
(* node may accept, is accepted; c is reset when h is ruled out.           *)
AttemptedAcceptPrepared(n, s, t) ==
  /\ Attempted(s, t) /\ t.ext = s.ext /\ t.z = s.z
  /\ t.b = s.b /\ t.h = s.h /\ t.phase = s.phase
  /\ t.bad \in {s.bad, "cClearedLate", "pNotCompatibleWithC"}
  /\ \/ t.p = s.p /\ t.pp = s.pp
     \/ \E x \in Ballot :
          /\ federatedAccept(n, s, {m \in Known(s) : votesPrepared(x, s.M[m])},
                             acceptedPrepared(s, x))
          /\ AcceptedPrepared(s, x, t)
  /\ \/ t.c = s.c
     \/ /\ t.c = NullBallot
        /\ s.phase = "PREPARE" \/ ~Alive(t)
        /\ \E y \in {t.p, t.pp} \ {NullBallot} :
             areBallotsLessAndIncompatible(s.h, y)

(* setPrepared keeps p and p' the two highest incompatible ballots.        *)
LEMMA SetPreparedFacts ==
  ASSUME NEW s \in NodeState, NEW x \in BallotOrNull,
         s.phase = "CONFIRM" => areBallotsLessAndCompatible(s.p, x),
         s.pp # NullBallot => Less(s.pp, x),
         s.p # NullBallot => ~areBallotsLessAndCompatible(x, s.p),
         s.p = NullBallot => s.pp = NullBallot,
         s.p # NullBallot /\ s.pp # NullBallot =>
           areBallotsLessAndIncompatible(s.pp, s.p)
  PROVE  LET t == setPrepared(s, x)
         IN  /\ t \in NodeState /\ SameRest(s, t) /\ SameOther(s, t)
             /\ t.b = s.b /\ t.h = s.h /\ t.c = s.c /\ t.phase = s.phase
             /\ \/ t.p = s.p /\ t.pp = s.pp
                \/ x \in Ballot /\ AcceptedPrepared(s, x, t)
             /\ t = s \/ t.p # s.p \/ t.pp # s.pp
<1> DEFINE t == setPrepared(s, x)
<1> SUFFICES /\ t \in NodeState /\ SameRest(s, t) /\ SameOther(s, t)
             /\ t.b = s.b /\ t.h = s.h /\ t.c = s.c /\ t.phase = s.phase
             /\ \/ t.p = s.p /\ t.pp = s.pp
                \/ x \in Ballot /\ AcceptedPrepared(s, x, t)
             /\ t = s \/ t.p # s.p \/ t.pp # s.pp
  OBVIOUS
<1>1. s.p \in BallotOrNull /\ s.pp \in BallotOrNull
  BY DEF NodeState
<1>2. PICK p \in BallotOrNull, pp \in BallotOrNull :
        /\ t = [s EXCEPT !.p = p, !.pp = pp]
        /\ \/ s.p = NullBallot /\ p = x /\ pp = s.pp
           \/ /\ s.p # NullBallot /\ Less(s.p, x) /\ p = x
              /\ pp = IF areBallotsCompatible(s.p, x) THEN s.pp ELSE s.p
           \/ /\ s.p # NullBallot /\ Less(x, s.p) /\ p = s.p /\ pp = x
              /\ ~areBallotsCompatible(s.p, x)
           \/ p = s.p /\ pp = s.pp
  <2>1. CASE s.p = NullBallot
    <3>1. t = [s EXCEPT !.p = x, !.pp = s.pp]
      BY <2>1 DEF setPrepared, NodeState
    <3>2. QED BY <1>1, <2>1, <3>1
  <2>2. CASE s.p # NullBallot /\ Less(s.p, x)
    <3>1. t = [s EXCEPT !.p = x, !.pp = IF areBallotsCompatible(s.p, x)
                                        THEN s.pp ELSE s.p]
      BY <2>2 DEF setPrepared, NodeState
    <3>2. QED BY <1>1, <2>2, <3>1
  <2>3. CASE /\ s.p # NullBallot /\ ~Less(s.p, x)
             /\ Less(x, s.p)
             /\ \/ s.pp = NullBallot
                \/ Less(s.pp, x) /\ ~areBallotsCompatible(s.p, x)
    <3>1. t = [s EXCEPT !.p = s.p, !.pp = x]
      BY <2>3 DEF setPrepared, NodeState
    <3>2. ~areBallotsCompatible(s.p, x)
      BY <2>3 DEF areBallotsLessAndCompatible, areBallotsCompatible, LessEq
    <3>3. QED BY <1>1, <2>3, <3>1, <3>2
  <2>4. CASE t = s
    <3>1. t = [s EXCEPT !.p = s.p, !.pp = s.pp]
      BY <2>4 DEF NodeState
    <3>2. QED BY <1>1, <3>1
  <2>5. QED BY <2>1, <2>2, <2>3, <2>4 DEF setPrepared
<1>3. /\ t \in NodeState /\ SameRest(s, t) /\ SameOther(s, t)
      /\ t.b = s.b /\ t.h = s.h /\ t.c = s.c /\ t.phase = s.phase
      /\ t.p = p /\ t.pp = pp
  <2>1. t \in NodeState
    BY <1>2, ZenonT(40) DEF NodeState
  <2>2. SameRest(s, t) /\ SameOther(s, t)
    BY <1>2 DEF NodeState, SameRest, SameOther
  <2>3. /\ t.b = s.b /\ t.h = s.h /\ t.c = s.c /\ t.phase = s.phase
        /\ t.p = p /\ t.pp = pp
    BY <1>2 DEF NodeState
  <2> QED
    BY <2>1, <2>2, <2>3
<1>4. t = s \/ p # s.p \/ pp # s.pp
  <2>1. [s EXCEPT !.p = s.p, !.pp = s.pp] = s
    BY DEF NodeState
  <2>2. QED BY <1>2, <2>1
<1> HIDE DEF t
<1>5. CASE x = NullBallot
  <2>2. ~Less(s.p, x) /\ (s.pp = NullBallot)
    BY <1>1, <1>5, BallotFields, SMT DEF Less, NullBallot
  <2>3. p = s.p /\ pp = s.pp
    BY <1>2, <1>5, <2>2
  <2>4. QED BY <1>3, <1>4, <2>3
<1>6. CASE x \in Ballot
  <2>1. x # NullBallot /\ x \in BallotOrNull
    BY <1>6, MakeBallot
  <2>2. s.phase = "CONFIRM" => LessEq(s.p, x) /\ s.p.value = x.value
    BY DEF areBallotsLessAndCompatible, areBallotsCompatible
  <2>3. (p = s.p /\ pp = s.pp) \/ AcceptedPrepared(s, x, t)
    <3>1. CASE s.p = NullBallot /\ p = x /\ pp = s.pp
      <4>1. s.phase # "CONFIRM"
        BY <2>2, <3>1, <1>6, BallotFields, MakeBallot DEF NullBallot
      <4>2. QED BY <1>3, <2>1, <3>1, <4>1 DEF AcceptedPrepared
    <3>2. CASE /\ s.p # NullBallot /\ Less(s.p, x) /\ p = x
               /\ pp = IF areBallotsCompatible(s.p, x) THEN s.pp ELSE s.p
      <4>1. CASE areBallotsCompatible(s.p, x)
        <5>1. pp = s.pp
          BY <3>2, <4>1
        <5>2. pp # NullBallot => areBallotsLessAndIncompatible(pp, x)
          BY <1>1, <2>1, <3>2, <4>1, <5>1, BallotOrder
             DEF areBallotsLessAndIncompatible, areBallotsCompatible
        <5>3. QED BY <1>3, <2>1, <2>2, <3>2, <5>1, <5>2 DEF AcceptedPrepared
      <4>2. CASE ~areBallotsCompatible(s.p, x)
        <5>1. pp = s.p /\ s.phase # "CONFIRM"
          BY <2>2, <3>2, <4>2 DEF areBallotsCompatible
        <5>2. areBallotsLessAndIncompatible(pp, x)
          BY <3>2, <4>2, <5>1 DEF areBallotsLessAndIncompatible, LessEq
        <5>3. QED BY <1>3, <2>1, <3>2, <5>1, <5>2 DEF AcceptedPrepared
      <4>3. QED BY <4>1, <4>2
    <3>3. CASE /\ s.p # NullBallot /\ Less(x, s.p) /\ p = s.p /\ pp = x
               /\ ~areBallotsCompatible(s.p, x)
      <4>1. s.phase # "CONFIRM"
        BY <2>2, <3>3 DEF areBallotsCompatible
      <4>2. areBallotsLessAndIncompatible(x, s.p)
        BY <3>3 DEF areBallotsLessAndIncompatible, LessEq, areBallotsCompatible
      <4>3. QED BY <1>3, <2>1, <3>3, <4>1, <4>2 DEF AcceptedPrepared
    <3>4. QED BY <1>2, <3>1, <3>2, <3>3
  <2>4. QED BY <1>3, <1>4, <1>6, <2>3
<1>7. QED BY <1>5, <1>6 DEF BallotOrNull

(* The result of an attempt: a state, and whether it did work.             *)
Result(s, r) ==
  /\ r = <<r[1], r[2]>> /\ r[2] \in BOOLEAN
  /\ r[2] \/ SameCore(s, r[1])

(* setAcceptPrepared sets p and p', and resets c when h is contradicted.   *)
LEMMA SetAcceptPreparedFacts ==
  ASSUME NEW s \in NodeState, NEW x \in BallotOrNull,
         s.phase = "CONFIRM" => areBallotsLessAndCompatible(s.p, x),
         s.pp # NullBallot => Less(s.pp, x),
         s.p # NullBallot => ~areBallotsLessAndCompatible(x, s.p),
         s.p = NullBallot => s.pp = NullBallot,
         s.p # NullBallot /\ s.pp # NullBallot =>
           areBallotsLessAndIncompatible(s.pp, s.p)
  PROVE  LET r == setAcceptPrepared(s, x)
             t == r[1]
         IN  /\ Result(s, r)
             /\ Attempted(s, t) /\ t.ext = s.ext /\ t.z = s.z
             /\ t.b = s.b /\ t.h = s.h /\ t.phase = s.phase
             /\ t.bad \in {s.bad, "cClearedLate"}
             /\ \/ t.p = s.p /\ t.pp = s.pp
                \/ x \in Ballot /\ AcceptedPrepared(s, x, t)
             /\ \/ t.c = s.c
                \/ /\ t.c = NullBallot
                   /\ s.phase = "PREPARE" \/ ~Alive(t)
                   /\ \E y \in {t.p, t.pp} \ {NullBallot} :
                        areBallotsLessAndIncompatible(s.h, y)
<1> DEFINE r == setAcceptPrepared(s, x)
           t == r[1]
           u == setPrepared(s, x)
           clear == /\ u.c # NullBallot /\ u.h # NullBallot
                    /\ \E y \in {u.p, u.pp} \ {NullBallot} :
                         areBallotsLessAndIncompatible(u.h, y)
           w == dbgAssert(u, clear => u.phase = "PREPARE", "cClearedLate")
<1>1. /\ u \in NodeState /\ SameRest(s, u) /\ SameOther(s, u)
      /\ u.b = s.b /\ u.h = s.h /\ u.c = s.c /\ u.phase = s.phase
      /\ \/ u.p = s.p /\ u.pp = s.pp
         \/ x \in Ballot /\ AcceptedPrepared(s, x, u)
      /\ u = s \/ u.p # s.p \/ u.pp # s.pp
  BY SetPreparedFacts
<1>2. r = IF clear THEN <<[w EXCEPT !.c = NullBallot], TRUE>>
          ELSE <<u, u # s>>
  BY DEF setAcceptPrepared
<1> HIDE DEF r, u, clear
<1>3. CASE ~clear
  <2>1. r = <<u, u # s>> /\ t = u /\ r[2] = (u # s)
    BY <1>2, <1>3
  <2>2. Result(s, r)
    BY <1>1, <2>1 DEF Result, SameCore
  <2>3. QED BY <1>1, <2>1, <2>2 DEF Attempted, SameOther, r
<1>4. CASE clear
  <2>1. /\ w \in NodeState /\ SameCore(u, w) /\ SameRest(u, w)
        /\ w.ext = u.ext /\ w.z = u.z /\ w.cand = u.cand
        /\ w.bad \in {u.bad, "cClearedLate"}
        /\ u.phase = "PREPARE" \/ w.bad # ""
    <3>1. CASE u.phase = "PREPARE"
      BY <1>1, <3>1 DEF dbgAssert, SameCore, SameRest
    <3>2. CASE u.phase # "PREPARE"
      <4>1. w = Fail(u, "cClearedLate")
        BY <1>4, <3>2 DEF dbgAssert
      <4>2. "cClearedLate" \in Failures
        BY DEF Failures
      <4> HIDE DEF w
      <4>3. QED BY <1>1, <4>1, <4>2, FailFacts
    <3>3. QED BY <3>1, <3>2
  <2> HIDE DEF w
  <2>a. w \in NodeState /\ NullBallot \in BallotOrNull
    BY <2>1, MakeBallot
  <2> DEFINE y == [w EXCEPT !.c = NullBallot]
  <2>2. r = <<y, TRUE>> /\ t = y /\ r[2] = TRUE
    BY <1>2, <1>4
  <2>b. y \in NodeState
    BY <2>a DEF NodeState
  <2>3. /\ y \in NodeState /\ SameRest(w, y) /\ SameOther(w, y)
        /\ y.b = w.b /\ y.p = w.p /\ y.pp = w.pp /\ y.h = w.h
        /\ y.phase = w.phase /\ y.c = NullBallot
    BY <2>a, <2>b DEF NodeState, SameRest, SameOther
  <2> HIDE DEF y
  <2>4. Result(s, r)
    BY <2>2 DEF Result
  <2>5. \/ y.p = s.p /\ y.pp = s.pp
        \/ x \in Ballot /\ AcceptedPrepared(s, x, y)
    BY <1>1, <2>1, <2>3 DEF SameCore, AcceptedPrepared
  <2>6. \E z \in {y.p, y.pp} \ {NullBallot} :
          areBallotsLessAndIncompatible(s.h, z)
    BY <1>1, <1>4, <2>1, <2>3 DEF clear, SameCore
  <2>7. Attempted(s, y) /\ y.ext = s.ext /\ y.z = s.z
    BY <1>1, <2>1, <2>3 DEF Attempted, SameRest, SameOther
  <2>8. /\ y.b = s.b /\ y.h = s.h /\ y.phase = s.phase
        /\ y.bad \in {s.bad, "cClearedLate"}
        /\ s.phase = "PREPARE" \/ ~Alive(y)
    BY <1>1, <2>1, <2>3 DEF SameCore, SameOther, Alive
  <2>9. QED BY <2>2, <2>3, <2>4, <2>5, <2>6, <2>7, <2>8 DEF r
<1>5. QED BY <1>3, <1>4

(* attemptAcceptPrepared leaves the state, or sets a ballot that is        *)
(* accepted as prepared.                                                   *)
LEMMA AttemptAcceptPreparedFacts ==
  ASSUME NEW n \in Node, NEW s \in NodeState, NEW hint \in Statement,
         Consistent(s)
  PROVE  LET r == attemptAcceptPrepared(n, s, hint)
         IN  Result(s, r) /\ AttemptedAcceptPrepared(n, s, r[1])
<1> DEFINE r == attemptAcceptPrepared(n, s, hint)
           candidates == getPrepareCandidates(s, hint)
           acceptable ==
             {x \in MayPrepare(s, candidates) :
                federatedAccept(n, s,
                  {m \in Known(s) : votesPrepared(x, s.M[m])},
                  acceptedPrepared(s, x))}
           compatible == s.phase = "CONFIRM" => \A x \in candidates :
                           areBallotsLessAndCompatible(s.p, x) =>
                             areBallotsCompatible(s.c, x)
           s1 == dbgAssert(s, compatible, "pNotCompatibleWithC")
<1>1. r = IF s.phase = "EXTERNALIZE" THEN <<s, FALSE>>
          ELSE IF HasMax(acceptable)
          THEN setAcceptPrepared(s1, MaxBallot(acceptable))
          ELSE <<s1, FALSE>>
  BY DEF attemptAcceptPrepared
<1>2. /\ s1 \in NodeState /\ SameCore(s, s1) /\ SameRest(s, s1)
      /\ s1.ext = s.ext /\ s1.z = s.z /\ s1.cand = s.cand
      /\ s1.bad \in {s.bad, "pNotCompatibleWithC"}
  <2>1. CASE s1 = s
    BY <2>1 DEF SameCore, SameRest
  <2>2. CASE s1 = Fail(s, "pNotCompatibleWithC")
    <3>1. "pNotCompatibleWithC" \in Failures
      BY DEF Failures
    <3> HIDE DEF s1
    <3>2. QED BY <2>2, <3>1, FailFacts
  <2>3. QED BY <2>1, <2>2 DEF dbgAssert
<1>3. candidates \subseteq BallotOrNull
  BY CandidatesType
<1> HIDE DEF r, s1, candidates
<1>4. CASE s.phase = "EXTERNALIZE"
  <2>1. r = <<s, FALSE>> /\ r[1] = s /\ r[2] = FALSE
    BY <1>1, <1>4
  <2>2. Result(s, r)
    BY <2>1 DEF Result, SameCore
  <2>3. AttemptedAcceptPrepared(n, s, s)
    BY DEF AttemptedAcceptPrepared, Attempted, SameRest
  <2>4. QED BY <2>1, <2>2, <2>3 DEF r
<1>5. CASE s.phase # "EXTERNALIZE" /\ ~HasMax(acceptable)
  <2>1. r = <<s1, FALSE>> /\ r[1] = s1 /\ r[2] = FALSE
    BY <1>1, <1>5
  <2>2. Result(s, r)
    BY <1>2, <2>1 DEF Result
  <2>3. AttemptedAcceptPrepared(n, s, s1)
    BY <1>2 DEF AttemptedAcceptPrepared, Attempted, SameCore
  <2>4. QED BY <2>1, <2>2, <2>3 DEF r
<1>6. CASE s.phase # "EXTERNALIZE" /\ HasMax(acceptable)
  <2> DEFINE x == MaxBallot(acceptable)
  <2>1. x \in acceptable
    BY <1>6, ExtremeIn
  <2>2. /\ x \in MayPrepare(s, candidates)
        /\ federatedAccept(n, s,
             {m \in Known(s) : votesPrepared(x, s.M[m])},
             acceptedPrepared(s, x))
    BY <2>1
  <2>3. r = setAcceptPrepared(s1, x)
    BY <1>1, <1>6
  <2> HIDE DEF x, acceptable
  <2>4. /\ x \in BallotOrNull
        /\ s1.phase = "CONFIRM" => areBallotsLessAndCompatible(s1.p, x)
        /\ s1.pp # NullBallot => Less(s1.pp, x)
        /\ s1.p # NullBallot => ~areBallotsLessAndCompatible(x, s1.p)
        /\ s1.p = NullBallot => s1.pp = NullBallot
        /\ s1.p # NullBallot /\ s1.pp # NullBallot =>
             areBallotsLessAndIncompatible(s1.pp, s1.p)
    BY <1>2, <1>3, <2>2 DEF MayPrepare, SameCore, Consistent, checkInvariants
  <2> DEFINE t == r[1]
  <2>5. /\ Result(s1, r)
        /\ Attempted(s1, t) /\ t.ext = s1.ext /\ t.z = s1.z
        /\ t.b = s1.b /\ t.h = s1.h /\ t.phase = s1.phase
        /\ t.bad \in {s1.bad, "cClearedLate"}
        /\ \/ t.p = s1.p /\ t.pp = s1.pp
           \/ x \in Ballot /\ AcceptedPrepared(s1, x, t)
        /\ \/ t.c = s1.c
           \/ /\ t.c = NullBallot
              /\ s1.phase = "PREPARE" \/ ~Alive(t)
              /\ \E y \in {t.p, t.pp} \ {NullBallot} :
                   areBallotsLessAndIncompatible(s1.h, y)
    BY <1>2, <2>3, <2>4, SetAcceptPreparedFacts
  <2> HIDE DEF t
  <2>6. Result(s, r)
    BY <1>2, <2>5 DEF Result, SameCore
  <2>7. \/ t.p = s.p /\ t.pp = s.pp
        \/ x \in Ballot /\ AcceptedPrepared(s, x, t)
    BY <1>2, <2>5 DEF SameCore, AcceptedPrepared
  <2>8. /\ Attempted(s, t) /\ t.ext = s.ext /\ t.z = s.z
        /\ t.b = s.b /\ t.h = s.h /\ t.phase = s.phase
        /\ t.bad \in {s.bad, "cClearedLate", "pNotCompatibleWithC"}
    BY <1>2, <2>5 DEF SameCore, SameRest, Attempted
  <2>9. \/ t.c = s.c
        \/ /\ t.c = NullBallot
           /\ s.phase = "PREPARE" \/ ~Alive(t)
           /\ \E y \in {t.p, t.pp} \ {NullBallot} :
                areBallotsLessAndIncompatible(s.h, y)
    BY <1>2, <2>5 DEF SameCore
  <2>10. AttemptedAcceptPrepared(n, s, t)
    BY <2>2, <2>7, <2>8, <2>9 DEF AttemptedAcceptPrepared
  <2>11. QED BY <2>6, <2>10 DEF r, t
<1>7. QED BY <1>4, <1>5, <1>6

(* checkInvariants holds after attemptAcceptPrepared, unless the node has  *)
(* stopped.                                                                *)
LEMMA AcceptPreparedConsistent ==
  ASSUME NEW n \in Node, NEW s \in NodeState, NEW t, Consistent(s),
         AttemptedAcceptPrepared(n, s, t)
  PROVE  /\ t.p = NullBallot => t.pp = NullBallot
         /\ Alive(t) => checkInvariants(t)
<1>1. /\ t.p = NullBallot => t.pp = NullBallot
      /\ t.p # NullBallot /\ t.pp # NullBallot =>
           areBallotsLessAndIncompatible(t.pp, t.p)
  BY DEF AttemptedAcceptPrepared, Consistent, checkInvariants, AcceptedPrepared
<1>2. t.b = s.b /\ t.h = s.h /\ t.phase = s.phase
  BY DEF AttemptedAcceptPrepared
<1>3. CASE t.c = s.c
  BY <1>1, <1>2, <1>3 DEF Consistent, checkInvariants
<1>4. CASE t.c = NullBallot /\ (s.phase = "PREPARE" \/ ~Alive(t))
  BY <1>1, <1>2, <1>4 DEF Consistent, checkInvariants
<1>5. QED BY <1>3, <1>4 DEF AttemptedAcceptPrepared

-----------------------------------------------------------------------------
(* The highest and the lowest ballot an attempt may confirm as prepared.   *)
Confirmable(n, s, newC, newH) ==
  /\ s.phase = "PREPARE" /\ s.p # NullBallot
  /\ newH \in Ballot /\ newC \in BallotOrNull
  /\ s.h # NullBallot => Less(s.h, newH)
  /\ federatedRatify(n, s, acceptedPrepared(s, newH))
  /\ newC # NullBallot =>
       /\ s.c = NullBallot /\ LessEq(s.b, newC)
       /\ areBallotsLessAndCompatible(newC, newH)
       /\ federatedRatify(n, s, acceptedPrepared(s, newC))
       /\ \A x \in {s.p, s.pp} \ {NullBallot} :
            ~areBallotsLessAndIncompatible(newH, x)

(* t is s with newC to newH confirmed: h, and c, are set when the current  *)
(* ballot is compatible; a lower incompatible one is left, and h and c     *)
(* with it.                                                                *)
ConfirmedPrepared(s, newC, newH, t) ==
  \/ /\ s.b = NullBallot \/ areBallotsCompatible(s.b, newH)
     /\ t.h = newH /\ t.c = IF newC # NullBallot THEN newC ELSE s.c
     /\ t.b = IF s.b = NullBallot \/ Less(s.b, newH) THEN newH ELSE s.b
  \/ /\ s.b # NullBallot /\ ~areBallotsCompatible(s.b, newH)
     /\ Less(s.b, newH)
     /\ t.h = NullBallot /\ t.c = NullBallot /\ t.b = newH

(* attemptConfirmPrepared.                                                 *)
AttemptedConfirmPrepared(n, s, t) ==
  /\ Attempted(s, t) /\ t.ext = s.ext /\ t.bad = s.bad
  /\ t.p = s.p /\ t.pp = s.pp /\ t.phase = s.phase
  /\ \/ SameCore(s, t)
     \/ \E newC, newH : /\ Confirmable(n, s, newC, newH)
                        /\ ConfirmedPrepared(s, newC, newH, t)

(* setConfirmPrepared sets h, and c if it was null and may be set.         *)
LEMMA SetConfirmPreparedFacts ==
  ASSUME NEW n \in Node, NEW s \in NodeState, NEW newC, NEW newH,
         Consistent(s), Confirmable(n, s, newC, newH)
  PROVE  LET r == setConfirmPrepared(s, newC, newH)
         IN  Result(s, r) /\ AttemptedConfirmPrepared(n, s, r[1])
<1> DEFINE r == setConfirmPrepared(s, newC, newH)
           compat == s.b = NullBallot \/ areBallotsCompatible(s.b, newH)
           raise == compat /\ (s.h = NullBallot \/ Less(s.h, newH))
           commit == compat /\ newC # NullBallot
           s1 == dbgAssert(s, commit => s.c = NullBallot, "cAlreadySet")
           h == IF raise THEN newH ELSE s.h
           c == IF commit THEN newC ELSE s.c
           s2 == [s EXCEPT !.z = newH.value, !.h = h, !.c = c]
           s3 == updateCurrentIfNeeded(s2, newH)
<1>1. /\ s.b \in BallotOrNull /\ s.h \in BallotOrNull /\ s.c \in BallotOrNull
      /\ newH \in Ballot /\ newC \in BallotOrNull /\ newH \in BallotOrNull
      /\ newH.value \in Value /\ s.phase = "PREPARE" /\ newH # NullBallot
  BY MakeBallot, BallotFields DEF NodeState, Confirmable
<1>2. r = <<s3, raise \/ commit \/ s3.b # s.b>>
  <2>1. s1 = s
    BY DEF dbgAssert, Confirmable
  <2>2. r = LET u == [s1 EXCEPT !.z = newH.value,
                       !.h = IF raise THEN newH ELSE @,
                       !.c = IF commit THEN newC ELSE @]
                v == updateCurrentIfNeeded(u, newH)
            IN  <<v, raise \/ commit \/ v.b # s.b>>
    BY DEF setConfirmPrepared
  <2>3. QED BY <2>1, <2>2
<1>3. h \in BallotOrNull /\ c \in BallotOrNull
  BY <1>1
<1>4. s2 \in NodeState
  <2> HIDE DEF h, c
  <2>1. QED BY <1>1, <1>3 DEF NodeState
<1>5. /\ SameRest(s, s2) /\ s2.bad = s.bad /\ s2.ext = s.ext
      /\ s2.cand = s.cand /\ s2.b = s.b /\ s2.p = s.p /\ s2.pp = s.pp
      /\ s2.phase = s.phase /\ s2.h = h /\ s2.c = c
  <2> HIDE DEF h, c
  <2>1. QED BY <1>4 DEF NodeState, SameRest
<1> DEFINE t == r[1]
<1>6. t = s3 /\ r[2] = (raise \/ commit \/ s3.b # s.b)
  BY <1>2, SMT
<1> HIDE DEF r, s2, t
<1>7. CASE compat
  <2>1. raise /\ h = newH
    BY <1>1, <1>7 DEF Confirmable
  <2>2. c = IF newC # NullBallot THEN newC ELSE s.c
    BY <1>7
  <2>3. /\ t \in NodeState /\ SameRest(s2, t)
        /\ t.b = IF s2.b = NullBallot \/ Less(s2.b, newH) THEN newH ELSE s2.b
        /\ t.p = s2.p /\ t.pp = s2.pp /\ t.h = s2.h /\ t.c = s2.c
        /\ t.phase = s2.phase
        /\ SameOther(s2, t)
    <3>1. s2.phase # "EXTERNALIZE"
      BY <1>1, <1>5
    <3>2. areBallotsCompatible(newH, s2.h)
      BY <1>5, <2>1 DEF areBallotsCompatible
    <3>3. QED BY <1>1, <1>4, <1>6, <3>1, <3>2, UpdateIfNeededFacts
  <2>4. ConfirmedPrepared(s, newC, newH, t)
    BY <1>5, <1>7, <2>1, <2>2, <2>3 DEF ConfirmedPrepared
  <2>5. Attempted(s, t) /\ t.ext = s.ext /\ t.bad = s.bad
    BY <1>5, <2>3 DEF Attempted, SameRest, SameOther
  <2>6. AttemptedConfirmPrepared(n, s, t)
    BY <1>5, <2>3, <2>4, <2>5 DEF AttemptedConfirmPrepared
  <2>7. Result(s, r)
    <3>1. r = <<t, r[2]>> /\ r[2]
      BY <1>2, <1>6, <2>1
    <3>2. QED BY <3>1 DEF Result, t
  <2>8. QED BY <2>6, <2>7 DEF r, t
<1>8. CASE ~compat
  <2>0. ~raise /\ ~commit /\ h = s.h /\ c = s.c
    BY <1>8
  <2>1. /\ s.h # NullBallot => ~areBallotsCompatible(newH, s.h)
        /\ s.c # NullBallot => s.h # NullBallot
    BY <1>8 DEF Consistent, checkInvariants, areBallotsLessAndCompatible,
                areBallotsCompatible
  <2>2. CASE Less(s.b, newH)
    <3>1. t = bumpToBallot(s2, newH, TRUE) /\ LessEq(s2.b, newH)
      BY <1>5, <1>6, <2>2 DEF updateCurrentIfNeeded, LessEq
    <3>2. s2.phase # "EXTERNALIZE"
      BY <1>1, <1>5
    <3> DEFINE lost == s2.h # NullBallot /\ ~areBallotsCompatible(newH, s2.h)
    <3>3. /\ t \in NodeState /\ SameRest(s2, t)
          /\ t.b = newH /\ t.p = s2.p /\ t.pp = s2.pp /\ t.phase = s2.phase
          /\ t.h = IF lost THEN NullBallot ELSE s2.h
          /\ t.c = IF lost THEN NullBallot ELSE s2.c
          /\ SameOther(s2, t)
      BY <1>1, <1>4, <3>1, <3>2, BumpFacts
    <3>4. t.h = NullBallot /\ t.c = NullBallot
      BY <1>5, <2>0, <2>1, <3>3
    <3>5. ConfirmedPrepared(s, newC, newH, t)
      BY <1>8, <2>2, <3>3, <3>4 DEF ConfirmedPrepared
    <3>6. Attempted(s, t) /\ t.ext = s.ext /\ t.bad = s.bad
      BY <1>5, <3>3 DEF Attempted, SameRest, SameOther
    <3>7. AttemptedConfirmPrepared(n, s, t)
      BY <1>5, <3>3, <3>5, <3>6 DEF AttemptedConfirmPrepared
    <3>8. Result(s, r)
      <4>1. newH # s.b
        BY <1>8 DEF areBallotsCompatible
      <4>2. r = <<t, r[2]>> /\ r[2]
        BY <1>2, <1>6, <3>3, <4>1
      <4>3. QED BY <4>2 DEF Result, t
    <3>9. QED BY <3>7, <3>8 DEF r, t
  <2>3. CASE ~Less(s.b, newH)
    <3>1. t = s2
      BY <1>5, <1>6, <1>8, <2>3 DEF updateCurrentIfNeeded
    <3>2. SameCore(s, t)
      BY <1>5, <2>0, <3>1 DEF SameCore
    <3>3. AttemptedConfirmPrepared(n, s, t)
      BY <1>4, <1>5, <3>1, <3>2 DEF AttemptedConfirmPrepared, Attempted
    <3>4. Result(s, r)
      BY <1>2, <1>6, <3>2 DEF Result, t
    <3>5. QED BY <3>3, <3>4 DEF r, t
  <2>4. QED BY <2>2, <2>3
<1>9. QED BY <1>7, <1>8

(* attemptConfirmPrepared leaves the state, or sets h and c from what is   *)
(* confirmed as prepared.                                                  *)
LEMMA AttemptConfirmPreparedFacts ==
  ASSUME NEW n \in Node, NEW s \in NodeState, NEW hint \in Statement,
         Consistent(s)
  PROVE  LET r == attemptConfirmPrepared(n, s, hint)
         IN  Result(s, r) /\ AttemptedConfirmPrepared(n, s, r[1])
<1> DEFINE r == attemptConfirmPrepared(n, s, hint)
           candidates == getPrepareCandidates(s, hint)
           confirmed == {x \in candidates :
                           /\ s.h # NullBallot => Less(s.h, x)
                           /\ federatedRatify(n, s, acceptedPrepared(s, x))}
           newH == MaxBallot(confirmed)
           mayCommit == /\ s.c = NullBallot
                        /\ \A x \in {s.p, s.pp} \ {NullBallot} :
                             ~areBallotsLessAndIncompatible(newH, x)
           newC == IF mayCommit THEN LowestConfirmed(n, s, newH, candidates)
                   ELSE NullBallot
           works == s.phase = "PREPARE" /\ s.p # NullBallot /\ HasMax(confirmed)
<1>1. r = IF works THEN setConfirmPrepared(s, newC, newH) ELSE <<s, FALSE>>
  BY DEF attemptConfirmPrepared
<1>2. candidates \subseteq BallotOrNull
  BY CandidatesType
<1>3. \A x \in candidates : federatedRatify(n, s, acceptedPrepared(s, x)) =>
        x \in Ballot
  BY <1>2, NullNotRatified DEF BallotOrNull
<1> HIDE DEF r, candidates
<1>4. CASE ~works
  <2>1. r = <<s, FALSE>> /\ r[1] = s /\ r[2] = FALSE
    BY <1>1, <1>4
  <2>2. Result(s, r)
    BY <2>1 DEF Result, SameCore
  <2>3. AttemptedConfirmPrepared(n, s, s)
    BY DEF AttemptedConfirmPrepared, Attempted, SameRest, SameCore
  <2>4. QED BY <2>1, <2>2, <2>3 DEF r
<1>5. CASE works
  <2>1. newH \in confirmed
    BY <1>5, ExtremeIn
  <2>2. /\ newH \in Ballot
        /\ s.h # NullBallot => Less(s.h, newH)
        /\ federatedRatify(n, s, acceptedPrepared(s, newH))
    BY <1>3, <2>1
  <2> HIDE DEF newH
  <2>3. newC = NullBallot \/
          /\ mayCommit
          /\ newC \in candidates /\ areBallotsLessAndCompatible(newC, newH)
          /\ LessEq(s.b, newC)
          /\ federatedRatify(n, s, acceptedPrepared(s, newC))
    <3> DEFINE range == {x \in candidates :
                           /\ areBallotsLessAndCompatible(x, newH)
                           /\ LessEq(s.b, x)}
               solid == {x \in range : \A y \in range : LessEq(x, y) =>
                           federatedRatify(n, s, acceptedPrepared(s, y))}
    <3>1. CASE mayCommit /\ HasMin(solid)
      <4>1. newC = MinBallot(solid)
        BY <3>1 DEF LowestConfirmed
      <4>2. newC \in solid
        BY <3>1, <4>1, ExtremeIn
      <4> HIDE DEF newC
      <4>3. LessEq(newC, newC)
        BY DEF LessEq
      <4>4. QED BY <3>1, <4>2, <4>3
    <3>2. CASE ~(mayCommit /\ HasMin(solid))
      BY <3>2 DEF LowestConfirmed
    <3>3. QED BY <3>1, <3>2
  <2>4. newC \in BallotOrNull
    BY <1>2, <2>3, MakeBallot
  <2> HIDE DEF newC
  <2>5. Confirmable(n, s, newC, newH)
    BY <1>5, <2>2, <2>3, <2>4 DEF Confirmable
  <2>6. r = setConfirmPrepared(s, newC, newH)
    BY <1>1, <1>5
  <2>7. Result(s, r) /\ AttemptedConfirmPrepared(n, s, r[1])
    BY <2>5, <2>6, SetConfirmPreparedFacts
  <2>8. QED BY <2>7 DEF r
<1>6. QED BY <1>4, <1>5

(* checkInvariants holds after attemptConfirmPrepared.                     *)
LEMMA ConfirmPreparedConsistent ==
  ASSUME NEW n \in Node, NEW s \in NodeState, NEW t, Consistent(s),
         AttemptedConfirmPrepared(n, s, t)
  PROVE  Consistent(t)
<1>1. CASE SameCore(s, t)
  BY <1>1, CheckSame
<1>2. CASE \E newC, newH : /\ Confirmable(n, s, newC, newH)
                           /\ ConfirmedPrepared(s, newC, newH, t)
  <2>1. PICK newC, newH : /\ Confirmable(n, s, newC, newH)
                          /\ ConfirmedPrepared(s, newC, newH, t)
    BY <1>2
  <2>2. /\ newH \in Ballot /\ newC \in BallotOrNull /\ newH \in BallotOrNull
        /\ newH # NullBallot /\ newH.counter # 0
        /\ s.b \in BallotOrNull /\ s.c \in BallotOrNull
        /\ s.h \in BallotOrNull
        /\ s.phase = "PREPARE"
    BY <2>1, MakeBallot, BallotFields DEF Confirmable, NodeState
  <2>3. t.p = s.p /\ t.pp = s.pp /\ t.phase = s.phase
    BY DEF AttemptedConfirmPrepared
  <2>4. /\ t.b # NullBallot => t.b.counter # 0
        /\ t.h # NullBallot => /\ t.b # NullBallot
                               /\ areBallotsLessAndCompatible(t.h, t.b)
        /\ t.c # NullBallot => /\ t.h # NullBallot
                               /\ areBallotsLessAndCompatible(t.c, t.h)
    <3>1. CASE /\ s.b = NullBallot \/ areBallotsCompatible(s.b, newH)
               /\ t.h = newH /\ t.c = IF newC # NullBallot THEN newC ELSE s.c
               /\ t.b = IF s.b = NullBallot \/ Less(s.b, newH) THEN newH
                        ELSE s.b
      <4>1. areBallotsLessAndCompatible(newH, t.b) /\ t.b # NullBallot
            /\ t.b.counter # 0
        <5>1. CASE t.b = newH
          BY <2>2, <5>1 DEF areBallotsLessAndCompatible, areBallotsCompatible,
                            LessEq
        <5>2. CASE t.b # newH
          <6>1. t.b = s.b /\ ~Less(s.b, newH) /\ s.b # NullBallot
            BY <3>1, <5>2
          <6>2. LessEq(newH, s.b) /\ s.b.counter # 0
            BY <2>2, <6>1, BallotOrder, BallotFields
          <6>3. QED BY <3>1, <6>1, <6>2
                       DEF areBallotsLessAndCompatible, areBallotsCompatible
        <5>3. QED BY <5>1, <5>2
      <4>2. t.c # NullBallot => areBallotsLessAndCompatible(t.c, newH)
        <5>1. CASE newC # NullBallot
          BY <2>1, <3>1, <5>1 DEF Confirmable
        <5>2. CASE newC = NullBallot /\ s.c # NullBallot
          <6>1. /\ s.h # NullBallot /\ areBallotsLessAndCompatible(s.c, s.h)
                /\ s.b # NullBallot /\ areBallotsLessAndCompatible(s.h, s.b)
            BY <5>2 DEF Consistent, checkInvariants
          <6>2. Less(s.h, newH)
            BY <2>1, <6>1 DEF Confirmable
          <6>3. LessEq(s.c, newH)
            BY <2>2, <6>1, <6>2, BallotOrder DEF areBallotsLessAndCompatible
          <6>4. s.c.value = newH.value
            BY <3>1, <6>1 DEF areBallotsLessAndCompatible, areBallotsCompatible
          <6>5. QED BY <3>1, <5>2, <6>3, <6>4
                       DEF areBallotsLessAndCompatible, areBallotsCompatible
        <5>3. QED BY <3>1, <5>1, <5>2
      <4>3. QED BY <2>2, <3>1, <4>1, <4>2
    <3>2. CASE t.h = NullBallot /\ t.c = NullBallot /\ t.b = newH
      BY <2>2, <3>2
    <3>3. QED BY <2>1, <3>1, <3>2 DEF ConfirmedPrepared
  <2>5. QED BY <2>2, <2>3, <2>4 DEF Consistent, checkInvariants
<1>3. QED BY <1>1, <1>2 DEF AttemptedConfirmPrepared

-----------------------------------------------------------------------------
(* Commit intervals.                                                       *)

(* A counter is a natural number.                                          *)
LEMMA CounterNat == \A k \in Counter : k \in Nat /\ k <= UINT32_MAX
BY CounterAssumption, SMT DEF Counter

(* The boundaries are counters.                                            *)
LEMMA BoundariesType ==
  ASSUME NEW s \in NodeState, NEW v
  PROVE  getCommitBoundariesFromStatements(s, v) \subseteq Counter
<1>1. UINT32_MAX \in Counter
  BY CounterAssumption, SMT DEF Counter
<1>2. ASSUME NEW st \in Statement
      PROVE  BoundariesOf(st) \subseteq Counter
  <2>1. CASE IsPrepare(st)
    BY <2>1, StatementFields DEF BoundariesOf
  <2>2. CASE IsConfirm(st)
    BY <2>2, StatementFields DEF BoundariesOf
  <2>3. CASE IsExternalize(st)
    <3>1. st.commit.counter \in Counter
      BY <2>3, StatementFields DEF Ballot
    <3>2. QED BY <1>1, <2>3, <3>1, StatementFields DEF BoundariesOf
  <2>4. QED BY <2>1, <2>2, <2>3, StatementFields
<1>3. QED BY <1>2, KnownStatement DEF getCommitBoundariesFromStatements

(* The interval findExtendedInterval yields satisfies the predicate.       *)
LEMMA IntervalFacts ==
  ASSUME NEW B \in SUBSET Counter, NEW pred, NEW i \in findExtendedInterval(B, pred)
  PROVE  /\ i[1] \in Counter \ {0} /\ i[2] \in Counter \ {0} /\ i[1] <= i[2]
         /\ <<i[1], i[2]>> \in pred
<1>1. /\ i \in B \X B /\ i[1] # 0 /\ i[1] <= i[2]
      /\ \A x \in B : i[1] <= x /\ x <= i[2] => <<x, i[2]>> \in pred
  BY DEF findExtendedInterval
<1>a. i[1] \in B /\ i[2] \in B
  BY <1>1
<1>2. /\ i[1] \in B /\ i[2] \in B /\ i[1] \in Counter /\ i[2] \in Counter
      /\ i[1] \in Nat /\ i[2] \in Nat
  BY <1>a, CounterNat
<1>3. <<i[1], i[2]>> \in pred
  BY <1>1, <1>2, SMT
<1>4. QED BY <1>1, <1>2, <1>3, SMT

(* The value of a statement's working ballot is a value.                   *)
LEMMA WorkingValue ==
  ASSUME NEW st \in Statement, Votable(st), IsPrepare(st) => st.nC # 0
  PROVE  getWorkingBallot(st).value \in Value
<1>1. CASE IsPrepare(st)
  <2>1. st.b \in Ballot /\ getWorkingBallot(st) = st.b
    BY <1>1, StatementFields, BallotFields DEF Votable, getWorkingBallot
  <2>2. QED BY <2>1 DEF Ballot
<1>2. CASE IsConfirm(st)
  <2>1. /\ st.b.value \in Value
        /\ getWorkingBallot(st) = makeBallot(st.nCommit, st.b.value)
    BY <1>2, StatementFields DEF Ballot, getWorkingBallot
  <2>2. QED BY <2>1, SMT DEF makeBallot
<1>3. CASE IsExternalize(st)
  BY <1>3, StatementFields DEF Ballot, getWorkingBallot
<1>4. QED BY <1>1, <1>2, <1>3, StatementFields

(* An interval of commits the node may accept.                             *)
AcceptableInterval(n, s, v, lo, hi) ==
  /\ s.phase \in {"PREPARE", "CONFIRM"}
  /\ v \in Value /\ lo \in Counter \ {0} /\ hi \in Counter \ {0} /\ lo <= hi
  /\ s.phase = "CONFIRM" => v = s.h.value /\ hi > s.h.counter
  /\ federatedAccept(n, s, {m \in Known(s) : votesCommit(v, lo, hi, s.M[m])},
                     pledgedCommit(s, v, lo, hi))

(* t is s with the commits from c to h accepted, and h at most the current *)
(* ballot.                                                                 *)
AcceptedCommit(s, c, h, t) ==
  /\ t.phase = "CONFIRM" /\ t.c = c /\ t.h = h
  /\ t.pp = IF s.phase = "PREPARE" THEN NullBallot ELSE s.pp
  /\ t.b = IF s.b # NullBallot /\ areBallotsLessAndCompatible(h, s.b)
           THEN s.b ELSE h

(* attemptAcceptCommit.                                                    *)
AttemptedAcceptCommit(n, s, t) ==
  /\ Attempted(s, t) /\ t.ext = s.ext /\ t.bad = s.bad /\ t.p = s.p
  /\ \/ SameCore(s, t)
     \/ \E v, lo, hi :
          /\ AcceptableInterval(n, s, v, lo, hi)
          /\ AcceptedCommit(s, makeBallot(lo, v), makeBallot(hi, v), t)

(* setAcceptCommit sets c and h, and enters CONFIRM.                       *)
LEMMA SetAcceptCommitFacts ==
  ASSUME NEW n \in Node, NEW s \in NodeState, NEW v, NEW lo, NEW hi,
         Consistent(s), AcceptableInterval(n, s, v, lo, hi)
  PROVE  LET r == setAcceptCommit(s, makeBallot(lo, v), makeBallot(hi, v))
         IN  Result(s, r) /\ AttemptedAcceptCommit(n, s, r[1])
<1> DEFINE c == makeBallot(lo, v)
           h == makeBallot(hi, v)
           r == setAcceptCommit(s, c, h)
           s1 == [s EXCEPT !.z = h.value, !.c = c, !.h = h]
           t1 == [s EXCEPT !.z = h.value, !.c = c, !.h = h, !.phase = "CONFIRM"]
           u1 == IF s.b # NullBallot /\ ~areBallotsLessAndCompatible(h, s.b)
                 THEN bumpToBallot(t1, h, FALSE) ELSE t1
           s2 == IF s.phase # "PREPARE" THEN s1
                 ELSE [u1 EXCEPT !.pp = NullBallot]
<1>1. /\ c \in Ballot /\ h \in Ballot /\ c.value = v /\ h.value = v
      /\ h.counter = hi /\ c.counter = lo /\ v \in Value
      /\ h \in BallotOrNull /\ c \in BallotOrNull /\ h # NullBallot
      /\ s.b \in BallotOrNull /\ NullBallot \in BallotOrNull
      /\ s.phase \in {"PREPARE", "CONFIRM"}
  <2>1. c \in Ballot /\ h \in Ballot
    BY MakeBallot DEF AcceptableInterval
  <2>2. c.value = v /\ h.value = v /\ h.counter = hi /\ c.counter = lo
    BY DEF makeBallot
  <2> HIDE DEF c, h
  <2>3. QED BY <2>1, <2>2, MakeBallot DEF AcceptableInterval, NodeState
<1>2. s.phase = "PREPARE" \/ s.h # h
  <2>1. /\ hi \in Nat
        /\ s.phase = "CONFIRM" => hi > s.h.counter
    BY CounterNat DEF AcceptableInterval
  <2> HIDE DEF h
  <2>2. QED BY <1>1, <2>1, SMT
<1>3. r = <<updateCurrentIfNeeded(s2, h), TRUE>>
  <2>1. [s1 EXCEPT !.phase = "CONFIRM"] = t1
    BY DEF NodeState
  <2>2. QED BY <1>2, <2>1 DEF setAcceptCommit
<1> HIDE DEF c, h
<1>4. s1 \in NodeState /\ t1 \in NodeState
  BY <1>1 DEF NodeState
<1>5. /\ SameRest(s, s1) /\ s1.ext = s.ext /\ s1.bad = s.bad
      /\ s1.cand = s.cand /\ s1.b = s.b /\ s1.p = s.p /\ s1.pp = s.pp
      /\ s1.phase = s.phase /\ s1.h = h /\ s1.c = c
  BY <1>4 DEF NodeState, SameRest
<1>6. /\ SameRest(s, t1) /\ t1.ext = s.ext /\ t1.bad = s.bad
      /\ t1.cand = s.cand /\ t1.b = s.b /\ t1.p = s.p /\ t1.pp = s.pp
      /\ t1.phase = "CONFIRM" /\ t1.h = h /\ t1.c = c
  BY <1>4 DEF NodeState, SameRest
<1> DEFINE t == r[1]
<1> HIDE DEF r, s1, t1, t
<1>7. t = updateCurrentIfNeeded(s2, h) /\ r = <<t, TRUE>> /\ r[2] = TRUE
  BY <1>3 DEF t
<1>8. /\ s2 \in NodeState /\ SameRest(s, s2) /\ s2.ext = s.ext
      /\ s2.bad = s.bad /\ s2.cand = s.cand /\ s2.p = s.p
      /\ s2.pp = IF s.phase = "PREPARE" THEN NullBallot ELSE s.pp
      /\ s2.phase = "CONFIRM" /\ s2.h = h /\ s2.c = c
      /\ s2.b = IF /\ s.phase = "PREPARE" /\ s.b # NullBallot
                   /\ ~areBallotsLessAndCompatible(h, s.b)
                THEN h ELSE s.b
  <2>1. CASE s.phase = "CONFIRM"
    BY <1>4, <1>5, <2>1
  <2>2. CASE s.phase = "PREPARE"
    <3>1. /\ u1 \in NodeState /\ SameRest(t1, u1) /\ SameOther(t1, u1)
          /\ u1.b = IF /\ s.b # NullBallot
                       /\ ~areBallotsLessAndCompatible(h, s.b)
                    THEN h ELSE s.b
          /\ u1.p = t1.p /\ u1.pp = t1.pp /\ u1.phase = t1.phase
          /\ u1.h = h /\ u1.c = c
      <4>1. CASE s.b # NullBallot /\ ~areBallotsLessAndCompatible(h, s.b)
        <5>1. u1 = bumpToBallot(t1, h, FALSE)
          BY <4>1
        <5>2. ~(t1.h # NullBallot /\ ~areBallotsCompatible(h, t1.h))
          BY <1>6 DEF areBallotsCompatible
        <5>3. /\ t1 \in NodeState /\ t1.phase # "EXTERNALIZE"
              /\ FALSE \in BOOLEAN /\ (FALSE = TRUE => LessEq(t1.b, h))
          BY <1>4, <1>6
        <5> HIDE DEF u1
        <5>4. /\ u1 \in NodeState /\ SameRest(t1, u1)
              /\ u1.b = h /\ u1.p = t1.p /\ u1.pp = t1.pp
              /\ u1.phase = t1.phase
              /\ u1.h = t1.h /\ u1.c = t1.c
              /\ SameOther(t1, u1)
          BY <1>1, <5>1, <5>2, <5>3, BumpFacts
        <5>5. QED BY <1>6, <4>1, <5>4
      <4>2. CASE ~(s.b # NullBallot /\ ~areBallotsLessAndCompatible(h, s.b))
        <5>1. u1 = t1
          BY <4>2
        <5> HIDE DEF u1
        <5>2. QED BY <1>4, <1>6, <4>2, <5>1 DEF SameRest, SameOther
      <4>3. QED BY <4>1, <4>2
    <3> HIDE DEF u1
    <3> DEFINE w == [u1 EXCEPT !.pp = NullBallot]
    <3>2. w \in NodeState
      BY <1>1, <3>1 DEF NodeState
    <3>3. /\ SameRest(u1, w) /\ SameOther(u1, w) /\ w.pp = NullBallot
          /\ w.b = u1.b /\ w.p = u1.p /\ w.h = u1.h /\ w.c = u1.c
          /\ w.phase = u1.phase
      BY <3>1, <3>2 DEF NodeState, SameRest, SameOther
    <3>4. s2 = w
      BY <2>2
    <3> HIDE DEF w, s2
    <3>5. QED BY <1>6, <2>2, <3>1, <3>2, <3>3, <3>4 DEF SameRest, SameOther
  <2>3. QED BY <1>1, <2>1, <2>2
<1> HIDE DEF s2
<1>9. /\ t \in NodeState /\ SameRest(s2, t)
      /\ t.b = IF s2.b = NullBallot \/ Less(s2.b, h) THEN h ELSE s2.b
      /\ t.p = s2.p /\ t.pp = s2.pp /\ t.h = s2.h /\ t.c = s2.c
      /\ t.phase = s2.phase
      /\ SameOther(s2, t)
  <2>1. s2.phase # "EXTERNALIZE" /\ areBallotsCompatible(h, s2.h)
    BY <1>8 DEF areBallotsCompatible
  <2>2. QED BY <1>1, <1>7, <1>8, <2>1, UpdateIfNeededFacts
<1>10. t.b = IF s.b # NullBallot /\ areBallotsLessAndCompatible(h, s.b)
             THEN s.b ELSE h
  <2>0. ~Less(h, h)
    BY <1>1, BallotFields, SMT DEF Less
  <2>1. CASE s.b # NullBallot /\ areBallotsLessAndCompatible(h, s.b)
    <3>1. ~Less(s.b, h)
      BY <1>1, <2>1, BallotOrder DEF areBallotsLessAndCompatible
    <3>2. QED BY <1>8, <1>9, <2>1, <3>1
  <2>2. CASE s.b = NullBallot
    BY <1>8, <1>9, <2>2
  <2>3. CASE s.b # NullBallot /\ ~areBallotsLessAndCompatible(h, s.b)
    <3>1. CASE s.phase = "PREPARE"
      BY <1>8, <1>9, <2>0, <2>3, <3>1
    <3>2. CASE s.phase = "CONFIRM"
      <4>1. areBallotsCompatible(h, s.b)
        BY <1>1, <3>2 DEF AcceptableInterval, Consistent, checkInvariants,
             areBallotsLessAndCompatible, areBallotsCompatible
      <4>2. Less(s.b, h)
        BY <1>1, <2>3, <4>1, BallotOrder DEF areBallotsLessAndCompatible
      <4>3. QED BY <1>8, <1>9, <2>3, <3>2, <4>2
    <3>3. QED BY <1>1, <3>1, <3>2
  <2>4. QED BY <2>1, <2>2, <2>3
<1>11. AcceptedCommit(s, c, h, t)
  BY <1>8, <1>9, <1>10 DEF AcceptedCommit
<1>12. Attempted(s, t) /\ t.ext = s.ext /\ t.bad = s.bad /\ t.p = s.p
  BY <1>8, <1>9 DEF Attempted, SameRest, SameOther
<1>13. AttemptedAcceptCommit(n, s, t)
  BY <1>11, <1>12 DEF AttemptedAcceptCommit, c, h
<1>14. Result(s, r)
  BY <1>7 DEF Result, t
<1>15. QED BY <1>13, <1>14 DEF r, t, c, h

(* attemptAcceptCommit leaves the state, or sets c and h to an interval    *)
(* accepted as committed.                                                  *)
LEMMA AttemptAcceptCommitFacts ==
  ASSUME NEW n \in Node, NEW s \in NodeState, NEW hint \in Statement,
         Votable(hint), Consistent(s)
  PROVE  LET r == attemptAcceptCommit(n, s, hint)
         IN  Result(s, r) /\ AttemptedAcceptCommit(n, s, r[1])
<1> DEFINE r == attemptAcceptCommit(n, s, hint)
           v == getWorkingBallot(hint).value
           boundaries == getCommitBoundariesFromStatements(s, v)
           pred == {i \in boundaries \X boundaries :
                      federatedAccept(n, s,
                        {m \in Known(s) : votesCommit(v, i[1], i[2], s.M[m])},
                        pledgedCommit(s, v, i[1], i[2]))}
           found == findExtendedInterval(boundaries, pred)
           interval == CHOOSE x \in found : TRUE
           lo == interval[1]
           hi == interval[2]
           works == /\ s.phase # "EXTERNALIZE"
                    /\ IsPrepare(hint) => hint.nC # 0
                    /\ s.phase = "CONFIRM" => v = s.h.value
                    /\ found # {}
                    /\ s.phase = "CONFIRM" => interval[2] > s.h.counter
<1>1. r = IF works
          THEN setAcceptCommit(s, makeBallot(lo, v), makeBallot(hi, v))
          ELSE <<s, FALSE>>
  BY DEF attemptAcceptCommit
<1> HIDE DEF r, v
<1>2. CASE ~works
  <2>1. r = <<s, FALSE>> /\ r[1] = s /\ r[2] = FALSE
    BY <1>1, <1>2
  <2>2. Result(s, r)
    BY <2>1 DEF Result, SameCore
  <2>3. AttemptedAcceptCommit(n, s, s)
    BY DEF AttemptedAcceptCommit, Attempted, SameRest, SameCore
  <2>4. QED BY <2>1, <2>2, <2>3 DEF r
<1>3. CASE works
  <2>1. v \in Value
    BY <1>3, WorkingValue DEF v
  <2>2. boundaries \in SUBSET Counter
    BY BoundariesType
  <2>3. interval \in found
    BY <1>3
  <2> HIDE DEF boundaries, interval
  <2>4. /\ lo \in Counter \ {0} /\ hi \in Counter \ {0} /\ lo <= hi
        /\ <<lo, hi>> \in pred
    <3> HIDE DEF pred
    <3>1. QED BY <2>2, <2>3, IntervalFacts
  <2>5. federatedAccept(n, s, {m \in Known(s) : votesCommit(v, lo, hi, s.M[m])},
                        pledgedCommit(s, v, lo, hi))
    <3>1. \A i \in pred :
            federatedAccept(n, s,
                        {m \in Known(s) : votesCommit(v, i[1], i[2], s.M[m])},
                        pledgedCommit(s, v, i[1], i[2]))
      OBVIOUS
    <3> HIDE DEF pred, lo, hi
    <3>2. <<lo, hi>>[1] = lo /\ <<lo, hi>>[2] = hi
      OBVIOUS
    <3> DEFINE i == <<lo, hi>>
    <3>3. i \in pred /\ i[1] = lo /\ i[2] = hi
      BY <2>4, <3>2
    <3> HIDE DEF i
    <3>4. QED BY <3>1, <3>3
  <2>6. AcceptableInterval(n, s, v, lo, hi)
    <3>1. s.phase \in {"PREPARE", "CONFIRM"}
      BY <1>3 DEF NodeState
    <3>2. s.phase = "CONFIRM" => v = s.h.value /\ hi > s.h.counter
      BY <1>3
    <3> HIDE DEF lo, hi
    <3>3. QED BY <2>1, <2>4, <2>5, <3>1, <3>2 DEF AcceptableInterval
  <2>7. r = setAcceptCommit(s, makeBallot(lo, v), makeBallot(hi, v))
    BY <1>1, <1>3
  <2> HIDE DEF lo, hi, found
  <2>8. Result(s, r) /\ AttemptedAcceptCommit(n, s, r[1])
    BY <2>6, <2>7, SetAcceptCommitFacts
  <2>9. QED BY <2>8 DEF r
<1>4. QED BY <1>2, <1>3

(* checkInvariants holds after attemptAcceptCommit.                        *)
LEMMA AcceptCommitConsistent ==
  ASSUME NEW n \in Node, NEW s \in NodeState, NEW t, Consistent(s),
         AttemptedAcceptCommit(n, s, t)
  PROVE  Consistent(t)
<1>1. CASE SameCore(s, t)
  BY <1>1, CheckSame
<1>2. CASE \E v, lo, hi :
             /\ AcceptableInterval(n, s, v, lo, hi)
             /\ AcceptedCommit(s, makeBallot(lo, v), makeBallot(hi, v), t)
  <2>1. PICK v, lo, hi :
             /\ AcceptableInterval(n, s, v, lo, hi)
             /\ AcceptedCommit(s, makeBallot(lo, v), makeBallot(hi, v), t)
    BY <1>2
  <2> DEFINE c == makeBallot(lo, v)
             h == makeBallot(hi, v)
  <2>2. c \in Ballot /\ h \in Ballot
    BY <2>1, MakeBallot DEF AcceptableInterval
  <2>3. areBallotsLessAndCompatible(c, h)
    <3>1. lo \in Nat /\ hi \in Nat /\ lo <= hi
      BY <2>1, CounterNat DEF AcceptableInterval
    <3>2. QED BY <3>1, SMT DEF areBallotsLessAndCompatible, areBallotsCompatible,
                          LessEq, Less, makeBallot
  <2> HIDE DEF c, h
  <2>4. /\ t.phase = "CONFIRM" /\ t.c = c /\ t.h = h
        /\ t.pp = IF s.phase = "PREPARE" THEN NullBallot ELSE s.pp
        /\ t.b = IF s.b # NullBallot /\ areBallotsLessAndCompatible(h, s.b)
                 THEN s.b ELSE h
        /\ t.p = s.p
    BY <2>1 DEF AcceptedCommit, AttemptedAcceptCommit, c, h
  <2>5. c # NullBallot /\ h # NullBallot /\ h.counter # 0
    BY <2>2, BallotFields, MakeBallot
  <2>6. areBallotsLessAndCompatible(h, h)
    BY DEF areBallotsLessAndCompatible, areBallotsCompatible, LessEq
  <2>7. /\ t.b # NullBallot /\ areBallotsLessAndCompatible(h, t.b)
        /\ t.b.counter # 0
    BY <2>4, <2>5, <2>6 DEF Consistent, checkInvariants
  <2>8. QED BY <2>3, <2>4, <2>5, <2>7 DEF Consistent, checkInvariants
<1>3. QED BY <1>1, <1>2 DEF AttemptedAcceptCommit

-----------------------------------------------------------------------------
(* An interval of commits the node may confirm.                            *)
ConfirmableInterval(n, s, v, lo, hi) ==
  /\ s.phase = "CONFIRM" /\ v = s.c.value
  /\ v \in Value /\ lo \in Counter \ {0} /\ hi \in Counter \ {0} /\ lo <= hi
  /\ federatedRatify(n, s, pledgedCommit(s, v, lo, hi))

(* t is s with the commits from c to h confirmed, and its value decided.   *)
ConfirmedCommit(s, c, h, t) ==
  /\ t.phase = "EXTERNALIZE" /\ t.c = c /\ t.h = h /\ t.pp = s.pp
  /\ t.b = IF Less(s.b, h) THEN h ELSE s.b
  /\ t.ext = s.ext \cup {c.value}

(* attemptConfirmCommit.                                                   *)
AttemptedConfirmCommit(n, s, t) ==
  /\ Attempted(s, t) /\ t.bad = s.bad /\ t.p = s.p
  /\ \/ SameCore(s, t) /\ t.ext = s.ext
     \/ \E v, lo, hi :
          /\ ConfirmableInterval(n, s, v, lo, hi)
          /\ ConfirmedCommit(s, makeBallot(lo, v), makeBallot(hi, v), t)

(* setConfirmCommit sets c and h, enters EXTERNALIZE and externalizes the  *)
(* value.                                                                  *)
LEMMA SetConfirmCommitFacts ==
  ASSUME NEW n \in Node, NEW s \in NodeState, NEW v, NEW lo, NEW hi,
         Consistent(s), ConfirmableInterval(n, s, v, lo, hi)
  PROVE  LET r == setConfirmCommit(s, makeBallot(lo, v), makeBallot(hi, v))
         IN  Result(s, r) /\ AttemptedConfirmCommit(n, s, r[1])
<1> DEFINE c == makeBallot(lo, v)
           h == makeBallot(hi, v)
           r == setConfirmCommit(s, c, h)
           s0 == [s EXCEPT !.c = c, !.h = h]
           s1 == updateCurrentIfNeeded(s0, h)
           ext == s.ext \cup {c.value}
           t == [s1 EXCEPT !.phase = "EXTERNALIZE", !.ext = ext]
<1>1. /\ c \in Ballot /\ h \in Ballot /\ c.value = v /\ h.value = v
      /\ v \in Value /\ h \in BallotOrNull /\ c \in BallotOrNull
      /\ s.phase = "CONFIRM" /\ s.ext \in SUBSET Value /\ ext \in SUBSET Value
  <2>1. c \in Ballot /\ h \in Ballot
    BY MakeBallot DEF ConfirmableInterval
  <2>2. c.value = v /\ h.value = v
    BY DEF makeBallot
  <2> HIDE DEF c, h
  <2>3. QED BY <2>1, <2>2, MakeBallot DEF ConfirmableInterval, NodeState
<1> HIDE DEF c, h
<1>2. s0 \in NodeState
  BY <1>1 DEF NodeState
<1>3. /\ SameRest(s, s0) /\ SameOther(s, s0) /\ s0.b = s.b /\ s0.p = s.p
      /\ s0.pp = s.pp /\ s0.phase = s.phase /\ s0.h = h /\ s0.c = c
  BY <1>2 DEF NodeState, SameRest, SameOther
<1> HIDE DEF s0
<1>4. /\ s1 \in NodeState /\ SameRest(s0, s1)
      /\ s1.b = IF s0.b = NullBallot \/ Less(s0.b, h) THEN h ELSE s0.b
      /\ s1.p = s0.p /\ s1.pp = s0.pp /\ s1.h = s0.h /\ s1.c = s0.c
      /\ s1.phase = s0.phase
      /\ SameOther(s0, s1)
  <2>1. s0.phase # "EXTERNALIZE" /\ areBallotsCompatible(h, s0.h)
    BY <1>1, <1>3 DEF areBallotsCompatible
  <2>2. QED BY <1>1, <1>2, <2>1, UpdateIfNeededFacts
<1>a. r = <<t, TRUE>>
  <2>1. r = <<[s1 EXCEPT !.phase = "EXTERNALIZE",
                         !.ext = @ \cup {c.value}], TRUE>>
    BY DEF setConfirmCommit, s0
  <2> HIDE DEF s1
  <2>2. s1.ext = s.ext
    BY <1>3, <1>4 DEF SameOther
  <2>3. QED BY <2>1, <2>2
<1> HIDE DEF s1, ext, r
<1>5. t \in NodeState
  BY <1>1, <1>4 DEF NodeState
<1>6. /\ SameRest(s1, t) /\ t.bad = s1.bad /\ t.cand = s1.cand
      /\ t.ext = ext /\ t.b = s1.b /\ t.p = s1.p /\ t.pp = s1.pp
      /\ t.h = s1.h /\ t.c = s1.c /\ t.phase = "EXTERNALIZE"
  BY <1>4, <1>5 DEF NodeState, SameRest
<1> HIDE DEF t
<1>7. s.b # NullBallot
  BY <1>1 DEF Consistent, checkInvariants
<1>8. ConfirmedCommit(s, c, h, t)
  BY <1>3, <1>4, <1>6, <1>7 DEF ConfirmedCommit, ext
<1>9. Attempted(s, t) /\ t.bad = s.bad /\ t.p = s.p
  BY <1>3, <1>4, <1>5, <1>6 DEF Attempted, SameRest, SameOther
<1>10. AttemptedConfirmCommit(n, s, t)
  BY <1>8, <1>9 DEF AttemptedConfirmCommit, c, h
<1>11. Result(s, r) /\ r[1] = t
  BY <1>a DEF Result
<1>12. QED BY <1>10, <1>11 DEF r, c, h

(* attemptConfirmCommit leaves the state, or sets c and h to an interval   *)
(* confirmed as committed.                                                 *)
LEMMA AttemptConfirmCommitFacts ==
  ASSUME NEW n \in Node, NEW s \in NodeState, NEW hint \in Statement,
         Consistent(s)
  PROVE  LET r == attemptConfirmCommit(n, s, hint)
         IN  Result(s, r) /\ AttemptedConfirmCommit(n, s, r[1])
<1> DEFINE r == attemptConfirmCommit(n, s, hint)
           v == getWorkingBallot(hint).value
           boundaries == getCommitBoundariesFromStatements(s, v)
           pred == {i \in boundaries \X boundaries :
                      federatedRatify(n, s, pledgedCommit(s, v, i[1], i[2]))}
           found == findExtendedInterval(boundaries, pred)
           interval == CHOOSE x \in found : TRUE
           lo == interval[1]
           hi == interval[2]
           works == /\ s.phase = "CONFIRM" /\ s.h # NullBallot /\ s.c # NullBallot
                    /\ ~IsPrepare(hint) /\ v = s.c.value
                    /\ found # {}
<1>1. r = IF works
          THEN setConfirmCommit(s, makeBallot(lo, v), makeBallot(hi, v))
          ELSE <<s, FALSE>>
  BY DEF attemptConfirmCommit
<1> HIDE DEF r, v
<1>2. CASE ~works
  <2>1. r = <<s, FALSE>> /\ r[1] = s /\ r[2] = FALSE
    BY <1>1, <1>2
  <2>2. Result(s, r)
    BY <2>1 DEF Result, SameCore
  <2>3. AttemptedConfirmCommit(n, s, s)
    BY DEF AttemptedConfirmCommit, Attempted, SameRest, SameCore
  <2>4. QED BY <2>1, <2>2, <2>3 DEF r
<1>3. CASE works
  <2>1. v \in Value
    BY <1>3, WorkingValue DEF v, Votable
  <2>2. boundaries \in SUBSET Counter
    BY BoundariesType
  <2>3. interval \in found
    BY <1>3
  <2> HIDE DEF boundaries, interval
  <2>4. /\ lo \in Counter \ {0} /\ hi \in Counter \ {0} /\ lo <= hi
        /\ <<lo, hi>> \in pred
    <3> HIDE DEF pred
    <3>1. QED BY <2>2, <2>3, IntervalFacts
  <2>5. federatedRatify(n, s, pledgedCommit(s, v, lo, hi))
    <3>1. \A i \in pred :
            federatedRatify(n, s, pledgedCommit(s, v, i[1], i[2]))
      OBVIOUS
    <3> HIDE DEF pred, lo, hi
    <3> DEFINE i == <<lo, hi>>
    <3>3. i \in pred /\ i[1] = lo /\ i[2] = hi
      BY <2>4
    <3> HIDE DEF i
    <3>4. QED BY <3>1, <3>3
  <2>6. ConfirmableInterval(n, s, v, lo, hi)
    <3> HIDE DEF lo, hi
    <3>3. QED BY <1>3, <2>1, <2>4, <2>5 DEF ConfirmableInterval
  <2>7. r = setConfirmCommit(s, makeBallot(lo, v), makeBallot(hi, v))
    BY <1>1, <1>3
  <2> HIDE DEF lo, hi, found
  <2>8. Result(s, r) /\ AttemptedConfirmCommit(n, s, r[1])
    BY <2>6, <2>7, SetConfirmCommitFacts
  <2>9. QED BY <2>8 DEF r
<1>4. QED BY <1>2, <1>3

(* checkInvariants holds after attemptConfirmCommit.                       *)
LEMMA ConfirmCommitConsistent ==
  ASSUME NEW n \in Node, NEW s \in NodeState, NEW t, Consistent(s),
         AttemptedConfirmCommit(n, s, t)
  PROVE  Consistent(t)
<1>1. CASE SameCore(s, t)
  BY <1>1, CheckSame
<1>2. CASE \E v, lo, hi :
             /\ ConfirmableInterval(n, s, v, lo, hi)
             /\ ConfirmedCommit(s, makeBallot(lo, v), makeBallot(hi, v), t)
  <2>1. PICK v, lo, hi :
             /\ ConfirmableInterval(n, s, v, lo, hi)
             /\ ConfirmedCommit(s, makeBallot(lo, v), makeBallot(hi, v), t)
    BY <1>2
  <2> DEFINE c == makeBallot(lo, v)
             h == makeBallot(hi, v)
  <2>2. c \in Ballot /\ h \in Ballot
    BY <2>1, MakeBallot DEF ConfirmableInterval
  <2>3. areBallotsLessAndCompatible(c, h) /\ h.value = v
    <3>1. lo \in Nat /\ hi \in Nat /\ lo <= hi
      BY <2>1, CounterNat DEF ConfirmableInterval
    <3>2. QED BY <3>1, SMT DEF areBallotsLessAndCompatible, areBallotsCompatible,
                          LessEq, Less, makeBallot
  <2> HIDE DEF c, h
  <2>4. /\ t.phase = "EXTERNALIZE" /\ t.c = c /\ t.h = h
        /\ t.pp = s.pp /\ t.p = s.p
        /\ t.b = IF Less(s.b, h) THEN h ELSE s.b
    BY <2>1 DEF ConfirmedCommit, AttemptedConfirmCommit, c, h
  <2>5. /\ c # NullBallot /\ h # NullBallot /\ h.counter # 0
        /\ h \in BallotOrNull /\ s.b \in BallotOrNull
    BY <2>2, BallotFields, MakeBallot DEF NodeState
  <2>6. /\ areBallotsLessAndCompatible(s.c, s.h) /\ s.c.value = v
        /\ areBallotsLessAndCompatible(s.h, s.b) /\ s.b # NullBallot
        /\ s.b.counter # 0
    BY <2>1 DEF ConfirmableInterval, Consistent, checkInvariants
  <2>7. /\ t.b # NullBallot /\ areBallotsLessAndCompatible(h, t.b)
        /\ t.b.counter # 0
    <3>1. CASE Less(s.b, h)
      BY <2>4, <2>5, <3>1 DEF areBallotsLessAndCompatible, LessEq,
                              areBallotsCompatible
    <3>2. CASE ~Less(s.b, h)
      <4>1. LessEq(h, s.b)
        BY <2>5, <3>2, BallotOrder
      <4>2. QED BY <2>3, <2>4, <2>6, <3>2, <4>1
                   DEF areBallotsLessAndCompatible, areBallotsCompatible
    <3>3. QED BY <3>1, <3>2
  <2>8. QED BY <2>3, <2>4, <2>5, <2>7 DEF Consistent, checkInvariants
<1>3. QED BY <1>1, <1>2 DEF AttemptedConfirmCommit

-----------------------------------------------------------------------------
(* Moving to a higher ballot.                                              *)

(* t is s on a higher ballot, compatible with c; an incompatible h is lost.*)
MovedTo(s, ballot, t) ==
  /\ s.phase # "EXTERNALIZE" /\ ballot \in Ballot /\ Less(s.b, ballot)
  /\ s.c # NullBallot => areBallotsCompatible(s.c, ballot)
  /\ t.b = ballot /\ t.p = s.p /\ t.pp = s.pp /\ t.phase = s.phase
  /\ t.c = s.c
  /\ t.h = IF s.h # NullBallot /\ ~areBallotsCompatible(ballot, s.h)
           THEN NullBallot ELSE s.h

(* updateCurrentValue.                                                     *)
UpdatedValue(s, t) ==
  /\ Attempted(s, t) /\ t.ext = s.ext /\ t.bad \in {s.bad, "smallerBallot"}
  /\ SameCore(s, t) \/ \E ballot : MovedTo(s, ballot, t)

(* updateCurrentValue; a ballot whose counter has wrapped to 0 fails the   *)
(* assertion that it is not smaller, and is not moved to.                  *)
LEMMA UpdateValueFacts ==
  ASSUME NEW s \in NodeState, Consistent(s), NEW k \in Counter,
         NEW v \in Value, s.b = NullBallot => k # 0
  PROVE  LET r == updateCurrentValue(s, makeBallot(k, v))
         IN  Result(s, r) /\ UpdatedValue(s, r[1])
<1> DEFINE ballot == makeBallot(k, v)
           r == updateCurrentValue(s, ballot)
           t == r[1]
           s1 == dbgAssert(s, LessEq(s.b, ballot), "smallerBallot")
<1>1. /\ s.b \in BallotOrNull /\ s.h \in BallotOrNull /\ s.c \in BallotOrNull
      /\ s.c # NullBallot => /\ s.h # NullBallot /\ s.h.value = s.c.value
                             /\ s.b # NullBallot
  BY DEF NodeState, Consistent, checkInvariants, areBallotsLessAndCompatible,
         areBallotsCompatible
<1>2. k # 0 => ballot \in Ballot
  BY MakeBallot
<1>3. k = 0 => ~Less(s.b, ballot)
  <2>1. s.b.counter \in Nat
    BY <1>1, BallotFields
  <2>2. CASE s.b = NullBallot
    BY <2>2
  <2>3. CASE s.b # NullBallot
    <3>1. s.b.counter # 0
      BY <1>1, <2>3, BallotFields
    <3>2. QED BY <2>1, <3>1, SMT DEF Less, makeBallot
  <2>4. QED BY <2>2, <2>3
<1> HIDE DEF ballot
<1>4. /\ s1 \in NodeState /\ SameCore(s, s1) /\ SameRest(s, s1)
      /\ s1.ext = s.ext /\ s1.cand = s.cand
      /\ s1.bad \in {s.bad, "smallerBallot"}
      /\ LessEq(s.b, ballot) => s1 = s
  <2>1. CASE s1 = s
    BY <2>1 DEF SameCore, SameRest
  <2>2. CASE ~LessEq(s.b, ballot) /\ s1 = Fail(s, "smallerBallot")
    <3>1. "smallerBallot" \in Failures
      BY DEF Failures
    <3> HIDE DEF s1
    <3>2. QED BY <2>2, <3>1, FailFacts
  <2>3. QED BY <2>1, <2>2 DEF dbgAssert
<1>5. CASE s.phase = "EXTERNALIZE"
  <2>1. r = <<s, FALSE>>
    BY <1>5 DEF updateCurrentValue
  <2> HIDE DEF r
  <2>2. Result(s, r) /\ t = s
    BY <2>1 DEF Result, SameCore
  <2>3. UpdatedValue(s, s)
    BY DEF UpdatedValue, Attempted, SameRest, SameCore
  <2>4. QED BY <2>2, <2>3 DEF r, ballot
<1>6. CASE s.phase # "EXTERNALIZE" /\ s.b # NullBallot
           /\ (\/ s.c # NullBallot /\ ~areBallotsCompatible(s.c, ballot)
               \/ ~Less(s.b, ballot))
  <2>1. r = <<s1, FALSE>>
    BY <1>6 DEF updateCurrentValue
  <2> HIDE DEF r, s1
  <2>2. Result(s, r) /\ t = s1
    BY <1>4, <2>1 DEF Result
  <2>3. UpdatedValue(s, s1)
    BY <1>4 DEF UpdatedValue, Attempted
  <2>4. QED BY <2>2, <2>3 DEF r, ballot
<1>7. CASE s.phase # "EXTERNALIZE"
           /\ (s.b = NullBallot \/
                /\ Less(s.b, ballot)
                /\ s.c # NullBallot => areBallotsCompatible(s.c, ballot))
  <2>1. /\ LessEq(s.b, ballot) /\ Less(s.b, ballot) /\ ballot \in Ballot
        /\ ballot \in BallotOrNull
        /\ s.c # NullBallot => areBallotsCompatible(s.c, ballot)
    <3>1. k # 0
      BY <1>3, <1>7
    <3>2. ballot \in Ballot /\ ballot \in BallotOrNull
      BY <1>2, <3>1, MakeBallot
    <3>3. s.b = NullBallot => Less(s.b, ballot) /\ s.c = NullBallot
      <4>1. ballot.counter \in Nat /\ ballot.counter # 0
        BY <3>2, BallotFields
      <4>2. QED BY <1>1, <4>1, SMT DEF Less, NullBallot
    <3>4. QED BY <1>7, <3>2, <3>3 DEF LessEq
  <2>2. r = <<bumpToBallot(s, ballot, TRUE), TRUE>>
    BY <1>4, <1>7, <2>1 DEF updateCurrentValue
  <2> DEFINE lost == s.h # NullBallot /\ ~areBallotsCompatible(ballot, s.h)
  <2> HIDE DEF r
  <2>3. t = bumpToBallot(s, ballot, TRUE) /\ Result(s, r)
    BY <2>2 DEF Result
  <2> HIDE DEF t
  <2>4. /\ t \in NodeState /\ SameRest(s, t)
        /\ t.b = ballot /\ t.p = s.p /\ t.pp = s.pp /\ t.phase = s.phase
        /\ t.h = IF lost THEN NullBallot ELSE s.h
        /\ t.c = IF lost THEN NullBallot ELSE s.c
        /\ SameOther(s, t)
    BY <1>7, <2>1, <2>3, BumpFacts
  <2>5. t.c = s.c
    BY <1>1, <2>1, <2>4 DEF areBallotsCompatible
  <2>6. MovedTo(s, ballot, t)
    BY <1>7, <2>1, <2>4, <2>5 DEF MovedTo
  <2>7. UpdatedValue(s, t)
    BY <2>4, <2>6 DEF UpdatedValue, Attempted, SameOther
  <2>8. QED BY <2>3, <2>7 DEF r, t, ballot
<1>8. QED BY <1>5, <1>6, <1>7

(* checkInvariants holds after updateCurrentValue.                         *)
LEMMA UpdatedConsistent ==
  ASSUME NEW s \in NodeState, NEW t, Consistent(s), UpdatedValue(s, t)
  PROVE  Consistent(t)
<1>1. CASE SameCore(s, t)
  BY <1>1, CheckSame
<1>2. CASE \E ballot : MovedTo(s, ballot, t)
  <2>1. PICK ballot : MovedTo(s, ballot, t)
    BY <1>2
  <2>2. /\ ballot \in Ballot /\ ballot \in BallotOrNull /\ ballot # NullBallot
        /\ ballot.counter # 0 /\ s.b \in BallotOrNull /\ s.h \in BallotOrNull
    BY <2>1, MakeBallot, BallotFields DEF MovedTo, NodeState
  <2>3. t.h # NullBallot => areBallotsLessAndCompatible(t.h, ballot)
    <3>1. t.h # NullBallot => /\ t.h = s.h /\ areBallotsCompatible(ballot, s.h)
                              /\ LessEq(s.h, s.b) /\ Less(s.b, ballot)
      BY <2>1 DEF MovedTo, Consistent, checkInvariants,
                  areBallotsLessAndCompatible
    <3>2. QED BY <2>2, <3>1, BallotOrder
                 DEF areBallotsLessAndCompatible, areBallotsCompatible
  <2>4. t.c # NullBallot => t.h # NullBallot /\ t.h = s.h
    BY <2>1 DEF MovedTo, Consistent, checkInvariants,
                areBallotsLessAndCompatible, areBallotsCompatible
  <2>5. QED BY <2>1, <2>2, <2>3, <2>4 DEF MovedTo, Consistent, checkInvariants
<1>3. QED BY <1>1, <1>2 DEF UpdatedValue

(* bumpState and abandonBallot: the node stays where it is, or it moves to *)
(* a higher ballot and says so.                                            *)
Bumped(n, s, r) ==
  \E u : /\ UpdatedValue(s, u)
         /\ \/ SameCore(s, u) /\ r = <<u, FALSE>>
            \/ r = <<emitCurrentStateStatement(n, u, TRUE), TRUE>>

(* bumpState leaves the ballots, or moves to a higher ballot and emits.    *)
LEMMA BumpStateFacts ==
  ASSUME NEW n \in Node, NEW s \in NodeState, Consistent(s),
         NEW v \in Value, NEW k \in Counter, s.b = NullBallot => k # 0
  PROVE  Bumped(n, s, bumpState(n, s, v, k))
<1> DEFINE w == IF s.z # 0 THEN s.z ELSE v
           r == updateCurrentValue(s, makeBallot(k, w))
<1>1. w \in Value
  BY DEF NodeState
<1>2. bumpState(n, s, v, k) =
        IF r[2] THEN <<emitCurrentStateStatement(n, r[1], TRUE), TRUE>> ELSE r
  BY DEF bumpState
<1> HIDE DEF w
<1>3. Result(s, r) /\ UpdatedValue(s, r[1])
  BY <1>1, UpdateValueFacts
<1> HIDE DEF r
<1>4. CASE r[2]
  <2>1. bumpState(n, s, v, k) =
          <<emitCurrentStateStatement(n, r[1], TRUE), TRUE>>
    BY <1>2, <1>4
  <2>2. QED BY <1>3, <2>1 DEF Bumped
<1>5. CASE ~r[2]
  <2>1. bumpState(n, s, v, k) = <<r[1], FALSE>> /\ SameCore(s, r[1])
    BY <1>2, <1>3, <1>5 DEF Result
  <2>2. QED BY <1>3, <2>1 DEF Bumped
<1>6. QED BY <1>4, <1>5

(* abandonBallot: the counter after UINT32_MAX is 0.                       *)
LEMMA AbandonFacts ==
  ASSUME NEW n \in Node, NEW s \in NodeState, Consistent(s),
         NEW k \in Counter
  PROVE  Bumped(n, s, abandonBallot(n, s, k))
<1> DEFINE v == IF s.cand # 0 THEN s.cand ELSE s.b.value
           next == (s.b.counter + 1) % (UINT32_MAX + 1)
           j == IF k = 0 THEN next ELSE k
<1>1. abandonBallot(n, s, k) = IF v = 0 THEN <<s, FALSE>>
                               ELSE bumpState(n, s, v, j)
  BY DEF abandonBallot
<1>2. UpdatedValue(s, s) /\ SameCore(s, s)
  BY DEF UpdatedValue, SameCore, Attempted, SameRest
<1>3. s.b \in BallotOrNull /\ s.b.counter \in Nat
  BY BallotFields DEF NodeState
<1>4. v # 0 => v \in Value
  <2>1. s.b = NullBallot => s.b.value = 0
    BY SMT DEF NullBallot
  <2>2. s.b # NullBallot => s.b.value \in Value
    BY <1>3, BallotFields
  <2>3. s.cand \in Value \cup {0}
    BY DEF NodeState
  <2>4. QED BY <2>1, <2>2, <2>3
<1>5. next \in Counter
  BY <1>3, CounterAssumption, SMT DEF Counter
<1>6. s.b = NullBallot => next # 0
  <2>1. s.b = NullBallot => s.b.counter = 0
    BY SMT DEF NullBallot
  <2>2. 1 % (UINT32_MAX + 1) = 1
    BY CounterAssumption, SMT
  <2>3. QED BY <2>1, <2>2, SMT
<1> HIDE DEF v, next
<1>7. j \in Counter /\ (s.b = NullBallot => j # 0)
  BY <1>5, <1>6
<1> HIDE DEF j
<1>8. CASE v = 0
  <2>1. abandonBallot(n, s, k) = <<s, FALSE>>
    BY <1>1, <1>8
  <2>2. QED BY <1>2, <2>1 DEF Bumped
<1>9. CASE v # 0
  <2>1. Bumped(n, s, bumpState(n, s, v, j))
    BY <1>4, <1>7, <1>9, BumpStateFacts
  <2>2. QED BY <1>1, <1>9, <2>1
<1>10. QED BY <1>8, <1>9

(* attemptBump leaves the state, or moves to a higher counter.             *)
LEMMA AttemptBumpFacts ==
  ASSUME NEW n \in Node, NEW s \in NodeState, Consistent(s)
  PROVE  Bumped(n, s, attemptBump(n, s))
<1> DEFINE allCounters == {statementBallotCounter(s.M[m]) : m \in Known(s)}
           free == {k \in allCounters :
                      /\ k > s.b.counter
                      /\ ~hasVBlockingSubsetStrictlyAheadOf(n, s, k)}
           lowest == {k \in free : \A j \in free : k <= j}
           k == CHOOSE x \in lowest : TRUE
<1>1. CASE attemptBump(n, s) = <<s, FALSE>>
  <2>1. UpdatedValue(s, s) /\ SameCore(s, s)
    BY DEF UpdatedValue, SameCore, Attempted, SameRest
  <2>2. QED BY <1>1, <2>1 DEF Bumped
<1>2. CASE lowest # {} /\ attemptBump(n, s) = abandonBallot(n, s, k)
  <2>1. k \in lowest
    BY <1>2
  <2>2. k \in allCounters
    BY <2>1
  <2>3. \A st \in Statement : statementBallotCounter(st) \in Counter
    <3>1. UINT32_MAX \in Counter
      BY CounterAssumption, SMT DEF Counter
    <3> SUFFICES ASSUME NEW st \in Statement
                 PROVE  statementBallotCounter(st) \in Counter
      OBVIOUS
    <3>2. CASE IsExternalize(st)
      BY <3>1, <3>2 DEF statementBallotCounter
    <3>3. CASE ~IsExternalize(st)
      <4>1. st.b \in BallotOrNull
        BY <3>3, StatementFields, MakeBallot
      <4>2. QED BY <3>3, <4>1, BallotFields DEF statementBallotCounter
    <3>4. QED BY <3>2, <3>3
  <2>4. k \in Counter
    BY <2>2, <2>3, KnownStatement
  <2> HIDE DEF k
  <2>5. QED BY <1>2, <2>4, AbandonFacts
<1>3. QED BY <1>1, <1>2 DEF attemptBump

(* Ballots of one value are ordered by their counters.                     *)
LEMMA SameValueOrder ==
  ASSUME NEW x \in BallotOrNull, NEW y \in BallotOrNull, x.value = y.value
  PROVE  areBallotsLessAndCompatible(x, y) <=> x.counter <= y.counter
<1>1. /\ x.counter \in Nat /\ x.value \in Nat
      /\ x = [counter |-> x.counter, value |-> x.value]
  BY BallotFields
<1>2. /\ y.counter \in Nat /\ y.value \in Nat
      /\ y = [counter |-> y.counter, value |-> y.value]
  BY BallotFields
<1>3. QED BY <1>1, <1>2, SMT
          DEF areBallotsLessAndCompatible, areBallotsCompatible, LessEq, Less

-----------------------------------------------------------------------------
(* What checkInvariants says of b, h and c, in the order of ballots.       *)
LEMMA ConsistentFacts ==
  ASSUME NEW s \in NodeState, Consistent(s)
  PROVE  /\ s.b \in BallotOrNull /\ s.p \in BallotOrNull /\ s.pp \in BallotOrNull
         /\ s.h \in BallotOrNull /\ s.c \in BallotOrNull
         /\ s.h # NullBallot =>
              /\ s.b # NullBallot /\ LessEq(s.h, s.b) /\ s.h.value = s.b.value
         /\ s.c # NullBallot =>
              /\ s.h # NullBallot /\ LessEq(s.c, s.h) /\ s.c.value = s.h.value
         /\ s.phase # "PREPARE" => s.c # NullBallot
BY DEF Consistent, checkInvariants, NodeState, areBallotsLessAndCompatible,
       areBallotsCompatible

-----------------------------------------------------------------------------
(* The null ballot is below every ballot.                                  *)
LEMMA NullLess == \A x \in Ballot : Less(NullBallot, x)
<1>1. SUFFICES ASSUME NEW x \in Ballot PROVE Less(NullBallot, x)
  OBVIOUS
<1>2. x.counter \in Nat \ {0}
  BY BallotFields DEF BallotOrNull
<1>3. QED BY <1>2, SMT DEF Less, NullBallot

(* The strict order of ballots is transitive.                              *)
LEMMA LessTrans ==
  ASSUME NEW x \in BallotOrNull, NEW y \in BallotOrNull, NEW z \in BallotOrNull
  PROVE  /\ LessEq(x, y) /\ Less(y, z) => Less(x, z)
         /\ Less(x, y) /\ LessEq(y, z) => Less(x, z)
BY BallotOrder

-----------------------------------------------------------------------------
(* emitCurrentStateStatement.                                              *)

(* The assertions it makes of the state.                                   *)
Sayable(u) == /\ checkInvariants(u)
              /\ u.phase = "CONFIRM" => u.p # NullBallot

(* What is said, and what is to be said, is the same.                      *)
SameSaid(s, t) ==
  /\ t.M = s.M /\ t.lastEnvelope = s.lastEnvelope
  /\ t.lastEnvelopeEmit = s.lastEnvelopeEmit /\ t.sent = s.sent
  /\ Len(t.stack) = Len(s.stack)
  /\ \A j \in 1 .. Len(s.stack) : SameCall(s.stack[j], t.stack[j])

-----------------------------------------------------------------------------
(* The invariant through the steps of advanceSlot.                         *)

(* An attempt that fails no assertion of the node's own keeps the          *)
(* invariant.                                                              *)
LEMMA AttemptedOK ==
  ASSUME NEW s, StateOK(s), NEW t, Attempted(s, t),
         t.bad \in {s.bad, "cClearedLate", "pNotCompatibleWithC",
                    "smallerBallot"},
         t.p = NullBallot => t.pp = NullBallot,
         Alive(t) => checkInvariants(t)
  PROVE  StateOK(t)
<1>1. t.bad \notin LocalAssertions
  BY DEF StateOK, LocalAssertions
<1>2. OwnRestorable(t)
  BY OwnSame DEF StateOK, Attempted, SameRest
<1>3. QED BY <1>1, <1>2 DEF StateOK, Attempted

(* SetTop keeps the invariant.                                             *)
LEMMA SetTopOK ==
  ASSUME NEW s, StateOK(s), s.stack # << >>, NEW pc \in PCs,
         NEW work \in BOOLEAN
  PROVE  StateOK(SetTop(s, pc, work))
<1> DEFINE t == SetTop(s, pc, work)
<1>1. /\ t \in NodeState /\ SameButStack(s, t)
      /\ Len(t.stack) = Len(s.stack)
      /\ \A j \in 1 .. Len(s.stack) : SameCall(s.stack[j], t.stack[j])
  BY SetTopFacts, ZenonT(40) DEF StateOK, MovedOn
<1> HIDE DEF t
<1>2. OwnRestorable(t)
  BY <1>1 DEF StateOK, OwnRestorable, SameButStack, SameCall
<1>3. checkInvariants(s) => checkInvariants(t)
  BY <1>1, CheckSame DEF SameButStack
<1>4. StateOK(t)
  BY <1>1, <1>2, <1>3 DEF StateOK, SameButStack, SameOther, SameCore, Alive
<1>5. QED BY <1>4 DEF t

(* Continue keeps the invariant.                                           *)
LEMMA ContinueOK ==
  ASSUME NEW n \in Node, NEW s, NEW r, r[2] \in BOOLEAN, StateOK(r[1]),
         r[1].stack # << >>, NEW pc \in PCs
  PROVE  StateOK(Continue(n, s, r, pc))
<1>1. CASE r[2]
  <2> DEFINE u == SetTop(r[1], pc, TRUE)
  <2>1. StateOK(u)
    BY SetTopOK
  <2>2. Continue(n, s, r, pc) = emitCurrentStateStatement(n, u, FALSE)
    BY <1>1 DEF Continue
  <2> HIDE DEF u
  <2>3. QED BY <2>1, <2>2, EmitOK
<1>2. CASE ~r[2]
  <2>1. Continue(n, s, r, pc) = SetTop(r[1], pc, FALSE)
    BY <1>2 DEF Continue
  <2>2. QED BY <2>1, SetTopOK
<1>3. QED BY <1>1, <1>2

-----------------------------------------------------------------------------
(* t is s after its innermost advanceSlot has returned: the statement of a *)
(* self frame becomes the last one when it is newer, and the last one is   *)
(* sent when the stack is empty.                                           *)
Returned(s, t) ==
  LET f == Top(s)
      newer == /\ f.self /\ f.canEmit
               /\ \/ s.lastEnvelope = NoStatement
                  \/ isNewerStatement(s.lastEnvelope, f.hint)
      sends == Len(s.stack) = 1 /\ s.fullyValidated
  IN  /\ t \in NodeState /\ SameCore(s, t) /\ SameOther(s, t) /\ t.M = s.M
      /\ t.fullyValidated = s.fullyValidated
      /\ Len(t.stack) = Len(s.stack) - 1
      /\ \A j \in 1 .. Len(s.stack) - 1 : t.stack[j] = s.stack[j]
      /\ t.lastEnvelope = IF newer THEN f.hint ELSE s.lastEnvelope
      /\ t.lastEnvelopeEmit =
           IF sends /\ newer THEN f.hint
           ELSE IF sends /\ f.work /\ s.lastEnvelope # NoStatement
           THEN s.lastEnvelope ELSE s.lastEnvelopeEmit
      /\ t.sent \subseteq s.sent \cup ({s.lastEnvelope} \ {NoStatement})
                            \cup (IF f.self THEN {f.hint} ELSE {})

(* ReturnFromAdvanceSlot takes the innermost call away and emits its       *)
(* statement.                                                              *)
LEMMA ReturnFacts ==
  ASSUME NEW n \in Node, NEW s \in NodeState, s.stack # << >>
  PROVE  Returned(s, ReturnFromAdvanceSlot(n, s))
<1> DEFINE L == Len(s.stack)
           f == Top(s)
           k == SubSeq(s.stack, 1, L - 1)
           s1 == [s EXCEPT !.stack = k]
           s2 == IF f.work THEN sendLatestEnvelope(s1) ELSE s1
           t == ReturnFromAdvanceSlot(n, s)
<1>1. s.stack \in Seq(Frame) /\ L \in Nat \ {0}
  BY EmptySeq DEF NodeState
<1>2. f \in Frame
  BY <1>1, ElementOfSeq, SMT DEF Top
<1>3. /\ f.hint \in Statement /\ f.self \in BOOLEAN /\ f.canEmit \in BOOLEAN
      /\ f.check \in BOOLEAN /\ f.work \in BOOLEAN
  BY <1>2 DEF Frame
<1>4. /\ k \in Seq(Frame) /\ Len(k) = L - 1
      /\ \A j \in 1 .. L - 1 : k[j] = s.stack[j]
  BY <1>1, SMT
<1>5. t = IF f.self THEN finishEmit(n, s2, f.hint, f.canEmit, f.check) ELSE s2
  BY DEF ReturnFromAdvanceSlot
<1>6. (k = << >>) <=> (L = 1)
  <2> HIDE DEF k, L
  <2>1. k = << >> => Len(k) = 0
    BY EmptySeq
  <2>2. k # << >> => Len(k) \in Nat \ {0}
    BY <1>4, EmptySeq
  <2>3. QED BY <1>1, <1>4, <2>1, <2>2, SMT
<1> HIDE DEF k, f, t
<1>7. s1 \in NodeState
  BY <1>4 DEF NodeState
<1>8. SameButStack(s, s1) /\ s1.stack = k
  BY <1>7 DEF NodeState, SameButStack, SameCore, SameOther
<1> HIDE DEF s1
<1> DEFINE sends == L = 1 /\ s.fullyValidated
           newer == /\ f.self /\ f.canEmit
                    /\ \/ s.lastEnvelope = NoStatement
                       \/ isNewerStatement(s.lastEnvelope, f.hint)
<1>9. /\ s2 \in NodeState /\ SameCore(s, s2) /\ SameOther(s, s2) /\ s2.M = s.M
      /\ s2.fullyValidated = s.fullyValidated /\ s2.stack = k
      /\ s2.lastEnvelope = s.lastEnvelope
      /\ s2.lastEnvelopeEmit =
           IF sends /\ f.work /\ s.lastEnvelope # NoStatement
           THEN s.lastEnvelope ELSE s.lastEnvelopeEmit
      /\ s2.sent \subseteq s.sent \cup ({s.lastEnvelope} \ {NoStatement})
  <2>1. CASE f.work
    <3>1. s2 = sendLatestEnvelope(s1)
      BY <2>1
    <3> HIDE DEF s2
    <3>2. /\ s2 \in NodeState /\ SameCore(s1, s2) /\ SameOther(s1, s2)
          /\ s2.M = s1.M /\ s2.lastEnvelope = s1.lastEnvelope
          /\ s2.fullyValidated = s1.fullyValidated /\ s2.stack = s1.stack
          /\ s2.lastEnvelopeEmit =
               IF Idle(s1) /\ s1.lastEnvelope # NoStatement
                    /\ s1.fullyValidated
               THEN s1.lastEnvelope ELSE s1.lastEnvelopeEmit
          /\ s2.sent \subseteq s1.sent \cup ({s1.lastEnvelope} \ {NoStatement})
      BY <1>7, <3>1, SendFacts
    <3>3. QED BY <1>6, <1>8, <2>1, <3>2
                 DEF SameButStack, SameCore, SameOther, Idle
  <2>2. CASE ~f.work
    <3>1. s2 = s1
      BY <2>2
    <3> HIDE DEF s2
    <3>2. QED BY <1>7, <1>8, <2>2, <3>1 DEF SameButStack, SameCore, SameOther
  <2>3. QED BY <2>1, <2>2
<1> HIDE DEF s2
<1>10. /\ t \in NodeState /\ SameCore(s2, t) /\ SameOther(s2, t)
       /\ t.M = s2.M /\ t.fullyValidated = s2.fullyValidated
       /\ t.stack = s2.stack
       /\ t.lastEnvelope = IF newer THEN f.hint ELSE s2.lastEnvelope
       /\ t.lastEnvelopeEmit = IF newer /\ sends THEN f.hint
                               ELSE s2.lastEnvelopeEmit
       /\ t.sent \subseteq s2.sent \cup (IF f.self THEN {f.hint} ELSE {})
  <2>1. CASE f.self
    <3>1. t = finishEmit(n, s2, f.hint, f.canEmit, f.check)
      BY <1>5, <2>1
    <3> DEFINE newer2 == /\ f.canEmit
                         /\ \/ s2.lastEnvelope = NoStatement
                            \/ isNewerStatement(s2.lastEnvelope, f.hint)
    <3>2. /\ t \in NodeState /\ SameCore(s2, t) /\ SameOther(s2, t)
          /\ t.M = s2.M /\ t.fullyValidated = s2.fullyValidated
          /\ t.stack = s2.stack
          /\ t.lastEnvelope = IF newer2 THEN f.hint ELSE s2.lastEnvelope
          /\ t.lastEnvelopeEmit =
               IF newer2 /\ Idle(s2) /\ s2.fullyValidated
               THEN f.hint ELSE s2.lastEnvelopeEmit
          /\ t.sent \subseteq s2.sent \cup {f.hint}
      <4>1. Finished(s2, f.hint, f.canEmit, t)
        BY <1>3, <1>9, <3>1, FinishFacts
      <4>2. QED BY <4>1 DEF Finished
    <3>3. newer2 <=> newer
      BY <1>9, <2>1
    <3>4. (newer2 /\ Idle(s2) /\ s2.fullyValidated) <=> (newer /\ sends)
      BY <1>6, <1>9, <3>3 DEF Idle
    <3> HIDE DEF newer, newer2, sends
    <3>5. QED BY <2>1, <3>2, <3>3, <3>4
  <2>2. CASE ~f.self
    <3>1. t = s2
      BY <1>5, <2>2
    <3>2. QED BY <1>9, <2>2, <3>1 DEF SameCore, SameOther
  <2>3. QED BY <2>1, <2>2
<1>11. SameCore(s, t) /\ SameOther(s, t)
  BY <1>9, <1>10 DEF SameCore, SameOther
<1>12. Len(t.stack) = L - 1 /\ \A j \in 1 .. L - 1 : t.stack[j] = s.stack[j]
  BY <1>4, <1>9, <1>10
<1> DEFINE le == IF newer THEN f.hint ELSE s.lastEnvelope
           lee == IF sends /\ newer THEN f.hint
                  ELSE IF sends /\ f.work /\ s.lastEnvelope # NoStatement
                  THEN s.lastEnvelope ELSE s.lastEnvelopeEmit
<1>13. t.lastEnvelope = le /\ t.lastEnvelopeEmit = lee
  <2> HIDE DEF newer, sends
  <2>1. QED BY <1>9, <1>10
<1>14. t.sent \subseteq s.sent \cup ({s.lastEnvelope} \ {NoStatement})
                          \cup (IF f.self THEN {f.hint} ELSE {})
  BY <1>9, <1>10
<1>15. QED BY <1>9, <1>10, <1>11, <1>12, <1>13, <1>14 DEF Returned, t, f

(* ReturnFromAdvanceSlot keeps the invariant.                              *)
LEMMA ReturnOK ==
  ASSUME NEW s, StateOK(s), s.stack # << >>, NEW t, Returned(s, t)
  PROVE  StateOK(t)
<1> DEFINE f == Top(s)
<1>1. /\ t \in NodeState /\ SameCore(s, t) /\ SameOther(s, t)
      /\ Len(t.stack) = Len(s.stack) - 1
      /\ \A j \in 1 .. Len(s.stack) - 1 : t.stack[j] = s.stack[j]
      /\ t.lastEnvelope \in {f.hint, s.lastEnvelope}
      /\ t.lastEnvelopeEmit \in {f.hint, s.lastEnvelope, s.lastEnvelopeEmit}
      /\ f.hint \in {t.lastEnvelope, t.lastEnvelopeEmit} =>
           \/ f.self
           \/ f.hint \in {s.lastEnvelope, s.lastEnvelopeEmit}
  BY DEF Returned
<1>2. s.stack \in Seq(Frame) /\ Len(s.stack) \in Nat \ {0}
  BY EmptySeq DEF NodeState, StateOK
<1>3. f.self => Restorable(f.hint)
  BY <1>2, SMT DEF StateOK, OwnRestorable, Top
<1> HIDE DEF f
<1>4. \A st \in {t.lastEnvelope, t.lastEnvelopeEmit} :
        st # NoStatement => Restorable(st)
  BY <1>1, <1>3, SMT DEF StateOK, OwnRestorable
<1>5. \A i \in 1 .. Len(t.stack) :
        /\ t.stack[i].self => Restorable(t.stack[i].hint)
        /\ Votable(t.stack[i].hint)
  BY <1>1, <1>2, SMT DEF StateOK, OwnRestorable
<1>6. checkInvariants(s) => checkInvariants(t)
  BY <1>1, CheckSame
<1>7. QED BY <1>1, <1>4, <1>5, <1>6
             DEF StateOK, OwnRestorable, SameCore, SameOther, Alive

-----------------------------------------------------------------------------
(* w is s about to return from its innermost advanceSlot.                  *)
AboutToReturn(s, w) ==
  /\ w \in NodeState /\ SameCore(s, w) /\ w.ext = s.ext /\ w.M = s.M
  /\ w.lastEnvelope = s.lastEnvelope /\ w.sent = s.sent
  /\ w.lastEnvelopeEmit = s.lastEnvelopeEmit
  /\ w.fullyValidated = s.fullyValidated
  /\ w.bad \in {s.bad, "smallerBallot"}
  /\ Len(w.stack) = Len(s.stack)
  /\ \A j \in 1 .. Len(s.stack) : /\ SameCall(s.stack[j], w.stack[j])
                                  /\ w.stack[j].work = s.stack[j].work

(* BumpOrReturn: the outermost advanceSlot may move to a higher ballot, and*)
(* is then still in progress; else the innermost one returns.              *)
LEMMA BumpOrReturnFacts ==
  ASSUME NEW n \in Node, NEW s \in NodeState, Consistent(s), s.stack # << >>
  PROVE  LET t == BumpOrReturn(n, s)
         IN  \/ \E u : /\ UpdatedValue(SetTop(s, "bump", TRUE), u)
                       /\ t = emitCurrentStateStatement(n, u, TRUE)
             \/ \E w : AboutToReturn(s, w) /\ Returned(w, t)
<1> DEFINE t == BumpOrReturn(n, s)
           s0 == SetTop(s, "bump", TRUE)
           r == attemptBump(n, s0)
           L == Len(s.stack)
<1> SUFFICES \/ \E u : /\ UpdatedValue(s0, u)
                       /\ t = emitCurrentStateStatement(n, u, TRUE)
             \/ \E w : AboutToReturn(s, w) /\ Returned(w, t)
  OBVIOUS
<1>1. "bump" \in PCs /\ TRUE \in BOOLEAN
  BY DEF PCs
<1>2. /\ s0 \in NodeState /\ SameButStack(s, s0)
      /\ Len(s0.stack) = L /\ L \in Nat \ {0}
      /\ \A j \in 1 .. L : SameCall(s.stack[j], s0.stack[j])
      /\ \A j \in 1 .. L : j # L => s0.stack[j] = s.stack[j]
  <2>1. MovedOn(s, TRUE, s0)
    BY <1>1, SetTopFacts
  <2>2. QED BY <2>1 DEF MovedOn
<1> HIDE DEF s0
<1>3. Consistent(s0)
  BY <1>2, CheckSame DEF SameButStack
<1>4. Bumped(n, s0, r)
  BY <1>2, <1>3, AttemptBumpFacts
<1>5. PICK u : /\ UpdatedValue(s0, u)
               /\ \/ SameCore(s0, u) /\ r = <<u, FALSE>>
                  \/ r = <<emitCurrentStateStatement(n, u, TRUE), TRUE>>
  BY <1>4 DEF Bumped
<1> HIDE DEF r
<1>6. CASE L > 1
  <2>1. AboutToReturn(s, s)
    BY DEF AboutToReturn, SameCore, SameCall
  <2>2. t = ReturnFromAdvanceSlot(n, s)
    BY <1>6 DEF BumpOrReturn
  <2>3. Returned(s, t)
    BY <2>2, ReturnFacts
  <2>4. QED BY <2>1, <2>3
<1>7. CASE L = 1 /\ r = <<emitCurrentStateStatement(n, u, TRUE), TRUE>>
  <2>1. r[2] /\ r[1] = emitCurrentStateStatement(n, u, TRUE) /\ ~(L > 1)
    BY <1>7, SMT
  <2>2. t = emitCurrentStateStatement(n, u, TRUE)
    BY <2>1 DEF BumpOrReturn, r, s0
  <2>3. QED BY <1>5, <2>2 DEF s0
<1>8. CASE L = 1 /\ SameCore(s0, u) /\ r = <<u, FALSE>>
  <2> DEFINE w == [u EXCEPT !.stack[1].work = Top(s).work]
             g == [u.stack[1] EXCEPT !.work = Top(s).work]
             x == checkHeardFromQuorum(n, w)
  <2>1. ~r[2] /\ r[1] = u /\ ~(L > 1)
    BY <1>8, SMT
  <2>2. t = ReturnFromAdvanceSlot(n, x)
    BY <2>1 DEF BumpOrReturn, r, s0
  <2> HIDE DEF t
  <2>3. /\ u \in NodeState /\ SameRest(s0, u) /\ u.ext = s0.ext
        /\ u.bad \in {s0.bad, "smallerBallot"}
    BY <1>5 DEF UpdatedValue, Attempted
  <2>4. /\ u.stack \in Seq(Frame) /\ Len(u.stack) = 1 /\ u.stack = s0.stack
        /\ s.stack \in Seq(Frame) /\ 1 \in 1 .. Len(u.stack)
        /\ 1 \in 1 .. Len(s.stack)
    <3>1. u.stack = s0.stack
      BY <2>3 DEF SameRest
    <3>2. Len(u.stack) = 1
      BY <1>2, <1>8, <3>1
    <3>3. u.stack \in Seq(Frame) /\ s.stack \in Seq(Frame)
      BY <2>3 DEF NodeState
    <3>4. QED BY <1>8, <3>1, <3>2, <3>3, SMT
  <2>5. u.stack[1] \in Frame /\ s.stack[1] \in Frame /\ Top(s) = s.stack[1]
    BY <1>8, <2>4, ElementOfSeq DEF Top
  <2>6. g \in Frame /\ SameCall(u.stack[1], g) /\ g.work = s.stack[1].work
    BY <2>5 DEF Frame, SameCall
  <2>7. w = [u EXCEPT !.stack = [u.stack EXCEPT ![1] = g]]
    OBVIOUS
  <2> HIDE DEF w, g
  <2>8. /\ w \in NodeState /\ SameButStack(u, w)
        /\ Len(w.stack) = Len(u.stack)
        /\ \A j \in 1 .. Len(u.stack) :
             w.stack[j] = IF j = 1 THEN g ELSE u.stack[j]
    BY <2>3, <2>4, <2>6, <2>7, StackExcept
  <2>9. w.stack[1] = g /\ Len(w.stack) = 1
    BY <2>4, <2>8
  <2>10. /\ x \in NodeState /\ SameCore(w, x) /\ SameRest(w, x)
         /\ SameOther(w, x)
    BY <2>8, CheckHeardFacts
  <2> HIDE DEF x
  <2>11. \A j \in 1 .. L : /\ SameCall(s.stack[j], x.stack[j])
                           /\ x.stack[j].work = s.stack[j].work
    <3>1. x.stack[1] = g
      BY <2>9, <2>10 DEF SameRest
    <3>2. SameCall(s.stack[1], s0.stack[1])
      BY <1>2, <2>4
    <3>3. SameCall(s.stack[1], g)
      BY <2>4, <2>6, <3>2 DEF SameCall
    <3>4. QED BY <1>8, <2>6, <3>1, <3>3, SMT
  <2>12. AboutToReturn(s, x)
    <3>1. SameCore(s, x) /\ x.ext = s.ext /\ x.M = s.M
      BY <1>2, <1>8, <2>3, <2>8, <2>10, SMT
         DEF SameCore, SameButStack, SameRest, SameOther
    <3>2. /\ x.lastEnvelope = s.lastEnvelope /\ x.sent = s.sent
          /\ x.lastEnvelopeEmit = s.lastEnvelopeEmit
          /\ x.fullyValidated = s.fullyValidated
          /\ x.bad \in {s.bad, "smallerBallot"}
      BY <1>2, <2>3, <2>8, <2>10, SMT
         DEF SameButStack, SameRest, SameOther
    <3>3. Len(x.stack) = L
      BY <1>8, <2>9, <2>10 DEF SameRest
    <3>4. QED BY <2>10, <2>11, <3>1, <3>2, <3>3 DEF AboutToReturn
  <2>13. x.stack # << >>
    BY <2>9, <2>10, EmptySeq, SMT DEF SameRest
  <2>14. Returned(x, t)
    BY <2>2, <2>10, <2>13, ReturnFacts
  <2>15. \E y : AboutToReturn(s, y) /\ Returned(y, t)
    BY <2>12, <2>14
  <2>16. QED BY <2>15
<1> HIDE DEF t, L
<1>9. L > 1 \/ L = 1
  <2>1. L \in Nat \ {0}
    BY <1>2
  <2>2. QED BY <2>1, SMT
<1>10. QED BY <1>5, <1>6, <1>7, <1>8, <1>9

(* BumpOrReturn keeps the invariant.                                       *)
LEMMA BumpOrReturnOK ==
  ASSUME NEW n \in Node, NEW s, StateOK(s), Alive(s), s.stack # << >>
  PROVE  StateOK(BumpOrReturn(n, s))
<1> DEFINE t == BumpOrReturn(n, s)
           s0 == SetTop(s, "bump", TRUE)
<1>1. s \in NodeState /\ Consistent(s)
  BY DEF StateOK, Consistent
<1>2. \/ \E u : UpdatedValue(s0, u) /\ t = emitCurrentStateStatement(n, u, TRUE)
      \/ \E w : AboutToReturn(s, w) /\ Returned(w, t)
  BY <1>1, BumpOrReturnFacts
<1>3. "bump" \in PCs /\ TRUE \in BOOLEAN
  BY DEF PCs
<1>4. StateOK(s0) /\ SameButStack(s, s0)
  <2>1. MovedOn(s, TRUE, s0)
    BY <1>1, <1>3, SetTopFacts
  <2>2. QED BY <1>3, <2>1, SetTopOK DEF MovedOn
<1> HIDE DEF t, s0
<1>5. CASE \E u : /\ UpdatedValue(s0, u)
                  /\ t = emitCurrentStateStatement(n, u, TRUE)
  <2>1. PICK u : UpdatedValue(s0, u) /\ t = emitCurrentStateStatement(n, u, TRUE)
    BY <1>5
  <2>2. s0 \in NodeState /\ Consistent(s0)
    BY <1>1, <1>4, CheckSame DEF SameButStack, StateOK
  <2>3. Consistent(u)
    BY <2>1, <2>2, UpdatedConsistent
  <2>4. StateOK(u)
    BY <1>4, <2>1, <2>3, AttemptedOK DEF UpdatedValue, Consistent
  <2>5. StateOK(t)
    BY <1>3, <2>1, <2>4, EmitOK
  <2>6. QED BY <2>5 DEF t
<1>6. CASE \E w : AboutToReturn(s, w) /\ Returned(w, t)
  <2>1. PICK w : AboutToReturn(s, w) /\ Returned(w, t)
    BY <1>6
  <2>2. OwnRestorable(w)
    BY <2>1 DEF AboutToReturn, StateOK, OwnRestorable, SameCall
  <2>3. checkInvariants(w)
    BY <1>1, <2>1, CheckSame DEF AboutToReturn, Consistent
  <2>4. w.bad \notin LocalAssertions
    BY <2>1 DEF AboutToReturn, StateOK, LocalAssertions
  <2>5. StateOK(w)
    BY <2>1, <2>2, <2>3, <2>4 DEF AboutToReturn, StateOK, SameCore
  <2>6. w.stack # << >>
    <3>1. s.stack \in Seq(Frame)
      BY <1>1 DEF NodeState
    <3>2. Len(s.stack) \in Nat \ {0}
      BY <3>1, EmptySeq
    <3>3. Len(w.stack) # 0
      BY <2>1, <3>2 DEF AboutToReturn
    <3>4. QED BY <3>3, EmptySeq
  <2>7. StateOK(t)
    BY <2>1, <2>5, <2>6, ReturnOK
  <2>8. QED BY <2>7 DEF t
<1>7. QED BY <1>2, <1>5, <1>6

(* A step of advanceSlot keeps the invariant.                              *)
LEMMA StepOK ==
  ASSUME NEW n \in Node, NEW s, StateOK(s), Alive(s), s.stack # << >>
  PROVE  StateOK(Step(n, s))
<1> DEFINE f == Top(s)
           hint == Top(s).hint
           t == Step(n, s)
<1>1. s \in NodeState /\ Consistent(s)
  BY DEF StateOK, Consistent
<1>2. s.stack \in Seq(Frame) /\ Len(s.stack) \in Nat \ {0}
  BY <1>1, EmptySeq DEF NodeState
<1>3. f \in Frame
  BY <1>2, ElementOfSeq, SMT DEF Top
<1>4. hint \in Statement /\ f.pc \in PCs
  BY <1>3 DEF Frame, PCs
<1>5. Votable(hint)
  BY <1>2, SMT DEF StateOK, OwnRestorable, Top
<1>6. ASSUME NEW r, NEW pc \in PCs, Result(s, r), Attempted(s, r[1]),
             r[1].bad \in {s.bad, "cClearedLate", "pNotCompatibleWithC"},
             r[1].p = NullBallot => r[1].pp = NullBallot,
             Alive(r[1]) => checkInvariants(r[1])
      PROVE  StateOK(Continue(n, s, r, pc))
  <2>1. StateOK(r[1])
    BY <1>6, AttemptedOK
  <2>2. r[1].stack # << >> /\ r[2] \in BOOLEAN
    BY <1>6 DEF Attempted, SameRest, Result
  <2>3. QED BY <2>1, <2>2, ContinueOK, SMT
<1>7. PCs = {"acceptPrepared", "confirmPrepared", "acceptCommit",
             "confirmCommit", "bump"}
  BY DEF PCs
<1>8. CASE f.pc = "acceptPrepared"
  <2> DEFINE r == attemptAcceptPrepared(n, s, hint)
  <2>1. t = Continue(n, s, r, "confirmPrepared")
    BY <1>8 DEF Step
  <2>2. Result(s, r) /\ AttemptedAcceptPrepared(n, s, r[1])
    BY <1>1, <1>4, AttemptAcceptPreparedFacts
  <2> HIDE DEF r
  <2>3. /\ r[1].p = NullBallot => r[1].pp = NullBallot
        /\ Alive(r[1]) => checkInvariants(r[1])
    BY <1>1, <2>2, AcceptPreparedConsistent
  <2>4. QED BY <1>6, <1>7, <2>1, <2>2, <2>3 DEF AttemptedAcceptPrepared
<1>9. CASE f.pc = "confirmPrepared"
  <2> DEFINE r == attemptConfirmPrepared(n, s, hint)
  <2>1. t = Continue(n, s, r, "acceptCommit")
    BY <1>9 DEF Step
  <2>2. Result(s, r) /\ AttemptedConfirmPrepared(n, s, r[1])
    BY <1>1, <1>4, AttemptConfirmPreparedFacts
  <2> HIDE DEF r
  <2>3. Consistent(r[1])
    BY <1>1, <2>2, ConfirmPreparedConsistent
  <2>4. QED BY <1>6, <1>7, <2>1, <2>2, <2>3
               DEF AttemptedConfirmPrepared, Consistent
<1>10. CASE f.pc = "acceptCommit"
  <2> DEFINE r == attemptAcceptCommit(n, s, hint)
  <2>1. t = Continue(n, s, r, "confirmCommit")
    BY <1>10 DEF Step
  <2>2. Result(s, r) /\ AttemptedAcceptCommit(n, s, r[1])
    BY <1>1, <1>4, <1>5, AttemptAcceptCommitFacts
  <2> HIDE DEF r
  <2>3. Consistent(r[1])
    BY <1>1, <2>2, AcceptCommitConsistent
  <2>4. QED BY <1>6, <1>7, <2>1, <2>2, <2>3
               DEF AttemptedAcceptCommit, Consistent
<1>11. CASE f.pc = "confirmCommit"
  <2> DEFINE r == attemptConfirmCommit(n, s, hint)
  <2>1. t = Continue(n, s, r, "bump")
    BY <1>11 DEF Step
  <2>2. Result(s, r) /\ AttemptedConfirmCommit(n, s, r[1])
    BY <1>1, <1>4, AttemptConfirmCommitFacts
  <2> HIDE DEF r
  <2>3. Consistent(r[1])
    BY <1>1, <2>2, ConfirmCommitConsistent
  <2>4. QED BY <1>6, <1>7, <2>1, <2>2, <2>3
               DEF AttemptedConfirmCommit, Consistent
<1>12. CASE f.pc = "bump"
  <2>1. t = BumpOrReturn(n, s)
    BY <1>12 DEF Step
  <2>2. QED BY <2>1, BumpOrReturnOK
<1>13. QED BY <1>4, <1>7, <1>8, <1>9, <1>10, <1>11, <1>12

-----------------------------------------------------------------------------
(* The invariant through the handlers.                                     *)

(* A state that differs in the candidate, the timer or what is known keeps *)
(* the invariant.                                                          *)
LEMMA SameOwnOK ==
  ASSUME NEW s, StateOK(s), NEW t \in NodeState, SameCore(s, t),
         t.bad = s.bad, t.stack = s.stack, t.lastEnvelope = s.lastEnvelope,
         t.lastEnvelopeEmit = s.lastEnvelopeEmit
  PROVE  StateOK(t)
<1>1. OwnRestorable(t)
  BY OwnSame DEF StateOK
<1>2. checkInvariants(s) => checkInvariants(t)
  BY CheckSame
<1>3. QED BY <1>1, <1>2 DEF StateOK, SameCore, Alive

(* bumpState and abandonBallot keep the invariant.                         *)
LEMMA BumpedOK ==
  ASSUME NEW n \in Node, NEW s, StateOK(s), Alive(s), NEW r, Bumped(n, s, r)
  PROVE  StateOK(r[1])
<1>1. PICK u : /\ UpdatedValue(s, u)
               /\ \/ SameCore(s, u) /\ r = <<u, FALSE>>
                  \/ r = <<emitCurrentStateStatement(n, u, TRUE), TRUE>>
  BY DEF Bumped
<1>2. s \in NodeState /\ Consistent(s)
  BY DEF StateOK, Consistent
<1>3. Consistent(u)
  BY <1>1, <1>2, UpdatedConsistent
<1>4. StateOK(u)
  BY <1>1, <1>3, AttemptedOK DEF UpdatedValue, Consistent
<1>5. TRUE \in BOOLEAN
  OBVIOUS
<1>6. StateOK(emitCurrentStateStatement(n, u, TRUE))
  BY <1>4, <1>5, EmitOK
<1> DEFINE e == emitCurrentStateStatement(n, u, TRUE)
<1>7. r = <<u, FALSE>> \/ r = <<e, TRUE>>
  BY <1>1
<1> HIDE DEF e
<1>8. r[1] = u \/ r[1] = e
  <2>1. ASSUME NEW x, NEW y PROVE <<x, y>>[1] = x
    OBVIOUS
  <2>2. CASE r = <<u, FALSE>>
    BY <2>1, <2>2
  <2>3. CASE r = <<e, TRUE>>
    BY <2>1, <2>3
  <2>4. QED BY <1>7, <2>2, <2>3
<1>9. QED BY <1>4, <1>6, <1>8 DEF e

(* recordEnvelope changes what is known of one node only.                  *)
LEMMA RecordFacts ==
  ASSUME NEW s \in NodeState, NEW st \in Statement
  PROVE  LET t == recordEnvelope(s, st)
         IN  /\ t \in NodeState /\ SameCore(s, t) /\ SameOther(s, t)
             /\ t.stack = s.stack /\ t.lastEnvelope = s.lastEnvelope
             /\ t.lastEnvelopeEmit = s.lastEnvelopeEmit /\ t.sent = s.sent
             /\ t.fullyValidated = s.fullyValidated
             /\ \A m \in Node : t.M[m] = IF m = st.node THEN st ELSE s.M[m]
<1> DEFINE t == recordEnvelope(s, st)
<1>1. PICK M : M = [s.M EXCEPT ![st.node] = st]
  OBVIOUS
<1>2. st.node \in Node /\ s.M \in [Node -> Statement \cup {NoStatement}]
  BY StatementFields DEF NodeState
<1>3. /\ M \in [Node -> Statement \cup {NoStatement}]
      /\ \A m \in Node : M[m] = IF m = st.node THEN st ELSE s.M[m]
  BY <1>1, <1>2
<1>4. t = [s EXCEPT !.M = M]
  BY <1>1 DEF recordEnvelope
<1>5. t \in NodeState
  BY <1>3, <1>4 DEF NodeState
<1>6. /\ SameCore(s, t) /\ SameOther(s, t)
      /\ t.stack = s.stack /\ t.lastEnvelope = s.lastEnvelope
      /\ t.lastEnvelopeEmit = s.lastEnvelopeEmit /\ t.sent = s.sent
      /\ t.fullyValidated = s.fullyValidated /\ t.M = M
  BY <1>4, <1>5 DEF NodeState, SameCore, SameOther
<1> HIDE DEF t
<1>7. /\ t \in NodeState /\ SameCore(s, t) /\ SameOther(s, t)
      /\ t.stack = s.stack /\ t.lastEnvelope = s.lastEnvelope
      /\ t.lastEnvelopeEmit = s.lastEnvelopeEmit /\ t.sent = s.sent
      /\ t.fullyValidated = s.fullyValidated
      /\ \A m \in Node : t.M[m] = IF m = st.node THEN st ELSE s.M[m]
  BY <1>3, <1>5, <1>6
<1>8. QED BY <1>7 DEF t

(* The frame of another node's statement.                                  *)
ReceivedFrame(f, st) ==
  /\ f \in Frame /\ f.hint = st /\ f.pc = "acceptPrepared" /\ ~f.work
  /\ ~f.self /\ ~f.canEmit /\ ~f.check

(* processEnvelope, on an acceptable statement: it is recorded, and before *)
(* EXTERNALIZE an advanceSlot starts.                                      *)
LEMMA ProcessFacts ==
  ASSUME NEW n \in Node, NEW s \in NodeState, NEW st \in Statement,
         Acceptable(n, s, st, FALSE)
  PROVE  LET t == processEnvelope(n, s, st)
         IN  \/ s.phase = "EXTERNALIZE" /\ t = recordEnvelope(s, st)
             \/ \E f : ReceivedFrame(f, st) /\ Pushed(n, s, f, t)
<1> DEFINE t == processEnvelope(n, s, st)
<1>1. CASE s.phase = "EXTERNALIZE"
  BY <1>1 DEF processEnvelope
<1>2. CASE s.phase # "EXTERNALIZE"
  <2>1. t = recordAndAdvance(n, s, st, FALSE, FALSE, FALSE)
    BY <1>2 DEF processEnvelope
  <2>2. PICK f \in Frame :
          f = [hint |-> st, pc |-> "acceptPrepared", work |-> FALSE,
               self |-> FALSE, canEmit |-> FALSE, check |-> FALSE]
    BY DEF Frame
  <2>3. /\ f.hint = st /\ f.pc = "acceptPrepared" /\ f.work = FALSE
        /\ f.self = FALSE /\ f.canEmit = FALSE /\ f.check = FALSE
    BY <2>2
  <2> HIDE DEF t
  <2>4. t = recordAndAdvance(n, s, f.hint, f.self, f.canEmit, f.check)
    BY <2>1, <2>3
  <2>5. f.pc = "acceptPrepared" /\ ~f.work
    BY <2>3
  <2>6. Pushed(n, s, f, t)
    BY <2>4, <2>5, RecordAndAdvanceFacts
  <2>7. ReceivedFrame(f, st)
    BY <2>3 DEF ReceivedFrame
  <2>8. QED BY <2>6, <2>7 DEF t
<1>3. QED BY <1>1, <1>2

(* processEnvelope keeps the invariant.                                    *)
LEMMA ProcessOK ==
  ASSUME NEW n \in Node, NEW s, StateOK(s), NEW st \in Statement,
         Acceptable(n, s, st, FALSE)
  PROVE  StateOK(processEnvelope(n, s, st))
<1> DEFINE t == processEnvelope(n, s, st)
<1>1. s \in NodeState
  BY DEF StateOK
<1>2. \/ s.phase = "EXTERNALIZE" /\ t = recordEnvelope(s, st)
      \/ \E f : ReceivedFrame(f, st) /\ Pushed(n, s, f, t)
  BY <1>1, ProcessFacts
<1> HIDE DEF t
<1>3. CASE t = recordEnvelope(s, st)
  <2>1. /\ t \in NodeState /\ SameCore(s, t) /\ SameOther(s, t)
        /\ t.stack = s.stack /\ t.lastEnvelope = s.lastEnvelope
        /\ t.lastEnvelopeEmit = s.lastEnvelopeEmit
    BY <1>1, <1>3, RecordFacts
  <2>2. QED BY <2>1, SameOwnOK DEF SameOther, t
<1>4. CASE \E f : ReceivedFrame(f, st) /\ Pushed(n, s, f, t)
  <2>1. PICK f : ReceivedFrame(f, st) /\ Pushed(n, s, f, t)
    BY <1>4
  <2>2. Votable(st)
    <3>1. IsPrepare(st) => st.b.counter > 0 /\ st.b \in BallotOrNull
      BY StatementFields DEF Acceptable, isStatementSane
    <3>2. QED BY <3>1, SMT DEF Votable, NullBallot
  <2>3. /\ t \in NodeState /\ SameCore(s, t)
        /\ t.lastEnvelope = s.lastEnvelope
        /\ t.lastEnvelopeEmit = s.lastEnvelopeEmit
        /\ Len(t.stack) = Len(s.stack) + 1 /\ Len(s.stack) \in Nat
        /\ \A j \in 1 .. Len(s.stack) : t.stack[j] = s.stack[j]
        /\ t.stack[Len(s.stack) + 1] = f
        /\ t.bad \in {s.bad, "maxTransitions"}
    BY <2>1 DEF Pushed
  <2>4. f.hint = st /\ ~f.self
    BY <2>1 DEF ReceivedFrame
  <2>5. ASSUME NEW i \in 1 .. Len(t.stack)
        PROVE  /\ t.stack[i].self => Restorable(t.stack[i].hint)
               /\ Votable(t.stack[i].hint)
    <3>1. CASE i \in 1 .. Len(s.stack)
      BY <2>3, <3>1 DEF StateOK, OwnRestorable
    <3>2. CASE i = Len(s.stack) + 1
      BY <2>2, <2>3, <2>4, <3>2
    <3>3. Len(t.stack) = Len(s.stack) + 1 /\ Len(s.stack) \in Nat
      BY <2>3
    <3>4. QED BY <3>1, <3>2, <3>3, SMT
  <2>6. OwnRestorable(t)
    BY <2>3, <2>5 DEF StateOK, OwnRestorable
  <2>7. checkInvariants(s) => checkInvariants(t)
    BY <2>3, CheckSame
  <2>8. t.bad \notin LocalAssertions /\ (Alive(t) => Alive(s))
    BY <2>3 DEF StateOK, LocalAssertions, Alive
  <2>9. StateOK(t)
    BY <2>3, <2>6, <2>7, <2>8 DEF StateOK, SameCore
  <2>10. QED BY <2>9 DEF t
<1>5. QED BY <1>2, <1>3, <1>4

(* nominationCandidate records the candidate and starts the ballot         *)
(* protocol with it, unless it runs.                                       *)
LEMMA NominationFacts ==
  ASSUME NEW n \in Node, NEW s \in NodeState, Consistent(s), NEW v \in Value
  PROVE  \E s1 : /\ s1 \in NodeState /\ SameCore(s, s1) /\ SameRest(s, s1)
                 /\ s1.bad = s.bad /\ s1.ext = s.ext
                 /\ \/ nominationCandidate(n, s, v) = s1
                    \/ \E r : /\ Bumped(n, s1, r)
                              /\ nominationCandidate(n, s, v) = r[1]
<1> DEFINE s1 == [s EXCEPT !.cand = v]
           r == bumpState(n, s1, v, 1)
<1>1. s1 \in NodeState
  BY DEF NodeState
<1>2. /\ SameCore(s, s1) /\ SameRest(s, s1)
      /\ s1.bad = s.bad /\ s1.ext = s.ext
  BY <1>1 DEF NodeState, SameCore, SameRest
<1>3. nominationCandidate(n, s, v) = IF s.b # NullBallot THEN s1 ELSE r[1]
  BY DEF nominationCandidate
<1>4. 1 \in Counter
  BY CounterAssumption, SMT DEF Counter
<1> HIDE DEF s1
<1>5. Consistent(s1)
  BY <1>2, CheckSame
<1>6. Bumped(n, s1, r)
  BY <1>1, <1>4, <1>5, BumpStateFacts, SMT
<1> HIDE DEF r
<1>7. QED BY <1>1, <1>2, <1>3, <1>6

(* ballotProtocolTimerExpired clears the timer and abandons the ballot.    *)
LEMMA TimerFacts ==
  ASSUME NEW n \in Node, NEW s \in NodeState, Consistent(s)
  PROVE  \E s1, r : /\ s1 \in NodeState /\ SameCore(s, s1) /\ SameRest(s, s1)
                    /\ s1.bad = s.bad /\ s1.ext = s.ext /\ Bumped(n, s1, r)
                    /\ ballotProtocolTimerExpired(n, s) = r[1]
<1> DEFINE s1 == [s EXCEPT !.timer = FALSE]
           r == abandonBallot(n, s1, 0)
<1>1. s1 \in NodeState
  BY DEF NodeState
<1>2. /\ SameCore(s, s1) /\ SameRest(s, s1)
      /\ s1.bad = s.bad /\ s1.ext = s.ext
  BY <1>1 DEF NodeState, SameCore, SameRest
<1>3. ballotProtocolTimerExpired(n, s) = r[1]
  BY DEF ballotProtocolTimerExpired
<1>4. 0 \in Counter
  BY CounterAssumption, SMT DEF Counter
<1> HIDE DEF s1
<1>5. Consistent(s1)
  BY <1>2, CheckSame
<1>6. Bumped(n, s1, r)
  BY <1>1, <1>4, <1>5, AbandonFacts
<1> HIDE DEF r
<1>7. QED BY <1>1, <1>2, <1>3, <1>6

(* nominationCandidate keeps the invariant.                                *)
LEMMA NominationOK ==
  ASSUME NEW n \in Node, NEW s, StateOK(s), Alive(s), NEW v \in Value
  PROVE  StateOK(nominationCandidate(n, s, v))
<1>1. s \in NodeState /\ Consistent(s)
  BY DEF StateOK, Consistent
<1>2. PICK s1 : /\ s1 \in NodeState /\ SameCore(s, s1) /\ SameRest(s, s1)
                /\ s1.bad = s.bad /\ s1.ext = s.ext
                /\ \/ nominationCandidate(n, s, v) = s1
                   \/ \E r : /\ Bumped(n, s1, r)
                             /\ nominationCandidate(n, s, v) = r[1]
  BY <1>1, NominationFacts
<1>3. StateOK(s1) /\ Alive(s1)
  BY <1>2, SameOwnOK DEF SameRest, Alive
<1>4. QED BY <1>2, <1>3, BumpedOK

(* ballotProtocolTimerExpired keeps the invariant.                         *)
LEMMA TimerOK ==
  ASSUME NEW n \in Node, NEW s, StateOK(s), Alive(s)
  PROVE  StateOK(ballotProtocolTimerExpired(n, s))
<1>1. s \in NodeState /\ Consistent(s)
  BY DEF StateOK, Consistent
<1>2. PICK s1, r :
        /\ s1 \in NodeState /\ SameCore(s, s1) /\ SameRest(s, s1)
        /\ s1.bad = s.bad /\ s1.ext = s.ext /\ Bumped(n, s1, r)
        /\ ballotProtocolTimerExpired(n, s) = r[1]
  BY <1>1, TimerFacts
<1>3. StateOK(s1) /\ Alive(s1)
  BY <1>2, SameOwnOK DEF SameRest, Alive
<1>4. QED BY <1>2, <1>3, BumpedOK

-----------------------------------------------------------------------------
(* A restart.                                                              *)
BallotAt(k, v) == IF k = 0 THEN NullBallot ELSE makeBallot(k, v)

(* BallotAt is a ballot, or null at counter 0.                             *)
LEMMA BallotAtType ==
  ASSUME NEW k \in Counter, NEW v, k # 0 => v \in Value
  PROVE  /\ BallotAt(k, v) \in BallotOrNull
         /\ k # 0 => /\ BallotAt(k, v) \in Ballot
                     /\ BallotAt(k, v).counter = k /\ BallotAt(k, v).value = v
<1>1. CASE k = 0
  BY <1>1, MakeBallot DEF BallotAt
<1>2. CASE k # 0
  <2>1. makeBallot(k, v) \in Ballot
    BY <1>2, MakeBallot
  <2>2. QED BY <1>2, <2>1, MakeBallot DEF BallotAt, makeBallot
<1>3. QED BY <1>1, <1>2

(* What a restarted node t keeps of the node s that stopped.               *)
Restored(s, t) ==
  /\ t \in NodeState /\ t.sent = s.sent /\ t.ext = s.ext
  /\ t.stack = <<>> /\ t.bad = "" /\ t.fullyValidated
  /\ t.lastEnvelope = s.lastEnvelopeEmit
  /\ t.lastEnvelopeEmit = s.lastEnvelopeEmit
  /\ \A m \in Node :
       t.M[m] = IF /\ s.lastEnvelopeEmit # NoStatement
                   /\ m = s.lastEnvelopeEmit.node
                THEN s.lastEnvelopeEmit ELSE NoStatement

(* Its ballots are those of the statement st it emitted last.              *)
RestoredFrom(st, t) ==
  /\ st = NoStatement =>
       /\ t.phase = "PREPARE" /\ t.b = NullBallot /\ t.p = NullBallot
       /\ t.pp = NullBallot /\ t.h = NullBallot /\ t.c = NullBallot
  /\ IsPrepare(st) =>
       /\ t.phase = "PREPARE" /\ t.b = st.b /\ t.p = st.p /\ t.pp = st.pp
       /\ t.h = BallotAt(st.nH, st.b.value) /\ t.c = BallotAt(st.nC, st.b.value)
  /\ IsConfirm(st) =>
       /\ t.phase = "CONFIRM" /\ t.b = st.b
       /\ t.p = BallotAt(st.nPrepared, st.b.value) /\ t.pp = NullBallot
       /\ t.h = BallotAt(st.nH, st.b.value)
       /\ t.c = BallotAt(st.nCommit, st.b.value)
  /\ IsExternalize(st) =>
       /\ t.phase = "EXTERNALIZE" /\ t.pp = NullBallot
       /\ t.b = makeBallot(UINT32_MAX, st.commit.value)
       /\ t.p = makeBallot(UINT32_MAX, st.commit.value)
       /\ t.h = makeBallot(st.nH, st.commit.value) /\ t.c = st.commit

(* A node starts with no ballot, no statement and nothing running.         *)
LEMMA InitialFacts ==
  /\ InitialState \in NodeState
  /\ InitialState.phase = "PREPARE" /\ InitialState.b = NullBallot
  /\ InitialState.p = NullBallot /\ InitialState.pp = NullBallot
  /\ InitialState.h = NullBallot /\ InitialState.c = NullBallot
  /\ InitialState.M = [m \in Node |-> NoStatement]
  /\ InitialState.stack = <<>> /\ InitialState.bad = ""
  /\ InitialState.fullyValidated /\ InitialState.sent = {}
  /\ InitialState.lastEnvelope = NoStatement
  /\ InitialState.lastEnvelopeEmit = NoStatement /\ InitialState.ext = {}
<1>1. InitialState \in NodeState
  BY MakeBallot, SMT DEF InitialState, NodeState
<1>2. QED BY <1>1 DEF InitialState

(* setStateFromEnvelope restores the ballots of the last statement         *)
(* emitted.                                                                *)
LEMMA RestartFacts ==
  ASSUME NEW n \in Node, NEW s \in NodeState, Restorable(s.lastEnvelopeEmit)
  PROVE  LET t == setStateFromEnvelope(n, s)
         IN  Restored(s, t) /\ RestoredFrom(s.lastEnvelopeEmit, t)
<1> DEFINE st == s.lastEnvelopeEmit
           s0 == [InitialState EXCEPT !.sent = s.sent, !.ext = s.ext]
           s1 == [recordEnvelope(s0, st) EXCEPT !.lastEnvelope = st,
                                                !.lastEnvelopeEmit = st]
           t == setStateFromEnvelope(n, s)
<1>1. s0 \in NodeState
  BY InitialFacts DEF NodeState
<1>2. /\ s0.phase = "PREPARE" /\ s0.b = NullBallot /\ s0.p = NullBallot
      /\ s0.pp = NullBallot /\ s0.h = NullBallot /\ s0.c = NullBallot
      /\ s0.M = [m \in Node |-> NoStatement] /\ s0.stack = <<>> /\ s0.bad = ""
      /\ s0.fullyValidated /\ s0.sent = s.sent /\ s0.ext = s.ext
      /\ s0.lastEnvelope = NoStatement /\ s0.lastEnvelopeEmit = NoStatement
  BY <1>1, InitialFacts DEF NodeState
<1>3. st \in Statement \cup {NoStatement}
  BY DEF NodeState
<1>4. CASE st = NoStatement
  <2>2. ~IsPrepare(st) /\ ~IsConfirm(st) /\ ~IsExternalize(st)
    BY <1>4, SMT DEF NoStatement, IsPrepare, IsConfirm, IsExternalize
  <2>1. t = s0
    BY <1>4, <2>2 DEF setStateFromEnvelope
  <2> HIDE DEF t, s0
  <2>3. t \in NodeState /\ \A m \in Node : t.M[m] = NoStatement
    BY <1>1, <1>2, <2>1
  <2>4. Restored(s, t)
    BY <1>2, <1>4, <2>1, <2>3 DEF Restored
  <2>5. RestoredFrom(st, t)
    BY <1>2, <2>1, <2>2 DEF RestoredFrom
  <2>6. QED BY <2>4, <2>5 DEF t
<1>5. CASE st # NoStatement
  <2>1. st \in Statement
    BY <1>3, <1>5
  <2> DEFINE r == recordEnvelope(s0, st)
             bot == makeBallot(UINT32_MAX, st.commit.value)
             bal == IF IsExternalize(st) THEN bot ELSE st.b
             u == bumpToBallot(s1, bal, TRUE)
  <2>2. /\ r \in NodeState /\ SameCore(s0, r) /\ SameOther(s0, r)
        /\ r.stack = <<>> /\ r.sent = s.sent
        /\ r.fullyValidated
        /\ \A m \in Node : r.M[m] = IF m = st.node THEN st ELSE s0.M[m]
    <3> HIDE DEF s0
    <3>1. /\ r \in NodeState /\ SameCore(s0, r) /\ SameOther(s0, r)
          /\ r.stack = s0.stack /\ r.sent = s0.sent
          /\ r.fullyValidated = s0.fullyValidated
          /\ \A m \in Node : r.M[m] = IF m = st.node THEN st ELSE s0.M[m]
      BY <1>1, <1>2, <2>1, RecordFacts
    <3>2. QED BY <1>2, <3>1
  <2> HIDE DEF r, s0
  <2>3. \A m \in Node : r.M[m] = IF m = st.node THEN st ELSE NoStatement
    BY <1>2, <2>2
  <2>4. r.bad = "" /\ r.ext = s.ext
    BY <1>2, <2>2 DEF SameOther
  <2>5. /\ r.phase = "PREPARE" /\ r.b = NullBallot /\ r.p = NullBallot
        /\ r.pp = NullBallot /\ r.h = NullBallot /\ r.c = NullBallot
    BY <1>2, <2>2 DEF SameCore
  <2>6. s1 = [r EXCEPT !.lastEnvelope = st, !.lastEnvelopeEmit = st]
    BY DEF r
  <2> HIDE DEF s1
  <2>7. s1 \in NodeState
    BY <2>1, <2>2, <2>6 DEF NodeState
  <2>8. /\ s1.phase = "PREPARE" /\ s1.b = NullBallot /\ s1.p = NullBallot
        /\ s1.pp = NullBallot /\ s1.h = NullBallot /\ s1.c = NullBallot
        /\ s1.M = r.M /\ s1.stack = <<>> /\ s1.bad = ""
        /\ s1.fullyValidated /\ s1.sent = s.sent
        /\ s1.ext = s.ext /\ s1.lastEnvelope = st /\ s1.lastEnvelopeEmit = st
    BY <2>2, <2>4, <2>5, <2>6 DEF NodeState
  <2> HIDE DEF s1
  <2>9. bal \in BallotOrNull
    <3>1. UINT32_MAX \in Counter /\ UINT32_MAX # 0
      BY CounterAssumption, SMT DEF Counter
    <3>2. IsExternalize(st) => bot \in Ballot
      BY <2>1, <3>1, StatementFields, BallotFields, MakeBallot
    <3>3. QED BY <2>1, <3>2, StatementFields, MakeBallot
  <2>10. LessEq(s1.b, bal)
    BY <2>8, <2>9, BallotOrder
  <2> HIDE DEF bal
  <2>11. /\ u \in NodeState /\ SameRest(s1, u) /\ u.b = bal
         /\ u.p = NullBallot /\ u.pp = NullBallot /\ u.phase = "PREPARE"
         /\ SameOther(s1, u)
    BY <2>7, <2>8, <2>9, <2>10, BumpFacts
  <2>12. /\ u.sent = s.sent /\ u.ext = s.ext /\ u.stack = <<>>
         /\ u.bad = "" /\ u.fullyValidated
         /\ u.lastEnvelope = st /\ u.lastEnvelopeEmit = st /\ u.M = r.M
    BY <2>8, <2>11 DEF SameRest, SameOther
  <2> HIDE DEF u
  <2>13. ASSUME NEW w \in NodeState, w.M = u.M, SameRest(u, w), w.ext = u.ext,
                w.bad = u.bad
         PROVE  Restored(s, w)
    <3>1. /\ w.sent = s.sent /\ w.ext = s.ext /\ w.stack = <<>>
          /\ w.bad = "" /\ w.fullyValidated
          /\ w.lastEnvelope = st /\ w.lastEnvelopeEmit = st /\ w.M = r.M
      BY <2>12, <2>13 DEF SameRest
    <3>2. \A m \in Node : w.M[m] = IF m = st.node THEN st ELSE NoStatement
      BY <2>3, <3>1
    <3>3. QED BY <1>5, <3>1, <3>2 DEF Restored
  <2>14. st.b \in BallotOrNull => st.b.value \in Value \/ st.b = NullBallot
    BY BallotFields DEF BallotOrNull
  <2>15. CASE IsPrepare(st)
    <3>1. /\ ~IsConfirm(st) /\ ~IsExternalize(st) /\ st # NoStatement
          /\ st.b \in BallotOrNull /\ st.p \in BallotOrNull
          /\ st.pp \in BallotOrNull /\ st.nC \in Counter /\ st.nH \in Counter
      BY <1>5, <2>1, <2>15, StatementFields
    <3>2. PICK hb, cb : hb = BallotAt(st.nH, st.b.value)
                        /\ cb = BallotAt(st.nC, st.b.value)
      OBVIOUS
    <3>3. (st.nH # 0 => st.b # NullBallot) /\ (st.nC # 0 => st.b # NullBallot)
      BY <2>15 DEF Restorable
    <3>4. hb \in BallotOrNull /\ cb \in BallotOrNull
      BY <2>14, <3>1, <3>2, <3>3, BallotAtType
    <3>5. u = bumpToBallot(s1, st.b, TRUE)
      BY <3>1 DEF u, bal
    <3>6. t = [u EXCEPT !.p = st.p, !.pp = st.pp, !.h = hb, !.c = cb]
      BY <1>5, <2>15, <3>1, <3>2, <3>5
      DEF setStateFromEnvelope, s1, s0, BallotAt
    <3> HIDE DEF t
    <3>7. t \in NodeState
      BY <2>11, <3>1, <3>4, <3>6 DEF NodeState
    <3>8. /\ t.M = u.M /\ SameRest(u, t) /\ t.ext = u.ext /\ t.bad = u.bad
          /\ t.p = st.p /\ t.pp = st.pp /\ t.h = hb /\ t.c = cb /\ t.b = u.b
          /\ t.phase = u.phase
      <4>1. SameRest(u, t) /\ t.ext = u.ext /\ t.bad = u.bad
        BY <2>11, <3>6 DEF NodeState, SameRest
      <4>2. /\ t.p = st.p /\ t.pp = st.pp /\ t.h = hb /\ t.c = cb /\ t.b = u.b
            /\ t.phase = u.phase
        BY <2>11, <3>6 DEF NodeState
      <4> QED
        BY <4>1, <4>2 DEF SameRest
    <3>9. RestoredFrom(st, t)
      BY <2>11, <3>1, <3>2, <3>8 DEF RestoredFrom, bal
    <3>10. QED BY <2>13, <3>7, <3>8, <3>9 DEF t
  <2>16. CASE IsConfirm(st)
    <3>1. /\ ~IsPrepare(st) /\ ~IsExternalize(st) /\ st # NoStatement
          /\ st.b \in Ballot /\ st.nPrepared \in Counter
          /\ st.nCommit \in Counter /\ st.nH \in Counter
      BY <1>5, <2>1, <2>16, StatementFields
    <3>2. PICK hb, cb, pb : /\ hb = BallotAt(st.nH, st.b.value)
                            /\ cb = BallotAt(st.nCommit, st.b.value)
                            /\ pb = BallotAt(st.nPrepared, st.b.value)
      OBVIOUS
    <3>3. st.b.value \in Value
      BY <3>1, BallotFields DEF Ballot
    <3>4. hb \in BallotOrNull /\ cb \in BallotOrNull /\ pb \in BallotOrNull
      BY <3>1, <3>2, <3>3, BallotAtType
    <3>5. u = bumpToBallot(s1, st.b, TRUE)
      BY <3>1 DEF u, bal
    <3>6. t = [u EXCEPT !.p = pb, !.h = hb, !.c = cb, !.phase = "CONFIRM"]
      BY <1>5, <2>16, <3>1, <3>2, <3>5
      DEF setStateFromEnvelope, s1, s0, BallotAt
    <3> HIDE DEF t
    <3>7. t \in NodeState
      BY <2>11, <3>1, <3>4, <3>6 DEF NodeState
    <3>8. /\ t.M = u.M /\ SameRest(u, t) /\ t.ext = u.ext /\ t.bad = u.bad
          /\ t.p = pb /\ t.pp = u.pp /\ t.h = hb /\ t.c = cb /\ t.b = u.b
          /\ t.phase = "CONFIRM"
      <4>1. SameRest(u, t) /\ t.ext = u.ext /\ t.bad = u.bad
        BY <2>11, <3>6 DEF NodeState, SameRest
      <4>2. /\ t.p = pb /\ t.pp = u.pp /\ t.h = hb /\ t.c = cb /\ t.b = u.b
            /\ t.phase = "CONFIRM"
        BY <2>11, <3>6 DEF NodeState
      <4> QED
        BY <4>1, <4>2 DEF SameRest
    <3>9. RestoredFrom(st, t)
      BY <2>11, <3>1, <3>2, <3>8 DEF RestoredFrom, bal
    <3>10. QED BY <2>13, <3>7, <3>8, <3>9 DEF t
  <2>17. CASE IsExternalize(st)
    <3>1. /\ ~IsPrepare(st) /\ ~IsConfirm(st) /\ st # NoStatement
          /\ st.commit \in Ballot /\ st.nH \in Counter \ {0}
      BY <1>5, <2>1, <2>17, StatementFields
    <3>2. PICK hb, cb : /\ hb = makeBallot(st.nH, st.commit.value)
                        /\ cb = st.commit
      OBVIOUS
    <3>3. st.commit.value \in Value
      BY <3>1, BallotFields DEF Ballot
    <3>4. hb \in BallotOrNull /\ cb \in BallotOrNull
      BY <3>1, <3>2, <3>3, MakeBallot
    <3>5. u = bumpToBallot(s1, bot, TRUE) /\ bot \in BallotOrNull
      BY <2>9, <2>17 DEF u, bal
    <3>6. t = [u EXCEPT !.p = bot, !.h = hb, !.c = cb,
                        !.phase = "EXTERNALIZE"]
      BY <1>5, <2>17, <3>1, <3>2, <3>5
      DEF setStateFromEnvelope, s1, s0
    <3> HIDE DEF t, bot
    <3>7. t \in NodeState
      <4>1. u \in NodeState /\ bot \in BallotOrNull
        BY <2>11, <3>5
      <4>2. QED BY <3>4, <3>6, <4>1 DEF NodeState
    <3>8. /\ t.M = u.M /\ SameRest(u, t) /\ t.ext = u.ext /\ t.bad = u.bad
          /\ t.p = bot /\ t.pp = u.pp /\ t.h = hb /\ t.c = cb
          /\ t.b = u.b /\ t.phase = "EXTERNALIZE"
      <4>1. SameRest(u, t) /\ t.ext = u.ext /\ t.bad = u.bad
        BY <2>11, <3>6 DEF NodeState, SameRest
      <4>2. /\ t.p = bot /\ t.pp = u.pp /\ t.h = hb /\ t.c = cb
            /\ t.b = u.b /\ t.phase = "EXTERNALIZE"
        BY <2>11, <3>6 DEF NodeState
      <4> QED
        BY <4>1, <4>2 DEF SameRest
    <3>9. RestoredFrom(st, t)
      BY <2>11, <2>17, <3>1, <3>2, <3>8 DEF RestoredFrom, bal, bot
    <3>10. QED BY <2>13, <3>7, <3>8, <3>9 DEF t
  <2>18. QED BY <2>1, <2>15, <2>16, <2>17, StatementFields
<1>6. QED BY <1>4, <1>5

(* A statement fit to be restored leaves consistent ballots.               *)
LEMMA RestoredConsistent ==
  ASSUME NEW st \in Statement \cup {NoStatement}, Restorable(st),
         NEW t \in NodeState, RestoredFrom(st, t)
  PROVE  Consistent(t)
<1>1. CASE st = NoStatement
  BY <1>1 DEF RestoredFrom, Consistent, checkInvariants, NodeState
<1>2. CASE st \in Statement /\ IsPrepare(st)
  <2>1. /\ st.b \in BallotOrNull /\ st.nC \in Nat /\ st.nH \in Nat
        /\ st.nC \in Counter /\ st.nH \in Counter
    BY <1>2, StatementFields, CounterNat
  <2>2. /\ t.phase = "PREPARE" /\ t.b = st.b /\ t.p = st.p /\ t.pp = st.pp
        /\ t.h = BallotAt(st.nH, st.b.value) /\ t.c = BallotAt(st.nC, st.b.value)
    BY <1>2 DEF RestoredFrom
  <2>3. /\ st.p # NullBallot /\ st.pp # NullBallot =>
             areBallotsLessAndIncompatible(st.pp, st.p)
        /\ st.p = NullBallot => st.pp = NullBallot
        /\ st.nH # 0 => st.b # NullBallot /\ st.nH <= st.b.counter
        /\ st.nC # 0 => st.nH # 0 /\ st.nC <= st.nH
    BY <1>2 DEF Restorable
  <2>4. st.b # NullBallot => st.b \in Ballot /\ st.b.value \in Value
    BY <2>1, BallotFields DEF BallotOrNull, Ballot
  <2>5. /\ st.nH # 0 => /\ t.h \in Ballot /\ t.h.counter = st.nH
                        /\ t.h.value = st.b.value
        /\ st.nH = 0 => t.h = NullBallot
    BY <2>1, <2>2, <2>3, <2>4, BallotAtType, SMT DEF BallotAt
  <2>6. /\ st.nC # 0 => /\ t.c \in Ballot /\ t.c.counter = st.nC
                        /\ t.c.value = st.b.value
        /\ st.nC = 0 => t.c = NullBallot
    BY <2>1, <2>2, <2>3, <2>4, BallotAtType, SMT DEF BallotAt
  <2>7. t.h # NullBallot => areBallotsLessAndCompatible(t.h, t.b)
    <3>1. t.h \in BallotOrNull /\ t.b \in BallotOrNull
      BY DEF NodeState
    <3>2. QED BY <2>1, <2>2, <2>3, <2>5, <3>1, SameValueOrder
  <2>8. t.c # NullBallot =>
          t.h # NullBallot /\ areBallotsLessAndCompatible(t.c, t.h)
    <3>1. t.h \in BallotOrNull /\ t.c \in BallotOrNull
      BY DEF NodeState
    <3>2. t.c # NullBallot => st.nC # 0 /\ st.nH # 0
      BY <2>1, <2>3, <2>6
    <3>3. st.nH # 0 => t.h # NullBallot
      BY <2>1, <2>5, SMT DEF NullBallot, Ballot
    <3>4. QED BY <2>1, <2>3, <2>5, <2>6, <3>1, <3>2, <3>3, SameValueOrder
  <2>9. t.h # NullBallot => t.b # NullBallot
    BY <2>2, <2>3, <2>5
  <2>10. t.b # NullBallot => t.b.counter # 0
    BY <2>2, <2>4 DEF Ballot
  <2>11. QED BY <2>2, <2>3, <2>7, <2>8, <2>9, <2>10 DEF Consistent, checkInvariants
<1>3. CASE st \in Statement /\ IsConfirm(st)
  <2>1. /\ st.b \in Ballot /\ st.nCommit \in Counter \ {0}
        /\ st.nH \in Counter \ {0} /\ st.nPrepared \in Counter \ {0}
    BY <1>3, StatementFields
  <2>2. /\ st.nCommit \in Nat \ {0} /\ st.nH \in Nat \ {0}
        /\ st.nPrepared \in Nat \ {0} /\ st.b.value \in Value
        /\ st.b.counter \in Nat \ {0}
    BY <2>1, CounterNat, BallotFields DEF Ballot
  <2>3. /\ t.phase = "CONFIRM" /\ t.b = st.b
        /\ t.p = BallotAt(st.nPrepared, st.b.value) /\ t.pp = NullBallot
        /\ t.h = BallotAt(st.nH, st.b.value)
        /\ t.c = BallotAt(st.nCommit, st.b.value)
    BY <1>3 DEF RestoredFrom
  <2>4. st.nCommit <= st.nH /\ st.nH <= st.b.counter
    BY <1>3 DEF Restorable
  <2>5. t.h \in Ballot /\ t.h.counter = st.nH /\ t.h.value = t.b.value
    BY <2>1, <2>2, <2>3, BallotAtType, SMT
  <2>6. t.c \in Ballot /\ t.c.counter = st.nCommit /\ t.c.value = t.b.value
    BY <2>1, <2>2, <2>3, BallotAtType, SMT
  <2>7. areBallotsLessAndCompatible(t.h, t.b)
    BY <2>1, <2>3, <2>4, <2>5, SameValueOrder DEF BallotOrNull
  <2>8. areBallotsLessAndCompatible(t.c, t.h)
    BY <2>4, <2>5, <2>6, SameValueOrder DEF BallotOrNull
  <2>9. t.b.counter # 0 /\ t.h # NullBallot /\ t.c # NullBallot /\ t.b # NullBallot
    BY <2>2, <2>3, <2>5, <2>6, SMT DEF NullBallot
  <2>10. QED BY <2>3, <2>7, <2>8, <2>9 DEF Consistent, checkInvariants
<1>4. CASE st \in Statement /\ IsExternalize(st)
  <2>1. st.commit \in Ballot /\ st.nH \in Counter \ {0}
    BY <1>4, StatementFields
  <2>2. /\ st.nH \in Nat \ {0} /\ st.commit.value \in Value
        /\ st.commit.counter \in Nat \ {0}
        /\ st.nH <= UINT32_MAX /\ UINT32_MAX \in Nat \ {0}
        /\ UINT32_MAX \in Counter \ {0}
    BY <2>1, CounterNat, CounterAssumption, BallotFields, SMT DEF Ballot, Counter
  <2>3. /\ t.phase = "EXTERNALIZE" /\ t.pp = NullBallot
        /\ t.b = makeBallot(UINT32_MAX, st.commit.value)
        /\ t.h = makeBallot(st.nH, st.commit.value) /\ t.c = st.commit
    BY <1>4 DEF RestoredFrom
  <2>4. st.commit.counter <= st.nH
    BY <1>4 DEF Restorable
  <2>5. t.h \in Ballot /\ t.h.counter = st.nH /\ t.h.value = st.commit.value
    BY <2>1, <2>2, <2>3, MakeBallot, SMT DEF makeBallot
  <2>6. /\ t.b \in Ballot /\ t.b.counter = UINT32_MAX
        /\ t.b.value = st.commit.value
    BY <2>1, <2>2, <2>3, MakeBallot, SMT DEF makeBallot
  <2>7. areBallotsLessAndCompatible(t.h, t.b)
    BY <2>2, <2>5, <2>6, SameValueOrder DEF BallotOrNull
  <2>8. areBallotsLessAndCompatible(t.c, t.h)
    BY <2>1, <2>3, <2>4, <2>5, SameValueOrder DEF BallotOrNull
  <2>9. t.b.counter # 0 /\ t.h # NullBallot /\ t.c # NullBallot /\ t.b # NullBallot
    BY <2>2, <2>3, <2>5, <2>6, SMT DEF NullBallot
  <2>10. QED BY <2>3, <2>7, <2>8, <2>9 DEF Consistent, checkInvariants
<1>5. QED BY <1>1, <1>2, <1>3, <1>4, StatementFields

(* With nothing running only the last statements matter.                   *)
LEMMA OwnEmpty ==
  ASSUME NEW t, Len(t.stack) = 0,
         t.lastEnvelope # NoStatement => Restorable(t.lastEnvelope),
         t.lastEnvelopeEmit # NoStatement => Restorable(t.lastEnvelopeEmit)
  PROVE  OwnRestorable(t)
<1>1. 1 .. 0 = {}
  BY SMT
<1>2. QED BY <1>1 DEF OwnRestorable

(* A restart keeps the invariant.                                          *)
LEMMA RestartOK ==
  ASSUME NEW n \in Node, NEW s, StateOK(s)
  PROVE  StateOK(setStateFromEnvelope(n, s))
<1> DEFINE t == setStateFromEnvelope(n, s)
           st == s.lastEnvelopeEmit
<1>1. /\ s \in NodeState /\ Restorable(st)
      /\ st \in Statement \cup {NoStatement}
  <2>1. Restorable(NoStatement)
    BY DEF NoStatement, Restorable, IsPrepare, IsConfirm, IsExternalize
  <2>2. st # NoStatement => Restorable(st)
    BY DEF StateOK, OwnRestorable
  <2>3. QED BY <2>1, <2>2 DEF StateOK, NodeState
<1>2. Restored(s, t) /\ RestoredFrom(st, t)
  BY <1>1, RestartFacts
<1> HIDE DEF t, st
<1>3. Consistent(t)
  BY <1>1, <1>2, RestoredConsistent DEF Restored
<1>4. /\ t \in NodeState /\ t.stack = <<>> /\ t.bad = ""
      /\ t.lastEnvelope = st /\ t.lastEnvelopeEmit = st
  BY <1>2 DEF Restored, st
<1>5. OwnRestorable(t)
  <2>1. Len(t.stack) = 0
    BY <1>4, EmptySeq
  <2>2. QED BY <1>1, <1>4, <2>1, OwnEmpty
<1>6. StateOK(t)
  BY <1>3, <1>4, <1>5 DEF StateOK, Consistent, LocalAssertions
<1>7. QED BY <1>6 DEF t

-----------------------------------------------------------------------------
(* When one statement of a node is newer than another, by their types.     *)
LEMMA NewerFacts ==
  ASSUME NEW x \in Statement, NEW y \in Statement
  PROVE  isNewerStatement(x, y) <=>
           \/ IsPrepare(x) /\ ~IsPrepare(y)
           \/ IsConfirm(x) /\ IsExternalize(y)
           \/ /\ IsPrepare(x) /\ IsPrepare(y)
              /\ \/ Less(x.b, y.b)
                 \/ /\ x.b = y.b
                    /\ \/ Less(x.p, y.p)
                       \/ /\ x.p = y.p
                          /\ \/ Less(x.pp, y.pp)
                             \/ x.pp = y.pp /\ x.nH < y.nH
           \/ /\ IsConfirm(x) /\ IsConfirm(y)
              /\ \/ Less(x.b, y.b)
                 \/ /\ x.b = y.b
                    /\ \/ x.nPrepared < y.nPrepared
                       \/ x.nPrepared = y.nPrepared /\ x.nH < y.nH
<1>1. \A st \in Statement :
        TypeRank(st) = IF IsPrepare(st) THEN 0 ELSE IF IsConfirm(st) THEN 1 ELSE 2
  BY StatementFields DEF TypeRank
<1>2. TypeRank(x) < TypeRank(y) <=> \/ IsPrepare(x) /\ ~IsPrepare(y)
                                    \/ IsConfirm(x) /\ IsExternalize(y)
  BY <1>1, StatementFields, SMT
<1>3. QED BY <1>2 DEF isNewerStatement

(* isNewerStatement is transitive on the statements of a node.             *)
LEMMA NewerTrans ==
  ASSUME NEW x \in Statement, NEW y \in Statement, NEW z \in Statement,
         isNewerStatement(x, y), isNewerStatement(y, z)
  PROVE  isNewerStatement(x, z)
<1>1. CASE IsPrepare(x) /\ IsPrepare(y) /\ IsPrepare(z)
  <2>1. /\ x.b \in BallotOrNull /\ y.b \in BallotOrNull /\ z.b \in BallotOrNull
        /\ x.p \in BallotOrNull /\ y.p \in BallotOrNull /\ z.p \in BallotOrNull
        /\ x.pp \in BallotOrNull /\ y.pp \in BallotOrNull
        /\ z.pp \in BallotOrNull
        /\ x.nH \in Nat /\ y.nH \in Nat /\ z.nH \in Nat
    BY <1>1, StatementFields, CounterNat
  <2>2. \A i, j, k \in BallotOrNull : Less(i, j) /\ Less(j, k) => Less(i, k)
    BY LessTrans DEF LessEq
  <2>3. \A i, j \in {x, y, z} : isNewerStatement(i, j) <=>
              \/ Less(i.b, j.b)
              \/ /\ i.b = j.b
                 /\ \/ Less(i.p, j.p)
                    \/ /\ i.p = j.p
                       /\ \/ Less(i.pp, j.pp)
                          \/ i.pp = j.pp /\ i.nH < j.nH
    <3>1. ASSUME NEW i \in Statement, NEW j \in Statement,
                 IsPrepare(i), IsPrepare(j)
          PROVE  isNewerStatement(i, j) <=>
                   \/ Less(i.b, j.b)
                   \/ /\ i.b = j.b
                      /\ \/ Less(i.p, j.p)
                         \/ /\ i.p = j.p
                            /\ \/ Less(i.pp, j.pp)
                               \/ i.pp = j.pp /\ i.nH < j.nH
      <4>1. ~IsConfirm(i)
        BY <3>1, StatementFields
      <4> QED
        BY <3>1, <4>1, NewerFacts
    <3> QED
      BY <1>1, <3>1
  <2>4. x.nH < y.nH /\ y.nH < z.nH => x.nH < z.nH
    BY <2>1, SMT
  <2>5. QED BY <2>1, <2>2, <2>3, <2>4
<1>2. CASE IsConfirm(x) /\ IsConfirm(y) /\ IsConfirm(z)
  <2>1. /\ x.b \in BallotOrNull /\ y.b \in BallotOrNull /\ z.b \in BallotOrNull
        /\ x.nPrepared \in Nat /\ y.nPrepared \in Nat /\ z.nPrepared \in Nat
        /\ x.nH \in Nat /\ y.nH \in Nat /\ z.nH \in Nat
    BY <1>2, StatementFields, CounterNat DEF BallotOrNull
  <2>2. \A i, j, k \in BallotOrNull : Less(i, j) /\ Less(j, k) => Less(i, k)
    BY LessTrans DEF LessEq
  <2>3. \A i, j \in {x, y, z} : isNewerStatement(i, j) <=>
              \/ Less(i.b, j.b)
              \/ /\ i.b = j.b
                 /\ \/ i.nPrepared < j.nPrepared
                    \/ i.nPrepared = j.nPrepared /\ i.nH < j.nH
    <3>1. ASSUME NEW i \in Statement, NEW j \in Statement,
                 IsConfirm(i), IsConfirm(j)
          PROVE  isNewerStatement(i, j) <=>
                   \/ Less(i.b, j.b)
                   \/ /\ i.b = j.b
                      /\ \/ i.nPrepared < j.nPrepared
                         \/ i.nPrepared = j.nPrepared /\ i.nH < j.nH
      <4>1. ~IsPrepare(i) /\ ~IsExternalize(j)
        BY <3>1, StatementFields
      <4> QED
        BY <3>1, <4>1, NewerFacts
    <3> QED
      BY <1>2, <3>1
  <2>4. /\ x.nH < y.nH /\ y.nH < z.nH => x.nH < z.nH
        /\ x.nPrepared < y.nPrepared /\ y.nPrepared < z.nPrepared =>
             x.nPrepared < z.nPrepared
    BY <2>1, SMT
  <2>5. QED BY <2>1, <2>2, <2>3, <2>4
<1>3. CASE /\ ~(IsPrepare(x) /\ IsPrepare(y) /\ IsPrepare(z))
           /\ ~(IsConfirm(x) /\ IsConfirm(y) /\ IsConfirm(z))
  <2>1. /\ ~IsPrepare(y) => ~IsPrepare(z)
        /\ ~IsPrepare(x) => ~IsPrepare(y)
        /\ ~IsExternalize(x) /\ ~IsExternalize(y)
        /\ IsConfirm(y) => IsConfirm(z) \/ IsExternalize(z)
    BY NewerFacts, StatementFields
  <2>3. \/ IsPrepare(x) /\ ~IsPrepare(z)
        \/ IsConfirm(x) /\ IsExternalize(z)
    BY <1>3, <2>1, StatementFields
  <2>4. QED BY <2>3, NewerFacts
<1>4. QED BY <1>1, <1>2, <1>3

(* No statement is newer than itself.                                      *)
LEMMA NotNewer ==
  ASSUME NEW x \in Statement
  PROVE  ~isNewerStatement(x, x)
<1>1. IsPrepare(x) =>
        /\ x.b \in BallotOrNull /\ x.p \in BallotOrNull /\ x.pp \in BallotOrNull
        /\ x.nH \in Nat
  BY StatementFields, CounterNat
<1>2. IsConfirm(x) =>
        /\ x.b \in BallotOrNull /\ x.nPrepared \in Nat /\ x.nH \in Nat
  BY StatementFields, CounterNat DEF BallotOrNull
<1>3. \A i \in BallotOrNull : ~Less(i, i)
  BY BallotOrder DEF LessEq
<1>4. \A k \in Nat : ~(k < k)
  BY SMT
<1>5. QED BY <1>1, <1>2, <1>3, <1>4, NewerFacts, StatementFields

OldOrSame(old, st) == old = st \/ isNewerStatement(old, st)

Supersedes(n, u) ==
  u.M[n] = NoStatement \/ isNewerStatement(u.M[n], createStatement(n, u))

OwnFrame(n, u, f) ==
  /\ f \in Frame /\ f.hint = createStatement(n, u) /\ f.self /\ ~f.work
  /\ f.canEmit <=> u.b # NullBallot

(* An assertion fails, or the statement is the last one already, or it is  *)
(* recorded and a nested advanceSlot starts, or, in EXTERNALIZE, it is     *)
(* recorded and is the last one at once.                                   *)
Emitted(n, u, t) ==
  \/ /\ ~Alive(t) /\ t \in NodeState /\ SameCore(u, t) /\ SameRest(u, t)
     /\ t.ext = u.ext
  \/ /\ Sayable(u) /\ u.M[n] = createStatement(n, u)
     /\ t \in NodeState /\ SameCore(u, t) /\ SameRest(u, t) /\ t.ext = u.ext
     /\ t.bad = u.bad
  \/ /\ Sayable(u) /\ Supersedes(n, u)
     /\ \E f : OwnFrame(n, u, f) /\ Pushed(n, u, f, t)
  \/ /\ Sayable(u) /\ Supersedes(n, u) /\ u.phase = "EXTERNALIZE"
     /\ Finished(recordEnvelope(u, createStatement(n, u)),
                 createStatement(n, u), u.b # NullBallot, t)

(* emitCurrentStateStatement does nothing, records a statement and starts  *)
(* an advanceSlot with it, or, in EXTERNALIZE, records and emits it.       *)
LEMMA EmitFacts ==
  ASSUME NEW n \in Node, NEW s \in NodeState,
         s.p = NullBallot => s.pp = NullBallot, NEW check \in BOOLEAN
  PROVE  Emitted(n, s, emitCurrentStateStatement(n, s, check))
<1> DEFINE t == emitCurrentStateStatement(n, s, check)
           st == createStatement(n, s)
           canEmit == s.b # NullBallot
<1> SUFFICES Emitted(n, s, t)
  OBVIOUS
<1>1. ASSUME NEW why \in Failures, t = Fail(s, why)
      PROVE  Emitted(n, s, t)
  <2> HIDE DEF t
  <2>1. /\ t \in NodeState /\ SameCore(s, t) /\ SameRest(s, t)
        /\ t.ext = s.ext /\ t.bad = IF s.bad = "" THEN why ELSE s.bad
    BY <1>1, FailFacts
  <2>2. t.bad # ""
    BY <1>1, <2>1 DEF Failures
  <2>3. QED BY <2>1, <2>2 DEF Emitted, Alive
<1>2. CASE ~checkInvariants(s)
  <2>1. t = Fail(s, "checkInvariants")
    BY <1>2 DEF emitCurrentStateStatement
  <2>2. "checkInvariants" \in Failures
    BY DEF Failures
  <2>3. QED BY <1>1, <2>1, <2>2
<1>3. CASE checkInvariants(s) /\ s.phase = "CONFIRM" /\ s.p = NullBallot
  <2>1. t = Fail(s, "nullP")
    BY <1>3 DEF emitCurrentStateStatement
  <2>2. "nullP" \in Failures
    BY DEF Failures
  <2>3. QED BY <1>1, <2>1, <2>2
<1>4. CASE checkInvariants(s) /\ ~(s.phase = "CONFIRM" /\ s.p = NullBallot)
  <2>0. Sayable(s)
    BY <1>4 DEF Sayable
  <2>1. t = IF s.M[n] = st
            THEN IF check THEN checkHeardFromQuorum(n, s) ELSE s
            ELSE IF ~Acceptable(n, s, st, TRUE)
            THEN Fail(s, "movedToBadState")
            ELSE IF s.phase = "EXTERNALIZE"
            THEN finishEmit(n, recordEnvelope(s, st), st, canEmit, check)
            ELSE recordAndAdvance(n, s, st, TRUE, canEmit, check)
    BY <1>4 DEF emitCurrentStateStatement
  <2>2. st \in Statement /\ st.node = n
    BY <1>4, CreateFacts DEF Consistent
  <2>3. canEmit \in BOOLEAN
    OBVIOUS
  <2>9. Acceptable(n, s, st, TRUE) => Supersedes(n, s)
    BY <2>2 DEF Acceptable, Supersedes
  <2> HIDE DEF t, st, canEmit
  <2>4. CASE t = s /\ s.M[n] = st
    BY <2>0, <2>4 DEF Emitted, SameCore, SameRest, st
  <2>5. CASE t = checkHeardFromQuorum(n, s) /\ s.M[n] = st
    <3>1. /\ t \in NodeState /\ SameCore(s, t) /\ SameRest(s, t)
          /\ t.bad = s.bad /\ t.ext = s.ext
      BY <2>5, CheckHeardFacts DEF SameOther
    <3>2. QED BY <2>0, <2>5, <3>1 DEF Emitted, st
  <2>6. CASE t = Fail(s, "movedToBadState")
    <3>1. "movedToBadState" \in Failures
      BY DEF Failures
    <3>2. QED BY <1>1, <2>6, <3>1 DEF t
  <2>7. CASE /\ t = finishEmit(n, recordEnvelope(s, st), st, canEmit, check)
             /\ Acceptable(n, s, st, TRUE) /\ s.phase = "EXTERNALIZE"
    <3>1. recordEnvelope(s, st) \in NodeState
      BY <2>2, RecordFacts
    <3>2. Finished(recordEnvelope(s, st), st, canEmit, t)
      BY <2>2, <2>3, <2>7, <3>1, FinishFacts
    <3>3. QED BY <2>0, <2>7, <2>9, <3>2 DEF Emitted, st, canEmit
  <2>8. CASE /\ t = recordAndAdvance(n, s, st, TRUE, canEmit, check)
             /\ Acceptable(n, s, st, TRUE)
    <3>0. PICK f \in Frame :
            f = [hint |-> st, pc |-> "acceptPrepared", work |-> FALSE,
                 self |-> TRUE, canEmit |-> canEmit, check |-> check]
      BY <2>2, <2>3 DEF Frame
    <3>1. /\ f.hint = st /\ f.pc = "acceptPrepared" /\ f.work = FALSE
          /\ f.self = TRUE /\ f.canEmit = canEmit /\ f.check = check
      BY <3>0
    <3>2. t = recordAndAdvance(n, s, f.hint, f.self, f.canEmit, f.check)
      BY <2>8, <3>1
    <3>3. f.hint = st /\ f.pc = "acceptPrepared" /\ ~f.work
      BY <3>1
    <3>4. Pushed(n, s, f, t)
      BY <3>2, <3>3, RecordAndAdvanceFacts
    <3>5. f.canEmit <=> s.b # NullBallot
      BY <3>1 DEF canEmit
    <3>6. f.self
      BY <3>1
    <3>7. OwnFrame(n, s, f)
      BY <3>3, <3>5, <3>6 DEF OwnFrame, st
    <3>8. QED BY <2>0, <2>8, <2>9, <3>4, <3>7 DEF Emitted
  <2>10. QED BY <2>1, <2>4, <2>5, <2>6, <2>7, <2>8 DEF t
<1>5. QED BY <1>2, <1>3, <1>4

-----------------------------------------------------------------------------
(* What has been said, and what the calls in progress have yet to say.     *)

(* A statement with a ballot: one that may be emitted.                     *)
Said(st) == st # NoStatement /\ ~(IsPrepare(st) /\ st.b = NullBallot)

(* The last statement, and those the calls in progress will emit, are not  *)
(* newer than the one recorded, which is the last one or is still to be    *)
(* emitted; unless the outermost call is to send it, the last statement    *)
(* has been sent.                                                          *)
Pending(n, s) ==
  /\ s.lastEnvelope # NoStatement =>
       /\ Said(s.lastEnvelope) /\ s.M[n] # NoStatement
       /\ OldOrSame(s.lastEnvelope, s.M[n])
  /\ \A i \in 1 .. Len(s.stack) :
       /\ s.stack[i].self =>
            s.M[n] # NoStatement /\ OldOrSame(s.stack[i].hint, s.M[n])
       /\ s.stack[i].canEmit => s.stack[i].self /\ Said(s.stack[i].hint)
       /\ i # 1 => s.stack[1].work
  /\ Said(s.M[n]) /\ s.lastEnvelope # s.M[n] =>
       \E i \in 1 .. Len(s.stack) :
         s.stack[i].canEmit /\ s.stack[i].hint = s.M[n]
  /\ s.fullyValidated /\ s.lastEnvelope # s.lastEnvelopeEmit =>
       Len(s.stack) # 0 /\ s.stack[1].work
  /\ s.lastEnvelope = NoStatement => s.lastEnvelopeEmit = NoStatement

(* No call is in progress, or the outermost one did work.                  *)
Working(s) == Len(s.stack) # 0 => s.stack[1].work

(* What is to be said depends on what was said and on the calls in         *)
(* progress only.                                                          *)
LEMMA PendingSame ==
  ASSUME NEW n \in Node, NEW s, NEW t, SameRest(s, t)
  PROVE  /\ Pending(n, s) => Pending(n, t)
         /\ Working(s) => Working(t)
BY DEF Pending, Working, SameRest

(* It is the same after the innermost call has moved on.                   *)
LEMMA PendingMoved ==
  ASSUME NEW n \in Node, NEW s, NEW work \in BOOLEAN, NEW t,
         MovedOn(s, work, t), Pending(n, s)
  PROVE  Pending(n, t) /\ (work => Working(t))
<1> DEFINE L == Len(s.stack)
<1>1. /\ t.M = s.M /\ t.lastEnvelope = s.lastEnvelope
      /\ t.lastEnvelopeEmit = s.lastEnvelopeEmit
      /\ t.fullyValidated = s.fullyValidated /\ Len(t.stack) = L
      /\ L \in Nat \ {0}
      /\ \A j \in 1 .. L : SameCall(s.stack[j], t.stack[j])
      /\ \A j \in 1 .. L : j # L => t.stack[j] = s.stack[j]
      /\ t.stack[L].work = (s.stack[L].work \/ work)
  BY DEF MovedOn, SameButStack
<1>2. 1 \in 1 .. L /\ L \in 1 .. L
  BY <1>1, SMT
<1>3. s.stack[1].work => t.stack[1].work
  BY <1>1, <1>2
<1>4. work => t.stack[1].work
  BY <1>1, <1>2 DEF Pending
<1> HIDE DEF L
<1>5. \A j \in 1 .. L : /\ t.stack[j].self <=> s.stack[j].self
                        /\ t.stack[j].canEmit <=> s.stack[j].canEmit
                        /\ t.stack[j].hint = s.stack[j].hint
  BY <1>1 DEF SameCall
<1>6. Pending(n, t)
  BY <1>1, <1>3, <1>5 DEF Pending, L
<1>7. QED BY <1>1, <1>4, <1>6 DEF Working

(* After a statement of the node's own is recorded and a call is started   *)
(* with it, that statement is still to be emitted.                         *)
LEMMA PendingOwn ==
  ASSUME NEW n \in Node, NEW s \in NodeState, Pending(n, s), Working(s),
         Consistent(s), Sayable(s), Supersedes(n, s),
         NEW f, OwnFrame(n, s, f), NEW t, Pushed(n, s, f, t)
  PROVE  Pending(n, t) /\ t.M[n] = createStatement(n, s)
<1> DEFINE st == createStatement(n, s)
           L == Len(s.stack)
<1>1. /\ st \in Statement /\ st.node = n /\ st.type = s.phase
  BY CreateFacts DEF Sayable
<1>2. Said(st) <=> s.b # NullBallot
  <2>1. st # NoStatement
    BY <1>1, StatementNotNone
  <2>2. CASE s.phase = "PREPARE"
    <3>1. IsPrepare(st) /\ st.b = s.b
      BY <2>2 DEF createStatement, IsPrepare
    <3>2. QED BY <2>1, <3>1 DEF Said
  <2>3. CASE s.phase # "PREPARE"
    <3>1. ~IsPrepare(st)
      BY <1>1, <2>3 DEF IsPrepare
    <3>2. s.b # NullBallot
      BY <2>3, ConsistentFacts
    <3>3. QED BY <2>1, <3>1, <3>2 DEF Said
  <2>4. QED BY <2>2, <2>3
<1> HIDE DEF st
<1>3. /\ f.hint = st /\ f.self /\ ~f.work /\ (f.canEmit <=> Said(st))
  BY <1>2 DEF OwnFrame, st
<1>4. /\ t.lastEnvelope = s.lastEnvelope
      /\ t.lastEnvelopeEmit = s.lastEnvelopeEmit /\ t.M[n] = st
      /\ t.fullyValidated => s.fullyValidated
      /\ Len(t.stack) = L + 1 /\ L \in Nat
      /\ \A j \in 1 .. L : t.stack[j] = s.stack[j]
      /\ t.stack[L + 1] = f
  BY <1>1, <1>3 DEF Pushed
<1>5. s.M[n] # NoStatement => s.M[n] \in Statement /\ isNewerStatement(s.M[n], st)
  BY DEF Supersedes, NodeState, st
<1>6. ASSUME NEW x \in Statement, s.M[n] # NoStatement, OldOrSame(x, s.M[n])
      PROVE  OldOrSame(x, st)
  BY <1>1, <1>5, <1>6, NewerTrans DEF OldOrSame
<1>7. t.lastEnvelope # NoStatement =>
        /\ Said(t.lastEnvelope) /\ t.M[n] # NoStatement
        /\ OldOrSame(t.lastEnvelope, t.M[n])
  <2>1. s.lastEnvelope # NoStatement => s.lastEnvelope \in Statement
    BY DEF NodeState
  <2>2. QED BY <1>1, <1>4, <1>6, <2>1, StatementNotNone DEF Pending
<1>8. ASSUME NEW i \in 1 .. Len(t.stack)
      PROVE  /\ t.stack[i].self =>
                  t.M[n] # NoStatement /\ OldOrSame(t.stack[i].hint, t.M[n])
             /\ t.stack[i].canEmit => t.stack[i].self /\ Said(t.stack[i].hint)
             /\ i # 1 => t.stack[1].work
  <2>1. t.M[n] # NoStatement
    BY <1>1, <1>4, StatementNotNone
  <2>2. i # 1 => t.stack[1].work
    <3>1. i # 1 => L # 0 /\ 1 \in 1 .. L
      BY <1>4, <1>8, SMT
    <3>2. QED BY <1>4, <3>1 DEF Working
  <2>3. CASE i \in 1 .. L
    <3>1. s.stack[i] \in Frame
      BY <2>3, ElementOfSeq DEF NodeState
    <3>2. s.stack[i].hint \in Statement /\ t.stack[i] = s.stack[i]
      BY <1>4, <2>3, <3>1 DEF Frame
    <3>3. QED BY <1>4, <1>6, <2>1, <2>2, <2>3, <3>2 DEF Pending
  <2>4. CASE i = L + 1
    BY <1>3, <1>4, <2>1, <2>2, <2>4 DEF OldOrSame
  <2>5. i \in 1 .. L \/ i = L + 1
    <3>1. L \in Nat /\ i \in 1 .. (L + 1)
      BY <1>4, <1>8
    <3> HIDE DEF L
    <3>2. QED BY <3>1, SMT
  <2>6. QED BY <2>3, <2>4, <2>5
<1>9. ASSUME Said(t.M[n])
      PROVE  \E i \in 1 .. Len(t.stack) :
               t.stack[i].canEmit /\ t.stack[i].hint = t.M[n]
  <2>1. L + 1 \in 1 .. Len(t.stack)
    <3>1. L \in Nat /\ Len(t.stack) = L + 1
      BY <1>4
    <3> HIDE DEF L
    <3>2. QED BY <3>1, SMT
  <2>2. QED BY <1>3, <1>4, <1>9, <2>1
<1>10. t.fullyValidated /\ t.lastEnvelope # t.lastEnvelopeEmit =>
         Len(t.stack) # 0 /\ t.stack[1].work
  <2>1. ASSUME t.fullyValidated, t.lastEnvelope # t.lastEnvelopeEmit
        PROVE  Len(t.stack) # 0 /\ t.stack[1].work
    <3>1. L # 0 /\ s.stack[1].work
      BY <1>4, <2>1 DEF Pending
    <3>2. t.stack[1] = s.stack[1] /\ Len(t.stack) # 0
      <4>1. L \in Nat /\ Len(t.stack) = L + 1
        BY <1>4
      <4> HIDE DEF L
      <4>2. 1 \in 1 .. L /\ Len(t.stack) # 0
        BY <3>1, <4>1, SMT
      <4>3. QED BY <1>4, <4>2
    <3>3. QED BY <3>1, <3>2
  <2>2. QED BY <2>1
<1>11. Pending(n, t)
  BY <1>4, <1>7, <1>8, <1>9, <1>10 DEF Pending
<1>12. QED BY <1>4, <1>11 DEF st

(* A statement of another node changes nothing of what is to be said.      *)
LEMMA PendingReceived ==
  ASSUME NEW n \in Node, NEW s \in NodeState, Pending(n, s), Len(s.stack) = 0,
         NEW st \in Statement, st.node # n,
         NEW f, ReceivedFrame(f, st), NEW t, Pushed(n, s, f, t)
  PROVE  Pending(n, t) /\ t.M[n] = s.M[n]
<1>1. /\ f.hint = st /\ ~f.self /\ ~f.canEmit
  BY DEF ReceivedFrame
<1>7. /\ Len(t.stack) = Len(s.stack) + 1 /\ t.stack[Len(s.stack) + 1] = f
      /\ t.lastEnvelope = s.lastEnvelope
      /\ t.lastEnvelopeEmit = s.lastEnvelopeEmit
      /\ t.M[n] = IF n = f.hint.node THEN f.hint ELSE s.M[n]
      /\ t.fullyValidated =
           (s.fullyValidated /\ validateValues(n, f.hint) = "full")
  BY DEF Pushed
<1>8. Len(t.stack) = 1 /\ t.stack[1] = f
  <2>1. Len(s.stack) + 1 = 1
    BY SMT
  <2>2. QED BY <1>7, <2>1
<1>9. t.M[n] = s.M[n] /\ (t.fullyValidated => s.fullyValidated)
  BY <1>1, <1>7
<1>2. /\ t.lastEnvelope = s.lastEnvelope
      /\ t.lastEnvelopeEmit = s.lastEnvelopeEmit /\ t.M[n] = s.M[n]
      /\ t.fullyValidated => s.fullyValidated
      /\ Len(t.stack) = 1 /\ t.stack[1] = f
  BY <1>7, <1>8, <1>9
<1>3. \A i : i \in 1 .. Len(t.stack) => i = 1
  BY <1>2, SMT
<1>4. \A i : i \notin 1 .. Len(s.stack)
  BY SMT
<1>5. /\ ~(Said(s.M[n]) /\ s.lastEnvelope # s.M[n])
      /\ ~(s.fullyValidated /\ s.lastEnvelope # s.lastEnvelopeEmit)
  BY <1>4 DEF Pending
<1>6. QED BY <1>1, <1>2, <1>3, <1>5 DEF Pending

(* In EXTERNALIZE the statement is the last one at once.                   *)
LEMMA PendingFinished ==
  ASSUME NEW n \in Node, NEW s \in NodeState, Pending(n, s), Working(s),
         Consistent(s), Sayable(s), Supersedes(n, s),
         s.phase = "EXTERNALIZE", NEW t,
         Finished(recordEnvelope(s, createStatement(n, s)),
                  createStatement(n, s), s.b # NullBallot, t)
  PROVE  Pending(n, t) /\ t.M[n] = createStatement(n, s)
<1> DEFINE st == createStatement(n, s)
           w == recordEnvelope(s, st)
<1>1. /\ st \in Statement /\ st.node = n /\ st.type = s.phase
  BY CreateFacts DEF Sayable
<1>2. Said(st)
  BY <1>1, StatementNotNone DEF Said, IsPrepare
<1>3. s.b # NullBallot
  BY ConsistentFacts
<1> HIDE DEF st
<1>4. /\ w \in NodeState /\ w.M[n] = st /\ w.stack = s.stack
      /\ w.lastEnvelope = s.lastEnvelope
      /\ w.lastEnvelopeEmit = s.lastEnvelopeEmit
      /\ w.fullyValidated = s.fullyValidated
  BY <1>1, RecordFacts
<1>5. Finished(w, st, s.b # NullBallot, t)
  BY DEF st
<1> HIDE DEF w
<1>6. s.M[n] # NoStatement => s.M[n] \in Statement /\ isNewerStatement(s.M[n], st)
  BY DEF Supersedes, NodeState, st
<1>7. s.lastEnvelope = NoStatement \/ isNewerStatement(s.lastEnvelope, st)
  <2>1. SUFFICES ASSUME s.lastEnvelope # NoStatement
                 PROVE  isNewerStatement(s.lastEnvelope, st)
    OBVIOUS
  <2>2. s.lastEnvelope \in Statement
    BY <2>1 DEF NodeState
  <2>3. s.M[n] # NoStatement /\ OldOrSame(s.lastEnvelope, s.M[n])
    BY <2>1 DEF Pending
  <2>4. QED BY <1>1, <1>6, <2>2, <2>3, NewerTrans DEF OldOrSame
<1>8. /\ t.M = w.M /\ t.stack = s.stack /\ t.lastEnvelope = st
      /\ t.fullyValidated = s.fullyValidated
      /\ Idle(w) /\ s.fullyValidated => t.lastEnvelopeEmit = st
  BY <1>3, <1>4, <1>5, <1>7 DEF Finished
<1>14. t.fullyValidated /\ t.lastEnvelope # t.lastEnvelopeEmit =>
         Len(t.stack) # 0 /\ t.stack[1].work
  <2>1. ~Idle(w) => Len(s.stack) # 0
    BY <1>4, EmptySeq DEF Idle, NodeState
  <2>2. QED BY <1>8, <2>1 DEF Working
<1>9. t.M[n] = st /\ st # NoStatement
  BY <1>1, <1>4, <1>8, StatementNotNone
<1>10. ASSUME NEW x \in Statement, s.M[n] # NoStatement, OldOrSame(x, s.M[n])
       PROVE  OldOrSame(x, st)
  BY <1>1, <1>6, <1>10, NewerTrans DEF OldOrSame
<1>11. ASSUME NEW i \in 1 .. Len(s.stack)
       PROVE  s.stack[i].self => OldOrSame(s.stack[i].hint, st)
  <2>1. s.stack[i] \in Frame
    BY <1>11, ElementOfSeq DEF NodeState
  <2>2. s.stack[i].hint \in Statement
    BY <2>1 DEF Frame
  <2>3. QED BY <1>10, <1>11, <2>2 DEF Pending
<1>12. Pending(n, t)
  BY <1>2, <1>8, <1>9, <1>11, <1>14 DEF Pending, OldOrSame
<1>13. QED BY <1>9, <1>12 DEF st

(* When the innermost call returns, the newest statement is emitted first. *)
LEMMA PendingReturned ==
  ASSUME NEW n \in Node, NEW s \in NodeState, Pending(n, s),
         s.stack # << >>, NEW t, Returned(s, t)
  PROVE  Pending(n, t)
<1> DEFINE L == Len(s.stack)
           f == s.stack[L]
           newer == /\ f.self /\ f.canEmit
                    /\ \/ s.lastEnvelope = NoStatement
                       \/ isNewerStatement(s.lastEnvelope, f.hint)
<1>1. L \in Nat \ {0} /\ f \in Frame
  <2>1. s.stack \in Seq(Frame) /\ L \in Nat \ {0}
    BY EmptySeq DEF NodeState
  <2>2. L \in 1 .. L
    <3> HIDE DEF L
    <3>1. QED BY <2>1, SMT
  <2>3. QED BY <2>1, <2>2, ElementOfSeq
<1>2. f.hint \in Statement
  BY <1>1 DEF Frame
<1> HIDE DEF f
<1>3. /\ t.M = s.M /\ t.fullyValidated = s.fullyValidated
      /\ Len(t.stack) = L - 1
      /\ \A j \in 1 .. L - 1 : t.stack[j] = s.stack[j]
      /\ t.lastEnvelope = IF newer THEN f.hint ELSE s.lastEnvelope
      /\ t.lastEnvelopeEmit =
           IF L = 1 /\ s.fullyValidated /\ newer THEN f.hint
           ELSE IF L = 1 /\ s.fullyValidated /\ f.work
                   /\ s.lastEnvelope # NoStatement
           THEN s.lastEnvelope ELSE s.lastEnvelopeEmit
  BY DEF Returned, Top, f
<1>4. /\ L \in 1 .. L /\ 1 \in 1 .. L
      /\ \A j \in 1 .. L - 1 : j \in 1 .. L
      /\ \A j \in 1 .. L : j # L => j \in 1 .. L - 1
      /\ L # 1 => 1 \in 1 .. L - 1
  <2> HIDE DEF L
  <2>1. L \in Nat \ {0}
    BY <1>1
  <2>2. L \in 1 .. L /\ 1 \in 1 .. L
    BY <2>1, SMT
  <2>3. \A j \in 1 .. L - 1 : j \in 1 .. L
    BY <2>1, SMT
  <2>4. \A j \in 1 .. L : j # L => j \in 1 .. L - 1
    BY <2>1, SMT
  <2>5. L # 1 => 1 \in 1 .. L - 1
    BY <2>1, SMT
  <2>6. QED BY <2>2, <2>3, <2>4, <2>5
<1>5. /\ f.self => s.M[n] # NoStatement /\ OldOrSame(f.hint, s.M[n])
      /\ f.canEmit => f.self /\ Said(f.hint)
      /\ L # 1 => s.stack[1].work
  BY <1>4 DEF Pending, f
<1>6. s.M[n] # NoStatement => s.M[n] \in Statement
  BY DEF NodeState
<1>7. t.lastEnvelope # NoStatement =>
        /\ Said(t.lastEnvelope) /\ t.M[n] # NoStatement
        /\ OldOrSame(t.lastEnvelope, t.M[n])
  BY <1>3, <1>5 DEF Pending
<1>8. ASSUME NEW i \in 1 .. Len(t.stack)
      PROVE  /\ t.stack[i].self =>
                  t.M[n] # NoStatement /\ OldOrSame(t.stack[i].hint, t.M[n])
             /\ t.stack[i].canEmit => t.stack[i].self /\ Said(t.stack[i].hint)
             /\ i # 1 => t.stack[1].work
  <2>1. i \in 1 .. L /\ 1 \in 1 .. L - 1 /\ i \in 1 .. L - 1
    <3>1. L \in Nat \ {0} /\ i \in 1 .. L - 1
      BY <1>1, <1>3, <1>8
    <3> HIDE DEF L
    <3>2. QED BY <3>1, SMT
  <2>3. t.stack[i] = s.stack[i] /\ t.stack[1] = s.stack[1]
    BY <1>3, <2>1
  <2>2. QED BY <1>3, <2>1, <2>3 DEF Pending
<1>9. ASSUME Said(t.M[n]), t.lastEnvelope # t.M[n]
      PROVE  \E i \in 1 .. Len(t.stack) :
               t.stack[i].canEmit /\ t.stack[i].hint = t.M[n]
  <2>1. s.lastEnvelope # s.M[n]
    <3>1. SUFFICES ASSUME s.lastEnvelope = s.M[n] PROVE FALSE
      OBVIOUS
    <3>2. s.M[n] # NoStatement
      BY <1>3, <1>9 DEF Said
    <3>3. newer
      BY <1>3, <1>9, <3>1
    <3>4. isNewerStatement(s.M[n], f.hint) /\ OldOrSame(f.hint, s.M[n])
      BY <1>5, <3>1, <3>2, <3>3
    <3>5. QED BY <1>2, <1>6, <3>2, <3>4, NewerTrans, NotNewer DEF OldOrSame
  <2>2. PICK i \in 1 .. L : s.stack[i].canEmit /\ s.stack[i].hint = s.M[n]
    BY <1>3, <1>9, <2>1 DEF Pending
  <2>3. i # L
    <3>1. SUFFICES ASSUME i = L PROVE FALSE
      OBVIOUS
    <3>2. f.canEmit /\ f.self /\ f.hint = s.M[n]
      BY <1>5, <2>2, <3>1 DEF f
    <3>3. s.lastEnvelope # NoStatement => isNewerStatement(s.lastEnvelope, f.hint)
      BY <2>1, <3>2 DEF Pending, OldOrSame
    <3>4. newer
      BY <3>2, <3>3
    <3>5. QED BY <1>3, <1>9, <3>2, <3>4
  <2>4. i \in 1 .. Len(t.stack) /\ t.stack[i] = s.stack[i]
    BY <1>3, <1>4, <2>3
  <2>5. QED BY <1>3, <2>2, <2>4
<1>10. ASSUME t.fullyValidated, t.lastEnvelope # t.lastEnvelopeEmit
       PROVE  Len(t.stack) # 0 /\ t.stack[1].work
  <2>1. CASE L = 1
    <3>1. s.fullyValidated
      BY <1>3, <1>10
    <3>2. ~newer
      BY <1>3, <1>10, <2>1, <3>1
    <3>3. t.lastEnvelope = s.lastEnvelope
      BY <1>3, <3>2
    <3>4. ~(f.work /\ s.lastEnvelope # NoStatement)
      BY <1>3, <1>10, <2>1, <3>1, <3>2, <3>3
    <3>5. t.lastEnvelopeEmit = s.lastEnvelopeEmit
      BY <1>3, <3>2, <3>4
    <3>6. s.stack[1].work
      BY <1>10, <3>1, <3>3, <3>5 DEF Pending
    <3>7. s.lastEnvelope = NoStatement
      BY <2>1, <3>4, <3>6 DEF f
    <3>8. QED BY <1>10, <3>3, <3>5, <3>7 DEF Pending
  <2>2. CASE L # 1
    <3>1. L \in Nat \ {0} /\ Len(t.stack) = L - 1
      BY <1>1, <1>3
    <3>2. t.stack[1].work
      BY <1>3, <1>4, <1>5, <2>2
    <3> HIDE DEF L
    <3>3. QED BY <2>2, <3>1, <3>2, SMT
  <2>3. QED BY <2>1, <2>2
<1>11. t.lastEnvelope = NoStatement => t.lastEnvelopeEmit = NoStatement
  <2>1. ASSUME t.lastEnvelope = NoStatement
        PROVE  t.lastEnvelopeEmit = NoStatement
    <3>1. ~newer
      BY <1>2, <1>3, <2>1, StatementNotNone
    <3>2. s.lastEnvelope = NoStatement
      BY <1>3, <2>1, <3>1
    <3>3. t.lastEnvelopeEmit = s.lastEnvelopeEmit
      BY <1>3, <3>1, <3>2
    <3>4. QED BY <3>2, <3>3 DEF Pending
  <2>2. QED BY <2>1
<1>12. QED BY <1>7, <1>8, <1>9, <1>10, <1>11 DEF Pending

-----------------------------------------------------------------------------
(* The invariant of a node in terms of the pledges of all.                 *)
Fresh(s) ==
  /\ s.b = NullBallot /\ s.p = NullBallot /\ s.pp = NullBallot
  /\ s.h = NullBallot /\ s.c = NullBallot /\ s.phase = "PREPARE"

(* The node's own statement, as recorded, is that of its state.            *)
Recorded(n, s) ==
  IF s.M[n] = NoStatement THEN Fresh(s) ELSE s.M[n] = createStatement(n, s)

(* The node's own statement is that of its state as long as neither        *)
(* changes.                                                                *)
LEMMA RecordedSame ==
  ASSUME NEW n, NEW s, NEW t, SameCore(s, t)
  PROVE  /\ createStatement(n, t) = createStatement(n, s)
         /\ t.M[n] = s.M[n] /\ Recorded(n, s) => Recorded(n, t)
<1>1. createStatement(n, t) = createStatement(n, s)
  BY DEF createStatement, SameCore
<1>2. Fresh(s) => Fresh(t)
  BY DEF Fresh, SameCore
<1>3. QED BY <1>1, <1>2 DEF Recorded

(* The changes of state that say nothing.                                  *)
LEMMA SameSaidFacts ==
  ASSUME NEW s, NEW t
  PROVE  /\ SameRest(s, t) => SameSaid(s, t)
         /\ \A w : MovedOn(s, w, t) => SameSaid(s, t)
         /\ AboutToReturn(s, t) => SameSaid(s, t)
         /\ \A u : SameSaid(s, u) /\ SameSaid(u, t) => SameSaid(s, t)
<1>1. \A f : SameCall(f, f)
  BY DEF SameCall
<1>2. SameRest(s, t) => SameSaid(s, t)
  BY <1>1 DEF SameRest, SameSaid
<1>3. \A w : MovedOn(s, w, t) => SameSaid(s, t)
  BY DEF MovedOn, SameButStack, SameSaid
<1>4. AboutToReturn(s, t) => SameSaid(s, t)
  BY DEF AboutToReturn, SameSaid
<1>5. \A f, g, h : SameCall(f, g) /\ SameCall(g, h) => SameCall(f, h)
  BY DEF SameCall
<1>6. \A u : SameSaid(s, u) /\ SameSaid(u, t) => SameSaid(s, t)
  BY <1>5 DEF SameSaid
<1>7. QED BY <1>2, <1>3, <1>4, <1>6

-----------------------------------------------------------------------------
(* With nothing running, what was emitted last is what the node recorded   *)
(* last, if that has a ballot.                                             *)
LEMMA LastSaid ==
  ASSUME NEW n \in Node, NEW s \in NodeState, Pending(n, s), Len(s.stack) = 0,
         s.fullyValidated
  PROVE  s.lastEnvelopeEmit = IF Said(s.M[n]) THEN s.M[n] ELSE NoStatement
<1>1. s.lastEnvelope = s.lastEnvelopeEmit
  BY DEF Pending
<1>2. CASE Said(s.M[n])
  <2>1. 1 .. 0 = {}
    BY SMT
  <2>2. QED BY <1>1, <1>2, <2>1 DEF Pending
<1>3. CASE ~Said(s.M[n])
  <2> DEFINE x == s.lastEnvelope
             y == s.M[n]
  <2>1. SUFFICES ASSUME x # NoStatement PROVE FALSE
    BY <1>1, <1>3
  <2>2. Said(x) /\ y # NoStatement /\ OldOrSame(x, y)
    BY <2>1 DEF Pending
  <2>3. x \in Statement /\ y \in Statement
    BY <2>1, <2>2 DEF NodeState
  <2> HIDE DEF x, y
  <2>4. IsPrepare(y) /\ y.b = NullBallot
    BY <1>3, <2>2 DEF Said, y
  <2>5. x # y
    BY <2>2, <2>4 DEF Said
  <2>6. isNewerStatement(x, y)
    BY <2>2, <2>5 DEF OldOrSame
  <2>7. TypeRank(y) = 0 /\ TypeRank(x) \in 0 .. 2
    BY <2>3, <2>4, StatementFields, SMT DEF TypeRank
  <2>8. ~(TypeRank(x) < TypeRank(y)) /\ ~IsConfirm(y)
    <3>1. ~(TypeRank(x) < TypeRank(y))
      BY <2>7, SMT
    <3>2. QED BY <2>3, <2>4, <3>1, StatementFields
  <2>9. IsPrepare(x) /\ (Less(x.b, y.b) \/ x.b = y.b)
    BY <2>6, <2>8 DEF isNewerStatement
  <2>10. x.b \in BallotOrNull /\ x.b # NullBallot
    BY <2>2, <2>3, <2>9, StatementFields DEF Said
  <2>11. Less(x.b, NullBallot)
    BY <2>4, <2>9, <2>10
  <2>12. QED BY <2>10, <2>11, MakeBallot, BallotOrder
<1>4. QED BY <1>2, <1>3

-----------------------------------------------------------------------------
(* A ballot is the one with its counter and its value.                     *)
LEMMA BallotAtSame ==
  ASSUME NEW x \in BallotOrNull, NEW v, x # NullBallot => x.value = v
  PROVE  BallotAt(x.counter, v) = x
<1>1. x = NullBallot => x.counter = 0
  BY SMT DEF NullBallot
<1>2. x # NullBallot => x.counter # 0 /\ x = [counter |-> x.counter, value |-> v]
  BY BallotFields
<1>3. QED BY <1>1, <1>2 DEF BallotAt, makeBallot

(* A node that has said nothing had no ballot.                             *)
LEMMA NothingSaid ==
  ASSUME NEW n \in Node, NEW s \in NodeState, Consistent(s), Recorded(n, s),
         ~Said(s.M[n])
  PROVE  s.phase = "PREPARE" /\ s.b = NullBallot /\ s.c = NullBallot
<1>1. CASE s.M[n] = NoStatement
  BY <1>1 DEF Recorded, Fresh
<1>2. CASE s.M[n] # NoStatement
  <2> DEFINE st == s.M[n]
  <2>1. st = createStatement(n, s) /\ IsPrepare(st) /\ st.b = NullBallot
    BY <1>2 DEF Recorded, Said
  <2>2. s.phase = "CONFIRM" => createStatement(n, s).type = "CONFIRM"
    BY DEF createStatement
  <2>3. s.phase = "EXTERNALIZE" => createStatement(n, s).type = "EXTERNALIZE"
    BY DEF createStatement
  <2>4. s.phase = "PREPARE" => createStatement(n, s).b = s.b
    BY DEF createStatement
  <2>5. s.phase = "PREPARE" /\ s.b = NullBallot
    BY <2>1, <2>2, <2>3, <2>4 DEF NodeState, IsPrepare
  <2>6. QED BY <2>5, ConsistentFacts
<1>3. QED BY <1>1, <1>2
=============================================================================
