---------------------------- MODULE IntervalLoop ----------------------------
(***************************************************************************)
(* The loop of BallotProtocol::findExtendedInterval, one boundary at a     *)
(* time, and the proof that it computes what the definition in SCPBallots  *)
(* says, which the ballot protocol's model uses.  The loop's test          *)
(* b > candidate.second is left out: boundaries come from the top, so it   *)
(* never succeeds.                                                         *)
(***************************************************************************)
EXTENDS SCPBallots, TLAPS

VARIABLES
  boundaries,   \* the counters to look at
  pred,         \* the intervals <<lo, hi>> that satisfy the predicate
  todo,         \* the boundaries the loop has not reached
  candidate     \* the interval found so far; it starts at 0 when there is none

vars == <<boundaries, pred, todo, candidate>>

Init ==
  /\ boundaries \in SUBSET (Counter \ {0})
  /\ pred \in SUBSET (Counter \X Counter)
  /\ todo = boundaries
  /\ candidate = <<0, 0>>

Visit(b) ==
  LET cur == IF candidate[1] = 0 THEN <<b, b>> ELSE <<b, candidate[2]>>
  IN  /\ b \in todo /\ \A x \in todo : x <= b
      /\ candidate' = IF cur \in pred THEN cur ELSE candidate
      /\ todo' = IF cur \notin pred /\ candidate[1] # 0 THEN {} ELSE todo \ {b}
      /\ UNCHANGED <<boundaries, pred>>

Next == \E b \in Counter : Visit(b)

Spec == Init /\ [][Next]_vars

TypeOK ==
  /\ boundaries \in SUBSET (Counter \ {0})
  /\ pred \in SUBSET (Counter \X Counter)
  /\ todo \in SUBSET boundaries
  /\ candidate \in Counter \X Counter

(* When the loop ends it has found the interval of findExtendedInterval's  *)
(* definition, or none when there is none, whatever the predicate is.      *)
LoopFindsInterval ==
  todo = {} =>
    findExtendedInterval(boundaries, pred)
      = IF candidate[1] = 0 THEN {} ELSE {candidate}

-----------------------------------------------------------------------------
(* The inductive invariant: what has been visited has been decided.        *)

Holds(lo, hi) == <<lo, hi>> \in pred

NoneYet == \A x \in boundaries : x \notin todo => ~Holds(x, x)

FoundSoFar(lo, hi) ==
  /\ lo \in boundaries /\ hi \in boundaries /\ lo <= hi
  /\ Holds(hi, hi) /\ \A x \in boundaries : x > hi => ~Holds(x, x)
  /\ \A x \in boundaries : lo <= x /\ x <= hi => Holds(x, hi)
  /\ \A x \in todo : x < lo
  /\ \A x \in boundaries : x < lo =>
       \/ x \in todo
       \/ /\ todo = {}
          /\ \E y \in boundaries : x <= y /\ y < lo /\ ~Holds(y, hi)

Inv ==
  /\ TypeOK
  /\ candidate[1] = 0 => NoneYet /\ \A x \in todo, y \in boundaries :
                                      y \notin todo => x < y
  /\ candidate[1] # 0 => FoundSoFar(candidate[1], candidate[2])

(* Visiting the next boundary from the top keeps the invariant.            *)
LEMMA VisitInv ==
  ASSUME Inv, NEW b \in Counter, Visit(b)
  PROVE  Inv'
<1> USE CounterAssumption DEF Counter
<1>1. TypeOK'
  BY DEF Inv, TypeOK, Visit
<1>2. CASE candidate[1] = 0 /\ <<b, b>> \in pred
  <2>1. candidate' = <<b, b>> /\ todo' = todo \ {b} /\ b # 0
    BY <1>2 DEF Visit, Inv, TypeOK
  <2>2. FoundSoFar(b, b)'
    BY <1>2, <2>1 DEF Visit, Inv, TypeOK, FoundSoFar, NoneYet, Holds
  <2> QED BY <1>1, <2>1, <2>2 DEF Inv
<1>3. CASE candidate[1] = 0 /\ <<b, b>> \notin pred
  <2>1. candidate' = candidate /\ todo' = todo \ {b}
    BY <1>3 DEF Visit
  <2>2. NoneYet'
    BY <1>3, <2>1 DEF Visit, Inv, NoneYet, Holds
  <2>3. \A x \in todo', y \in boundaries' : y \notin todo' => x < y
    BY <1>3, <2>1 DEF Visit, Inv, TypeOK
  <2> QED BY <1>1, <1>3, <2>1, <2>2, <2>3 DEF Inv
<1>4. CASE candidate[1] # 0 /\ <<b, candidate[2]>> \in pred
  <2>1. candidate' = <<b, candidate[2]>> /\ todo' = todo \ {b} /\ b # 0
    BY <1>4 DEF Visit, Inv, TypeOK
  <2>2. FoundSoFar(b, candidate[2])'
    <3> DEFINE hi == candidate[2]
    <3>1. FoundSoFar(candidate[1], hi)
      BY <1>4 DEF Inv
    <3>2. hi' = hi /\ boundaries' = boundaries /\ pred' = pred
      BY <2>1 DEF Visit
    <3>3. b \in todo /\ \A x \in todo : x <= b
      BY DEF Visit
    <3>4. \A x \in boundaries : b <= x /\ x <= hi => Holds(x, hi)
      BY <1>4, <3>1, <3>3 DEF FoundSoFar, Holds, Inv, TypeOK
    <3>5. \A x \in boundaries : x < b => x \in todo \ {b}
      BY <3>1, <3>3 DEF FoundSoFar, Inv, TypeOK
    <3> QED BY <2>1, <3>1, <3>2, <3>3, <3>4, <3>5
            DEF FoundSoFar, Holds, Inv, TypeOK
  <2> QED BY <1>1, <2>1, <2>2 DEF Inv
<1>5. CASE candidate[1] # 0 /\ <<b, candidate[2]>> \notin pred
  <2>1. candidate' = candidate /\ todo' = {}
    BY <1>5 DEF Visit
  <2>2. FoundSoFar(candidate[1], candidate[2])'
    BY <1>5, <2>1 DEF Visit, Inv, TypeOK, FoundSoFar, Holds
  <2> QED BY <1>1, <1>5, <2>1, <2>2 DEF Inv
<1> QED BY <1>2, <1>3, <1>4, <1>5

(* What findExtendedInterval asks of an interval.                          *)
Extended(lo, hi) ==
  /\ lo <= hi
  /\ Holds(hi, hi) /\ \A x \in boundaries : x > hi => ~Holds(x, x)
  /\ \A x \in boundaries : lo <= x /\ x <= hi => Holds(x, hi)
  /\ \A x \in boundaries : x < lo =>
       \E y \in boundaries : x <= y /\ y < lo /\ ~Holds(y, hi)

(* There is at most one such interval.                                     *)
LEMMA ExtendedUnique ==
  ASSUME TypeOK, NEW i \in boundaries \X boundaries,
         NEW j \in boundaries \X boundaries,
         Extended(i[1], i[2]), Extended(j[1], j[2])
  PROVE  i = j
<1> USE CounterAssumption
<1>1. \A x \in boundaries : x \in Int
  BY DEF TypeOK, Counter
<1>2. i[2] = j[2]
  BY <1>1 DEF Extended
<1>3. ~(i[1] < j[1]) /\ ~(j[1] < i[1])
  BY <1>1, <1>2 DEF Extended
<1> QED BY <1>1, <1>2, <1>3

(* At the end of the loop the invariant pins the interval down.            *)
LEMMA InvFinds == Inv => LoopFindsInterval
<1> SUFFICES ASSUME Inv, todo = {}
             PROVE  findExtendedInterval(boundaries, pred)
                      = IF candidate[1] = 0 THEN {} ELSE {candidate}
  BY DEF LoopFindsInterval
<1> DEFINE found == {i \in boundaries \X boundaries : Extended(i[1], i[2])}
<1>1. findExtendedInterval(boundaries, pred)
        = {i \in boundaries \X boundaries : i[1] # 0 /\ Extended(i[1], i[2])}
  BY DEF findExtendedInterval, Extended, Holds
<1>2. \A i \in boundaries \X boundaries : i[1] # 0
  BY DEF Inv, TypeOK
<1>3. CASE candidate[1] = 0
  <2>1. found = {}
    BY <1>3 DEF Inv, NoneYet, Extended
  <2> QED BY <1>1, <1>2, <1>3, <2>1
<1>4. CASE candidate[1] # 0
  <2>1. candidate \in found
    BY <1>4 DEF Inv, TypeOK, FoundSoFar, Extended
  <2>2. found = {candidate}
    BY <2>1, ExtendedUnique DEF Inv
  <2> QED BY <1>1, <1>2, <1>4, <2>2
<1> QED BY <1>3, <1>4

(* The loop of findExtendedInterval returns the interval that the ballot   *)
(* protocol's model uses, for any counters and any predicate.              *)
THEOREM LoopIsDefinition == Spec => []LoopFindsInterval
<1>1. Init => Inv
  BY CounterAssumption DEF Init, Inv, TypeOK, NoneYet, Counter
<1>2. Inv /\ [Next]_vars => Inv'
  <2>1. ASSUME Inv, Next PROVE Inv'
    BY <2>1, VisitInv DEF Next
  <2>2. ASSUME Inv, UNCHANGED vars PROVE Inv'
    BY <2>2 DEF vars, Inv, TypeOK, NoneYet, FoundSoFar, Holds
  <2> QED BY <2>1, <2>2
<1> QED BY <1>1, <1>2, InvFinds, PTL DEF Spec
=============================================================================
