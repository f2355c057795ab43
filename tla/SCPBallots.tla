----------------------------- MODULE SCPBallots -----------------------------
(***************************************************************************)
(* Ballots and ballot-protocol statements of SCP: their order, what a      *)
(* statement pledges, and when a statement replaces an older one.          *)
(* Everything here is a pure function of its arguments; it is shared by    *)
(* the model of the ballot protocol and by the abstract voting model.      *)
(***************************************************************************)
EXTENDS Integers

CONSTANTS
  Node,        \* the validators
  Value,       \* the values a slot may decide; positive integers, because
               \* ballots are ordered by value
  UINT32_MAX   \* the largest ballot counter (small in the model-checked
               \* instances; the arithmetic on counters wraps at it)

ASSUME ValueAssumption == Value \subseteq (Nat \ {0})
ASSUME CounterAssumption == UINT32_MAX \in Nat \ {0}

Counter == 0 .. UINT32_MAX

(* A null ballot pointer, and the ballot SCPBallot() whose counter is 0.   *)
NullBallot == [counter |-> 0, value |-> 0]

Ballot == [counter : Counter \ {0}, value : Value]

BallotOrNull == Ballot \cup {NullBallot}

makeBallot(n, v) == [counter |-> n, value |-> v]

-----------------------------------------------------------------------------
(* compareBallots: by counter, then by value; a null ballot is the least.  *)

Less(b1, b2) ==
  \/ b1.counter < b2.counter
  \/ b1.counter = b2.counter /\ b1.value < b2.value

LessEq(b1, b2) == Less(b1, b2) \/ b1 = b2

areBallotsCompatible(b1, b2) == b1.value = b2.value

areBallotsLessAndIncompatible(b1, b2) ==
  LessEq(b1, b2) /\ ~areBallotsCompatible(b1, b2)

areBallotsLessAndCompatible(b1, b2) ==
  LessEq(b1, b2) /\ areBallotsCompatible(b1, b2)

(* The highest ballot of a set: where the code walks a std::set backwards. *)
HasMax(S) == \E x \in S : \A y \in S : LessEq(y, x)
MaxBallot(S) == CHOOSE x \in S : \A y \in S : LessEq(y, x)
HasMin(S) == \E x \in S : \A y \in S : LessEq(x, y)
MinBallot(S) == CHOOSE x \in S : \A y \in S : LessEq(x, y)

-----------------------------------------------------------------------------
(* Statements.  A PREPARE whose b is null is only ever kept by its author. *)

Prepare ==
  [type : {"PREPARE"}, node : Node, b : BallotOrNull, p : BallotOrNull,
   pp : BallotOrNull, nC : Counter, nH : Counter]

Confirm ==
  [type : {"CONFIRM"}, node : Node, b : Ballot, nPrepared : Counter \ {0},
   nCommit : Counter \ {0}, nH : Counter \ {0}]

Externalize ==
  [type : {"EXTERNALIZE"}, node : Node, commit : Ballot, nH : Counter \ {0}]

Statement == Prepare \cup Confirm \cup Externalize

NoStatement == [type |-> "none"]

IsPrepare(st) == st.type = "PREPARE"
IsConfirm(st) == st.type = "CONFIRM"
IsExternalize(st) == st.type = "EXTERNALIZE"

(* The value a CONFIRM or EXTERNALIZE statement is about, b's for PREPARE. *)
getWorkingBallot(st) ==
  CASE IsPrepare(st)     -> st.b
    [] IsConfirm(st)     -> makeBallot(st.nCommit, st.b.value)
    [] IsExternalize(st) -> st.commit

statementBallotCounter(st) ==
  IF IsExternalize(st) THEN UINT32_MAX ELSE st.b.counter

getStatementValues(st) ==
  CASE IsPrepare(st) -> {x.value : x \in {st.b, st.p, st.pp} \ {NullBallot}}
    [] OTHER         -> {getWorkingBallot(st).value}

(* The total order of the statements of one node.                          *)
TypeRank(st) ==
  CASE IsPrepare(st) -> 0 [] IsConfirm(st) -> 1 [] IsExternalize(st) -> 2

isNewerStatement(old, st) ==
  \/ TypeRank(old) < TypeRank(st)
  \/ /\ IsPrepare(old) /\ IsPrepare(st)
     /\ \/ Less(old.b, st.b)
        \/ /\ old.b = st.b
           /\ \/ Less(old.p, st.p)
              \/ /\ old.p = st.p
                 /\ \/ Less(old.pp, st.pp)
                    \/ old.pp = st.pp /\ old.nH < st.nH
  \/ /\ IsConfirm(old) /\ IsConfirm(st)
     /\ \/ Less(old.b, st.b)
        \/ /\ old.b = st.b
           /\ \/ old.nPrepared < st.nPrepared
              \/ old.nPrepared = st.nPrepared /\ old.nH < st.nH

(* The checks on the fields of a statement; quorum sets are checked apart. *)
isStatementSane(st, self) ==
  \/ /\ IsPrepare(st)
     /\ self \/ st.b.counter > 0
     /\ st.pp # NullBallot /\ st.p # NullBallot =>
          areBallotsLessAndIncompatible(st.pp, st.p)
     /\ st.nH # 0 => st.p # NullBallot /\ st.nH <= st.p.counter
     /\ st.nC # 0 => st.nH # 0 /\ st.b.counter >= st.nH /\ st.nH >= st.nC
  \/ /\ IsConfirm(st)
     /\ st.b.counter > 0
     /\ st.nH <= st.b.counter
     /\ st.nCommit <= st.nH
  \/ /\ IsExternalize(st)
     /\ st.commit.counter > 0
     /\ st.nH >= st.commit.counter

-----------------------------------------------------------------------------
(* What a statement pledges about a ballot, or about the interval lo..hi   *)
(* of commit counters of a value.                                          *)

votesPrepared(ballot, st) ==
  CASE IsPrepare(st) -> areBallotsLessAndCompatible(ballot, st.b)
    [] OTHER         -> areBallotsCompatible(ballot, getWorkingBallot(st))

hasPreparedBallot(ballot, st) ==
  CASE IsPrepare(st) ->
         \E x \in {st.p, st.pp} \ {NullBallot} :
           areBallotsLessAndCompatible(ballot, x)
    [] IsConfirm(st) ->
         areBallotsLessAndCompatible(ballot,
                                     makeBallot(st.nPrepared, st.b.value))
    [] IsExternalize(st) -> areBallotsCompatible(ballot, st.commit)

votesCommit(v, lo, hi, st) ==
  /\ v = getWorkingBallot(st).value
  /\ CASE IsPrepare(st)     -> st.nC # 0 /\ st.nC <= lo /\ hi <= st.nH
       [] IsConfirm(st)     -> st.nCommit <= lo
       [] IsExternalize(st) -> st.commit.counter <= lo

(* Mutant: an EXTERNALIZE statement does not count as an accepted commit.  *)
commitPredicateConfirm(v, lo, hi, st) ==
  /\ v = getWorkingBallot(st).value
  /\ IsConfirm(st) /\ st.nCommit <= lo /\ hi <= st.nH

commitPredicate(v, lo, hi, st) ==
  /\ v = getWorkingBallot(st).value
  /\ CASE IsPrepare(st)     -> FALSE
       [] IsConfirm(st)     -> st.nCommit <= lo /\ hi <= st.nH
       [] IsExternalize(st) -> st.commit.counter <= lo

(* The interval <<lo, hi>> that ends at the highest boundary to satisfy    *)
(* the predicate on its own, extended down for as long as the predicate    *)
(* holds at each boundary: a singleton, or {} when there is none.  pred is *)
(* the set of the intervals that satisfy it.                               *)
findExtendedInterval(boundaries, pred) ==
  {i \in boundaries \X boundaries :
     LET lo == i[1]
         hi == i[2]
     IN  /\ lo # 0 /\ lo <= hi
         /\ <<hi, hi>> \in pred
         /\ \A x \in boundaries : x > hi => <<x, x>> \notin pred
         /\ \A x \in boundaries : lo <= x /\ x <= hi => <<x, hi>> \in pred
         /\ \A x \in boundaries : x < lo =>
              \E y \in boundaries : x <= y /\ y < lo /\ <<y, hi>> \notin pred}
=============================================================================
