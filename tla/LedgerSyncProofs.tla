-------------------------- MODULE LedgerSyncProofs --------------------------
(***************************************************************************)
(* The safety properties of LedgerSync, for any number of ledgers and      *)
(* restarts, any checkpoint frequency and any catchup counts.              *)
(*                                                                         *)
(* None of them is inductive.  That closeLedger gets the next ledger needs *)
(* what the work has still to apply to begin right after the last closed   *)
(* ledger (WorkIn); that a decided ledger is not lost needs the checkpoint *)
(* after the catchup's target to stay in hand until it is closed (WorkIn), *)
(* as every erasure is below a checkpoint that stays; that SYNCED is true  *)
(* needs the ledger manager to be CATCHING_UP for as long as a catchup     *)
(* brings history, and the work never to have met a gap while SYNCED       *)
(* (Track), which in turn needs the herder's slot to be the newest that    *)
(* was decided (Newest).                                                   *)
(***************************************************************************)
EXTENDS LedgerSync, WellFoundedInduction, TLAPS

(* The decided ledgers at hand: the buffered ones, and the one that        *)
(* ApplyBufferedLedgersWork has taken.                                     *)
Held(n) == n.mSyncingLedgers \cup {n.mCatchupWork.applying}
(* Ledger s needs no further word from consensus.                          *)
Covered(n, s) ==
  s <= n.lcl \/ s \in Held(n) \/ \E c \in Held(n) : s < c /\ isFirstLedgerInCheckpoint(c)

(* What is buffered was decided and is still to be applied.                *)
Buffer(n, h) == \A t \in n.mSyncingLedgers :
  t > n.lcl /\ t > n.mCatchupWork.to /\ t # n.mCatchupWork.applying /\ t \in h

(* What the catchup work has to apply begins right after the last closed   *)
(* ledger, and the checkpoint after its target is at hand or closed.       *)
WorkIn(n, h) ==
  LET w == n.mCatchupWork
  IN  /\ w.state = "none" => w = NoWork
      /\ w.applying # None =>
           /\ w.state = "running" /\ w.phase = "buffered" /\ w.buffered = "running"
           /\ w.applying = n.lcl + 1 /\ w.applying \in h
      /\ w.state = "running" =>
           /\ w.to # None /\ isFirstLedgerInCheckpoint(w.to + 1)
           /\ w.to < n.lcl \/ w.to + 1 \in Held(n)
           /\ w.phase # "buffered" =>
                /\ n.lcl <= w.to
                /\ w.buckets = None => w.next = n.lcl + 1
                /\ w.buckets # None =>
                     w.next = w.buckets + 1 /\ n.lcl <= w.buckets /\ w.buckets <= w.to

(* The part of the invariant about a node that has heard the slots h.      *)
Good(n, h) ==
  /\ n \in Node /\ n.thrown # "mismatch"
  /\ Buffer(n, h)
  /\ WorkIn(n, h)
  /\ n.thrown = "nothing" => \A s \in h : Covered(n, s)

(* The part about what the ledger manager says, the herder being at slot   *)
(* k.                                                                      *)
Track(n, k) ==
  LET w == n.mCatchupWork
  IN  /\ Running(n) /\ w.phase # "buffered" => n.mState = "CATCHING_UP"
      /\ Running(n) /\ w.phase = "buffered" =>
           w.to <= n.lcl /\ (w.buffered = "failure" => n.mSyncingLedgers # {})
      /\ n.mState = "SYNCED" =>
           /\ n.lcl + 1..k \subseteq Held(n)
           /\ Running(n) => w.buffered # "failure"
           /\ w.state \in {"success", "failure"} => n.mSyncingLedgers = {}

(* The herder's slot is the newest decided one.                            *)
Newest ==
  (tracked \in heard \/ tracked <= node.lcl) /\ \A s \in heard : s <= tracked

(* The inductive invariant.                                                *)
IInv ==
  /\ Good(node, heard) /\ Track(node, tracked) /\ Newest
  /\ heard \subseteq Ledger /\ tracked \in Ledger /\ restarts \in 0..MaxRestarts

-----------------------------------------------------------------------------
(* A set of naturals that is not empty has a least element.                *)
LEMMA LeastExists ==
  ASSUME NEW T, T \subseteq Nat, T # {}
  PROVE  \E x \in T : \A y \in T : x <= y
<1>1. \E x \in T : \A y \in T : <<y, x>> \notin OpToRel(<, Nat)
  BY NatLessThanWellFounded, WFMin, Zenon
<1>2. \A x, y \in T : <<y, x>> \notin OpToRel(<, Nat) => x <= y
  BY SMT DEF OpToRel
<1> QED
  BY <1>1, <1>2, Zenon

(* The first key of mSyncingLedgers is one of them, and no other is below  *)
(* it.                                                                     *)
LEMMA MinOf ==
  ASSUME NEW T, T \subseteq Nat, T # {}
  PROVE  Min(T) \in T /\ \A y \in T : Min(T) <= y
<1>1. \E x \in T : \A y \in T : x =< y
  BY LeastExists, Zenon
<1> QED
  BY <1>1, Zenon DEF Min

(* The last key of mSyncingLedgers is one of them, and no other is above   *)
(* it.                                                                     *)
LEMMA MaxOf ==
  ASSUME NEW k \in Nat, NEW T, T \subseteq 0..k, T # {}
  PROVE  Max(T) \in T /\ \A y \in T : Max(T) >= y
<1> DEFINE U == {u \in 0..k : k - u \in T}
<1>1. U \subseteq Nat /\ U # {}
  <2>1. PICK x \in T : TRUE
    BY Zenon
  <2>2. k - x \in 0..k /\ k - (k - x) = x
    OBVIOUS
  <2>3. PICK u \in 0..k : k - u = x
    BY <2>2
  <2>4. u \in U /\ U \subseteq 0..k
    BY <2>3
  <2> HIDE DEF U
  <2> QED
    BY <2>4
<1>2. PICK u \in U : \A v \in U : u <= v
  BY <1>1, LeastExists, Zenon
<1>3. \A y \in T : k - y \in 0..k /\ k - (k - y) = y
  OBVIOUS
<1>4. \A y \in T : u <= k - y
  BY <1>2, <1>3, Zenon
<1>5. \E z \in T : \A y \in T : z >= y
  BY <1>4
<1> QED
  BY <1>5, Zenon DEF Max

(* Integer division, as the checkpoint arithmetic uses it.                 *)
LEMMA DivFacts ==
  ASSUME NEW s \in Nat, NEW f \in Nat \ {0}
  PROVE  /\ s \div f \in Nat
         /\ (s \div f) * f <= s
         /\ s < (s \div f) * f + f
OBVIOUS

(* calculateCatchupRange: replay begins after the last closed ledger, or   *)
(* after buckets that are neither older than it nor newer than the target. *)
LEMMA RangeOK ==
  ASSUME NEW lcl \in Nat \ {0}, NEW to \in Nat, lcl < to, NEW count \in Nat,
         Freq \in Nat \ {0, 1}
  PROVE  LET r == calculateCatchupRange(lcl, to, count)
         IN  /\ r = [buckets |-> r.buckets, next |-> r.next]
             /\ r.buckets = None => r.next = lcl + 1
             /\ r.buckets # None => /\ r.next = r.buckets + 1 /\ r.buckets \in Nat
                                    /\ lcl <= r.buckets /\ r.buckets <= to
<1> DEFINE ts == to - count + 1
           q == ts \div Freq
           last == lastLedgerBeforeCheckpointContaining(ts)
<1>1. CASE lcl > GENESIS_LEDGER_SEQ \/ count >= to - lcl
  BY <1>1 DEF calculateCatchupRange, None
<1>2. CASE ~(lcl > GENESIS_LEDGER_SEQ \/ count >= to - lcl)
  <2>1. lcl = 1 /\ ts \in Nat /\ ts <= to + 1 /\ ts > 2
    BY <1>2 DEF GENESIS_LEDGER_SEQ
  <2>2. /\ q \in Nat
        /\ q * Freq <= ts
        /\ ts < q * Freq + Freq
    BY <2>1, DivFacts
  <2>3. CASE ts < Freq
    <3>1. q = 0
      BY <2>1, <2>2, <2>3
    <3>2. firstLedgerInCheckpointContaining(ts) = GENESIS_LEDGER_SEQ
      BY <2>3, <3>1
         DEF firstLedgerInCheckpointContaining, checkpointContainingLedger,
             sizeOfCheckpointContaining, GENESIS_LEDGER_SEQ
    <3> QED
      BY <2>1, <3>2 DEF calculateCatchupRange, None
  <2>4. CASE ts >= Freq
    <3>1. last = q * Freq - 1
      BY <2>1, <2>2, <2>4
         DEF lastLedgerBeforeCheckpointContaining, checkpointContainingLedger,
             sizeOfCheckpointContaining
    <3>2. q >= 1
      BY <2>1, <2>2, <2>4
    <3>3. q * Freq \in Nat /\ q * Freq >= 2
      BY <2>2, <3>2
    <3>4. last \in Nat /\ 1 <= last /\ last <= to
      BY <2>1, <2>2, <3>1, <3>3
    <3> QED
      BY <2>1, <3>4 DEF calculateCatchupRange, None
  <2> QED
    BY <2>1, <2>3, <2>4
<1> QED
  BY <1>1, <1>2

(* A ledger stays covered if ledgers only leave the hand by being closed.  *)
LEMMA CoverGrows ==
  ASSUME NEW n, NEW m, NEW t \in Nat, n.lcl \in Nat, m.lcl \in Nat, n.lcl <= m.lcl,
         Held(n) \subseteq Nat, \A c \in Held(n) : c \in Held(m) \/ c <= m.lcl,
         Covered(n, t)
  PROVE  Covered(m, t)
<1>1. CASE t <= n.lcl
  BY <1>1 DEF Covered
<1>2. CASE t \in Held(n)
  BY <1>2 DEF Covered
<1>3. CASE \E c \in Held(n) : t < c /\ isFirstLedgerInCheckpoint(c)
  <2>1. PICK c \in Held(n) : t < c /\ isFirstLedgerInCheckpoint(c)
    BY <1>3
  <2>2. c \in Nat
    BY <2>1
  <2>3. CASE c \in Held(m)
    BY <2>1, <2>3 DEF Covered
  <2>4. CASE c <= m.lcl
    BY <2>1, <2>2, <2>4 DEF Covered
  <2> QED
    BY <2>1, <2>3, <2>4
<1> QED
  BY <1>1, <1>2, <1>3 DEF Covered

-----------------------------------------------------------------------------
(* closeLedgerIf preserves Good, and does not throw.                       *)
LEMMA CloseIfGood ==
  ASSUME NEW n, NEW h, h \subseteq Ledger, Good(n, h), n.thrown = "nothing",
         NEW s \in Ledger, s \notin h
  PROVE  Good(closeLedgerIf(n, s), h) /\ closeLedgerIf(n, s).thrown = "nothing"
<1> USE LedgerAssumption
<1>0. n \in Node /\ n.lcl \in Nat /\ s \in Nat
  BY DEF Good, Node, Ledger, GENESIS_LEDGER_SEQ
<1>1. CASE s = n.lcl + 1 /\ ~Running(n)
  <2> DEFINE m == [n EXCEPT !.lcl = s]
  <2>1. closeLedgerIf(n, s) = m
    BY <1>0, <1>1 DEF closeLedgerIf, closeLedger
  <2>2. /\ m \in Node /\ m.lcl = s /\ m.mSyncingLedgers = n.mSyncingLedgers
        /\ m.mCatchupWork = n.mCatchupWork /\ m.thrown = "nothing"
    BY <1>0 DEF Node
  <2> HIDE DEF m
  <2>3. Buffer(m, h)
    <3>1. \A t \in n.mSyncingLedgers : t \in Nat
      BY <1>0 DEF Node, Ledger, GENESIS_LEDGER_SEQ
    <3> QED
      BY <1>0, <1>1, <2>2, <3>1 DEF Good, Buffer
  <2>4. WorkIn(m, h)
    BY <1>1, <2>2 DEF Good, WorkIn, Running, Held
  <2>5. Held(m) = Held(n) /\ Held(n) \subseteq Nat /\ h \subseteq Nat
    BY <1>0, <2>2 DEF Node, Work, Held, Ledger, None, GENESIS_LEDGER_SEQ
  <2>6. \A t \in h : Covered(m, t)
    BY <1>0, <1>1, <2>2, <2>5, CoverGrows DEF Good
  <2> QED
    BY <2>1, <2>2, <2>3, <2>4, <2>6 DEF Good
<1>2. CASE s > n.lcl + 1
  <2> DEFINE m == [n EXCEPT !.mState = "CATCHING_UP"]
  <2>1. closeLedgerIf(n, s) = m
    BY <1>0, <1>2 DEF closeLedgerIf
  <2>2. /\ m \in Node /\ m.lcl = n.lcl /\ m.mSyncingLedgers = n.mSyncingLedgers
        /\ m.mCatchupWork = n.mCatchupWork /\ m.thrown = "nothing"
    BY <1>0 DEF Node
  <2> HIDE DEF m
  <2> QED
    BY <2>1, <2>2 DEF Good, Buffer, WorkIn, Covered, Held
<1>3. CASE (s = n.lcl + 1 /\ Running(n)) \/ s <= n.lcl
  <2>1. closeLedgerIf(n, s) = n
    BY <1>0, <1>3 DEF closeLedgerIf
  <2> QED
    BY <2>1
<1> QED
  BY <1>0, <1>1, <1>2, <1>3

(* closeLedgerIf preserves Track, and unless the ledger manager is now     *)
(* CATCHING_UP the ledger is closed or is the next one of a running        *)
(* catchup.                                                                *)
LEMMA CloseIfTrack ==
  ASSUME NEW n, NEW h, h \subseteq Ledger, Good(n, h), NEW k \in Nat, Track(n, k),
         NEW s \in Ledger
  PROVE  LET m == closeLedgerIf(n, s)
         IN  /\ Track(m, k)
             /\ s <= m.lcl \/ (s = m.lcl + 1 /\ Running(m)) \/ m.mState = "CATCHING_UP"
             /\ m.lcl >= n.lcl
<1>0. n \in Node /\ n.lcl \in Nat /\ s \in Nat
  BY LedgerAssumption DEF Good, Node, Ledger, GENESIS_LEDGER_SEQ
<1>1. CASE s = n.lcl + 1 /\ ~Running(n)
  <2> DEFINE m == [n EXCEPT !.lcl = s]
  <2>1. closeLedgerIf(n, s) = m
    BY <1>0, <1>1 DEF closeLedgerIf, closeLedger
  <2>2. /\ m.lcl = s /\ m.mSyncingLedgers = n.mSyncingLedgers
        /\ m.mCatchupWork = n.mCatchupWork /\ m.mState = n.mState
    BY <1>0 DEF Node
  <2> HIDE DEF m
  <2>3. m.lcl + 1..k \subseteq n.lcl + 1..k /\ Held(m) = Held(n)
    BY <1>0, <1>1, <2>2 DEF Held
  <2>4. Track(m, k)
    BY <1>1, <2>2, <2>3 DEF Track, Running
  <2> QED
    BY <1>0, <1>1, <2>1, <2>2, <2>4
<1>2. CASE s > n.lcl + 1
  <2> DEFINE m == [n EXCEPT !.mState = "CATCHING_UP"]
  <2>1. closeLedgerIf(n, s) = m
    BY <1>0, <1>2 DEF closeLedgerIf
  <2>2. /\ m.lcl = n.lcl /\ m.mSyncingLedgers = n.mSyncingLedgers
        /\ m.mCatchupWork = n.mCatchupWork /\ m.mState = "CATCHING_UP"
    BY <1>0 DEF Node
  <2> HIDE DEF m
  <2> QED
    BY <1>0, <2>1, <2>2 DEF Track, Running
<1>3. CASE (s = n.lcl + 1 /\ Running(n)) \/ s <= n.lcl
  <2>1. closeLedgerIf(n, s) = n
    BY <1>0, <1>3 DEF closeLedgerIf
  <2> QED
    BY <1>0, <1>3, <2>1
<1> QED
  BY <1>0, <1>1, <1>2, <1>3

(* Erasing what is below a buffered checkpoint, as processLedger and       *)
(* trimSyncingLedgers do, loses no ledger.                                 *)
LEMMA EraseGood ==
  ASSUME NEW n, NEW h, Good(n, h), NEW c \in n.mSyncingLedgers,
         isFirstLedgerInCheckpoint(c), ~Running(n), h \subseteq Ledger
  PROVE  LET m == EraseBelow(n, c)
         IN  /\ Good(m, h) /\ m.thrown = n.thrown /\ m.lcl = n.lcl
             /\ m.mCatchupWork = n.mCatchupWork /\ m.mState = n.mState
             /\ \A t : t \in m.mSyncingLedgers <=> t \in n.mSyncingLedgers /\ t >= c
<1> DEFINE m == EraseBelow(n, c)
<1>1. /\ n \in Node /\ n.lcl \in Nat /\ c \in Nat
      /\ \A t \in n.mSyncingLedgers \cup h : t \in Nat
  BY LedgerAssumption DEF Good, Node, Ledger, GENESIS_LEDGER_SEQ
<1>2. /\ m \in Node /\ m.lcl = n.lcl
      /\ m.mSyncingLedgers = {t \in n.mSyncingLedgers : t >= c}
      /\ m.mCatchupWork = n.mCatchupWork /\ m.thrown = n.thrown /\ m.mState = n.mState
  BY <1>1 DEF EraseBelow, Node
<1> HIDE DEF m
<1>3. c \in Held(m)
  BY <1>1, <1>2 DEF Held
<1>4. Buffer(m, h)
  BY <1>2 DEF Good, Buffer
<1>5. n.mCatchupWork.applying = None
  BY DEF Good, WorkIn, Running
<1>6. WorkIn(m, h)
  BY <1>2 DEF Good, WorkIn, Running
<1>7. ASSUME NEW t \in h, Covered(n, t)
      PROVE  Covered(m, t)
  <2>0. t \in Nat
    BY <1>1
  <2>1. CASE t < c
    BY <1>3, <2>1 DEF Covered
  <2>2. CASE t >= c
    <3>1. CASE t <= n.lcl
      BY <1>2, <3>1 DEF Covered
    <3>2. CASE t \in Held(n)
      BY <1>2, <2>2, <3>2 DEF Covered, Held
    <3>3. CASE \E d \in Held(n) : t < d /\ isFirstLedgerInCheckpoint(d)
      <4>1. PICK d \in Held(n) : t < d /\ isFirstLedgerInCheckpoint(d)
        BY <3>3
      <4>2. d \in n.mSyncingLedgers
        BY <1>5, <2>0, <4>1 DEF Held, None
      <4>3. d \in Held(m)
        BY <1>1, <1>2, <2>0, <2>2, <4>1, <4>2 DEF Held
      <4> QED
        BY <4>1, <4>3 DEF Covered
    <3> QED
      BY <1>7, <3>1, <3>2, <3>3 DEF Covered
  <2> QED
    BY <1>1, <2>0, <2>1, <2>2
<1> QED
  BY <1>2, <1>4, <1>6, <1>7 DEF Good, m

(* trimAndReset, after a catchup has ended, preserves Good.                *)
LEMMA TrimGood ==
  ASSUME NEW n, NEW h, h \subseteq Ledger, Good(n, h), ~Running(n)
  PROVE  /\ Good(trimAndReset(n), h) /\ trimAndReset(n).thrown = n.thrown
         /\ trimAndReset(n).lcl = n.lcl /\ trimAndReset(n).mCatchupWork = NoWork
         /\ trimAndReset(n).mState = n.mState
         /\ n.mSyncingLedgers = {} => trimAndReset(n).mSyncingLedgers = {}
<1> DEFINE m == [n EXCEPT !.mCatchupWork = NoWork]
<1>1. /\ n \in Node /\ n.mCatchupWork.applying = None
      /\ NoWork \in Work /\ NoWork.applying = None /\ NoWork.state = "none" /\ NoWork.to = 0
  BY DEF Good, WorkIn, Running, NoWork, Work, None
<1>2. /\ m \in Node /\ m.lcl = n.lcl /\ m.mSyncingLedgers = n.mSyncingLedgers
      /\ m.mCatchupWork = NoWork /\ m.thrown = n.thrown /\ m.mState = n.mState
  BY <1>1 DEF Node
<1>3. trimAndReset(n) = trimSyncingLedgers(m)
  BY DEF trimAndReset
<1> HIDE DEF m
<1>4. Held(m) = Held(n)
  BY <1>1, <1>2 DEF Held
<1>5. Buffer(m, h)
  BY <1>1, <1>2, LedgerAssumption DEF Good, Buffer, Node, Ledger, None, GENESIS_LEDGER_SEQ
<1>6. WorkIn(m, h)
  BY <1>1, <1>2 DEF WorkIn
<1>7. Good(m, h) /\ ~Running(m)
  BY <1>1, <1>2, <1>4, <1>5, <1>6 DEF Good, Covered, Running
<1>8. CASE Firsts(m) = {}
  BY <1>2, <1>3, <1>7, <1>8 DEF trimSyncingLedgers
<1>9. CASE Firsts(m) # {}
  <2>1. Firsts(m) \subseteq 0..MaxLedger
    BY <1>2, LedgerAssumption DEF Firsts, Node, Ledger, GENESIS_LEDGER_SEQ
  <2>2. Max(Firsts(m)) \in Firsts(m)
    BY <1>9, <2>1, LedgerAssumption, MaxOf
  <2>3. Max(Firsts(m)) \in m.mSyncingLedgers /\ isFirstLedgerInCheckpoint(Max(Firsts(m)))
    BY <2>2 DEF Firsts
  <2>4. trimAndReset(n) = EraseBelow(m, Max(Firsts(m)))
    BY <1>3, <1>9 DEF trimSyncingLedgers
  <2> QED
    BY <1>2, <1>7, <2>3, <2>4, EraseGood
<1> QED
  BY <1>8, <1>9

(* A newly decided ledger that is covered preserves Good.                  *)
LEMMA AddHeard ==
  ASSUME NEW n, NEW h, Good(n, h), NEW s, Covered(n, s)
  PROVE  Good(n, h \cup {s})
BY DEF Good, Buffer, WorkIn

(* tryApplySyncingLedgers closes what it removes from the buffer.          *)
LEMMA TryApplyGood ==
  ASSUME NEW n, NEW h, h \subseteq Ledger, Good(n, h), n.mCatchupWork = NoWork
  PROVE  /\ Good(tryApplySyncingLedgers(n), h)
         /\ tryApplySyncingLedgers(n).lcl \in Nat /\ tryApplySyncingLedgers(n).lcl >= n.lcl
         /\ tryApplySyncingLedgers(n).mState = n.mState
         /\ tryApplySyncingLedgers(n).mCatchupWork = NoWork
         /\ \A t \in n.mSyncingLedgers : \/ t <= tryApplySyncingLedgers(n).lcl
                                         \/ t \in tryApplySyncingLedgers(n).mSyncingLedgers
<1> DEFINE B == n.mSyncingLedgers
           run == {s \in B : n.lcl + 1..s \subseteq B}
           top == Max(run)
           m == [n EXCEPT !.lcl = top, !.mSyncingLedgers = @ \ run]
<1>1. n \in Node /\ n.lcl \in Nat /\ B \subseteq 0..MaxLedger /\ B \subseteq Ledger
  BY LedgerAssumption DEF Good, Node, Ledger, GENESIS_LEDGER_SEQ
<1>2. CASE B = {} \/ Min(B) # n.lcl + 1
  BY <1>1, <1>2 DEF tryApplySyncingLedgers
<1>3. CASE B # {} /\ Min(B) = n.lcl + 1
  <2>1. n.lcl + 1 \in B
    BY <1>1, <1>3, MinOf
  <2>2. n.lcl + 1 \in run
    BY <1>1, <2>1
  <2>3. top \in run /\ \A t \in run : top >= t
    <3>1. run \subseteq 0..MaxLedger /\ run # {}
      BY <1>1, <2>2
    <3> QED
      BY <3>1, LedgerAssumption, MaxOf
  <2>4. tryApplySyncingLedgers(n) = m
    BY <1>3 DEF tryApplySyncingLedgers
  <2>5. top \in Nat /\ top \in Ledger /\ top >= n.lcl + 1 /\ n.lcl + 1..top \subseteq B
    BY <1>1, <2>2, <2>3
  <2>6. ASSUME NEW t \in B
        PROVE  t \in run \/ t > top
    <3> HIDE DEF top
    <3>1. t \in Nat
      BY <1>1, LedgerAssumption
    <3>2. CASE t <= top
      <4>1. n.lcl + 1..t \subseteq n.lcl + 1..top
        BY <1>1, <2>5, <3>1, <3>2
      <4> QED
        BY <2>5, <4>1
    <3> HIDE DEF run
    <3> QED
      BY <2>5, <3>1, <3>2
  <2>7. \A t \in run : t <= top
    BY <1>1, <2>3, <2>5
  <2>8. run \subseteq B
    OBVIOUS
  <2> HIDE DEF run, top
  <2>9. /\ m \in Node /\ m.lcl = top /\ m.mSyncingLedgers = B \ run
        /\ m.mCatchupWork = NoWork /\ m.thrown = n.thrown /\ m.mState = n.mState
    BY <1>1, <2>5, Zenon DEF Node
  <2> HIDE DEF m
  <2>10. Buffer(m, h)
    BY <2>6, <2>9 DEF Good, Buffer
  <2>11. WorkIn(m, h)
    BY <2>9 DEF WorkIn, NoWork, None
  <2>12. Held(n) \subseteq Nat /\ \A c \in Held(n) : c \in Held(m) \/ c <= m.lcl
    BY <1>1, <2>7, <2>9, LedgerAssumption DEF Held, NoWork, None
  <2>13. \A t \in h : Covered(n, t) => Covered(m, t)
    <3>1. h \subseteq Nat
      BY LedgerAssumption DEF Ledger, GENESIS_LEDGER_SEQ
    <3> QED
      BY <1>1, <2>5, <2>9, <2>12, <3>1, CoverGrows
  <2> QED
    BY <1>1, <2>4, <2>5, <2>7, <2>9, <2>10, <2>11, <2>13 DEF Good
<1> QED
  BY <1>2, <1>3

(* Buffering a decided ledger that is beyond the last closed one and the   *)
(* target preserves Good.                                                  *)
LEMMA AddBuffered ==
  ASSUME NEW n, NEW h, h \subseteq Ledger, Good(n, h), NEW s \in Ledger, s \notin h,
         s > n.lcl, s > n.mCatchupWork.to
  PROVE  LET m == [n EXCEPT !.mSyncingLedgers = @ \cup {s}]
         IN  /\ Good(m, h \cup {s}) /\ m.thrown = n.thrown /\ m.lcl = n.lcl
             /\ m.mCatchupWork = n.mCatchupWork /\ m.mState = n.mState
             /\ m.mSyncingLedgers = n.mSyncingLedgers \cup {s}
<1> DEFINE m == [n EXCEPT !.mSyncingLedgers = @ \cup {s}]
<1>1. n \in Node /\ s \in Nat /\ s # None
  BY LedgerAssumption DEF Good, Ledger, GENESIS_LEDGER_SEQ, None
<1>2. /\ m \in Node /\ m.lcl = n.lcl /\ m.mSyncingLedgers = n.mSyncingLedgers \cup {s}
      /\ m.mCatchupWork = n.mCatchupWork /\ m.thrown = n.thrown /\ m.mState = n.mState
  BY <1>1 DEF Node
<1> HIDE DEF m
<1>3. Held(m) = Held(n) \cup {s}
  BY <1>2 DEF Held
<1>4. Buffer(m, h \cup {s})
  BY <1>1, <1>2 DEF Good, Buffer, WorkIn
<1>5. WorkIn(m, h \cup {s})
  BY <1>2, <1>3 DEF Good, WorkIn
<1>6. \A t \in h \cup {s} : Covered(n, t) \/ t = s => Covered(m, t)
  BY <1>2, <1>3 DEF Covered
<1> QED
  BY <1>2, <1>4, <1>5, <1>6 DEF Good, m

(* startOnlineCatchup, with a checkpoint first in the buffer, starts a     *)
(* work that satisfies WorkIn, or throws.                                  *)
LEMMA StartGood ==
  ASSUME NEW n, NEW h, h \subseteq Ledger, Good(n, h), n.mCatchupWork = NoWork,
         n.thrown = "nothing", n.mSyncingLedgers # {}, NEW count \in Nat,
         isFirstLedgerInCheckpoint(Min(n.mSyncingLedgers))
  PROVE  /\ Good(startOnlineCatchup(n, count), h)
         /\ startOnlineCatchup(n, count).mState = n.mState
         /\ startOnlineCatchup(n, count).lcl = n.lcl
         /\ \/ startOnlineCatchup(n, count).mCatchupWork = NoWork
            \/ startOnlineCatchup(n, count).mCatchupWork.phase = "download"
<1> DEFINE c == Min(n.mSyncingLedgers)
           to == c - 1
           range == calculateCatchupRange(n.lcl, to, count)
           w == [NoWork EXCEPT !.state = "running", !.to = to,
                               !.buckets = range.buckets, !.next = range.next]
           m == [n EXCEPT !.mCatchupWork = w]
<1>1. /\ n \in Node /\ n.lcl \in Nat \ {0} /\ n.mSyncingLedgers \subseteq Ledger
      /\ n.mSyncingLedgers \subseteq Nat
  BY LedgerAssumption DEF Good, Node, Ledger, GENESIS_LEDGER_SEQ
<1>2. c \in n.mSyncingLedgers /\ \A t \in n.mSyncingLedgers : c <= t
  BY <1>1, MinOf
<1> HIDE DEF c
<1>3. c \in Ledger /\ c \in Nat /\ to + 1 = c /\ to \in Int
  BY <1>1, <1>2
<1>4. CASE to <= n.lcl
  <2> DEFINE e == [n EXCEPT !.thrown = "target"]
  <2>1. startOnlineCatchup(n, count) = e
    BY <1>4 DEF startOnlineCatchup, c
  <2>2. /\ e \in Node /\ e.lcl = n.lcl /\ e.mSyncingLedgers = n.mSyncingLedgers
        /\ e.mCatchupWork = n.mCatchupWork /\ e.thrown = "target" /\ e.mState = n.mState
    BY <1>1 DEF Node
  <2> HIDE DEF e
  <2> QED
    BY <2>1, <2>2 DEF Good, Buffer, WorkIn, Held
<1>5. CASE to > n.lcl
  <2>1. startOnlineCatchup(n, count) = m
    BY <1>1, <1>3, <1>5 DEF startOnlineCatchup, c
  <2>2. to \in Nat /\ to \in Ledger
    BY <1>1, <1>3, <1>5, LedgerAssumption DEF Ledger, GENESIS_LEDGER_SEQ
  <2>3. /\ range.buckets = None => range.next = n.lcl + 1
        /\ range.buckets # None =>
             /\ range.next = range.buckets + 1 /\ range.buckets \in Nat
             /\ n.lcl <= range.buckets /\ range.buckets <= to
    BY <1>1, <1>5, <2>2, LedgerAssumption, RangeOK
  <2> HIDE DEF to, range
  <2>4. range.buckets \in Ledger \cup {None} /\ range.next \in Nat
    BY <1>1, <2>2, <2>3, LedgerAssumption DEF Ledger, GENESIS_LEDGER_SEQ
  <2>5. /\ w \in Work /\ w.state = "running" /\ w.phase = "download" /\ w.to = to
        /\ w.buckets = range.buckets /\ w.next = range.next /\ w.applying = None
    BY <2>2, <2>4, Zenon DEF NoWork, Work
  <2> HIDE DEF w
  <2>6. /\ m \in Node /\ m.lcl = n.lcl /\ m.mSyncingLedgers = n.mSyncingLedgers
        /\ m.mCatchupWork = w /\ m.thrown = "nothing" /\ m.mState = n.mState
    BY <1>1, <2>5 DEF Node
  <2> HIDE DEF m
  <2>7. Held(m) = Held(n)
    BY <2>5, <2>6 DEF Held, NoWork
  <2>8. Buffer(m, h)
    <3>1. \A t \in n.mSyncingLedgers : t > to /\ t # None
      BY <1>1, <1>2, <1>3, <2>2 DEF Ledger, GENESIS_LEDGER_SEQ, None
    <3> QED
      BY <2>5, <2>6, <3>1 DEF Good, Buffer
  <2>9. WorkIn(m, h)
    <3>1. c \in Held(m) /\ isFirstLedgerInCheckpoint(to + 1)
      BY <1>2, <1>3, <2>6 DEF Held, c
    <3>2. to # None /\ n.lcl <= to
      BY <1>1, <1>5, <2>2 DEF None
    <3> QED
      BY <1>3, <2>3, <2>5, <2>6, <3>1, <3>2 DEF WorkIn
  <2> QED
    BY <2>1, <2>5, <2>6, <2>7, <2>8, <2>9 DEF Good, Covered
<1> QED
  BY <1>1, <1>3, <1>4, <1>5

(* processLedger, called after closeLedgerIf, preserves Good and Track for *)
(* the old and for the new slot of the herder.                             *)
LEMMA ProcessGood ==
  ASSUME NEW old, NEW h, h \subseteq Ledger, Good(old, h), old.thrown = "nothing",
         NEW s \in Ledger, s \notin h, NEW count \in Nat,
         NEW k \in Nat, NEW kk \in {k, s}, Track(old, k), \A t \in h : t <= k,
         s <= old.lcl \/ (s = old.lcl + 1 /\ Running(old)) \/ old.mState = "CATCHING_UP"
  PROVE  /\ Good(processLedger(old, s, count), h \cup {s})
         /\ Track(processLedger(old, s, count), kk)
         /\ processLedger(old, s, count).lcl >= old.lcl
<1> DEFINE n == IF old.mCatchupWork.state \in {"success", "failure"}
                THEN trimAndReset(old) ELSE old
           m == [n EXCEPT !.mSyncingLedgers = @ \cup {s}]
           c == Min(Firsts(m))
           p == processLedger(old, s, count)
           hs == h \cup {s}
<1>1. /\ Good(n, h) /\ n.thrown = "nothing" /\ (n.mCatchupWork = NoWork \/ Running(n))
      /\ Track(n, k) /\ n.lcl = old.lcl /\ n.mState = old.mState /\ (Running(old) => n = old)
  <2>1. CASE old.mCatchupWork.state \in {"success", "failure"}
    <3> DEFINE m0 == trimAndReset(old)
    <3>1. ~Running(old)
      BY <2>1 DEF Running
    <3>2. /\ Good(m0, h) /\ m0.thrown = "nothing" /\ m0.lcl = old.lcl
          /\ m0.mCatchupWork = NoWork /\ m0.mState = old.mState
          /\ old.mSyncingLedgers = {} => m0.mSyncingLedgers = {}
      BY <3>1, TrimGood, Zenon
    <3>3. old.mCatchupWork.applying = None
      BY <3>1 DEF Good, WorkIn, Running
    <3> HIDE DEF m0
    <3>4. ~Running(m0) /\ m0.mCatchupWork.state = "none" /\ m0.mCatchupWork.applying = None
      BY <3>2 DEF Running, NoWork
    <3>5. Track(m0, k)
      BY <2>1, <3>2, <3>3, <3>4 DEF Track, Held
    <3>6. n = m0
      BY <2>1 DEF m0
    <3> QED
      BY <3>1, <3>2, <3>5, <3>6
  <2>2. CASE old.mCatchupWork.state \notin {"success", "failure"}
    <3>1. old.mCatchupWork.state \in {"none", "running"}
      BY <2>2 DEF Good, Node, Work
    <3> QED
      BY <2>2, <3>1 DEF Good, WorkIn, Running
  <2> QED
    BY <2>1, <2>2
<1>2. p = CASE n.mCatchupWork = NoWork /\ s = n.lcl -> tryApplySyncingLedgers(n)
            [] s <= n.lcl /\ ~(n.mCatchupWork = NoWork /\ s = n.lcl) -> n
            [] s > n.lcl /\ n.mCatchupWork # NoWork ->
                 IF s <= n.mCatchupWork.to THEN n ELSE m
            [] OTHER ->
                 IF Firsts(m) # {} /\ c < Max(m.mSyncingLedgers)
                 THEN startOnlineCatchup(EraseBelow(m, c), count)
                 ELSE m
  BY DEF processLedger
<1> HIDE DEF n, p, m, c
<1>3. /\ s \in Nat /\ n.lcl \in Nat /\ n.mCatchupWork.to \in Nat /\ hs \subseteq Ledger
      /\ kk \in Nat /\ (kk = k \/ kk = s)
  BY <1>1, LedgerAssumption DEF Good, Node, Work, Ledger, GENESIS_LEDGER_SEQ, None
<1>4. CASE n.mCatchupWork = NoWork /\ s = n.lcl
  <2>1. p = tryApplySyncingLedgers(n)
    BY <1>2, <1>3, <1>4
  <2>2. /\ Covered(p, s) /\ Good(p, h) /\ p.lcl \in Nat /\ p.lcl >= n.lcl
        /\ p.mState = n.mState /\ p.mCatchupWork = NoWork
        /\ \A t \in n.mSyncingLedgers : t <= p.lcl \/ t \in p.mSyncingLedgers
    BY <1>1, <1>3, <1>4, <2>1, TryApplyGood DEF Covered
  <2>3. p.mState = "SYNCED" => p.lcl + 1..kk \subseteq Held(p)
    BY <1>1, <1>3, <1>4, <2>2 DEF Track, Held
  <2>4. Track(p, kk)
    BY <2>2, <2>3 DEF Track, Running, NoWork
  <2> QED
    BY <1>1, <2>2, <2>4, AddHeard DEF p
<1>5. CASE s <= n.lcl /\ ~(n.mCatchupWork = NoWork /\ s = n.lcl)
  <2>1. p = n
    BY <1>2, <1>3, <1>5
  <2>2. Covered(n, s)
    BY <1>5 DEF Covered
  <2>3. n.lcl + 1..kk \subseteq n.lcl + 1..k
    BY <1>3, <1>5
  <2>4. Track(n, kk)
    BY <1>1, <2>3 DEF Track
  <2> QED
    BY <1>1, <1>3, <2>1, <2>2, <2>4, AddHeard DEF p
<1>6. CASE s > n.lcl /\ n.mCatchupWork # NoWork /\ s <= n.mCatchupWork.to
  <2>1. p = n
    BY <1>2, <1>3, <1>6
  <2>2. /\ isFirstLedgerInCheckpoint(n.mCatchupWork.to + 1)
        /\ n.mCatchupWork.to < n.lcl \/ n.mCatchupWork.to + 1 \in Held(n)
    BY <1>1, <1>6 DEF Good, WorkIn, Running
  <2>3. Covered(n, s)
    BY <1>3, <1>6, <2>2 DEF Covered
  <2>4. n.mState # "SYNCED"
    BY <1>1, <1>3, <1>6 DEF Track, Running
  <2>5. Track(n, kk)
    BY <1>1, <2>4 DEF Track
  <2> QED
    BY <1>1, <1>3, <2>1, <2>3, <2>5, AddHeard DEF p
<1>7. CASE s > n.lcl /\ n.mCatchupWork # NoWork /\ s > n.mCatchupWork.to
  <2>1. p = m
    BY <1>2, <1>3, <1>7
  <2>2. /\ Good(m, hs) /\ m.lcl = n.lcl /\ m.mCatchupWork = n.mCatchupWork
        /\ m.mState = n.mState /\ m.mSyncingLedgers = n.mSyncingLedgers \cup {s}
    BY <1>1, <1>7, AddBuffered DEF m
  <2>3. m.mState = "SYNCED" => m.lcl + 1..kk \subseteq Held(m)
    BY <1>1, <1>3, <1>7, <2>2 DEF Track, Held
  <2>4. Running(m)
    BY <1>1, <1>7, <2>2 DEF Running
  <2>5. Track(m, kk)
    BY <1>1, <2>2, <2>3, <2>4 DEF Track, Running
  <2> QED
    BY <1>1, <1>3, <2>1, <2>2, <2>5 DEF p
<1>8. CASE s > n.lcl /\ n.mCatchupWork = NoWork
  <2>1. s > n.mCatchupWork.to
    BY <1>3, <1>8 DEF NoWork, None, Ledger, GENESIS_LEDGER_SEQ
  <2>2. /\ Good(m, hs) /\ m.thrown = "nothing" /\ m.mCatchupWork = NoWork
        /\ m.mState = "CATCHING_UP" /\ m.lcl = old.lcl
    <3>1. n.mState = "CATCHING_UP"
      BY <1>1, <1>3, <1>8 DEF Running, NoWork
    <3> QED
      BY <1>1, <1>8, <2>1, <3>1, AddBuffered DEF m
  <2>3. CASE ~(Firsts(m) # {} /\ c < Max(m.mSyncingLedgers))
    <3>1. p = m
      BY <1>2, <1>3, <1>8, <2>3
    <3>2. Track(m, kk)
      BY <2>2 DEF Track, Running, NoWork
    <3> QED
      BY <1>1, <1>3, <2>2, <3>1, <3>2 DEF p
  <2>4. CASE Firsts(m) # {} /\ c < Max(m.mSyncingLedgers)
    <3> DEFINE e == EraseBelow(m, c)
    <3>1. p = startOnlineCatchup(e, count)
      BY <1>2, <1>3, <1>8, <2>4
    <3>2. Firsts(m) \subseteq m.mSyncingLedgers /\ m.mSyncingLedgers \subseteq Nat
      BY <2>2, LedgerAssumption DEF Firsts, Good, Node, Ledger, GENESIS_LEDGER_SEQ
    <3>3. c \in Firsts(m)
      BY <2>4, <3>2, MinOf DEF c
    <3>4. c \in m.mSyncingLedgers /\ isFirstLedgerInCheckpoint(c) /\ c \in Nat
      BY <3>2, <3>3 DEF Firsts
    <3>5. ~Running(m)
      BY <2>2 DEF Running, NoWork
    <3>6. /\ Good(e, hs) /\ e.thrown = "nothing" /\ e.mCatchupWork = NoWork
          /\ e.mState = "CATCHING_UP" /\ e.lcl = old.lcl
          /\ \A t : t \in e.mSyncingLedgers <=> t \in m.mSyncingLedgers /\ t >= c
      BY <1>3, <2>2, <3>4, <3>5, EraseGood, Zenon
    <3> HIDE DEF e
    <3>7. c \in e.mSyncingLedgers /\ e.mSyncingLedgers \subseteq Nat
      BY <3>2, <3>4, <3>6
    <3>8. Min(e.mSyncingLedgers) = c
      <4>1. /\ Min(e.mSyncingLedgers) \in e.mSyncingLedgers
            /\ \A t \in e.mSyncingLedgers : Min(e.mSyncingLedgers) <= t
        BY <3>7, MinOf
      <4>2. Min(e.mSyncingLedgers) <= c /\ Min(e.mSyncingLedgers) >= c
        BY <3>6, <3>7, <4>1
      <4> QED
        BY <3>4, <3>7, <4>1, <4>2
    <3>9. /\ Good(p, hs) /\ p.mState = "CATCHING_UP" /\ p.lcl = old.lcl
          /\ p.mCatchupWork = NoWork \/ p.mCatchupWork.phase = "download"
      BY <1>3, <3>1, <3>4, <3>6, <3>7, <3>8, StartGood
    <3>10. Track(p, kk)
      BY <3>9 DEF Track, Running, NoWork
    <3> QED
      BY <1>1, <1>3, <3>9, <3>10 DEF p
  <2> QED
    BY <2>3, <2>4
<1> QED
  BY <1>3, <1>4, <1>5, <1>6, <1>7, <1>8

(* A change of the work's status that leaves its ledgers alone preserves   *)
(* Good.                                                                   *)
LEMMA SetWork ==
  ASSUME NEW n, NEW h, Good(n, h), NEW w \in Work,
         w.to = n.mCatchupWork.to, w.applying = n.mCatchupWork.applying,
         w.state # "none",
         w.applying # None =>
           w.state = "running" /\ w.phase = "buffered" /\ w.buffered = "running",
         w.state = "running" =>
           /\ n.mCatchupWork.state = "running"
           /\ w.phase # "buffered" =>
                /\ n.mCatchupWork.phase # "buffered"
                /\ w.buckets = n.mCatchupWork.buckets /\ w.next = n.mCatchupWork.next
  PROVE  LET m == [n EXCEPT !.mCatchupWork = w]
         IN  /\ Good(m, h) /\ m.lcl = n.lcl /\ m.mCatchupWork = w /\ m.mState = n.mState
             /\ m.mSyncingLedgers = n.mSyncingLedgers /\ Held(m) = Held(n)
<1> DEFINE m == [n EXCEPT !.mCatchupWork = w]
<1>1. /\ m \in Node /\ m.lcl = n.lcl /\ m.mSyncingLedgers = n.mSyncingLedgers
      /\ m.mCatchupWork = w /\ m.thrown = n.thrown /\ m.mState = n.mState
  BY DEF Good, Node
<1> HIDE DEF m
<1>2. Held(m) = Held(n)
  BY <1>1 DEF Held
<1>3. Buffer(m, h)
  BY <1>1 DEF Good, Buffer
<1>4. WorkIn(m, h)
  BY <1>1, <1>2 DEF Good, WorkIn
<1> QED
  BY <1>1, <1>2, <1>3, <1>4 DEF Good, Covered, m

-----------------------------------------------------------------------------
(* valueExternalized preserves the invariant.                              *)
LEMMA ExternalizedGood ==
  ASSUME IInv, NEW s \in Ledger, valueExternalized(s)
  PROVE  IInv'
<1>1. PICK count \in CatchupCounts :
        LET n == processLedger(closeLedgerIf(node, s), s, count)
        IN  node' = IF n.thrown = "nothing" /\ n.mSyncingLedgers = {}
                    THEN [n EXCEPT !.mState = "SYNCED"] ELSE n
  BY DEF valueExternalized
<1> DEFINE n1 == closeLedgerIf(node, s)
           n == processLedger(n1, s, count)
           m == [n EXCEPT !.mState = "SYNCED"]
<1>2. /\ tracked' \in {tracked, s} /\ tracked' >= tracked /\ tracked' >= s
      /\ tracked \in Nat /\ s \in Nat /\ tracked' \in Ledger /\ tracked' \in Nat
  <2>1. {tracked, s} \subseteq Ledger /\ {tracked, s} \subseteq 0..MaxLedger
    BY LedgerAssumption DEF IInv, Ledger, GENESIS_LEDGER_SEQ
  <2>2. /\ Max({tracked, s}) \in {tracked, s}
        /\ \A y \in {tracked, s} : Max({tracked, s}) >= y
    BY <2>1, LedgerAssumption, MaxOf
  <2> QED
    BY <2>1, <2>2, LedgerAssumption DEF valueExternalized
<1>3. /\ heard \subseteq Ledger /\ Good(node, heard) /\ Track(node, tracked)
      /\ node.thrown = "nothing" /\ s \notin heard /\ heard' = heard \cup {s}
      /\ \A t \in heard : t <= tracked
  BY DEF IInv, Newest, valueExternalized
<1>4. /\ Good(n1, heard) /\ n1.thrown = "nothing" /\ Track(n1, tracked)
      /\ s <= n1.lcl \/ (s = n1.lcl + 1 /\ Running(n1)) \/ n1.mState = "CATCHING_UP"
      /\ n1.lcl >= node.lcl
  BY <1>2, <1>3, CloseIfGood, CloseIfTrack, Zenon
<1> HIDE DEF n1
<1>5. Good(n, heard') /\ Track(n, tracked') /\ n.lcl >= n1.lcl
  BY <1>2, <1>3, <1>4, LedgerAssumption, ProcessGood, Zenon
<1>6. \/ node' = n
      \/ node' = m /\ n.thrown = "nothing" /\ n.mSyncingLedgers = {}
  BY <1>1 DEF n1
<1> HIDE DEF n
<1>7. /\ node.lcl \in Nat /\ n1.lcl \in Nat /\ n.lcl \in Nat
      /\ heard' \subseteq Ledger /\ heard \subseteq Nat
  BY <1>3, <1>4, <1>5, LedgerAssumption DEF Good, Node, Ledger, GENESIS_LEDGER_SEQ
<1>8. /\ m \in Node /\ m.lcl = n.lcl /\ m.mSyncingLedgers = n.mSyncingLedgers
      /\ m.mCatchupWork = n.mCatchupWork /\ m.thrown = n.thrown /\ m.mState = "SYNCED"
  BY <1>5 DEF Good, Node
<1> HIDE DEF m
<1>9. Good(m, heard')
  BY <1>5, <1>8 DEF Good, Buffer, WorkIn, Covered, Held
<1>10. (tracked' \in heard' \/ tracked' <= n.lcl) /\ \A t \in heard' : t <= tracked'
  BY <1>2, <1>3, <1>4, <1>5, <1>7 DEF IInv, Newest
<1>11. ASSUME n.thrown = "nothing", n.mSyncingLedgers = {}
       PROVE  Track(m, tracked')
  <2>1. m.lcl + 1..tracked' \subseteq Held(m)
    BY <1>2, <1>5, <1>7, <1>8, <1>10, <1>11 DEF Good, Covered, Held, WorkIn, None
  <2>2. Running(m) => /\ m.mCatchupWork.phase = "buffered"
                      /\ m.mCatchupWork.buffered # "failure"
                      /\ m.mCatchupWork.to <= m.lcl
    BY <1>5, <1>7, <1>8, <1>11 DEF Good, WorkIn, Track, Running, Held, Node, Work, None,
                                  Ledger, GENESIS_LEDGER_SEQ
  <2> QED
    BY <1>8, <1>11, <2>1, <2>2 DEF Track
<1> QED
  BY <1>2, <1>5, <1>6, <1>7, <1>8, <1>9, <1>10, <1>11, Zenon DEF IInv, Newest, valueExternalized

(* A step of the work preserves the invariant if Good and Track hold after *)
(* it.                                                                     *)
LEMMA WorkStep ==
  ASSUME IInv, NEW m, Step(m), Good(m, heard), Track(m, tracked), m.lcl >= node.lcl
  PROVE  IInv'
<1>1. /\ node' = m /\ UNCHANGED <<heard, tracked, restarts>> /\ tracked \in Nat
      /\ node.lcl \in Nat /\ m.lcl \in Nat
  BY LedgerAssumption DEF Step, IInv, Good, Node, Ledger, GENESIS_LEDGER_SEQ
<1> QED
  BY <1>1 DEF IInv, Newest

(* ApplyBuckets preserves the invariant.                                   *)
LEMMA ApplyBucketsGood ==
  ASSUME IInv, ApplyBuckets
  PROVE  IInv'
<1> DEFINE w == [node.mCatchupWork EXCEPT !.buckets = None]
           m == [node EXCEPT !.lcl = node.mCatchupWork.buckets, !.mCatchupWork = w]
<1>1. /\ node \in Node /\ Step(m) /\ Running(node) /\ node.mCatchupWork.phase = "apply"
      /\ node.mCatchupWork \in Work /\ node.mCatchupWork.buckets \in Ledger
      /\ node.mCatchupWork.state = "running" /\ node.mState = "CATCHING_UP"
  BY DEF ApplyBuckets, Step, Running, IInv, Good, Track, Node, Work
<1>2. /\ w \in Work /\ w.state = "running" /\ w.phase = "apply"
      /\ w.to = node.mCatchupWork.to /\ w.next = node.mCatchupWork.next
      /\ w.applying = node.mCatchupWork.applying /\ w.buckets = None
  BY <1>1 DEF Work
<1> HIDE DEF w
<1>3. /\ m \in Node /\ m.lcl = node.mCatchupWork.buckets
      /\ m.mSyncingLedgers = node.mSyncingLedgers /\ m.mCatchupWork = w
      /\ m.thrown = node.thrown /\ m.mState = "CATCHING_UP"
  BY <1>1, <1>2, Zenon DEF Node
<1> HIDE DEF m
<1>4. /\ w.next = m.lcl + 1 /\ node.lcl <= m.lcl /\ m.lcl <= w.to /\ w.applying = None
      /\ m.lcl \in Nat /\ node.lcl \in Nat /\ w.to \in Nat
  BY <1>1, <1>2, <1>3, LedgerAssumption
     DEF ApplyBuckets, IInv, Good, WorkIn, Node, Work, Ledger, GENESIS_LEDGER_SEQ, None
<1>5. Held(m) = Held(node) /\ Held(node) \subseteq Nat /\ heard \subseteq Nat
  BY <1>1, <1>2, <1>3, LedgerAssumption
     DEF Held, IInv, Node, Work, Ledger, GENESIS_LEDGER_SEQ, None
<1>6. Buffer(m, heard)
  <2>1. \A t \in node.mSyncingLedgers : t \in Nat
    BY <1>1 DEF Node, Ledger, GENESIS_LEDGER_SEQ
  <2> QED
    BY <1>2, <1>3, <1>4, <2>1 DEF Buffer, IInv, Good
<1>7. WorkIn(m, heard)
  BY <1>1, <1>2, <1>3, <1>4, <1>5 DEF WorkIn, IInv, Good
<1>8. \A t \in heard : Covered(node, t) => Covered(m, t)
  BY <1>4, <1>5, CoverGrows
<1>9. Track(m, tracked)
  BY <1>2, <1>3 DEF Track
<1> QED
  BY <1>1, <1>3, <1>4, <1>6, <1>7, <1>8, <1>9, WorkStep DEF IInv, Good

(* ApplyReplayed preserves the invariant: the ledger replayed is the next. *)
LEMMA ApplyReplayedGood ==
  ASSUME IInv, ApplyReplayed
  PROVE  IInv'
<1> DEFINE old == node.mCatchupWork
           w == [old EXCEPT !.next = @ + 1]
           n == [node EXCEPT !.mCatchupWork = w]
           m == [n EXCEPT !.lcl = old.next]
<1>1. /\ node \in Node /\ old \in Work /\ old.state = "running" /\ old.phase = "apply"
      /\ old.buckets = None /\ ~HistoryApplied(old) /\ Step(closeLedger(n, old.next))
      /\ node.mState = "CATCHING_UP"
  BY DEF ApplyReplayed, Step, Running, IInv, Good, Track, Node
<1>2. /\ old.next = node.lcl + 1 /\ old.next <= old.to /\ old.applying = None
      /\ node.lcl \in Nat /\ old.to \in Ledger /\ old.to \in Nat
  BY <1>1, LedgerAssumption
     DEF HistoryApplied, IInv, Good, WorkIn, Node, Work, Ledger, GENESIS_LEDGER_SEQ, None
<1>3. /\ w \in Work /\ w.state = "running" /\ w.phase = "apply" /\ w.to = old.to
      /\ w.next = old.next + 1 /\ w.applying = None /\ w.buckets = None
  BY <1>1, <1>2 DEF Work
<1>4. old.next \in Ledger
  BY <1>2, LedgerAssumption DEF Ledger, GENESIS_LEDGER_SEQ
<1> HIDE DEF w, old
<1>5. n.lcl = node.lcl
  BY <1>1, <1>3 DEF Node
<1>6. closeLedger(n, old.next) = m
  BY <1>2, <1>5 DEF closeLedger
<1>7. /\ m \in Node /\ m.lcl = old.next /\ m.mSyncingLedgers = node.mSyncingLedgers
      /\ m.mCatchupWork = w /\ m.thrown = node.thrown /\ m.mState = "CATCHING_UP"
  BY <1>1, <1>3, <1>4, Zenon DEF Node
<1> HIDE DEF m, n
<1>8. Held(m) = Held(node) /\ Held(node) \subseteq Nat /\ heard \subseteq Nat
  BY <1>1, <1>2, <1>3, <1>7, LedgerAssumption
     DEF Held, IInv, Node, Ledger, GENESIS_LEDGER_SEQ, None, old
<1>9. Buffer(m, heard)
  <2>1. \A t \in node.mSyncingLedgers : t \in Nat /\ t > old.to /\ t # None /\ t \in heard
    BY <1>1, <1>2 DEF Node, Ledger, GENESIS_LEDGER_SEQ, IInv, Good, Buffer, old
  <2> QED
    BY <1>2, <1>3, <1>7, <2>1 DEF Buffer
<1>10. WorkIn(m, heard)
  <2>1. /\ old.to # None /\ isFirstLedgerInCheckpoint(old.to + 1)
        /\ old.to < node.lcl \/ old.to + 1 \in Held(node)
    BY <1>1 DEF WorkIn, IInv, Good, old
  <2> QED
    BY <1>2, <1>3, <1>7, <1>8, <2>1 DEF WorkIn
<1>11. \A t \in heard : Covered(node, t) => Covered(m, t)
  BY <1>2, <1>7, <1>8, CoverGrows
<1>12. Track(m, tracked) /\ m.lcl >= node.lcl
  BY <1>2, <1>3, <1>7 DEF Track
<1> QED
  BY <1>1, <1>6, <1>7, <1>9, <1>10, <1>11, <1>12, WorkStep DEF IInv, Good

(* ApplyBuffered preserves the invariant: the ledger taken steps before is *)
(* still the next one, and while SYNCED there is no gap to meet.           *)
LEMMA ApplyBufferedGood ==
  ASSUME IInv, ApplyBuffered
  PROVE  IInv'
<1> DEFINE old == node.mCatchupWork
           cleared == [old EXCEPT !.applying = None]
           n == IF old.applying = None THEN node
                ELSE [closeLedger(node, old.applying) EXCEPT !.mCatchupWork.applying = None]
           first == Min(n.mSyncingLedgers)
<1>1. /\ node \in Node /\ old \in Work /\ old.state = "running" /\ old.phase = "buffered"
      /\ old.buffered = "running" /\ node.lcl \in Nat
      /\ node.mSyncingLedgers \subseteq Nat /\ heard \subseteq Nat
      /\ heard \subseteq Ledger /\ old.to \in Nat
  BY LedgerAssumption DEF ApplyBuffered, Step, Running, IInv, Good, Node, Work,
                          Ledger, GENESIS_LEDGER_SEQ, None
<1>2. Step(CASE n.mSyncingLedgers = {} -> [n EXCEPT !.mCatchupWork.buffered = "success"]
             [] n.mSyncingLedgers # {} /\ first # n.lcl + 1 ->
                  [n EXCEPT !.mCatchupWork.buffered = "failure"]
             [] OTHER -> [n EXCEPT !.mCatchupWork.applying = first,
                                   !.mSyncingLedgers = @ \ {first}])
  BY Zenon DEF ApplyBuffered
<1>3. /\ Good(n, heard) /\ n.thrown = node.thrown /\ n.mCatchupWork = cleared
      /\ n.mState = node.mState /\ n.lcl >= node.lcl /\ n.lcl \in Nat
      /\ n.mSyncingLedgers = node.mSyncingLedgers
      /\ \A c \in Held(node) : c \in Held(n) \/ c <= n.lcl
  <2>1. CASE old.applying = None
    <3>1. cleared = old
      BY <1>1, <2>1 DEF Work
    <3> QED
      BY <1>1, <2>1, <3>1 DEF IInv
  <2>2. CASE old.applying # None
    <3> DEFINE m == [node EXCEPT !.lcl = old.applying, !.mCatchupWork = cleared]
    <3>1. old.applying = node.lcl + 1 /\ old.applying \in Ledger
      BY <1>1, <2>2 DEF IInv, Good, WorkIn, Work
    <3>2. n = m
      BY <1>1, <2>2, <3>1 DEF closeLedger, Node
    <3>3. /\ cleared \in Work /\ cleared.state = "running" /\ cleared.phase = "buffered"
          /\ cleared.to = old.to /\ cleared.applying = None
      BY <1>1 DEF Work
    <3> HIDE DEF cleared, n, old
    <3>4. /\ m \in Node /\ m.lcl = old.applying
          /\ m.mSyncingLedgers = node.mSyncingLedgers /\ m.mCatchupWork = cleared
          /\ m.thrown = node.thrown /\ m.mState = node.mState
      BY <1>1, <3>1, <3>3, Zenon DEF Node
    <3> HIDE DEF m
    <3>5. /\ Held(m) = node.mSyncingLedgers \cup {None}
          /\ Held(node) = node.mSyncingLedgers \cup {old.applying}
      BY <3>3, <3>4 DEF Held, old
    <3>6. Buffer(m, heard)
      <4>1. \A t \in node.mSyncingLedgers :
              t > node.lcl /\ t > old.to /\ t # old.applying /\ t \in heard /\ t # None
        BY <1>1 DEF IInv, Good, Buffer, old, None
      <4> QED
        BY <1>1, <3>1, <3>3, <3>4, <4>1 DEF Buffer
    <3>7. WorkIn(m, heard)
      <4>1. /\ old.to # None /\ isFirstLedgerInCheckpoint(old.to + 1)
            /\ old.to < node.lcl \/ old.to + 1 \in Held(node)
        BY <1>1 DEF WorkIn, IInv, Good, old
      <4>2. old.to < m.lcl \/ old.to + 1 \in Held(m)
        BY <1>1, <3>1, <3>4, <3>5, <4>1
      <4> QED
        BY <3>3, <3>4, <4>1, <4>2 DEF WorkIn
    <3>8. /\ m.lcl \in Nat /\ node.lcl <= m.lcl /\ Held(node) \subseteq Nat
          /\ \A c \in Held(node) : c \in Held(m) \/ c <= m.lcl
      BY <1>1, <3>1, <3>4, <3>5
    <3>9. \A t \in heard : Covered(node, t) => Covered(m, t)
      BY <1>1, <3>8, CoverGrows
    <3> QED
      BY <1>1, <3>2, <3>4, <3>6, <3>7, <3>8, <3>9 DEF IInv, Good
  <2> QED
    BY <2>1, <2>2
<1>4. /\ cleared \in Work /\ cleared.state = "running" /\ cleared.phase = "buffered"
      /\ cleared.to = old.to /\ cleared.applying = None
  BY <1>1 DEF Work
<1> HIDE DEF n, cleared, old, first
<1>5. /\ n \in Node /\ n.lcl \in Nat /\ n.mSyncingLedgers \subseteq Nat
      /\ n.mSyncingLedgers \subseteq Ledger
  BY <1>3, LedgerAssumption DEF Good, Node, Ledger, GENESIS_LEDGER_SEQ
<1>6. /\ node.mState = "SYNCED" => n.lcl + 1..tracked \subseteq Held(n)
      /\ Held(n) = n.mSyncingLedgers \cup {None} /\ cleared.to <= n.lcl /\ tracked \in Nat
  <2>1. node.mState = "SYNCED" => node.lcl + 1..tracked \subseteq Held(node)
    BY DEF IInv, Track
  <2>2. old.to <= node.lcl
    BY <1>1 DEF IInv, Track, Running, old
  <2>3. tracked \in Nat
    BY LedgerAssumption DEF IInv, Ledger, GENESIS_LEDGER_SEQ
  <2> QED
    BY <1>1, <1>3, <1>4, <2>1, <2>2, <2>3 DEF Held
<1>7. ASSUME NEW b \in {"success", "failure"}
      PROVE  LET m == [n EXCEPT !.mCatchupWork.buffered = b]
             IN  /\ Good(m, heard) /\ m.lcl = n.lcl /\ m.mState = node.mState
                 /\ m.mSyncingLedgers = n.mSyncingLedgers /\ Held(m) = Held(n)
                 /\ m.mCatchupWork.state = "running" /\ m.mCatchupWork.phase = "buffered"
                 /\ m.mCatchupWork.to = cleared.to /\ m.mCatchupWork.buffered = b
  <2> DEFINE w == [cleared EXCEPT !.buffered = b]
             m == [n EXCEPT !.mCatchupWork = w]
  <2>1. /\ w \in Work /\ w.state = "running" /\ w.phase = "buffered"
        /\ w.to = cleared.to /\ w.applying = None /\ w.buffered = b
    BY <1>4 DEF Work
  <2>2. [n EXCEPT !.mCatchupWork.buffered = b] = m
    BY <1>3
  <2> HIDE DEF w
  <2>3. /\ Good(m, heard) /\ m.lcl = n.lcl /\ m.mCatchupWork = w /\ m.mState = n.mState
        /\ m.mSyncingLedgers = n.mSyncingLedgers /\ Held(m) = Held(n)
    BY <1>3, <1>4, <2>1, SetWork
  <2> HIDE DEF m
  <2> QED
    BY <1>3, <2>1, <2>2, <2>3, Zenon
<1>8. CASE n.mSyncingLedgers = {}
  <2> DEFINE m == [n EXCEPT !.mCatchupWork.buffered = "success"]
  <2>1. Step(m)
    BY <1>2, <1>8
  <2>2. /\ Good(m, heard) /\ m.lcl = n.lcl /\ m.mState = node.mState
        /\ m.mSyncingLedgers = n.mSyncingLedgers /\ Held(m) = Held(n)
        /\ m.mCatchupWork.state = "running" /\ m.mCatchupWork.phase = "buffered"
        /\ m.mCatchupWork.to = cleared.to /\ m.mCatchupWork.buffered = "success"
    BY <1>7
  <2> HIDE DEF m
  <2>3. Track(m, tracked)
    BY <1>6, <2>2 DEF Track
  <2> QED
    BY <1>3, <2>1, <2>2, <2>3, WorkStep
<1>9. CASE n.mSyncingLedgers # {} /\ first # n.lcl + 1
  <2> DEFINE m == [n EXCEPT !.mCatchupWork.buffered = "failure"]
  <2>1. Step(m)
    BY <1>2, <1>9
  <2>2. /\ Good(m, heard) /\ m.lcl = n.lcl /\ m.mState = node.mState
        /\ m.mSyncingLedgers = n.mSyncingLedgers /\ Held(m) = Held(n)
        /\ m.mCatchupWork.state = "running" /\ m.mCatchupWork.phase = "buffered"
        /\ m.mCatchupWork.to = cleared.to /\ m.mCatchupWork.buffered = "failure"
    BY <1>7
  <2> HIDE DEF m
  <2>3. node.mState # "SYNCED"
    <3>1. first \in n.mSyncingLedgers /\ \A t \in n.mSyncingLedgers : first <= t
      BY <1>5, <1>9, MinOf DEF first
    <3>2. first \in Nat /\ first > n.lcl /\ first <= tracked
      BY <1>3, <1>5, <3>1 DEF Good, Buffer, IInv, Newest
    <3>3. n.lcl + 1 \notin n.mSyncingLedgers /\ n.lcl + 1 # None
      BY <1>5, <1>9, <3>1, <3>2 DEF None
    <3>4. n.lcl + 1 \in n.lcl + 1..tracked
      BY <1>5, <1>6, <3>2
    <3> QED
      BY <1>6, <3>3, <3>4
  <2>4. Track(m, tracked)
    BY <1>6, <1>9, <2>2, <2>3 DEF Track
  <2> QED
    BY <1>3, <2>1, <2>2, <2>4, WorkStep
<1>10. CASE n.mSyncingLedgers # {} /\ first = n.lcl + 1
  <2> DEFINE w == [cleared EXCEPT !.applying = first]
             m == [n EXCEPT !.mCatchupWork = w, !.mSyncingLedgers = @ \ {first}]
  <2>1. Step(m)
    BY <1>2, <1>3, <1>10
  <2>2. first \in n.mSyncingLedgers
    BY <1>5, <1>10, MinOf DEF first
  <2>3. first \in heard /\ first > cleared.to /\ first \in Ledger
    BY <1>3, <1>5, <2>2 DEF Good, Buffer
  <2>4. /\ w \in Work /\ w.state = "running" /\ w.phase = "buffered"
        /\ w.buffered = "running" /\ w.to = cleared.to /\ w.applying = first
    BY <1>1, <1>4, <2>3, Zenon DEF Work, cleared
  <2> HIDE DEF w
  <2>5. /\ m \in Node /\ m.lcl = n.lcl /\ m.mCatchupWork = w
        /\ m.mSyncingLedgers = n.mSyncingLedgers \ {first} /\ m.thrown = n.thrown
        /\ m.mState = node.mState
    BY <1>3, <1>5, <2>4, Zenon DEF Node
  <2> HIDE DEF m
  <2>6. Held(m) = n.mSyncingLedgers /\ Held(n) = n.mSyncingLedgers \cup {None}
    BY <1>3, <1>4, <2>2, <2>4, <2>5 DEF Held
  <2>7. Buffer(m, heard)
    BY <1>3, <2>4, <2>5 DEF Good, Buffer
  <2>8. WorkIn(m, heard)
    <3>1. /\ cleared.to # None /\ isFirstLedgerInCheckpoint(cleared.to + 1)
          /\ cleared.to < n.lcl \/ cleared.to + 1 \in Held(n)
      BY <1>3, <1>4 DEF WorkIn, Good
    <3>2. cleared.to < n.lcl \/ cleared.to + 1 \in Held(m)
      BY <1>1, <1>4, <2>6, <3>1 DEF None
    <3> QED
      BY <1>10, <2>3, <2>4, <2>5, <3>1, <3>2 DEF WorkIn
  <2>9. \A t \in heard : Covered(n, t) => Covered(m, t)
    <3>1. Held(n) \subseteq Nat /\ \A c \in Held(n) : c \in Held(m) \/ c <= m.lcl
      BY <1>5, <2>5, <2>6 DEF None
    <3> QED
      BY <1>1, <1>5, <2>5, <3>1, CoverGrows
  <2>10. Good(m, heard)
    BY <1>3, <2>5, <2>7, <2>8, <2>9 DEF Good
  <2>11. node.mState = "SYNCED" => n.lcl + 1..tracked \subseteq Held(m)
    BY <1>5, <1>6, <2>6 DEF None
  <2>12. Track(m, tracked)
    BY <1>6, <2>4, <2>5, <2>11 DEF Track, Running
  <2> QED
    BY <1>3, <2>1, <2>5, <2>10, <2>12, WorkStep
<1> QED
  BY <1>8, <1>9, <1>10

(* The steps that change only the work's status preserve the invariant.    *)
LEMMA WorkStatusGood ==
  ASSUME IInv, Download \/ FailHistory \/ DecideBuffered
  PROVE  IInv'
<1> DEFINE old == node.mCatchupWork
<1>1. /\ Good(node, heard) /\ node \in Node /\ old \in Work /\ old.state = "running"
      /\ Track(node, tracked) /\ Running(node)
      /\ old.phase # "buffered" => node.mState = "CATCHING_UP"
  BY DEF Download, FailHistory, DecideBuffered, Step, Running, IInv, Good, Track, Node
<1>2. ASSUME NEW w \in Work, Step([node EXCEPT !.mCatchupWork = w]),
             w.to = old.to, w.applying = None, old.applying = None, w.state # "none",
             w.state = "running" /\ w.phase # "buffered" =>
               old.phase # "buffered" /\ w.buckets = old.buckets /\ w.next = old.next,
             w.state = "running" /\ w.phase = "buffered" =>
               w.to <= node.lcl /\ w.buffered # "failure",
             w.state \in {"success", "failure"} /\ node.mState = "SYNCED" =>
               node.mSyncingLedgers = {}
      PROVE  IInv'
  <2> DEFINE m == [node EXCEPT !.mCatchupWork = w]
  <2>1. /\ Good(m, heard) /\ m.lcl = node.lcl /\ m.mCatchupWork = w
        /\ m.mState = node.mState /\ m.mSyncingLedgers = node.mSyncingLedgers
        /\ Held(m) = Held(node)
    BY <1>1, <1>2, SetWork
  <2>4. Step(m)
    BY <1>2
  <2> HIDE DEF m
  <2>2. Track(m, tracked)
    BY <1>1, <1>2, <2>1 DEF Track, Running
  <2>3. node.lcl \in Nat
    BY <1>1, LedgerAssumption DEF Node, Ledger, GENESIS_LEDGER_SEQ
  <2> QED
    BY <2>1, <2>2, <2>3, <2>4, WorkStep
<1>3. CASE Download
  <2> DEFINE w == [old EXCEPT !.phase = "apply"]
  <2>1. Step([node EXCEPT !.mCatchupWork = w]) /\ old.phase = "download"
    BY <1>3 DEF Download
  <2>2. /\ w \in Work /\ w.state = "running" /\ w.to = old.to /\ w.applying = old.applying
        /\ w.buckets = old.buckets /\ w.next = old.next
    BY <1>1 DEF Work
  <2>3. old.applying = None
    BY <2>1 DEF IInv, Good, WorkIn
  <2> HIDE DEF w
  <2>4. w.phase = "apply"
    BY <1>1 DEF w, Work
  <2> QED
    BY <1>2, <2>1, <2>2, <2>3, <2>4
<1>4. CASE FailHistory
  <2> DEFINE w == [old EXCEPT !.state = "failure"]
  <2>1. Step([node EXCEPT !.mCatchupWork = w]) /\ old.phase # "buffered"
    BY <1>4 DEF FailHistory
  <2>2. w \in Work /\ w.state = "failure" /\ w.to = old.to /\ w.applying = old.applying
    BY <1>1 DEF Work
  <2>3. old.applying = None
    BY <2>1 DEF IInv, Good, WorkIn
  <2> HIDE DEF w
  <2> QED
    BY <1>1, <1>2, <2>1, <2>2, <2>3
<1>5. CASE DecideBuffered
  <2> DEFINE decided == [old EXCEPT !.phase = "buffered"]
             w == CASE old.buffered = "failure" -> [decided EXCEPT !.state = "failure"]
                    [] old.buffered # "failure" /\ node.mSyncingLedgers # {} ->
                         [decided EXCEPT !.buffered = "running"]
                    [] OTHER -> [decided EXCEPT !.state = "success"]
  <2>1. /\ Step([node EXCEPT !.mCatchupWork = w])
        /\ HistoryApplied(old) \/ (old.phase = "buffered" /\ old.buffered # "running")
    BY <1>5 DEF DecideBuffered
  <2>2. old.applying = None
    BY <2>1 DEF IInv, Good, WorkIn, HistoryApplied
  <2>3. /\ decided \in Work /\ decided.state = "running" /\ decided.phase = "buffered"
        /\ decided.to = old.to /\ decided.applying = None
    BY <1>1, <2>2 DEF Work
  <2>4. \/ w = [decided EXCEPT !.state = "failure"] /\ old.buffered = "failure"
        \/ w = [decided EXCEPT !.state = "success"] /\ node.mSyncingLedgers = {}
        \/ w = [decided EXCEPT !.buffered = "running"]
    OBVIOUS
  <2> HIDE DEF w, decided
  <2>5. /\ w \in Work /\ w.phase = "buffered" /\ w.to = old.to /\ w.applying = None
        /\ \/ w.state = "failure" /\ old.buffered = "failure"
           \/ w.state = "success" /\ node.mSyncingLedgers = {}
           \/ w.state = "running" /\ w.buffered = "running"
    BY <2>3, <2>4 DEF Work
  <2>6. old.to <= node.lcl
    <3>1. CASE HistoryApplied(old)
      BY <1>1, <3>1, LedgerAssumption
         DEF HistoryApplied, Good, WorkIn, Node, Work, Ledger, GENESIS_LEDGER_SEQ, None
    <3>2. CASE old.phase = "buffered"
      BY <1>1, <3>2 DEF Track
    <3> QED
      BY <2>1, <3>1, <3>2
  <2>7. old.buffered = "failure" => node.mState # "SYNCED"
    BY <1>1 DEF Track
  <2> QED
    BY <1>2, <2>1, <2>2, <2>5, <2>6, <2>7
<1> QED
  BY <1>3, <1>4, <1>5

(* A process that starts satisfies Good and Track.                         *)
LEMMA FreshGood ==
  ASSUME NEW s \in Ledger
  PROVE  LET n == [lcl |-> s, mState |-> "BOOTING", mSyncingLedgers |-> {},
                   mCatchupWork |-> NoWork, thrown |-> "nothing"]
         IN  Good(n, {}) /\ Track(n, s) /\ s <= n.lcl
<1>1. s \in Nat
  BY LedgerAssumption DEF Ledger, GENESIS_LEDGER_SEQ
<1> DEFINE n == [lcl |-> s, mState |-> "BOOTING", mSyncingLedgers |-> {},
                 mCatchupWork |-> NoWork, thrown |-> "nothing"]
<1>2. NoWork \in Work /\ NoWork.state = "none" /\ NoWork.applying = None
  BY DEF NoWork, Work, None
<1>3. n \in Node
  BY <1>2 DEF Node
<1>4. /\ n.lcl = s /\ n.mState = "BOOTING" /\ n.mSyncingLedgers = {}
      /\ n.mCatchupWork = NoWork /\ n.thrown = "nothing"
  OBVIOUS
<1> HIDE DEF n
<1>5. Buffer(n, {})
  BY <1>4 DEF Buffer
<1>6. WorkIn(n, {})
  BY <1>2, <1>4 DEF WorkIn
<1>7. Track(n, s)
  BY <1>2, <1>4 DEF Track, Running
<1>8. Good(n, {}) /\ s <= n.lcl
  BY <1>1, <1>3, <1>4, <1>5, <1>6 DEF Good
<1> QED
  BY <1>7, <1>8, Zenon DEF n

(* The invariant holds at first.                                           *)
LEMMA InitGood == Init => IInv
<1> SUFFICES ASSUME Init PROVE IInv
  OBVIOUS
<1>1. PICK s \in FirstLedgers :
        /\ node = [lcl |-> s, mState |-> "BOOTING", mSyncingLedgers |-> {},
                   mCatchupWork |-> NoWork, thrown |-> "nothing"]
        /\ heard = {} /\ tracked = s /\ restarts = 0
  BY DEF Init
<1>2. s \in Ledger
  BY LedgerAssumption DEF Ledger, GENESIS_LEDGER_SEQ
<1> QED
  BY <1>1, <1>2, LedgerAssumption, FreshGood DEF IInv, Newest

(* Restart preserves the invariant.                                        *)
LEMMA RestartGood ==
  ASSUME IInv, Restart
  PROVE  IInv'
<1>1. node.lcl \in Ledger
  BY DEF IInv, Good, Node
<1>2. restarts' \in 0..MaxRestarts
  BY LedgerAssumption DEF IInv, Restart
<1>3. /\ heard' = {} /\ tracked' = node.lcl
      /\ node' = [lcl |-> node.lcl, mState |-> "BOOTING", mSyncingLedgers |-> {},
                  mCatchupWork |-> NoWork, thrown |-> "nothing"]
  BY DEF Restart
<1>4. Good(node', {}) /\ Track(node', node.lcl) /\ node.lcl <= node'.lcl
  BY <1>1, <1>3, FreshGood
<1>5. Good(node, heard)' /\ Track(node, tracked)'
  BY <1>3, <1>4
<1>6. Newest'
  BY <1>3, <1>4 DEF Newest
<1> QED
  BY <1>1, <1>2, <1>3, <1>5, <1>6 DEF IInv

-----------------------------------------------------------------------------
(* The invariant always holds, and with it type correctness.               *)
THEOREM Invariance == Spec => []IInv
<1>1. Init => IInv
  BY InitGood
<1>2. IInv /\ [Next]_vars => IInv'
  <2> SUFFICES ASSUME IInv, [Next]_vars
               PROVE  IInv'
    OBVIOUS
  <2>1. CASE \E s \in Ledger \ {GENESIS_LEDGER_SEQ} : valueExternalized(s)
    BY <2>1, ExternalizedGood
  <2>2. CASE Download \/ FailHistory \/ DecideBuffered
    BY <2>2, WorkStatusGood
  <2>3. CASE ApplyBuckets
    BY <2>3, ApplyBucketsGood
  <2>4. CASE ApplyReplayed
    BY <2>4, ApplyReplayedGood
  <2>5. CASE ApplyBuffered
    BY <2>5, ApplyBufferedGood
  <2>6. CASE Restart
    BY <2>6, RestartGood
  <2>7. CASE UNCHANGED vars
    BY <2>7 DEF vars, IInv, Newest
  <2> QED
    BY <2>1, <2>2, <2>3, <2>4, <2>5, <2>6, <2>7 DEF Next, runCatchupStep
<1> QED
  BY <1>1, <1>2, PTL DEF Spec

(* Each ledger is applied after the one before it and once: of the calls   *)
(* of closeLedger, by the ledger manager, by tryApplySyncingLedgers, by    *)
(* the replay of history and by ApplyBufferedLedgersWork, none throws a    *)
(* mismatch.                                                               *)
THEOREM AppliedInOrder == Spec => []InOrder
<1>1. IInv => InOrder
  BY DEF IInv, Good, InOrder
<1> QED
  BY <1>1, Invariance, PTL

(* The buffer keeps what is needed and only that: what it holds is beyond  *)
(* the last closed ledger and the target of a running catchup, and a       *)
(* decided ledger is applied, at hand, or below a checkpoint at hand:      *)
(* trimming, popping and restarting a catchup lose none.                   *)
THEOREM NothingLost == Spec => []Kept
<1>1. IInv => Kept
  BY DEF IInv, Good, Buffer, Covered, Held, Kept
<1> QED
  BY <1>1, Invariance, PTL

(* When the ledger manager says SYNCED, every ledger up to the herder's    *)
(* slot is closed or at hand.                                              *)
THEOREM NoneMissingWhenSynced == Spec => []NoneMissing
<1>1. IInv => NoneMissing
  BY DEF IInv, Track, Held, NoneMissing
<1> QED
  BY <1>1, Invariance, PTL
=============================================================================
