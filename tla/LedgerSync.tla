----------------------------- MODULE LedgerSync -----------------------------
(***************************************************************************)
(* How a node keeps its ledger in step with the network: the ledger        *)
(* manager closes each ledger consensus has decided if it is the next one, *)
(* the catchup manager buffers those that come too early, and catchup work *)
(* brings the missing ones from history and then applies the buffered      *)
(* ones, in steps between which consensus may decide further ledgers.      *)
(*                                                                         *)
(* A ledger is its sequence number.  Consensus decides each slot once in   *)
(* the life of a process, in any order, and may leave slots out.           *)
(***************************************************************************)
EXTENDS Integers, FiniteSets, FiniteSetsExt

CONSTANTS
  MaxLedger,       \* the last ledger (a bound)
  Freq,            \* getCheckpointFrequency()
  CatchupCounts,   \* the values of getCatchupCount(): a setting
  FirstLedgers,    \* the last closed ledgers a node may start with
  MaxRestarts      \* how often the process restarts (a bound)

ASSUME LedgerAssumption ==
  MaxLedger \in Nat /\ Freq \in Nat \ {0, 1} /\ CatchupCounts \subseteq Nat
    /\ FirstLedgers \subseteq 1..MaxLedger /\ MaxRestarts \in Nat

VARIABLES
  node,      \* the ledger manager and the catchup manager, see Node
  heard,     \* the slots that consensus has decided since the start
  tracked,   \* the latest of them, or the ledger of the start
  restarts   \* how often the process has been restarted

vars == <<node, heard, tracked, restarts>>

GENESIS_LEDGER_SEQ == 1
Ledger == GENESIS_LEDGER_SEQ..MaxLedger
None == 0

(* CatchupWork: replay from next up to `to`, before that the buckets of a  *)
(* ledger unless buckets is None.  buffered is the state of                *)
(* ApplyBufferedLedgersWork, applying the ledger it has taken to apply.    *)
Work == [state : {"none", "running", "success", "failure"},
         phase : {"download", "apply", "buffered"},
         to : Ledger \cup {None}, buckets : Ledger \cup {None}, next : Nat,
         buffered : {"none", "running", "success", "failure"},
         applying : Ledger \cup {None}]
NoWork == [state |-> "none", phase |-> "download", to |-> None, buckets |-> None,
           next |-> None, buffered |-> "none", applying |-> None]

Node == [lcl : Ledger, mState : {"BOOTING", "SYNCED", "CATCHING_UP"},
         mSyncingLedgers : SUBSET Ledger, mCatchupWork : Work,
         thrown : {"nothing", "mismatch", "target"}]

TypeOK ==
  /\ node \in Node
  /\ heard \subseteq Ledger /\ tracked \in Ledger /\ restarts \in 0..MaxRestarts

-----------------------------------------------------------------------------
(* HistoryManager: checkpoints.                                            *)
checkpointContainingLedger(s) == (s \div Freq + 1) * Freq - 1
sizeOfCheckpointContaining(s) == IF s < Freq THEN Freq - 1 ELSE Freq
firstLedgerInCheckpointContaining(s) ==
  checkpointContainingLedger(s) - (sizeOfCheckpointContaining(s) - 1)
isFirstLedgerInCheckpoint(s) == firstLedgerInCheckpointContaining(s) = s
isLastLedgerInCheckpoint(s) == checkpointContainingLedger(s) = s
lastLedgerBeforeCheckpointContaining(s) ==
  checkpointContainingLedger(s) - sizeOfCheckpointContaining(s)

(* Which buckets to apply, and where to replay from.                       *)
calculateCatchupRange(lcl, to, count) ==
  LET targetStart == to - count + 1
      replay(from) == [buckets |-> None, next |-> from]
      at(b) == [buckets |-> b, next |-> b + 1]
  IN  CASE lcl > GENESIS_LEDGER_SEQ \/ count >= to - lcl -> replay(lcl + 1)
        [] lcl = GENESIS_LEDGER_SEQ /\ count = 0 /\ isLastLedgerInCheckpoint(to) -> at(to)
        [] OTHER ->
             IF firstLedgerInCheckpointContaining(targetStart) = GENESIS_LEDGER_SEQ
             THEN replay(lcl + 1)
             ELSE at(lastLedgerBeforeCheckpointContaining(targetStart))

Running(n) == n.mCatchupWork.state = "running"

closeLedger(n, s) ==
  IF s = n.lcl + 1 THEN [n EXCEPT !.lcl = s] ELSE [n EXCEPT !.thrown = "mismatch"]

closeLedgerIfNext(n, s) ==
  CASE s = n.lcl + 1 -> closeLedger(n, s)
    [] s <= n.lcl -> n
    [] OTHER -> [n EXCEPT !.mState = "CATCHING_UP"]
closeLedgerIf(n, s) ==
  CASE s = n.lcl + 1 -> IF Running(n) THEN n ELSE closeLedger(n, s)
    [] s <= n.lcl -> n
    [] OTHER -> [n EXCEPT !.mState = "CATCHING_UP"]

-----------------------------------------------------------------------------
Firsts(n) == {s \in n.mSyncingLedgers : isFirstLedgerInCheckpoint(s)}

(* Drops the buffered ledgers below s.                                     *)
EraseBelow(n, s) == [n EXCEPT !.mSyncingLedgers = {t \in @ : t >= s}]

trimPastCheckpoint(n) ==
  IF Firsts(n) = {} THEN n ELSE EraseBelow(n, Max(Firsts(n)) + 1)
trimWithoutCheckpoint(n) ==
  IF Firsts(n) = {} THEN [n EXCEPT !.mSyncingLedgers = {}]
  ELSE EraseBelow(n, Max(Firsts(n)))
trimSyncingLedgers(n) == IF Firsts(n) = {} THEN n ELSE EraseBelow(n, Max(Firsts(n)))

trimAndReset(n) == trimSyncingLedgers([n EXCEPT !.mCatchupWork = NoWork])

(* Closes the buffered ledgers from the next one up to the first gap.      *)
tryApplySyncingLedgers(n) ==
  LET run == {s \in n.mSyncingLedgers : n.lcl + 1..s \subseteq n.mSyncingLedgers}
  IN  IF n.mSyncingLedgers = {} \/ Min(n.mSyncingLedgers) # n.lcl + 1 THEN n
      ELSE [n EXCEPT !.lcl = Max(run), !.mSyncingLedgers = @ \ run]

startOnlineCatchup(n, count) ==
  LET to == Min(n.mSyncingLedgers) - 1
      range == calculateCatchupRange(n.lcl, to, count)
  IN  IF to <= n.lcl THEN [n EXCEPT !.thrown = "target"]
      ELSE [n EXCEPT !.mCatchupWork =
              [NoWork EXCEPT !.state = "running", !.to = to,
                             !.buckets = range.buckets, !.next = range.next]]

processLedger(old, s, count) ==
  LET n == IF old.mCatchupWork.state \in {"success", "failure"}
           THEN trimAndReset(old) ELSE old
      buffered == [n EXCEPT !.mSyncingLedgers = @ \cup {s}]
      first == Min(Firsts(buffered))
  IN  CASE n.mCatchupWork = NoWork /\ s = n.lcl -> tryApplySyncingLedgers(n)
        [] s <= n.lcl /\ ~(n.mCatchupWork = NoWork /\ s = n.lcl) -> n
        [] s > n.lcl /\ n.mCatchupWork # NoWork ->
             IF s <= n.mCatchupWork.to THEN n ELSE buffered
        [] OTHER ->
             IF Firsts(buffered) # {} /\ first < Max(buffered.mSyncingLedgers)
             THEN startOnlineCatchup(EraseBelow(buffered, first), count)
             ELSE buffered

-----------------------------------------------------------------------------
(* Consensus decides slot s.  An exception ends the process.               *)
valueExternalized(s) ==
  /\ node.thrown = "nothing" /\ s \notin heard
  /\ heard' = heard \cup {s}
  /\ tracked' = Max({tracked, s})
  /\ \E count \in CatchupCounts :
       LET n == processLedger(closeLedgerIf(node, s), s, count)
       IN  node' = IF n.thrown = "nothing" /\ n.mSyncingLedgers = {}
                   THEN [n EXCEPT !.mState = "SYNCED"] ELSE n
  /\ UNCHANGED restarts

(* A step of CatchupWork.                                                  *)
Step(n) ==
  /\ node.thrown = "nothing" /\ Running(node)
  /\ node' = n
  /\ UNCHANGED <<heard, tracked, restarts>>

(* All of the range is applied: the sequence of works for it is done.      *)
HistoryApplied(w) == w.phase = "apply" /\ w.buckets = None /\ w.next > w.to

(* History has been downloaded and verified.                               *)
Download ==
  /\ node.mCatchupWork.phase = "download"
  /\ Step([node EXCEPT !.mCatchupWork.phase = "apply"])

ApplyBuckets ==
  /\ node.mCatchupWork.phase = "apply" /\ node.mCatchupWork.buckets # None
  /\ Step([node EXCEPT !.lcl = node.mCatchupWork.buckets, !.mCatchupWork.buckets = None])

ApplyReplayed ==
  LET w == node.mCatchupWork
  IN  /\ w.phase = "apply" /\ w.buckets = None /\ ~HistoryApplied(w)
      /\ Step(closeLedger([node EXCEPT !.mCatchupWork.next = @ + 1], w.next))

(* History cannot be had, or is wrong.                                     *)
FailHistory ==
  /\ node.mCatchupWork.phase \in {"download", "apply"} /\ ~HistoryApplied(node.mCatchupWork)
  /\ Step([node EXCEPT !.mCatchupWork.state = "failure"])

(* With history applied and no other work left, looks for buffered ledgers.*)
DecideBufferedOnce ==
  LET w == node.mCatchupWork
  IN  /\ \/ HistoryApplied(w)
         \/ w.phase = "buffered" /\ w.buffered # "running"
      /\ Step([node EXCEPT !.mCatchupWork =
           IF w.phase = "apply" THEN [w EXCEPT !.phase = "buffered", !.buffered = "running"]
           ELSE [w EXCEPT !.state = w.buffered]])
DecideBuffered ==
  LET w == node.mCatchupWork
      decided == [w EXCEPT !.phase = "buffered"]
  IN  /\ \/ HistoryApplied(w)
         \/ w.phase = "buffered" /\ w.buffered # "running"
      /\ Step([node EXCEPT !.mCatchupWork =
           CASE w.buffered = "failure" -> [decided EXCEPT !.state = "failure"]
             [] w.buffered # "failure" /\ node.mSyncingLedgers # {} ->
                  [decided EXCEPT !.buffered = "running"]
             [] OTHER -> [decided EXCEPT !.state = "success"]])

(* ApplyBufferedLedgersWork: closes the ledger it took, takes the next.    *)
ApplyBuffered ==
  LET w == node.mCatchupWork
      n == IF w.applying = None THEN node
           ELSE [closeLedger(node, w.applying) EXCEPT !.mCatchupWork.applying = None]
      first == Min(n.mSyncingLedgers)
  IN  /\ w.phase = "buffered" /\ w.buffered = "running"
      /\ Step(CASE n.mSyncingLedgers = {} ->
                     [n EXCEPT !.mCatchupWork.buffered = "success"]
                [] n.mSyncingLedgers # {} /\ first # n.lcl + 1 ->
                     [n EXCEPT !.mCatchupWork.buffered = "failure"]
                [] OTHER -> [n EXCEPT !.mCatchupWork.applying = first,
                                      !.mSyncingLedgers = @ \ {first}])

(* The process ends, or has ended by an exception, and starts from its     *)
(* last closed ledger; consensus may decide any slot again.                *)
Restart ==
  /\ restarts < MaxRestarts
  /\ restarts' = restarts + 1
  /\ heard' = {} /\ tracked' = node.lcl
  /\ node' = [lcl |-> node.lcl, mState |-> "BOOTING", mSyncingLedgers |-> {},
              mCatchupWork |-> NoWork, thrown |-> "nothing"]

Init ==
  \E s \in FirstLedgers :
    /\ node = [lcl |-> s, mState |-> "BOOTING", mSyncingLedgers |-> {},
               mCatchupWork |-> NoWork, thrown |-> "nothing"]
    /\ heard = {} /\ tracked = s /\ restarts = 0

runCatchupStep ==
  Download \/ ApplyBuckets \/ ApplyReplayed \/ DecideBuffered \/ ApplyBuffered

Next ==
  \/ \E s \in Ledger \ {GENESIS_LEDGER_SEQ} : valueExternalized(s)
  \/ runCatchupStep
  \/ FailHistory
  \/ Restart

(* The work scheduler cranks a work for as long as it is not done.         *)
Spec == Init /\ [][Next]_vars /\ WF_vars(runCatchupStep)

-----------------------------------------------------------------------------
(* Each ledger is applied after the one before it and once, though four    *)
(* parts of the code call closeLedger, one of them with a ledger it took   *)
(* steps before: none throws "txset mismatch".                             *)
InOrder == node.thrown # "mismatch"

(* The buffer keeps what is needed, and only that.  What is in it is still *)
(* to be applied: a ledger at or below the last closed one would stay      *)
(* first in mSyncingLedgers and make tryApplySyncingLedgers and            *)
(* ApplyBufferedLedgersWork find a gap for good.  And processLedger,       *)
(* trimSyncingLedgers and popBufferedLedger let go of a decided ledger     *)
(* only when it is applied, being applied, or below a checkpoint that is   *)
(* still buffered, to which a catchup will lead.                           *)
Kept ==
  LET held == node.mSyncingLedgers \cup {node.mCatchupWork.applying}
  IN  /\ \A s \in node.mSyncingLedgers :
           s > node.lcl /\ s > node.mCatchupWork.to /\ s # node.mCatchupWork.applying
      /\ node.thrown = "nothing" => \A s \in heard :
           \/ s <= node.lcl \/ s \in held
           \/ \E c \in held : s < c /\ isFirstLedgerInCheckpoint(c)

(* When the ledger manager says it is synced, on which the herder proposes *)
(* values, no ledger up to the one the herder tracks is missing: all are   *)
(* closed, or, at worst, still with a catchup that applies them.           *)
NoneMissing == node.mState = "SYNCED" =>
  node.lcl + 1..tracked
    \subseteq node.mSyncingLedgers \cup {node.mCatchupWork.applying}

(* When the ledger manager says it is synced it has closed what the herder *)
(* tracks.  HerderImpl::valueExternalized says so ("If LM applied them     *)
(* all, Herder and LM must now be consistent with each other (i.e., track  *)
(* the same ledger)"), on the strength of LedgerManagerImpl's "if catchup  *)
(* is running or waiting to run, buffered ledgers are never empty".        *)
SameLedger == node.mState = "SYNCED" => node.lcl = tracked

(* While catchup runs, the ledgers in hand without a gap after its target  *)
(* are all applied in the end, also those that arrive as it applies the    *)
(* last ones, unless history fails, the process ends, or                   *)
(* ApplyBufferedLedgersWork has already met a gap.                         *)
Drains == \A s \in Ledger, r \in 0..MaxRestarts :
  /\ Running(node) /\ restarts = r
  /\ node.mCatchupWork.buffered # "failure"
  /\ \A t \in node.mCatchupWork.to + 1..s :
       t <= node.lcl \/ t \in node.mSyncingLedgers \cup {node.mCatchupWork.applying}
  ~> \/ node.lcl >= s \/ restarts # r
     \/ node.mCatchupWork.state = "failure" /\ node.mCatchupWork.phase # "buffered"

(* startCatchup refuses a target that is not newer than the last closed    *)
(* ledger; the catchup manager never asks for one.                         *)
TargetNewer == node.thrown # "target"
=============================================================================
