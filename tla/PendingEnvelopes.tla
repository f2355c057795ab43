-------------------------- MODULE PendingEnvelopes --------------------------
(***************************************************************************)
(* The way of envelopes from the peers to SCP, at one node: an envelope    *)
(* waits until its quorum set and its transaction sets are known, then it  *)
(* is ready, and SCP gets it when its slot is next or past.  Closing a     *)
(* slot makes the oldest slots fall off.                                   *)
(*                                                                         *)
(* Two loops take several steps, during which nothing else happens: the    *)
(* one of ItemFetcher::recv over the envelopes that waited for an item     *)
(* (receiving) and the one of processSCPQueueUpToIndex (upTo).  In the     *)
(* latter SCP may close a slot, under the feet of the former.              *)
(***************************************************************************)
EXTENDS ItemFetcher

CONSTANTS
  QSet, TxSet,   \* the items, by their hashes
  Needs,         \* Needs[e]: the quorum set and the transaction sets of e
  LocalQSet,     \* the node's own quorum set
  Sane,          \* the quorum sets that isQuorumSetSane accepts
  Has,           \* Has[p]: the items p can send
  MaxSlots,      \* MAX_SLOTS_TO_REMEMBER
  FirstSlot      \* the slot that is next when the node is ready

GENESIS_LEDGER_SEQ == 1

Item == QSet \cup TxSet
NoItem == "none"

ASSUME ItemAssumption ==
  /\ QSet \cap TxSet = {} /\ NoItem \notin Item
  /\ Needs \in [Env -> SUBSET Item] /\ Sane \subseteq QSet
  /\ LocalQSet \in Sane
  /\ \A e \in Env : Needs[e] # {}
  /\ Has \in [Peer -> SUBSET Item]
ASSUME SlotAssumption == MaxSlots \in Nat \ {0} /\ FirstSlot \in Nat \ {0}

VARIABLES
  tracker,    \* tracker[i]: the tracker of item i, in its kind's fetcher
  known,      \* the items in mKnownQSets and mKnownTxSets that still exist
  cached,     \* cached[i]: the slot mTxSetCache has transaction set i for, or -1
  fetching, processed, ready, discarded,   \* of all slots in mEnvelopes
  delivered,  \* the envelopes SCP has received so far
  next,       \* nextConsensusLedgerIndex
  receiving,  \* the item whose waiting envelopes recv goes through, or NoItem
  upTo,       \* the slot that processSCPQueueUpToIndex has to reach, or 0
  more,       \* the same of the last posted processSCPQueueSomeMore, or 0
  trigger,    \* whether mTriggerTimer is armed
  purge,      \* the posted calls of stopFetchingBelowInternal: a slot each, or 0
  refused     \* history: the envelopes that came back from the fetchers and
              \* were refused, and have not been accepted since

envelopes == <<fetching, processed, ready, discarded, delivered>>
vars == <<tracker, known, cached, envelopes, next, receiving, upTo,
          more, trigger, purge, refused>>

Kind(i) == IF i \in QSet THEN "qset" ELSE "txset"

TypeOK ==
  /\ tracker \in [Item -> Tracker]
  /\ known \subseteq Item
  /\ cached \in [TxSet -> Nat \cup {-1}]
  /\ fetching \subseteq Env /\ processed \subseteq Env /\ ready \subseteq Env
  /\ discarded \subseteq Env /\ delivered \subseteq Env
  /\ refused \subseteq Env
  /\ next \in Nat /\ upTo \in Nat /\ more \in Nat
  /\ receiving \in Item \cup {NoItem}
  /\ trigger \in BOOLEAN
  /\ purge \in [{"qset", "txset"} -> Nat]

(* The oldest slot the node remembers when curr is getCurrentLedgerSeq.    *)
getMinLedgerSeqToRemember(curr) ==
  IF curr > MaxSlots THEN curr - MaxSlots + 1 ELSE GENESIS_LEDGER_SEQ
Oldest == getMinLedgerSeqToRemember(next - 1)

Poppable(slot) == {e \in ready : SlotOf[e] <= slot}
Idle == receiving = NoItem /\ Poppable(upTo) = {}

-----------------------------------------------------------------------------
(* What startFetch may leave as the trackers of the missing items.         *)
startFetch(e, tr, missing) ==
  {f \in [missing -> UNION {fetch(tr[i], e) : i \in missing}] :
     \A i \in missing : f[i] \in fetch(tr[i], e)}

(* touchFetchCache: known sets are cached for the later slot.              *)
Later(a, b) == IF a > b THEN a ELSE b
touchFetchCache(e) ==
  cached' = [i \in TxSet |->
    IF i \in Needs[e] \cap known THEN Later(cached[i], SlotOf[e]) ELSE cached[i]]

(* Herder ignores slots below the oldest one it remembers.                 *)
InRangeAny(e) == TRUE
InRange(e) == SlotOf[e] >= Oldest

AlreadyReady(e) == e \in ready
Already(e) == e \in processed \ fetching

isFullyFetched(e) == Needs[e] \subseteq known

(* Herder or PendingEnvelopes may refuse e whatever came before: its close *)
(* time is judged by the clock and by the last close time, its slot by how *)
(* far the node is, its author by the quorum tracker.  These are not       *)
(* modelled, so any envelope may be refused at any time.  An envelope that *)
(* was being fetched and is on no tracker in tr now waits for nothing.     *)
Refuse(e, tr) ==
  /\ tracker' = tr
  /\ refused' = refused \cup
       {x \in fetching \cap {e} : \A i \in Item : x \notin tr[i].waiting}
  /\ UNCHANGED <<cached, envelopes, upTo>>

Accept(e, tr) ==
  LET missing == Needs[e] \ known
  IN  /\ InRange(e) /\ e \notin discarded
      /\ touchFetchCache(e) /\ refused' = refused \ {e}
      /\ \/ /\ Already(e)
            /\ tracker' = tr
            /\ UNCHANGED <<envelopes, upTo>>
         \/ /\ ~Already(e) /\ isFullyFetched(e)
            /\ tracker' = tr
            /\ processed' = processed \cup {e} /\ fetching' = fetching \ {e}
            /\ ready' = ready \cup {e} /\ upTo' = next
            /\ UNCHANGED <<discarded, delivered>>
         \/ /\ ~Already(e) /\ ~isFullyFetched(e)
            /\ fetching' = fetching \cup {e}
            /\ \E f \in startFetch(e, tr, missing) :
                 tracker' = [i \in Item |-> IF i \in missing THEN f[i] ELSE tr[i]]
            /\ UNCHANGED <<processed, ready, discarded, delivered, upTo>>

(* Herder's and PendingEnvelopes' recvSCPEnvelope, with trackers tr.       *)
recvSCPEnvelope(e, tr) == Refuse(e, tr) \/ Accept(e, tr)

ReceiveEnvelope(e) ==
  /\ Idle /\ recvSCPEnvelope(e, tracker)
  /\ UNCHANGED <<known, next, receiving, more, trigger, purge>>

-----------------------------------------------------------------------------
(* What the cache forgets when the slots below oldest fall off; a set of a *)
(* slot that is not known (0) stays.                                       *)
EvictedOldest(i, oldest) == cached[i] # 0 /\ cached[i] <= oldest
Evicted(i, oldest) == cached[i] # 0 /\ cached[i] < oldest

(* SCP closes the next slot with e.                                        *)
ValueExternalized(e) ==
  LET oldest == getMinLedgerSeqToRemember(next)
      Keep(S) == {x \in S : SlotOf[x] >= oldest}
  IN  /\ SlotOf[e] = next
      /\ next' = next + 1 /\ more' = next + 1 /\ trigger' = TRUE
      /\ fetching' = Keep(fetching) /\ processed' = Keep(processed)
      /\ ready' = Keep(ready \ {e}) /\ discarded' = Keep(discarded)
      /\ purge' = IF next > MaxSlots THEN [k \in DOMAIN purge |-> oldest] ELSE purge
      /\ cached' = [i \in TxSet |-> IF Evicted(i, oldest) THEN -1 ELSE cached[i]]

(* SCP gets the ready envelopes, of the lowest slot first.  A transaction  *)
(* set goes once neither the cache nor an envelope that is ready or that   *)
(* SCP has kept holds it.                                                  *)
Pop ==
  \E e \in Poppable(upTo) :
    /\ \A x \in Poppable(upTo) : SlotOf[e] <= SlotOf[x]
    /\ \/ ValueExternalized(e)
       \/ /\ ready' = ready \ {e}
          /\ UNCHANGED <<fetching, processed, discarded, next, more, trigger, purge, cached>>
    /\ delivered' = delivered \cup {e}
    /\ \E kept \in SUBSET {x \in delivered' : SlotOf[x] >= Oldest'} :
         known' = {i \in known : \/ i \in QSet
                                 \/ i \in TxSet /\ cached'[i] # -1
                                 \/ \E x \in ready' \cup kept : i \in Needs[x]}
    /\ UNCHANGED <<tracker, receiving, upTo, refused>>

processSCPQueueSomeMore ==
  /\ Idle /\ more # 0
  /\ upTo' = more /\ more' = 0
  /\ UNCHANGED <<tracker, known, cached, envelopes, next, receiving, trigger,
                 purge, refused>>

(* stopFetchingBelowInternal of a fetcher, from the top of the stack.      *)
stopFetchingBelowInternal(k) ==
  /\ Idle /\ purge[k] # 0
  /\ tracker' = [i \in Item |-> IF Kind(i) = k
                                THEN clearEnvelopesBelow(tracker[i], purge[k])
                                ELSE tracker[i]]
  /\ purge' = [purge EXCEPT ![k] = 0]
  /\ UNCHANGED <<known, cached, envelopes, next, receiving, upTo, more, trigger,
                 refused>>

-----------------------------------------------------------------------------
(* An item becomes known, and whoever waits for it is handled next.        *)
addItem(i, slot) ==
  /\ known' = known \cup {i}
  /\ cached' = [j \in TxSet |-> IF j = i THEN Later(cached[j], slot) ELSE cached[j]]
  /\ receiving' = IF tracker[i].on THEN i ELSE NoItem
  /\ UNCHANGED <<tracker, envelopes>>

DiscardLeavesFetching(q) ==
  LET gone == tracker[q].waiting \ discarded
  IN  /\ discarded' = discarded \cup gone
      /\ tracker' = [i \in Item |->
                       stopFetch(tracker[i], {e \in gone : i \in Needs[e]})]
      /\ UNCHANGED <<known, cached, fetching, processed, ready, delivered, receiving>>
discardSCPEnvelopesWithQSet(q) ==
  LET gone == tracker[q].waiting \ discarded
  IN  /\ discarded' = discarded \cup gone
      /\ fetching' = fetching \ gone
      /\ tracker' = [i \in Item |->
                       stopFetch(tracker[i], {e \in gone : i \in Needs[e]})]
      /\ UNCHANGED <<known, cached, processed, ready, delivered, receiving>>

(* recvTxSet and recvSCPQuorumSet, of an item from any peer, asked or not; *)
(* an item that nobody waits for is dropped.                               *)
ReceiveItem(i) ==
  /\ Idle /\ tracker[i].seen # 0
  /\ \/ i \in TxSet \cup Sane /\ addItem(i, tracker[i].seen)
     \/ i \in QSet \ Sane /\ discardSCPEnvelopesWithQSet(i)
  /\ UNCHANGED <<next, upTo, more, trigger, purge, refused>>

(* The node proposes a transaction set for the next slot, once.            *)
triggerNextLedger(i) ==
  /\ Idle /\ i \in TxSet /\ trigger
  /\ trigger' = FALSE
  /\ addItem(i, next)
  /\ UNCHANGED <<next, upTo, more, purge, refused>>

(* One turn of the loop of ItemFetcher::recv.                              *)
recv ==
  LET i == receiving
  IN  /\ i # NoItem /\ Poppable(upTo) = {}
      /\ \/ /\ \E e \in tracker[i].waiting :
                 recvSCPEnvelope(e, [tracker EXCEPT ![i].waiting = @ \ {e}])
            /\ UNCHANGED receiving
         \/ /\ tracker[i].waiting = {}
            /\ tracker' = [tracker EXCEPT ![i] = cancel(@)]
            /\ receiving' = NoItem
            /\ UNCHANGED <<cached, envelopes, upTo, refused>>
      /\ UNCHANGED <<known, next, more, trigger, purge>>

-----------------------------------------------------------------------------
(* The timer fires, or the peer that was asked last does not have the item *)
(* (which it may say long after).                                          *)
TryNextPeer(i) ==
  /\ Idle
  /\ \E t \in tryNextPeer(tracker[i]) : tracker' = [tracker EXCEPT ![i] = t]
  /\ UNCHANGED <<known, cached, envelopes, next, receiving, upTo, more, trigger,
                 purge, refused>>

TimerFires(i) == tracker[i].timer /\ TryNextPeer(i)

doesntHave(i, p) == tracker[i].last = p /\ i \notin Has[p] /\ TryNextPeer(i)

Init ==
  /\ tracker = [i \in Item |-> NoTracker]
  /\ known = {LocalQSet} /\ cached = [i \in TxSet |-> -1]
  /\ fetching = {} /\ processed = {} /\ ready = {} /\ discarded = {} /\ delivered = {}
  /\ next = FirstSlot /\ receiving = NoItem /\ upTo = 0 /\ more = 0 /\ trigger = TRUE
  /\ purge = [k \in {"qset", "txset"} |-> 0]
  /\ refused = {}

Next ==
  \/ \E e \in Env : ReceiveEnvelope(e)
  \/ Pop \/ processSCPQueueSomeMore \/ recv
  \/ \E k \in {"qset", "txset"} : stopFetchingBelowInternal(k)
  \/ \E i \in Item : triggerNextLedger(i) \/ TimerFires(i) \/ ReceiveItem(i)
  \/ \E i \in Item, p \in Peer : doesntHave(i, p)

Spec == Init /\ [][Next]_vars

(* The main thread goes on with its loops and serves the timers, and a     *)
(* peer that is asked again and again for an item it has sends it once.    *)
FairSpec ==
  /\ Spec /\ WF_vars(Pop) /\ WF_vars(recv)
  /\ \A i \in Item \ {LocalQSet} :
       /\ WF_vars(TimerFires(i))
       /\ SF_vars(/\ \E p \in Peer : tracker[i].last = p /\ i \in Has[p]
                  /\ ReceiveItem(i))

-----------------------------------------------------------------------------
(* An envelope waits just as long as it lacks an item.  One wake-up may be *)
(* lost: ItemFetcher::recv takes an envelope off its tracker, and if       *)
(* recvSCPEnvelope now refuses it, it stays in mFetchingEnvelopes and      *)
(* waits for nothing until a peer sends it again.  No other is: whatever   *)
(* slots were closed and items evicted or found bad since it came, an      *)
(* envelope that is being fetched waits for an item.  No answer is refused *)
(* while somebody waits for it: recvTxSet and recvSCPQuorumSet take an     *)
(* item only if getLastSeenSlotIndex is not 0.  And SCP gets envelopes     *)
(* with all their items, as wrapEnvelope requires.                         *)
Awaited ==
  /\ TypeOK
  /\ \A e \in fetching \ refused : \E i \in Needs[e] : e \in tracker[i].waiting
  /\ \A i \in Item : tracker[i].waiting # {} => tracker[i].on /\ tracker[i].seen # 0
  /\ \A e \in ready : Needs[e] \subseteq known

(* What was dropped stays so: late items and posted tasks bring back no    *)
(* envelope of a slot that fell off, and a discarded envelope keeps no     *)
(* search alive and is not handed to SCP.                                  *)
Dropped ==
  /\ \A e \in fetching \cup processed \cup ready : SlotOf[e] >= Oldest
  /\ \A e \in discarded :
       /\ e \notin fetching \cup processed \cup ready
       /\ \A i \in Item : e \notin tracker[i].waiting

(* The loop of recv ends: the item it goes through stays known while       *)
(* envelopes that need it wait, although slots may be closed within it.    *)
LoopEnds == receiving # NoItem =>
  \A e \in tracker[receiving].waiting : receiving \in known \/ SlotOf[e] < Oldest

(* SCP gets an envelope at most once, in spite of duplicates, of slots     *)
(* that fall off with what is known of their envelopes, and of re-entry.   *)
DeliveredOnce ==
  [][\A e \in ready \ ready' : e \notin delivered]_vars

(* Whoever waits while the item is asked for is served, unless the slot    *)
(* is over: lost answers, peers without the item and late answers leave    *)
(* no peer out for good.                                                   *)
Served == \A i \in Item \ {LocalQSet} : \A e \in {x \in Env : i \in Needs[x]} :
  (tracker[i].timer /\ e \in tracker[i].waiting) ~> e \notin tracker[i].waiting
=============================================================================
