----------------------- MODULE PendingEnvelopesProofs -----------------------
(***************************************************************************)
(* The safety properties of PendingEnvelopes, for any envelopes, items,    *)
(* peers and slots, and any number of remembered slots.                    *)
(***************************************************************************)
EXTENDS PendingEnvelopes, TLAPS

-----------------------------------------------------------------------------
(* Trackers.                                                               *)

(* u is t as far as those who wait are concerned.                          *)
SameWaiting(t, u) ==
  u \in Tracker /\ u.waiting = t.waiting /\ u.on = t.on /\ u.seen = t.seen

(* Asking another peer changes neither who waits nor what was seen.        *)
LEMMA TryNextPeerFacts ==
  ASSUME NEW t \in Tracker, NEW u \in tryNextPeer(t)
  PROVE  SameWaiting(t, u)
<1>1. ASSUME NEW p \in Peer, NEW how \in {"asked", "claimed"}
      PROVE  SameWaiting(t, ask(t, p, how))
  BY Zenon DEF SameWaiting, ask, Tracker
<1>2. SameWaiting(t, [t EXCEPT !.timer = TRUE, !.last = NoPeer, !.asked = NotAsked])
  BY Zenon DEF SameWaiting, Tracker, NotAsked
<1>3. QED BY <1>1, <1>2 DEF tryNextPeer

(* u is t with e among those who wait.                                     *)
Listening(t, e, u) ==
  /\ u \in Tracker /\ u.waiting = t.waiting \cup {e} /\ u.on
  /\ u.seen >= t.seen /\ u.seen >= SlotOf[e]

(* After listen, e waits.                                                  *)
LEMMA ListenFacts ==
  ASSUME NEW t \in Tracker, NEW e \in Env
  PROVE  Listening(t, e, listen(t, e))
<1>1. SlotOf[e] \in Nat /\ t.seen \in Nat
  BY EnvAssumption DEF Tracker
<1> DEFINE seen == IF SlotOf[e] > t.seen THEN SlotOf[e] ELSE t.seen
<1>2. seen \in Nat /\ seen >= t.seen /\ seen >= SlotOf[e]
  BY <1>1
<1>3. t.waiting \cup {e} \in SUBSET Env
  BY DEF Tracker
<1>4. ASSUME NEW W \in SUBSET Env, NEW k \in Nat
      PROVE  LET u == [t EXCEPT !.on = TRUE, !.waiting = W, !.seen = k] IN
             u \in Tracker /\ u.on /\ u.waiting = W /\ u.seen = k
  BY Zenon DEF Tracker
<1>5. listen(t, e) =
        [t EXCEPT !.on = TRUE, !.waiting = t.waiting \cup {e}, !.seen = seen]
  BY Zenon DEF listen
<1> HIDE DEF seen
<1> DEFINE W == t.waiting \cup {e}
           u == [t EXCEPT !.on = TRUE, !.waiting = W, !.seen = seen]
<1>6. u \in Tracker /\ u.on /\ u.waiting = W /\ u.seen = seen
  BY <1>2, <1>3, <1>4, Zenon
<1>7. listen(t, e) = u
  BY <1>5
<1> HIDE DEF u
<1>8. QED BY <1>2, <1>6, <1>7 DEF Listening

(* After fetch, e waits.                                                   *)
LEMMA FetchFacts ==
  ASSUME NEW t \in Tracker, NEW e \in Env, NEW u \in fetch(t, e)
  PROVE  Listening(t, e, u)
<1> DEFINE w == listen(t, e)
<1>1. Listening(t, e, w)
  BY ListenFacts
<1> HIDE DEF w
<1>2. CASE u = w
  BY <1>1, <1>2
<1>3. CASE u \in tryNextPeer(w)
  <2>1. SameWaiting(w, u)
    BY <1>1, <1>3, TryNextPeerFacts DEF Listening
  <2>2. QED BY <1>1, <2>1 DEF Listening, SameWaiting
<1>4. QED BY <1>2, <1>3 DEF fetch, w

(* stopFetch takes the envelopes of S away; what was seen is forgotten     *)
(* only when nobody is left.                                               *)
LEMMA StopFetchFacts ==
  ASSUME NEW t \in Tracker, NEW S
  PROVE  LET u == stopFetch(t, S) IN
         /\ u \in Tracker /\ u.waiting = t.waiting \ S /\ u.on = t.on
         /\ u.waiting # {} => u.seen = t.seen
<1> DEFINE left == [t EXCEPT !.waiting = @ \ S]
<1>1. /\ left \in Tracker /\ left.waiting = t.waiting \ S /\ left.on = t.on
      /\ left.seen = t.seen
  BY DEF Tracker
<1>2. stopFetch(t, S) = IF t.on /\ S # {} /\ left.waiting = {}
                        THEN cancel(left) ELSE left
  BY DEF stopFetch
<1> HIDE DEF left
<1>3. /\ cancel(left) \in Tracker /\ cancel(left).waiting = left.waiting
      /\ cancel(left).on = left.on
  BY <1>1, Zenon DEF cancel, Tracker
<1>4. QED BY <1>1, <1>2, <1>3

(* clearEnvelopesBelow keeps who waits for a slot that is left.            *)
LEMMA ClearFacts ==
  ASSUME NEW t \in Tracker, NEW slot \in Nat
  PROVE  LET u == clearEnvelopesBelow(t, slot) IN
         /\ u \in Tracker /\ u.waiting = {e \in t.waiting : SlotOf[e] >= slot}
         /\ u.waiting # {} => u.on = t.on /\ u.seen = t.seen
<1> DEFINE left == {e \in t.waiting : SlotOf[e] >= slot}
           w == [t EXCEPT !.waiting = left]
<1>1. /\ w \in Tracker /\ w.waiting = left /\ w.on = t.on /\ w.seen = t.seen
  BY DEF Tracker
<1>2. NoTracker \in Tracker /\ NoTracker.waiting = {}
  BY Zenon DEF NoTracker, Tracker, NotAsked
<1>3. clearEnvelopesBelow(t, slot) = IF left = {} THEN NoTracker ELSE w
  BY DEF clearEnvelopesBelow
<1> HIDE DEF left, w
<1>4. QED BY <1>1, <1>2, <1>3 DEF left

-----------------------------------------------------------------------------
(* The invariant.                                                          *)

(* Whoever waits needs the item and was not discarded; its tracker is on   *)
(* and has seen the slot.                                                  *)
Tracked ==
  \A i \in Item : \A e \in tracker[i].waiting :
    /\ i \in Needs[e] /\ e \notin discarded
    /\ tracker[i].on /\ tracker[i].seen >= SlotOf[e]

(* What is fetched waits, unless it came back and was refused.             *)
Waits == \A e \in fetching \ refused : \E i \in Needs[e] : e \in tracker[i].waiting

(* What has been processed is neither fetched nor discarded.               *)
Sorted ==
  /\ ready \subseteq processed /\ fetching \cap processed = {}
  /\ discarded \cap (fetching \cup processed) = {}

(* All are of slots that the node remembers, and no posted task is about   *)
(* a slot that it does.                                                    *)
Remembered ==
  /\ \A e \in fetching \cup processed : SlotOf[e] >= Oldest
  /\ \A k \in {"qset", "txset"} : purge[k] <= Oldest

(* What is ready has its items, and only sane quorum sets were ever known. *)
Complete ==
  /\ \A e \in ready : Needs[e] \subseteq known
  /\ known \cap QSet \subseteq Sane
  /\ \A e \in processed : Needs[e] \cap QSet \subseteq Sane

(* What SCP has received is known to be processed, or too old to be.       *)
Once == \A e \in delivered : e \notin ready /\ (e \in processed \/ SlotOf[e] < Oldest)

EInv == TypeOK /\ Tracked /\ Waits /\ Sorted /\ Remembered /\ Complete /\ Once

(* The oldest slot is a natural number and never decreases.                *)
LEMMA OldestFacts ==
  ASSUME next \in Nat
  PROVE  /\ Oldest \in Nat /\ getMinLedgerSeqToRemember(next) \in Nat
         /\ Oldest <= getMinLedgerSeqToRemember(next)
BY SlotAssumption DEF Oldest, getMinLedgerSeqToRemember, GENESIS_LEDGER_SEQ

(* The first state satisfies the invariant.                                *)
LEMMA EnvInit == Init => EInv
<1> SUFFICES ASSUME Init PROVE EInv
  OBVIOUS
<1>1. LocalQSet \in Sane /\ LocalQSet \in QSet /\ FirstSlot \in Nat
  BY ItemAssumption, SlotAssumption
<1>2. NoTracker \in Tracker /\ NoTracker.waiting = {}
  BY Zenon DEF NoTracker, Tracker, NotAsked
<1>3. TypeOK
  BY <1>1, <1>2 DEF Init, TypeOK, Item
<1>4. \A i \in Item : tracker[i].waiting = {}
  BY <1>2 DEF Init
<1>5. Oldest \in Nat
  BY <1>3, OldestFacts DEF TypeOK
<1>6. \A k \in {"qset", "txset"} : purge[k] <= Oldest
  BY <1>5 DEF Init
<1>7. QED BY <1>1, <1>3, <1>4, <1>6
          DEF Init, EInv, Tracked, Waits, Sorted, Remembered, Complete, Once

(* tr is the trackers, from some of which e may have been taken.           *)
Without(tr, e) ==
  /\ tr \in [Item -> Tracker]
  /\ \A i \in Item :
       /\ tr[i].on = tracker[i].on /\ tr[i].seen = tracker[i].seen
       /\ tr[i].waiting \subseteq tracker[i].waiting
       /\ tracker[i].waiting \subseteq tr[i].waiting \cup {e}

(* recvSCPEnvelope keeps the invariant, also for an envelope that recv has *)
(* just taken from a tracker.                                              *)
LEMMA RecvEnvelopeKeeps ==
  ASSUME EInv, NEW e \in Env, NEW tr, Without(tr, e), recvSCPEnvelope(e, tr),
         receiving' \in Item \cup {NoItem},
         UNCHANGED <<known, next, more, trigger, purge>>
  PROVE  EInv'
<1> DEFINE missing == Needs[e] \ known
<1>0. /\ TypeOK /\ Tracked /\ Waits /\ Sorted /\ Remembered /\ Complete /\ Once
      /\ SlotOf[e] \in Nat /\ Needs[e] \subseteq Item
  BY EnvAssumption, ItemAssumption DEF EInv
<1>1. Oldest' = Oldest
  BY DEF Oldest
<1>2. cached' \in [TxSet -> Nat \cup {-1}]
  BY <1>0 DEF recvSCPEnvelope, Refuse, Accept, touchFetchCache, Later, TypeOK
<1>3. refused' \subseteq Env /\ refused \ {e} \subseteq refused'
  BY <1>0 DEF recvSCPEnvelope, Refuse, Accept, TypeOK
<1>4. \A i \in Item : \A x \in tr[i].waiting :
        /\ i \in Needs[x] /\ x \notin discarded
        /\ tr[i].on /\ tr[i].seen >= SlotOf[x]
  BY <1>0 DEF Tracked, Without
<1>5. \A x \in fetching \ (refused' \cup {e}) : \E i \in Needs[x] : x \in tr[i].waiting
  <2> SUFFICES ASSUME NEW x \in fetching \ (refused' \cup {e})
               PROVE  \E i \in Needs[x] : x \in tr[i].waiting
    OBVIOUS
  <2>0. x \in fetching \ refused
    BY <1>3
  <2>1. PICK i \in Needs[x] : x \in tracker[i].waiting
    BY <1>0, <2>0 DEF Waits
  <2>2. i \in Item
    BY <1>0, ItemAssumption DEF TypeOK
  <2>3. QED BY <2>1, <2>2 DEF Without
<1>6. CASE Refuse(e, tr)
  <2>1. /\ tracker' = tr /\ UNCHANGED <<envelopes, upTo>>
        /\ refused' = refused \cup
             {x \in fetching \cap {e} : \A i \in Item : x \notin tr[i].waiting}
    BY <1>6 DEF Refuse
  <2>2. TypeOK'
    BY <1>0, <1>2, <1>3, <2>1 DEF TypeOK, envelopes, Without
  <2>3. Tracked'
    BY <1>4, <2>1 DEF Tracked, envelopes
  <2>4. Waits'
    <3> SUFFICES ASSUME NEW x \in fetching \ refused'
                 PROVE  \E i \in Needs[x] : x \in tr[i].waiting
      BY <2>1 DEF Waits, envelopes
    <3>1. CASE x = e
      <4>1. PICK i \in Item : e \in tr[i].waiting
        BY <2>1, <3>1
      <4>2. QED BY <1>4, <3>1, <4>1
    <3>2. QED BY <1>5, <3>1
  <2>5. Sorted' /\ Remembered' /\ Complete' /\ Once'
    BY <1>0, <1>1, <2>1 DEF Sorted, Remembered, Complete, Once, envelopes
  <2>6. QED BY <2>2, <2>3, <2>4, <2>5 DEF EInv
<1>7. CASE Accept(e, tr) /\ Already(e)
  <2>1. tracker' = tr /\ UNCHANGED <<envelopes, upTo>>
    BY <1>7 DEF Accept
  <2>2. TypeOK'
    BY <1>0, <1>2, <1>3, <2>1 DEF TypeOK, envelopes, Without
  <2>3. e \notin fetching
    BY <1>7 DEF Already
  <2>4. Tracked' /\ Waits'
    BY <1>4, <1>5, <2>1, <2>3 DEF Tracked, Waits, envelopes
  <2>5. Sorted' /\ Remembered' /\ Complete' /\ Once'
    BY <1>0, <1>1, <2>1 DEF Sorted, Remembered, Complete, Once, envelopes
  <2>6. QED BY <2>2, <2>4, <2>5 DEF EInv
<1>8. CASE Accept(e, tr) /\ ~Already(e) /\ isFullyFetched(e)
  <2>1. /\ tracker' = tr
        /\ processed' = processed \cup {e} /\ fetching' = fetching \ {e}
        /\ ready' = ready \cup {e} /\ upTo' = next
        /\ UNCHANGED <<discarded, delivered>> /\ InRange(e) /\ e \notin discarded
    BY <1>8 DEF Accept
  <2>2. TypeOK'
    BY <1>0, <1>2, <1>3, <2>1 DEF TypeOK, Without
  <2>3. Tracked' /\ Waits'
    BY <1>4, <1>5, <2>1 DEF Tracked, Waits
  <2>4. e \notin processed
    BY <1>0, <1>8 DEF Already, Sorted
  <2>5. Sorted'
    BY <1>0, <2>1 DEF Sorted
  <2>6. Remembered'
    BY <1>0, <1>1, <2>1 DEF Remembered, InRange
  <2>7. Complete'
    BY <1>0, <1>8, <2>1 DEF Complete, isFullyFetched
  <2>8. Once'
    <3>1. e \notin delivered
      BY <1>0, <2>1, <2>4, OldestFacts DEF Once, InRange, TypeOK
    <3>2. QED BY <1>0, <1>1, <2>1, <3>1 DEF Once
  <2>9. QED BY <2>2, <2>3, <2>5, <2>6, <2>7, <2>8 DEF EInv
<1>9. CASE Accept(e, tr) /\ ~Already(e) /\ ~isFullyFetched(e)
  <2>1. /\ fetching' = fetching \cup {e}
        /\ \E f \in startFetch(e, tr, missing) :
             tracker' = [i \in Item |-> IF i \in missing THEN f[i] ELSE tr[i]]
        /\ UNCHANGED <<processed, ready, discarded, delivered, upTo>>
        /\ InRange(e) /\ e \notin discarded
    BY <1>9 DEF Accept
  <2>2. PICK f \in startFetch(e, tr, missing) :
          tracker' = [i \in Item |-> IF i \in missing THEN f[i] ELSE tr[i]]
    BY <2>1
  <2>3. \A i \in missing : Listening(tr[i], e, f[i])
    <3> SUFFICES ASSUME NEW i \in missing PROVE Listening(tr[i], e, f[i])
      OBVIOUS
    <3>1. tr[i] \in Tracker
      BY <1>0 DEF Without
    <3>2. f[i] \in fetch(tr[i], e)
      BY <2>2 DEF startFetch
    <3>3. QED BY <3>1, <3>2, FetchFacts
  <2>4. tracker' \in [Item -> Tracker]
    BY <2>2, <2>3 DEF Listening, Without
  <2>5. TypeOK'
    BY <1>0, <1>2, <1>3, <2>1, <2>4 DEF TypeOK
  <2>6. Tracked'
    <3> SUFFICES ASSUME NEW i \in Item, NEW x \in tracker'[i].waiting
                 PROVE  /\ i \in Needs[x] /\ x \notin discarded
                        /\ tracker'[i].on /\ tracker'[i].seen >= SlotOf[x]
      BY <2>1 DEF Tracked
    <3>1. CASE i \notin missing
      BY <1>4, <2>2, <3>1
    <3>2. CASE i \in missing
      <4>1. Listening(tr[i], e, tracker'[i])
        BY <2>2, <2>3, <3>2
      <4>2. CASE x = e
        BY <2>1, <3>2, <4>1, <4>2 DEF Listening
      <4>3. CASE x # e
        <5>1. x \in tr[i].waiting
          BY <4>1, <4>3 DEF Listening
        <5>2. tr[i] \in Tracker /\ tracker'[i] \in Tracker
          BY <2>4 DEF Without
        <5>3. tr[i].seen \in Nat /\ tracker'[i].seen \in Nat /\ SlotOf[x] \in Nat
          BY <5>1, <5>2, EnvAssumption DEF Tracker
        <5>4. tr[i].seen >= SlotOf[x] /\ i \in Needs[x] /\ x \notin discarded
          BY <1>4, <5>1
        <5>5. tracker'[i].on /\ tracker'[i].seen >= tr[i].seen
          BY <4>1 DEF Listening
        <5>6. QED BY <5>3, <5>4, <5>5
      <4>4. QED BY <4>2, <4>3
    <3>3. QED BY <3>1, <3>2
  <2>7. Waits'
    <3> SUFFICES ASSUME NEW x \in fetching' \ refused'
                 PROVE  \E i \in Needs[x] : x \in tracker'[i].waiting
      BY DEF Waits
    <3>1. CASE x = e
      <4>1. PICK i \in Needs[e] : i \notin known
        BY <1>9 DEF isFullyFetched
      <4>2. i \in Item /\ i \in missing
        BY <1>0, <4>1
      <4>3. e \in tracker'[i].waiting
        BY <2>2, <2>3, <4>2 DEF Listening
      <4>4. QED BY <3>1, <4>1, <4>3
    <3>2. CASE x # e
      <4>1. x \in fetching \ (refused' \cup {e})
        BY <2>1, <3>2
      <4>2. PICK i \in Needs[x] : x \in tr[i].waiting
        BY <1>5, <4>1
      <4>3. i \in Item
        BY <1>0, <4>1, ItemAssumption DEF TypeOK
      <4>4. x \in tracker'[i].waiting
        BY <2>2, <2>3, <4>2, <4>3 DEF Listening
      <4>5. QED BY <4>4
    <3>3. QED BY <3>1, <3>2
  <2>8. e \notin processed
    BY <1>0, <1>9 DEF Already, Sorted
  <2>9. Sorted'
    BY <1>0, <2>1, <2>8 DEF Sorted
  <2>10. Remembered'
    BY <1>0, <1>1, <2>1 DEF Remembered, InRange
  <2>11. Complete' /\ Once'
    BY <1>0, <1>1, <2>1 DEF Complete, Once
  <2>12. QED BY <2>5, <2>6, <2>7, <2>9, <2>10, <2>11 DEF EInv
<1>10. QED BY <1>6, <1>7, <1>8, <1>9 DEF recvSCPEnvelope

(* SCP gets a ready envelope, and may close a slot.                        *)
LEMMA PopKeeps == ASSUME EInv, Pop PROVE EInv'
<1>0. TypeOK /\ Tracked /\ Waits /\ Sorted /\ Remembered /\ Complete /\ Once
  BY DEF EInv
<1>1. PICK e \in Poppable(upTo) :
        /\ \/ ValueExternalized(e)
           \/ /\ ready' = ready \ {e}
              /\ UNCHANGED <<fetching, processed, discarded, next, more, trigger, purge, cached>>
        /\ delivered' = delivered \cup {e}
        /\ \E kept \in SUBSET {x \in delivered' : SlotOf[x] >= Oldest'} :
             known' = {i \in known : \/ i \in QSet
                                     \/ i \in TxSet /\ cached'[i] # -1
                                     \/ \E x \in ready' \cup kept : i \in Needs[x]}
        /\ UNCHANGED <<tracker, receiving, upTo, refused>>
  BY Zenon DEF Pop
<1>2. e \in ready /\ e \in processed /\ e \in Env
  BY <1>0, <1>1 DEF Poppable, Sorted, TypeOK
<1>3. Oldest \in Nat /\ \A x \in Env : SlotOf[x] \in Nat
  BY <1>0, OldestFacts, EnvAssumption DEF TypeOK
<1>4. known' \subseteq known /\ \A x \in ready' : \A i \in Needs[x] : i \in known => i \in known'
  BY <1>1
<1>5. CASE /\ ready' = ready \ {e}
           /\ UNCHANGED <<fetching, processed, discarded, next, more, trigger, purge, cached>>
  <2>1. Oldest' = Oldest
    BY <1>5 DEF Oldest
  <2>2. TypeOK'
    BY <1>0, <1>1, <1>2, <1>4, <1>5 DEF TypeOK
  <2>3. Tracked' /\ Waits'
    BY <1>0, <1>1, <1>5 DEF Tracked, Waits
  <2>4. Sorted' /\ Remembered'
    BY <1>0, <1>5, <2>1 DEF Sorted, Remembered
  <2>5. Complete'
    BY <1>0, <1>4, <1>5 DEF Complete
  <2>6. Once'
    BY <1>0, <1>1, <1>2, <1>5, <2>1 DEF Once
  <2>7. QED BY <2>2, <2>3, <2>4, <2>5, <2>6 DEF EInv
<1>6. CASE ValueExternalized(e)
  <2> DEFINE oldest == getMinLedgerSeqToRemember(next)
             Keep(S) == {x \in S : SlotOf[x] >= oldest}
  <2>1. /\ next' = next + 1 /\ more' = next + 1 /\ trigger' = TRUE
        /\ fetching' = Keep(fetching) /\ processed' = Keep(processed)
        /\ ready' = Keep(ready \ {e}) /\ discarded' = Keep(discarded)
        /\ purge' = IF next > MaxSlots THEN [k \in DOMAIN purge |-> oldest] ELSE purge
        /\ cached' = [i \in TxSet |-> IF Evicted(i, oldest) THEN -1 ELSE cached[i]]
    BY <1>6 DEF ValueExternalized
  <2>2. oldest \in Nat /\ Oldest <= oldest
    BY <1>0, OldestFacts DEF TypeOK
  <2>3. Oldest' = oldest
    BY <1>0, <2>1 DEF Oldest, TypeOK
  <2> HIDE DEF oldest
  <2>4. purge' \in [{"qset", "txset"} -> Nat]
        /\ \A k \in {"qset", "txset"} : purge'[k] <= oldest
    <3>1. CASE next > MaxSlots
      <4>1. purge' = [k \in {"qset", "txset"} |-> oldest]
        BY <1>0, <2>1, <3>1 DEF TypeOK
      <4>2. QED BY <2>2, <4>1
    <3>2. CASE ~(next > MaxSlots)
      <4>1. purge' = purge
        BY <2>1, <3>2
      <4>2. \A k \in {"qset", "txset"} : purge[k] \in Nat /\ purge[k] <= Oldest
        BY <1>0 DEF TypeOK, Remembered
      <4>3. QED BY <1>0, <1>3, <2>2, <4>1, <4>2 DEF TypeOK
    <3>3. QED BY <3>1, <3>2
  <2>5. cached' \in [TxSet -> Nat \cup {-1}]
    BY <1>0, <2>1 DEF TypeOK
  <2>6. next' \in Nat /\ more' \in Nat /\ trigger' \in BOOLEAN
    BY <1>0, <2>1 DEF TypeOK
  <2>7. TypeOK'
    BY <1>0, <1>1, <1>2, <1>4, <2>1, <2>4, <2>5, <2>6 DEF TypeOK
  <2>8. Tracked' /\ Waits'
    BY <1>0, <1>1, <2>1 DEF Tracked, Waits
  <2>9. Sorted'
    BY <1>0, <2>1 DEF Sorted
  <2>10. Remembered'
    BY <2>1, <2>3, <2>4 DEF Remembered
  <2>11. Complete'
    BY <1>0, <1>4, <2>1 DEF Complete
  <2>12. Once'
    <3> SUFFICES ASSUME NEW x \in delivered'
                 PROVE  x \notin ready' /\ (x \in processed' \/ SlotOf[x] < oldest)
      BY <2>3 DEF Once
    <3>1. x \in Env /\ SlotOf[x] \in Nat
      BY <1>0, <1>1, <1>2, <1>3 DEF TypeOK
    <3>2. x \notin ready'
      BY <1>0, <1>1, <2>1 DEF Once
    <3>3. x \in processed \/ SlotOf[x] < Oldest
      BY <1>0, <1>1, <1>2 DEF Once
    <3>4. x \in processed => x \in processed' \/ SlotOf[x] < oldest
      BY <2>1, <2>2, <3>1
    <3>5. SlotOf[x] < Oldest => SlotOf[x] < oldest
      BY <1>3, <2>2, <3>1
    <3>6. QED BY <3>2, <3>3, <3>4, <3>5
  <2>13. QED BY <2>7, <2>8, <2>9, <2>10, <2>11, <2>12 DEF EInv
<1>7. QED BY <1>1, <1>5, <1>6

(* The posted task clears the trackers of slots that fell off.             *)
LEMMA StopFetchingKeeps ==
  ASSUME EInv, NEW k \in {"qset", "txset"}, stopFetchingBelowInternal(k)
  PROVE  EInv'
<1>0. TypeOK /\ Tracked /\ Waits /\ Sorted /\ Remembered /\ Complete /\ Once
  BY DEF EInv
<1>1. /\ tracker' = [i \in Item |-> IF Kind(i) = k
                                    THEN clearEnvelopesBelow(tracker[i], purge[k])
                                    ELSE tracker[i]]
      /\ purge' = [purge EXCEPT ![k] = 0]
      /\ UNCHANGED <<known, cached, envelopes, next, receiving, upTo, more, trigger,
                     refused>>
  BY DEF stopFetchingBelowInternal
<1>2. purge[k] \in Nat /\ purge[k] <= Oldest /\ Oldest \in Nat
  BY <1>0, OldestFacts DEF TypeOK, Remembered
<1>3. \A i \in Item :
        /\ tracker'[i] \in Tracker /\ tracker'[i].waiting \subseteq tracker[i].waiting
        /\ \A e \in tracker[i].waiting : SlotOf[e] >= purge[k] => e \in tracker'[i].waiting
        /\ tracker'[i].waiting # {} =>
             tracker'[i].on = tracker[i].on /\ tracker'[i].seen = tracker[i].seen
  <2> SUFFICES ASSUME NEW i \in Item
               PROVE  /\ tracker'[i] \in Tracker
                      /\ tracker'[i].waiting \subseteq tracker[i].waiting
                      /\ \A e \in tracker[i].waiting :
                           SlotOf[e] >= purge[k] => e \in tracker'[i].waiting
                      /\ tracker'[i].waiting # {} =>
                           /\ tracker'[i].on = tracker[i].on
                           /\ tracker'[i].seen = tracker[i].seen
    OBVIOUS
  <2>1. tracker[i] \in Tracker
    BY <1>0 DEF TypeOK
  <2>2. tracker'[i] \in {tracker[i], clearEnvelopesBelow(tracker[i], purge[k])}
    BY <1>1
  <2> DEFINE u == clearEnvelopesBelow(tracker[i], purge[k])
  <2>3. /\ u \in Tracker
        /\ u.waiting = {e \in tracker[i].waiting : SlotOf[e] >= purge[k]}
        /\ u.waiting # {} => u.on = tracker[i].on /\ u.seen = tracker[i].seen
    BY <1>2, <2>1, ClearFacts, Zenon
  <2> HIDE DEF u
  <2>4. tracker'[i] = tracker[i] \/ tracker'[i] = u
    BY <2>2 DEF u
  <2>5. QED BY <2>1, <2>3, <2>4
<1>4. Oldest' = Oldest
  BY <1>1 DEF Oldest
<1>5. TypeOK'
  <2>1. tracker' \in [Item -> Tracker]
    BY <1>1, <1>3
  <2>2. purge' \in [{"qset", "txset"} -> Nat]
    BY <1>0, <1>1 DEF TypeOK
  <2>3. QED BY <1>0, <1>1, <2>1, <2>2 DEF TypeOK, envelopes
<1>6. Tracked'
  BY <1>0, <1>1, <1>3 DEF Tracked, envelopes
<1>7. Waits'
  <2> SUFFICES ASSUME NEW e \in fetching \ refused
               PROVE  \E i \in Needs[e] : e \in tracker'[i].waiting
    BY <1>1 DEF Waits, envelopes
  <2>1. PICK i \in Needs[e] : e \in tracker[i].waiting
    BY <1>0 DEF Waits
  <2>2. e \in Env /\ i \in Item
    BY <1>0, ItemAssumption DEF TypeOK
  <2>3. SlotOf[e] >= purge[k]
    BY <1>0, <1>2, <2>2, EnvAssumption DEF Remembered
  <2>4. QED BY <1>3, <2>1, <2>2, <2>3
<1>8. Remembered'
  BY <1>0, <1>1, <1>2, <1>4 DEF Remembered, TypeOK, envelopes
<1>9. Sorted' /\ Complete' /\ Once'
  BY <1>0, <1>1, <1>4 DEF Sorted, Complete, Once, envelopes
<1>10. QED BY <1>5, <1>6, <1>7, <1>8, <1>9 DEF EInv

(* An item comes to be known.                                              *)
LEMMA AddItemKeeps ==
  ASSUME EInv, NEW i \in TxSet \cup Sane, NEW slot \in Nat, addItem(i, slot),
         trigger' \in BOOLEAN, UNCHANGED <<next, upTo, more, purge, refused>>
  PROVE  EInv'
<1>0. TypeOK /\ Tracked /\ Waits /\ Sorted /\ Remembered /\ Complete /\ Once
  BY DEF EInv
<1>1. /\ known' = known \cup {i}
      /\ cached' = [j \in TxSet |-> IF j = i THEN Later(cached[j], slot) ELSE cached[j]]
      /\ receiving' \in {i, NoItem}
      /\ UNCHANGED <<tracker, envelopes>>
  BY DEF addItem
<1>2. i \in Item /\ (i \in QSet => i \in Sane)
  BY ItemAssumption DEF Item
<1>3. cached' \in [TxSet -> Nat \cup {-1}]
  BY <1>0, <1>1 DEF TypeOK, Later
<1>4. TypeOK'
  BY <1>0, <1>1, <1>2, <1>3 DEF TypeOK, envelopes
<1>5. Oldest' = Oldest
  BY DEF Oldest
<1>6. Tracked' /\ Waits' /\ Sorted' /\ Remembered' /\ Once'
  BY <1>0, <1>1, <1>5 DEF Tracked, Waits, Sorted, Remembered, Once, envelopes
<1>7. Complete'
  BY <1>0, <1>1, <1>2 DEF Complete, envelopes
<1>8. QED BY <1>4, <1>6, <1>7 DEF EInv

(* The envelopes that wait for a quorum set that is not sane are dropped.  *)
LEMMA DiscardKeeps ==
  ASSUME EInv, NEW q \in QSet \ Sane, discardSCPEnvelopesWithQSet(q),
         UNCHANGED <<next, upTo, more, trigger, purge, refused>>
  PROVE  EInv'
<1>0. TypeOK /\ Tracked /\ Waits /\ Sorted /\ Remembered /\ Complete /\ Once
  BY DEF EInv
<1> DEFINE gone == tracker[q].waiting \ discarded
<1>1. /\ discarded' = discarded \cup gone
      /\ fetching' = fetching \ gone
      /\ tracker' = [i \in Item |->
                       stopFetch(tracker[i], {e \in gone : i \in Needs[e]})]
      /\ UNCHANGED <<known, cached, processed, ready, delivered, receiving>>
  BY DEF discardSCPEnvelopesWithQSet
<1>2. q \in Item /\ gone \subseteq Env /\ \A e \in gone : q \in Needs[e]
  BY <1>0 DEF Item, TypeOK, Tracker, Tracked
<1>3. gone \cap processed = {}
  BY <1>0, <1>2 DEF Complete
<1> HIDE DEF gone
<1>4. \A i \in Item :
        /\ tracker'[i] \in Tracker
        /\ tracker'[i].waiting = tracker[i].waiting \ {e \in gone : i \in Needs[e]}
        /\ tracker'[i].on = tracker[i].on
        /\ tracker'[i].waiting # {} => tracker'[i].seen = tracker[i].seen
  <2> SUFFICES ASSUME NEW i \in Item
               PROVE  /\ tracker'[i] \in Tracker
                      /\ tracker'[i].waiting =
                           tracker[i].waiting \ {e \in gone : i \in Needs[e]}
                      /\ tracker'[i].on = tracker[i].on
                      /\ tracker'[i].waiting # {} =>
                           tracker'[i].seen = tracker[i].seen
    OBVIOUS
  <2>1. tracker[i] \in Tracker
    BY <1>0 DEF TypeOK
  <2>2. tracker'[i] = stopFetch(tracker[i], {e \in gone : i \in Needs[e]})
    BY <1>1
  <2>3. QED BY <2>1, <2>2, StopFetchFacts
<1>5. \A i \in Item : tracker'[i].waiting = tracker[i].waiting \ gone
  BY <1>0, <1>4 DEF Tracked
<1>6. Oldest' = Oldest
  BY DEF Oldest
<1>7. TypeOK'
  <2>1. tracker' \in [Item -> Tracker]
    BY <1>1, <1>4
  <2>2. QED BY <1>0, <1>1, <1>2, <2>1 DEF TypeOK
<1>8. Tracked'
  <2> SUFFICES ASSUME NEW i \in Item, NEW e \in tracker'[i].waiting
               PROVE  /\ i \in Needs[e] /\ e \notin discarded'
                      /\ tracker'[i].on /\ tracker'[i].seen >= SlotOf[e]
    BY Zenon DEF Tracked
  <2>1. e \in tracker[i].waiting /\ e \notin gone
    BY <1>5
  <2>2. tracker'[i].on = tracker[i].on /\ tracker'[i].seen = tracker[i].seen
    BY <1>4
  <2>3. i \in Needs[e] /\ e \notin discarded /\ tracker[i].on /\ tracker[i].seen >= SlotOf[e]
    BY <1>0, <2>1, Zenon DEF Tracked
  <2>4. QED BY <1>1, <2>1, <2>2, <2>3, Zenon
<1>9. Waits'
  <2> SUFFICES ASSUME NEW e \in fetching \ refused, e \notin gone
               PROVE  \E i \in Needs[e] : e \in tracker'[i].waiting
    BY <1>1, Zenon DEF Waits
  <2>1. PICK i \in Needs[e] : e \in tracker[i].waiting
    BY <1>0 DEF Waits
  <2>2. i \in Item
    BY <1>0, ItemAssumption DEF TypeOK
  <2>3. QED BY <1>5, <2>1, <2>2
<1>10. Sorted' /\ Remembered' /\ Complete' /\ Once'
  BY <1>0, <1>1, <1>3, <1>6 DEF Sorted, Remembered, Complete, Once
<1>11. QED BY <1>7, <1>8, <1>9, <1>10 DEF EInv

(* Another peer is asked.                                                  *)
LEMMA TryNextPeerKeeps ==
  ASSUME EInv, NEW i \in Item, TryNextPeer(i)
  PROVE  EInv'
<1>0. TypeOK /\ Tracked /\ Waits /\ Sorted /\ Remembered /\ Complete /\ Once
  BY DEF EInv
<1>1. PICK t \in tryNextPeer(tracker[i]) : tracker' = [tracker EXCEPT ![i] = t]
  BY Zenon DEF TryNextPeer
<1>2. UNCHANGED <<known, cached, envelopes, next, receiving, upTo, more, trigger,
                  purge, refused>>
  BY DEF TryNextPeer
<1>3. SameWaiting(tracker[i], t)
  BY <1>0, <1>1, TryNextPeerFacts DEF TypeOK
<1>4. \A j \in Item : SameWaiting(tracker[j], tracker'[j])
  BY <1>0, <1>1, <1>3 DEF TypeOK, SameWaiting
<1>5. tracker' \in [Item -> Tracker]
  BY <1>0, <1>1, <1>3 DEF TypeOK, SameWaiting
<1>6. Oldest' = Oldest
  BY <1>2 DEF Oldest
<1>7. TypeOK'
  BY <1>0, <1>2, <1>5 DEF TypeOK, envelopes
<1>8. Tracked'
  BY <1>0, <1>2, <1>4 DEF Tracked, SameWaiting, envelopes
<1>9. Waits'
  <2>1. \A e \in fetching : \A j \in Needs[e] : j \in Item
    BY <1>0, ItemAssumption DEF TypeOK
  <2>2. QED BY <1>0, <1>2, <1>4, <2>1 DEF Waits, SameWaiting, envelopes
<1>10. Sorted' /\ Remembered' /\ Complete' /\ Once'
  BY <1>0, <1>2, <1>6 DEF Sorted, Remembered, Complete, Once, envelopes
<1>11. QED BY <1>7, <1>8, <1>9, <1>10 DEF EInv

(* One turn of the loop over those who waited.                             *)
LEMMA RecvKeeps == ASSUME EInv, recv PROVE EInv'
<1>0. TypeOK /\ Tracked /\ Waits /\ Sorted /\ Remembered /\ Complete /\ Once
  BY DEF EInv
<1>1. receiving \in Item /\ tracker[receiving] \in Tracker
  BY <1>0 DEF recv, TypeOK
<1>2. UNCHANGED <<known, next, more, trigger, purge>>
  BY DEF recv
<1>3. CASE /\ \E e \in tracker[receiving].waiting :
                recvSCPEnvelope(e, [tracker EXCEPT ![receiving].waiting = @ \ {e}])
           /\ UNCHANGED receiving
  <2>1. PICK e \in tracker[receiving].waiting :
          recvSCPEnvelope(e, [tracker EXCEPT ![receiving].waiting = @ \ {e}])
    BY <1>3
  <2> DEFINE u == [tracker[receiving] EXCEPT !.waiting = @ \ {e}]
             tr == [tracker EXCEPT ![receiving] = u]
  <2>2. e \in Env
    BY <1>1 DEF Tracker
  <2>3. /\ u \in Tracker /\ u.on = tracker[receiving].on /\ u.seen = tracker[receiving].seen
        /\ u.waiting = tracker[receiving].waiting \ {e}
    BY <1>1 DEF Tracker
  <2>4. [tracker EXCEPT ![receiving].waiting = @ \ {e}] = tr
    BY <1>0, <1>1 DEF TypeOK
  <2> HIDE DEF u
  <2>5. \A i \in Item : tr[i] = IF i = receiving THEN u ELSE tracker[i]
    BY <1>0 DEF TypeOK
  <2>6. tr \in [Item -> Tracker]
    BY <1>0, <2>3, Zenon DEF TypeOK
  <2> HIDE DEF tr
  <2>7. Without(tr, e)
    BY <2>3, <2>5, <2>6 DEF Without
  <2>8. recvSCPEnvelope(e, tr)
    BY <2>1, <2>4, Zenon
  <2>9. receiving' \in Item \cup {NoItem}
    BY <1>1, <1>3
  <2>10. QED BY <1>2, <2>2, <2>7, <2>8, <2>9, RecvEnvelopeKeeps
<1>4. CASE /\ tracker[receiving].waiting = {}
           /\ tracker' = [tracker EXCEPT ![receiving] = cancel(@)]
           /\ receiving' = NoItem
           /\ UNCHANGED <<cached, envelopes, upTo, refused>>
  <2>1. /\ cancel(tracker[receiving]) \in Tracker
        /\ cancel(tracker[receiving]).waiting = tracker[receiving].waiting
    BY <1>1, Zenon DEF cancel, Tracker
  <2>2. tracker' \in [Item -> Tracker]
    BY <1>0, <1>4, <2>1, Zenon DEF TypeOK
  <2>3. TypeOK'
    BY <1>0, <1>2, <1>4, <2>2 DEF TypeOK, envelopes
  <2>4. \A i \in Item : /\ tracker'[i].waiting = tracker[i].waiting
                        /\ tracker[i].waiting # {} => tracker'[i] = tracker[i]
    BY <1>0, <1>1, <1>4, <2>1, Zenon DEF TypeOK
  <2>5. Tracked'
    BY <1>0, <1>4, <2>4 DEF Tracked, envelopes
  <2>6. Waits'
    <3>1. \A e \in fetching : \A j \in Needs[e] : j \in Item
      BY <1>0, ItemAssumption DEF TypeOK
    <3>2. QED BY <1>0, <1>4, <2>4, <3>1 DEF Waits, envelopes
  <2>7. Oldest' = Oldest
    BY <1>2 DEF Oldest
  <2>8. Sorted' /\ Remembered' /\ Complete' /\ Once'
    BY <1>0, <1>2, <1>4, <2>7 DEF Sorted, Remembered, Complete, Once, envelopes
  <2>9. QED BY <2>3, <2>5, <2>6, <2>8 DEF EInv
<1>5. QED BY <1>3, <1>4 DEF recv

(* The posted processSCPQueueSomeMore, and steps that change nothing.      *)
LEMMA QueueKeeps ==
  ASSUME EInv, processSCPQueueSomeMore \/ UNCHANGED vars
  PROVE  EInv'
<1>0. TypeOK /\ Tracked /\ Waits /\ Sorted /\ Remembered /\ Complete /\ Once
  BY DEF EInv
<1>1. /\ UNCHANGED <<tracker, known, cached, envelopes, next, receiving, trigger,
                     purge, refused>>
      /\ upTo' \in {upTo, more} /\ more' \in {more, 0}
  BY DEF processSCPQueueSomeMore, vars
<1>2. Oldest' = Oldest
  BY <1>1 DEF Oldest
<1>3. TypeOK'
  BY <1>0, <1>1 DEF TypeOK, envelopes
<1>4. Tracked' /\ Waits'
  BY <1>0, <1>1, Zenon DEF Tracked, Waits, envelopes
<1>5. Sorted' /\ Remembered' /\ Complete' /\ Once'
  BY <1>0, <1>1, <1>2 DEF Sorted, Remembered, Complete, Once, envelopes
<1>6. QED BY <1>3, <1>4, <1>5 DEF EInv

(* Every step keeps the invariant.                                         *)
LEMMA EnvNext == EInv /\ [Next]_vars => EInv'
<1> SUFFICES ASSUME EInv, [Next]_vars PROVE EInv'
  OBVIOUS
<1>0. TypeOK
  BY DEF EInv
<1>1. ASSUME NEW e \in Env, ReceiveEnvelope(e) PROVE EInv'
  <2>1. Without(tracker, e)
    BY <1>0 DEF Without, TypeOK
  <2>2. receiving' \in Item \cup {NoItem}
    BY <1>0, <1>1 DEF ReceiveEnvelope, TypeOK
  <2>3. recvSCPEnvelope(e, tracker) /\ UNCHANGED <<known, next, more, trigger, purge>>
    BY <1>1 DEF ReceiveEnvelope
  <2>4. QED BY <2>1, <2>2, <2>3, RecvEnvelopeKeeps
<1>2. ASSUME NEW i \in Item, triggerNextLedger(i) PROVE EInv'
  BY <1>0, <1>2, AddItemKeeps, Zenon DEF triggerNextLedger, TypeOK
<1>3. ASSUME NEW i \in Item, ReceiveItem(i) PROVE EInv'
  <2>1. tracker[i].seen \in Nat
    BY <1>0 DEF TypeOK, Tracker
  <2>2. trigger' \in BOOLEAN /\ UNCHANGED <<next, upTo, more, trigger, purge, refused>>
    BY <1>0, <1>3 DEF ReceiveItem, TypeOK
  <2>3. CASE i \in TxSet \cup Sane /\ addItem(i, tracker[i].seen)
    BY <2>1, <2>2, <2>3, AddItemKeeps
  <2>4. CASE i \in QSet \ Sane /\ discardSCPEnvelopesWithQSet(i)
    BY <2>2, <2>4, DiscardKeeps
  <2>5. QED BY <1>3, <2>3, <2>4 DEF ReceiveItem
<1>4. ASSUME NEW i \in Item, TimerFires(i) \/ \E p \in Peer : doesntHave(i, p)
      PROVE  EInv'
  BY <1>4, TryNextPeerKeeps DEF TimerFires, doesntHave
<1>5. QED BY <1>1, <1>2, <1>3, <1>4, PopKeeps, RecvKeeps, QueueKeeps, StopFetchingKeeps
          DEF Next

(* The invariant holds of every state.                                     *)
LEMMA EnvInvariant == Spec => []EInv
BY EnvInit, EnvNext, PTL DEF Spec

(* No wake-up is lost but that of an envelope which came back from a       *)
(* tracker and was refused, and no answer is: what else is being fetched   *)
(* waits for an item, a tracker somebody waits on runs and takes the item, and   *)
(* SCP gets envelopes with all their items (PendingEnvelopes::startFetch,  *)
(* ItemFetcher::recv and stopFetchingBelowInternal, slotClosed).           *)
THEOREM AwaitedAlways == Spec => []Awaited
<1>1. EInv => Awaited
  <2> SUFFICES ASSUME EInv PROVE Awaited
    OBVIOUS
  <2>1. TypeOK /\ Waits /\ \A e \in ready : Needs[e] \subseteq known
    BY DEF EInv, Complete
  <2>2. ASSUME NEW i \in Item, tracker[i].waiting # {}
        PROVE  tracker[i].on /\ tracker[i].seen # 0
    <3>1. PICK e : e \in tracker[i].waiting
      BY <2>2
    <3>2. e \in Env /\ tracker[i].seen \in Nat
      BY <2>1, <3>1 DEF TypeOK, Tracker
    <3>3. SlotOf[e] \in Nat \ {0}
      BY <3>2, EnvAssumption
    <3>4. tracker[i].on /\ tracker[i].seen >= SlotOf[e]
      BY <3>1 DEF EInv, Tracked
    <3>5. QED BY <3>2, <3>3, <3>4
  <2>3. QED BY <2>1, <2>2 DEF Awaited, Waits
<1>2. QED BY <1>1, EnvInvariant, PTL

(* What was dropped stays so: no envelope of a slot that fell off is kept, *)
(* and a discarded one is not looked at again (slotClosed,                 *)
(* discardSCPEnvelope).                                                    *)
THEOREM DroppedAlways == Spec => []Dropped
<1>1. EInv => Dropped
  BY DEF EInv, Dropped, Sorted, Remembered, Tracked
<1>2. QED BY <1>1, EnvInvariant, PTL

(* SCP gets an envelope at most once (PendingEnvelopes::pop and            *)
(* recvSCPEnvelope's test of mProcessedEnvelopes).                         *)
THEOREM DeliveredOnceAlways == Spec => DeliveredOnce
<1>1. EInv => \A e \in ready \ ready' : e \notin delivered
  BY DEF EInv, Once
<1>2. QED BY <1>1, EnvInvariant, PTL DEF DeliveredOnce

-----------------------------------------------------------------------------
(* The loop of recv.                                                       *)

(* The envelopes that need a transaction set are of one slot: the set      *)
(* names the ledger it builds on (TxSetFrame::previousLedgerHash).         *)
OneSlot == \A i \in TxSet : \A e, f \in Env :
  i \in Needs[e] /\ i \in Needs[f] => SlotOf[e] = SlotOf[f]

(* Whoever still waits for the item of the loop is too old, or the item is *)
(* known and stays so: quorum sets do, and so does a set that is cached    *)
(* for the slot; and nothing is forgotten before SCP gets something.       *)
Held ==
  receiving # NoItem =>
    \A e \in tracker[receiving].waiting :
      \/ SlotOf[e] < Oldest
      \/ /\ receiving \in known
         /\ \/ receiving \in QSet
            \/ receiving \in TxSet /\ cached[receiving] >= SlotOf[e]
            \/ Poppable(upTo) = {}

(* A turn of the loop keeps this.                                          *)
LEMMA RecvHeld == ASSUME OneSlot, EInv, Held, recv PROVE Held'
<1>0. TypeOK /\ Tracked
  BY DEF EInv
<1>1. receiving \in Item /\ receiving # NoItem /\ tracker[receiving] \in Tracker
  BY <1>0 DEF recv, TypeOK
<1>2. UNCHANGED <<known, next>> /\ Oldest' = Oldest /\ Oldest \in Nat
  BY <1>0, OldestFacts DEF recv, Oldest, TypeOK
<1>3. CASE receiving' = NoItem
  BY <1>3 DEF Held
<1>4. CASE /\ \E e \in tracker[receiving].waiting :
                recvSCPEnvelope(e, [tracker EXCEPT ![receiving].waiting = @ \ {e}])
           /\ UNCHANGED receiving
  <2>1. PICK e \in tracker[receiving].waiting :
          recvSCPEnvelope(e, [tracker EXCEPT ![receiving].waiting = @ \ {e}])
    BY <1>4, Zenon
  <2> DEFINE tr == [tracker EXCEPT ![receiving].waiting = @ \ {e}]
             missing == Needs[e] \ known
  <2>2. /\ e \in Env /\ receiving \in Needs[e] /\ e \notin discarded
        /\ SlotOf[e] \in Nat \ {0} /\ Needs[e] \subseteq Item
    BY <1>0, <1>1, EnvAssumption, ItemAssumption DEF Tracked, Tracker
  <2>3. tr[receiving].waiting = tracker[receiving].waiting \ {e}
    BY <1>0, <1>1 DEF TypeOK, Tracker
  <2>4. SlotOf[e] < Oldest \/ receiving \in known
    BY <1>1, <2>1 DEF Held
  <2>5. CASE Refuse(e, tr)
    <3>1. tracker' = tr /\ UNCHANGED <<cached, upTo, ready>>
      BY <2>5 DEF Refuse, envelopes
    <3>2. Poppable(upTo)' = {}
      BY <3>1 DEF recv, Poppable
    <3> HIDE DEF tr
    <3>3. \A x \in tracker'[receiving].waiting : SlotOf[x] < Oldest \/ receiving \in known
      BY <1>1, <2>3, <3>1 DEF Held
    <3>4. QED BY <1>2, <1>4, <3>2, <3>3 DEF Held
  <2>6. CASE Accept(e, tr)
    <3>1. receiving \in known
      BY <1>2, <2>2, <2>4, <2>6 DEF InRange, Accept
    <3>2. /\ touchFetchCache(e)
          /\ \/ tracker' = tr
             \/ \E f \in startFetch(e, tr, missing) :
                  tracker' = [i \in Item |-> IF i \in missing THEN f[i] ELSE tr[i]]
      BY <2>6, Zenon DEF Accept
    <3> HIDE DEF tr
    <3>3. tracker'[receiving] = tr[receiving]
      BY <1>1, <2>2, <3>1, <3>2
    <3> SUFFICES ASSUME NEW x \in tracker[receiving].waiting
                 PROVE  \/ receiving \in QSet
                        \/ receiving \in TxSet /\ cached'[receiving] >= SlotOf[x]
      BY <1>2, <1>4, <2>3, <3>1, <3>3, Zenon DEF Held
    <3>4. x \in Env /\ receiving \in Needs[x]
      BY <1>0, <1>1 DEF Tracked, Tracker
    <3>5. CASE receiving \in TxSet
      <4>1. SlotOf[x] = SlotOf[e]
        BY <2>2, <3>4, <3>5 DEF OneSlot
      <4>2. cached'[receiving] = Later(cached[receiving], SlotOf[e])
        BY <2>2, <3>1, <3>2, <3>5 DEF touchFetchCache
      <4>3. cached[receiving] \in Nat \cup {-1}
        BY <1>0, <3>5 DEF TypeOK
      <4>4. cached'[receiving] >= SlotOf[e]
        BY <2>2, <4>2, <4>3 DEF Later
      <4>5. QED BY <3>5, <4>1, <4>4
    <3>6. QED BY <1>1, <3>5 DEF Item
  <2>7. QED BY <2>1, <2>5, <2>6 DEF recvSCPEnvelope
<1>5. QED BY <1>3, <1>4 DEF recv

(* So does SCP when it gets an envelope.                                   *)
LEMMA PopHeld == ASSUME EInv, Held, Pop PROVE Held'
<1>0. TypeOK /\ Tracked
  BY DEF EInv
<1> DEFINE oldest == getMinLedgerSeqToRemember(next)
<1>1. /\ Poppable(upTo) # {}
      /\ \/ /\ cached' = [i \in TxSet |-> IF Evicted(i, oldest) THEN -1 ELSE cached[i]]
            /\ next' = next + 1
         \/ UNCHANGED <<next, cached>>
      /\ \A i \in known : i \in QSet \/ (i \in TxSet /\ cached'[i] # -1) => i \in known'
      /\ UNCHANGED <<tracker, receiving, upTo>>
  BY Zenon DEF Pop, ValueExternalized
<1>2. Oldest \in Nat /\ oldest \in Nat /\ Oldest <= oldest
  BY <1>0, OldestFacts DEF TypeOK
<1>3. Oldest' = IF next' = next THEN Oldest ELSE oldest
  BY <1>0, <1>1 DEF Oldest, TypeOK
<1> HIDE DEF oldest
<1> SUFFICES ASSUME receiving # NoItem, NEW e \in tracker[receiving].waiting
             PROVE  \/ SlotOf[e] < Oldest'
                    \/ /\ receiving \in known'
                       /\ \/ receiving \in QSet
                          \/ receiving \in TxSet /\ cached'[receiving] >= SlotOf[e]
  BY <1>1, Zenon DEF Held
<1>4. receiving \in Item /\ e \in Env /\ SlotOf[e] \in Nat \ {0}
  BY <1>0, EnvAssumption DEF TypeOK, Tracker
<1>5. CASE SlotOf[e] < Oldest
  BY <1>2, <1>3, <1>4, <1>5
<1>6. CASE receiving \in known /\ receiving \in QSet
  BY <1>1, <1>6
<1>7. CASE receiving \in known /\ receiving \in TxSet /\ cached[receiving] >= SlotOf[e]
  <2>1. cached[receiving] \in Nat \ {0}
    BY <1>0, <1>4, <1>7 DEF TypeOK
  <2>2. CASE UNCHANGED <<next, cached>>
    BY <1>1, <1>7, <2>1, <2>2
  <2>3. CASE /\ cached' = [i \in TxSet |-> IF Evicted(i, oldest) THEN -1 ELSE cached[i]]
             /\ next' = next + 1
    <3>1. Oldest' = oldest
      BY <1>0, <1>3, <2>3 DEF TypeOK
    <3>2. CASE Evicted(receiving, oldest)
      BY <1>2, <1>4, <1>7, <2>1, <3>1, <3>2 DEF Evicted
    <3>3. CASE ~Evicted(receiving, oldest)
      <4>1. cached'[receiving] = cached[receiving]
        BY <1>7, <2>3, <3>3
      <4>2. QED BY <1>1, <1>7, <2>1, <4>1
    <3>4. QED BY <3>2, <3>3
  <2>4. QED BY <1>1, <2>2, <2>3
<1>8. QED BY <1>1, <1>5, <1>6, <1>7 DEF Held

(* And so does every step.                                                 *)
LEMMA HeldNext == ASSUME OneSlot PROVE EInv /\ Held /\ [Next]_vars => Held'
<1> SUFFICES ASSUME EInv, Held, [Next]_vars PROVE Held'
  OBVIOUS
<1>1. ASSUME NEW i, NEW slot, Idle, addItem(i, slot), UNCHANGED upTo
      PROVE  Held'
  <2>1. i \in known' /\ receiving' \in {i, NoItem}
    BY <1>1 DEF addItem
  <2>2. Poppable(upTo)' = {}
    BY <1>1 DEF addItem, Idle, Poppable, envelopes
  <2>3. QED BY <2>1, <2>2 DEF Held
<1>2. CASE UNCHANGED vars
  BY <1>2, Zenon DEF Held, vars, envelopes, Oldest, Poppable
<1>3. ASSUME NEW i \in Item, ReceiveItem(i) \/ triggerNextLedger(i) PROVE Held'
  <2>1. CASE i \in QSet \ Sane /\ discardSCPEnvelopesWithQSet(i) /\ Idle
    BY <2>1 DEF discardSCPEnvelopesWithQSet, Idle, Held
  <2>2. QED BY <1>1, <1>3, <2>1 DEF ReceiveItem, triggerNextLedger
<1>4. ASSUME NEW i \in Item, TimerFires(i) \/ \E p \in Peer : doesntHave(i, p)
      PROVE  Held'
  BY <1>4 DEF TimerFires, doesntHave, TryNextPeer, Idle, Held
<1>5. ASSUME NEW e \in Env, ReceiveEnvelope(e) PROVE Held'
  BY <1>5 DEF ReceiveEnvelope, Idle, Held
<1>6. ASSUME NEW k \in {"qset", "txset"}, stopFetchingBelowInternal(k) PROVE Held'
  BY <1>6 DEF stopFetchingBelowInternal, Idle, Held
<1>7. CASE processSCPQueueSomeMore
  BY <1>7 DEF processSCPQueueSomeMore, Idle, Held
<1>8. QED BY <1>2, <1>3, <1>4, <1>5, <1>6, <1>7, PopHeld, RecvHeld DEF Next

(* The loop of ItemFetcher::recv ends: the item it goes through stays      *)
(* known while envelopes of remembered slots wait for it, however many     *)
(* slots SCP closes within the loop (HerderImpl::recvTxSet,                *)
(* PendingEnvelopes::slotClosed and touchFetchCache).                      *)
THEOREM LoopEndsAlways == ASSUME OneSlot PROVE Spec => []LoopEnds
<1>1. Init => Held
  BY DEF Init, Held
<1>2. Held => LoopEnds
  BY DEF Held, LoopEnds
<1>3. EInv /\ Held /\ [Next]_vars => Held'
  BY HeldNext
<1>4. QED BY <1>1, <1>2, <1>3, EnvInvariant, PTL DEF Spec
=============================================================================
