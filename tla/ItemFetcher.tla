----------------------------- MODULE ItemFetcher -----------------------------
(***************************************************************************)
(* The trackers of the items (quorum sets and transaction sets) that       *)
(* envelopes wait for: which peer was asked, and who waits.  An operator   *)
(* here is a method of Tracker or ItemFetcher, on the value of a tracker.  *)
(*                                                                         *)
(* Which peers are known to have an envelope, and which of them are close, *)
(* is not modelled: any peer that may be asked can be the next one.        *)
(***************************************************************************)
EXTENDS Integers

CONSTANTS
  Env,      \* the envelopes
  SlotOf,   \* SlotOf[e]: the slot of envelope e
  Peer      \* the authenticated peers

ASSUME EnvAssumption == SlotOf \in [Env -> Nat \ {0}]

NoPeer == "none"
ASSUME PeerAssumption == NoPeer \notin Peer

(* asked[p]: mPeersAsked, with "claimed" for a peer that was thought to    *)
(* have the item when it was asked.                                        *)
Tracker ==
  [on : BOOLEAN,             \* whether mTrackers has it
   waiting : SUBSET Env,     \* mWaitingEnvelopes
   seen : Nat,               \* mLastSeenSlotIndex
   timer : BOOLEAN,          \* whether mTimer runs
   last : Peer \cup {NoPeer},\* mLastAskedPeer
   asked : [Peer -> {"no", "asked", "claimed"}]]

NotAsked == [p \in Peer |-> "no"]
NoTracker == [on |-> FALSE, waiting |-> {}, seen |-> 0, timer |-> FALSE,
              last |-> NoPeer, asked |-> NotAsked]

listen(t, e) ==
  [t EXCEPT !.on = TRUE, !.waiting = @ \cup {e},
            !.seen = IF SlotOf[e] > @ THEN SlotOf[e] ELSE @]

cancel(t) == [t EXCEPT !.timer = FALSE, !.seen = 0]

(* Asks p; how: whether p was thought to have the item.                    *)
ask(t, p, how) ==
  [t EXCEPT !.timer = TRUE, !.last = p, !.asked[p] = how]

(* What tryNextPeer may do.  Peers with one of the waiting envelopes come  *)
(* first, even when asked before they had it.                              *)
tryNextPeerOnce(t) ==
  LET fresh == {p \in Peer : t.asked[p] = "no"}
      having == IF t.waiting = {} THEN {}
                ELSE {p \in Peer : t.asked[p] # "claimed"}
      restart == [t EXCEPT !.timer = TRUE, !.last = NoPeer]
  IN  {ask(t, p, "claimed") : p \in having} \cup
      (IF fresh # {} THEN {ask(t, p, "asked") : p \in fresh} ELSE {restart})
tryNextPeer(t) ==
  LET fresh == {p \in Peer : t.asked[p] = "no"}
      having == IF t.waiting = {} THEN {}
                ELSE {p \in Peer : t.asked[p] # "claimed"}
      restart == [t EXCEPT !.timer = TRUE, !.last = NoPeer, !.asked = NotAsked]
  IN  {ask(t, p, "claimed") : p \in having} \cup
      (IF fresh # {} THEN {ask(t, p, "asked") : p \in fresh} ELSE {restart})

(* ItemFetcher's fetch of an item for e.                                   *)
fetch(t, e) == IF t.on THEN {listen(t, e)} ELSE tryNextPeer(listen(t, e))

(* stopFetch of an item for each envelope of S, one after the other.       *)
stopFetch(t, S) ==
  LET left == [t EXCEPT !.waiting = @ \ S]
  IN  IF t.on /\ S # {} /\ left.waiting = {} THEN cancel(left) ELSE left

(* A tracker of stopFetchingBelow: none is left when nobody waits.         *)
clearEnvelopesBelow(t, slot) ==
  LET left == {e \in t.waiting : SlotOf[e] >= slot}
  IN  IF left = {} THEN NoTracker ELSE [t EXCEPT !.waiting = left]
=============================================================================
