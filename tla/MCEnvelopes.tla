----------------------------- MODULE MCEnvelopes -----------------------------
(***************************************************************************)
(* One envelope whose quorum set is not sane and two others, of two slots, *)
(* that share a transaction set; only the first of two peers has the items.*)
(***************************************************************************)
EXTENDS PendingEnvelopes

MCSlotOf == [e \in Env |-> IF e = "d" THEN 3 ELSE 2]
MCNeeds == [e \in Env |-> IF e = "b" THEN {"bad", "t"} ELSE {"q", "t"}]
MCHas == [p \in Peer |-> IF p = "p1" THEN Item ELSE {}]
=============================================================================
