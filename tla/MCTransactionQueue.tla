------------------------- MODULE MCTransactionQueue -------------------------
(***************************************************************************)
(* Two accounts.  A has two transactions, the first of which can be bumped *)
(* by B or by A itself; B has one.                                         *)
(***************************************************************************)
EXTENDS TransactionQueue

MCSourceID == [t \in Tx |-> IF t = "b1" THEN "B" ELSE "A"]
MCFeeSourceID == [t \in Tx |-> IF t \in {"b1", "bumpB"} THEN "B" ELSE "A"]
MCSeqNum == [t \in Tx |-> IF t = "a2" THEN 2 ELSE 1]
MCFeeBid == [t \in Tx |-> IF t = "bumpA" THEN 20 ELSE IF t = "bumpB" THEN 40 ELSE 1]
MCNumOperations == [t \in Tx |-> IF t \in {"bumpA", "bumpB"} THEN 2 ELSE 1]
MCInner == [t \in Tx |-> IF t \in {"bumpA", "bumpB"} THEN "a1" ELSE NoTx]
MCBalances == [a \in Account |-> IF a = "A" THEN {1, 21} ELSE {1, 40}]
=============================================================================
