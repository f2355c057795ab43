-------------------------- MODULE TransactionQueue --------------------------
(***************************************************************************)
(* The transactions a node has received and not yet seen applied: a queue  *)
(* per source account, in the order of sequence numbers, with the fees its *)
(* transactions may cost each fee source, the size in operations, the age  *)
(* of the queue in ledgers, and the transactions that are banned.          *)
(*                                                                         *)
(* An operator here takes a queue and returns the queue that the method of *)
(* its name leaves.  The methods go through the accounts one after the     *)
(* other; what they do to one does not depend on the order, and is done    *)
(* at once here.                                                           *)
(***************************************************************************)
EXTENDS Integers, Sequences, FiniteSets, Functions

CONSTANTS
  Account,
  Tx,            \* the transactions, by their full hashes
  SourceID, FeeSourceID, SeqNum, FeeBid, NumOperations,   \* of each transaction
  Inner,         \* Inner[t]: the transaction that fee bump t wraps, or NoTx
  Balances,      \* Balances[a]: the available balances account a may have,
                 \* as ledgers close that charge fees and move payments
  Limits,        \* what maxQueueSizeOps may say, as upgrades change the header
  PendingDepth, BanDepth

FEE_MULTIPLIER == 10
NoTx == "none"

ASSUME TxAssumption ==
  /\ NoTx \notin Tx
  /\ SourceID \in [Tx -> Account] /\ FeeSourceID \in [Tx -> Account]
  /\ SeqNum \in [Tx -> Nat \ {0}] /\ FeeBid \in [Tx -> Nat \ {0}]
  /\ NumOperations \in [Tx -> Nat \ {0}] /\ Inner \in [Tx -> Tx \cup {NoTx}]
ASSUME LedgerAssumption ==
  /\ Balances \in [Account -> SUBSET Nat] /\ Limits \subseteq Nat
ASSUME DepthAssumption == PendingDepth \in Nat \ {0} /\ BanDepth \in Nat \ {0}

VARIABLES
  queue,    \* the TransactionQueue
  seq,      \* seq[a]: the sequence number of account a in the last closed ledger
  decided   \* decided[a]: the one in the last ledger that consensus decided

vars == <<queue, seq, decided>>

AccountState == [mTotalFees : Nat, mQueueSizeOps : Nat, mAge : 0..PendingDepth - 1,
                 mTransactions : Seq(Tx)]
NewState == [mTotalFees |-> 0, mQueueSizeOps |-> 0, mAge |-> 0, mTransactions |-> <<>>]

TypeOK ==
  /\ DOMAIN queue.mAccountStates \subseteq Account
  /\ \A a \in DOMAIN queue.mAccountStates : queue.mAccountStates[a] \in AccountState
  /\ queue.mQueueSizeOps \in Nat
  /\ queue.mSizeByAge \in [0..PendingDepth - 1 -> Nat]
  /\ queue.mBannedTransactions \in [1..BanDepth -> SUBSET Tx]
  /\ seq \in [Account -> Nat] /\ decided \in [Account -> Nat]

-----------------------------------------------------------------------------
Transactions(q, a) ==
  IF a \in DOMAIN q.mAccountStates THEN q.mAccountStates[a].mTransactions ELSE <<>>
QueuedOf(q, a) == Range(Transactions(q, a))
Queued(q) == UNION {QueuedOf(q, a) : a \in Account}
TotalFees(q, a) ==
  IF a \in DOMAIN q.mAccountStates THEN q.mAccountStates[a].mTotalFees ELSE 0

isBannedLately(q, t) == t \in q.mBannedTransactions[1]
isBanned(q, t) == \E i \in 1..BanDepth : t \in q.mBannedTransactions[i]

(* The transactions of the source of t that have its sequence number: one  *)
(* or none.  InOrder: findBySeq finds it, or the end of the queue.         *)
Same(q, t) == {o \in QueuedOf(q, SourceID[t]) : SeqNum[o] = SeqNum[t]}
InOrderAbove(q, t) ==
  LET s == Transactions(q, SourceID[t])
  IN  SeqNum[t] <= SeqNum[s[Len(s)]] + 1
InOrder(q, t) ==
  LET s == Transactions(q, SourceID[t])
  IN  SeqNum[t] \in SeqNum[s[1]]..SeqNum[s[Len(s)]] + 1

isDuplicateTx(o, t) == o = t \/ (Inner[t] = NoTx /\ Inner[o] = t)

canReplaceByFee(t, o) ==
  FeeBid[t] * NumOperations[o] >= FEE_MULTIPLIER * FeeBid[o] * NumOperations[t]

(* What t replaces: only a fee bump replaces.                              *)
Replaced(q, t) == IF Inner[t] = NoTx THEN {} ELSE Same(q, t)

(* The checks of canAdd up to the size of the queue, and those after it.   *)
PassesQueue(q, t) ==
  /\ ~isBanned(q, t)
  /\ Transactions(q, SourceID[t]) # <<>> =>
       /\ \A o \in Same(q, t) : ~isDuplicateTx(o, t)
       /\ Inner[t] # NoTx => InOrder(q, t)
       /\ \A o \in Replaced(q, t) : canReplaceByFee(t, o)
Fits(q, t, maxQueueSizeOps) ==
  NumOperations[t] - SumFunctionOnSet(NumOperations, Replaced(q, t)) + q.mQueueSizeOps
    <= maxQueueSizeOps
GoodSeq(q, t) ==
  LET s == Transactions(q, SourceID[t])
  IN  IF s = <<>> THEN SeqNum[t] = seq[SourceID[t]] + 1
      ELSE Inner[t] # NoTx \/ SeqNum[t] = SeqNum[s[Len(s)]] + 1
Affords(q, t, balance) ==
  LET freed == {o \in Replaced(q, t) : FeeSourceID[o] = FeeSourceID[t]}
      netFee == FeeBid[t] - SumFunctionOnSet(FeeBid, freed)
  IN  balance - netFee >= TotalFees(q, FeeSourceID[t])

-----------------------------------------------------------------------------
(* Fees that the transactions of D may cost account a.                     *)
FeesOf(D, a) == SumFunctionOnSet(FeeBid, {t \in D : FeeSourceID[t] = a})

(* An account without transactions goes with the last fee it may owe.      *)
releaseFeeMaybeEraseAccountState(states) ==
  [a \in {x \in DOMAIN states : states[x].mTransactions # <<>> \/ states[x].mTotalFees # 0} |->
     states[a]]

(* tryAdd, once canAdd has said ADD_STATUS_PENDING.                        *)
Add(q, t) ==
  LET old == Replaced(q, t)
      s == SourceID[t]
      State(a) == IF a \in DOMAIN q.mAccountStates THEN q.mAccountStates[a] ELSE NewState
      New(a) ==
        [State(a) EXCEPT
           !.mTotalFees = @ - FeesOf(old, a) + FeesOf({t}, a),
           !.mQueueSizeOps = IF a # s THEN @ ELSE
              @ - SumFunctionOnSet(NumOperations, old) + NumOperations[t],
           !.mTransactions = IF a # s THEN @ ELSE IF old = {} THEN Append(@, t) ELSE
              [i \in DOMAIN State(a).mTransactions |->
                 IF State(a).mTransactions[i] \in old THEN t ELSE State(a).mTransactions[i]]]
  IN  [q EXCEPT
         !.mAccountStates = releaseFeeMaybeEraseAccountState(
            [a \in DOMAIN q.mAccountStates \cup {s, FeeSourceID[t]} |-> New(a)]),
         !.mQueueSizeOps = @ - SumFunctionOnSet(NumOperations, old) + NumOperations[t],
         !.mSizeByAge[State(s).mAge] = IF old = {} THEN @ + 1 ELSE @]

(* What account a loses when its queue becomes rest[a], and the fees that  *)
(* are released for it when every queue q becomes rest.                    *)
Dropped(q, rest, a) == QueuedOf(q, a) \ Range(rest[a])
ReleasedToSource(q, rest, a) == SumFunctionOnSet(FeeBid, Dropped(q, rest, a))
Released(q, rest, a) == FeesOf(UNION {Dropped(q, rest, b) : b \in DOMAIN rest}, a)

dropTransactions(q, rest) ==
  LET states == q.mAccountStates
      Ops(a) == SumFunctionOnSet(NumOperations, Dropped(q, rest, a))
  IN  [q EXCEPT
         !.mAccountStates = releaseFeeMaybeEraseAccountState([a \in DOMAIN states |->
            [mTotalFees |-> states[a].mTotalFees - Released(q, rest, a),
             mQueueSizeOps |-> states[a].mQueueSizeOps - Ops(a),
             mAge |-> IF rest[a] = <<>> THEN 0 ELSE states[a].mAge,
             mTransactions |-> rest[a]]]),
         !.mQueueSizeOps = @ - SumFunctionOnSet([a \in DOMAIN states |-> Ops(a)],
                                                DOMAIN states)]

(* How many transactions the accounts of S have in all, by a map of them.  *)
CountAccounts(txs, S) == Cardinality({a \in S : txs[a] # <<>>})
Count(txs, S) == SumFunctionOnSet([a \in S |-> Len(txs[a])], S)

(* Drops whatever the applied transactions have used or made obsolete.     *)
removeApplied(q, applied) ==
  LET states == q.mAccountStates
      txs == [a \in DOMAIN states |-> states[a].mTransactions]
      Top(a) == {t \in applied : SourceID[t] = a /\
                   \A u \in applied : SourceID[u] = a => SeqNum[u] <= SeqNum[t]}
      hit == {a \in DOMAIN states :
                txs[a] # <<>> /\ \E t \in Top(a) : SeqNum[txs[a][1]] <= SeqNum[t]}
      rest == [a \in DOMAIN states |->
                IF a \notin hit THEN txs[a] ELSE
                LET top == SeqNum[CHOOSE t \in Top(a) : TRUE]
                IN  SubSeq(txs[a], top - SeqNum[txs[a][1]] + 2, Len(txs[a]))]
      sizes == [i \in DOMAIN q.mSizeByAge |->
                 q.mSizeByAge[i] - Count(txs, {a \in hit : states[a].mAge = i})
                   + (IF i = 0 THEN Count(rest, hit) ELSE 0)]
      reset == [a \in DOMAIN states |->
                 IF a \in hit THEN [states[a] EXCEPT !.mAge = 0] ELSE states[a]]
  IN  dropTransactions([q EXCEPT !.mAccountStates = reset, !.mSizeByAge = sizes], rest)

(* What is left of a queue: all before the first that is banned.           *)
UpToBanned(s, S) ==
  SubSeq(s, 1, CHOOSE n \in 0..Len(s) : (\A i \in 1..n : s[i] \notin S)
                                        /\ (n = Len(s) \/ s[n + 1] \in S))

(* Bans the transactions of S and those that follow one of them.           *)
ban(q, S) ==
  LET states == q.mAccountStates
      txs == [a \in DOMAIN states |-> states[a].mTransactions]
      rest == [a \in DOMAIN states |-> UpToBanned(txs[a], S)]
      sizes == [i \in DOMAIN q.mSizeByAge |->
                 LET aged == {a \in DOMAIN states : states[a].mAge = i}
                 IN  q.mSizeByAge[i] - Count(txs, aged) + Count(rest, aged)]
      follow == UNION {Dropped(q, rest, a) : a \in DOMAIN states}
  IN  dropTransactions([q EXCEPT !.mSizeByAge = sizes,
                                 !.mBannedTransactions[1] = @ \cup S \cup follow], rest)

OlderModulo(state) == (state.mAge + 1) % PendingDepth
Older(state) == IF state.mTransactions # <<>> THEN state.mAge + 1 ELSE state.mAge

(* A ledger older: bans end, and queues that have waited too long go.      *)
shift(q) ==
  LET states == q.mAccountStates
      txs == [a \in DOMAIN states |-> states[a].mTransactions]
      age == [a \in DOMAIN states |-> Older(states[a])]
      late == {a \in DOMAIN states : age[a] = PendingDepth}
      rest == [a \in DOMAIN states |-> IF a \in late THEN <<>> ELSE txs[a]]
      sizes == [i \in DOMAIN q.mSizeByAge |-> Count(txs, {a \in DOMAIN states : age[a] = i})]
      banned == [i \in 1..BanDepth |->
                  IF i = 1 THEN UNION {Range(txs[a]) : a \in late}
                  ELSE q.mBannedTransactions[i - 1]]
  IN  dropTransactions(
        [q EXCEPT !.mAccountStates = [a \in DOMAIN states |-> [states[a] EXCEPT !.mAge = age[a]]],
                  !.mSizeByAge = sizes, !.mBannedTransactions = banned], rest)

-----------------------------------------------------------------------------
(* The last closed ledger is read anew: balances and the limit may differ  *)
(* from those that earlier transactions were added under.                  *)
tryAdd(t) ==
  /\ PassesQueue(queue, t)
  /\ \/ /\ \E limit \in Limits : ~Fits(queue, t, limit)
        /\ queue' = ban(queue, {t})
     \/ /\ \E limit \in Limits : Fits(queue, t, limit)
        /\ GoodSeq(queue, t)
        /\ \E balance \in Balances[FeeSourceID[t]] : Affords(queue, t, balance)
        /\ queue' = Add(queue, t)
  /\ UNCHANGED <<seq, decided>>

(* The transactions that consensus may put in the next ledger: from each   *)
(* account the next ones.  Those of the queue may be among them or not.    *)
Appliable ==
  {S \in SUBSET {t \in Tx : SeqNum[t] > decided[SourceID[t]]} :
     \A t \in S : \A n \in decided[SourceID[t]] + 1..SeqNum[t] :
       Cardinality({u \in S : SourceID[u] = SourceID[t] /\ SeqNum[u] = n}) = 1}
Decide(applied) ==
  decided' = [a \in Account |-> decided[a] + Cardinality({t \in applied : SourceID[t] = a})]

(* The ledger manager closes all the ledgers that were decided, or some of *)
(* them: those it has to buffer have no effect on the last closed one.     *)
CloseSome ==
  LET Reached(a) == seq[a]..decided'[a]
  IN  seq' \in {s \in [Account -> UNION {Reached(a) : a \in Account}] :
                   \A a \in Account : s[a] \in Reached(a)}

(* Consensus decides a ledger, and the transactions that are then found    *)
(* invalid go.                                                             *)
updateTransactionQueue ==
  \E applied \in Appliable :
    /\ Decide(applied)
    /\ LET next == shift(removeApplied(queue, applied))
       IN  \E invalid \in SUBSET Queued(next) : queue' = ban(next, invalid)
    /\ CloseSome

(* Ledgers are decided that the node does not hear of, and it closes what  *)
(* it lacks: in neither case is the queue told.                            *)
CatchUp ==
  \E applied \in Appliable :
    /\ Decide(applied) /\ CloseSome
    /\ UNCHANGED queue

(* The node makes a proposal, which finds some transactions invalid.       *)
triggerNextLedger ==
  \E invalid \in SUBSET Queued(queue) :
    /\ queue' = ban(queue, invalid)
    /\ UNCHANGED <<seq, decided>>

Init ==
  /\ queue = [mAccountStates |-> [a \in {} |-> NewState], mQueueSizeOps |-> 0,
              mSizeByAge |-> [i \in 0..PendingDepth - 1 |-> 0],
              mBannedTransactions |-> [i \in 1..BanDepth |-> {}]]
  /\ seq = [a \in Account |-> 0] /\ decided = seq

Next ==
  \/ \E t \in Tx : tryAdd(t)
  \/ updateTransactionQueue
  \/ CatchUp
  \/ triggerNextLedger

(* Ledgers go on closing while the queue has transactions.                 *)
LedgersClose ==
  []<>(Queued(queue) = {}) \/ []<><<updateTransactionQueue>>_vars

Spec == Init /\ [][Next]_vars /\ LedgersClose

-----------------------------------------------------------------------------
(* mAccountStates has the sources and the fee sources of what is queued,   *)
(* no others, however transactions were replaced or dropped; each with the *)
(* fees of the transactions it pays for, whoever's queue these are in, so  *)
(* that the assertion of releaseFeeMaybeEraseAccountState holds; and as    *)
(* shift says, "If mTransactions is empty then mAge is always 0".          *)
FeesExact == \A a \in Account :
  /\ a \in DOMAIN queue.mAccountStates <=>
       \E t \in Queued(queue) : SourceID[t] = a \/ FeeSourceID[t] = a
  /\ TotalFees(queue, a) = FeesOf(Queued(queue), a)
  /\ a \in DOMAIN queue.mAccountStates /\ QueuedOf(queue, a) = {} =>
       queue.mAccountStates[a].mAge = 0

(* mQueueSizeOps, of the queue and of each account, and mSizeByAge, which  *)
(* the methods update by differences, count the operations and the         *)
(* transactions of each age that are there; and mQueueSizeOps stays within *)
(* the largest limit that canAdd may have enforced.                        *)
SizesExact ==
  /\ TypeOK
  /\ \A a \in DOMAIN queue.mAccountStates : queue.mAccountStates[a].mQueueSizeOps =
       SumFunctionOnSet(NumOperations, QueuedOf(queue, a))
  /\ queue.mQueueSizeOps = SumFunctionOnSet(NumOperations, Queued(queue))
  /\ \E limit \in Limits : queue.mQueueSizeOps <= limit
  /\ \A i \in 0..PendingDepth - 1 :
       LET aged == {a \in DOMAIN queue.mAccountStates : queue.mAccountStates[a].mAge = i}
       IN  queue.mSizeByAge[i] = Cardinality(UNION {QueuedOf(queue, a) : a \in aged})

(* The sequence numbers of a queue have no gap, as findBySeq asserts, in   *)
(* spite of replacements, bans, ledgers that applied other transactions    *)
(* than the queue has, and ledgers the queue was not told of.              *)
Contiguous == \A a \in Account :
  LET s == Transactions(queue, a)
  IN  \A i \in DOMAIN s : SourceID[s[i]] = a /\ SeqNum[s[i]] = SeqNum[s[1]] + i - 1

(* What ban or shift has banned is not in the queue, and does not come     *)
(* back for as long as isBanned remembers it.                              *)
NotQueued == \A i \in 1..BanDepth : queue.mBannedTransactions[i] \cap Queued(queue) = {}

(* No transaction stays for ever while ledgers close: removeApplied resets *)
(* the age of a queue, but only for transactions ahead of those that stay. *)
Leaves == \A t \in Tx : t \in Queued(queue) ~> t \notin Queued(queue)
=============================================================================
