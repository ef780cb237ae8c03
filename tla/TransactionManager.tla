------------------------- MODULE TransactionManager -------------------------
(***************************************************************************)
(* The outgoing transactions of one signer of the relay server:            *)
(* relay/src/TransactionManager.ts over the persisted TxStoreManager.ts.   *)
(*                                                                         *)
(* Calls of sendTransaction run concurrently with each other and with the  *)
(* worker, which once per block marks the stored transactions that were    *)
(* mined, removes the archived ones and boosts the pending ones.  Every    *)
(* await of the code is a boundary between two actions.  The chain, its    *)
(* node and the gas market are external.                                   *)
(*                                                                         *)
(* Block numbers and timestamps are kept as ages, the blocks since, cut    *)
(* off where the code stops telling them apart; a block is one time unit.  *)
(***************************************************************************)
EXTENDS Integers, FiniteSets

CONSTANTS
    Requests,       \* calls of sendTransaction, each by one caller
    RequestFees,    \* the <<maxFeePerGas, maxPriorityFeePerGas>> they carry
    BaseFees,       \* base fees the gas market may ask for
    MinPriority,    \* network minimum for the priority fee
    MaxMaxFee,      \* config.maxMaxFeePerGas
    RetryFactor,    \* config.retryGasPriceFactor, in percent
    Timeout,        \* config.pendingTransactionTimeoutSeconds
    PruneBlocks,    \* config.dbPruneTxAfterBlocks
    PruneSeconds,   \* config.dbPruneTxAfterSeconds
    MaxLag,         \* blocks that may pass during one pass of the worker
    FaultKinds,     \* the faults that may happen ...
    MaxFaults       \* ... and how many of them in all

Larger(a, b) == IF a >= b THEN a ELSE b
Smaller(a, b) == IF a <= b THEN a ELSE b

\* From this age on the code treats every block alike.
Old == Larger(Timeout, Larger(PruneBlocks, PruneSeconds)) + MaxLag
Age == 0 .. Old
Older(age) == Smaller(age + 1, Old)

NotMined == -1
Nobody == "nobody"
NoFee == [newMaxFee |-> 0, newPriority |-> 0]

ASSUME TransactionManagerAssumption ==
    /\ IsFiniteSet(Requests) /\ Nobody \notin Requests
    /\ RequestFees \subseteq {f \in Nat \X Nat : f[2] <= f[1] /\ f[1] <= MaxMaxFee}
    /\ BaseFees \subseteq 0 .. MaxMaxFee /\ BaseFees # {}
    /\ {MinPriority, MaxMaxFee, RetryFactor, Timeout, PruneBlocks, PruneSeconds,
        MaxLag, MaxFaults} \subseteq Nat
    /\ FaultKinds \subseteq {"loss", "drop", "move", "drain", "crash"}
    /\ MinPriority <= MaxMaxFee

VARIABLES
    latest,     \* chain: the signer's account nonce
    mined,      \* chain: nonce -> the transaction mined with it and its age
    mempool,    \* node: the transactions waiting, at most one per nonce
    baseFee,    \* gas market
    funded,     \* whether the signer's balance covers a transaction
    store,      \* txstore.db: nonce -> stored transaction
    nonces,     \* this.nonces[signer], in memory only
    mutex,      \* who holds nonceMutex
    pc,         \* where each call of sendTransaction stands
    polled,     \* the pending count a call got from the node
    signed,     \* the transaction a call has signed
    worker,     \* the worker's pass
    faults      \* how many faults have happened

chainVars == <<latest, mined, mempool, baseFee, funded>>
callVars == <<mutex, pc, polled, signed>>
vars == <<latest, mined, mempool, baseFee, funded, store, nonces, mutex, pc,
          polled, signed, worker, faults>>

(***************************************************************************)
(* The chain and its node (external)                                       *)
(***************************************************************************)

\* A signed transaction; the hash of it, its txId, tells any two apart.
Tx(n, r, fee, priority) ==
    [nonce |-> n, req |-> r, maxFee |-> fee, priority |-> priority]
NoTx == Tx(0, Nobody, 0, 0)

\* getTransactionCount(signer) is latest; this is what the node answers to
\* getTransactionCount(signer, 'pending').
PendingNonces == {t.nonce : t \in mempool}
IsPendingCount(n) ==
    /\ n >= latest /\ n \notin PendingNonces
    /\ \A k \in latest .. n - 1 : k \in PendingNonces

\* One more fault of a kind.
Fault(kind) == kind \in FaultKinds /\ faults < MaxFaults /\ faults' = faults + 1

\* The node replaces a waiting transaction only by one that pays more in both.
Accepts(t) ==
    /\ t.nonce >= latest
    /\ \A o \in mempool : o.nonce = t.nonce =>
           o.maxFee < t.maxFee /\ o.priority < t.priority

With(f, n, v) == [k \in DOMAIN f \cup {n} |-> IF k = n THEN v ELSE f[k]]

\* Putting t in the mempool, in the place of the one it replaces.
Enter(t) == {o \in mempool : o.nonce # t.nonce} \cup {t}

(***************************************************************************)
(* What the manager computes                                               *)
(***************************************************************************)

\* _resolveNewGasPrice: the retry factor, the minimums, then the caps.
Raised(fee) == (fee * RetryFactor + 50) \div 100
\* Mutant: the old price is sent again.
NewGasPriceAsOld(oldFee, oldPriority, minFee) ==
    [newMaxFee |-> oldFee, newPriority |-> oldPriority]
NewGasPrice(oldFee, oldPriority, minFee) ==
    LET fee == Smaller(Larger(Raised(oldFee), minFee), MaxMaxFee)
    IN  [newMaxFee |-> fee,
         newPriority |-> Smaller(Larger(Raised(oldPriority), MinPriority), fee)]

\* getTxsInNonceRange(signer, n), as the set of nonces it returns.
\* Mutant: the range leaves its first nonce out.
StoredAfter(n) == {k \in DOMAIN store : k > n}
StoredFrom(n) == {k \in DOMAIN store : k >= n}
Oldest(S) == CHOOSE k \in S : \A j \in S : k <= j

TxOf(n) == Tx(n, store[n].req, store[n].maxFee, store[n].priority)

\* Ages as the worker sees them, counted from the block it was woken for.
Since(age) == age - worker.lag

Underpriced(n) ==
    \/ store[n].maxFee < worker.fees.newMaxFee
    \/ store[n].priority < worker.fees.newPriority

Idle == [at |-> "idle", todo |-> {}, lag |-> 0, nonce |-> 0, fees |-> NoFee]

Init ==
    /\ latest = 0 /\ mined = <<>> /\ mempool = {} /\ baseFee \in BaseFees /\ funded = TRUE
    /\ store = <<>>
    /\ nonces = 0
    /\ mutex = Nobody
    /\ pc = [r \in Requests |-> "new"]
    /\ polled = [r \in Requests |-> 0]
    /\ signed = [r \in Requests |-> NoTx]
    /\ worker = Idle
    /\ faults = 0


(***************************************************************************)
(* sendTransaction                                                         *)
(***************************************************************************)
Going(r, from, to) == pc[r] = from /\ pc' = [pc EXCEPT ![r] = to]

\* The fee, gas and balance checks, which throw when the balance does not cover
\* the transaction, and the wait for the mutex.
Acquire(r) ==
    /\ \/ ~funded /\ Going(r, "new", "failed") /\ UNCHANGED mutex
       \/ funded /\ Going(r, "new", "locked") /\ mutex = Nobody /\ mutex' = r
    /\ UNCHANGED <<chainVars, store, nonces, polled, signed, worker, faults>>

\* pollNonce: the node counts ...
Poll(r) ==
    /\ Going(r, "locked", "counted")
    /\ \E n \in latest .. latest + Cardinality(mempool) :
           IsPendingCount(n) /\ polled' = [polled EXCEPT ![r] = n]
    /\ UNCHANGED <<chainVars, store, nonces, mutex, signed, worker, faults>>

\* ... and the manager takes the larger count, signs and stores.
PutNew(r, n) ==
    /\ Going(r, "counted", "stored")
    /\ \E f \in RequestFees :
           /\ signed' = [signed EXCEPT ![r] = Tx(n, r, f[1], f[2])]
           /\ store' = With(store, n,
                  [req |-> r, maxFee |-> f[1], priority |-> f[2],
                   sentAge |-> 0, minedAge |-> NotMined])

\* The unique index on the nonce refuses a second record.
Insert(r, n) ==
    \/ n \notin DOMAIN store /\ PutNew(r, n)
    \/ /\ n \in DOMAIN store /\ Going(r, "counted", "failed")
       /\ UNCHANGED <<store, signed>>

\* Mutants: an existing record is overwritten; the mutex is not released.
SignOverwriting(r) ==
    LET n == Larger(nonces, polled[r])
    IN  /\ PutNew(r, n) /\ nonces' = n + 1 /\ mutex' = Nobody
        /\ polled' = [polled EXCEPT ![r] = 0]
        /\ UNCHANGED <<chainVars, worker, faults>>
SignKeepingMutex(r) ==
    LET n == Larger(nonces, polled[r])
    IN  /\ Insert(r, n) /\ nonces' = n + 1
        /\ polled' = [polled EXCEPT ![r] = 0]
        /\ UNCHANGED <<chainVars, mutex, worker, faults>>

\* The nonce counts as used before the store is asked, and whatever the store
\* answers the mutex is released.
Sign(r) ==
    LET n == Larger(nonces, polled[r])
    IN  /\ Insert(r, n) /\ nonces' = n + 1 /\ mutex' = Nobody
        /\ polled' = [polled EXCEPT ![r] = 0]
        /\ UNCHANGED <<chainVars, worker, faults>>

\* broadcastTransaction, for the caller or for the worker: the node takes the
\* transaction, refuses it, or the call fails with or without its having been
\* taken.
Taken(t) == Accepts(t) /\ mempool' = Enter(t) /\ UNCHANGED faults
Refused(t) ==
    \/ ~Accepts(t) /\ UNCHANGED <<mempool, faults>>
    \/ /\ Fault("loss")
       /\ mempool' \in {mempool} \cup {Enter(u) : u \in {v \in {t} : Accepts(v)}}

Broadcast(r) ==
    /\ \/ Taken(signed[r]) /\ Going(r, "stored", "sent")
       \/ Refused(signed[r]) /\ Going(r, "stored", "failed")
    /\ signed' = [signed EXCEPT ![r] = NoTx]
    /\ UNCHANGED <<latest, mined, baseFee, funded, store, nonces, mutex, polled, worker>>

(***************************************************************************)
(* The worker's pass: fill, prune, boost                                   *)
(***************************************************************************)
At(place) == worker.at = place
KeepOthers == UNCHANGED <<latest, mined, baseFee, funded, nonces, callVars>>

WorkerWakes ==
    /\ At("idle") /\ DOMAIN store # {}
    /\ worker' = [worker EXCEPT !.at = "fill", !.todo = DOMAIN store]
    /\ UNCHANGED <<store, mempool, faults>> /\ KeepOthers

\* fillMinedBlockDetailsForTransactions, one stored transaction: the receipt of
\* its txId is asked for unless it has a block that is not yet old.
Receipt(n) == n < latest /\ mined[n].tx = TxOf(n)
ShouldRecheck(n) ==
    \/ store[n].minedAge = NotMined
    \/ Since(store[n].minedAge) >= PruneBlocks
Fill ==
    /\ At("fill") /\ worker.todo # {}
    /\ LET n == Oldest(worker.todo)
       IN  /\ worker' = [worker EXCEPT !.todo = @ \ {n}]
           /\ store' = IF ShouldRecheck(n) /\ Receipt(n)
                       THEN [store EXCEPT ![n].minedAge = mined[n].age]
                       ELSE store
    /\ UNCHANGED <<mempool, faults>> /\ KeepOthers

\* removeArchivedTransactions: old by block and by time.
\* Mutant: what counts is when the transaction was sent.
ArchivedBySending(n) == Since(store[n].sentAge) >= Larger(PruneBlocks, PruneSeconds)
Archived(n) ==
    /\ store[n].minedAge # NotMined
    /\ Since(store[n].minedAge) >= PruneBlocks
    /\ Since(store[n].minedAge) >= PruneSeconds
RemoveArchived ==
    /\ At("fill") /\ worker.todo = {}
    /\ store' = [n \in {k \in DOMAIN store : ~Archived(k)} |-> store[n]]
    /\ worker' = [worker EXCEPT !.at = "count"]
    /\ UNCHANGED <<mempool, faults>> /\ KeepOthers

\* boostUnderpricedPendingTransactionsForSigner: the account nonce first ...
BoostCount ==
    /\ At("count")
    /\ worker' = [worker EXCEPT !.at = "load", !.nonce = latest]
    /\ UNCHANGED <<store, mempool, faults>> /\ KeepOthers

\* ... then the stored transactions from that nonce on.  Nothing to do, a
\* missing nonce (thrown) and an oldest one sent recently end the pass.
BoostLoad ==
    /\ At("load")
    /\ LET pending == StoredFrom(worker.nonce)
           o == Oldest(pending)
       IN  worker' = IF \/ pending = {} \/ o # worker.nonce
                        \/ Since(store[o].sentAge) < Timeout
                     THEN Idle
                     ELSE [worker EXCEPT !.at = "boost", !.todo = pending,
                             !.fees = NewGasPrice(store[o].maxFee,
                                                  store[o].priority, baseFee)]
    /\ UNCHANGED <<store, mempool, faults>> /\ KeepOthers

\* resendTransaction up to the store's update.  Without balance the boosting
\* pauses; a transaction that need not be boosted is passed over.
NextBoost(n) ==
    IF worker.todo = {n} THEN Idle
    ELSE [worker EXCEPT !.at = "boost", !.todo = @ \ {n}]
Resend(n) ==
    /\ store' = [store EXCEPT ![n].sentAge = worker.lag,
                              ![n].maxFee = IF Underpriced(n) THEN worker.fees.newMaxFee ELSE @,
                              ![n].priority = IF Underpriced(n) THEN worker.fees.newPriority ELSE @]
    /\ worker' = [worker EXCEPT !.at = IF Underpriced(n) THEN "boosting" ELSE "repeating"]
BoostOne ==
    /\ At("boost")
    /\ LET n == Oldest(worker.todo)
       IN  \/ funded /\ Resend(n)
           \/ ~funded /\ Underpriced(n) /\ worker' = Idle /\ UNCHANGED store
           \/ ~funded /\ ~Underpriced(n) /\ worker' = NextBoost(n) /\ UNCHANGED store
    /\ UNCHANGED <<mempool, faults>> /\ KeepOthers

\* Its broadcast: a failure is thrown for a boosted transaction, which ends the
\* pass, and only logged for a repeated one.
BoostBroadcast ==
    /\ At("boosting") \/ At("repeating")
    /\ LET n == Oldest(worker.todo)
       IN  \/ Taken(TxOf(n)) /\ worker' = NextBoost(n)
           \/ Refused(TxOf(n)) /\ worker' = IF At("boosting") THEN Idle ELSE NextBoost(n)
    /\ UNCHANGED store /\ KeepOthers

WorkerStep ==
    \/ WorkerWakes \/ Fill \/ RemoveArchived
    \/ BoostCount \/ BoostLoad \/ BoostOne \/ BoostBroadcast

(***************************************************************************)
(* The chain moves on, and the faults (external, but for the restart)      *)
(***************************************************************************)

\* A block: everything is one block older.  The node's answer to a call that
\* holds the mutex is never older than a block.
NewBlock ==
    /\ \A r \in Requests : pc[r] # "counted"
    /\ At("idle") \/ worker.lag < MaxLag
    /\ worker' = IF At("idle") THEN worker ELSE [worker EXCEPT !.lag = @ + 1]
    /\ store' = [n \in DOMAIN store |->
           [store[n] EXCEPT !.sentAge = Older(@),
                            !.minedAge = IF @ = NotMined THEN @ ELSE Older(@)]]
    /\ UNCHANGED <<baseFee, funded, nonces, callVars, faults>>
Aged == [n \in DOMAIN mined |-> [mined[n] EXCEPT !.age = Older(@)]]

EmptyBlock ==
    /\ NewBlock
    /\ mined' = Aged
    /\ UNCHANGED <<latest, mempool>>

Mine ==
    /\ NewBlock
    /\ \E t \in mempool :
           /\ t.nonce = latest /\ t.maxFee >= baseFee
           /\ mined' = With(Aged, latest, [tx |-> t, age |-> 0])
           /\ mempool' = {o \in mempool : o.nonce # latest}
    /\ latest' = latest + 1

\* The node forgets a waiting transaction.
Drop ==
    /\ Fault("drop")
    /\ \E t \in mempool : mempool' = mempool \ {t}
    /\ UNCHANGED <<latest, mined, baseFee, funded, store, nonces, callVars, worker>>

MoveBaseFee ==
    /\ Fault("move")
    /\ baseFee' \in BaseFees \ {baseFee}
    /\ UNCHANGED <<latest, mined, mempool, funded, store, nonces, callVars, worker>>

Drain ==
    /\ Fault("drain")
    /\ funded /\ funded' = FALSE
    /\ UNCHANGED <<latest, mined, mempool, baseFee, store, nonces, callVars, worker>>

TopUp ==
    /\ ~funded /\ funded' = TRUE
    /\ UNCHANGED <<latest, mined, mempool, baseFee, store, nonces, callVars, worker, faults>>

\* The server process dies and starts again: only the store survives, and
\* _initNonces counts from zero.
InFlight == {"locked", "counted", "stored"}
Restart ==
    /\ Fault("crash")
    /\ nonces' = 0
    /\ mutex' = Nobody
    /\ pc' = [r \in Requests |-> IF pc[r] \in InFlight THEN "lost" ELSE pc[r]]
    /\ polled' = [r \in Requests |-> 0]
    /\ signed' = [r \in Requests |-> NoTx]
    /\ worker' = Idle
    /\ UNCHANGED <<chainVars, store>>

SendStep(r) == Acquire(r) \/ Poll(r) \/ Sign(r) \/ Broadcast(r)

Next ==
    \/ \E r \in Requests : SendStep(r)
    \/ WorkerStep
    \/ EmptyBlock \/ Mine \/ Drop \/ MoveBaseFee \/ Drain \/ TopUp
    \/ Restart

\* Every caller calls and the call goes on, the worker's timer keeps waking it, blocks
\* come, the chain takes what pays its base fee and the operator tops up.
Fairness ==
    /\ \A r \in Requests : WF_vars(SendStep(r))
    /\ WF_vars(WorkerStep)
    /\ WF_vars(EmptyBlock) /\ SF_vars(Mine) /\ WF_vars(TopUp)

Spec == Init /\ [][Next]_vars
FairSpec == Spec /\ Fairness

(***************************************************************************)
(* Properties                                                              *)
(***************************************************************************)
PlainTx == [nonce : Nat, req : Requests, maxFee : Nat, priority : Nat]
StoredTx == [req : Requests, maxFee : Nat, priority : Nat,
             sentAge : Age, minedAge : Age \cup {NotMined}]
Places == {"idle", "fill", "count", "load", "boost", "boosting", "repeating"}

\* Every variable has its type; the mined transactions are numbered without a
\* gap from zero.
TypeOK ==
    /\ latest \in Nat
    /\ mined \in [0 .. latest - 1 -> [tx : PlainTx, age : Age]]
    /\ mempool \subseteq PlainTx
    /\ baseFee \in BaseFees /\ funded \in BOOLEAN
    /\ DOMAIN store \subseteq Nat /\ store \in [DOMAIN store -> StoredTx]
    /\ nonces \in Nat
    /\ mutex \in Requests \cup {Nobody}
    /\ pc \in [Requests -> InFlight \cup {"new", "sent", "failed", "lost"}]
    /\ polled \in [Requests -> Nat]
    /\ signed \in [Requests -> PlainTx \cup {NoTx}]
    /\ worker \in [at : Places, todo : SUBSET Nat, lag : 0 .. MaxLag, nonce : Nat,
                   fees : [newMaxFee : Nat, newPriority : Nat]]
    /\ worker.todo \subseteq DOMAIN store
    /\ faults \in 0 .. MaxFaults

\* Whose transaction a nonce carries: once a request was signed with it, no
\* other request's transaction, in whatever version, is mined with it, waits
\* with it or is stored under it, not even after restarts and lost broadcasts.
SignedTxs ==
    mempool \cup {mined[n].tx : n \in DOMAIN mined}
      \cup {TxOf(n) : n \in DOMAIN store}
      \cup ({signed[r] : r \in Requests} \ {NoTx})
OneRequestPerNonce ==
    \A t \in SignedTxs, u \in SignedTxs : (t.nonce = u.nonce) <=> (t.req = u.req)

\* The assertion of the booster, "the oldest tx.nonce immediately follows
\* 'latest' nonce": the stored nonces from the account nonce on have no gap at
\* the front, so the booster never throws 'missing nonce'.
BoostFindsOldest ==
    At("load") /\ StoredFrom(worker.nonce) # {} =>
        Oldest(StoredFrom(worker.nonce)) = worker.nonce

\* The reason: every nonce between the account
\* nonce and the last one used is stored, whatever crashed or was lost.
NoGap ==
    \A n \in DOMAIN store : \A k \in latest .. n : k \in DOMAIN store

\* A transaction leaves the store only when it is on the chain.
ArchivedWasMined ==
    [][\A n \in DOMAIN store \ DOMAIN store' : n < latest]_vars

\* Every call of sendTransaction ends: whatever fails, the mutex is released.
CallsEnd == \A r \in Requests : <>(pc[r] \in {"sent", "failed", "lost"})

\* The manager is an outbox: a request is accepted when its transaction is
\* stored and executed when some version of that transaction is mined.  What
\* was stored is mined in the end, in order and once, although broadcasts get
\* lost, the node drops transactions, the server restarts, the base fee rises
\* and the balance runs out: the booster sends it again, at a fee that suffices.
Log == [i \in 1 .. latest + Cardinality(StoredFrom(latest)) |->
           IF i <= latest THEN mined[i - 1].tx.req ELSE store[i - 1].req]
Outbox == INSTANCE TransactionOutbox WITH log <- Log, executed <- latest
IsOutbox == Outbox!Spec
=============================================================================
