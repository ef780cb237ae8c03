----------------------- MODULE TransactionManagerProofs -----------------------
(***************************************************************************)
(* No nonce goes missing: for any number of calls, any faults and any      *)
(* prices, the stored transactions have no gap above the account nonce, so *)
(* the booster's assertion never fails and nothing leaves the store before *)
(* it is mined.                                                            *)
(*                                                                         *)
(* Last, the Bitcoin side of the SDK: for any chain, any answers and any   *)
(* callers, the relay knows the epoch it is in, a reveal spends the        *)
(* output that its own commit paid, and a proof collected while no block   *)
(* of it is replaced is accepted: the Merkle branch leads to the root      *)
(* however many transactions a block has.                                  *)
(***************************************************************************)
EXTENDS TransactionManager, BitcoinSdk, WellFoundedInduction, FiniteSetTheorems,
        SequenceTheorems, TLAPS

\* What the store still covers: a nonce is used up on the chain or stored.
Covered(n) == n < latest \/ n \in DOMAIN store

\* Waiting and signed transactions are stored until they are mined.
PendingIsStored ==
    /\ \A t \in mempool : t.nonce >= latest /\ t.nonce \in DOMAIN store
    /\ \A r \in Requests : pc[r] = "stored" =>
           signed[r] \in PlainTx /\ Covered(signed[r].nonce)

\* A block is written down only for a nonce the chain has.
MinedBlocksAreReal ==
    \A n \in DOMAIN store : store[n].minedAge # NotMined => n < latest

\* The counts in memory, and the counts from the node, leave no nonce out.
CountsAreCovered ==
    /\ \A k \in Nat : k < nonces => Covered(k)
    /\ \A r \in Requests : pc[r] = "counted" => \A k \in Nat : k < polled[r] => Covered(k)

\* Above the account nonce, and above the count the booster holds, no gap.
StoredFromCount(n) ==
    \A k \in Nat : n <= k /\ k < latest => k \in DOMAIN store
NoGapAt ==
    \A n \in DOMAIN store : \A k \in Nat : k < n => Covered(k)
BoosterCount ==
    worker.at = "load" => worker.nonce <= latest /\ StoredFromCount(worker.nonce)

\* The booster holds transactions to send while it is sending.
BoosterHasWork ==
    worker.at \in {"boost", "boosting", "repeating"} => worker.todo # {}

IInv ==
    /\ TypeOK /\ PendingIsStored /\ MinedBlocksAreReal
    /\ CountsAreCovered /\ NoGapAt /\ BoosterCount /\ BoosterHasWork

\* The bounds are numbers, and so are the ages under them.
LEMMA AgeBounds ==
  /\ Old \in Nat /\ MaxLag \in Nat /\ MaxLag <= Old
  /\ \A age \in Age : Older(age) \in Age
  /\ 0 .. MaxLag \subseteq Age /\ 0 \in Age
<1>1. /\ Timeout \in Nat /\ PruneBlocks \in Nat /\ PruneSeconds \in Nat
      /\ MaxLag \in Nat
  BY TransactionManagerAssumption
<1>2. Old \in Nat /\ MaxLag <= Old
  BY <1>1 DEF Old, Larger
<1>3. QED
  BY <1>1, <1>2 DEF Age, Older, Smaller

\* The fees of a boosted transaction are natural numbers.
LEMMA NewGasPriceType ==
  ASSUME NEW fee \in Nat, NEW priority \in Nat, NEW minFee \in Nat
  PROVE  NewGasPrice(fee, priority, minFee)
            \in [newMaxFee : Nat, newPriority : Nat]
<1>1. \A x \in Nat : (x + 50) \div 100 \in Nat
  OBVIOUS
<1>2. RetryFactor \in Nat /\ MinPriority \in Nat /\ MaxMaxFee \in Nat
  BY TransactionManagerAssumption
<1>3. fee * RetryFactor \in Nat /\ priority * RetryFactor \in Nat
  BY <1>2
<1>4. Raised(fee) \in Nat /\ Raised(priority) \in Nat
  BY <1>1, <1>3 DEF Raised
<1>5. QED
  BY <1>2, <1>4 DEF NewGasPrice, Smaller, Larger

\* A stored transaction with a block, and one sent again at other fees.
WithBlock(s, a) == [s EXCEPT !.minedAge = a]
SentAgain(s, a, fee, priority) ==
    [s EXCEPT !.sentAge = a, !.maxFee = fee, !.priority = priority]

LEMMA StoredTxRewritten ==
  ASSUME NEW s \in StoredTx, NEW a \in Age, NEW fee \in Nat, NEW priority \in Nat
  PROVE  /\ WithBlock(s, a) \in StoredTx
         /\ SentAgain(s, a, fee, priority) \in StoredTx
         /\ SentAgain(s, a, fee, priority).minedAge = s.minedAge
  BY DEF StoredTx, WithBlock, SentAgain

\* A non-empty set of nonces has an oldest one.
LEMMA OldestIsIn ==
  ASSUME NEW S \in SUBSET Nat, S # {}
  PROVE  Oldest(S) \in S /\ \A k \in S : Oldest(S) <= k
<1>1. PICK x \in S : \A y \in S : ~(<<y, x>> \in OpToRel(<, Nat))
  BY NatLessThanWellFounded, WFMin, Zenon
<1>2. \A y \in S : x \in Nat /\ y \in Nat /\ ~(y < x)
  BY <1>1, Zenon DEF OpToRel
<1>3. \A y \in S : x <= y
  BY <1>2
<1>4. QED
  BY <1>3 DEF Oldest

LEMMA InitIInv == Init => IInv
<1> SUFFICES ASSUME Init PROVE IInv
  OBVIOUS
<1>1. DOMAIN mined = {} /\ DOMAIN store = {} /\ mempool = {}
  BY DEF Init
<1>2. TypeOK
  BY <1>1, TransactionManagerAssumption, AgeBounds
  DEF Init, TypeOK, Idle, NoFee, Places, InFlight
<1>3. PendingIsStored /\ MinedBlocksAreReal /\ NoGapAt
  BY <1>1 DEF Init, PendingIsStored, MinedBlocksAreReal, NoGapAt
<1>4. CountsAreCovered /\ BoosterCount /\ BoosterHasWork
  BY <1>1 DEF Init, CountsAreCovered, BoosterCount, BoosterHasWork, Idle
<1>5. QED
  BY <1>2, <1>3, <1>4 DEF IInv

\* What the steps that leave the chain's nonces and the store alone keep.
LEMMA ChainAndStoreKept ==
  ASSUME IInv, UNCHANGED <<latest, mined, store>>, TypeOK',
         mempool' \subseteq mempool
  PROVE  MinedBlocksAreReal' /\ NoGapAt'
<1> USE DEF IInv
<1>1. MinedBlocksAreReal'
  BY DEF MinedBlocksAreReal
<1>2. NoGapAt'
  BY DEF NoGapAt, Covered
<1>3. QED
  BY <1>1, <1>2

LEMMA AcquireIInv ==
  ASSUME IInv, NEW r \in Requests, Acquire(r)
  PROVE  IInv'
<1> USE DEF IInv
<1>1. TypeOK'
  BY DEF TypeOK, Acquire, Going, chainVars, InFlight
<1>2. PendingIsStored'
  BY DEF TypeOK, Acquire, Going, chainVars, InFlight, PendingIsStored, Covered
<1>3. CountsAreCovered'
  BY DEF TypeOK, Acquire, Going, chainVars, InFlight, CountsAreCovered, Covered
<1>4. MinedBlocksAreReal' /\ NoGapAt'
  BY <1>1, ChainAndStoreKept DEF Acquire, chainVars
<1>5. BoosterCount' /\ BoosterHasWork'
  BY DEF Acquire, chainVars, BoosterCount, StoredFromCount, BoosterHasWork
<1>6. QED
  BY <1>1, <1>2, <1>3, <1>4, <1>5

\* A pending count is covered: what is waiting at the node is stored.
LEMMA PollIInv ==
  ASSUME IInv, NEW r \in Requests, Poll(r)
  PROVE  IInv'
<1> USE DEF IInv
<1>1. PICK n \in latest .. latest + Cardinality(mempool) :
         IsPendingCount(n) /\ polled' = [polled EXCEPT ![r] = n]
  BY DEF Poll
<1>2. n \in Nat /\ \A k \in Nat : k < n => Covered(k)
  <2>1. n \in Nat
    BY <1>1 DEF TypeOK, IsPendingCount
  <2>2. ASSUME NEW k \in Nat, k < n, k >= latest
        PROVE  k \in DOMAIN store
    <3>1. k \in PendingNonces
      BY <1>1, <2>1, <2>2 DEF IsPendingCount, TypeOK
    <3>2. QED
      BY <3>1 DEF PendingNonces, PendingIsStored
  <2>3. QED
    BY <2>1, <2>2 DEF Covered, TypeOK
<1>3. TypeOK'
  BY <1>1, <1>2 DEF TypeOK, Poll, Going, chainVars, InFlight
<1>4. PendingIsStored'
  BY DEF TypeOK, Poll, Going, chainVars, InFlight, PendingIsStored, Covered
<1>5. CountsAreCovered'
  BY <1>1, <1>2 DEF TypeOK, Poll, Going, chainVars, InFlight, CountsAreCovered, Covered
<1>6. MinedBlocksAreReal' /\ NoGapAt'
  BY <1>3, ChainAndStoreKept DEF Poll, chainVars
<1>7. BoosterCount' /\ BoosterHasWork'
  BY DEF Poll, chainVars, BoosterCount, StoredFromCount, BoosterHasWork
<1>8. QED
  BY <1>3, <1>4, <1>5, <1>6, <1>7

LEMMA SignIInv ==
  ASSUME IInv, NEW r \in Requests, Sign(r)
  PROVE  IInv'
<1> USE DEF IInv
<1> DEFINE n == Larger(nonces, polled[r])
<1>1. n \in Nat /\ (\A k \in Nat : k < n => Covered(k)) /\ pc[r] = "counted"
  BY DEF Sign, Insert, PutNew, Going, Larger, TypeOK, CountsAreCovered
<1>2. /\ nonces' = n + 1 /\ mutex' = Nobody
      /\ polled' = [polled EXCEPT ![r] = 0]
      /\ UNCHANGED <<chainVars, worker, faults>>
      /\ Insert(r, n)
  BY DEF Sign
<1> HIDE DEF n
<1>3. CASE n \in DOMAIN store /\ Going(r, "counted", "failed") /\ UNCHANGED <<store, signed>>
  <2>1. TypeOK'
    BY <1>1, <1>2, <1>3 DEF TypeOK, Going, chainVars, InFlight
  <2>2. PendingIsStored'
    BY <1>1, <1>2, <1>3 DEF TypeOK, Going, chainVars, PendingIsStored, Covered
  <2>3. CountsAreCovered'
    BY <1>1, <1>2, <1>3 DEF TypeOK, Going, chainVars, CountsAreCovered, Covered
  <2>4. MinedBlocksAreReal' /\ NoGapAt'
    BY <1>2, <1>3, <2>1, ChainAndStoreKept DEF chainVars
  <2>5. BoosterCount' /\ BoosterHasWork'
    BY <1>2, <1>3 DEF chainVars, BoosterCount, StoredFromCount, BoosterHasWork
  <2>6. QED
    BY <2>1, <2>2, <2>3, <2>4, <2>5
<1>4. CASE n \notin DOMAIN store /\ PutNew(r, n)
  <2>1. PICK f \in RequestFees :
           /\ signed' = [signed EXCEPT ![r] = Tx(n, r, f[1], f[2])]
           /\ store' = With(store, n,
                  [req |-> r, maxFee |-> f[1], priority |-> f[2],
                   sentAge |-> 0, minedAge |-> NotMined])
    BY <1>4 DEF PutNew
  <2>2. f[1] \in Nat /\ f[2] \in Nat
    BY TransactionManagerAssumption
  <2>3. pc' = [pc EXCEPT ![r] = "stored"]
    BY <1>4 DEF PutNew, Going
  <2> DEFINE v == [req |-> r, maxFee |-> f[1], priority |-> f[2],
                   sentAge |-> 0, minedAge |-> NotMined]
  <2>4. v \in StoredTx /\ v.minedAge = NotMined
    BY <2>2, AgeBounds DEF StoredTx, v
  <2>5. /\ DOMAIN store' = DOMAIN store \cup {n}
        /\ store'[n] = v /\ \A k \in DOMAIN store : store'[k] = store[k]
        /\ store' \in [DOMAIN store' -> StoredTx]
    BY <1>1, <1>4, <2>1, <2>4 DEF With, TypeOK
  <2> HIDE DEF v
  <2>6. Tx(n, r, f[1], f[2]) \in PlainTx /\ Tx(n, r, f[1], f[2]).nonce = n
    BY <1>1, <2>2 DEF Tx, PlainTx
  <2>7. TypeOK'
    <3>1. /\ latest' \in Nat
          /\ mined' \in [0 .. latest' - 1 -> [tx : PlainTx, age : Age]]
          /\ mempool' \subseteq PlainTx
          /\ baseFee' \in BaseFees /\ funded' \in BOOLEAN
          /\ faults' \in 0 .. MaxFaults /\ worker' = worker
      BY <1>2 DEF TypeOK, chainVars
    <3>2. DOMAIN store' \subseteq Nat /\ worker'.todo \subseteq DOMAIN store'
      BY <1>1, <1>2, <2>5 DEF TypeOK
    <3>3. /\ signed' \in [Requests -> PlainTx \cup {NoTx}]
          /\ polled' \in [Requests -> Nat] /\ nonces' \in Nat
          /\ mutex' \in Requests \cup {Nobody}
          /\ pc' \in [Requests -> InFlight \cup {"new", "sent", "failed", "lost"}]
      BY <1>1, <1>2, <2>1, <2>3, <2>6 DEF TypeOK, InFlight
    <3>4. QED
      BY <2>5, <3>1, <3>2, <3>3 DEF TypeOK
  <2>8. PendingIsStored'
    BY <1>1, <1>2, <2>1, <2>3, <2>5, <2>6 DEF TypeOK, chainVars, PendingIsStored, Covered
  <2>9. CountsAreCovered'
    BY <1>1, <1>2, <2>3, <2>5 DEF TypeOK, chainVars, CountsAreCovered, Covered
  <2>10. MinedBlocksAreReal'
    BY <1>2, <2>4, <2>5 DEF chainVars, MinedBlocksAreReal
  <2>11. NoGapAt'
    <3>1. ASSUME NEW m \in DOMAIN store', NEW k \in Nat, k < m
          PROVE  Covered(k)
      BY <1>1, <2>5, <3>1 DEF NoGapAt
    <3>2. \A k : Covered(k) => Covered(k)'
      BY <1>2, <2>5 DEF Covered, chainVars
    <3>3. QED
      BY <3>1, <3>2 DEF NoGapAt
  <2>12. BoosterCount' /\ BoosterHasWork'
    BY <1>2, <2>5 DEF chainVars, BoosterCount, StoredFromCount, BoosterHasWork
  <2>13. QED
    BY <2>7, <2>8, <2>9, <2>10, <2>11, <2>12
<1>5. QED
  BY <1>2, <1>3, <1>4 DEF Insert

\* What a broadcast does to the mempool: the transaction it sends is stored.
LEMMA MempoolAfterBroadcast ==
  ASSUME TypeOK, PendingIsStored, NEW t \in PlainTx, Covered(t.nonce),
         Taken(t) \/ Refused(t)
  PROVE  /\ mempool' \subseteq PlainTx
         /\ faults' \in 0 .. MaxFaults
         /\ \A u \in mempool' : u.nonce >= latest /\ u.nonce \in DOMAIN store
<1>1. Accepts(t) => t.nonce >= latest /\ t.nonce \in DOMAIN store
  BY DEF Accepts, Covered, TypeOK, PlainTx
<1>2. \A u \in Enter(t) : u \in mempool \/ u = t
  BY DEF Enter
<1>3. faults' \in 0 .. MaxFaults
  <2>1. MaxFaults \in Nat
    BY TransactionManagerAssumption
  <2>2. QED
    BY <2>1 DEF TypeOK, Taken, Refused, Fault
<1>4. mempool' = mempool \/ (Accepts(t) /\ mempool' = Enter(t))
  BY DEF Taken, Refused
<1>5. QED
  BY <1>1, <1>2, <1>3, <1>4 DEF TypeOK, PendingIsStored

LEMMA BroadcastIInv ==
  ASSUME IInv, NEW r \in Requests, Broadcast(r)
  PROVE  IInv'
<1> USE DEF IInv
<1>1. /\ pc[r] = "stored"
      /\ Taken(signed[r]) \/ Refused(signed[r])
      /\ \/ pc' = [pc EXCEPT ![r] = "sent"]
         \/ pc' = [pc EXCEPT ![r] = "failed"]
      /\ signed' = [signed EXCEPT ![r] = NoTx]
      /\ UNCHANGED <<latest, mined, baseFee, funded, store, nonces, mutex, polled, worker>>
  BY DEF Broadcast, Going
<1>2. signed[r] \in PlainTx /\ Covered(signed[r].nonce)
  BY <1>1 DEF PendingIsStored
<1>3. /\ mempool' \subseteq PlainTx
      /\ faults' \in 0 .. MaxFaults
      /\ \A u \in mempool' : u.nonce >= latest /\ u.nonce \in DOMAIN store
  BY <1>1, <1>2, MempoolAfterBroadcast
<1>4. TypeOK'
  BY <1>1, <1>3 DEF TypeOK, InFlight
<1>5. PendingIsStored'
  BY <1>1, <1>3 DEF TypeOK, PendingIsStored, Covered
<1>6. CountsAreCovered'
  BY <1>1 DEF TypeOK, CountsAreCovered, Covered
<1>7. MinedBlocksAreReal' /\ NoGapAt'
  BY <1>1 DEF MinedBlocksAreReal, NoGapAt, Covered
<1>8. BoosterCount' /\ BoosterHasWork'
  BY <1>1 DEF BoosterCount, StoredFromCount, BoosterHasWork
<1>9. QED
  BY <1>4, <1>5, <1>6, <1>7, <1>8

\* A step of the worker that rewrites records and moves the booster on, but
\* neither adds nor removes a record: what is left to show is the types, the
\* blocks written down and the booster's own state.
LEMMA RecordsRewritten ==
  ASSUME IInv, TypeOK', KeepOthers, DOMAIN store' = DOMAIN store,
         \A u \in mempool' : u.nonce >= latest /\ u.nonce \in DOMAIN store,
         MinedBlocksAreReal', BoosterCount', BoosterHasWork'
  PROVE  IInv'
<1> USE DEF IInv
<1>1. UNCHANGED <<latest, nonces, pc, polled, signed>>
  BY DEF KeepOthers, callVars
<1>2. \A k : Covered(k)' <=> Covered(k)
  BY <1>1 DEF Covered
<1>3. PendingIsStored'
  BY <1>1, <1>2 DEF PendingIsStored
<1>4. CountsAreCovered'
  BY <1>1, <1>2 DEF CountsAreCovered
<1>5. NoGapAt'
  BY <1>1, <1>2 DEF NoGapAt
<1>6. QED
  BY <1>3, <1>4, <1>5

LEMMA WorkerWakesIInv ==
  ASSUME IInv, WorkerWakes
  PROVE  IInv'
<1> USE DEF IInv
<1>1. /\ worker' = [worker EXCEPT !.at = "fill", !.todo = DOMAIN store]
      /\ UNCHANGED <<store, mempool, faults>> /\ KeepOthers
  BY DEF WorkerWakes
<1>2. TypeOK'
  BY <1>1 DEF TypeOK, KeepOthers, callVars, Places
<1>3. MinedBlocksAreReal'
  BY <1>1 DEF MinedBlocksAreReal, KeepOthers
<1>4. BoosterCount' /\ BoosterHasWork'
  BY <1>1 DEF BoosterCount, BoosterHasWork, TypeOK
<1>5. QED
  BY <1>1, <1>2, <1>3, <1>4, RecordsRewritten DEF PendingIsStored

LEMMA FillIInv ==
  ASSUME IInv, Fill
  PROVE  IInv'
<1> USE DEF IInv
<1> DEFINE n == Oldest(worker.todo)
<1>1. /\ worker.at = "fill" /\ worker.todo # {}
      /\ worker' = [worker EXCEPT !.todo = @ \ {n}]
      /\ \/ store' = store
         \/ Receipt(n) /\ store' = [store EXCEPT ![n].minedAge = mined[n].age]
      /\ UNCHANGED <<mempool, faults>> /\ KeepOthers
  BY DEF Fill, At
<1>2. n \in DOMAIN store /\ n \in Nat
  BY <1>1, OldestIsIn DEF TypeOK
<1> HIDE DEF n
<1>3. Receipt(n) => n < latest /\ mined[n].age \in Age
  BY <1>2 DEF Receipt, TypeOK
<1>4. DOMAIN store' = DOMAIN store /\ store' \in [DOMAIN store -> StoredTx]
  <2>1. ASSUME NEW a \in Age
        PROVE  WithBlock(store[n], a) \in StoredTx
    BY <1>2, StoredTxRewritten DEF TypeOK
  <2>2. QED
    BY <1>1, <1>2, <1>3, <2>1 DEF TypeOK, WithBlock
<1>5. TypeOK'
  BY <1>1, <1>4 DEF TypeOK, KeepOthers, callVars
<1>6. MinedBlocksAreReal'
  <2>1. latest' = latest
    BY <1>1 DEF KeepOthers
  <2>2. CASE store' = store
    BY <2>1, <2>2 DEF MinedBlocksAreReal
  <2>3. CASE Receipt(n) /\ store' = [store EXCEPT ![n].minedAge = mined[n].age]
    <3>1. \A k \in DOMAIN store : k # n => store'[k] = store[k]
      BY <2>3
    <3>2. QED
      BY <1>3, <1>4, <2>1, <2>3, <3>1 DEF MinedBlocksAreReal
  <2>4. QED
    BY <1>1, <2>2, <2>3
<1>7. BoosterCount' /\ BoosterHasWork'
  BY <1>1 DEF BoosterCount, BoosterHasWork, TypeOK
<1>8. QED
  BY <1>1, <1>4, <1>5, <1>6, <1>7, RecordsRewritten DEF PendingIsStored

\* Only mined transactions leave the store.
LEMMA RemoveArchivedIInv ==
  ASSUME IInv, RemoveArchived
  PROVE  IInv'
<1> USE DEF IInv
<1>1. /\ worker' = [worker EXCEPT !.at = "count"] /\ worker.todo = {}
      /\ store' = [n \in {k \in DOMAIN store : ~Archived(k)} |-> store[n]]
      /\ UNCHANGED <<latest, mined, mempool, baseFee, funded, nonces, mutex, pc,
                     polled, signed, faults>>
  BY DEF RemoveArchived, KeepOthers, callVars
<1>2. \A k \in DOMAIN store : k \in DOMAIN store' \/ k < latest
  BY <1>1 DEF Archived, MinedBlocksAreReal
<1>3. /\ DOMAIN store' \subseteq DOMAIN store
      /\ \A k \in DOMAIN store' : store'[k] = store[k]
  BY <1>1
<1>4. \A k : Covered(k) => Covered(k)'
  BY <1>1, <1>2 DEF Covered
<1>5. TypeOK'
  BY <1>1, <1>3 DEF TypeOK, Places
<1>6. PendingIsStored'
  <2>1. \A t \in mempool : t.nonce \in DOMAIN store'
    BY <1>2 DEF PendingIsStored, TypeOK, PlainTx
  <2>2. QED
    BY <1>1, <1>4, <2>1 DEF PendingIsStored
<1>7. MinedBlocksAreReal' /\ NoGapAt'
  BY <1>1, <1>3, <1>4 DEF MinedBlocksAreReal, NoGapAt
<1>8. CountsAreCovered'
  BY <1>1, <1>4 DEF CountsAreCovered
<1>9. BoosterCount' /\ BoosterHasWork'
  BY <1>1 DEF BoosterCount, BoosterHasWork, TypeOK
<1>10. QED
  BY <1>5, <1>6, <1>7, <1>8, <1>9

LEMMA BoostCountIInv ==
  ASSUME IInv, BoostCount
  PROVE  IInv'
<1> USE DEF IInv
<1>1. /\ worker' = [worker EXCEPT !.at = "load", !.nonce = latest]
      /\ UNCHANGED <<store, mempool, faults>> /\ KeepOthers
  BY DEF BoostCount
<1>2. TypeOK'
  BY <1>1 DEF TypeOK, KeepOthers, callVars, Places
<1>3. MinedBlocksAreReal'
  BY <1>1 DEF MinedBlocksAreReal, KeepOthers
<1>4. BoosterCount' /\ BoosterHasWork'
  BY <1>1 DEF BoosterCount, BoosterHasWork, StoredFromCount, TypeOK, KeepOthers
<1>5. QED
  BY <1>1, <1>2, <1>3, <1>4, RecordsRewritten DEF PendingIsStored

\* The worker when it has nothing in hand.
LEMMA IdleType ==
  /\ Idle \in [at : Places, todo : SUBSET Nat, lag : 0 .. MaxLag, nonce : Nat,
               fees : [newMaxFee : Nat, newPriority : Nat]]
  /\ Idle.todo = {} /\ Idle.at = "idle"
  BY AgeBounds DEF Idle, Places, NoFee

LEMMA BoostLoadIInv ==
  ASSUME IInv, BoostLoad
  PROVE  IInv'
<1> USE DEF IInv
<1> DEFINE pending == StoredFrom(worker.nonce)
           o == Oldest(pending)
<1>1. /\ UNCHANGED <<store, mempool, faults>> /\ KeepOthers
      /\ \/ worker' = Idle
         \/ /\ pending # {}
            /\ worker' = [worker EXCEPT !.at = "boost", !.todo = pending,
                            !.fees = NewGasPrice(store[o].maxFee,
                                                 store[o].priority, baseFee)]
  BY DEF BoostLoad
<1>2. pending \subseteq DOMAIN store
  BY DEF StoredFrom
<1>3. worker' = Idle \/
        /\ worker' \in [at : Places, todo : SUBSET Nat, lag : 0 .. MaxLag,
                        nonce : Nat, fees : [newMaxFee : Nat, newPriority : Nat]]
        /\ worker'.at = "boost" /\ worker'.todo = pending /\ pending # {}
  <2> SUFFICES ASSUME pending # {}, worker' # Idle
               PROVE  worker' \in [at : Places, todo : SUBSET Nat, lag : 0 .. MaxLag,
                        nonce : Nat, fees : [newMaxFee : Nat, newPriority : Nat]]
    BY <1>1 DEF TypeOK
  <2>1. o \in DOMAIN store
    BY <1>2, OldestIsIn DEF TypeOK
  <2>2. baseFee \in Nat
    BY TransactionManagerAssumption DEF TypeOK
  <2>3. store[o].maxFee \in Nat /\ store[o].priority \in Nat
    BY <2>1 DEF TypeOK, StoredTx
  <2>4. NewGasPrice(store[o].maxFee, store[o].priority, baseFee)
          \in [newMaxFee : Nat, newPriority : Nat]
    BY <2>2, <2>3, NewGasPriceType
  <2> HIDE DEF o
  <2>5. QED
    BY <1>1, <1>2, <2>4 DEF TypeOK, Places
<1> HIDE DEF pending, o
<1>4. TypeOK'
  BY <1>1, <1>2, <1>3, IdleType DEF TypeOK, KeepOthers, callVars
<1>5. MinedBlocksAreReal'
  BY <1>1 DEF MinedBlocksAreReal, KeepOthers
<1>6. BoosterCount' /\ BoosterHasWork'
  BY <1>3, IdleType DEF BoosterCount, BoosterHasWork
<1>7. QED
  BY <1>1, <1>4, <1>5, <1>6, RecordsRewritten DEF PendingIsStored

\* The booster goes on with the rest of its list.
LEMMA NextBoostType ==
  ASSUME TypeOK, NEW n \in worker.todo
  PROVE  /\ NextBoost(n) \in [at : Places, todo : SUBSET Nat, lag : 0 .. MaxLag,
                nonce : Nat, fees : [newMaxFee : Nat, newPriority : Nat]]
         /\ NextBoost(n).todo \subseteq DOMAIN store
         /\ \/ NextBoost(n).at = "idle"
            \/ NextBoost(n).at = "boost" /\ NextBoost(n).todo # {}
<1>1. CASE worker.todo = {n}
  BY <1>1, IdleType DEF NextBoost
<1>2. CASE worker.todo # {n}
  BY <1>2 DEF NextBoost, TypeOK, Places
<1>3. QED
  BY <1>1, <1>2

LEMMA BoostOneIInv ==
  ASSUME IInv, BoostOne
  PROVE  IInv'
<1> USE DEF IInv
<1> DEFINE n == Oldest(worker.todo)
<1>1. /\ worker.at = "boost"
      /\ Resend(n) \/ (UNCHANGED store /\ worker' \in {Idle, NextBoost(n)})
      /\ UNCHANGED <<mempool, faults>> /\ KeepOthers
  BY DEF BoostOne, At
<1>2. n \in worker.todo /\ n \in DOMAIN store /\ worker.todo # {}
  BY <1>1, OldestIsIn DEF TypeOK, BoosterHasWork
<1> HIDE DEF n
<1>3. CASE UNCHANGED store /\ worker' \in {Idle, NextBoost(n)}
  <2>1. /\ worker' \in [at : Places, todo : SUBSET Nat, lag : 0 .. MaxLag,
                nonce : Nat, fees : [newMaxFee : Nat, newPriority : Nat]]
        /\ worker'.todo \subseteq DOMAIN store
        /\ worker'.at = "idle" \/ (worker'.at = "boost" /\ worker'.todo # {})
    BY <1>2, <1>3, IdleType, NextBoostType
  <2>2. TypeOK'
    BY <1>1, <1>3, <2>1 DEF TypeOK, KeepOthers, callVars
  <2>3. MinedBlocksAreReal' /\ BoosterCount' /\ BoosterHasWork'
    BY <1>1, <1>3, <2>1 DEF MinedBlocksAreReal, KeepOthers, BoosterCount, BoosterHasWork
  <2>4. QED
    BY <1>1, <1>3, <2>2, <2>3, RecordsRewritten DEF PendingIsStored
<1>4. CASE Resend(n)
  <2>1. /\ worker' = [worker EXCEPT !.at = "boosting"]
           \/ worker' = [worker EXCEPT !.at = "repeating"]
        /\ \E fee \in Nat, priority \in Nat :
             store' = [store EXCEPT ![n] =
               [@ EXCEPT !.sentAge = worker.lag, !.maxFee = fee, !.priority = priority]]
    <3>1. worker.lag \in Age /\ worker.fees.newMaxFee \in Nat
          /\ worker.fees.newPriority \in Nat
      BY AgeBounds DEF TypeOK
    <3>2. store[n].maxFee \in Nat /\ store[n].priority \in Nat
      BY <1>2 DEF TypeOK, StoredTx
    <3>3. QED
      BY <1>2, <1>4, <3>1, <3>2 DEF Resend, TypeOK, StoredTx
  <2>2. PICK fee \in Nat, priority \in Nat :
             store' = [store EXCEPT ![n] = SentAgain(store[n], worker.lag, fee, priority)]
    BY <2>1 DEF SentAgain
  <2>3. worker.lag \in Age /\ store[n] \in StoredTx
    BY <1>2, AgeBounds DEF TypeOK
  <2>4. /\ SentAgain(store[n], worker.lag, fee, priority) \in StoredTx
        /\ SentAgain(store[n], worker.lag, fee, priority).minedAge = store[n].minedAge
    BY <2>3, StoredTxRewritten
  <2>5. /\ DOMAIN store' = DOMAIN store /\ store' \in [DOMAIN store -> StoredTx]
        /\ \A k \in DOMAIN store : store'[k].minedAge = store[k].minedAge
    BY <1>2, <2>2, <2>4 DEF TypeOK
  <2>6. TypeOK'
    BY <1>1, <2>1, <2>5 DEF TypeOK, KeepOthers, callVars, Places
  <2>7. MinedBlocksAreReal' /\ BoosterCount' /\ BoosterHasWork'
    BY <1>1, <1>2, <2>1, <2>5 DEF MinedBlocksAreReal, KeepOthers, BoosterCount,
       BoosterHasWork, TypeOK
  <2>8. QED
    BY <1>1, <2>5, <2>6, <2>7, RecordsRewritten DEF PendingIsStored
<1>5. QED
  BY <1>1, <1>3, <1>4

LEMMA BoostBroadcastIInv ==
  ASSUME IInv, BoostBroadcast
  PROVE  IInv'
<1> USE DEF IInv
<1> DEFINE n == Oldest(worker.todo)
<1>1. /\ worker.at \in {"boosting", "repeating"}
      /\ Taken(TxOf(n)) \/ Refused(TxOf(n))
      /\ worker' \in {Idle, NextBoost(n)}
      /\ UNCHANGED store /\ KeepOthers
  BY DEF BoostBroadcast, At
<1>2. n \in worker.todo /\ n \in DOMAIN store
  BY <1>1, OldestIsIn DEF TypeOK, BoosterHasWork
<1> HIDE DEF n
<1>3. TxOf(n) \in PlainTx /\ Covered(TxOf(n).nonce)
  BY <1>2 DEF TypeOK, TxOf, Tx, PlainTx, StoredTx, Covered
<1>4. /\ mempool' \subseteq PlainTx
      /\ faults' \in 0 .. MaxFaults
      /\ \A u \in mempool' : u.nonce >= latest /\ u.nonce \in DOMAIN store
  BY <1>1, <1>3, MempoolAfterBroadcast
<1>5. /\ worker' \in [at : Places, todo : SUBSET Nat, lag : 0 .. MaxLag,
              nonce : Nat, fees : [newMaxFee : Nat, newPriority : Nat]]
      /\ worker'.todo \subseteq DOMAIN store
      /\ worker'.at = "idle" \/ (worker'.at = "boost" /\ worker'.todo # {})
  BY <1>1, <1>2, IdleType, NextBoostType
<1>6. TypeOK'
  BY <1>1, <1>4, <1>5 DEF TypeOK, KeepOthers, callVars
<1>7. MinedBlocksAreReal' /\ BoosterCount' /\ BoosterHasWork'
  BY <1>1, <1>5 DEF MinedBlocksAreReal, KeepOthers, BoosterCount, BoosterHasWork
<1>8. QED
  BY <1>1, <1>4, <1>6, <1>7, RecordsRewritten

\* A block ages everything: records keep their place, and a transaction that is
\* mined was stored.
LEMMA AgedStore ==
  ASSUME TypeOK, NewBlock
  PROVE  /\ DOMAIN store' = DOMAIN store /\ store' \in [DOMAIN store -> StoredTx]
         /\ \A n \in DOMAIN store : (store'[n].minedAge = NotMined)
                                      <=> (store[n].minedAge = NotMined)
         /\ worker' \in [at : Places, todo : SUBSET Nat, lag : 0 .. MaxLag,
                nonce : Nat, fees : [newMaxFee : Nat, newPriority : Nat]]
         /\ worker'.todo = worker.todo /\ worker'.at = worker.at
         /\ worker'.nonce = worker.nonce
         /\ Aged \in [DOMAIN mined -> [tx : PlainTx, age : Age]]
<1>1. \A s \in StoredTx :
        [s EXCEPT !.sentAge = Older(@),
                  !.minedAge = IF @ = NotMined THEN @ ELSE Older(@)] \in StoredTx
  BY AgeBounds DEF StoredTx
<1>2. \A a \in Age : a # NotMined
  BY DEF Age, NotMined
<1>3. \A s \in StoredTx :
        ([s EXCEPT !.sentAge = Older(@),
                   !.minedAge = IF @ = NotMined THEN @ ELSE Older(@)].minedAge = NotMined)
          <=> (s.minedAge = NotMined)
  BY <1>2, AgeBounds DEF StoredTx
<1>4. store' = [n \in DOMAIN store |->
           [store[n] EXCEPT !.sentAge = Older(@),
                            !.minedAge = IF @ = NotMined THEN @ ELSE Older(@)]]
  BY DEF NewBlock
<1>5. /\ DOMAIN store' = DOMAIN store /\ store' \in [DOMAIN store -> StoredTx]
      /\ \A n \in DOMAIN store : (store'[n].minedAge = NotMined)
                                   <=> (store[n].minedAge = NotMined)
  <2> DEFINE older(s) == [s EXCEPT !.sentAge = Older(@),
                            !.minedAge = IF @ = NotMined THEN @ ELSE Older(@)]
  <2>1. store' = [n \in DOMAIN store |-> older(store[n])]
    BY <1>4
  <2>2. \A s \in StoredTx : older(s) \in StoredTx
                              /\ (older(s).minedAge = NotMined <=> s.minedAge = NotMined)
    BY <1>1, <1>3
  <2>3. \A n \in DOMAIN store : store[n] \in StoredTx
    BY DEF TypeOK
  <2> HIDE DEF older
  <2>4. QED
    BY <2>1, <2>2, <2>3
<1>6. /\ worker' \in [at : Places, todo : SUBSET Nat, lag : 0 .. MaxLag,
                nonce : Nat, fees : [newMaxFee : Nat, newPriority : Nat]]
      /\ worker'.todo = worker.todo /\ worker'.at = worker.at
      /\ worker'.nonce = worker.nonce
  <2>1. CASE worker.at = "idle"
    BY <2>1 DEF NewBlock, TypeOK, At
  <2>2. CASE worker.at # "idle"
    <3>1. worker.lag < MaxLag /\ worker' = [worker EXCEPT !.lag = @ + 1]
      BY <2>2 DEF NewBlock, At
    <3>2. worker.lag + 1 \in 0 .. MaxLag
      BY <3>1, AgeBounds DEF TypeOK
    <3>3. QED
      BY <3>1, <3>2 DEF TypeOK
  <2>3. QED
    BY <2>1, <2>2
<1>7. Aged \in [DOMAIN mined -> [tx : PlainTx, age : Age]]
  BY AgeBounds DEF Aged, TypeOK
<1>8. QED
  BY <1>5, <1>6, <1>7

LEMMA EmptyBlockIInv ==
  ASSUME IInv, EmptyBlock
  PROVE  IInv'
<1> USE DEF IInv
<1>1. NewBlock /\ mined' = Aged /\ UNCHANGED <<latest, mempool>>
  BY DEF EmptyBlock
<1>2. UNCHANGED <<baseFee, funded, nonces, mutex, pc, polled, signed, faults>>
  BY <1>1 DEF NewBlock, callVars
<1>3. TypeOK'
  BY <1>1, <1>2, AgedStore DEF TypeOK
<1>4. PendingIsStored' /\ CountsAreCovered' /\ NoGapAt'
  BY <1>1, <1>2, AgedStore DEF PendingIsStored, CountsAreCovered, NoGapAt, Covered
<1>5. MinedBlocksAreReal' /\ BoosterCount' /\ BoosterHasWork'
  BY <1>1, AgedStore DEF MinedBlocksAreReal, BoosterCount, StoredFromCount, BoosterHasWork
<1>6. QED
  BY <1>3, <1>4, <1>5


LEMMA MineIInv ==
  ASSUME IInv, Mine
  PROVE  IInv'
<1> USE DEF IInv
<1>1. PICK t \in mempool :
         /\ t.nonce = latest
         /\ mined' = With(Aged, latest, [tx |-> t, age |-> 0])
         /\ mempool' = {o \in mempool : o.nonce # latest}
         /\ NewBlock /\ latest' = latest + 1
         /\ UNCHANGED <<baseFee, funded, nonces, mutex, pc, polled, signed, faults>>
  BY DEF Mine, NewBlock, callVars
<1>2. latest \in DOMAIN store /\ latest \in Nat
  BY <1>1 DEF PendingIsStored, TypeOK
<1>a. /\ DOMAIN store' = DOMAIN store /\ store' \in [DOMAIN store -> StoredTx]
      /\ \A n \in DOMAIN store : (store'[n].minedAge = NotMined)
                                   <=> (store[n].minedAge = NotMined)
      /\ worker' \in [at : Places, todo : SUBSET Nat, lag : 0 .. MaxLag,
                nonce : Nat, fees : [newMaxFee : Nat, newPriority : Nat]]
      /\ worker'.todo = worker.todo /\ worker'.at = worker.at
      /\ worker'.nonce = worker.nonce
      /\ Aged \in [DOMAIN mined -> [tx : PlainTx, age : Age]]
  BY <1>1, AgedStore
<1>3. \A k \in Nat : Covered(k)' <=> Covered(k)
  <2>1. ASSUME NEW k \in Nat
        PROVE  Covered(k)' <=> Covered(k)
    <3>1. k < latest' <=> k < latest \/ k = latest
      BY <1>1, <1>2
    <3>2. QED
      BY <1>2, <1>a, <3>1 DEF Covered
  <2>2. QED
    BY <2>1
<1>4. mined' \in [0 .. latest' - 1 -> [tx : PlainTx, age : Age]]
  <2>1. DOMAIN mined \cup {latest} = 0 .. latest' - 1
    BY <1>1, <1>2 DEF TypeOK
  <2>2. [tx |-> t, age |-> 0] \in [tx : PlainTx, age : Age]
    BY <1>1, AgeBounds DEF TypeOK
  <2>3. QED
    BY <1>1, <2>1, <2>2, <1>a DEF With
<1>5. TypeOK'
  <2>1. latest' \in Nat
    BY <1>1, <1>2
  <2>2. mempool' \subseteq PlainTx
    BY <1>1 DEF TypeOK
  <2>3. DOMAIN store' \subseteq Nat /\ store' \in [DOMAIN store' -> StoredTx]
        /\ worker'.todo \subseteq DOMAIN store'
    BY <1>a DEF TypeOK
  <2>4. QED
    BY <1>1, <1>4, <1>a, <2>1, <2>2, <2>3 DEF TypeOK
<1>6. PendingIsStored'
  <2>1. \A u \in mempool' : u.nonce >= latest' /\ u.nonce \in DOMAIN store'
    <3>1. ASSUME NEW u \in mempool'
          PROVE  u.nonce >= latest + 1 /\ u.nonce \in DOMAIN store
      <4>1. u \in mempool /\ u.nonce # latest /\ u \in PlainTx
        BY <1>1, <3>1 DEF TypeOK
      <4>2. u.nonce >= latest /\ u.nonce \in DOMAIN store /\ u.nonce \in Nat
        BY <4>1 DEF PendingIsStored, PlainTx
      <4>3. QED
        BY <1>2, <4>1, <4>2
    <3>2. QED
      BY <1>1, <1>a, <3>1
  <2>2. QED
    BY <1>1, <1>3, <2>1 DEF PendingIsStored, PlainTx
<1>7. CountsAreCovered' /\ NoGapAt'
  BY <1>1, <1>3, <1>a DEF CountsAreCovered, NoGapAt
<1>8. MinedBlocksAreReal'
  <2>1. ASSUME NEW n \in DOMAIN store, n < latest
        PROVE  n < latest'
    BY <1>1, <1>2, <2>1 DEF TypeOK
  <2>2. QED
    BY <1>a, <2>1 DEF MinedBlocksAreReal
<1>9. BoosterCount' /\ BoosterHasWork'
  <2>1. BoosterHasWork'
    BY <1>1, <1>a DEF BoosterHasWork
  <2>2. ASSUME worker.at = "load"
        PROVE  worker.nonce <= latest' /\ StoredFromCount(worker.nonce)'
    BY <1>1, <1>2, <2>2, <1>a DEF BoosterCount, StoredFromCount, TypeOK
  <2>3. QED
    BY <1>1, <2>1, <2>2, <1>a DEF BoosterCount, StoredFromCount
<1>10. QED
  BY <1>5, <1>6, <1>7, <1>8, <1>9

\* The faults that touch neither the chain's nonces nor the store.
LEMMA FaultIInv ==
  ASSUME IInv, Drop \/ MoveBaseFee \/ Drain \/ TopUp \/ Restart
  PROVE  IInv'
<1> USE DEF IInv
<1>1. faults' \in 0 .. MaxFaults
  <2>1. MaxFaults \in Nat
    BY TransactionManagerAssumption
  <2>2. QED
    BY <2>1 DEF TypeOK, Drop, MoveBaseFee, Drain, TopUp, Restart, Fault
<1>2. UNCHANGED <<latest, mined, store>> /\ mempool' \subseteq mempool
  BY DEF Drop, MoveBaseFee, Drain, TopUp, Restart, chainVars
<1>3. CASE Restart
  <2>1. TypeOK'
    <3>1. NoTx \in PlainTx \cup {NoTx}
      OBVIOUS
    <3>2. QED
      BY <1>1, <1>3, <3>1, IdleType DEF TypeOK, Restart, chainVars, InFlight
  <2>2. \A r \in Requests : pc'[r] \notin InFlight
    BY <1>3 DEF Restart, InFlight
  <2>3. PendingIsStored' /\ CountsAreCovered'
    BY <1>3, <2>2 DEF Restart, chainVars, PendingIsStored, CountsAreCovered, InFlight
  <2>4. BoosterCount' /\ BoosterHasWork'
    BY <1>3, IdleType DEF Restart, BoosterCount, BoosterHasWork
  <2>5. QED
    BY <1>2, <2>1, <2>3, <2>4, ChainAndStoreKept
<1>4. CASE Drop \/ MoveBaseFee \/ Drain \/ TopUp
  <2>1. UNCHANGED <<nonces, mutex, pc, polled, signed, worker>>
    BY <1>4 DEF Drop, MoveBaseFee, Drain, TopUp, callVars
  <2>2. baseFee' \in BaseFees /\ funded' \in BOOLEAN
    BY <1>4 DEF TypeOK, Drop, MoveBaseFee, Drain, TopUp
  <2>3. TypeOK'
    BY <1>1, <1>2, <2>1, <2>2 DEF TypeOK
  <2>4. PendingIsStored' /\ CountsAreCovered'
    BY <1>2, <2>1 DEF PendingIsStored, CountsAreCovered, Covered
  <2>5. BoosterCount' /\ BoosterHasWork'
    BY <1>2, <2>1 DEF BoosterCount, StoredFromCount, BoosterHasWork
  <2>6. QED
    BY <1>2, <2>3, <2>4, <2>5, ChainAndStoreKept
<1>5. QED
  BY <1>3, <1>4

LEMMA StutterIInv ==
  ASSUME IInv, UNCHANGED vars
  PROVE  IInv'
<1> USE DEF IInv
<1>1. UNCHANGED <<latest, mined, mempool, baseFee, funded, store, nonces, mutex, pc,
                  polled, signed, worker, faults>>
  BY DEF vars
<1>2. TypeOK' /\ PendingIsStored'
  BY <1>1 DEF TypeOK, PendingIsStored, Covered
<1>3. CountsAreCovered' /\ BoosterCount' /\ BoosterHasWork'
  BY <1>1 DEF CountsAreCovered, Covered, BoosterCount, StoredFromCount, BoosterHasWork
<1>4. QED
  BY <1>1, <1>2, <1>3, ChainAndStoreKept

LEMMA NextIInv == IInv /\ [Next]_vars => IInv'
<1> SUFFICES ASSUME IInv, [Next]_vars PROVE IInv'
  OBVIOUS
<1>1. ASSUME NEW r \in Requests, SendStep(r)
      PROVE  IInv'
  BY <1>1, AcquireIInv, PollIInv, SignIInv, BroadcastIInv DEF SendStep
<1>2. CASE WorkerStep
  BY <1>2, WorkerWakesIInv, FillIInv, RemoveArchivedIInv, BoostCountIInv,
     BoostLoadIInv, BoostOneIInv, BoostBroadcastIInv DEF WorkerStep
<1>3. CASE EmptyBlock \/ Mine
  BY <1>3, EmptyBlockIInv, MineIInv
<1>4. CASE Drop \/ MoveBaseFee \/ Drain \/ TopUp \/ Restart
  BY <1>4, FaultIInv
<1>5. CASE UNCHANGED vars
  BY <1>5, StutterIInv
<1>6. QED
  BY <1>1, <1>2, <1>3, <1>4, <1>5 DEF Next

THEOREM Inductive == Spec => []IInv
<1>1. QED
  BY InitIInv, NextIInv, PTL DEF Spec

\* Every variable keeps its type, and no mined nonce is skipped.
THEOREM TypeCorrect == Spec => []TypeOK
<1>1. IInv => TypeOK
  BY DEF IInv
<1>2. QED
  BY <1>1, Inductive, PTL

\* The stored nonces above the account nonce have no gap, however many calls
\* fail half way, however often the server restarts and whatever the node
\* forgets.
THEOREM StoreHasNoGap == Spec => []NoGap
<1>1. IInv => NoGap
  <2> SUFFICES ASSUME IInv, NEW n \in DOMAIN store, NEW k \in latest .. n
               PROVE  k \in DOMAIN store
    BY DEF NoGap
  <2>1. n \in Nat /\ latest \in Nat /\ k \in Nat /\ k >= latest
    BY DEF IInv, TypeOK
  <2>2. CASE k < n
    BY <2>1, <2>2 DEF IInv, NoGapAt, Covered
  <2>3. CASE k = n
    BY <2>3
  <2>4. QED
    BY <2>1, <2>2, <2>3
<1>2. QED
  BY <1>1, Inductive, PTL

\* The booster's assertion 'Boosting: missing nonce' never fails.
THEOREM BoosterNeverThrows == Spec => []BoostFindsOldest
<1>1. IInv => BoostFindsOldest
  <2> SUFFICES ASSUME IInv, At("load"), StoredFrom(worker.nonce) # {}
               PROVE  Oldest(StoredFrom(worker.nonce)) = worker.nonce
    BY DEF BoostFindsOldest
  <2> DEFINE S == StoredFrom(worker.nonce)
             o == Oldest(S)
  <2>1. S \in SUBSET Nat /\ worker.nonce \in Nat /\ latest \in Nat
    BY DEF IInv, TypeOK, StoredFrom
  <2>2. o \in S /\ \A k \in S : o <= k
    BY <2>1, OldestIsIn
  <2>3. o \in DOMAIN store /\ o >= worker.nonce
    BY <2>2 DEF StoredFrom
  <2>4. worker.nonce \in DOMAIN store
    <3>1. worker.nonce <= latest /\ StoredFromCount(worker.nonce)
      BY DEF IInv, BoosterCount, At
    <3>2. CASE worker.nonce < latest
      BY <2>1, <3>1, <3>2 DEF StoredFromCount
    <3>3. CASE worker.nonce = latest
      <4>1. o \in Nat /\ (o = latest \/ latest < o)
        BY <2>1, <2>2, <2>3, <3>3
      <4>2. latest < o => latest \in DOMAIN store
        BY <2>1, <2>3 DEF IInv, NoGapAt, Covered
      <4>3. QED
        BY <2>3, <3>3, <4>1, <4>2
    <3>4. QED
      BY <2>1, <3>1, <3>2, <3>3
  <2>5. worker.nonce \in S
    BY <2>1, <2>4 DEF StoredFrom
  <2>6. QED
    BY <2>1, <2>2, <2>3, <2>5
<1>2. QED
  BY <1>1, Inductive, PTL

\* Nothing leaves the store before it is on the chain.
THEOREM OnlyMinedIsArchived == Spec => ArchivedWasMined
<1>1. ASSUME IInv, [Next]_vars
      PROVE  [\A n \in DOMAIN store \ DOMAIN store' : n < latest]_vars
  <2>1. CASE RemoveArchived
    BY <1>1, <2>1 DEF RemoveArchived, Archived, IInv, MinedBlocksAreReal
  <2>2. ASSUME NEW r \in Requests, SendStep(r)
        PROVE  DOMAIN store \subseteq DOMAIN store'
    BY <2>2 DEF SendStep, Acquire, Poll, Sign, Insert, PutNew, With, Broadcast
  <2>3. CASE WorkerStep /\ ~RemoveArchived
    BY <2>3 DEF WorkerStep, WorkerWakes, Fill, BoostCount, BoostLoad, BoostOne,
                Resend, BoostBroadcast
  <2>4. CASE EmptyBlock \/ Mine
    BY <2>4 DEF EmptyBlock, Mine, NewBlock
  <2>5. CASE Drop \/ MoveBaseFee \/ Drain \/ TopUp \/ Restart
    BY <2>5 DEF Drop, MoveBaseFee, Drain, TopUp, Restart
  <2>6. CASE UNCHANGED vars
    BY <2>6
  <2>7. QED
    BY <1>1, <2>1, <2>2, <2>3, <2>4, <2>5, <2>6 DEF Next
<1>2. QED
  BY <1>1, Inductive, PTL DEF Spec, ArchivedWasMined

(***************************************************************************)
(* A nonce carries one request for good, and the manager is an outbox: the *)
(* requests it stores are executed in the order in which they were stored, *)
(* each once.  For any number of calls, any faults and any prices.         *)
(***************************************************************************)

\* A call that has not signed yet.
Fresh(r) == pc[r] \in {"new", "locked", "counted"}

\* Two transactions, or versions of one, of the same request.
SameOwner(t, u) == t.nonce = u.nonce /\ t.req = u.req

\* A transaction is held by its call only until it is broadcast, and nothing
\* carries the request of a call that has not signed.
SignedWhileStored == \A r \in Requests : signed[r] # NoTx => pc[r] = "stored"
FreshIsUnknown == \A r \in Requests : Fresh(r) => \A t \in SignedTxs : t.req # r

\* The chain keeps a transaction under its nonce, the node's pending count is
\* not below the account nonce when the call signs, and what is stored above
\* the account nonce ends at one nonce.
MinedInPlace == \A n \in DOMAIN mined : mined[n].tx.nonce = n
CountIsRecent == \A r \in Requests : pc[r] = "counted" => latest <= polled[r]
EndsAt(N) == latest <= N /\ StoredFrom(latest) = latest .. N - 1
HasAnEnd == \E N \in Nat : EndsAt(N)

OwnerInv ==
    /\ IInv /\ OneRequestPerNonce /\ SignedWhileStored /\ FreshIsUnknown
    /\ MinedInPlace /\ CountIsRecent /\ HasAnEnd

LEMMA InitOwnerInv == Init => OwnerInv
<1> SUFFICES ASSUME Init PROVE OwnerInv
  OBVIOUS
<1>1. IInv
  BY InitIInv
<1>2. DOMAIN mined = {} /\ DOMAIN store = {} /\ mempool = {}
      /\ latest = 0 /\ \A r \in Requests : signed[r] = NoTx /\ pc[r] = "new"
  BY DEF Init
<1>3. SignedTxs = {}
  BY <1>2 DEF SignedTxs
<1>4. StoredFrom(latest) = latest .. 0 - 1
  BY <1>2 DEF StoredFrom
<1>5. EndsAt(0)
  BY <1>2, <1>4 DEF EndsAt
<1>6. QED
  BY <1>1, <1>2, <1>3, <1>5 DEF OwnerInv, OneRequestPerNonce, SignedWhileStored,
     FreshIsUnknown, MinedInPlace, CountIsRecent, HasAnEnd

\* What the transactions around look like.
LEMMA SignedTxsType ==
  ASSUME OwnerInv
  PROVE  \A t \in SignedTxs : t \in PlainTx /\ Covered(t.nonce)
<1> USE DEF OwnerInv, IInv
<1> SUFFICES ASSUME NEW t \in SignedTxs PROVE t \in PlainTx /\ Covered(t.nonce)
  OBVIOUS
<1>1. CASE t \in mempool
  BY <1>1 DEF TypeOK, PendingIsStored, Covered
<1>2. ASSUME NEW n \in DOMAIN mined, t = mined[n].tx
      PROVE  t \in PlainTx /\ Covered(t.nonce)
  <2>1. n < latest /\ mined[n].tx \in PlainTx
    BY DEF TypeOK
  <2>2. QED
    BY <1>2, <2>1 DEF MinedInPlace, Covered
<1>3. ASSUME NEW n \in DOMAIN store, t = TxOf(n)
      PROVE  t \in PlainTx /\ Covered(t.nonce)
  BY <1>3 DEF TypeOK, TxOf, Tx, PlainTx, StoredTx, Covered
<1>4. ASSUME NEW r \in Requests, t = signed[r], t # NoTx
      PROVE  t \in PlainTx /\ Covered(t.nonce)
  BY <1>4 DEF SignedWhileStored, PendingIsStored
<1>5. QED
  BY <1>1, <1>2, <1>3, <1>4 DEF SignedTxs

\* A step after which every transaction has the owner of one before it keeps
\* the owners.
LEMMA OwnersKept ==
  ASSUME OneRequestPerNonce, FreshIsUnknown,
         \A t \in SignedTxs' : \E u \in SignedTxs : SameOwner(t, u),
         \A r \in Requests : Fresh(r)' => Fresh(r)
  PROVE  OneRequestPerNonce' /\ FreshIsUnknown'
<1>1. ASSUME NEW t \in SignedTxs', NEW u \in SignedTxs'
      PROVE  (t.nonce = u.nonce) <=> (t.req = u.req)
  <2>1. PICK t0 \in SignedTxs : SameOwner(t, t0)
    OBVIOUS
  <2>2. PICK u0 \in SignedTxs : SameOwner(u, u0)
    OBVIOUS
  <2>3. QED
    BY <2>1, <2>2 DEF OneRequestPerNonce, SameOwner
<1>2. ASSUME NEW r \in Requests, Fresh(r)', NEW t \in SignedTxs'
      PROVE  t.req # r
  BY <1>2 DEF FreshIsUnknown, SameOwner
<1>3. QED
  BY <1>1, <1>2 DEF OneRequestPerNonce, FreshIsUnknown

\* Steps that sign nothing: the mempool and the chain take transactions that
\* are around, records are rewritten for their request or removed.
LEMMA NothingSigned ==
  ASSUME \A t \in mempool' : \E u \in SignedTxs : SameOwner(t, u),
         \A n \in DOMAIN mined' : \E u \in SignedTxs : SameOwner(mined'[n].tx, u),
         \A n \in DOMAIN store' : n \in DOMAIN store /\ store'[n].req = store[n].req,
         \A r \in Requests : signed'[r] \in {signed[r], NoTx}
  PROVE  \A t \in SignedTxs' : \E u \in SignedTxs : SameOwner(t, u)
<1> SUFFICES ASSUME NEW t \in SignedTxs'
             PROVE  \E u \in SignedTxs : SameOwner(t, u)
  OBVIOUS
<1>1. ASSUME NEW n \in DOMAIN store', t = TxOf(n)'
      PROVE  \E u \in SignedTxs : SameOwner(t, u)
  <2>1. TxOf(n) \in SignedTxs
    BY DEF SignedTxs
  <2>2. SameOwner(t, TxOf(n))
    BY <1>1 DEF SameOwner, TxOf, Tx
  <2>3. QED
    BY <2>1, <2>2
<1>2. ASSUME NEW r \in Requests, t = signed'[r], t # NoTx
      PROVE  \E u \in SignedTxs : SameOwner(t, u)
  BY <1>2 DEF SignedTxs, SameOwner
<1>3. CASE t \in mempool'
  BY <1>3
<1>4. ASSUME NEW n \in DOMAIN mined', t = mined'[n].tx
      PROVE  \E u \in SignedTxs : SameOwner(t, u)
  BY <1>4
<1>5. QED
  BY <1>1, <1>2, <1>3, <1>4 DEF SignedTxs

\* What is around keeps its owner.
LEMMA AroundIsSigned ==
  /\ \A t \in mempool : t \in SignedTxs /\ SameOwner(t, t)
  /\ \A n \in DOMAIN mined : mined[n].tx \in SignedTxs /\ SameOwner(mined[n].tx, mined[n].tx)
  /\ \A n \in DOMAIN store : TxOf(n) \in SignedTxs /\ SameOwner(TxOf(n), TxOf(n))
  BY DEF SignedTxs, SameOwner

\* The first N requests that a chain and a store hold: the log of the outbox
\* when the stored nonces end at N.
LogUpTo(N, l, m, s) ==
    [i \in 1 .. N |-> IF i <= l THEN m[i - 1].tx.req ELSE s[i - 1].req]

LEMMA EndLength ==
  ASSUME NEW l \in Nat, NEW N \in Nat, l <= N
  PROVE  l + Cardinality(l .. N - 1) = N
<1>1. l \in Int /\ N - 1 \in Int
  OBVIOUS
<1>2. Cardinality(l .. N - 1) = IF l > N - 1 THEN 0 ELSE (N - 1) - l + 1
  BY <1>1, FS_Interval
<1>3. QED
  BY <1>2

LEMMA LogByNonce ==
  ASSUME TypeOK, NEW N \in Nat, EndsAt(N)
  PROVE  Log = LogUpTo(N, latest, mined, store)
<1>1. latest + Cardinality(StoredFrom(latest)) = N
  BY EndLength DEF EndsAt, TypeOK
<1>2. QED
  BY <1>1 DEF Log, LogUpTo

LEMMA LogByNonceNext ==
  ASSUME TypeOK', NEW N \in Nat, EndsAt(N)'
  PROVE  Log' = LogUpTo(N, latest', mined', store')
<1>1. (latest + Cardinality(StoredFrom(latest)))' = N
  BY EndLength DEF EndsAt, TypeOK
<1>2. QED
  BY <1>1 DEF Log, LogUpTo

\* Its entries are requests.
LEMMA LogType ==
  ASSUME TypeOK, NEW N \in Nat, EndsAt(N)
  PROVE  LogUpTo(N, latest, mined, store) \in [1 .. N -> Requests]
<1>1. latest \in Nat /\ latest <= N /\ StoredFrom(latest) = latest .. N - 1
  BY DEF EndsAt, TypeOK
<1>2. ASSUME NEW i \in 1 .. N, i <= latest
      PROVE  mined[i - 1].tx.req \in Requests
  <2>1. i - 1 \in 0 .. latest - 1
    BY <1>1, <1>2
  <2>2. mined[i - 1].tx \in PlainTx
    BY <2>1 DEF TypeOK
  <2>3. QED
    BY <2>2 DEF PlainTx
<1>3. ASSUME NEW i \in 1 .. N, ~(i <= latest)
      PROVE  store[i - 1].req \in Requests
  <2>1. i - 1 \in latest .. N - 1
    BY <1>1, <1>3
  <2>2. i - 1 \in DOMAIN store
    BY <1>1, <2>1 DEF StoredFrom
  <2>3. QED
    BY <2>2 DEF TypeOK, StoredTx
<1>4. QED
  BY <1>2, <1>3 DEF LogUpTo

\* A step that signs and mines nothing and forgets no transaction still to be
\* mined: the outbox does not move.
LEMMA QuietStep ==
  ASSUME OwnerInv, TypeOK', IInv', latest' = latest, SignedWhileStored',
         \A t \in mempool' : \E u \in SignedTxs : SameOwner(t, u),
         DOMAIN mined' = DOMAIN mined,
         \A n \in DOMAIN mined : mined'[n].tx = mined[n].tx,
         \A n \in DOMAIN store' : n \in DOMAIN store /\ store'[n].req = store[n].req,
         \A n \in DOMAIN store : n >= latest => n \in DOMAIN store',
         \A r \in Requests : signed'[r] \in {signed[r], NoTx},
         \A r \in Requests : Fresh(r)' => Fresh(r),
         \A r \in Requests : pc'[r] = "counted" => latest <= polled'[r]
  PROVE  OwnerInv' /\ Log' = Log
<1> USE DEF OwnerInv
<1>1. \A n \in DOMAIN mined' : \E u \in SignedTxs : SameOwner(mined'[n].tx, u)
  BY AroundIsSigned
<1>2. OneRequestPerNonce' /\ FreshIsUnknown'
  BY <1>1, NothingSigned, OwnersKept
<1>3. MinedInPlace' /\ CountIsRecent'
  BY DEF MinedInPlace, CountIsRecent
<1>4. StoredFrom(latest)' = StoredFrom(latest)
  BY DEF StoredFrom
<1>5. PICK N \in Nat : EndsAt(N)
  BY DEF HasAnEnd
<1>6. EndsAt(N)'
  BY <1>4, <1>5 DEF EndsAt
<1>7. Log' = Log
  <2>1. Log = LogUpTo(N, latest, mined, store)
    BY <1>5, LogByNonce DEF IInv
  <2>2. Log' = LogUpTo(N, latest', mined', store')
    BY <1>6, LogByNonceNext
  <2>3. latest \in Nat /\ DOMAIN mined = 0 .. latest - 1
        /\ StoredFrom(latest)' = latest .. N - 1
    BY <1>4, <1>5 DEF IInv, TypeOK, EndsAt
  <2>4. ASSUME NEW i \in 1 .. N, i <= latest
        PROVE  mined'[i - 1].tx.req = mined[i - 1].tx.req
    <3>1. i - 1 \in DOMAIN mined
      BY <2>3, <2>4
    <3>2. QED
      BY <3>1
  <2>5. ASSUME NEW i \in 1 .. N, ~(i <= latest)
        PROVE  store'[i - 1].req = store[i - 1].req
    <3>1. i - 1 \in latest .. N - 1
      BY <2>3, <2>5
    <3>2. i - 1 \in DOMAIN store'
      BY <2>3, <3>1 DEF StoredFrom
    <3>3. QED
      BY <3>2
  <2>6. QED
    BY <2>1, <2>2, <2>4, <2>5 DEF LogUpTo
<1>8. QED
  BY <1>2, <1>3, <1>6, <1>7 DEF HasAnEnd

\* The outbox does not move with this step, or moves as it should.
OutboxStep == (latest' = latest /\ Log' = Log) \/ Outbox!Next

LEMMA AcquireOwner ==
  ASSUME OwnerInv, TypeOK', IInv', NEW r \in Requests, Acquire(r)
  PROVE  OwnerInv' /\ OutboxStep
<1>1. /\ pc[r] = "new" /\ pc' \in {[pc EXCEPT ![r] = "failed"], [pc EXCEPT ![r] = "locked"]}
      /\ UNCHANGED <<latest, mined, mempool, store, polled, signed>>
  BY DEF Acquire, Going, chainVars
<1>2. \A q \in Requests : Fresh(q)' => Fresh(q)
  BY <1>1 DEF OwnerInv, IInv, TypeOK, Fresh
<1>3. SignedWhileStored' /\ \A q \in Requests : pc'[q] = "counted" => latest <= polled'[q]
  BY <1>1 DEF OwnerInv, IInv, TypeOK, SignedWhileStored, CountIsRecent
<1>4. \A t \in mempool' : \E u \in SignedTxs : SameOwner(t, u)
  BY <1>1, AroundIsSigned
<1>5. QED
  BY <1>1, <1>2, <1>3, <1>4, QuietStep DEF OutboxStep

LEMMA PollOwner ==
  ASSUME OwnerInv, TypeOK', IInv', NEW r \in Requests, Poll(r)
  PROVE  OwnerInv' /\ OutboxStep
<1>1. PICK n \in latest .. latest + Cardinality(mempool) :
         IsPendingCount(n) /\ polled' = [polled EXCEPT ![r] = n]
  BY DEF Poll
<1>2. latest <= n
  BY <1>1 DEF IsPendingCount
<1>3. /\ pc[r] = "locked" /\ pc' = [pc EXCEPT ![r] = "counted"]
      /\ UNCHANGED <<latest, mined, mempool, store, signed>>
  BY DEF Poll, Going, chainVars
<1>4. \A q \in Requests : Fresh(q)' => Fresh(q)
  BY <1>3 DEF OwnerInv, IInv, TypeOK, Fresh
<1>5. SignedWhileStored'
  BY <1>3 DEF OwnerInv, IInv, TypeOK, SignedWhileStored
<1>6. \A q \in Requests : pc'[q] = "counted" => latest <= polled'[q]
  BY <1>1, <1>2, <1>3 DEF OwnerInv, IInv, TypeOK, CountIsRecent
<1>7. \A t \in mempool' : \E u \in SignedTxs : SameOwner(t, u)
  BY <1>3, AroundIsSigned
<1>8. QED
  BY <1>3, <1>4, <1>5, <1>6, <1>7, QuietStep DEF OutboxStep

\* A nonce that is neither on the chain nor stored is at or above the end of the
\* store; when the counts below it are covered it is that end.
LEMMA NextNonceIsTheEnd ==
  ASSUME IInv, NEW N \in Nat, EndsAt(N), NEW n \in Nat, latest <= n,
         n \notin DOMAIN store, \A k \in Nat : k < n => Covered(k)
  PROVE  n = N
<1>1. latest \in Nat /\ latest <= N /\ StoredFrom(latest) = latest .. N - 1
  BY DEF EndsAt, IInv, TypeOK
<1>2. ~(n < N)
  <2>1. n < N => n \in latest .. N - 1
    BY <1>1
  <2>2. QED
    BY <1>1, <2>1 DEF StoredFrom
<1>3. ~(N < n)
  <2>1. N < n => N \in DOMAIN store
    BY <1>1 DEF Covered
  <2>2. N \in DOMAIN store => N \in StoredFrom(latest)
    BY <1>1 DEF StoredFrom
  <2>3. N \notin latest .. N - 1
    OBVIOUS
  <2>4. QED
    BY <1>1, <2>1, <2>2, <2>3
<1>4. QED
  BY <1>2, <1>3

\* The log of a request more.
LEMMA LogGrows ==
  ASSUME TypeOK, NEW N \in Nat, EndsAt(N), NEW r \in Requests, NEW s,
         \A k \in DOMAIN store : s[k].req = store[k].req, s[N].req = r
  PROVE  LogUpTo(N + 1, latest, mined, s) = Append(LogUpTo(N, latest, mined, store), r)
<1> DEFINE L == LogUpTo(N, latest, mined, store)
           M == LogUpTo(N + 1, latest, mined, s)
<1>1. L \in Seq(Requests) /\ Len(L) = N /\ DOMAIN L = 1 .. N
  BY LogType
<1>2. /\ Append(L, r) \in Seq(Requests) /\ Len(Append(L, r)) = N + 1
      /\ DOMAIN Append(L, r) = 1 .. N + 1
      /\ \A i \in 1 .. N : Append(L, r)[i] = L[i]
      /\ Append(L, r)[N + 1] = r
  BY <1>1
<1>3. latest \in Nat /\ latest <= N /\ StoredFrom(latest) = latest .. N - 1
  BY DEF EndsAt, TypeOK
<1>4. ASSUME NEW i \in 1 .. N
      PROVE  M[i] = L[i]
  <2>1. CASE i <= latest
    BY <2>1 DEF LogUpTo
  <2>2. CASE ~(i <= latest)
    <3>1. i - 1 \in latest .. N - 1
      BY <1>3, <2>2
    <3>2. i - 1 \in DOMAIN store
      BY <1>3, <3>1 DEF StoredFrom
    <3>3. QED
      BY <2>2, <3>2 DEF LogUpTo
  <2>3. QED
    BY <2>1, <2>2
<1>5. M[N + 1] = r
  <2>1. N + 1 \in 1 .. N + 1 /\ ~(N + 1 <= latest) /\ N + 1 - 1 = N
    BY <1>3
  <2>2. QED
    BY <2>1 DEF LogUpTo
<1>6. M = [i \in 1 .. N + 1 |-> M[i]]
  BY DEF LogUpTo
<1>7. Append(L, r) = [i \in 1 .. N + 1 |-> Append(L, r)[i]]
  <2>1. Append(L, r) \in [1 .. N + 1 -> Requests]
    BY <1>2, LenProperties
  <2>2. QED
    BY <2>1
<1> HIDE DEF L, M
<1>8. \A i \in 1 .. N + 1 : M[i] = Append(L, r)[i]
  BY <1>2, <1>4, <1>5
<1>9. M = Append(L, r)
  BY <1>6, <1>7, <1>8
<1>10. QED
  BY <1>9 DEF L, M

\* A stored request is accepted by the outbox: nothing carried it before, and
\* its nonce is the next one.
LEMMA SignOwner ==
  ASSUME OwnerInv, TypeOK', IInv', NEW r \in Requests, Sign(r)
  PROVE  OwnerInv' /\ OutboxStep
<1> USE DEF OwnerInv
<1>1. PICK n \in Nat :
         /\ n = Larger(nonces, polled[r]) /\ (\A k \in Nat : k < n => Covered(k))
         /\ pc[r] = "counted" /\ latest <= n /\ latest \in Nat
  <2>1. pc[r] = "counted"
    BY DEF Sign, Insert, PutNew, Going
  <2>2. nonces \in Nat /\ polled[r] \in Nat /\ latest \in Nat /\ latest <= polled[r]
    BY <2>1 DEF IInv, TypeOK, CountIsRecent
  <2>3. /\ \A k \in Nat : k < nonces => Covered(k)
        /\ \A k \in Nat : k < polled[r] => Covered(k)
    BY <2>1 DEF IInv, CountsAreCovered
  <2>4. QED
    BY <2>1, <2>2, <2>3 DEF Larger
<1>2. /\ polled' = [polled EXCEPT ![r] = 0]
      /\ UNCHANGED <<latest, mined, mempool>>
      /\ Insert(r, n)
  BY <1>1 DEF Sign, chainVars
<1>3. CASE n \in DOMAIN store /\ Going(r, "counted", "failed") /\ UNCHANGED <<store, signed>>
  <2>1. pc' = [pc EXCEPT ![r] = "failed"] /\ UNCHANGED <<store, signed>>
    BY <1>3 DEF Going
  <2>2. \A q \in Requests : Fresh(q)' => Fresh(q)
    BY <2>1 DEF IInv, TypeOK, Fresh
  <2>3. SignedWhileStored' /\ \A q \in Requests : pc'[q] = "counted" => latest <= polled'[q]
    BY <1>1, <1>2, <2>1 DEF IInv, TypeOK, SignedWhileStored, CountIsRecent
  <2>4. \A t \in mempool' : \E u \in SignedTxs : SameOwner(t, u)
    BY <1>2, AroundIsSigned
  <2>5. QED
    BY <1>2, <2>1, <2>2, <2>3, <2>4, QuietStep DEF OutboxStep
<1>4. CASE n \notin DOMAIN store /\ PutNew(r, n)
  <2>1. PICK f \in RequestFees :
           /\ signed' = [signed EXCEPT ![r] = Tx(n, r, f[1], f[2])]
           /\ store' = With(store, n,
                  [req |-> r, maxFee |-> f[1], priority |-> f[2],
                   sentAge |-> 0, minedAge |-> NotMined])
    BY <1>4 DEF PutNew
  <2>2. /\ pc' = [pc EXCEPT ![r] = "stored"]
        /\ pc \in [Requests -> InFlight \cup {"new", "sent", "failed", "lost"}]
    BY <1>4 DEF PutNew, Going, IInv, TypeOK
  <2>3. /\ DOMAIN store' = DOMAIN store \cup {n}
        /\ store'[n].req = r /\ \A k \in DOMAIN store : store'[k] = store[k]
    BY <1>4, <2>1 DEF With
  <2>4. \A t \in SignedTxs : t.nonce # n /\ t.req # r
    <3>1. ~Covered(n)
      BY <1>1, <1>4 DEF Covered
    <3>2. QED
      BY <1>1, <3>1, SignedTxsType DEF FreshIsUnknown, Fresh
  <2>5. \A t \in SignedTxs' : \/ \E u \in SignedTxs : SameOwner(t, u)
                              \/ t.nonce = n /\ t.req = r
    <3> SUFFICES ASSUME NEW t \in SignedTxs'
                 PROVE  \/ \E u \in SignedTxs : SameOwner(t, u)
                        \/ t.nonce = n /\ t.req = r
      OBVIOUS
    <3>1. CASE t \in mempool'
      BY <1>2, <3>1, AroundIsSigned
    <3>2. ASSUME NEW k \in DOMAIN mined', t = mined'[k].tx
          PROVE  \E u \in SignedTxs : SameOwner(t, u)
      BY <1>2, <3>2, AroundIsSigned
    <3>3. ASSUME NEW k \in DOMAIN store', t = TxOf(k)'
          PROVE  \/ \E u \in SignedTxs : SameOwner(t, u)
                 \/ t.nonce = n /\ t.req = r
      <4>1. t.nonce = k /\ t.req = store'[k].req
        BY <3>3 DEF TxOf, Tx
      <4>2. CASE k = n
        BY <2>3, <4>1, <4>2
      <4>3. CASE k \in DOMAIN store
        <5>1. TxOf(k) \in SignedTxs /\ TxOf(k).nonce = k /\ TxOf(k).req = store[k].req
          BY <4>3, AroundIsSigned DEF TxOf, Tx
        <5>2. QED
          BY <2>3, <4>1, <4>3, <5>1 DEF SameOwner
      <4>4. QED
        BY <2>3, <4>2, <4>3
    <3>4. ASSUME NEW q \in Requests, t = signed'[q], t # NoTx
          PROVE  \/ \E u \in SignedTxs : SameOwner(t, u)
                 \/ t.nonce = n /\ t.req = r
      <4>1. CASE q = r
        BY <2>1, <3>4, <4>1 DEF Tx, IInv, TypeOK
      <4>2. CASE q # r
        <5>1. t = signed[q]
          BY <2>1, <3>4, <4>2 DEF IInv, TypeOK
        <5>2. QED
          BY <3>4, <5>1 DEF SignedTxs, SameOwner
      <4>3. QED
        BY <4>1, <4>2
    <3>5. QED
      BY <3>1, <3>2, <3>3, <3>4 DEF SignedTxs
  <2>6. OneRequestPerNonce'
    <3> SUFFICES ASSUME NEW t \in SignedTxs', NEW u \in SignedTxs'
                 PROVE  (t.nonce = u.nonce) <=> (t.req = u.req)
      BY DEF OneRequestPerNonce
    <3>1. QED
      BY <2>4, <2>5 DEF OneRequestPerNonce, SameOwner
  <2>7. FreshIsUnknown'
    <3> SUFFICES ASSUME NEW q \in Requests, Fresh(q)', NEW t \in SignedTxs'
                 PROVE  t.req # q
      BY DEF FreshIsUnknown
    <3>1. q # r /\ Fresh(q)
      BY <2>2 DEF Fresh
    <3>2. QED
      BY <2>5, <3>1 DEF FreshIsUnknown, SameOwner
  <2>8. SignedWhileStored' /\ CountIsRecent' /\ MinedInPlace'
    BY <1>2, <2>1, <2>2 DEF IInv, TypeOK, SignedWhileStored, CountIsRecent, MinedInPlace
  <2>9. EndsAt(n) /\ EndsAt(n + 1)'
    <3>1. PICK N \in Nat : EndsAt(N)
      BY DEF HasAnEnd
    <3>2. n = N
      BY <1>1, <1>4, <3>1, NextNonceIsTheEnd
    <3>3. StoredFrom(latest)' = StoredFrom(latest) \cup {n}
      BY <1>1, <1>2, <2>3 DEF StoredFrom
    <3>4. latest .. n + 1 - 1 = (latest .. n - 1) \cup {n}
      BY <1>1
    <3>5. QED
      BY <1>1, <1>2, <3>1, <3>2, <3>3, <3>4 DEF EndsAt
  <2>10. OwnerInv'
    <3>1. n + 1 \in Nat
      BY <1>1
    <3>2. HasAnEnd'
      BY <2>9, <3>1 DEF HasAnEnd
    <3>3. QED
      BY <2>6, <2>7, <2>8, <3>2
  <2>11. Outbox!Accept(r)
    <3>1. Log = LogUpTo(n, latest, mined, store)
      BY <1>1, <2>9, LogByNonce DEF IInv
    <3>2. Log' = LogUpTo(n + 1, latest, mined, store')
      <4>1. n + 1 \in Nat
        BY <1>1
      <4>2. Log' = LogUpTo(n + 1, latest', mined', store')
        BY <4>1, <2>9, LogByNonceNext
      <4>3. QED
        BY <4>2, <1>2
    <3>3. Log' = Append(Log, r)
      BY <1>1, <2>3, <2>9, <3>1, <3>2, LogGrows DEF IInv
    <3>4. Len(Log) = n
      BY <1>1, <2>9, <3>1, LogType DEF IInv
    <3>5. ASSUME NEW i \in 1 .. n
          PROVE  Log[i] # r
      <4>1. CASE i <= latest
        <5>0. DOMAIN mined = 0 .. latest - 1
          BY DEF IInv, TypeOK
        <5>1. i - 1 \in 0 .. latest - 1
          BY <1>1, <4>1
        <5>2. i - 1 \in DOMAIN mined /\ Log[i] = mined[i - 1].tx.req
          BY <3>1, <4>1, <5>0, <5>1 DEF LogUpTo
        <5>3. QED
          BY <2>4, <5>2, AroundIsSigned
      <4>2. CASE ~(i <= latest)
        <5>1. i - 1 \in latest .. n - 1
          BY <1>1, <4>2
        <5>2. i - 1 \in DOMAIN store /\ Log[i] = store[i - 1].req
          BY <2>9, <3>1, <4>2, <5>1 DEF EndsAt, StoredFrom, LogUpTo
        <5>3. TxOf(i - 1) \in SignedTxs /\ TxOf(i - 1).req = store[i - 1].req
          BY <5>2, AroundIsSigned DEF TxOf, Tx
        <5>4. QED
          BY <2>4, <5>2, <5>3
      <4>3. QED
        BY <4>1, <4>2
    <3>6. QED
      BY <1>2, <3>3, <3>4, <3>5 DEF Outbox!Accept
  <2>12. QED
    BY <2>10, <2>11 DEF OutboxStep, Outbox!Next
<1>5. QED
  BY <1>2, <1>3, <1>4 DEF Insert

\* A broadcast hands the node the transaction it sends, or nothing.
LEMMA MempoolTakesOnly ==
  ASSUME NEW t \in SignedTxs, Taken(t) \/ Refused(t)
  PROVE  \A u \in mempool' : \E v \in SignedTxs : SameOwner(u, v)
<1>1. \A u \in mempool' : u \in mempool \/ u = t
  BY DEF Taken, Refused, Enter
<1>2. SameOwner(t, t)
  BY DEF SameOwner
<1>3. QED
  BY <1>1, <1>2, AroundIsSigned

LEMMA BroadcastOwner ==
  ASSUME OwnerInv, TypeOK', IInv', NEW r \in Requests, Broadcast(r)
  PROVE  OwnerInv' /\ OutboxStep
<1>1. /\ pc[r] = "stored"
      /\ pc' \in {[pc EXCEPT ![r] = "sent"], [pc EXCEPT ![r] = "failed"]}
      /\ Taken(signed[r]) \/ Refused(signed[r])
      /\ signed' = [signed EXCEPT ![r] = NoTx]
      /\ UNCHANGED <<latest, mined, store, polled>>
  BY DEF Broadcast, Going
<1>2. signed[r] \in SignedTxs
  <2>1. signed[r] \in PlainTx
    BY <1>1 DEF OwnerInv, IInv, PendingIsStored
  <2>2. signed[r] # NoTx
    BY <2>1, TransactionManagerAssumption DEF PlainTx, NoTx, Tx
  <2>3. QED
    BY <2>2 DEF SignedTxs
<1>3. \A u \in mempool' : \E v \in SignedTxs : SameOwner(u, v)
  BY <1>1, <1>2, MempoolTakesOnly
<1>4. /\ \A q \in Requests : Fresh(q)' => Fresh(q)
      /\ \A q \in Requests : signed'[q] \in {signed[q], NoTx}
      /\ \A q \in Requests : pc'[q] = "counted" => latest <= polled'[q]
      /\ SignedWhileStored'
  BY <1>1 DEF OwnerInv, IInv, TypeOK, Fresh, SignedWhileStored, CountIsRecent
<1>5. QED
  BY <1>1, <1>3, <1>4, QuietStep DEF OutboxStep

\* Steps that leave the calls alone.
LEMMA CallsKept ==
  ASSUME OwnerInv, UNCHANGED <<latest, pc, polled, signed>>
  PROVE  /\ \A q \in Requests : Fresh(q)' => Fresh(q)
         /\ \A q \in Requests : signed'[q] \in {signed[q], NoTx}
         /\ \A q \in Requests : pc'[q] = "counted" => latest <= polled'[q]
         /\ SignedWhileStored'
  BY DEF OwnerInv, Fresh, SignedWhileStored, CountIsRecent

\* A record that is sent again, or gets its block, is of the same request.
LEMMA WorkerOwner ==
  ASSUME OwnerInv, TypeOK', IInv', WorkerStep
  PROVE  OwnerInv' /\ OutboxStep
<1> USE DEF OwnerInv
<1>1. KeepOthers
  BY DEF WorkerStep, WorkerWakes, Fill, RemoveArchived, BoostCount, BoostLoad, BoostOne,
         BoostBroadcast
<1>2. UNCHANGED <<latest, mined, pc, polled, signed>>
  BY <1>1 DEF KeepOthers, callVars
<1>3. /\ \A n \in DOMAIN store' : n \in DOMAIN store /\ store'[n].req = store[n].req
      /\ \A n \in DOMAIN store : n >= latest => n \in DOMAIN store'
  <2>1. CASE WorkerWakes \/ BoostCount \/ BoostLoad \/ BoostBroadcast
    BY <2>1 DEF WorkerWakes, BoostCount, BoostLoad, BoostBroadcast
  <2>2. CASE Fill
    <3>1. \/ store' = store
          \/ \E n \in Nat, a \in Age \cup {NotMined} :
               store' = [store EXCEPT ![n].minedAge = a]
      <4> DEFINE n == Oldest(worker.todo)
      <4>1. worker.todo # {} /\ worker.todo \in SUBSET Nat
        BY <2>2 DEF Fill, IInv, TypeOK
      <4>2. n \in Nat
        BY <4>1, OldestIsIn
      <4>3. Receipt(n) => mined[n].age \in Age
        BY <4>2 DEF Receipt, IInv, TypeOK
      <4>4. store' = store \/ (Receipt(n) /\ store' = [store EXCEPT ![n].minedAge = mined[n].age])
        BY <2>2 DEF Fill
      <4> HIDE DEF n
      <4>5. QED
        BY <4>2, <4>3, <4>4
    <3>2. ASSUME NEW n \in Nat, NEW a, store' = [store EXCEPT ![n].minedAge = a]
          PROVE  DOMAIN store' = DOMAIN store
                   /\ \A k \in DOMAIN store : store'[k].req = store[k].req
      BY <3>2 DEF IInv, TypeOK, StoredTx
    <3>3. QED
      BY <3>1, <3>2
  <2>3. CASE RemoveArchived
    BY <2>3 DEF RemoveArchived, Archived, IInv, TypeOK, MinedBlocksAreReal
  <2>4. CASE BoostOne
    <3> DEFINE n == Oldest(worker.todo)
    <3>1. n \in DOMAIN store
      BY <2>4, OldestIsIn DEF BoostOne, At, IInv, TypeOK, BoosterHasWork
    <3>2. store' = store \/ Resend(n)
      BY <2>4 DEF BoostOne
    <3> HIDE DEF n
    <3>3. CASE Resend(n)
      <4> DEFINE fee == IF Underpriced(n) THEN worker.fees.newMaxFee ELSE store[n].maxFee
                 priority == IF Underpriced(n) THEN worker.fees.newPriority
                                               ELSE store[n].priority
      <4>1. store[n] \in StoredTx
        BY <3>1 DEF IInv, TypeOK
      <4>2. store' = [store EXCEPT ![n] = SentAgain(@, worker.lag, fee, priority)]
        BY <3>1, <3>3, <4>1 DEF Resend, SentAgain, StoredTx
      <4>3. SentAgain(store[n], worker.lag, fee, priority).req = store[n].req
        BY <4>1 DEF SentAgain, StoredTx
      <4>4. QED
        BY <3>1, <4>2, <4>3
    <3>4. QED
      BY <3>2, <3>3
  <2>5. QED
    BY <2>1, <2>2, <2>3, <2>4 DEF WorkerStep
<1>4. \A u \in mempool' : \E v \in SignedTxs : SameOwner(u, v)
  <2>1. CASE BoostBroadcast
    <3> DEFINE n == Oldest(worker.todo)
    <3>1. n \in DOMAIN store
      BY <2>1, OldestIsIn DEF BoostBroadcast, At, IInv, TypeOK, BoosterHasWork
    <3>2. Taken(TxOf(n)) \/ Refused(TxOf(n))
      BY <2>1 DEF BoostBroadcast
    <3> HIDE DEF n
    <3>3. QED
      BY <3>1, <3>2, AroundIsSigned, MempoolTakesOnly
  <2>2. CASE mempool' = mempool
    BY <2>2, AroundIsSigned
  <2>3. QED
    BY <2>1, <2>2 DEF WorkerStep, WorkerWakes, Fill, RemoveArchived, BoostCount, BoostLoad,
       BoostOne
<1>5. QED
  BY <1>2, <1>3, <1>4, CallsKept, QuietStep DEF OutboxStep

\* A block makes everything older, and changes nothing else of it.
LEMMA AgedRequests ==
  ASSUME TypeOK, NewBlock
  PROVE  /\ UNCHANGED <<pc, polled, signed>>
         /\ DOMAIN store' = DOMAIN store
         /\ \A n \in DOMAIN store : store'[n].req = store[n].req
         /\ DOMAIN Aged = DOMAIN mined
         /\ \A n \in DOMAIN mined : Aged[n].tx = mined[n].tx
<1>1. \A s \in StoredTx :
        [s EXCEPT !.sentAge = Older(@),
                  !.minedAge = IF @ = NotMined THEN @ ELSE Older(@)].req = s.req
  BY DEF StoredTx
<1>2. store' = [n \in DOMAIN store |->
           [store[n] EXCEPT !.sentAge = Older(@),
                            !.minedAge = IF @ = NotMined THEN @ ELSE Older(@)]]
  BY DEF NewBlock
<1>3. \A n \in DOMAIN store : store[n] \in StoredTx
  BY DEF TypeOK
<1>4. DOMAIN store' = DOMAIN store /\ \A n \in DOMAIN store : store'[n].req = store[n].req
  BY <1>1, <1>2, <1>3
<1>5. DOMAIN Aged = DOMAIN mined /\ \A n \in DOMAIN mined : Aged[n].tx = mined[n].tx
  BY DEF Aged, TypeOK
<1>6. QED
  BY <1>4, <1>5 DEF NewBlock, callVars

LEMMA EmptyBlockOwner ==
  ASSUME OwnerInv, TypeOK', IInv', EmptyBlock
  PROVE  OwnerInv' /\ OutboxStep
<1>1. NewBlock /\ mined' = Aged /\ UNCHANGED <<latest, mempool>>
  BY DEF EmptyBlock
<1>2. TypeOK
  BY DEF OwnerInv, IInv
<1>3. \A u \in mempool' : \E v \in SignedTxs : SameOwner(u, v)
  BY <1>1, AroundIsSigned
<1>4. QED
  BY <1>1, <1>2, <1>3, AgedRequests, CallsKept, QuietStep DEF OutboxStep

\* The transaction that is mined is of the request that was stored under its
\* nonce, whatever version of it the node had: the outbox executes the next one.
LEMMA MineOwner ==
  ASSUME OwnerInv, TypeOK', IInv', Mine
  PROVE  OwnerInv' /\ OutboxStep
<1> USE DEF OwnerInv
<1>1. PICK t \in mempool :
         /\ t.nonce = latest
         /\ mined' = With(Aged, latest, [tx |-> t, age |-> 0])
         /\ mempool' = {o \in mempool : o.nonce # latest}
         /\ NewBlock /\ latest' = latest + 1
  BY DEF Mine
<1>2. /\ UNCHANGED <<pc, polled, signed>>
      /\ DOMAIN store' = DOMAIN store
      /\ \A n \in DOMAIN store : store'[n].req = store[n].req
      /\ DOMAIN Aged = DOMAIN mined
      /\ \A n \in DOMAIN mined : Aged[n].tx = mined[n].tx
  BY <1>1, AgedRequests DEF IInv
<1>3. latest \in Nat /\ DOMAIN mined = 0 .. latest - 1 /\ latest \in DOMAIN store
  BY <1>1 DEF IInv, TypeOK, PendingIsStored
<1>4. /\ DOMAIN mined' = DOMAIN mined \cup {latest}
      /\ mined'[latest].tx = t
      /\ \A n \in DOMAIN mined : mined'[n].tx = mined[n].tx
  <2>1. latest \notin DOMAIN mined
    BY <1>3
  <2>2. QED
    BY <1>1, <1>2, <2>1 DEF With
<1>5. t \in SignedTxs /\ t.req = store[latest].req
  <2>1. t \in SignedTxs /\ TxOf(latest) \in SignedTxs
    BY <1>1, <1>3, AroundIsSigned
  <2>2. TxOf(latest).nonce = latest /\ TxOf(latest).req = store[latest].req
    BY DEF TxOf, Tx
  <2>3. QED
    BY <1>1, <2>1, <2>2 DEF OneRequestPerNonce
<1>6. \A u \in SignedTxs' : \E v \in SignedTxs : SameOwner(u, v)
  <2>1. \A u \in mempool' : \E v \in SignedTxs : SameOwner(u, v)
    BY <1>1, AroundIsSigned
  <2>2. ASSUME NEW n \in DOMAIN mined'
        PROVE  \E v \in SignedTxs : SameOwner(mined'[n].tx, v)
    <3>1. CASE n = latest
      BY <1>4, <1>5, <3>1 DEF SameOwner
    <3>2. CASE n \in DOMAIN mined
      BY <1>4, <3>2, AroundIsSigned
    <3>3. QED
      BY <1>4, <3>1, <3>2
  <2>3. \A r \in Requests : signed'[r] \in {signed[r], NoTx}
    BY <1>2
  <2>4. \A n \in DOMAIN store' : n \in DOMAIN store /\ store'[n].req = store[n].req
    BY <1>2
  <2>5. QED
    BY <2>1, <2>2, <2>3, <2>4, NothingSigned
<1>7. OneRequestPerNonce' /\ FreshIsUnknown'
  <2>1. \A r \in Requests : Fresh(r)' => Fresh(r)
    BY <1>2 DEF Fresh
  <2>2. QED
    BY <1>6, <2>1, OwnersKept
<1>8. SignedWhileStored' /\ MinedInPlace' /\ CountIsRecent'
  <2>1. \A r \in Requests : pc[r] # "counted"
    BY <1>1 DEF NewBlock
  <2>2. QED
    BY <1>1, <1>2, <1>4, <2>1 DEF SignedWhileStored, MinedInPlace, CountIsRecent
<1>9. PICK N \in Nat : EndsAt(N)
  BY DEF HasAnEnd
<1>10. latest + 1 <= N /\ EndsAt(N)'
  <2>1. latest \in latest .. N - 1
    BY <1>3, <1>9 DEF EndsAt, StoredFrom
  <2>2. latest + 1 <= N
    BY <1>3, <2>1
  <2>3. StoredFrom(latest)' = StoredFrom(latest) \ {latest}
    <3>1. \A k \in Nat : k >= latest + 1 <=> k >= latest /\ k # latest
      BY <1>3
    <3>2. QED
      BY <1>1, <1>2, <3>1 DEF StoredFrom, IInv, TypeOK
  <2>4. latest + 1 .. N - 1 = (latest .. N - 1) \ {latest}
    BY <1>3
  <2>5. QED
    BY <1>1, <1>9, <2>2, <2>3, <2>4 DEF EndsAt
<1>11. Log' = Log
  <2>1. Log = LogUpTo(N, latest, mined, store)
    BY <1>9, LogByNonce DEF IInv
  <2>2. Log' = LogUpTo(N, latest', mined', store')
    BY <1>10, LogByNonceNext
  <2>3. ASSUME NEW i \in 1 .. N
        PROVE  (IF i <= latest' THEN mined'[i - 1].tx.req ELSE store'[i - 1].req)
                 = (IF i <= latest THEN mined[i - 1].tx.req ELSE store[i - 1].req)
    <3>1. CASE i <= latest
      <4>1. i - 1 \in DOMAIN mined /\ i <= latest + 1
        BY <1>3, <3>1
      <4>2. QED
        BY <1>1, <1>4, <3>1, <4>1
    <3>2. CASE i = latest + 1
      <4>1. i - 1 = latest /\ ~(i <= latest) /\ i <= latest + 1
        BY <1>3, <3>2
      <4>2. QED
        BY <1>1, <1>4, <1>5, <4>1
    <3>3. CASE i > latest + 1
      <4>1. i - 1 \in latest .. N - 1 /\ ~(i <= latest) /\ ~(i <= latest + 1)
        BY <1>3, <3>3
      <4>2. i - 1 \in DOMAIN store
        BY <1>9, <4>1 DEF EndsAt, StoredFrom
      <4>3. QED
        BY <1>1, <1>2, <4>1, <4>2
    <3>4. QED
      BY <1>3, <3>1, <3>2, <3>3
  <2>4. QED
    BY <2>1, <2>2, <2>3 DEF LogUpTo
<1>12. Outbox!Execute
  <2>1. Len(Log) = N
    BY <1>9, LogByNonce, LogType DEF IInv
  <2>2. latest < N
    BY <1>3, <1>10
  <2>3. QED
    BY <1>1, <1>11, <2>1, <2>2 DEF Outbox!Execute
<1>13. QED
  BY <1>7, <1>8, <1>10, <1>12 DEF HasAnEnd, OutboxStep, Outbox!Next

\* Faults forget transactions and calls; none adds any.
LEMMA FaultOwner ==
  ASSUME OwnerInv, TypeOK', IInv',
         Drop \/ MoveBaseFee \/ Drain \/ TopUp \/ Restart \/ UNCHANGED vars
  PROVE  OwnerInv' /\ OutboxStep
<1>1. UNCHANGED <<latest, mined, store>> /\ mempool' \subseteq mempool
  BY DEF Drop, MoveBaseFee, Drain, TopUp, Restart, chainVars, vars
<1>2. \A u \in mempool' : \E v \in SignedTxs : SameOwner(u, v)
  BY <1>1, AroundIsSigned
<1>3. CASE UNCHANGED <<pc, polled, signed>>
  BY <1>1, <1>2, <1>3, CallsKept, QuietStep DEF OutboxStep
<1>4. CASE Restart
  <2>1. /\ pc' = [r \in Requests |-> IF pc[r] \in InFlight THEN "lost" ELSE pc[r]]
        /\ \A r \in Requests : signed'[r] = NoTx
    BY <1>4 DEF Restart
  <2>2. /\ \A q \in Requests : Fresh(q)' => Fresh(q)
        /\ \A q \in Requests : pc'[q] # "counted"
        /\ SignedWhileStored'
    BY <2>1 DEF Fresh, InFlight, SignedWhileStored
  <2>3. QED
    BY <1>1, <1>2, <2>1, <2>2, QuietStep DEF OutboxStep
<1>5. QED
  BY <1>3, <1>4 DEF Drop, MoveBaseFee, Drain, TopUp, callVars, vars

LEMMA NextOwnerInv ==
  ASSUME OwnerInv, [Next]_vars
  PROVE  OwnerInv' /\ OutboxStep
<1>1. IInv' /\ TypeOK'
  BY NextIInv DEF OwnerInv, IInv
<1>2. ASSUME NEW r \in Requests, SendStep(r)
      PROVE  OwnerInv' /\ OutboxStep
  BY <1>1, <1>2, AcquireOwner, PollOwner, SignOwner, BroadcastOwner DEF SendStep
<1>3. CASE WorkerStep
  BY <1>1, <1>3, WorkerOwner
<1>4. CASE EmptyBlock \/ Mine
  BY <1>1, <1>4, EmptyBlockOwner, MineOwner
<1>5. CASE Drop \/ MoveBaseFee \/ Drain \/ TopUp \/ Restart \/ UNCHANGED vars
  BY <1>1, <1>5, FaultOwner
<1>6. QED
  BY <1>2, <1>3, <1>4, <1>5 DEF Next

\* Once a request was signed with a nonce, no other request's transaction, in
\* whatever version, is stored, waits or is mined with it.
THEOREM NonceHasOneRequest == Spec => []OneRequestPerNonce
<1>1. OwnerInv => OneRequestPerNonce
  BY DEF OwnerInv
<1>2. QED
  BY <1>1, InitOwnerInv, NextOwnerInv, PTL DEF Spec

\* The manager is an outbox: accepted requests are executed in the order of
\* their acceptance, each once.  That all of them are (the fairness of IsOutbox)
\* is left to the run.
THEOREM ManagerIsOutbox == Spec => Outbox!InOrder
<1>1. Init => Outbox!Init
  <2> SUFFICES ASSUME Init PROVE Outbox!Init
    OBVIOUS
  <2>1. OwnerInv /\ TypeOK /\ latest = 0
    BY InitOwnerInv DEF OwnerInv, IInv, Init
  <2>2. DOMAIN store = {}
    BY DEF Init
  <2>3. EndsAt(0)
    BY <2>1, <2>2 DEF EndsAt, StoredFrom
  <2>4. Log = LogUpTo(0, latest, mined, store) /\ Log \in [1 .. 0 -> Requests]
    BY <2>1, <2>3, LogByNonce, LogType
  <2>5. Log = <<>>
    BY <2>4
  <2>6. QED
    BY <2>1, <2>5 DEF Outbox!Init
<1>2. OwnerInv /\ [Next]_vars => [Outbox!Next]_<<Log, latest>>
  BY NextOwnerInv DEF OutboxStep
<1>3. QED
  BY <1>1, <1>2, InitOwnerInv, NextOwnerInv, PTL DEF Spec, Outbox!InOrder

-----------------------------------------------------------------------------
(* The Bitcoin side of the SDK *)

(* The blocks of the chain have the difficulty of their epoch.             *)
Blocks == [id : Int, prev : Int, body : Seq(Txs), difficulty : {Difficulty[e] : e \in Int}]

RightDifficulties(blocks) ==
    \A i \in 1 .. Len(blocks) : blocks[i].difficulty = Difficulty[(i - 1) \div Length]

ChainIsWellFormed == chain \in Seq(Blocks) /\ RightDifficulties(chain) /\ found \in Nat

(* A relay in use knows its epoch and its proof length.                    *)
KnowsItsEpoch(r) ==
    /\ DOMAIN r = RelayFields
    /\ r.ready => /\ r.epoch \in Int
                  /\ r.length \in Nat \ {0}
                  /\ r.current = Difficulty[r.epoch]
                  /\ r.previous # 0 => r.previous = Difficulty[r.epoch - 1]

(* What a call hears of a block: nothing yet, or its header.               *)
Answers == {None} \cup {Header(b) : b \in Blocks}

CallFields == {"job", "step", "aim", "info", "merkle", "batch", "later", "heard", "have", "got",
               "top", "disturbed", "result"}

(* The header of the genesis block, once it is known, is that of an epoch. *)
RightGenesis(c, header) == header.difficulty = Difficulty[c.aim.height \div Length]

GenesisIsRight(c) ==
    /\ c.aim.height \in Int
    /\ c.got \in Seq(Answers)
    /\ c.got # <<>> => RightGenesis(c, c.got[1])

GenesisFetch(c) ==
    /\ c.step \in {"start", "headers", "fetched", "done"}
    /\ c.step = "start" => c.got = <<>>
    /\ c.step \in {"headers", "fetched"} => GenesisIsRight(c)
    /\ c.step = "fetched" => c.got # <<>>
    /\ c.step = "headers" =>
          /\ c.batch \in Seq(Int)
          /\ c.later \in Seq(Seq(Int))
          /\ c.heard \in Seq(Answers)
          /\ Len(c.heard) = Len(c.batch)
          /\ c.got = <<>> =>
                /\ c.batch = <<c.aim.height>>
                /\ c.heard[1] = None \/ RightGenesis(c, c.heard[1])
                /\ 1 \in c.have => c.heard[1] # None

(* The wallet pays the address of the inscription, before or after the     *)
(* change that it puts in the commit.                                      *)
Payment(inscription) ==
    [address |-> CommitAddress(inscription), value |-> RevealFee(inscription) + Postage]
Change == [address |-> None, value |-> 1]
CommitOuts(inscription) ==
    {<<Payment(inscription)>>, <<Payment(inscription), Change>>, <<Change, Payment(inscription)>>}

Inscriptions == {createInscription(content) : content \in Contents}

Paid(p, inscription, cs, tx) ==
    /\ inscription \in Inscriptions
    /\ tx \in 1 .. Len(cs)
    /\ cs[tx].sender = p
    /\ cs[tx].outs \in CommitOuts(inscription)

SpendsItsCommit(p, c, cs) ==
    /\ c.info.tx \in 1 .. Len(cs)
    /\ cs[c.info.tx].sender = p
    /\ cs[c.info.tx].outs[c.info.index].address = CommitAddress(c.aim)
    /\ cs[c.info.tx].outs[c.info.index].value = c.info.value

Inscribes(p, c, cs) ==
    /\ c.step \in {"start", "commit", "done"}
    /\ c.step # "done" => c.result = None
    /\ c.step = "commit" => Paid(p, c.aim, cs, c.got[1])
    /\ c.result = "ok" => SpendsItsCommit(p, c, cs)

CallOK(p, c, cs) ==
    /\ DOMAIN c = CallFields
    /\ c.job = "genesis" => GenesisFetch(c)
    /\ c.job = "inscribe" => Inscribes(p, c, cs)

CommitsAreKept == commits \in Seq([sender : Callers, outs : UNION {CommitOuts(i) : i \in Inscriptions}])

SdkInv ==
    /\ ChainIsWellFormed
    /\ KnowsItsEpoch(relay)
    /\ CommitsAreKept
    /\ DOMAIN call = Callers
    /\ \A p \in Callers : CallOK(p, call[p], commits)

-----------------------------------------------------------------------------
(* Sequences of blocks *)

\* A function on 1 .. n is a sequence.
LEMMA ValuesInOrder ==
  ASSUME NEW S, NEW n \in Nat, NEW f \in [1 .. n -> S]
  PROVE  f \in Seq(S) /\ Len(f) = n
<1>1. f \in Seq(S)
  BY SeqDef
<1>2. DOMAIN f = 1 .. n
  OBVIOUS
<1>3. QED
  BY <1>1, <1>2, LenProperties

\* What a concatenation holds, and where.
LEMMA Joined ==
  ASSUME NEW S, NEW s \in Seq(S), NEW t \in Seq(S)
  PROVE  /\ s \o t \in Seq(S)
         /\ Len(s \o t) = Len(s) + Len(t)
         /\ \A i \in 1 .. Len(s) + Len(t) :
               (s \o t)[i] = IF i <= Len(s) THEN s[i] ELSE t[i - Len(s)]
BY ConcatProperties

\* Blocks that follow a chain have the difficulty of their epochs.
LEMMA BranchFollows ==
  ASSUME NEW below \in Seq(Blocks), NEW bodies \in Seq(Seq(Txs)), NEW id \in Int,
         RightDifficulties(below)
  PROVE  /\ Branch(below, bodies, id) \in Seq(Blocks)
         /\ RightDifficulties(Branch(below, bodies, id))
<1>1. Length \in Nat \ {0}
  BY BitcoinAssumption
<1> DEFINE new(i) == [id |-> id + i - 1,
                      prev |-> IF i > 1 THEN id + i - 2
                               ELSE IF below = <<>> THEN -1 ELSE Last(below).id,
                      body |-> bodies[i],
                      difficulty |-> Difficulty[(Len(below) + i - 1) \div Length]]
<1> DEFINE added == [i \in 1 .. Len(bodies) |-> new(i)]
<1>2. /\ Len(below) \in Nat /\ Len(bodies) \in Nat /\ DOMAIN bodies = 1 .. Len(bodies)
      /\ \A i \in 1 .. Len(bodies) : bodies[i] \in Seq(Txs)
  BY LenProperties, ElementOfSeq
<1>3. Branch(below, bodies, id) = below \o added
  BY <1>2 DEF Branch
<1>4. below # <<>> => Last(below).id \in Int
  <2>1. below # <<>> => Last(below) \in Blocks
    BY <1>2, ElementOfSeq, EmptySeq DEF Last
  <2>2. QED
    BY <2>1 DEF Blocks
<1>5. ASSUME NEW i \in 1 .. Len(bodies)
      PROVE  new(i) \in Blocks
  <2>1. (Len(below) + i - 1) \div Length \in Int
    BY <1>1, <1>2
  <2>2. PICK prev : prev = IF i > 1 THEN id + i - 2
                           ELSE IF below = <<>> THEN -1 ELSE Last(below).id
    OBVIOUS
  <2>3. prev \in Int /\ id + i - 1 \in Int /\ bodies[i] \in Seq(Txs)
    BY <1>2, <1>4, <2>2
  <2>4. Difficulty[(Len(below) + i - 1) \div Length] \in {Difficulty[e] : e \in Int}
    BY <2>1
  <2>5. QED
    BY <2>2, <2>3, <2>4, Zenon DEF Blocks
<1> HIDE DEF new
<1>6. added \in Seq(Blocks) /\ Len(added) = Len(bodies)
  <2>1. added \in [1 .. Len(bodies) -> Blocks]
    BY <1>5
  <2> HIDE DEF added
  <2>2. QED
    BY <1>2, <2>1, ValuesInOrder
<1>7. \A i \in 1 .. Len(added) : added[i].difficulty = Difficulty[(Len(below) + i - 1) \div Length]
  BY <1>6 DEF new
<1> HIDE DEF added
<1>8. /\ below \o added \in Seq(Blocks)
      /\ Len(below \o added) = Len(below) + Len(added)
      /\ \A i \in 1 .. Len(below) + Len(added) :
            (below \o added)[i] = IF i <= Len(below) THEN below[i] ELSE added[i - Len(below)]
  BY <1>6, Joined
<1>9. ASSUME NEW i \in 1 .. Len(below \o added)
      PROVE  (below \o added)[i].difficulty = Difficulty[(i - 1) \div Length]
  <2>1. CASE i <= Len(below)
    BY <1>2, <1>8, <2>1 DEF RightDifficulties
  <2>2. CASE ~(i <= Len(below))
    <3>1. i - Len(below) \in 1 .. Len(added) /\ Len(below) + (i - Len(below)) - 1 = i - 1
      BY <1>2, <1>6, <1>8, <2>2
    <3>2. QED
      BY <1>2, <1>6, <1>7, <1>8, <2>2, <3>1
  <2>3. QED
    BY <2>1, <2>2
<1>10. QED
  BY <1>3, <1>8, <1>9 DEF RightDifficulties

\* The header of a mined block has the difficulty of its epoch.
LEMMA HeaderIsAnAnswer ==
  ASSUME ChainIsWellFormed, NEW h \in Int, Mined(h)
  PROVE  /\ Header(BlockAt(h)) \in Answers
         /\ Header(BlockAt(h)).difficulty = Difficulty[h \div Length]
<1>1. /\ h + 1 \in 1 .. Len(chain) /\ (h + 1) - 1 = h
  BY LenProperties DEF ChainIsWellFormed, Mined, Tip
<1>2. chain[h + 1] \in Blocks /\ chain[h + 1].difficulty = Difficulty[h \div Length]
  BY <1>1, ElementOfSeq DEF ChainIsWellFormed, RightDifficulties
<1>3. QED
  BY <1>2 DEF Answers, BlockAt, Header

-----------------------------------------------------------------------------
(* Calls *)

\* A call that has not started yet.
LEMMA CallAtStart ==
  ASSUME NEW p, NEW job, NEW cs
  PROVE  CallOK(p, NoCall(job), cs)
<1>1. /\ DOMAIN NoCall(job) = CallFields
      /\ NoCall(job).step = "start" /\ NoCall(job).got = <<>> /\ NoCall(job).result = None
  BY DEF NoCall, CallFields
<1>2. None # "ok"
  BY BitcoinAssumption
<1>3. QED
  BY <1>1, <1>2 DEF CallOK, GenesisFetch, Inscribes

\* Nothing that is said of a call depends on whether it is disturbed.
LEMMA DisturbedCall ==
  ASSUME NEW p, NEW c, NEW cs, CallOK(p, c, cs), NEW b
  PROVE  CallOK(p, [c EXCEPT !.disturbed = b], cs)
<1>1. PICK d : d = [c EXCEPT !.disturbed = b]
  OBVIOUS
<1>2. DOMAIN d = CallFields /\ DOMAIN c = CallFields
  BY <1>1 DEF CallOK
<1>3. /\ d.job = c.job /\ d.step = c.step /\ d.aim = c.aim /\ d.info = c.info
      /\ d.batch = c.batch /\ d.later = c.later /\ d.heard = c.heard /\ d.have = c.have
      /\ d.got = c.got /\ d.result = c.result
  BY <1>1, <1>2 DEF CallFields
<1>4. GenesisFetch(c) => GenesisFetch(d)
  BY <1>3 DEF GenesisFetch, GenesisIsRight, RightGenesis
<1>5. Inscribes(p, c, cs) => Inscribes(p, d, cs)
  BY <1>3 DEF Inscribes, Paid, SpendsItsCommit
<1>6. CallOK(p, d, cs)
  BY <1>2, <1>3, <1>4, <1>5 DEF CallOK
<1>7. QED
  BY <1>1, <1>6

\* A commit transaction stays where it was when another one is broadcast.
LEMMA AnotherCommit ==
  ASSUME NEW p, NEW c, NEW S, NEW cs \in Seq(S), CallOK(p, c, cs), NEW new \in S
  PROVE  CallOK(p, c, Append(cs, new))
<1>1. /\ Len(cs) \in Nat /\ Len(Append(cs, new)) = Len(cs) + 1
      /\ \A i \in 1 .. Len(cs) : Append(cs, new)[i] = cs[i]
  BY AppendProperties, LenProperties
<1>2. \A i \in 1 .. Len(cs) : i \in 1 .. Len(Append(cs, new))
  BY <1>1
<1>3. ASSUME c.step = "commit", Paid(p, c.aim, cs, c.got[1])
      PROVE  Paid(p, c.aim, Append(cs, new), c.got[1])
  BY <1>1, <1>2, <1>3 DEF Paid
<1>4. ASSUME SpendsItsCommit(p, c, cs)
      PROVE  SpendsItsCommit(p, c, Append(cs, new))
  BY <1>1, <1>2, <1>4 DEF SpendsItsCommit
<1>5. QED
  BY <1>3, <1>4 DEF CallOK, Inscribes

\* A call that ends says something only when it is an inscription.
LEMMA EndedCall ==
  ASSUME NEW p, NEW c, NEW cs, CallOK(p, c, cs), NEW result,
         c.job = "inscribe" => result # "ok"
  PROVE  CallOK(p, Ended(c, result), cs) /\ Ended(c, result).job = c.job
<1>1. PICK d : d = Ended(c, result)
  OBVIOUS
<1>2. /\ DOMAIN d = CallFields /\ d.job = c.job /\ d.step = "done" /\ d.result = result
  BY <1>1 DEF CallOK, Ended, CallFields
<1>3. GenesisFetch(d) /\ (c.job = "inscribe" => Inscribes(p, d, cs))
  BY <1>2 DEF GenesisFetch, Inscribes
<1>4. QED
  BY <1>1, <1>2, <1>3 DEF CallOK

\* A call of another kind is of no concern to the invariant.
LEMMA OtherCall ==
  ASSUME NEW p, NEW c, NEW cs, DOMAIN c = CallFields, c.job \notin {"genesis", "inscribe"}
  PROVE  CallOK(p, c, cs)
BY DEF CallOK

\* What asking for the next batch leaves in the call.
LEMMA FetchingFields ==
  ASSUME NEW c, DOMAIN c = CallFields, NEW batches
  PROVE  /\ DOMAIN Fetching(c, batches) = CallFields
         /\ Fetching(c, batches).job = c.job
         /\ Fetching(c, batches).aim = c.aim
         /\ Fetching(c, batches).got = c.got
         /\ Fetching(c, batches).step = "headers"
         /\ Fetching(c, batches).batch = Head(batches)
         /\ Fetching(c, batches).later = Tail(batches)
         /\ Fetching(c, batches).have = {}
         /\ Fetching(c, batches).heard = [i \in DOMAIN Head(batches) |-> None]
BY DEF Fetching, CallFields

\* The genesis script goes for a batch of headers.
LEMMA FetchingGenesis ==
  ASSUME NEW c, DOMAIN c = CallFields, NEW batches \in Seq(Seq(Int)), batches # <<>>,
         GenesisIsRight(c), c.got = <<>> => Head(batches) = <<c.aim.height>>
  PROVE  GenesisFetch(Fetching(c, batches))
<1>1. PICK d : d = Fetching(c, batches)
  OBVIOUS
<1>2. /\ d.aim = c.aim /\ d.got = c.got /\ d.step = "headers" /\ d.have = {}
      /\ d.batch = Head(batches) /\ d.later = Tail(batches)
      /\ d.heard = [i \in DOMAIN Head(batches) |-> None]
  BY <1>1, FetchingFields
<1>3. Head(batches) \in Seq(Int) /\ Tail(batches) \in Seq(Seq(Int))
  BY HeadTailProperties
<1>4. /\ Len(Head(batches)) \in Nat
      /\ DOMAIN Head(batches) = 1 .. Len(Head(batches))
  BY <1>3, LenProperties
<1>5. d.heard \in Seq(Answers) /\ Len(d.heard) = Len(d.batch)
  <2>1. d.heard \in [1 .. Len(Head(batches)) -> Answers]
    BY <1>2, <1>4 DEF Answers
  <2>2. d.heard \in Seq(Answers) /\ Len(d.heard) = Len(Head(batches))
    BY <1>4, <2>1, ValuesInOrder
  <2>3. QED
    BY <1>2, <2>2
<1>6. c.got = <<>> => d.batch = <<c.aim.height>> /\ d.heard[1] = None
  BY <1>2, <1>4
<1>7. GenesisFetch(d)
  BY <1>2, <1>3, <1>5, <1>6 DEF GenesisFetch, GenesisIsRight, RightGenesis
<1>8. QED
  BY <1>1, <1>7

-----------------------------------------------------------------------------
(* Answers of the explorer *)

\* A block hash is an answer, and for the genesis block the right one.
LEMMA HashHeard ==
  ASSUME NEW c, DOMAIN c = CallFields, GenesisFetch(c), c.step = "headers",
         NEW i \in 1 .. Len(c.batch), c.heard[i] = None, ChainIsWellFormed, Mined(c.batch[i])
  PROVE  GenesisFetch([c EXCEPT !.heard[i] = Header(BlockAt(c.batch[i]))])
<1>1. PICK header : header = Header(BlockAt(c.batch[i]))
  OBVIOUS
<1>2. PICK d : d = [c EXCEPT !.heard[i] = header]
  OBVIOUS
<1>3. /\ d.step = c.step /\ d.aim = c.aim /\ d.batch = c.batch /\ d.later = c.later
      /\ d.have = c.have /\ d.got = c.got /\ d.heard = [c.heard EXCEPT ![i] = header]
  BY <1>2 DEF CallFields
<1>4. /\ c.batch \in Seq(Int) /\ c.heard \in Seq(Answers)
      /\ Len(c.heard) = Len(c.batch)
  BY DEF GenesisFetch
<1>5. c.batch[i] \in Int
  BY <1>4, ElementOfSeq
<1>6. header \in Answers /\ header.difficulty = Difficulty[c.batch[i] \div Length]
  BY <1>1, <1>5, HeaderIsAnAnswer
<1>7. d.heard \in Seq(Answers) /\ Len(d.heard) = Len(c.heard)
  BY <1>3, <1>4, <1>6, ExceptSeq
<1>8. ASSUME c.got = <<>>
      PROVE  RightGenesis(d, d.heard[1]) /\ 1 \notin d.have
  <2>1. c.batch = <<c.aim.height>>
    BY <1>8 DEF GenesisFetch
  <2>2. i = 1 /\ c.batch[i] = c.aim.height
    BY <2>1
  <2>3. d.heard[1] = header
    BY <1>3, <1>4, <2>2, LenProperties
  <2>4. 1 \notin c.have
    BY <1>8, <2>2 DEF GenesisFetch
  <2>5. QED
    BY <1>3, <1>6, <2>2, <2>3, <2>4 DEF RightGenesis
<1>9. GenesisIsRight(d)
  BY <1>3 DEF GenesisFetch, GenesisIsRight, RightGenesis
<1>10. GenesisFetch(d)
  <2>1. /\ d.batch \in Seq(Int) /\ d.later \in Seq(Seq(Int)) /\ d.heard \in Seq(Answers)
        /\ Len(d.heard) = Len(d.batch)
    BY <1>3, <1>4, <1>7 DEF GenesisFetch
  <2>2. d.got = <<>> => d.batch = <<d.aim.height>> /\ RightGenesis(d, d.heard[1]) /\ 1 \notin d.have
    BY <1>3, <1>8 DEF GenesisFetch
  <2>3. d.step = "headers"
    BY <1>3
  <2>4. QED
    BY <1>9, <2>1, <2>2, <2>3 DEF GenesisFetch
<1>11. QED
  BY <1>1, <1>2, <1>10

\* Two lengths, one of them at least one.
LEMMA AtLeastOne ==
  ASSUME NEW m \in Nat, NEW n \in Nat, n >= 1
  PROVE  1 \in 1 .. m + n /\ m + n # 0
OBVIOUS

\* A header completes its batch, or another one of the batch is awaited.
LEMMA HeaderHeard ==
  ASSUME NEW c, DOMAIN c = CallFields, GenesisFetch(c), c.step = "headers",
         NEW i \in 1 .. Len(c.batch), c.heard[i] # None,
         NEW d, d = [c EXCEPT !.have = @ \cup {i}]
  PROVE  /\ GenesisFetch(d)
         /\ d.have = DOMAIN c.batch => GenesisFetch(Fetched(d))
<1>1. /\ DOMAIN d = CallFields /\ d.have = c.have \cup {i}
      /\ d.step = "headers" /\ d.aim = c.aim /\ d.batch = c.batch /\ d.later = c.later
      /\ d.heard = c.heard /\ d.got = c.got
  BY DEF CallFields
<1>2. /\ c.batch \in Seq(Int) /\ c.later \in Seq(Seq(Int)) /\ c.heard \in Seq(Answers)
      /\ Len(c.heard) = Len(c.batch) /\ GenesisIsRight(c)
  BY DEF GenesisFetch
<1>3. Len(c.batch) \in Nat /\ DOMAIN c.batch = 1 .. Len(c.batch)
  BY <1>2, LenProperties
<1>4. ASSUME c.got = <<>>
      PROVE  /\ c.batch = <<c.aim.height>> /\ i = 1 /\ Len(c.batch) = 1
             /\ c.heard[1] # None /\ RightGenesis(c, c.heard[1])
  <2>1. c.batch = <<c.aim.height>>
    BY <1>4 DEF GenesisFetch
  <2>2. i = 1 /\ Len(c.batch) = 1
    BY <2>1
  <2>3. c.heard[1] = None \/ RightGenesis(c, c.heard[1])
    BY <1>4 DEF GenesisFetch
  <2>4. QED
    BY <2>1, <2>2, <2>3
<1>5. GenesisIsRight(d)
  BY <1>1, <1>2 DEF GenesisIsRight, RightGenesis
<1>6. GenesisFetch(d)
  <2>1. d.got = <<>> =>
            /\ d.batch = <<d.aim.height>> /\ RightGenesis(d, d.heard[1]) /\ d.heard[1] # None
    BY <1>1, <1>4 DEF RightGenesis
  <2>2. QED
    BY <1>1, <1>2, <1>5, <2>1 DEF GenesisFetch
<1>7. ASSUME d.have = DOMAIN c.batch
      PROVE  GenesisFetch(Fetched(d))
  <2>1. PICK joined : joined = [d EXCEPT !.got = @ \o d.heard]
    OBVIOUS
  <2>2. /\ DOMAIN joined = CallFields /\ joined.got = c.got \o c.heard
        /\ joined.aim = c.aim /\ joined.later = c.later
    BY <1>1, <2>1 DEF CallFields
  <2>3. c.got \in Seq(Answers)
    BY <1>2 DEF GenesisIsRight
  <2>4. Len(c.got) \in Nat /\ Len(c.heard) \in Nat /\ Len(c.heard) >= 1
    BY <1>2, <1>3, <2>3, LenProperties
  <2>5. /\ joined.got \in Seq(Answers) /\ Len(joined.got) # 0
        /\ joined.got[1] = IF 1 <= Len(c.got) THEN c.got[1] ELSE c.heard[1 - Len(c.got)]
    <3>1. /\ c.got \o c.heard \in Seq(Answers)
          /\ Len(c.got \o c.heard) = Len(c.got) + Len(c.heard)
          /\ \A k \in 1 .. Len(c.got) + Len(c.heard) :
                (c.got \o c.heard)[k] = IF k <= Len(c.got) THEN c.got[k] ELSE c.heard[k - Len(c.got)]
      BY <1>2, <2>3, Joined
    <3>2. 1 \in 1 .. Len(c.got) + Len(c.heard) /\ Len(c.got) + Len(c.heard) # 0
      BY <2>4, AtLeastOne
    <3>3. QED
      BY <2>2, <3>1, <3>2
  <2>6. joined.got # <<>>
    BY <2>5, EmptySeq
  <2>7. RightGenesis(c, joined.got[1])
    <3>1. CASE c.got = <<>>
      BY <1>4, <2>5, <3>1
    <3>2. CASE c.got # <<>>
      <4>1. 1 <= Len(c.got)
        BY <2>3, <2>4, <3>2, EmptySeq
      <4>2. joined.got[1] = c.got[1]
        BY <2>5, <4>1
      <4>3. RightGenesis(c, c.got[1])
        BY <1>2, <3>2 DEF GenesisIsRight
      <4>4. QED
        BY <4>2, <4>3
    <3>3. QED
      BY <3>1, <3>2
  <2>8. GenesisIsRight(joined)
    <3>1. joined.aim.height \in Int
      BY <1>2, <2>2 DEF GenesisIsRight
    <3>2. RightGenesis(joined, joined.got[1])
      BY <2>2, <2>7 DEF RightGenesis
    <3>3. QED
      BY <2>5, <3>1, <3>2 DEF GenesisIsRight
  <2>9. CASE c.later # <<>>
    <3>1. Fetched(d) = Fetching(joined, joined.later)
      BY <1>1, <2>1, <2>2, <2>9 DEF Fetched
    <3>2. QED
      BY <1>2, <2>2, <2>6, <2>8, <2>9, <3>1, FetchingGenesis
  <2>10. CASE c.later = <<>>
    <3>1. PICK e : e = [joined EXCEPT !.step = "fetched"]
      OBVIOUS
    <3>2. Fetched(d) = e
      BY <1>1, <2>1, <2>10, <3>1 DEF Fetched
    <3>3. e.step = "fetched" /\ e.aim = joined.aim /\ e.got = joined.got
      BY <2>2, <3>1 DEF CallFields
    <3>4. GenesisFetch(e)
      BY <2>6, <2>8, <3>3 DEF GenesisFetch, GenesisIsRight, RightGenesis
    <3>5. QED
      BY <3>2, <3>4
  <2>11. QED
    BY <2>9, <2>10
<1>8. QED
  BY <1>6, <1>7

-----------------------------------------------------------------------------
(* Steps *)

\* A step that touches neither the chain nor the commits.
LEMMA CallsMove ==
  ASSUME SdkInv, UNCHANGED <<chain, found, commits>>, KnowsItsEpoch(relay'),
         DOMAIN call' = Callers, \A q \in Callers : CallOK(q, call'[q], commits)
  PROVE  SdkInv'
<1>1. ChainIsWellFormed' /\ CommitsAreKept'
  BY DEF SdkInv, ChainIsWellFormed, CommitsAreKept
<1>2. commits' = commits
  OBVIOUS
<1>3. \A q \in Callers : CallOK(q, call'[q], commits')
  BY <1>2
<1>4. QED
  BY <1>1, <1>3, SMT DEF SdkInv

\* A step of one call.
LEMMA OneCallMoves ==
  ASSUME SdkInv, NEW p \in Callers, NEW c, CallOK(p, c, commits), Set(p, c), UnchangedWorld
  PROVE  SdkInv'
<1>1. UNCHANGED <<chain, found, commits>> /\ relay' = relay
  BY DEF UnchangedWorld
<1>2. call' = [call EXCEPT ![p] = c]
  BY DEF Set
<1>3. DOMAIN call' = Callers /\ \A q \in Callers : CallOK(q, call'[q], commits)
  BY <1>2 DEF SdkInv
<1>4. KnowsItsEpoch(relay')
  BY <1>1 DEF SdkInv
<1>5. QED
  BY <1>1, <1>3, <1>4, CallsMove

\* A step that changes the relay: one call has ended, the others are disturbed.
LEMMA RelayMoves ==
  ASSUME SdkInv, UNCHANGED <<chain, found, commits>>, KnowsItsEpoch(relay'),
         DOMAIN call' = Callers,
         \A q \in Callers : \/ call'[q] = [call[q] EXCEPT !.disturbed = TRUE]
                            \/ CallOK(q, call'[q], commits)
  PROVE  SdkInv'
<1>1. ASSUME NEW q \in Callers
      PROVE  CallOK(q, call'[q], commits)
  <2>1. CallOK(q, call[q], commits)
    BY DEF SdkInv
  <2>2. CallOK(q, [call[q] EXCEPT !.disturbed = TRUE], commits)
    BY <2>1, DisturbedCall
  <2>3. QED
    BY <2>2
<1>2. QED
  BY <1>1, CallsMove

\* A block more is one of the epoch of its height.
LEMMA FindBlockStep ==
  ASSUME SdkInv, FindBlock
  PROVE  SdkInv'
<1>1. PICK body, bodies : /\ body \in Bodies /\ bodies = <<body>>
                         /\ chain' = Branch(chain, bodies, found)
  BY DEF FindBlock
<1>2. bodies \in Seq(Seq(Txs))
  BY <1>1, BitcoinAssumption
<1>3. chain \in Seq(Blocks) /\ RightDifficulties(chain) /\ found \in Nat
  BY DEF SdkInv, ChainIsWellFormed
<1>4. found' = found + 1 /\ found' \in Nat
  BY <1>3 DEF FindBlock
<1>5. chain' \in Seq(Blocks) /\ RightDifficulties(chain')
  <2>1. PICK new : new = Branch(chain, bodies, found)
    OBVIOUS
  <2>2. new \in Seq(Blocks) /\ RightDifficulties(new)
    BY <1>2, <1>3, <2>1, BranchFollows
  <2>3. QED
    BY <1>1, <2>1, <2>2
<1>6. UNCHANGED <<relay, commits, call>>
  BY DEF FindBlock
<1>7. ChainIsWellFormed'
  BY <1>4, <1>5 DEF ChainIsWellFormed, RightDifficulties
<1>8. QED
  BY <1>6, <1>7 DEF SdkInv, CommitsAreKept

\* So are the blocks of another branch, and the calls are only disturbed.
LEMMA ReorganiseStep ==
  ASSUME SdkInv, Reorganise
  PROVE  SdkInv'
<1>1. PICK depth \in 1 .. MaxDepth, body \in Bodies :
        /\ chain' = Branch(SubSeq(chain, 1, Len(chain) - depth),
                           <<body>> \o [i \in 1 .. depth |-> <<>>], found)
        /\ found' = found + depth + 1
        /\ call' = [p \in Callers |->
                      Disturbed(call[p], SubSeq(chain, 1, Len(chain) - depth))]
  BY DEF Reorganise
<1>2. PICK kept, bodies : /\ kept = SubSeq(chain, 1, Len(chain) - depth)
                          /\ bodies = <<body>> \o [i \in 1 .. depth |-> <<>>]
  OBVIOUS
<1>3. depth \in Nat /\ Len(chain) \in Nat
      /\ chain \in Seq(Blocks) /\ RightDifficulties(chain) /\ found \in Nat
  BY <1>1, BitcoinAssumption, LenProperties DEF SdkInv, ChainIsWellFormed
<1>4. kept \in Seq(Blocks) /\ RightDifficulties(kept)
  <2>1. CASE depth < Len(chain)
    <3>1. Len(chain) - depth \in 1 .. Len(chain)
      BY <1>3, <2>1
    <3>2. /\ kept \in Seq(Blocks) /\ Len(kept) = Len(chain) - depth
          /\ \A i \in 1 .. Len(chain) - depth : kept[i] = chain[i]
      BY <1>2, <1>3, <3>1, SubSeqProperties
    <3>3. QED
      BY <1>3, <3>1, <3>2 DEF RightDifficulties
  <2>2. CASE ~(depth < Len(chain))
    <3>1. kept = <<>>
      BY <1>2, <1>3, <2>2, SubSeqProperties
    <3>2. QED
      BY <3>1, EmptySeq DEF RightDifficulties
  <2>3. QED
    BY <2>1, <2>2
<1>5. bodies \in Seq(Seq(Txs))
  <2>1. <<body>> \in Seq(Seq(Txs)) /\ <<>> \in Seq(Txs)
    BY <1>1, BitcoinAssumption
  <2>2. [i \in 1 .. depth |-> <<>>] \in [1 .. depth -> Seq(Txs)]
    BY <2>1
  <2>3. [i \in 1 .. depth |-> <<>>] \in Seq(Seq(Txs))
    BY <1>3, <2>2, ValuesInOrder
  <2>4. QED
    BY <1>2, <2>1, <2>3, Joined
<1>6. chain' \in Seq(Blocks) /\ RightDifficulties(chain')
  <2>1. PICK new : new = Branch(kept, bodies, found)
    OBVIOUS
  <2>2. new \in Seq(Blocks) /\ RightDifficulties(new)
    BY <1>3, <1>4, <1>5, <2>1, BranchFollows
  <2>3. QED
    BY <1>1, <1>2, <2>1, <2>2
<1>7. ChainIsWellFormed'
  <2>1. found' \in Nat
    BY <1>1, <1>3
  <2>2. QED
    BY <1>6, <2>1 DEF ChainIsWellFormed, RightDifficulties
<1>8. commits' = commits /\ relay' = relay
  BY DEF Reorganise
<1>9. \A p \in Callers : CallOK(p, call'[p], commits)
  <2> SUFFICES ASSUME NEW p \in Callers
               PROVE  CallOK(p, Disturbed(call[p], kept), commits)
    BY <1>1, <1>2
  <2>1. CallOK(p, call[p], commits)
    BY DEF SdkInv
  <2>2. QED
    BY <2>1, DisturbedCall DEF Disturbed
<1>10. DOMAIN call' = Callers
  BY <1>1
<1>11. QED
  BY <1>7, <1>8, <1>9, <1>10 DEF SdkInv, CommitsAreKept

\* The proof length has nothing to do with the epoch.
LEMMA SetProofLengthStep ==
  ASSUME SdkInv, setProofLength
  PROVE  SdkInv'
<1>1. PICK length \in ProofLengths : RelayChanges([relay EXCEPT !.length = length])
  BY DEF setProofLength
<1>2. relay.ready /\ KnowsItsEpoch(relay) /\ length \in Nat \ {0}
  BY BitcoinAssumption DEF setProofLength, SdkInv
<1>3. PICK r : r = [relay EXCEPT !.length = length]
  OBVIOUS
<1>4. /\ DOMAIN r = RelayFields /\ r.ready = relay.ready /\ r.epoch = relay.epoch
      /\ r.current = relay.current /\ r.previous = relay.previous /\ r.length = length
  BY <1>2, <1>3 DEF KnowsItsEpoch, RelayFields
<1>5. relay' = r /\ KnowsItsEpoch(r)
  BY <1>1, <1>2, <1>3, <1>4 DEF RelayChanges, KnowsItsEpoch
<1>6. /\ DOMAIN call' = Callers
      /\ \A q \in Callers : call'[q] = [call[q] EXCEPT !.disturbed = TRUE]
  BY <1>1 DEF RelayChanges
<1>7. UNCHANGED <<chain, found, commits>>
  BY DEF setProofLength
<1>8. QED
  BY <1>5, <1>6, <1>7, RelayMoves

\* A hash for a batch of headers, or an error beyond the tip.
LEMMA GetBlockHashStep ==
  ASSUME SdkInv, NEW p \in Callers, NEW i \in DOMAIN call[p].batch, getBlockHash(p, i)
  PROVE  SdkInv'
<1>1. PICK c : c = call[p] /\ CallOK(p, c, commits)
  BY DEF SdkInv
<1>2. /\ c.step = "headers" /\ c.heard[i] = None /\ UnchangedWorld /\ i \in DOMAIN c.batch
      /\ Set(p, IF Mined(c.batch[i])
                THEN [c EXCEPT !.heard[i] = Header(BlockAt(c.batch[i]))]
                ELSE Ended(c, "failed"))
  BY <1>1 DEF getBlockHash
<1>3. CASE ~Mined(c.batch[i])
  <2>1. CallOK(p, Ended(c, "failed"), commits)
    BY <1>1, EndedCall
  <2>2. QED
    BY <1>2, <1>3, <2>1, OneCallMoves
<1>4. CASE Mined(c.batch[i])
  <2>1. PICK d : d = [c EXCEPT !.heard[i] = Header(BlockAt(c.batch[i]))]
    OBVIOUS
  <2>2. DOMAIN c = CallFields /\ DOMAIN d = CallFields /\ d.job = c.job /\ d.step = c.step
    BY <1>1, <2>1 DEF CallOK, CallFields
  <2>3. c.job # "inscribe"
    BY <1>1, <1>2 DEF CallOK, Inscribes
  <2>4. ASSUME c.job = "genesis"
        PROVE  GenesisFetch(d)
    <3>1. GenesisFetch(c)
      BY <1>1, <2>4 DEF CallOK
    <3>2. i \in 1 .. Len(c.batch)
      BY <1>2, <3>1, LenProperties DEF GenesisFetch
    <3>3. ChainIsWellFormed
      BY DEF SdkInv
    <3>4. QED
      BY <1>2, <1>4, <2>1, <2>2, <3>1, <3>2, <3>3, HashHeard
  <2>5. CallOK(p, d, commits)
    BY <2>2, <2>3, <2>4 DEF CallOK
  <2>6. QED
    BY <1>2, <1>4, <2>1, <2>5, OneCallMoves
<1>5. QED
  BY <1>3, <1>4

\* A header for a batch, or an error for a block that is gone.
LEMMA GetBlockHeaderStep ==
  ASSUME SdkInv, NEW p \in Callers, NEW i \in DOMAIN call[p].batch, getBlockHeader(p, i)
  PROVE  SdkInv'
<1>1. PICK c, d : c = call[p] /\ CallOK(p, c, commits) /\ d = [c EXCEPT !.have = @ \cup {i}]
  BY DEF SdkInv
<1>2. /\ c.step = "headers" /\ c.heard[i] # None /\ UnchangedWorld /\ i \in DOMAIN c.batch
      /\ \/ Set(p, IF d.have = DOMAIN c.batch THEN Fetched(d) ELSE d)
         \/ Set(p, Ended(c, "failed"))
  BY <1>1 DEF getBlockHeader
<1>3. CASE Set(p, Ended(c, "failed"))
  <2>1. CallOK(p, Ended(c, "failed"), commits)
    BY <1>1, EndedCall
  <2>2. QED
    BY <1>2, <1>3, <2>1, OneCallMoves
<1>4. CASE Set(p, IF d.have = DOMAIN c.batch THEN Fetched(d) ELSE d)
  <2>1. DOMAIN c = CallFields /\ DOMAIN d = CallFields /\ d.job = c.job
    BY <1>1 DEF CallOK, CallFields
  <2>2. c.job # "inscribe"
    BY <1>1, <1>2 DEF CallOK, Inscribes
  <2>3. DOMAIN Fetched(d) = CallFields /\ Fetched(d).job = c.job
    <3>1. PICK joined : joined = [d EXCEPT !.got = @ \o d.heard]
      OBVIOUS
    <3>2. DOMAIN joined = CallFields /\ joined.job = c.job
      BY <2>1, <3>1 DEF CallFields
    <3>3. /\ DOMAIN Fetching(joined, d.later) = CallFields
          /\ Fetching(joined, d.later).job = c.job
      BY <3>2, FetchingFields
    <3>4. /\ DOMAIN [joined EXCEPT !.step = "fetched"] = CallFields
          /\ [joined EXCEPT !.step = "fetched"].job = c.job
      BY <3>2 DEF CallFields
    <3>5. QED
      BY <3>1, <3>3, <3>4 DEF Fetched
  <2>4. ASSUME c.job = "genesis"
        PROVE  GenesisFetch(d) /\ (d.have = DOMAIN c.batch => GenesisFetch(Fetched(d)))
    <3>1. GenesisFetch(c)
      BY <1>1, <2>4 DEF CallOK
    <3>2. i \in 1 .. Len(c.batch)
      BY <1>2, <3>1, LenProperties DEF GenesisFetch
    <3>3. QED
      BY <1>1, <1>2, <2>1, <3>1, <3>2, HeaderHeard
  <2>5. CASE d.have = DOMAIN c.batch
    <3>1. CallOK(p, Fetched(d), commits)
      BY <2>2, <2>3, <2>4, <2>5 DEF CallOK
    <3>2. QED
      BY <1>2, <1>4, <2>5, <3>1, OneCallMoves
  <2>6. CASE d.have # DOMAIN c.batch
    <3>1. CallOK(p, d, commits)
      BY <2>1, <2>2, <2>4 DEF CallOK
    <3>2. QED
      BY <1>2, <1>4, <2>6, <3>1, OneCallMoves
  <2>7. QED
    BY <2>5, <2>6
<1>5. QED
  BY <1>2, <1>3, <1>4

\* Steps of the calls that prove a transaction.
LEMMA ProofSteps ==
  ASSUME SdkInv, NEW p \in Callers,
         getBitcoinTxInfo(p) \/ getBitcoinTxProof(p) \/ ProofReturned(p)
  PROVE  SdkInv'
<1>1. PICK c : c = call[p] /\ CallOK(p, c, commits)
  BY DEF SdkInv
<1>2. c.job = "prove" /\ UnchangedWorld /\ DOMAIN c = CallFields
  BY <1>1 DEF getBitcoinTxInfo, getBitcoinTxProof, ProofReturned, Doing, CallOK
<1>3. PICK d : DOMAIN d = CallFields /\ d.job = "prove" /\ Set(p, d)
  <2>1. ASSUME NEW e, DOMAIN e = CallFields, e.job = "prove", NEW result
        PROVE  DOMAIN Ended(e, result) = CallFields /\ Ended(e, result).job = "prove"
    BY <2>1 DEF Ended, CallFields
  <2>2. CASE getBitcoinTxInfo(p)
    <3>1. PICK t, aim, info, e, f :
            /\ e = [c EXCEPT !.aim = aim]
            /\ f = [e EXCEPT !.step = "merkle", !.info = info]
            /\ Set(p, IF TxData[t].locktime > Int32Max THEN Ended(e, "failed") ELSE f)
      BY <1>1, <2>2 DEF getBitcoinTxInfo
    <3>2. /\ DOMAIN e = CallFields /\ e.job = "prove"
          /\ DOMAIN f = CallFields /\ f.job = "prove"
      BY <1>2, <3>1 DEF CallFields
    <3>3. QED
      BY <2>1, <3>1, <3>2
  <2>3. CASE getBitcoinTxProof(p)
    <3>1. CASE Set(p, Ended(c, "failed"))
      BY <1>2, <2>1, <3>1
    <3>2. CASE ~Set(p, Ended(c, "failed"))
      <4>1. PICK h, merkle, top, e :
              /\ e = [c EXCEPT !.merkle = merkle, !.top = top]
              /\ Set(p, getBitcoinHeaders(e, h, c.aim.factor))
        BY <1>1, <2>3, <3>2 DEF getBitcoinTxProof
      <4>2. DOMAIN e = CallFields /\ e.job = "prove"
        BY <1>2, <4>1 DEF CallFields
      <4>3. QED
        BY <4>1, <4>2, FetchingFields DEF getBitcoinHeaders
    <3>3. QED
      BY <3>1, <3>2
  <2>4. CASE ProofReturned(p)
    BY <1>1, <1>2, <2>1, <2>4 DEF ProofReturned
  <2>5. QED
    BY <2>2, <2>3, <2>4
<1>4. CallOK(p, d, commits)
  BY <1>3, OtherCall
<1>5. QED
  BY <1>2, <1>3, <1>4, OneCallMoves

\* Heights in a row.
LEMMA RangeIsASeq ==
  ASSUME NEW size \in Nat, NEW startAt \in Int
  PROVE  range(size, startAt) \in Seq(Int)
<1>1. range(size, startAt) \in [1 .. size -> Int]
  BY DEF range
<1>2. QED
  BY <1>1, ValuesInOrder

\* The genesis header is asked for first, then those around the retarget.
LEMMA GenesisBatches ==
  ASSUME NEW height \in Int, NEW length \in Nat, NEW after \in Int,
         NEW batches, batches = <<<<height>>>> \o getRetargetHeaders(after, length)
  PROVE  batches \in Seq(Seq(Int)) /\ batches # <<>> /\ Head(batches) = <<height>>
<1>1. PICK first, others : /\ first = <<<<height>>>> /\ batches = first \o others
                           /\ others = getRetargetHeaders(after, length)
  OBVIOUS
<1>2. first \in Seq(Seq(Int)) /\ Len(first) = 1 /\ first[1] = <<height>>
  BY <1>1
<1>3. others \in Seq(Seq(Int))
  <2>1. range(length, after - length) \in Seq(Int) /\ range(length, after) \in Seq(Int)
    BY RangeIsASeq
  <2>2. others = <<range(length, after - length), range(length, after)>>
    BY <1>1 DEF getRetargetHeaders
  <2>3. QED
    BY <2>1, <2>2
<1>4. /\ batches \in Seq(Seq(Int)) /\ Len(batches) = 1 + Len(others)
      /\ \A k \in 1 .. 1 + Len(others) :
            batches[k] = IF k <= 1 THEN first[k] ELSE others[k - 1]
  BY <1>1, <1>2, <1>3, Joined
<1>5. Len(others) \in Nat
  BY <1>3, LenProperties
<1>6. Len(batches) # 0 /\ batches[1] = <<height>>
  BY <1>2, <1>4, <1>5
<1>7. batches # <<>>
  BY <1>4, <1>6, EmptySeq
<1>8. QED
  BY <1>4, <1>6, <1>7

\* The genesis script starts with the header of the first block of an epoch.
LEMMA StartGenesisStep ==
  ASSUME SdkInv, NEW p \in Callers, StartGenesis(p)
  PROVE  SdkInv'
<1>1. PICK asked, length, aim, c, height, batches :
        /\ asked \in InitHeights /\ length \in ProofLengths
        /\ height = InitHeight(asked) /\ aim.height = height
        /\ \E top : c = [call[p] EXCEPT !.aim = aim, !.top = top]
        /\ batches = <<<<height>>>> \o getRetargetHeaders(height + Length, length)
        /\ Set(p, IF height % Length # 0 THEN Ended(c, "failed") ELSE Fetching(c, batches))
  <2>1. PICK asked \in InitHeights, length \in ProofLengths, testnet \in BOOLEAN :
          LET height == InitHeight(asked)
              c == [call[p] EXCEPT !.aim = [height |-> height, length |-> length,
                                            testnet |-> testnet],
                                   !.top = height + Length + length - 1]
          IN  Set(p, IF height % Length # 0 THEN Ended(c, "failed")
                     ELSE Fetching(c, <<<<height>>>>
                                      \o getRetargetHeaders(height + Length, length)))
    BY DEF StartGenesis
  <2>2. PICK height, aim : /\ height = InitHeight(asked)
                           /\ aim = [height |-> height, length |-> length, testnet |-> testnet]
    OBVIOUS
  <2>3. aim.height = height
    BY <2>2
  <2>4. QED
    BY <2>1, <2>2, <2>3
<1>2. /\ CallOK(p, call[p], commits) /\ UnchangedWorld
      /\ call[p].job = "genesis" /\ call[p].step = "start"
  BY DEF SdkInv, StartGenesis, Doing
<1>3. /\ DOMAIN c = CallFields /\ c.job = "genesis" /\ c.step = "start"
      /\ c.got = call[p].got /\ c.aim = aim
  BY <1>1, <1>2 DEF CallOK, CallFields
<1>4. c.got = <<>>
  BY <1>2, <1>3 DEF CallOK, GenesisFetch
<1>5. height \in Int
  <2>1. Length \in Nat \ {0} /\ Len(chain) \in Nat
    BY BitcoinAssumption, LenProperties DEF SdkInv, ChainIsWellFormed
  <2>2. asked = Latest \/ asked \in Int
    BY <1>1, BitcoinAssumption
  <2>3. QED
    BY <1>1, <2>1, <2>2 DEF InitHeight, Tip
<1>6. CASE height % Length # 0
  <2>1. Ended(c, "failed").job = c.job
    BY <1>3 DEF Ended, CallFields
  <2>2. DOMAIN Ended(c, "failed") = CallFields /\ Ended(c, "failed").step = "done"
    BY <1>3 DEF Ended, CallFields
  <2>3. CallOK(p, Ended(c, "failed"), commits)
    BY <1>3, <2>1, <2>2 DEF CallOK, GenesisFetch
  <2>4. QED
    BY <1>1, <1>2, <1>6, <2>3, OneCallMoves
<1>7. CASE ~(height % Length # 0)
  <2>1. length \in Nat /\ height + Length \in Int
    BY <1>1, <1>5, BitcoinAssumption
  <2>2. batches \in Seq(Seq(Int)) /\ batches # <<>> /\ Head(batches) = <<height>>
    BY <1>1, <1>5, <2>1, GenesisBatches
  <2>3. <<>> \in Seq(Answers)
    BY EmptySeq
  <2>4. GenesisIsRight(c)
    BY <1>1, <1>3, <1>4, <1>5, <2>3 DEF GenesisIsRight
  <2>5. GenesisFetch(Fetching(c, batches))
    BY <1>1, <1>3, <2>2, <2>4, FetchingGenesis
  <2>6. CallOK(p, Fetching(c, batches), commits)
    BY <1>3, <2>5, FetchingFields DEF CallOK
  <2>7. QED
    BY <1>1, <1>2, <1>7, <2>6, OneCallMoves
<1>8. QED
  BY <1>6, <1>7

\* The contract checks that the new epoch has its difficulty.
LEMMA RetargetedKnows ==
  ASSUME NEW r, KnowsItsEpoch(r), NEW headers, AcceptsRetarget(r, headers)
  PROVE  KnowsItsEpoch(Retargeted(r, headers))
<1>1. /\ DOMAIN r = RelayFields /\ r.ready /\ r.epoch \in Int /\ r.length \in Nat \ {0}
      /\ r.current = Difficulty[r.epoch]
  BY DEF KnowsItsEpoch, AcceptsRetarget
<1>2. PICK s : s = Retargeted(r, headers)
  OBVIOUS
<1>3. /\ DOMAIN s = RelayFields /\ s.length = r.length /\ s.epoch = r.epoch + 1
      /\ s.previous = r.current /\ s.current = Last(headers).difficulty
  BY <1>1, <1>2 DEF Retargeted, RelayFields
<1>4. 2 * r.length \in r.length + 1 .. 2 * r.length /\ Len(headers) = 2 * r.length
  BY <1>1 DEF AcceptsRetarget
<1>5. Last(headers).difficulty = Difficulty[r.epoch + 1]
  BY <1>4 DEF AcceptsRetarget, Last
<1>6. s.epoch \in Int /\ s.epoch - 1 = r.epoch
  BY <1>1, <1>3
<1>7. KnowsItsEpoch(s)
  BY <1>1, <1>3, <1>5, <1>6 DEF KnowsItsEpoch
<1>8. QED
  BY <1>2, <1>7

\* The contract takes over the difficulty of the header it is given.
LEMMA SubmitGenesisStep ==
  ASSUME SdkInv, NEW p \in Callers, SubmitGenesis(p)
  PROVE  SdkInv'
<1>1. PICK c, r, headers : /\ c = call[p] /\ CallOK(p, c, commits)
                           /\ r = GenesisRelay(c.got[1], c.aim.height, c.aim.length)
                           /\ headers = Tail(c.got)
  BY DEF SdkInv
<1>2. c.job = "genesis" /\ c.step = "fetched" /\ UNCHANGED <<chain, found, commits>>
  BY <1>1 DEF SubmitGenesis, Doing
<1>3. \A result : CallOK(p, Ended(c, result), commits)
  BY <1>1, <1>2, EndedCall
<1>4. CASE \E result : Set(p, Ended(c, result)) /\ UNCHANGED relay
  <2>1. UnchangedWorld
    BY <1>4 DEF SubmitGenesis, UnchangedWorld
  <2>2. QED
    BY <1>3, <1>4, <2>1, OneCallMoves
<1>5. CASE /\ AcceptsGenesis(c.aim.height, c.aim.length)
           /\ c.aim.testnet \/ AcceptsRetarget(r, headers)
           /\ relay' = IF c.aim.testnet THEN r ELSE Retargeted(r, headers)
           /\ call' = [q \in Callers |-> IF q = p THEN Ended(c, "ok")
                                         ELSE [call[q] EXCEPT !.disturbed = TRUE]]
  <2>1. KnowsItsEpoch(r)
    <3>1. Length \in Nat \ {0} /\ c.aim.length \in Nat \ {0}
      BY <1>5, BitcoinAssumption DEF AcceptsGenesis
    <3>2. c.got # <<>> /\ GenesisIsRight(c)
      BY <1>1, <1>2 DEF CallOK, GenesisFetch
    <3>3. /\ c.aim.height \in Int
          /\ (c.got[1]).difficulty = Difficulty[EpochOf(c.aim.height)]
      BY <3>2 DEF GenesisIsRight, RightGenesis, EpochOf
    <3>4. EpochOf(c.aim.height) \in Int
      BY <3>1, <3>3 DEF EpochOf
    <3>5. /\ DOMAIN r = RelayFields /\ r.epoch = EpochOf(c.aim.height)
          /\ r.current = (c.got[1]).difficulty /\ r.previous = 0 /\ r.length = c.aim.length
      BY <1>1 DEF GenesisRelay, RelayFields
    <3>6. QED
      BY <3>1, <3>3, <3>4, <3>5 DEF KnowsItsEpoch
  <2>2. KnowsItsEpoch(relay')
    BY <1>5, <2>1, RetargetedKnows
  <2>3. /\ DOMAIN call' = Callers
        /\ \A q \in Callers : \/ call'[q] = [call[q] EXCEPT !.disturbed = TRUE]
                              \/ CallOK(q, call'[q], commits)
    BY <1>3, <1>5
  <2>4. QED
    BY <1>2, <2>2, <2>3, RelayMoves
<1>6. QED
  BY <1>1, <1>4, <1>5 DEF SubmitGenesis

\* Steps of the retarget script; the contract checks what it submits.
LEMMA RetargetSteps ==
  ASSUME SdkInv, NEW p \in Callers,
         StartRetarget(p) \/ ReadProofLength(p) \/ CheckHeaders(p) \/ SubmitRetarget(p)
  PROVE  SdkInv'
<1>1. PICK c : c = call[p] /\ CallOK(p, c, commits)
  BY DEF SdkInv
<1>2. c.job = "retarget" /\ DOMAIN c = CallFields
  BY <1>1 DEF StartRetarget, ReadProofLength, CheckHeaders, SubmitRetarget, Doing, CallOK
<1>3. ASSUME NEW d, DOMAIN d = CallFields, d.job = "retarget", Set(p, d), UnchangedWorld
      PROVE  SdkInv'
  BY <1>3, OtherCall, OneCallMoves
<1>4. \A result : DOMAIN Ended(c, result) = CallFields /\ Ended(c, result).job = "retarget"
  BY <1>2 DEF Ended, CallFields
<1>5. CASE StartRetarget(p)
  <2>1. PICK d, aim : /\ d = [c EXCEPT !.step = "length", !.disturbed = FALSE, !.aim = aim]
                      /\ Set(p, d)
    BY <1>1, <1>5 DEF StartRetarget
  <2>2. DOMAIN d = CallFields /\ d.job = "retarget" /\ UnchangedWorld
    BY <1>2, <1>5, <2>1 DEF CallFields, StartRetarget
  <2>3. QED
    BY <1>3, <2>1, <2>2
<1>6. CASE ReadProofLength(p)
  <2>1. PICK d, top : /\ d = [c EXCEPT !.step = "check", !.aim.length = relay.length, !.top = top]
                      /\ Set(p, d)
    BY <1>1, <1>6 DEF ReadProofLength
  <2>2. DOMAIN d = CallFields /\ d.job = "retarget" /\ UnchangedWorld
    BY <1>2, <1>6, <2>1 DEF CallFields, ReadProofLength
  <2>3. QED
    BY <1>3, <2>1, <2>2
<1>7. CASE CheckHeaders(p)
  <2>1. UnchangedWorld
    BY <1>7 DEF CheckHeaders
  <2>2. \/ Set(p, Ended(c, "failed"))
        \/ Set(p, [c EXCEPT !.step = "fetched"])
        \/ Set(p, Fetching(c, getRetargetHeaders(c.aim.height, c.aim.length)))
    BY <1>1, <1>7 DEF CheckHeaders
  <2>3. DOMAIN [c EXCEPT !.step = "fetched"] = CallFields /\ [c EXCEPT !.step = "fetched"].job = "retarget"
    BY <1>2 DEF CallFields
  <2>4. QED
    BY <1>2, <1>3, <1>4, <2>1, <2>2, <2>3, FetchingFields
<1>8. CASE SubmitRetarget(p)
  <2>1. UNCHANGED <<chain, found, commits>>
    BY <1>8 DEF SubmitRetarget
  <2>2. CASE Set(p, Ended(c, "rejected")) /\ UNCHANGED relay
    <3>1. UnchangedWorld
      BY <1>8, <2>2 DEF SubmitRetarget, UnchangedWorld
    <3>2. QED
      BY <1>3, <1>4, <2>2, <3>1
  <2>3. CASE /\ AcceptsRetarget(relay, c.got) /\ relay' = Retargeted(relay, c.got)
             /\ call' = [q \in Callers |-> IF q = p THEN Ended(c, "ok")
                                           ELSE [call[q] EXCEPT !.disturbed = TRUE]]
    <3>1. KnowsItsEpoch(relay')
      BY <2>3, RetargetedKnows DEF SdkInv
    <3>2. CallOK(p, Ended(c, "ok"), commits)
      BY <1>4, OtherCall
    <3>3. /\ DOMAIN call' = Callers
          /\ \A q \in Callers : \/ call'[q] = [call[q] EXCEPT !.disturbed = TRUE]
                                \/ CallOK(q, call'[q], commits)
      BY <2>3, <3>2
    <3>4. QED
      BY <2>1, <3>1, <3>3, RelayMoves
  <2>4. QED
    BY <1>1, <1>8, <2>2, <2>3 DEF SubmitRetarget
<1>9. QED
  BY <1>5, <1>6, <1>7, <1>8

\* The wallet broadcasts the commit, or refuses to.
LEMMA SendToAddressStep ==
  ASSUME SdkInv, NEW p \in Callers, sendToAddress(p)
  PROVE  SdkInv'
<1>1. PICK content, inscription, c :
        /\ content \in Contents
        /\ inscription = createInscription(content)
        /\ c = [call[p] EXCEPT !.aim = inscription]
        /\ \/ Set(p, Ended(c, "failed")) /\ UNCHANGED commits
           \/ /\ \E outs \in CommitOuts(inscription) :
                    commits' = Append(commits, [sender |-> p, outs |-> outs])
              /\ Set(p, [c EXCEPT !.step = "commit", !.got = <<Len(commits) + 1>>])
  BY DEF sendToAddress, CommitOuts, Payment, Change
<1>2. /\ CallOK(p, call[p], commits)
      /\ call[p].job = "inscribe" /\ call[p].step = "start"
      /\ UNCHANGED <<chain, found, reorgs, relay>>
  BY DEF SdkInv, sendToAddress, Doing
<1>3. /\ DOMAIN c = CallFields /\ c.job = "inscribe" /\ c.step = "start"
      /\ c.aim = inscription /\ c.result = call[p].result
  BY <1>1, <1>2 DEF CallOK, CallFields
<1>4. c.result = None /\ None # "ok"
  BY <1>2, <1>3, BitcoinAssumption DEF CallOK, Inscribes
<1>5. CallOK(p, c, commits)
  BY <1>3, <1>4 DEF CallOK, Inscribes
<1>6. CASE Set(p, Ended(c, "failed")) /\ UNCHANGED commits
  <2>1. CallOK(p, Ended(c, "failed"), commits)
    BY <1>5, EndedCall
  <2>2. UnchangedWorld
    BY <1>2, <1>6 DEF UnchangedWorld
  <2>3. QED
    BY <1>6, <2>1, <2>2, OneCallMoves
<1>7. ASSUME NEW outs \in CommitOuts(inscription),
             commits' = Append(commits, [sender |-> p, outs |-> outs]),
             Set(p, [c EXCEPT !.step = "commit", !.got = <<Len(commits) + 1>>])
      PROVE  SdkInv'
  <2>1. PICK new, S, d : /\ new = [sender |-> p, outs |-> outs]
                         /\ S = [sender : Callers, outs : UNION {CommitOuts(i) : i \in Inscriptions}]
                         /\ d = [c EXCEPT !.step = "commit", !.got = <<Len(commits) + 1>>]
    OBVIOUS
  <2>2. inscription \in Inscriptions
    BY <1>1 DEF Inscriptions
  <2>3. new \in S /\ commits \in Seq(S)
    <3>1. outs \in UNION {CommitOuts(i) : i \in Inscriptions}
      BY <2>2, Zenon
    <3>2. QED
      BY <2>1, <3>1 DEF SdkInv, CommitsAreKept
  <2>4. /\ commits' = Append(commits, new) /\ commits' \in Seq(S)
        /\ Len(commits) \in Nat /\ Len(commits') = Len(commits) + 1
        /\ commits'[Len(commits) + 1] = new
    BY <1>7, <2>1, <2>3, AppendProperties, LenProperties
  <2>5. /\ DOMAIN d = CallFields /\ d.job = "inscribe" /\ d.step = "commit"
        /\ d.aim = inscription /\ d.result = None /\ d.got[1] = Len(commits) + 1
    BY <1>3, <1>4, <2>1 DEF CallFields
  <2>6. Paid(p, d.aim, commits', d.got[1])
    <3>1. Len(commits) + 1 \in 1 .. Len(commits')
      BY <2>4
    <3>2. new.sender = p /\ new.outs \in CommitOuts(inscription)
      BY <2>1
    <3>3. QED
      BY <2>2, <2>4, <2>5, <3>1, <3>2 DEF Paid
  <2>7. CallOK(p, d, commits')
    BY <1>4, <2>5, <2>6 DEF CallOK, Inscribes
  <2>8. ASSUME NEW q \in Callers
        PROVE  CallOK(q, call'[q], commits')
    <3>1. call' = [call EXCEPT ![p] = d] /\ DOMAIN call = Callers
      BY <1>7, <2>1 DEF Set, SdkInv
    <3>2. CASE q = p
      BY <2>7, <3>1, <3>2
    <3>3. CASE q # p
      <4>1. CallOK(q, call[q], commits)
        BY DEF SdkInv
      <4>2. CallOK(q, call[q], Append(commits, new))
        BY <2>3, <4>1, AnotherCommit
      <4>3. QED
        BY <2>4, <3>1, <3>3, <4>2
    <3>4. QED
      BY <3>2, <3>3
  <2>9. DOMAIN call' = Callers
    BY <1>7 DEF Set, SdkInv
  <2>10. ChainIsWellFormed' /\ KnowsItsEpoch(relay')
    BY <1>2 DEF SdkInv, ChainIsWellFormed
  <2>11. CommitsAreKept'
    BY <2>1, <2>4 DEF CommitsAreKept
  <2>12. QED
    BY <2>8, <2>9, <2>10, <2>11 DEF SdkInv
<1>8. QED
  BY <1>1, <1>6, <1>7

\* The first output to the address is the payment, with or without change.
LEMMA OutputIndexIsPayment ==
  ASSUME NEW inscription \in Inscriptions, NEW outs \in CommitOuts(inscription)
  PROVE  outs[OutputIndex(outs, CommitAddress(inscription))] = Payment(inscription)
<1>1. PICK address, pay, change : /\ address = CommitAddress(inscription)
                                  /\ pay = Payment(inscription) /\ change = Change
  OBVIOUS
<1>2. None # address
  BY <1>1, AddressAssumption DEF Inscriptions
<1>3. pay.address = address /\ change.address # address
  BY <1>1, <1>2 DEF Payment, Change
<1>4. outs \in {<<pay>>, <<pay, change>>, <<change, pay>>}
  BY <1>1 DEF CommitOuts
<1>5. PICK k \in 1 .. 2 :
        /\ k \in DOMAIN outs /\ outs[k] = pay
        /\ \A j \in DOMAIN outs : outs[j].address = address => j = k
        /\ \A j \in 1 .. k - 1 : outs[j].address # address
  <2>1. CASE outs = <<pay>>
    BY <1>3, <2>1
  <2>2. CASE outs = <<pay, change>>
    BY <1>3, <2>2
  <2>3. CASE outs = <<change, pay>>
    BY <1>3, <2>3
  <2>4. QED
    BY <1>4, <2>1, <2>2, <2>3
<1>6. OutputIndex(outs, address) \in DOMAIN outs /\ outs[OutputIndex(outs, address)].address = address
  BY <1>3, <1>5 DEF OutputIndex
<1>7. QED
  BY <1>1, <1>5, <1>6

\* The reveal spends the output found by its address.
LEMMA SignRevealTxStep ==
  ASSUME SdkInv, NEW p \in Callers, signRevealTx(p)
  PROVE  SdkInv'
<1>1. PICK c, info, d : /\ c = call[p] /\ CallOK(p, c, commits)
                        /\ info = createRevealTx(c, c.got[1])
                        /\ d = [Ended(c, "ok") EXCEPT !.info = info]
  BY DEF SdkInv
<1>2. /\ c.job = "inscribe" /\ c.step = "commit" /\ UnchangedWorld
      /\ Set(p, d) \/ Set(p, Ended(c, "failed"))
  BY <1>1 DEF signRevealTx, Doing
<1>3. CASE Set(p, Ended(c, "failed"))
  <2>1. CallOK(p, Ended(c, "failed"), commits)
    BY <1>1, EndedCall
  <2>2. QED
    BY <1>2, <1>3, <2>1, OneCallMoves
<1>4. CASE Set(p, d)
  <2>1. /\ DOMAIN d = CallFields /\ d.job = "inscribe" /\ d.step = "done"
        /\ d.result = "ok" /\ d.aim = c.aim /\ d.info = info
    BY <1>1, <1>2 DEF CallOK, Ended, CallFields
  <2>2. PICK tx : tx = c.got[1] /\ Paid(p, c.aim, commits, tx)
    BY <1>1, <1>2 DEF CallOK, Inscribes
  <2>3. PICK outs : outs = commits[tx].outs
    OBVIOUS
  <2>4. /\ info.tx = tx /\ info.index = OutputIndex(outs, CommitAddress(c.aim))
        /\ info.value = RevealFee(c.aim) + Postage
    BY <1>1, <2>2, <2>3 DEF createRevealTx
  <2>5. outs[info.index] = Payment(c.aim)
    BY <2>2, <2>3, <2>4, OutputIndexIsPayment DEF Paid
  <2>6. /\ (outs[info.index]).address = CommitAddress(c.aim)
        /\ (outs[info.index]).value = info.value
    BY <2>4, <2>5 DEF Payment
  <2>7. SpendsItsCommit(p, d, commits)
    BY <2>1, <2>2, <2>3, <2>4, <2>6 DEF SpendsItsCommit, Paid
  <2>8. CallOK(p, d, commits)
    BY <2>1, <2>7 DEF CallOK, Inscribes
  <2>9. QED
    BY <1>2, <1>4, <2>8, OneCallMoves
<1>5. QED
  BY <1>2, <1>3, <1>4

-----------------------------------------------------------------------------
(* The theorems *)

\* The invariant holds at the start,
LEMMA SdkInitInv == SdkInit => SdkInv
<1> SUFFICES ASSUME SdkInit PROVE SdkInv
  OBVIOUS
<1>1. ChainIsWellFormed
  <2>1. <<>> \in Seq(Blocks) /\ RightDifficulties(<<>>)
    BY EmptySeq DEF RightDifficulties
  <2>2. InitChain \in Seq(Seq(Txs)) /\ found = Len(InitChain)
    BY BitcoinAssumption DEF SdkInit
  <2>3. \A below \in Seq(Blocks), id \in Int :
            RightDifficulties(below) => /\ Branch(below, InitChain, id) \in Seq(Blocks)
                                        /\ RightDifficulties(Branch(below, InitChain, id))
    BY <2>2, BranchFollows
  <2>4. chain = Branch(<<>>, InitChain, 0) /\ 0 \in Int
    BY DEF SdkInit
  <2>5. chain \in Seq(Blocks) /\ RightDifficulties(chain)
    BY <2>1, <2>3, <2>4, Zenon
  <2>6. QED
    BY <2>2, <2>5, LenProperties DEF ChainIsWellFormed
<1>2. KnowsItsEpoch(relay)
  BY BitcoinAssumption DEF SdkInit, KnowsItsEpoch
<1>3. CommitsAreKept
  BY EmptySeq DEF SdkInit, CommitsAreKept
<1>4. DOMAIN call = Callers /\ \A p \in Callers : CallOK(p, call[p], commits)
  BY CallAtStart DEF SdkInit
<1>5. QED
  BY <1>1, <1>2, <1>3, <1>4 DEF SdkInv

\* is kept by every step,
LEMMA SdkNextInv == SdkInv /\ [SdkNext]_sdkVars => SdkInv'
<1> SUFFICES ASSUME SdkInv, [SdkNext]_sdkVars PROVE SdkInv'
  OBVIOUS
<1>1. CASE FindBlock \/ Reorganise \/ setProofLength
  BY <1>1, FindBlockStep, ReorganiseStep, SetProofLengthStep
<1>2. ASSUME NEW p \in Callers, NEW i \in DOMAIN call[p].batch,
             getBlockHash(p, i) \/ getBlockHeader(p, i)
      PROVE  SdkInv'
  BY <1>2, GetBlockHashStep, GetBlockHeaderStep
<1>3. ASSUME NEW p \in Callers,
             getBitcoinTxInfo(p) \/ getBitcoinTxProof(p) \/ ProofReturned(p)
      PROVE  SdkInv'
  BY <1>3, ProofSteps
<1>4. ASSUME NEW p \in Callers, StartGenesis(p) \/ SubmitGenesis(p)
      PROVE  SdkInv'
  BY <1>4, StartGenesisStep, SubmitGenesisStep
<1>5. ASSUME NEW p \in Callers,
             StartRetarget(p) \/ ReadProofLength(p) \/ CheckHeaders(p) \/ SubmitRetarget(p)
      PROVE  SdkInv'
  BY <1>5, RetargetSteps
<1>6. ASSUME NEW p \in Callers, sendToAddress(p) \/ signRevealTx(p)
      PROVE  SdkInv'
  BY <1>6, SendToAddressStep, SignRevealTxStep
<1>7. CASE UNCHANGED sdkVars
  BY <1>7 DEF SdkInv, ChainIsWellFormed, CommitsAreKept, sdkVars
<1>8. QED
  BY <1>1, <1>2, <1>3, <1>4, <1>5, <1>6, <1>7 DEF SdkNext

\* and so always holds.
LEMMA SdkInvariant == SdkSpec => []SdkInv
BY SdkInitInv, SdkNextInv, PTL DEF SdkSpec

\* Whatever the scripts and the owner do, in any order, and whatever the
\* explorer answers, a relay in use has the difficulty of the epoch it says it
\* is in: genesis and retarget move it by whole epochs.
THEOREM RelayAlwaysKnowsItsEpoch == SdkSpec => []RelayKnowsItsEpoch
<1>1. SdkInv => RelayKnowsItsEpoch
  BY DEF SdkInv, KnowsItsEpoch, RelayKnowsItsEpoch
<1>2. QED
  BY <1>1, SdkInvariant, PTL

\* A reveal that inscribeData returns spends the output with which its own
\* wallet paid for this very inscription, and all of its value.
THEOREM RevealAlwaysSpendsItsCommit == SdkSpec => []RevealSpendsItsCommit
<1>1. SdkInv => RevealSpendsItsCommit
  BY DEF SdkInv, CallOK, Inscribes, SpendsItsCommit, RevealSpendsItsCommit, Succeeded
<1>2. QED
  BY <1>1, SdkInvariant, PTL


-----------------------------------------------------------------------------
(* The branch of a Merkle tree, layer by layer *)

\* A non-empty set of natural numbers has a least one.
LEMMA LeastExists ==
  ASSUME NEW S \in SUBSET Nat, S # {}
  PROVE  \E x \in S : \A y \in S : x <= y
<1>1. PICK x \in S : \A y \in S : ~(<<y, x>> \in OpToRel(<, Nat))
  BY NatLessThanWellFounded, WFMin, Zenon
<1>2. \A y \in S : x \in Nat /\ y \in Nat /\ ~(y < x)
  BY <1>1, Zenon DEF OpToRel
<1>3. \A y \in S : x <= y
  BY <1>2
<1>4. QED
  BY <1>3, Zenon

\* Induction up to n, over a set of numbers.
LEMMA UpTo ==
  ASSUME NEW n \in Nat, NEW T, 0 \in T, \A k \in 1 .. n : k - 1 \in T => k \in T
  PROVE  \A k \in 0 .. n : k \in T
<1> DEFINE S == {k \in 0 .. n : k \notin T}
<1> SUFFICES ASSUME S # {} PROVE FALSE
  OBVIOUS
<1>1. PICK m \in S : \A y \in S : m <= y
  <2>1. S \in SUBSET Nat
    OBVIOUS
  <2> HIDE DEF S
  <2>2. QED
    BY <2>1, LeastExists
<1>2. m \in 1 .. n /\ m - 1 \in 0 .. n /\ m - 1 < m
  BY <1>1
<1>3. m - 1 \in T
  BY <1>1, <1>2
<1>4. QED
  BY <1>1, <1>2, <1>3

\* The equation of the rounds, up to the n-th.
Start(hashes, index) == [hashes |-> hashes, index |-> index, merkle |-> <<>>]

IsRounds(f, hashes, index, n) ==
    f = [k \in 0 .. n |-> IF k = 0 THEN Start(hashes, index) ELSE NextLayer(f[k - 1])]

\* It has a solution for every n, by the one for n - 1 and a round more.
LEMMA RoundsExist ==
  ASSUME NEW hashes, NEW index, NEW n \in Nat
  PROVE  \E f : IsRounds(f, hashes, index, n)
<1> DEFINE T == {m \in 0 .. n : \E f : IsRounds(f, hashes, index, m)}
<1>1. 0 \in T
  <2>1. PICK f : f = [k \in 0 .. 0 |-> Start(hashes, index)]
    OBVIOUS
  <2>2. IsRounds(f, hashes, index, 0)
    BY <2>1 DEF IsRounds
  <2>3. QED
    BY <2>2
<1>2. ASSUME NEW m \in 1 .. n, m - 1 \in T
      PROVE  m \in T
  <2>1. PICK f : IsRounds(f, hashes, index, m - 1)
    BY <1>2
  <2>2. PICK g, next : /\ next = NextLayer(f[m - 1])
                      /\ g = [k \in 0 .. m |-> IF k = m THEN next ELSE f[k]]
    OBVIOUS
  <2>3. \A k \in 0 .. m - 1 : f[k] = IF k = 0 THEN Start(hashes, index) ELSE NextLayer(f[k - 1])
    BY <2>1 DEF IsRounds
  <2>4. ASSUME NEW k \in 0 .. m
        PROVE  g[k] = IF k = 0 THEN Start(hashes, index) ELSE NextLayer(g[k - 1])
    <3>1. k # 0 => k - 1 \in 0 .. m /\ k - 1 # m
      OBVIOUS
    <3>2. k # 0 => g[k - 1] = f[k - 1]
      BY <2>2, <3>1
    <3>3. k # m => k \in 0 .. m - 1 /\ g[k] = f[k]
      BY <2>2
    <3>4. k = m => k # 0 /\ g[k] = next
      BY <2>2
    <3>5. QED
      BY <2>2, <2>3, <3>2, <3>3, <3>4
  <2>5. IsRounds(g, hashes, index, m)
    <3>1. g = [k \in 0 .. m |-> g[k]]
      BY <2>2
    <3>2. QED
      BY <2>4, <3>1, Zenon DEF IsRounds
  <2>6. QED
    BY <2>5
<1> HIDE DEF T
<1>3. n \in T
  BY <1>1, <1>2, UpTo
<1>4. QED
  BY <1>3 DEF T

\* The rounds of the loop, one by one.
LEMMA RoundsUnfold ==
  ASSUME NEW hashes, NEW index, Len(hashes) \in Nat
  PROVE  /\ Rounds(hashes, index)[0] = Start(hashes, index)
         /\ \A k \in 1 .. Len(hashes) :
               Rounds(hashes, index)[k] = NextLayer(Rounds(hashes, index)[k - 1])
<1>1. \E f : IsRounds(f, hashes, index, Len(hashes))
  BY RoundsExist
<1>2. IsRounds(Rounds(hashes, index), hashes, index, Len(hashes))
  BY <1>1 DEF Rounds, IsRounds, Start
<1>3. QED
  BY <1>2 DEF IsRounds

\* The equation of the climb, up to the n-th.
Below(hash, index) == [hash |-> hash, index |-> index]

IsSteps(f, hash, index, merkle, n) ==
    f = [k \in 0 .. n |-> IF k = 0 THEN Below(hash, index) ELSE Above(f[k - 1], merkle[k])]

\* It has a solution as well.
LEMMA StepsExist ==
  ASSUME NEW hash, NEW index, NEW merkle, NEW n \in Nat
  PROVE  \E f : IsSteps(f, hash, index, merkle, n)
<1> DEFINE T == {m \in 0 .. n : \E f : IsSteps(f, hash, index, merkle, m)}
<1>1. 0 \in T
  <2>1. PICK f : f = [k \in 0 .. 0 |-> Below(hash, index)]
    OBVIOUS
  <2>2. IsSteps(f, hash, index, merkle, 0)
    BY <2>1 DEF IsSteps
  <2>3. QED
    BY <2>2
<1>2. ASSUME NEW m \in 1 .. n, m - 1 \in T
      PROVE  m \in T
  <2>1. PICK f : IsSteps(f, hash, index, merkle, m - 1)
    BY <1>2
  <2>2. PICK g, next : /\ next = Above(f[m - 1], merkle[m])
                      /\ g = [k \in 0 .. m |-> IF k = m THEN next ELSE f[k]]
    OBVIOUS
  <2>3. \A k \in 0 .. m - 1 : f[k] = IF k = 0 THEN Below(hash, index) ELSE Above(f[k - 1], merkle[k])
    BY <2>1 DEF IsSteps
  <2>4. ASSUME NEW k \in 0 .. m
        PROVE  g[k] = IF k = 0 THEN Below(hash, index) ELSE Above(g[k - 1], merkle[k])
    <3>1. k # 0 => k - 1 \in 0 .. m /\ k - 1 # m
      OBVIOUS
    <3>2. k # 0 => g[k - 1] = f[k - 1]
      BY <2>2, <3>1
    <3>3. k # m => k \in 0 .. m - 1 /\ g[k] = f[k]
      BY <2>2
    <3>4. k = m => k # 0 /\ g[k] = next
      BY <2>2
    <3>5. QED
      BY <2>2, <2>3, <3>2, <3>3, <3>4
  <2>5. IsSteps(g, hash, index, merkle, m)
    <3>1. g = [k \in 0 .. m |-> g[k]]
      BY <2>2
    <3>2. QED
      BY <2>4, <3>1, Zenon DEF IsSteps
  <2>6. QED
    BY <2>5
<1> HIDE DEF T
<1>3. n \in T
  BY <1>1, <1>2, UpTo
<1>4. QED
  BY <1>3 DEF T

\* The climb, step by step.
LEMMA StepsUnfold ==
  ASSUME NEW hash, NEW index, NEW merkle, Len(merkle) \in Nat
  PROVE  /\ Steps(hash, index, merkle)[0] = Below(hash, index)
         /\ \A k \in 1 .. Len(merkle) :
               Steps(hash, index, merkle)[k] = Above(Steps(hash, index, merkle)[k - 1], merkle[k])
<1>1. \E f : IsSteps(f, hash, index, merkle, Len(merkle))
  BY StepsExist
<1>2. IsSteps(Steps(hash, index, merkle), hash, index, merkle, Len(merkle))
  BY <1>1 DEF Steps, IsSteps, Below
<1>3. QED
  BY <1>2 DEF IsSteps


-----------------------------------------------------------------------------
(* One layer *)

IsList(s) == \E S : s \in Seq(S)

\* The length of a list is a number, and its indices go from one to it.
LEMMA ListLength ==
  ASSUME NEW s, IsList(s)
  PROVE  Len(s) \in Nat /\ DOMAIN s = 1 .. Len(s)
BY LenProperties DEF IsList

\* A list that is not empty has one element or more.
LEMMA OneOrMore ==
  ASSUME NEW s, IsList(s), Len(s) >= 1
  PROVE  Len(s) = 1 \/ Len(s) > 1
<1>1. PICK n : n = Len(s)
  OBVIOUS
<1>2. n \in Nat /\ n >= 1
  BY <1>1, ListLength
<1>3. n = 1 \/ n > 1
  BY <1>2
<1>4. QED
  BY <1>1, <1>3

\* A function on 1 .. n is a list.
LEMMA ListOfValues ==
  ASSUME NEW n \in Nat, NEW f, DOMAIN f = 1 .. n, f = [i \in 1 .. n |-> f[i]]
  PROVE  IsList(f) /\ Len(f) = n
<1>1. PICK S : S = {f[i] : i \in 1 .. n}
  OBVIOUS
<1>2. \A i \in 1 .. n : f[i] \in S
  BY <1>1
<1>3. f \in [1 .. n -> S]
  BY <1>2
<1>4. QED
  BY <1>3, ValuesInOrder DEF IsList

\* An element more makes a list one longer and leaves the others.
LEMMA ListAppended ==
  ASSUME NEW s, IsList(s), NEW x
  PROVE  /\ IsList(Append(s, x)) /\ Len(Append(s, x)) = Len(s) + 1
         /\ \A i \in 1 .. Len(s) : Append(s, x)[i] = s[i]
         /\ Append(s, x)[Len(s) + 1] = x
<1>1. PICK S : s \in Seq(S)
  BY DEF IsList
<1>2. PICK T : T = S \cup {x}
  OBVIOUS
<1>3. s \in Seq(T) /\ x \in T
  <2>1. s \in [1 .. Len(s) -> S] /\ Len(s) \in Nat
    BY <1>1, LenProperties
  <2>2. s \in [1 .. Len(s) -> T]
    BY <1>2, <2>1
  <2>3. QED
    BY <1>2, <2>1, <2>2, ValuesInOrder
<1>4. QED
  BY <1>3, AppendProperties DEF IsList

\* A layer of odd length ends with its last hash twice.
LEMMA EvenLayer ==
  ASSUME NEW hashes, IsList(hashes)
  PROVE  /\ IsList(Even(hashes)) /\ Len(Even(hashes)) % 2 = 0
         /\ Len(Even(hashes)) \in {Len(hashes), Len(hashes) + 1}
         /\ \A i \in 1 .. Len(hashes) : Even(hashes)[i] = hashes[i]
<1>1. Len(hashes) \in Nat
  BY ListLength
<1>2. Len(hashes) % 2 # 0 => (Len(hashes) + 1) % 2 = 0
  BY <1>1
<1>3. QED
  BY <1>2, ListAppended DEF Even

\* A layer of pairs is half as long.
LEMMA PairedLayer ==
  ASSUME NEW layer, IsList(layer)
  PROVE  /\ IsList(Paired(layer)) /\ Len(Paired(layer)) = Len(layer) \div 2
         /\ \A i \in 1 .. Len(layer) \div 2 : Paired(layer)[i] = <<layer[2 * i - 1], layer[2 * i]>>
<1>1. PICK n : n = Len(layer) \div 2
  OBVIOUS
<1>2. n \in Nat
  BY <1>1, ListLength
<1>3. /\ DOMAIN Paired(layer) = 1 .. n
      /\ Paired(layer) = [i \in 1 .. n |-> Paired(layer)[i]]
      /\ \A i \in 1 .. n : Paired(layer)[i] = <<layer[2 * i - 1], layer[2 * i]>>
  BY <1>1 DEF Paired
<1>4. QED
  BY <1>1, <1>2, <1>3, ListOfValues

\* A number and the half of it.
LEMMA Halves ==
  ASSUME NEW n \in Nat, NEW m \in {n, n + 1}, m % 2 = 0, n > 1
  PROVE  /\ m \div 2 \in Nat /\ m = 2 * (m \div 2) /\ m \div 2 >= 1 /\ m \div 2 < n
OBVIOUS

\* A round leaves a shorter layer, or the root alone.
LEMMA NextLayerIsShorter ==
  ASSUME NEW b, IsList(b.hashes), Len(b.hashes) > 1
  PROVE  /\ IsList(NextLayer(b).hashes) /\ Len(NextLayer(b).hashes) >= 1
         /\ Len(NextLayer(b).hashes) < Len(b.hashes)
<1>1. Len(b.hashes) \in Nat
  BY ListLength
<1>2. PICK layer, next : layer = Even(b.hashes) /\ next = NextLayer(b)
  OBVIOUS
<1>3. next.hashes = Paired(layer)
  BY <1>1, <1>2 DEF NextLayer
<1>4. IsList(layer) /\ Len(layer) % 2 = 0 /\ Len(layer) \in {Len(b.hashes), Len(b.hashes) + 1}
  BY <1>2, EvenLayer
<1>5. IsList(next.hashes) /\ Len(next.hashes) = Len(layer) \div 2
  BY <1>3, <1>4, PairedLayer
<1>6. Len(layer) \div 2 >= 1 /\ Len(layer) \div 2 < Len(b.hashes)
  BY <1>1, <1>4, Halves
<1>7. QED
  BY <1>2, <1>5, <1>6

\* The sibling of a hash, and the place of the pair it makes with it.
LEMMA SiblingOf ==
  ASSUME NEW index \in Nat, NEW half, half = index \div 2
  PROVE  /\ half \in Nat /\ Sibling(index) \div 2 = half
         /\ \/ index % 2 = 0 /\ index = 2 * half /\ Sibling(index) = index + 1
            \/ index % 2 = 1 /\ index = 2 * half + 1 /\ Sibling(index) = index - 1
BY DEF Sibling

\* Where a half lies.
LEMMA HalfWay ==
  ASSUME NEW index \in Nat, NEW n \in Nat, NEW m \in {n, n + 1}, m % 2 = 0, index < n
  PROVE  index \div 2 < m \div 2
OBVIOUS

Position(b) == [hash |-> b.hashes[b.index + 1], index |-> b.index]

\* A round goes up with the hash that is followed: the hash above it is made of
\* it and of the sibling that the round has put into the branch.
LEMMA RoundGoesUp ==
  ASSUME NEW b, IsList(b.hashes), Len(b.hashes) > 1, b.index \in 0 .. Len(b.hashes) - 1,
         IsList(b.merkle)
  PROVE  /\ NextLayer(b).index \in 0 .. Len(NextLayer(b).hashes) - 1
         /\ IsList(NextLayer(b).merkle) /\ Len(NextLayer(b).merkle) = Len(b.merkle) + 1
         /\ \A i \in 1 .. Len(b.merkle) : NextLayer(b).merkle[i] = b.merkle[i]
         /\ Position(NextLayer(b)) = Above(Position(b), NextLayer(b).merkle[Len(b.merkle) + 1])
<1>1. PICK hashes, index, layer, next, sibling :
        /\ hashes = b.hashes /\ index = b.index /\ layer = Even(hashes)
        /\ next = NextLayer(b) /\ sibling = layer[Sibling(index) + 1]
  OBVIOUS
<1>2. Len(hashes) \in Nat /\ IsList(hashes) /\ index \in Nat /\ index < Len(hashes)
  BY <1>1, ListLength
<1>3. /\ next.hashes = Paired(layer) /\ next.index = Sibling(index) \div 2
      /\ next.merkle = Append(b.merkle, sibling)
  BY <1>1, <1>2 DEF NextLayer
<1>4. PICK half : half = index \div 2
  OBVIOUS
<1>5. /\ half \in Nat /\ next.index = half
      /\ \/ index % 2 = 0 /\ index = 2 * half /\ Sibling(index) = index + 1
         \/ index % 2 = 1 /\ index = 2 * half + 1 /\ Sibling(index) = index - 1
  BY <1>2, <1>3, <1>4, SiblingOf
<1>6. PICK halves : halves = Len(layer) \div 2
  OBVIOUS
<1>7. /\ IsList(layer) /\ Len(layer) % 2 = 0 /\ Len(layer) \in {Len(hashes), Len(hashes) + 1}
      /\ \A i \in 1 .. Len(hashes) : layer[i] = hashes[i]
  BY <1>1, <1>2, EvenLayer
<1>8. halves \in Nat /\ half < halves
  BY <1>2, <1>4, <1>6, <1>7, HalfWay
<1>9. /\ Len(next.hashes) = halves
      /\ next.hashes[half + 1] = <<layer[2 * (half + 1) - 1], layer[2 * (half + 1)]>>
  <2>1. half + 1 \in 1 .. halves
    BY <1>5, <1>8
  <2>2. QED
    BY <1>3, <1>6, <1>7, <2>1, PairedLayer
<1>10. /\ IsList(next.merkle) /\ Len(next.merkle) = Len(b.merkle) + 1
       /\ \A i \in 1 .. Len(b.merkle) : next.merkle[i] = b.merkle[i]
       /\ next.merkle[Len(b.merkle) + 1] = sibling
  BY <1>3, ListAppended
<1>11. next.hashes[half + 1] =
          IF index % 2 = 1 THEN <<sibling, hashes[index + 1]>> ELSE <<hashes[index + 1], sibling>>
  <2>1. layer[index + 1] = hashes[index + 1]
    <3>1. index + 1 \in 1 .. Len(hashes)
      BY <1>2
    <3>2. QED
      BY <1>7, <3>1
  <2>2. CASE index % 2 = 0 /\ index = 2 * half /\ Sibling(index) = index + 1
    <3>1. 2 * (half + 1) - 1 = index + 1 /\ 2 * (half + 1) = Sibling(index) + 1
      BY <1>5, <2>2
    <3>2. QED
      BY <1>1, <1>9, <2>1, <2>2, <3>1
  <2>3. CASE index % 2 = 1 /\ index = 2 * half + 1 /\ Sibling(index) = index - 1
    <3>1. 2 * (half + 1) - 1 = Sibling(index) + 1 /\ 2 * (half + 1) = index + 1
      BY <1>5, <2>3
    <3>2. QED
      BY <1>1, <1>9, <2>1, <2>3, <3>1
  <2>4. QED
    BY <1>5, <2>2, <2>3
<1>12. Position(next) = Above(Position(b), sibling)
  BY <1>1, <1>4, <1>5, <1>11 DEF Position, Above
<1>13. next.index \in 0 .. Len(next.hashes) - 1
  BY <1>5, <1>8, <1>9
<1>14. QED
  BY <1>1, <1>10, <1>12, <1>13

-----------------------------------------------------------------------------
(* All layers *)

IsRun(f, n) == \A k \in 1 .. n : f[k] = NextLayer(f[k - 1])

IsLayer(b) == IsList(b.hashes) /\ Len(b.hashes) >= 1

Follows(b) ==
    /\ IsLayer(b)
    /\ b.index \in 0 .. Len(b.hashes) - 1
    /\ IsList(b.merkle)

Continues(b, c) ==
    /\ Len(b.merkle) <= Len(c.merkle)
    /\ \A i \in 1 .. Len(b.merkle) : c.merkle[i] = b.merkle[i]

\* A round leaves a layer that is shorter or a single hash.
LEMMA OneRound ==
  ASSUME NEW b, IsLayer(b), NEW next, next = NextLayer(b)
  PROVE  IsLayer(next) /\ (Len(next.hashes) < Len(b.hashes) \/ Len(next.hashes) = 1)
<1>1. Len(b.hashes) = 1 \/ Len(b.hashes) > 1
  BY OneOrMore, Zenon DEF IsLayer
<1>2. CASE Len(b.hashes) = 1
  BY <1>2 DEF NextLayer
<1>3. CASE Len(b.hashes) > 1
  BY <1>3, NextLayerIsShorter DEF IsLayer
<1>4. QED
  BY <1>1, <1>2, <1>3, Zenon

\* A round leaves the branch as it was or makes it longer by one sibling.
LEMMA OneRoundFollows ==
  ASSUME NEW b, Follows(b), NEW next, next = NextLayer(b)
  PROVE  /\ Follows(next) /\ Continues(b, next)
         /\ \/ next = b
            \/ /\ Len(next.merkle) = Len(b.merkle) + 1
               /\ Position(next) = Above(Position(b), next.merkle[Len(b.merkle) + 1])
<1>1. Len(b.hashes) = 1 \/ Len(b.hashes) > 1
  BY OneOrMore, Zenon DEF Follows, IsLayer
<1>2. Len(b.merkle) \in Nat
  BY ListLength DEF Follows
<1>3. CASE Len(b.hashes) = 1
  <2>1. next = b
    BY <1>3 DEF NextLayer
  <2>2. Continues(b, b)
    BY <1>2 DEF Continues
  <2>3. QED
    BY <2>1, <2>2
<1>4. CASE Len(b.hashes) > 1
  <2>1. IsLayer(next)
    BY OneRound DEF Follows
  <2>2. /\ next.index \in 0 .. Len(next.hashes) - 1
        /\ IsList(next.merkle) /\ Len(next.merkle) = Len(b.merkle) + 1
        /\ \A i \in 1 .. Len(b.merkle) : next.merkle[i] = b.merkle[i]
        /\ Position(next) = Above(Position(b), next.merkle[Len(b.merkle) + 1])
    BY <1>4, RoundGoesUp DEF Follows, IsLayer
  <2>3. QED
    BY <1>2, <2>1, <2>2 DEF Follows, Continues
<1>5. QED
  BY <1>1, <1>3, <1>4, Zenon

\* After as many rounds as there are hashes one hash is left.
LEMMA RunEnds ==
  ASSUME NEW f, NEW n \in Nat, n >= 1, IsRun(f, n), IsLayer(f[0]), Len(f[0].hashes) = n
  PROVE  IsLayer(f[n]) /\ Len(f[n].hashes) = 1
<1> DEFINE T == {k \in 0 .. n : IsLayer(f[k]) /\ (Len(f[k].hashes) <= n - k \/ Len(f[k].hashes) = 1)}
<1>1. 0 \in T
  OBVIOUS
<1>2. ASSUME NEW k \in 1 .. n, k - 1 \in T
      PROVE  k \in T
  <2>1. PICK b, next : b = f[k - 1] /\ next = f[k]
    OBVIOUS
  <2>2. next = NextLayer(b) /\ IsLayer(b) /\ (Len(b.hashes) <= n - (k - 1) \/ Len(b.hashes) = 1)
    BY <1>2, <2>1 DEF IsRun
  <2>3. IsLayer(next) /\ (Len(next.hashes) < Len(b.hashes) \/ Len(next.hashes) = 1)
    BY <2>2, OneRound
  <2>4. Len(b.hashes) \in Nat /\ Len(next.hashes) \in Nat /\ Len(next.hashes) >= 1
    BY <2>2, <2>3, ListLength DEF IsLayer
  <2>5. PICK x, y : x = Len(b.hashes) /\ y = Len(next.hashes)
    OBVIOUS
  <2>6. x \in Nat /\ y \in Nat /\ (x <= n - (k - 1) \/ x = 1) /\ (y < x \/ y = 1) /\ y >= 1
    BY <2>2, <2>3, <2>4, <2>5
  <2>7. y <= n - k \/ y = 1
    BY <2>6
  <2>8. QED
    BY <2>1, <2>3, <2>5, <2>7
<1>3. n \in T
  <2> HIDE DEF T
  <2>1. \A k \in 0 .. n : k \in T
    BY <1>1, <1>2, UpTo, Zenon
  <2>2. QED
    BY <2>1
<1>4. Len(f[n].hashes) \in Nat /\ Len(f[n].hashes) >= 1
  BY <1>3, ListLength DEF IsLayer
<1>5. QED
  BY <1>3, <1>4

\* The layers do not depend on the hash that is followed.
LEMMA SameLayers ==
  ASSUME NEW f, NEW g, NEW n \in Nat, IsRun(f, n), IsRun(g, n), f[0].hashes = g[0].hashes
  PROVE  f[n].hashes = g[n].hashes
<1> DEFINE T == {k \in 0 .. n : f[k].hashes = g[k].hashes}
<1>1. 0 \in T
  OBVIOUS
<1>2. ASSUME NEW k \in 1 .. n, k - 1 \in T
      PROVE  k \in T
  <2>1. PICK b, c : b = f[k - 1] /\ c = g[k - 1]
    OBVIOUS
  <2>2. b.hashes = c.hashes /\ f[k] = NextLayer(b) /\ g[k] = NextLayer(c)
    BY <1>2, <2>1 DEF IsRun
  <2>3. NextLayer(b).hashes = NextLayer(c).hashes
    BY <2>2 DEF NextLayer
  <2>4. QED
    BY <2>2, <2>3
<1>3. n \in T
  <2> HIDE DEF T
  <2>1. \A k \in 0 .. n : k \in T
    BY <1>1, <1>2, UpTo, Zenon
  <2>2. QED
    BY <2>1
<1>4. QED
  BY <1>3

\* The hash that is followed stays in the layers.
LEMMA RunFollows ==
  ASSUME NEW f, NEW n \in Nat, IsRun(f, n), Follows(f[0])
  PROVE  \A k \in 0 .. n : Follows(f[k])
<1> DEFINE T == {k \in 0 .. n : Follows(f[k])}
<1>1. 0 \in T
  OBVIOUS
<1>2. ASSUME NEW k \in 1 .. n, k - 1 \in T
      PROVE  k \in T
  BY <1>2, OneRoundFollows DEF IsRun
<1>3. \A k \in 0 .. n : k \in T
  <2> HIDE DEF T
  <2>1. QED
    BY <1>1, <1>2, UpTo
<1>4. QED
  BY <1>3

\* A branch that continues one continues what that one continues.
LEMMA ContinuesOn ==
  ASSUME NEW b, NEW c, NEW d, IsList(b.merkle), IsList(c.merkle), IsList(d.merkle),
         Continues(b, c), Continues(c, d)
  PROVE  Continues(b, d)
<1>1. Len(b.merkle) \in Nat /\ Len(c.merkle) \in Nat /\ Len(d.merkle) \in Nat
  BY ListLength
<1>2. QED
  BY <1>1 DEF Continues

\* The branch of a round is the beginning of the last one's.
LEMMA RunContinues ==
  ASSUME NEW f, NEW n \in Nat, IsRun(f, n), Follows(f[0])
  PROVE  \A k \in 0 .. n : Continues(f[k], f[n])
<1> DEFINE T == {j \in 0 .. n : Continues(f[n - j], f[n])}
<1>1. 0 \in T
  <2>1. IsList(f[n].merkle)
    BY RunFollows DEF Follows
  <2>2. Continues(f[n], f[n])
    BY <2>1, ListLength DEF Continues
  <2>3. QED
    BY <2>2
<1>2. ASSUME NEW j \in 1 .. n, j - 1 \in T
      PROVE  j \in T
  <2>1. PICK k : k = n - j
    OBVIOUS
  <2>2. k + 1 \in 1 .. n /\ k \in 0 .. n /\ k + 1 \in 0 .. n /\ n \in 0 .. n
        /\ n - (j - 1) = k + 1 /\ (k + 1) - 1 = k
    BY <2>1
  <2>3. Follows(f[k]) /\ Follows(f[k + 1]) /\ Follows(f[n]) /\ f[k + 1] = NextLayer(f[k])
    <3>1. \A i \in 0 .. n : Follows(f[i])
      BY RunFollows
    <3>2. f[k + 1] = NextLayer(f[(k + 1) - 1])
      BY <2>2 DEF IsRun
    <3>3. QED
      BY <2>2, <3>1, <3>2
  <2>4. Continues(f[k], f[k + 1]) /\ Continues(f[k + 1], f[n])
    BY <1>2, <2>2, <2>3, OneRoundFollows
  <2>5. Continues(f[k], f[n])
    BY <2>3, <2>4, ContinuesOn DEF Follows
  <2>6. QED
    BY <2>1, <2>5
<1>3. \A j \in 0 .. n : j \in T
  <2> HIDE DEF T
  <2>1. QED
    BY <1>1, <1>2, UpTo
<1>4. ASSUME NEW k \in 0 .. n
      PROVE  Continues(f[k], f[n])
  <2>1. n - k \in 0 .. n /\ n - (n - k) = k
    OBVIOUS
  <2>2. QED
    BY <1>3, <2>1
<1>5. QED
  BY <1>4

\* Climbing the branch passes the hash that is followed in every layer.
LEMMA ClimbFollows ==
  ASSUME NEW f, NEW n \in Nat, IsRun(f, n), Follows(f[0]), Len(f[0].merkle) = 0,
         NEW at, at[0] = Position(f[0]),
         \A k \in 1 .. Len(f[n].merkle) : at[k] = Above(at[k - 1], f[n].merkle[k])
  PROVE  at[Len(f[n].merkle)] = Position(f[n])
<1> DEFINE T == {k \in 0 .. n : at[Len(f[k].merkle)] = Position(f[k])}
<1>1. 0 \in T
  OBVIOUS
<1>2. ASSUME NEW k \in 1 .. n, k - 1 \in T
      PROVE  k \in T
  <2>1. PICK b, next, last : b = f[k - 1] /\ next = f[k] /\ last = f[n]
    OBVIOUS
  <2>2. k - 1 \in 0 .. n /\ k \in 0 .. n /\ n \in 0 .. n
    OBVIOUS
  <2>3. next = NextLayer(b) /\ Follows(b) /\ Follows(next) /\ Follows(last)
    BY <2>1, <2>2, RunFollows DEF IsRun
  <2>4. Continues(next, last)
    BY <2>1, <2>2, RunContinues
  <2>5. at[Len(b.merkle)] = Position(b)
    BY <1>2, <2>1
  <2>6. ASSUME next = b
        PROVE  at[Len(next.merkle)] = Position(next)
    BY <2>5, <2>6
  <2>7. ASSUME Len(next.merkle) = Len(b.merkle) + 1,
               Position(next) = Above(Position(b), next.merkle[Len(b.merkle) + 1])
        PROVE  at[Len(next.merkle)] = Position(next)
    <3>1. PICK h : h = Len(next.merkle)
      OBVIOUS
    <3>2. /\ h \in 1 .. Len(last.merkle) /\ h \in 1 .. Len(next.merkle)
          /\ h - 1 = Len(b.merkle) /\ Len(b.merkle) + 1 = h
      <4>1. Len(b.merkle) \in Nat /\ Len(next.merkle) \in Nat /\ Len(last.merkle) \in Nat
        BY <2>3, ListLength DEF Follows
      <4>2. Len(next.merkle) <= Len(last.merkle)
        BY <2>4 DEF Continues
      <4>3. QED
        BY <2>7, <3>1, <4>1, <4>2
    <3>3. last.merkle[h] = next.merkle[h]
      BY <2>4, <3>2 DEF Continues
    <3>4. at[h] = Above(at[h - 1], last.merkle[h])
      BY <2>1, <3>2
    <3>5. QED
      BY <2>1, <2>5, <2>7, <3>1, <3>2, <3>3, <3>4
  <2>8. at[Len(next.merkle)] = Position(next)
    BY <2>3, <2>6, <2>7, OneRoundFollows
  <2>9. QED
    BY <2>1, <2>2, <2>8
<1>3. n \in T
  <2> HIDE DEF T
  <2>1. \A k \in 0 .. n : k \in T
    BY <1>1, <1>2, UpTo, Zenon
  <2>2. QED
    BY <2>1
<1>4. QED
  BY <1>3

\* The branch that createMerkleBranchAndRoot builds for a hash leads from it to
\* the root of the block, whatever the hashes and however many.
THEOREM BranchLeadsToRoot ==
  ASSUME NEW hashes, IsList(hashes), NEW index \in 0 .. Len(hashes) - 1
  PROVE  prove(hashes[index + 1], MerkleRoot(hashes),
               createMerkleBranchAndRoot(hashes, index).merkle, index)
<1>1. PICK n, f, g : n = Len(hashes) /\ f = Rounds(hashes, index) /\ g = Rounds(hashes, 0)
  OBVIOUS
<1>2. n \in Nat /\ n >= 1
  BY <1>1, ListLength
<1>3. IsRun(f, n) /\ IsRun(g, n) /\ f[0] = Start(hashes, index) /\ g[0] = Start(hashes, 0)
  BY <1>1, <1>2, RoundsUnfold DEF IsRun
<1>4. /\ f[0].hashes = hashes /\ g[0].hashes = hashes
      /\ f[0].index = index /\ f[0].merkle = <<>>
  BY <1>3 DEF Start
<1>5. Follows(f[0]) /\ Len(f[0].merkle) = 0
  <2>1. IsList(<<>>) /\ Len(<<>>) = 0
    BY EmptySeq DEF IsList
  <2>2. QED
    BY <1>1, <1>2, <1>4, <2>1 DEF Follows, IsLayer
<1>6. Len(f[n].hashes) = 1
  BY <1>1, <1>2, <1>3, <1>4, <1>5, RunEnds DEF Follows
<1>7. f[n].index = 0 /\ IsList(f[n].merkle)
  <2>1. Follows(f[n])
    BY <1>2, <1>3, <1>5, RunFollows
  <2>2. QED
    BY <1>6, <2>1 DEF Follows
<1>8. f[n].hashes = g[n].hashes
  BY <1>2, <1>3, <1>4, SameLayers
<1>9. PICK merkle, at : merkle = f[n].merkle /\ at = Steps(hashes[index + 1], index, merkle)
  OBVIOUS
<1>10. /\ at[0] = Position(f[0])
       /\ \A k \in 1 .. Len(merkle) : at[k] = Above(at[k - 1], merkle[k])
  <2>1. Len(merkle) \in Nat
    BY <1>7, <1>9, ListLength
  <2>2. /\ at[0] = Below(hashes[index + 1], index)
        /\ \A k \in 1 .. Len(merkle) : at[k] = Above(at[k - 1], merkle[k])
    BY <1>9, <2>1, StepsUnfold
  <2>3. QED
    BY <1>4, <2>2 DEF Below, Position
<1>11. at[Len(merkle)] = Position(f[n])
  BY <1>2, <1>3, <1>5, <1>9, <1>10, ClimbFollows
<1>12. at[Len(merkle)].hash = f[n].hashes[1]
  BY <1>7, <1>11 DEF Position
<1>13. createMerkleBranchAndRoot(hashes, index).merkle = merkle
  BY <1>1, <1>9 DEF createMerkleBranchAndRoot
<1>14. MerkleRoot(hashes) = f[n].hashes[1]
  BY <1>1, <1>8 DEF MerkleRoot, createMerkleBranchAndRoot
<1>15. QED
  BY <1>9, <1>12, <1>13, <1>14 DEF prove, Climb

-----------------------------------------------------------------------------
(* What the explorer answers *)

\* The position that indexOf finds is the hash's, and the branch from there
\* leads to the root.
LEMMA FoundProofIsRight ==
  ASSUME NEW hashes, IsList(hashes), NEW hash, \E i \in DOMAIN hashes : hashes[i] = hash
  PROVE  LET branch == getMerkleProof(hashes, hash)
         IN  prove(hash, MerkleRoot(hashes), branch.proof, branch.pos)
<1>1. Len(hashes) \in Nat /\ DOMAIN hashes = 1 .. Len(hashes)
  BY ListLength
<1> DEFINE Hits == {i \in DOMAIN hashes : hashes[i] = hash}
<1>2. PICK first \in Hits : \A j \in Hits : first <= j
  <2>1. Hits \in SUBSET Nat /\ Hits # {}
    BY <1>1
  <2> HIDE DEF Hits
  <2>2. QED
    BY <2>1, LeastExists
<1>3. first \in DOMAIN hashes /\ hashes[first] = hash
  BY <1>2
<1>4. \A j \in 1 .. first - 1 : hashes[j] # hash
  BY <1>1, <1>2
<1>5. PICK place : place = CHOOSE i \in DOMAIN hashes :
                              hashes[i] = hash /\ \A j \in 1 .. i - 1 : hashes[j] # hash
  OBVIOUS
<1>6. place \in DOMAIN hashes /\ hashes[place] = hash
  BY <1>3, <1>4, <1>5
<1>7. PICK pos : pos = IndexOf(hashes, hash)
  OBVIOUS
<1>8. pos = place - 1
  BY <1>5, <1>7 DEF IndexOf
<1>9. pos \in 0 .. Len(hashes) - 1 /\ pos + 1 = place /\ pos # -1
  BY <1>1, <1>6, <1>8
<1>10. /\ getMerkleProof(hashes, hash).pos = pos
       /\ getMerkleProof(hashes, hash).proof = createMerkleBranchAndRoot(hashes, pos).merkle
  BY <1>7, <1>9 DEF getMerkleProof
<1>11. prove(hashes[pos + 1], MerkleRoot(hashes), createMerkleBranchAndRoot(hashes, pos).merkle, pos)
  BY <1>9, BranchLeadsToRoot
<1>12. QED
  BY <1>6, <1>9, <1>10, <1>11

\* The explorer's proof for a transaction in a block is right for the root in
\* that block's header.
LEMMA ProofOfBlock ==
  ASSUME ChainIsWellFormed, NEW t, NEW h \in HeightsOf(t)
  PROVE  /\ h \in Nat /\ h + 1 \in 1 .. Len(chain)
         /\ MerkleProofAt(t, h).blockHeight = h
         /\ prove(TxHash(TxData[t]), Header(chain[h + 1]).root,
                  MerkleProofAt(t, h).merkle, MerkleProofAt(t, h).pos)
<1>1. h \in Nat /\ h + 1 \in 1 .. Len(chain) /\ t \in ToSet(chain[h + 1].body)
  <2>1. Len(chain) \in Nat
    BY LenProperties DEF ChainIsWellFormed
  <2>2. h \in 0 .. Len(chain) - 1 /\ t \in ToSet(chain[h + 1].body)
    BY DEF HeightsOf, Tip, BlockAt
  <2>3. QED
    BY <2>1, <2>2
<1>2. PICK block, body : block = chain[h + 1] /\ body = block.body
  OBVIOUS
<1>3. body \in Seq(Txs)
  <2>1. chain[h + 1] \in Blocks
    BY <1>1, ElementOfSeq DEF ChainIsWellFormed
  <2>2. QED
    BY <1>2, <2>1 DEF Blocks
<1>4. Len(body) \in Nat /\ DOMAIN body = 1 .. Len(body)
  BY <1>3, LenProperties
<1>5. PICK k \in 1 .. Len(body) : body[k] = t
  BY <1>1, <1>2, <1>4 DEF ToSet
<1>6. PICK first, others, hashes :
        /\ first = TxHash(Coinbase(block.id))
        /\ others = [i \in 1 .. Len(body) |-> TxHash(TxData[body[i]])]
        /\ hashes = <<first>> \o others
  OBVIOUS
<1>7. hashes = BlockHashes(block)
  BY <1>2, <1>4, <1>6 DEF BlockHashes
<1>8. /\ IsList(hashes) /\ Len(hashes) = 1 + Len(body)
      /\ hashes[1 + k] = TxHash(TxData[t])
  <2>1. PICK S : S = {first} \cup {others[i] : i \in 1 .. Len(body)}
    OBVIOUS
  <2>2. others \in [1 .. Len(body) -> S]
    BY <1>6, <2>1
  <2>3. others \in Seq(S) /\ Len(others) = Len(body)
    BY <1>4, <2>2, ValuesInOrder
  <2>4. <<first>> \in Seq(S) /\ Len(<<first>>) = 1
    BY <2>1
  <2>5. /\ <<first>> \o others \in Seq(S)
        /\ Len(<<first>> \o others) = 1 + Len(others)
        /\ \A i \in 1 .. 1 + Len(others) :
              (<<first>> \o others)[i] = IF i <= 1 THEN <<first>>[i] ELSE others[i - 1]
    BY <2>3, <2>4, Joined
  <2>6. 1 + k \in 1 .. 1 + Len(others) /\ ~(1 + k <= 1) /\ (1 + k) - 1 = k
    BY <1>4, <2>3
  <2>7. hashes[1 + k] = others[k]
    BY <1>6, <2>5, <2>6
  <2>8. QED
    BY <1>5, <1>6, <2>3, <2>5, <2>7 DEF IsList
<1>9. PICK hash, branch : hash = TxHash(TxData[t]) /\ branch = getMerkleProof(hashes, hash)
  OBVIOUS
<1>10. prove(hash, MerkleRoot(hashes), branch.proof, branch.pos)
  <2>1. 1 + k \in DOMAIN hashes
    BY <1>4, <1>8, ListLength
  <2>2. QED
    BY <1>8, <1>9, <2>1, FoundProofIsRight
<1>11. Header(block).root = MerkleRoot(hashes)
  BY <1>7 DEF Header
<1>12. /\ MerkleProofAt(t, h).blockHeight = h
       /\ MerkleProofAt(t, h).merkle = branch.proof
       /\ MerkleProofAt(t, h).pos = branch.pos
  BY <1>2, <1>7, <1>9 DEF MerkleProofAt, BlockAt
<1>13. QED
  BY <1>1, <1>2, <1>9, <1>10, <1>11, <1>12

\* Blocks found on a chain are chained to it.
LEMMA BranchIsChained ==
  ASSUME NEW below \in Seq(Blocks), NEW bodies \in Seq(Seq(Txs)), NEW id \in Int, Chained(below)
  PROVE  /\ Chained(Branch(below, bodies, id))
         /\ Len(Branch(below, bodies, id)) = Len(below) + Len(bodies)
         /\ \A i \in 1 .. Len(below) : Branch(below, bodies, id)[i] = below[i]
<1>1. Len(below) \in Nat /\ Len(bodies) \in Nat /\ DOMAIN bodies = 1 .. Len(bodies)
  BY LenProperties
<1> DEFINE new(i) == [id |-> id + i - 1,
                      prev |-> IF i > 1 THEN id + i - 2
                               ELSE IF below = <<>> THEN -1 ELSE Last(below).id,
                      body |-> bodies[i],
                      difficulty |-> Difficulty[(Len(below) + i - 1) \div Length]]
<1>2. PICK added : added = [i \in 1 .. Len(bodies) |-> new(i)]
  OBVIOUS
<1>3. Branch(below, bodies, id) = below \o added
  BY <1>1, <1>2 DEF Branch
<1>4. PICK S, all : S = Blocks \cup {added[i] : i \in 1 .. Len(bodies)} /\ all = below \o added
  OBVIOUS
<1>5. added \in Seq(S) /\ Len(added) = Len(bodies)
  <2>1. added \in [1 .. Len(bodies) -> S]
    <3> HIDE DEF new
    <3>1. QED
      BY <1>2, <1>4
  <2>2. QED
    BY <1>1, <2>1, ValuesInOrder
<1>6. below \in Seq(S)
  <2>1. below \in [1 .. Len(below) -> Blocks]
    BY LenProperties
  <2>2. below \in [1 .. Len(below) -> S]
    BY <1>4, <2>1
  <2>3. QED
    BY <1>1, <2>2, ValuesInOrder
<1>7. /\ Len(all) = Len(below) + Len(added)
      /\ \A i \in 1 .. Len(below) + Len(added) :
            all[i] = IF i <= Len(below) THEN below[i] ELSE added[i - Len(below)]
  BY <1>4, <1>5, <1>6, Joined
<1>8. /\ \A i \in 1 .. Len(bodies) : added[i].id = id + i - 1
      /\ \A i \in 2 .. Len(bodies) : added[i].prev = id + i - 2
      /\ below # <<>> /\ 1 <= Len(bodies) => added[1].prev = Last(below).id
  BY <1>1, <1>2
<1> HIDE DEF new
<1>9. ASSUME NEW i \in 2 .. Len(all)
      PROVE  all[i].prev = all[i - 1].id
  <2>1. i \in 1 .. Len(below) + Len(added) /\ i - 1 \in 1 .. Len(below) + Len(added)
    BY <1>1, <1>5, <1>7
  <2>2. CASE i <= Len(below)
    <3>1. all[i] = below[i] /\ all[i - 1] = below[i - 1] /\ i \in 2 .. Len(below)
      BY <1>1, <1>7, <2>1, <2>2
    <3>2. QED
      BY <3>1 DEF Chained
  <2>3. CASE i = Len(below) + 1
    <3>1. all[i] = added[1] /\ all[i - 1] = below[Len(below)]
      BY <1>1, <1>7, <2>1, <2>3
    <3>2. Last(below) = below[Len(below)] /\ below # <<>> /\ 1 <= Len(bodies)
      BY <1>1, <1>5, <2>1, <2>3 DEF Last
    <3>3. QED
      BY <1>8, <3>1, <3>2
  <2>4. CASE i > Len(below) + 1
    <3>1. PICK j : j = i - Len(below)
      OBVIOUS
    <3>2. j \in 2 .. Len(bodies) /\ j - 1 \in 1 .. Len(bodies) /\ id + (j - 1) - 1 = id + j - 2
      BY <1>1, <1>5, <2>1, <2>4, <3>1
    <3>3. all[i] = added[j] /\ all[i - 1] = added[j - 1]
      BY <1>1, <1>5, <1>7, <2>1, <2>4, <3>1
    <3>4. QED
      BY <1>8, <3>2, <3>3
  <2>5. QED
    BY <1>1, <2>1, <2>2, <2>3, <2>4
<1>10. QED
  <2>1. Chained(all)
    BY <1>9 DEF Chained
  <2>2. \A i \in 1 .. Len(below) : all[i] = below[i]
    BY <1>1, <1>5, <1>7
  <2>3. QED
    BY <1>3, <1>4, <1>5, <1>7, <2>1, <2>2

-----------------------------------------------------------------------------
(* A proof that is being collected *)

(* What a call that proves a transaction has of it: its information, and   *)
(* the heights it asks for.                                                *)
InfoIsRight(c) ==
    Hash(<<c.info.version>> \o c.info.inputVector \o c.info.outputVector \o <<c.info.locktime>>)
        = TxHash(TxData[c.aim.tx])

Aimed(c) ==
    /\ c.aim.factor \in Nat \ {0}
    /\ InfoIsRight(c)

Looking(c) ==
    /\ Aimed(c)
    /\ c.merkle.blockHeight \in Nat
    /\ c.top = c.merkle.blockHeight + c.aim.factor - 1

(* As long as the call is not disturbed, what it has heard is true of the  *)
(* chain: the merkle proof, and each header that has arrived.              *)
ProofStands(c, blocks) ==
    /\ c.merkle.blockHeight + 1 \in 1 .. Len(blocks)
    /\ prove(TxHash(TxData[c.aim.tx]), Header(blocks[c.merkle.blockHeight + 1]).root,
             c.merkle.merkle, c.merkle.pos)

HeaderStands(c, i, blocks, header) ==
    /\ c.merkle.blockHeight + i \in 1 .. Len(blocks)
    /\ header = Header(blocks[c.merkle.blockHeight + i])

Hears(c, blocks) ==
    /\ Looking(c)
    /\ c.got = <<>> /\ c.later = <<>>
    /\ c.batch = range(c.aim.factor, c.merkle.blockHeight)
    /\ IsList(c.heard) /\ Len(c.heard) = c.aim.factor
    /\ \A i \in c.have : i \in 1 .. c.aim.factor => c.heard[i] # None
    /\ ~c.disturbed =>
          /\ ProofStands(c, blocks)
          /\ \A i \in 1 .. c.aim.factor : c.heard[i] # None => HeaderStands(c, i, blocks, c.heard[i])

HasAll(c, blocks) ==
    /\ Looking(c)
    /\ IsList(c.got) /\ Len(c.got) = c.aim.factor
    /\ ~c.disturbed =>
          /\ ProofStands(c, blocks)
          /\ \A i \in 1 .. c.aim.factor : HeaderStands(c, i, blocks, c.got[i])

ProofCall(c, blocks) ==
    /\ c.step \in {"start", "merkle", "headers", "fetched", "done"}
    /\ c.step # "done" => c.result # "ok"
    /\ c.step \in {"start", "merkle"} => c.got = <<>>
    /\ c.step = "merkle" => Aimed(c)
    /\ c.step = "headers" => Hears(c, blocks)
    /\ c.step = "fetched" \/ c.result = "ok" => HasAll(c, blocks)

ProofInv ==
    /\ Chained(chain)
    /\ \A p \in Callers : call[p].job = "prove" => ProofCall(call[p], chain)

(* The same call, disturbed or not.                                        *)
SameCall(c, d) ==
    /\ d.step = c.step /\ d.aim = c.aim /\ d.info = c.info /\ d.merkle = c.merkle
    /\ d.batch = c.batch /\ d.later = c.later /\ d.heard = c.heard /\ d.have = c.have
    /\ d.got = c.got /\ d.top = c.top /\ d.result = c.result

\* Marking a call as disturbed changes nothing else of it.
LEMMA DisturbedIsSame ==
  ASSUME NEW c, DOMAIN c = CallFields, NEW b, NEW d, d = [c EXCEPT !.disturbed = b]
  PROVE  SameCall(c, d) /\ d.job = c.job /\ d.disturbed = b
BY DEF SameCall, CallFields

\* What a call has heard stays true while the blocks it looks at do.
LEMMA BlocksKept ==
  ASSUME NEW c, NEW d, SameCall(c, d), NEW blocks, NEW new, ProofCall(c, blocks),
         ~d.disturbed /\ Looking(c) =>
            /\ ~c.disturbed
            /\ \A i \in 1 .. Len(blocks) :
                  i <= c.top + 1 => i \in 1 .. Len(new) /\ new[i] = blocks[i]
  PROVE  ProofCall(d, new)
<1>1. /\ d.step = c.step /\ d.aim = c.aim /\ d.info = c.info /\ d.merkle = c.merkle
      /\ d.batch = c.batch /\ d.later = c.later /\ d.heard = c.heard /\ d.have = c.have
      /\ d.got = c.got /\ d.top = c.top /\ d.result = c.result
  BY DEF SameCall
<1>2. (Aimed(c) => Aimed(d)) /\ (Looking(c) => Looking(d))
  BY <1>1 DEF Aimed, Looking, InfoIsRight
<1>3. ASSUME Looking(c), ~d.disturbed
      PROVE  /\ ProofStands(c, blocks) => ProofStands(d, new)
             /\ \A i \in 1 .. c.aim.factor : \A header :
                   HeaderStands(c, i, blocks, header) => HeaderStands(d, i, new, header)
  <2>1. \A i \in 1 .. c.aim.factor :
           c.merkle.blockHeight + i \in 1 .. Len(blocks) =>
              /\ c.merkle.blockHeight + i \in 1 .. Len(new)
              /\ new[c.merkle.blockHeight + i] = blocks[c.merkle.blockHeight + i]
    <3>1. PICK h, n : h = c.merkle.blockHeight /\ n = c.aim.factor
      OBVIOUS
    <3>2. h \in Nat /\ n \in Nat /\ c.top = h + n - 1
      BY <1>3, <3>1 DEF Looking, Aimed
    <3>3. \A i \in 1 .. n : h + i <= c.top + 1
      BY <3>2
    <3>4. QED
      BY <1>3, <3>1, <3>3
  <2>2. 1 \in 1 .. c.aim.factor
    BY <1>3 DEF Looking, Aimed
  <2>3. QED
    BY <1>1, <2>1, <2>2 DEF ProofStands, HeaderStands
<1>4. Hears(c, blocks) => Hears(d, new)
  BY <1>1, <1>2, <1>3 DEF Hears
<1>5. HasAll(c, blocks) => HasAll(d, new)
  <2> SUFFICES ASSUME HasAll(c, blocks) PROVE HasAll(d, new)
    OBVIOUS
  <2>1. Looking(c) /\ Looking(d) /\ IsList(d.got) /\ Len(d.got) = d.aim.factor
    BY <1>1, <1>2 DEF HasAll
  <2>2. ASSUME ~d.disturbed
        PROVE  /\ ProofStands(d, new)
               /\ \A i \in 1 .. d.aim.factor : HeaderStands(d, i, new, d.got[i])
    BY <1>1, <1>3, <2>1, <2>2 DEF HasAll
  <2>3. QED
    BY <1>1, <2>1, <2>2 DEF HasAll
<1>6. QED
  BY <1>1, <1>2, <1>4, <1>5 DEF ProofCall

\* A step that leaves the chain alone.
LEMMA ProofsMove ==
  ASSUME ProofInv, chain' = chain,
         \A q \in Callers : call'[q].job = "prove" => ProofCall(call'[q], chain)
  PROVE  ProofInv'
BY DEF ProofInv, Chained

\* A step of one call.
LEMMA OneProofMoves ==
  ASSUME SdkInv, ProofInv, NEW p \in Callers, NEW c, Set(p, c), chain' = chain,
         c.job = "prove" => ProofCall(c, chain)
  PROVE  ProofInv'
<1>1. call' = [call EXCEPT ![p] = c] /\ DOMAIN call = Callers
  BY DEF Set, SdkInv
<1>2. ASSUME NEW q \in Callers, call'[q].job = "prove"
      PROVE  ProofCall(call'[q], chain)
  BY <1>1, <1>2 DEF ProofInv
<1>3. QED
  BY <1>2, ProofsMove

\* A step that changes the relay: one call has ended, the others are disturbed.
LEMMA RelayDisturbs ==
  ASSUME SdkInv, ProofInv, chain' = chain,
         \A q \in Callers : \/ call'[q] = [call[q] EXCEPT !.disturbed = TRUE]
                            \/ call'[q].job # "prove"
  PROVE  ProofInv'
<1>1. ASSUME NEW q \in Callers, call'[q].job = "prove"
      PROVE  ProofCall(call'[q], chain)
  <2>1. DOMAIN call[q] = CallFields
    BY DEF SdkInv, CallOK
  <2>2. PICK d : d = [call[q] EXCEPT !.disturbed = TRUE]
    OBVIOUS
  <2>3. SameCall(call[q], d) /\ d.job = call[q].job /\ d.disturbed = TRUE
    BY <2>1, <2>2, DisturbedIsSame
  <2>4. call'[q] = d /\ ProofCall(call[q], chain)
    BY <1>1, <2>2, <2>3 DEF ProofInv
  <2>5. ProofCall(d, chain)
    BY <2>3, <2>4, BlocksKept
  <2>6. QED
    BY <2>4, <2>5
<1>2. QED
  BY <1>1, ProofsMove

\* A block on top disturbs nobody.
LEMMA FindBlockProofs ==
  ASSUME SdkInv, ProofInv, FindBlock
  PROVE  ProofInv'
<1>1. PICK bodies, new : /\ bodies \in Seq(Seq(Txs))
                        /\ new = Branch(chain, bodies, found) /\ chain' = new
  <2>1. PICK body, bodies : /\ body \in Bodies /\ bodies = <<body>>
                            /\ chain' = Branch(chain, bodies, found)
    BY DEF FindBlock
  <2>2. bodies \in Seq(Seq(Txs))
    BY <2>1, BitcoinAssumption
  <2>3. QED
    BY <2>1, <2>2
<1>2. chain \in Seq(Blocks) /\ found \in Int /\ Chained(chain)
  BY DEF SdkInv, ChainIsWellFormed, ProofInv
<1>3. /\ Chained(new) /\ Len(new) = Len(chain) + Len(bodies)
      /\ \A i \in 1 .. Len(chain) : new[i] = chain[i]
  BY <1>1, <1>2, BranchIsChained
<1>4. \A i \in 1 .. Len(chain) : i \in 1 .. Len(new) /\ new[i] = chain[i]
  <2>1. Len(chain) \in Nat /\ Len(bodies) \in Nat
    BY <1>1, <1>2, LenProperties
  <2>2. QED
    BY <1>3, <2>1
<1>5. call' = call
  BY DEF FindBlock
<1>6. ASSUME NEW q \in Callers, call[q].job = "prove"
      PROVE  ProofCall(call[q], new)
  <2>1. ProofCall(call[q], chain)
    BY <1>6 DEF ProofInv
  <2>2. SameCall(call[q], call[q])
    BY DEF SameCall
  <2>3. QED
    BY <1>4, <2>1, <2>2, BlocksKept
<1>7. QED
  <2>1. Chained(chain')
    BY <1>1, <1>3
  <2>2. \A q \in Callers : call'[q].job = "prove" => ProofCall(call'[q], chain')
    BY <1>1, <1>5, <1>6
  <2>3. QED
    BY <2>1, <2>2 DEF ProofInv, Chained

\* A reorganisation disturbs whoever looks at a block that it drops.
LEMMA ReorganiseProofs ==
  ASSUME SdkInv, ProofInv, Reorganise
  PROVE  ProofInv'
<1>1. PICK depth, body, kept, bodies, new :
        /\ depth \in 1 .. MaxDepth /\ body \in Bodies
        /\ kept = SubSeq(chain, 1, Len(chain) - depth)
        /\ bodies = <<body>> \o [i \in 1 .. depth |-> <<>>]
        /\ new = Branch(kept, bodies, found) /\ chain' = new
        /\ call' = [p \in Callers |-> Disturbed(call[p], kept)]
  BY DEF Reorganise
<1>2. depth \in Nat /\ Len(chain) \in Nat /\ chain \in Seq(Blocks) /\ found \in Int /\ Chained(chain)
  BY <1>1, BitcoinAssumption, LenProperties DEF SdkInv, ChainIsWellFormed, ProofInv
<1>3. /\ kept \in Seq(Blocks) /\ Chained(kept) /\ Len(kept) <= Len(chain)
      /\ \A i \in 1 .. Len(kept) : kept[i] = chain[i]
  <2>1. CASE depth < Len(chain)
    <3>1. Len(chain) - depth \in 1 .. Len(chain)
      BY <1>2, <2>1
    <3>2. /\ kept \in Seq(Blocks) /\ Len(kept) = Len(chain) - depth
          /\ \A i \in 1 .. Len(chain) - depth : kept[i] = chain[i]
      BY <1>1, <1>2, <3>1, SubSeqProperties
    <3>3. Chained(kept)
      <4>1. ASSUME NEW i \in 2 .. Len(kept)
            PROVE  kept[i].prev = kept[i - 1].id
        <5>1. /\ i \in 1 .. Len(chain) - depth /\ i - 1 \in 1 .. Len(chain) - depth
              /\ i \in 2 .. Len(chain)
          BY <1>2, <3>1, <3>2
        <5>2. kept[i] = chain[i] /\ kept[i - 1] = chain[i - 1]
          BY <3>2, <5>1
        <5>3. QED
          BY <1>2, <5>1, <5>2 DEF Chained
      <4>2. QED
        BY <4>1 DEF Chained
    <3>4. QED
      BY <1>2, <3>1, <3>2, <3>3
  <2>2. CASE ~(depth < Len(chain))
    <3>1. kept = <<>>
      BY <1>1, <1>2, <2>2, SubSeqProperties
    <3>2. Len(kept) = 0 /\ kept \in Seq(Blocks)
      BY <3>1, EmptySeq
    <3>3. QED
      BY <1>2, <3>2 DEF Chained
  <2>3. QED
    BY <2>1, <2>2
<1>4. bodies \in Seq(Seq(Txs))
  <2>1. <<body>> \in Seq(Seq(Txs)) /\ <<>> \in Seq(Txs)
    BY <1>1, BitcoinAssumption
  <2>2. [i \in 1 .. depth |-> <<>>] \in [1 .. depth -> Seq(Txs)]
    BY <2>1
  <2>3. [i \in 1 .. depth |-> <<>>] \in Seq(Seq(Txs))
    BY <1>2, <2>2, ValuesInOrder
  <2>4. QED
    BY <1>1, <2>1, <2>3, Joined
<1>5. /\ Chained(new) /\ Len(new) = Len(kept) + Len(bodies)
      /\ \A i \in 1 .. Len(kept) : new[i] = kept[i]
  BY <1>1, <1>2, <1>3, <1>4, BranchIsChained
<1>6. Len(kept) \in Nat /\ Len(bodies) \in Nat
  BY <1>3, <1>4, LenProperties
<1>7. \A i \in 1 .. Len(kept) : i \in 1 .. Len(new) /\ new[i] = chain[i]
  BY <1>3, <1>5, <1>6
<1>8. ASSUME NEW q \in Callers, call'[q].job = "prove"
      PROVE  ProofCall(call'[q], new)
  <2>1. PICK c : c = call[q] /\ DOMAIN c = CallFields
    BY DEF SdkInv, CallOK
  <2>2. PICK b : b = (c.disturbed \/ c.top >= Len(kept))
    OBVIOUS
  <2>3. PICK d : d = [c EXCEPT !.disturbed = b]
    OBVIOUS
  <2>4. SameCall(c, d) /\ d.job = c.job /\ d.disturbed = b
    BY <2>1, <2>3, DisturbedIsSame
  <2>5. call'[q] = d
    <3>1. call'[q] = Disturbed(c, kept)
      BY <1>1, <2>1
    <3>2. Disturbed(c, kept) = d
      BY <2>2, <2>3, Zenon DEF Disturbed
    <3>3. QED
      BY <3>1, <3>2
  <2>6. ProofCall(c, chain)
    BY <1>8, <2>1, <2>4, <2>5 DEF ProofInv
  <2>7. ASSUME ~b, Looking(c)
        PROVE  /\ ~c.disturbed
               /\ \A i \in 1 .. Len(chain) :
                     i <= c.top + 1 => i \in 1 .. Len(new) /\ new[i] = chain[i]
    <3>1. ~c.disturbed /\ ~(c.top >= Len(kept))
      BY <2>2, <2>7, Zenon
    <3>2. c.top \in Int
      BY <2>7 DEF Looking, Aimed
    <3>3. \A i \in 1 .. Len(chain) : i <= c.top + 1 => i \in 1 .. Len(kept)
      BY <1>2, <1>6, <3>1, <3>2
    <3>4. QED
      BY <1>7, <3>1, <3>3
  <2>8. ProofCall(d, new)
    BY <2>4, <2>6, <2>7, BlocksKept
  <2>9. QED
    BY <2>5, <2>8
<1>9. Chained(chain') /\ \A q \in Callers : call'[q].job = "prove" => ProofCall(call'[q], chain')
  BY <1>1, <1>5, <1>8
<1>10. QED
  BY <1>9 DEF ProofInv, Chained

\* A call that ends without a proof promises nothing.
LEMMA EndedProof ==
  ASSUME NEW c, DOMAIN c = CallFields, NEW result, result # "ok", NEW blocks
  PROVE  ProofCall(Ended(c, result), blocks) /\ Ended(c, result).job = c.job
<1>1. PICK d : d = Ended(c, result)
  OBVIOUS
<1>2. d.step = "done" /\ d.result = result /\ d.job = c.job
  BY <1>1 DEF Ended, CallFields
<1>3. ProofCall(d, blocks)
  BY <1>2 DEF ProofCall
<1>4. QED
  BY <1>1, <1>2, <1>3

\* The heights of a call's one batch.
LEMMA BatchOf ==
  ASSUME NEW c, NEW blocks, Hears(c, blocks), NEW i \in DOMAIN c.batch
  PROVE  /\ DOMAIN c.batch = 1 .. c.aim.factor
         /\ c.batch[i] + 1 = c.merkle.blockHeight + i
<1>1. PICK h, n : h = c.merkle.blockHeight /\ n = c.aim.factor
  OBVIOUS
<1>2. h \in Nat /\ n \in Nat /\ c.batch = range(n, h)
  BY <1>1 DEF Hears, Looking, Aimed
<1>3. DOMAIN c.batch = 1 .. n /\ i \in 1 .. n /\ c.batch[i] = h + i - 1
  BY <1>2 DEF range
<1>4. (h + i - 1) + 1 = h + i
  BY <1>2, <1>3
<1>5. QED
  BY <1>1, <1>3, <1>4

\* The hash that arrives is that of the block now at its height.
LEMMA HashStands ==
  ASSUME NEW c, DOMAIN c = CallFields, ProofCall(c, chain), c.step = "headers",
         chain \in Seq(Blocks), NEW i \in DOMAIN c.batch, c.heard[i] = None, Mined(c.batch[i])
  PROVE  ProofCall([c EXCEPT !.heard[i] = Header(BlockAt(c.batch[i]))], chain)
<1>1. Hears(c, chain) /\ c.result # "ok"
  BY DEF ProofCall
<1>2. PICK header, heard, d :
        /\ header = Header(BlockAt(c.batch[i]))
        /\ heard = [c.heard EXCEPT ![i] = header]
        /\ d = [c EXCEPT !.heard = heard]
  OBVIOUS
<1>3. [c EXCEPT !.heard[i] = Header(BlockAt(c.batch[i]))] = d
  BY <1>2
<1>4. /\ d.step = c.step /\ d.aim = c.aim /\ d.info = c.info /\ d.merkle = c.merkle
      /\ d.batch = c.batch /\ d.later = c.later /\ d.heard = heard /\ d.have = c.have
      /\ d.got = c.got /\ d.top = c.top /\ d.result = c.result /\ d.disturbed = c.disturbed
  BY <1>2 DEF CallFields
<1>5. i \in 1 .. c.aim.factor /\ c.batch[i] + 1 = c.merkle.blockHeight + i
  BY <1>1, BatchOf
<1>6. HeaderStands(c, i, chain, header)
  <2>1. c.batch[i] + 1 \in 1 .. Len(chain)
    <3>1. Len(chain) \in Nat /\ c.batch[i] \in 0 .. Len(chain) - 1
      BY LenProperties DEF Mined, Tip
    <3>2. QED
      BY <3>1
  <2>2. QED
    BY <1>2, <1>5, <2>1 DEF HeaderStands, BlockAt
<1>7. PICK n : n = c.aim.factor /\ n \in Nat
  BY <1>1 DEF Hears, Looking, Aimed
<1>8. IsList(c.heard) /\ DOMAIN c.heard = 1 .. n
  BY <1>1, <1>7, ListLength DEF Hears
<1>9. IsList(heard) /\ Len(heard) = n
  <2>1. DOMAIN heard = 1 .. n /\ heard = [j \in 1 .. n |-> heard[j]]
    BY <1>2, <1>8
  <2>2. QED
    BY <1>7, <2>1, ListOfValues
<1>10. heard[i] = header /\ \A j \in 1 .. n : j # i => heard[j] = c.heard[j]
  BY <1>2, <1>5, <1>7, <1>8
<1>11. Looking(d)
  BY <1>1, <1>4 DEF Hears, Looking, Aimed, InfoIsRight
<1>12. \A j \in d.have : j \in 1 .. n => heard[j] # None
  BY <1>1, <1>4, <1>7, <1>10 DEF Hears
<1>13. ASSUME ~d.disturbed
       PROVE  /\ ProofStands(d, chain)
              /\ \A j \in 1 .. n : heard[j] # None => HeaderStands(d, j, chain, heard[j])
  BY <1>1, <1>4, <1>6, <1>7, <1>10, <1>13 DEF Hears, ProofStands, HeaderStands
<1>14. Hears(d, chain)
  BY <1>1, <1>4, <1>7, <1>9, <1>11, <1>12, <1>13 DEF Hears
<1>15. ProofCall(d, chain)
  BY <1>1, <1>4, <1>14 DEF ProofCall
<1>16. QED
  BY <1>3, <1>15

\* The last header completes the proof.
LEMMA HeaderCompletes ==
  ASSUME NEW c, DOMAIN c = CallFields, NEW blocks, ProofCall(c, blocks), c.step = "headers",
         NEW i \in DOMAIN c.batch, c.heard[i] # None,
         NEW d, d = [c EXCEPT !.have = @ \cup {i}]
  PROVE  /\ ProofCall(d, blocks)
         /\ d.have = DOMAIN c.batch => ProofCall(Fetched(d), blocks)
<1>1. Hears(c, blocks) /\ c.result # "ok"
  BY DEF ProofCall
<1>2. /\ d.step = c.step /\ d.aim = c.aim /\ d.info = c.info /\ d.merkle = c.merkle
      /\ d.batch = c.batch /\ d.later = c.later /\ d.heard = c.heard
      /\ d.have = c.have \cup {i} /\ DOMAIN d = CallFields
      /\ d.got = c.got /\ d.top = c.top /\ d.result = c.result /\ d.disturbed = c.disturbed
  BY DEF CallFields
<1>3. DOMAIN c.batch = 1 .. c.aim.factor
  BY <1>1, BatchOf
<1>4. Looking(d)
  BY <1>1, <1>2 DEF Hears, Looking, Aimed, InfoIsRight
<1>5. ~d.disturbed => /\ ProofStands(d, blocks)
                      /\ \A j \in 1 .. d.aim.factor :
                            d.heard[j] # None => HeaderStands(d, j, blocks, d.heard[j])
  BY <1>1, <1>2 DEF Hears, ProofStands, HeaderStands
<1>6. \A j \in d.have : j \in 1 .. d.aim.factor => d.heard[j] # None
  BY <1>1, <1>2 DEF Hears
<1>7. Hears(d, blocks)
  BY <1>1, <1>2, <1>4, <1>5, <1>6 DEF Hears
<1>8. ProofCall(d, blocks)
  BY <1>1, <1>2, <1>7 DEF ProofCall
<1>9. ASSUME d.have = DOMAIN c.batch
      PROVE  ProofCall(Fetched(d), blocks)
  <2>1. <<>> \o c.heard = c.heard
    <3>1. IsList(c.heard)
      BY <1>1 DEF Hears
    <3>2. QED
      BY <3>1, ConcatEmptySeq DEF IsList
  <2>2. PICK joined : joined = [d EXCEPT !.got = @ \o d.heard]
    OBVIOUS
  <2>3. /\ joined.got = c.heard /\ joined.later = <<>> /\ DOMAIN joined = CallFields
        /\ joined.aim = d.aim /\ joined.info = d.info /\ joined.merkle = d.merkle
        /\ joined.top = d.top /\ joined.result = d.result /\ joined.disturbed = d.disturbed
    BY <1>1, <1>2, <2>1, <2>2 DEF CallFields, Hears
  <2>4. PICK e : e = [joined EXCEPT !.step = "fetched"]
    OBVIOUS
  <2>5. Fetched(d) = e
    BY <1>2, <2>2, <2>3, <2>4, <1>1 DEF Fetched, Hears
  <2>6. /\ e.step = "fetched" /\ e.got = d.heard
        /\ e.aim = d.aim /\ e.info = d.info /\ e.merkle = d.merkle
        /\ e.top = d.top /\ e.result = d.result /\ e.disturbed = d.disturbed
    BY <1>2, <2>3, <2>4 DEF CallFields
  <2>7. Looking(e)
    BY <1>4, <2>6 DEF Looking, Aimed, InfoIsRight
  <2>8. \A j \in 1 .. d.aim.factor : d.heard[j] # None
    BY <1>2, <1>3, <1>6, <1>9
  <2>9. ~e.disturbed => /\ ProofStands(e, blocks)
                        /\ \A j \in 1 .. e.aim.factor : HeaderStands(e, j, blocks, e.got[j])
    BY <1>5, <2>6, <2>8 DEF ProofStands, HeaderStands
  <2>10. HasAll(e, blocks)
    BY <1>7, <2>6, <2>7, <2>9 DEF HasAll, Hears
  <2>11. ProofCall(e, blocks)
    BY <1>1, <1>2, <2>6, <2>10 DEF ProofCall
  <2>12. QED
    BY <2>5, <2>11
<1>10. QED
  BY <1>8, <1>9

\* A hash arrives, or the explorer answers with an error.
LEMMA GetBlockHashProofs ==
  ASSUME SdkInv, ProofInv, NEW p \in Callers, NEW i \in DOMAIN call[p].batch, getBlockHash(p, i)
  PROVE  ProofInv'
<1>1. PICK c : c = call[p] /\ DOMAIN c = CallFields
  BY DEF SdkInv, CallOK
<1>2. /\ c.step = "headers" /\ c.heard[i] = None /\ chain' = chain /\ i \in DOMAIN c.batch
      /\ Set(p, IF Mined(c.batch[i])
                THEN [c EXCEPT !.heard[i] = Header(BlockAt(c.batch[i]))]
                ELSE Ended(c, "failed"))
  BY <1>1 DEF getBlockHash, UnchangedWorld
<1>3. CASE ~Mined(c.batch[i])
  <2>1. ProofCall(Ended(c, "failed"), chain)
    BY <1>1, EndedProof
  <2>2. QED
    BY <1>2, <1>3, <2>1, OneProofMoves
<1>4. CASE Mined(c.batch[i])
  <2>1. PICK d : d = [c EXCEPT !.heard[i] = Header(BlockAt(c.batch[i]))]
    OBVIOUS
  <2>2. d.job = c.job
    BY <1>1, <2>1 DEF CallFields
  <2>3. ASSUME d.job = "prove"
        PROVE  ProofCall(d, chain)
    <3>1. ProofCall(c, chain) /\ chain \in Seq(Blocks)
      BY <1>1, <2>2, <2>3 DEF ProofInv, SdkInv, ChainIsWellFormed
    <3>2. QED
      BY <1>1, <1>2, <1>4, <2>1, <3>1, HashStands
  <2>4. QED
    BY <1>2, <1>4, <2>1, <2>3, OneProofMoves
<1>5. QED
  BY <1>3, <1>4

\* A header arrives, or the explorer answers with an error.
LEMMA GetBlockHeaderProofs ==
  ASSUME SdkInv, ProofInv, NEW p \in Callers, NEW i \in DOMAIN call[p].batch, getBlockHeader(p, i)
  PROVE  ProofInv'
<1>1. PICK c, d : c = call[p] /\ DOMAIN c = CallFields /\ d = [c EXCEPT !.have = @ \cup {i}]
  BY DEF SdkInv, CallOK
<1>2. /\ c.step = "headers" /\ c.heard[i] # None /\ chain' = chain /\ i \in DOMAIN c.batch
      /\ \/ Set(p, IF d.have = DOMAIN c.batch THEN Fetched(d) ELSE d)
         \/ Set(p, Ended(c, "failed"))
  BY <1>1 DEF getBlockHeader, UnchangedWorld
<1>3. CASE Set(p, Ended(c, "failed"))
  <2>1. ProofCall(Ended(c, "failed"), chain)
    BY <1>1, EndedProof
  <2>2. QED
    BY <1>2, <1>3, <2>1, OneProofMoves
<1>4. CASE Set(p, IF d.have = DOMAIN c.batch THEN Fetched(d) ELSE d)
  <2>1. DOMAIN d = CallFields /\ d.job = c.job
    BY <1>1 DEF CallFields
  <2>2. Fetched(d).job = c.job
    <3>1. PICK joined : joined = [d EXCEPT !.got = @ \o d.heard]
      OBVIOUS
    <3>2. DOMAIN joined = CallFields /\ joined.job = c.job
      BY <2>1, <3>1 DEF CallFields
    <3>3. Fetching(joined, d.later).job = c.job
      BY <3>2, FetchingFields
    <3>4. [joined EXCEPT !.step = "fetched"].job = c.job
      BY <3>2 DEF CallFields
    <3>5. QED
      BY <3>1, <3>3, <3>4 DEF Fetched
  <2>3. ASSUME c.job = "prove"
        PROVE  ProofCall(d, chain) /\ (d.have = DOMAIN c.batch => ProofCall(Fetched(d), chain))
    <3>1. ProofCall(c, chain)
      BY <1>1, <2>3 DEF ProofInv
    <3>2. QED
      BY <1>1, <1>2, <3>1, HeaderCompletes
  <2>4. CASE d.have = DOMAIN c.batch
    BY <1>2, <1>4, <2>2, <2>3, <2>4, OneProofMoves
  <2>5. CASE d.have # DOMAIN c.batch
    BY <1>2, <1>4, <2>1, <2>3, <2>5, OneProofMoves
  <2>6. QED
    BY <2>4, <2>5
<1>5. QED
  BY <1>2, <1>3, <1>4

\* The information is what identifies the transaction.
LEMMA GetTxInfoProofs ==
  ASSUME SdkInv, ProofInv, NEW p \in Callers, getBitcoinTxInfo(p)
  PROVE  ProofInv'
<1>1. PICK c : c = call[p] /\ DOMAIN c = CallFields
  BY DEF SdkInv, CallOK
<1>2. c.job = "prove" /\ c.step = "start" /\ chain' = chain
  BY <1>1 DEF getBitcoinTxInfo, Doing, UnchangedWorld
<1>3. PICK t, n, tx, aim, info, e, f :
        /\ n \in Factors /\ tx = TxData[t]
        /\ aim = [tx |-> t, factor |-> n]
        /\ info = [version |-> tx.version, locktime |-> tx.locktime,
                   inputVector |-> encodeRawInput(tx), outputVector |-> encodeRawOutput(tx),
                   witnessVector |-> encodeRawWitness(tx)]
        /\ e = [c EXCEPT !.aim = aim]
        /\ f = [e EXCEPT !.step = "merkle", !.info = info]
        /\ Set(p, IF tx.locktime > Int32Max THEN Ended(e, "failed") ELSE f)
  BY <1>1 DEF getBitcoinTxInfo
<1>4. ProofCall(c, chain)
  BY <1>1, <1>2 DEF ProofInv
<1>5. DOMAIN e = CallFields
  BY <1>1, <1>3 DEF CallFields
<1>6. /\ f.step = "merkle" /\ f.aim = aim /\ f.info = info
      /\ f.got = c.got /\ f.result = c.result
  BY <1>1, <1>3 DEF CallFields
<1>7. Aimed(f)
  <2>1. aim.factor = n /\ aim.tx = t /\ n \in Nat \ {0}
    BY <1>3, BitcoinAssumption
  <2>2. InfoIsRight(f)
    BY <1>3, <1>6, <2>1 DEF InfoIsRight, TxHash
  <2>3. QED
    BY <1>6, <2>1, <2>2 DEF Aimed
<1>8. ProofCall(f, chain)
  BY <1>2, <1>4, <1>6, <1>7 DEF ProofCall
<1>9. ProofCall(Ended(e, "failed"), chain)
  BY <1>5, EndedProof
<1>10. QED
  BY <1>2, <1>3, <1>8, <1>9, OneProofMoves

\* The merkle proof is one for the block at the height that is reported, and the
\* headers are asked for from that block on.
LEMMA GetTxProofProofs ==
  ASSUME SdkInv, ProofInv, NEW p \in Callers, getBitcoinTxProof(p)
  PROVE  ProofInv'
<1>1. PICK c : c = call[p] /\ DOMAIN c = CallFields
  BY DEF SdkInv, CallOK
<1>2. c.job = "prove" /\ c.step = "merkle" /\ chain' = chain /\ ProofCall(c, chain)
  BY <1>1 DEF getBitcoinTxProof, Doing, UnchangedWorld, ProofInv
<1>3. CASE Set(p, Ended(c, "failed"))
  <2>1. ProofCall(Ended(c, "failed"), chain)
    BY <1>1, EndedProof
  <2>2. QED
    BY <1>2, <1>3, <2>1, OneProofMoves
<1>4. CASE ~Set(p, Ended(c, "failed"))
  <2>a. PICK h \in HeightsOf(c.aim.tx) :
          Set(p, getBitcoinHeaders([c EXCEPT !.merkle = MerkleProofAt(c.aim.tx, h),
                                             !.top = h + c.aim.factor - 1],
                                   h, c.aim.factor))
    BY <1>1, <1>4 DEF getBitcoinTxProof
  <2>b. PICK n, t : n = c.aim.factor /\ t = c.aim.tx
    OBVIOUS
  <2>c. PICK merkle, top, batch : merkle = MerkleProofAt(t, h) /\ top = h + n - 1 /\ batch = range(n, h)
    OBVIOUS
  <2>d. PICK d : d = [c EXCEPT !.merkle = merkle, !.top = top]
    OBVIOUS
  <2>e. PICK e : e = Fetching(d, <<batch>>)
    OBVIOUS
  <2>1. Set(p, e)
    BY <2>a, <2>b, <2>c, <2>d, <2>e DEF getBitcoinHeaders
  <2>2. Aimed(c) /\ n \in Nat
    BY <1>2, <2>b DEF ProofCall, Aimed
  <2>3. /\ h \in Nat /\ h + 1 \in 1 .. Len(chain) /\ merkle.blockHeight = h
        /\ prove(TxHash(TxData[t]), Header(chain[h + 1]).root, merkle.merkle, merkle.pos)
    BY <2>b, <2>c, ProofOfBlock DEF SdkInv
  <2>4. /\ d.aim = c.aim /\ d.info = c.info /\ d.merkle = merkle /\ d.top = top
        /\ d.got = c.got /\ d.result = c.result /\ d.disturbed = c.disturbed
        /\ DOMAIN d = CallFields
    BY <1>1, <2>d DEF CallFields
  <2>5. /\ e.step = "headers" /\ e.batch = Head(<<batch>>) /\ e.later = Tail(<<batch>>)
        /\ e.heard = [i \in DOMAIN Head(<<batch>>) |-> None] /\ e.have = {}
        /\ e.aim = d.aim /\ e.info = d.info /\ e.merkle = d.merkle /\ e.top = d.top
        /\ e.got = d.got /\ e.result = d.result /\ e.disturbed = d.disturbed
    BY <2>4, <2>e DEF Fetching, CallFields
  <2>6. Head(<<batch>>) = batch /\ Tail(<<batch>>) = <<>>
    OBVIOUS
  <2>7. DOMAIN batch = 1 .. n
    BY <2>c DEF range
  <2>8. /\ IsList(e.heard) /\ Len(e.heard) = n
        /\ \A i \in 1 .. n : e.heard[i] = None
    <3>1. e.heard = [i \in 1 .. n |-> None]
      BY <2>5, <2>6, <2>7
    <3>2. DOMAIN e.heard = 1 .. n /\ e.heard = [i \in 1 .. n |-> e.heard[i]]
      BY <3>1
    <3>3. QED
      BY <2>2, <3>1, <3>2, ListOfValues
  <2>9. Looking(e)
    BY <2>b, <2>c, <2>2, <2>3, <2>4, <2>5 DEF Looking, Aimed, InfoIsRight
  <2>10. ProofStands(e, chain)
    BY <2>b, <2>c, <2>3, <2>4, <2>5 DEF ProofStands
  <2>11. e.got = <<>> /\ e.result # "ok"
    BY <1>2, <2>4, <2>5 DEF ProofCall
  <2>12. e.aim.factor = n /\ e.merkle.blockHeight = h /\ e.batch = range(n, h) /\ e.later = <<>>
    BY <2>b, <2>c, <2>3, <2>4, <2>5, <2>6
  <2>13. Hears(e, chain)
    BY <2>5, <2>8, <2>9, <2>10, <2>11, <2>12 DEF Hears
  <2>14. ProofCall(e, chain)
    BY <2>5, <2>11, <2>13 DEF ProofCall
  <2>15. QED
    BY <1>2, <2>1, <2>14, OneProofMoves
<1>5. QED
  BY <1>3, <1>4

\* What was collected is what is returned.
LEMMA ProofReturnedProofs ==
  ASSUME SdkInv, ProofInv, NEW p \in Callers, ProofReturned(p)
  PROVE  ProofInv'
<1>1. PICK c, d : c = call[p] /\ DOMAIN c = CallFields /\ d = Ended(c, "ok")
  BY DEF SdkInv, CallOK
<1>2. c.job = "prove" /\ c.step = "fetched" /\ chain' = chain /\ ProofCall(c, chain) /\ Set(p, d)
  BY <1>1 DEF ProofReturned, Doing, UnchangedWorld, ProofInv
<1>3. /\ d.step = "done" /\ d.aim = c.aim /\ d.info = c.info /\ d.merkle = c.merkle
      /\ d.got = c.got /\ d.top = c.top /\ d.disturbed = c.disturbed
  BY <1>1 DEF Ended, CallFields
<1>4. HasAll(d, chain)
  BY <1>2, <1>3 DEF ProofCall, HasAll, Looking, Aimed, InfoIsRight, ProofStands, HeaderStands
<1>5. ProofCall(d, chain)
  BY <1>3, <1>4 DEF ProofCall
<1>6. QED
  BY <1>2, <1>5, OneProofMoves

\* The scripts' steps are of other calls, or disturb.
LEMMA ScriptProofs ==
  ASSUME SdkInv, ProofInv, NEW p \in Callers,
         \/ StartGenesis(p) \/ SubmitGenesis(p)
         \/ StartRetarget(p) \/ ReadProofLength(p) \/ CheckHeaders(p) \/ SubmitRetarget(p)
  PROVE  ProofInv'
<1>1. PICK c : c = call[p] /\ DOMAIN c = CallFields
  BY DEF SdkInv, CallOK
<1>2. c.job # "prove"
  BY <1>1 DEF StartGenesis, SubmitGenesis, StartRetarget, ReadProofLength, CheckHeaders,
              SubmitRetarget, Doing
<1>3. \A e, result : DOMAIN e = CallFields => Ended(e, result).job = e.job
  BY DEF Ended, CallFields
<1>4. chain' = chain
  BY DEF StartGenesis, SubmitGenesis, StartRetarget, ReadProofLength, CheckHeaders,
         SubmitRetarget, UnchangedWorld
<1>5. ASSUME NEW d, d.job # "prove", Set(p, d)
      PROVE  ProofInv'
  BY <1>4, <1>5, OneProofMoves
<1>6. CASE StartGenesis(p)
  <2>1. PICK e, aim, top, batches, failed :
          /\ e = [c EXCEPT !.aim = aim, !.top = top]
          /\ Set(p, IF failed THEN Ended(e, "failed") ELSE Fetching(e, batches))
    BY <1>1, <1>6 DEF StartGenesis
  <2>2. DOMAIN e = CallFields /\ e.job = c.job
    BY <1>1, <2>1 DEF CallFields
  <2>3. QED
    <3>1. Ended(e, "failed").job # "prove" /\ Fetching(e, batches).job # "prove"
      BY <1>2, <1>3, <2>2, FetchingFields
    <3>2. Set(p, Ended(e, "failed")) \/ Set(p, Fetching(e, batches))
      BY <2>1
    <3>3. QED
      BY <1>5, <3>1, <3>2
<1>7. ASSUME NEW result, call' = [q \in Callers |-> IF q = p THEN Ended(c, result)
                                                 ELSE [call[q] EXCEPT !.disturbed = TRUE]]
      PROVE  ProofInv'
  <2>1. \A q \in Callers : \/ call'[q] = [call[q] EXCEPT !.disturbed = TRUE]
                           \/ call'[q].job # "prove"
    BY <1>1, <1>2, <1>3, <1>7
  <2>2. QED
    BY <1>4, <2>1, RelayDisturbs
<1>8. ASSUME NEW result, Set(p, Ended(c, result))
      PROVE  ProofInv'
  BY <1>1, <1>2, <1>3, <1>5, <1>8
<1>9. CASE SubmitGenesis(p)
  BY <1>1, <1>7, <1>8, <1>9 DEF SubmitGenesis
<1>10. CASE StartRetarget(p)
  <2>1. PICK d, aim : /\ d = [c EXCEPT !.step = "length", !.disturbed = FALSE, !.aim = aim]
                      /\ Set(p, d)
    BY <1>1, <1>10 DEF StartRetarget
  <2>2. d.job = c.job
    BY <1>1, <2>1 DEF CallFields
  <2>3. QED
    BY <1>2, <1>5, <2>1, <2>2
<1>11. CASE ReadProofLength(p)
  <2>1. PICK d, top : /\ d = [c EXCEPT !.step = "check", !.aim.length = relay.length, !.top = top]
                      /\ Set(p, d)
    BY <1>1, <1>11 DEF ReadProofLength
  <2>2. d.job = c.job
    BY <1>1, <2>1 DEF CallFields
  <2>3. QED
    BY <1>2, <1>5, <2>1, <2>2
<1>12. CASE CheckHeaders(p)
  <2>1. PICK d : d = [c EXCEPT !.step = "fetched"]
    OBVIOUS
  <2>2. \/ Set(p, Ended(c, "failed"))
        \/ Set(p, d)
        \/ Set(p, Fetching(c, getRetargetHeaders(c.aim.height, c.aim.length)))
    BY <1>1, <1>12, <2>1 DEF CheckHeaders
  <2>3. d.job = c.job
    BY <1>1, <2>1 DEF CallFields
  <2>4. QED
    BY <1>1, <1>2, <1>5, <1>8, <2>2, <2>3, FetchingFields
<1>13. CASE SubmitRetarget(p)
  BY <1>1, <1>7, <1>8, <1>13 DEF SubmitRetarget
<1>14. QED
  BY <1>6, <1>9, <1>10, <1>11, <1>12, <1>13

\* Inscriptions are other calls.
LEMMA InscribeProofs ==
  ASSUME SdkInv, ProofInv, NEW p \in Callers, sendToAddress(p) \/ signRevealTx(p)
  PROVE  ProofInv'
<1>1. PICK c : c = call[p] /\ DOMAIN c = CallFields
  BY DEF SdkInv, CallOK
<1>2. c.job # "prove" /\ chain' = chain
  BY <1>1 DEF sendToAddress, signRevealTx, Doing, UnchangedWorld
<1>3. PICK d : d.job # "prove" /\ Set(p, d)
  <2>1. CASE sendToAddress(p)
    <3>1. PICK e, f, aim, got : /\ e = [c EXCEPT !.aim = aim]
                                /\ f = [e EXCEPT !.step = "commit", !.got = got]
                                /\ Set(p, Ended(e, "failed")) \/ Set(p, f)
      BY <1>1, <2>1 DEF sendToAddress
    <3>2. DOMAIN e = CallFields /\ e.job = c.job
      BY <1>1, <3>1 DEF CallFields
    <3>3. f.job = c.job
      BY <3>1, <3>2 DEF CallFields
    <3>4. Ended(e, "failed").job = c.job
      BY <3>2 DEF Ended, CallFields
    <3>5. QED
      BY <1>2, <3>1, <3>3, <3>4
  <2>2. CASE signRevealTx(p)
    <3>1. PICK e, info : /\ e = [Ended(c, "ok") EXCEPT !.info = info]
                         /\ Set(p, e) \/ Set(p, Ended(c, "failed"))
      BY <1>1, <2>2 DEF signRevealTx
    <3>2. e.job = c.job /\ Ended(c, "failed").job = c.job
      BY <1>1, <3>1 DEF Ended, CallFields
    <3>3. QED
      BY <1>2, <3>1, <3>2
  <2>3. QED
    BY <2>1, <2>2
<1>4. QED
  BY <1>2, <1>3, OneProofMoves

\* The owner's change of the proof length disturbs.
LEMMA SetProofLengthProofs ==
  ASSUME SdkInv, ProofInv, setProofLength
  PROVE  ProofInv'
<1>1. /\ chain' = chain
      /\ \A q \in Callers : call'[q] = [call[q] EXCEPT !.disturbed = TRUE]
  BY DEF setProofLength, RelayChanges
<1>2. QED
  BY <1>1, RelayDisturbs

\* What is said of the proofs holds at the start,
LEMMA ProofInitInv == SdkInit => ProofInv
<1> SUFFICES ASSUME SdkInit PROVE ProofInv
  OBVIOUS
<1>1. Chained(chain)
  <2>1. <<>> \in Seq(Blocks) /\ Chained(<<>>)
    BY EmptySeq DEF Chained
  <2>2. InitChain \in Seq(Seq(Txs)) /\ 0 \in Int
    BY BitcoinAssumption
  <2>3. \A below \in Seq(Blocks), id \in Int :
            Chained(below) => Chained(Branch(below, InitChain, id))
    BY <2>2, BranchIsChained
  <2>4. chain = Branch(<<>>, InitChain, 0)
    BY DEF SdkInit
  <2>5. QED
    BY <2>1, <2>2, <2>3, <2>4, Zenon
<1>2. \A job : ProofCall(NoCall(job), chain)
  <2>1. None # "ok"
    BY BitcoinAssumption
  <2>2. \A job : NoCall(job).step = "start" /\ NoCall(job).got = <<>> /\ NoCall(job).result = None
    BY DEF NoCall
  <2>3. QED
    BY <2>1, <2>2 DEF ProofCall
<1>3. \A p \in Callers : ProofCall(call[p], chain)
  BY <1>2 DEF SdkInit
<1>4. QED
  BY <1>1, <1>3 DEF ProofInv

\* is kept by every step,
LEMMA ProofNextInv == SdkInv /\ ProofInv /\ [SdkNext]_sdkVars => ProofInv'
<1> SUFFICES ASSUME SdkInv, ProofInv, [SdkNext]_sdkVars PROVE ProofInv'
  OBVIOUS
<1>1. CASE FindBlock \/ Reorganise \/ setProofLength
  BY <1>1, FindBlockProofs, ReorganiseProofs, SetProofLengthProofs
<1>2. ASSUME NEW p \in Callers, NEW i \in DOMAIN call[p].batch,
             getBlockHash(p, i) \/ getBlockHeader(p, i)
      PROVE  ProofInv'
  BY <1>2, GetBlockHashProofs, GetBlockHeaderProofs
<1>3. ASSUME NEW p \in Callers,
             getBitcoinTxInfo(p) \/ getBitcoinTxProof(p) \/ ProofReturned(p)
      PROVE  ProofInv'
  BY <1>3, GetTxInfoProofs, GetTxProofProofs, ProofReturnedProofs
<1>4. ASSUME NEW p \in Callers,
             \/ StartGenesis(p) \/ SubmitGenesis(p)
             \/ StartRetarget(p) \/ ReadProofLength(p) \/ CheckHeaders(p) \/ SubmitRetarget(p)
      PROVE  ProofInv'
  BY <1>4, ScriptProofs
<1>5. ASSUME NEW p \in Callers, sendToAddress(p) \/ signRevealTx(p)
      PROVE  ProofInv'
  BY <1>5, InscribeProofs
<1>6. CASE UNCHANGED sdkVars
  BY <1>6 DEF ProofInv, Chained, sdkVars
<1>7. QED
  BY <1>1, <1>2, <1>3, <1>4, <1>5, <1>6 DEF SdkNext

\* and so always holds.
LEMMA ProofInvariant == SdkSpec => []ProofInv
BY ProofInitInv, ProofNextInv, SdkInvariant, PTL DEF SdkSpec

\* What a finished call has collected is accepted by the bridge.
LEMMA CollectedIsAccepted ==
  ASSUME NEW c, NEW blocks, Chained(blocks), HasAll(c, blocks), ~c.disturbed
  PROVE  Verifies(c.info, c.merkle, c.got) /\ Len(c.got) = c.aim.factor
<1>1. PICK h, n : h = c.merkle.blockHeight /\ n = c.aim.factor
  OBVIOUS
<1>2. h \in Nat /\ n \in Nat \ {0} /\ InfoIsRight(c) /\ Len(c.got) = n
  BY <1>1 DEF HasAll, Looking, Aimed
<1>3. /\ ProofStands(c, blocks)
      /\ \A i \in 1 .. n : h + i \in 1 .. Len(blocks) /\ c.got[i] = Header(blocks[h + i])
  BY <1>1 DEF HasAll, HeaderStands
<1>4. prove(TxHash(TxData[c.aim.tx]), c.got[1].root, c.merkle.merkle, c.merkle.pos)
  <2>1. 1 \in 1 .. n
    BY <1>2
  <2>2. c.got[1] = Header(blocks[h + 1])
    BY <1>3, <2>1
  <2>3. QED
    BY <1>1, <1>3, <2>2 DEF ProofStands
<1>5. ASSUME NEW i \in 2 .. n
      PROVE  c.got[i].prev = c.got[i - 1].id
  <2>1. i \in 1 .. n /\ i - 1 \in 1 .. n /\ h + (i - 1) = (h + i) - 1
    BY <1>2
  <2>2. c.got[i] = Header(blocks[h + i]) /\ c.got[i - 1] = Header(blocks[(h + i) - 1])
    BY <1>3, <2>1
  <2>3. h + i \in 2 .. Len(blocks)
    <3>1. h + i \in 1 .. Len(blocks) /\ h + i >= 2 /\ h + i \in Int
      BY <1>2, <1>3, <2>1
    <3>2. QED
      BY <3>1
  <2>4. blocks[h + i].prev = blocks[(h + i) - 1].id
    BY <2>3 DEF Chained
  <2>5. QED
    BY <2>2, <2>4 DEF Header
<1>6. Chained(c.got)
  BY <1>2, <1>5 DEF Chained
<1>7. QED
  BY <1>1, <1>2, <1>4, <1>6 DEF Verifies, InfoIsRight

\* A proof that is collected while no block of it is replaced is accepted by the
\* bridge, whatever is mined between the explorer's answers, wherever the
\* transaction stands in its block and however many transactions and headers
\* there are: the branch leads to the root, and the headers are chained.
THEOREM UndisturbedProofAlwaysVerifies == SdkSpec => []UndisturbedProofVerifies
<1>1. ProofInv => UndisturbedProofVerifies
  <2> SUFFICES ASSUME ProofInv, NEW p \in Callers, Succeeded(p, "prove"), ~call[p].disturbed
               PROVE  /\ Verifies(call[p].info, call[p].merkle, call[p].got)
                      /\ Len(call[p].got) = call[p].aim.factor
    BY DEF UndisturbedProofVerifies
  <2>1. Chained(chain) /\ HasAll(call[p], chain)
    BY DEF ProofInv, ProofCall, Succeeded
  <2>2. QED
    BY <2>1, CollectedIsAccepted
<1>2. QED
  BY <1>1, ProofInvariant, PTL
==============================================================================
