------------------------------ MODULE Penalizer ------------------------------
(***************************************************************************)
(* The penalizer of a relay server, relay/src/penalizer/, with the         *)
(* commit-reveal contract it reports to, contracts/src/Penalizer.sol.      *)
(*                                                                         *)
(* Clients hand in transactions a relay worker signed.  An audit looks the *)
(* transaction up at the node and at a cached block explorer, commits to a *)
(* report of the offence and schedules its reveal.  An interval handler    *)
(* waits until the commitment is mined and ready, and reveals.  Audits and *)
(* passes of the interval handler interleave at every await.               *)
(*                                                                         *)
(* There is one audited worker.  The signer's own transactions leave in    *)
(* nonce order, which TransactionManager.tla shows; blocks since a         *)
(* commitment are counted up to where the contract stops telling them      *)
(* apart.                                                                  *)
(***************************************************************************)
EXTENDS Integers, Sequences, SequencesExt, FiniteSets

CONSTANTS
    Requests,       \* the transactions clients hand in for an audit
    Worker,         \* the relay worker known to the hub
    LegalCalls,     \* calls of relayCall on the hub, told apart by their data
    Prices,         \* gas prices
    MaxSent,        \* how many transactions the worker sends
    PageSize,       \* transactions on a page of the block explorer
    Delay,          \* penalizeBlockDelay
    Expiration,     \* penalizeBlockExpiration
    Passes,         \* passes of the interval handler that may overlap
    FaultKinds, MaxFaults

Forged == "forged"      \* the signature does not verify
NotMined == -1
Expired == Delay + Expiration
Calls == LegalCalls \union {r.call : r \in Requests}
Tx == [from : {r.from : r \in Requests} \union {Worker}, nonce : 0 .. MaxSent + 1,
       call : Calls, price : Prices]

ASSUME PenalizerAssumption ==
    /\ Requests \subseteq Tx /\ IsFiniteSet(Requests) /\ Worker # Forged
    /\ {MaxSent, Delay, MaxFaults} \subseteq Nat
    /\ {PageSize, Expiration} \subseteq Nat \ {0}
    /\ FaultKinds \subseteq {"node", "explorer", "refuse", "broadcast", "restart"}

VARIABLES
    sent,       \* the worker's transactions, the node knows them all ...
    confirmed,  \* ... and this many of them are mined
    staked,     \* whether the worker's manager still has its stake
    outbox,     \* the penalizer's own transactions, waiting to be mined
    committed,  \* contract: blocks since the commitment to a report
    verdict,    \* contract: what became of the reveal
    pc,         \* where the audit of a transaction stands
    page,       \* the explorer page an audit asks for
    report,     \* the offence an audit reports
    cached,     \* TransactionDataCache: the nonces found so far ...
    lastPage,   \* ... and the last page it says was queried
    scheduled,  \* this.scheduledPenalizations
    readyKnown, \* which of them have their readyBlockNumber
    pass,       \* the passes of the interval handler
    reveals,    \* how many reveals of a report were handed to the node
    faults

chainVars == <<sent, confirmed>>
reportVars == <<outbox, committed, verdict, staked, reveals>>
auditVars == <<pc, page, report>>
cacheVars == <<cached, lastPage>>
scheduleVars == <<scheduled, readyKnown, pass>>
vars == <<sent, confirmed, staked, outbox, committed, verdict, pc, page, report,
          cached, lastPage, scheduled, readyKnown, pass, reveals, faults>>

Idle == [at |-> "idle", list |-> <<>>, todo |-> {}]

Init ==
    /\ sent = <<>> /\ confirmed = 0 /\ staked = TRUE /\ outbox = <<>>
    /\ committed = [r \in Requests |-> NotMined]
    /\ verdict = [r \in Requests |-> "none"]
    /\ pc = [r \in Requests |-> "new"]
    /\ page = [r \in Requests |-> 0]
    /\ report = [r \in Requests |-> "none"]
    /\ cached = {} /\ lastPage = 0
    /\ scheduled = <<>> /\ readyKnown = {}
    /\ pass = [p \in Passes |-> Idle]
    /\ reveals = [r \in Requests |-> 0]
    /\ faults = 0

Fault(kind) == kind \in FaultKinds /\ faults < MaxFaults /\ faults' = faults + 1

(***************************************************************************)
(* The contracts                                                           *)
(***************************************************************************)

\* Mutant: whole transactions are compared, gas price included.
RepeatedNonceAnyDifference(a, b) ==
    a.from = b.from /\ a.from # Forged /\ a.nonce = b.nonce /\ a # b

\* _penalizeRepeatedNonce: one signer, one nonce, and a different call; a gas
\* price that differs is no offence.
RepeatedNonce(a, b) ==
    /\ a.from = b.from /\ a.from # Forged
    /\ a.nonce = b.nonce
    /\ a.call # b.call

\* _penalizeIllegalTransaction
IllegalTransaction(r) == r.from # Forged /\ r.call \notin LegalCalls

Offence(r, kind) ==
    \/ kind = "illegal" /\ IllegalTransaction(r)
    \/ kind = "repeated" /\ \E s \in ToSet(sent) : RepeatedNonce(r, s)

\* RelayHub.penalize and StakeManager.penalizeRelayManager take the stake of a
\* known worker's manager, while there is one.
HubPenalizes(r) == r.from = Worker /\ staked

\* commitRevealOnly, then the report itself, in a block this many blocks after
\* that of the commitment.
Verdict(r, age) ==
    CASE committed[r] = NotMined \/ verdict[r] = "penalized" -> "no commit"
      [] age <= Delay -> "too soon"
      [] age >= Expired -> "too late"
      [] ~ (Offence(r, report[r]) /\ HubPenalizes(r)) -> "rejected"
      [] OTHER -> "penalized"

\* A block, which mines the penalizer's next transaction or none.
Aged == [r \in Requests |->
            IF committed[r] \in {NotMined, Expired} THEN committed[r] ELSE committed[r] + 1]
EmptyBlock ==
    /\ committed' = Aged
    /\ UNCHANGED <<outbox, verdict, staked, reveals, faults, chainVars, auditVars, cacheVars,
                   scheduleVars>>
MineCommit ==
    /\ outbox # <<>> /\ Head(outbox).op = "commit"
    /\ committed' = [Aged EXCEPT ![Head(outbox).of] = 0]
    /\ outbox' = Tail(outbox)
    /\ UNCHANGED <<verdict, staked, reveals, faults, chainVars, auditVars, cacheVars,
                   scheduleVars>>
MineReveal ==
    /\ outbox # <<>> /\ Head(outbox).op = "reveal"
    /\ LET r == Head(outbox).of IN
       /\ verdict' = [verdict EXCEPT ![r] = Verdict(r, Aged[r])]
       /\ staked' = (staked /\ verdict'[r] # "penalized")
    /\ committed' = Aged
    /\ outbox' = Tail(outbox)
    /\ UNCHANGED <<reveals, faults, chainVars, auditVars, cacheVars, scheduleVars>>

\* The audited worker goes on sending, and its transactions are mined.
WorkerSends ==
    /\ Len(sent) < MaxSent
    /\ \E c \in LegalCalls, price \in Prices :
          sent' = Append(sent, [from |-> Worker, nonce |-> Len(sent), call |-> c,
                                price |-> price])
    /\ UNCHANGED <<confirmed, reportVars, auditVars, cacheVars, scheduleVars, faults>>
WorkerMined ==
    /\ confirmed < Len(sent) /\ confirmed' = confirmed + 1
    /\ UNCHANGED <<sent, reportVars, auditVars, cacheVars, scheduleVars, faults>>

(***************************************************************************)
(* Audits                                                                  *)
(***************************************************************************)

\* validateTransaction: signature, worker and stake.
ValidTransaction(r) == r.from = Worker /\ staked

Moves(r, from, to) == pc[r] = from /\ pc' = [pc EXCEPT ![r] = to]
OnlyAudit == UNCHANGED <<chainVars, reportVars, cacheVars, scheduleVars, faults>>

\* HttpServer.auditHandler asks for a repeated nonce first, and for an illegal
\* transaction ("second") when that ends with a message; an exception ends both.
ValidateFirst(r) ==
    /\ Moves(r, "new", IF ValidTransaction(r) THEN "valid" ELSE "second")
    /\ UNCHANGED <<page, report>> /\ OnlyAudit
CheckMined(r) ==
    /\ Moves(r, "valid", IF r \in ToSet(sent) THEN "second" ELSE "not mined")
    /\ UNCHANGED <<page, report>> /\ OnlyAudit
CheckNonce(r) ==
    /\ Moves(r, "not mined", IF r.nonce > Len(sent) THEN "second" ELSE "known nonce")
    /\ UNCHANGED <<page, report>> /\ OnlyAudit

\* EtherscanCachedService.queryCachedTransactions
LookUp(r) ==
    /\ Moves(r, "known nonce", IF r.nonce \in cached THEN "found" ELSE "searching")
    /\ page' = [page EXCEPT ![r] = lastPage + 1]
    /\ UNCHANGED report /\ OnlyAudit

\* A page lists what is mined by now.  putTransactions refuses a page the cache
\* has, and a transaction it has; the number of the first page is never raised.
Listed(n) == {k \in 0 .. confirmed - 1 : k \div PageSize = n - 1}
CanPut(n) == lastPage < n /\ Listed(n) \intersect cached = {}
SearchPage(r) ==
    /\ CanPut(page[r])
    /\ cached' = cached \union Listed(page[r])
    /\ lastPage' = IF lastPage = 0 THEN page[r] ELSE lastPage
    /\ \/ r.nonce \in Listed(page[r]) /\ Moves(r, "searching", "found") /\ UNCHANGED page
       \/ /\ r.nonce \notin Listed(page[r]) /\ Cardinality(Listed(page[r])) = PageSize
          /\ page' = [page EXCEPT ![r] = @ + 1]
          /\ pc[r] = "searching" /\ UNCHANGED pc
       \/ /\ r.nonce \notin Listed(page[r]) /\ Cardinality(Listed(page[r])) < PageSize
          /\ Moves(r, "searching", "failed") /\ UNCHANGED page
    /\ UNCHANGED <<report, faults, chainVars, reportVars, scheduleVars>>
SearchFails(r) ==
    /\ Moves(r, "searching", "failed")
    /\ \/ ~ CanPut(page[r]) /\ UNCHANGED faults
       \/ Fault("explorer")
    /\ UNCHANGED <<page, report, chainVars, reportVars, cacheVars, scheduleVars>>

\* commitAndScheduleReveal puts the report on the schedule before it sends the
\* commitment.
Schedules(r, kind) ==
    /\ report' = [report EXCEPT ![r] = kind]
    /\ scheduled' = Append(scheduled, r)
    /\ UNCHANGED <<page, faults, chainVars, reportVars, cacheVars, readyKnown, pass>>

\* The view call runs, but what is tested after it is the validation of before,
\* so every repeated nonce is reported, a boosted transaction's too.
ReportRepeated(r) == Moves(r, "found", "committing") /\ Schedules(r, "repeated")

ValidateSecond(r) ==
    /\ Moves(r, "second", IF ValidTransaction(r) THEN "to view" ELSE "refused")
    /\ UNCHANGED <<page, report>> /\ OnlyAudit
ViewPasses(r, kind) == Offence(r, kind) /\ HubPenalizes(r)
ReportIllegal(r) ==
    \/ ViewPasses(r, "illegal") /\ Moves(r, "to view", "committing") /\ Schedules(r, "illegal")
    \/ /\ ~ ViewPasses(r, "illegal") /\ Moves(r, "to view", "refused")
       /\ UNCHANGED <<page, report>> /\ OnlyAudit

\* TransactionManager.sendTransaction throws before it stored the transaction
\* ("refuse"), or after that, when it will still be boosted ("broadcast").
SendsCommit(r) == outbox' = Append(outbox, [op |-> "commit", of |-> r])
Commit(r) ==
    /\ \/ Moves(r, "committing", "committed") /\ SendsCommit(r) /\ UNCHANGED faults
       \/ Moves(r, "committing", "failed") /\ SendsCommit(r) /\ Fault("broadcast")
       \/ Moves(r, "committing", "failed") /\ UNCHANGED outbox /\ Fault("refuse")
    /\ UNCHANGED <<page, report, committed, verdict, staked, reveals, chainVars, cacheVars,
                   scheduleVars>>

AuditStep(r) ==
    \/ ValidateFirst(r) \/ CheckMined(r) \/ CheckNonce(r) \/ LookUp(r) \/ SearchPage(r)
    \/ SearchFails(r) \/ ReportRepeated(r) \/ ValidateSecond(r) \/ ReportIllegal(r)
    \/ Commit(r)

(***************************************************************************)
(* The interval handler                                                    *)
(***************************************************************************)

\* A pass works on what it picked, todo, from the list as it was then.
Goes(p, at, list, todo) ==
    pass' = [pass EXCEPT ![p] = [at |-> at, list |-> list, todo |-> todo]]
Stops(p) == pass' = [pass EXCEPT ![p] = Idle]
OnlyPass == UNCHANGED <<chainVars, reportVars, auditVars, cacheVars>>

\* setInterval starts a pass whether or not the last one has ended.
StartPass(p) ==
    /\ pass[p].at = "idle" /\ scheduled # <<>>
    /\ LET unconfirmed == ToSet(scheduled) \ readyKnown IN
       Goes(p, IF unconfirmed = {} THEN "asking" ELSE "querying", <<>>, unconfirmed)
    /\ UNCHANGED <<scheduled, readyKnown, faults>> /\ OnlyPass

\* Mutant: only the events of the latest block are read.
CommitsSeenJustNow == {r \in Requests : committed[r] = 0}

\* queryReadyBlocksForMinedCommitments reads every CommitAdded of the manager.
CommitsSeen == {r \in Requests : committed[r] # NotMined}
QueryCommitments(p) ==
    /\ pass[p].at = "querying"
    /\ readyKnown' = readyKnown \union (pass[p].todo \intersect CommitsSeen)
    /\ Goes(p, "asking", <<>>, {})
    /\ UNCHANGED <<scheduled, faults>> /\ OnlyPass

\* Mutant: none is removed.
SplicedNothing(r) == scheduled

\* indexOf is -1 for a report another pass has removed, and splice(-1, 1) then
\* removes the last of the list.
Spliced(r) ==
    RemoveAt(scheduled, IF r \in ToSet(scheduled)
                        THEN CHOOSE i \in DOMAIN scheduled : scheduled[i] = r
                        ELSE Len(scheduled))

\* The loop of executeReadyPenalizations up to its next await.
FirstOf(list, ready) ==
    list[CHOOSE i \in DOMAIN list :
            list[i] \in ready /\ \A j \in DOMAIN list : list[j] \in ready => i <= j]
Proceed(p, list, ready) ==
    IF ready = {} THEN Stops(p) /\ UNCHANGED scheduled
    ELSE Goes(p, "sending", list, ready)
         /\ scheduled' = IF scheduled = <<>> THEN <<>> ELSE Spliced(FirstOf(list, ready))

IsReady(r) == r \in readyKnown /\ committed[r] >= Delay
ReadBlock(p) ==
    /\ pass[p].at = "asking"
    /\ Proceed(p, scheduled, {r \in ToSet(scheduled) : IsReady(r)})
    /\ UNCHANGED <<readyKnown, faults>> /\ OnlyPass

\* executeDelayedPenalization: the node estimates the gas of a reveal, on its
\* latest block or on the next, and a reveal that would revert is not sent;
\* the exception ends the pass.
Estimates(r) == {Verdict(r, committed[r]), Verdict(r, Aged[r])}
Reveal(p) ==
    /\ pass[p].at = "sending"
    /\ LET r == FirstOf(pass[p].list, pass[p].todo)
           Sends == /\ outbox' = Append(outbox, [op |-> "reveal", of |-> r])
                    /\ reveals' = [reveals EXCEPT ![r] = @ + 1]
       IN
       \/ /\ "penalized" \in Estimates(r) /\ Sends
          /\ Proceed(p, pass[p].list, pass[p].todo \ {r}) /\ UNCHANGED faults
       \/ /\ "penalized" \in Estimates(r) /\ Sends /\ Fault("broadcast")
          /\ Stops(p) /\ UNCHANGED scheduled
       \/ /\ Estimates(r) # {"penalized"} /\ Stops(p)
          /\ UNCHANGED <<outbox, reveals, scheduled, faults>>
       \/ /\ Fault("refuse") /\ Stops(p)
          /\ UNCHANGED <<outbox, reveals, scheduled>>
    /\ UNCHANGED <<committed, verdict, staked, readyKnown, chainVars, auditVars, cacheVars>>

\* The node does not answer: the exception ends the pass.
PassFails(p) ==
    /\ pass[p].at \in {"querying", "asking"} /\ Fault("node") /\ Stops(p)
    /\ UNCHANGED <<scheduled, readyKnown>> /\ OnlyPass

\* A new process: the schedule was in memory only, the explorer's pages and the
\* transactions already signed are in files.
Restart ==
    /\ Fault("restart")
    /\ pc' = [r \in Requests |-> IF pc[r] \in {"new", "committed", "refused"} THEN pc[r]
                                 ELSE "failed"]
    /\ scheduled' = <<>> /\ readyKnown' = {} /\ pass' = [p \in Passes |-> Idle]
    /\ UNCHANGED <<page, report, chainVars, reportVars, cacheVars>>

PassStep(p) == StartPass(p) \/ QueryCommitments(p) \/ ReadBlock(p) \/ Reveal(p)

Next ==
    \/ \E r \in Requests : AuditStep(r)
    \/ \E p \in Passes : PassStep(p) \/ PassFails(p)
    \/ EmptyBlock \/ MineCommit \/ MineReveal
    \/ WorkerSends \/ WorkerMined
    \/ Restart

Spec == Init /\ [][Next]_vars

\* The timer keeps starting passes, the node answers, and blocks are mined.
FairSpec ==
    /\ Spec
    /\ \A p \in Passes : WF_vars(PassStep(p))
    /\ WF_vars(EmptyBlock)

(***************************************************************************)
(* Properties                                                              *)
(***************************************************************************)

\* The schedule, the passes and the contract keep to their types.
TypeOK ==
    /\ ToSet(sent) \subseteq Tx /\ confirmed \in 0 .. Len(sent) /\ staked \in BOOLEAN
    /\ \A m \in ToSet(outbox) : m.op \in {"commit", "reveal"} /\ m.of \in Requests
    /\ committed \in [Requests -> {NotMined} \union 0 .. Expired]
    /\ verdict \in [Requests -> {"none", "no commit", "too soon", "too late", "rejected",
                                 "penalized"}]
    /\ cached \subseteq 0 .. MaxSent - 1 /\ lastPage \in Nat
    /\ IsInjective(scheduled) /\ readyKnown \subseteq Requests
    /\ \A p \in Passes : pass[p].todo \subseteq Requests

\* A relay loses its stake only over a transaction its worker signed that is no
\* relay call, or that shares a nonce with a mined one and differs in more than
\* the gas price: boosting, which the servers do themselves, is never punished,
\* although the service commits to reporting it.
OnlyOffencesArePenalized ==
    \A r \in Requests : verdict[r] = "penalized" =>
        /\ r.from = Worker
        /\ \/ r.call \notin LegalCalls
           \/ \E s \in ToSet(sent) : s.nonce = r.nonce /\ s.call # r.call

\* A scheduled report whose commitment is mined leaves the schedule in the end,
\* whatever requests of the interval handler to the node fail.
MinedCommitsAreRevealed ==
    \A r \in Requests :
        (r \in ToSet(scheduled) /\ committed[r] # NotMined) ~> r \notin ToSet(scheduled)

\* A report is revealed once, so no reveal of it fails for want of its commitment
\* ("penalized something again? How?",
\* dev/test/penalizer/PenalizerService.test.ts:128).
RevealedOnce == \A r \in Requests : reveals[r] <= 1
=============================================================================
