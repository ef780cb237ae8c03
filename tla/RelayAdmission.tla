--------------------------- MODULE RelayAdmission ---------------------------
(***************************************************************************)
(* How the relay server decides which requests to serve: the request path  *)
(* of RelayServer (createRelayTransaction, pingHandler) with its checks,   *)
(* the paymasters' reputations (ReputationManager, ReputationStoreManager) *)
(* and the part of the worker's pass that feeds them from the hub's        *)
(* events, raises the alert and lowers it.                                 *)
(*                                                                         *)
(* Every await is a step of its own: requests run concurrently with each   *)
(* other and with the worker, and only getPaymasterStatus takes the mutex. *)
(* A block stands for the unit of time; a time is kept as its age, which   *)
(* stops growing where nothing depends on it any more.                     *)
(***************************************************************************)
EXTENDS Integers, Sequences, FiniteSets, SequencesExt

CONSTANTS
  Calls,        \* requests the server may receive, each of them once
  Requests,     \* what a request may say
  NetworkFees,  \* what the node may suggest
  None,
  TypeTwo,      \* the network has EIP-1559 transactions
  Policy,       \* lists, fees and limits of the configuration
  Limits,       \* paymaster |-> its acceptance budget and gas limits
  Trusted,      \* trustedPaymasters
  InitialReputation, MaximumReputation, ThrottleReputation, BlockReputation,
  ThrottleDelay, AbuseChange, AbuseWindow, AbuseTimeout,
  AlertedDelay, RefreshTimeout,
  ScanBack,     \* blocks init() goes back
  MaxLag,       \* bound: blocks the worker may fall behind
  Deposit,      \* what a paymaster has in the hub
  MaxFaults     \* bound: calls that fail, bad passes and restarts

ASSUME AdmissionConstants ==
  /\ BlockReputation < ThrottleReputation
  /\ InitialReputation <= MaximumReputation
  /\ {ThrottleDelay, AbuseWindow, AlertedDelay, RefreshTimeout, ScanBack}
       \subseteq Nat \ {0}
  /\ {MaxLag, MaxFaults} \subseteq Nat
  /\ RefreshTimeout < MaxLag /\ ScanBack <= MaxLag
  /\ None \notin Calls
  /\ \A r \in Requests : r.paymaster \in DOMAIN Limits

VARIABLES
  store,   \* the reputation entries, by paymaster
  mutex,   \* the call that holds ReputationManager.mutex
  calls,   \* the requests' progress
  server,  \* the server's flags, fees and the blocks it has seen
  worker,  \* the progress of the worker's pass
  chain,   \* the hub: deposits, transactions under way, events
  faults   \* faults that may still occur

vars == <<store, mutex, calls, server, worker, chain, faults>>

Paymasters == DOMAIN Limits

\* The ages beyond which nothing depends on how old a thing is.
AcceptedCap == ThrottleDelay + 1
AbuseCap    == AbuseWindow + MaxLag + 1
AlertCap    == AlertedDelay + MaxLag + 1

Older(age, cap) == IF age = None \/ age = cap THEN age ELSE age + 1

Entry(reputation) ==
  [reputation |-> reputation, accepted |-> AcceptedCap, flagged |-> None,
   changes |-> <<>>]

NoEvent == [call |-> None, paymaster |-> None, accepted |-> FALSE, age |-> None,
            handled |-> 0]

Asleep == [pc |-> "asleep", cur |-> 0, todo |-> {}, event |-> NoEvent,
           seen |-> None, next |-> None]

NoCall == [pc |-> "idle", req |-> None, seen |-> None, left |-> 0]

Starting ==
  [ready |-> FALSE, alerted |-> FALSE, alertedBy |-> AlertCap,
   scanned |-> ScanBack, refreshed |-> RefreshTimeout,
   minFee |-> 0, minPriority |-> 0]

Init ==
  /\ store = <<>>
  /\ mutex = None
  /\ calls = [c \in Calls |-> NoCall]
  /\ server = Starting
  /\ worker = Asleep
  /\ chain = [deposit |-> [p \in Paymasters |-> Deposit],
              sent |-> {}, nonce |-> 0, events |-> {}]
  /\ faults = MaxFaults

Fault == faults > 0 /\ faults' = faults - 1
NoFault == UNCHANGED faults

-----------------------------------------------------------------------------
(* The checks of a request.                                                *)

TxTypeRefused(r) == ~TypeTwo /\ r.maxFee # r.priority

FeesRefused(r) ==
  \/ server.minPriority > r.priority
  \/ server.minFee > r.maxFee
  \/ r.maxFee > Policy.maxMaxFee
  \/ r.maxFee < r.priority

Listed(x, list) == list = {} \/ x \in list

ListsRefuse(r) ==
  \/ r.paymaster \in Policy.blackPaymasters
  \/ r.recipient \in Policy.blackRecipients
  \/ /\ ~Policy.hasUrl
     /\ \/ ~Listed(r.paymaster, Policy.whitePaymasters)
        \/ ~Listed(r.recipient, Policy.whiteRecipients)

InputRefused(c) ==
  LET r == calls[c].req
  IN  \/ ~r.addressed
      \/ FeesRefused(r)
      \/ ListsRefuse(r)
      \/ calls[c].left < Policy.minValid

NonceRefused(r) == chain.nonce > r.maxNonce

MaxPossibleGas(r) ==
  LET l == Limits[r.paymaster]
  IN  Policy.reserve + Policy.overhead + Policy.calldata + r.gas + l.pre + l.post

LimitsRefuse(r) ==
  \/ Policy.calldata > r.calldata
  \/ Limits[r.paymaster].budget > r.budget
  \/ /\ Limits[r.paymaster].budget + Policy.calldata > Policy.maxBudget
     /\ r.paymaster \notin Trusted
  \/ MaxPossibleGas(r) > Policy.maxGas
  \/ chain.deposit[r.paymaster] < r.fee

-----------------------------------------------------------------------------
(* A request's steps.                                                      *)

At(c, pc) == calls[c].pc = pc

To(c, pc) == calls' = [calls EXCEPT ![c].pc = pc]

ToWith(c, pc, entry) ==
  calls' = [calls EXCEPT ![c] = [@ EXCEPT !.pc = pc, !.seen = entry]]

\* The call is over: an answer or an error message has been sent.
Done(c) == calls' = [calls EXCEPT ![c] = [NoCall EXCEPT !.pc = "done"]]

MayCheck(c) ==
  IF calls[c].req.paymaster \in Trusted THEN "limits" ELSE "lock"

Arrive(c, r) ==
  /\ At(c, "idle")
  /\ LET come(pc) == [pc |-> pc, req |-> r, seen |-> None,
                     left |-> IF pc = "lock" THEN 0 ELSE r.validFor]
     IN  calls' = [calls EXCEPT ![c] =
           IF r.kind = "ping"
           THEN IF r.paymaster \in Trusted THEN [NoCall EXCEPT !.pc = "done"]
                ELSE come("lock")
           ELSE IF ~server.ready \/ TxTypeRefused(r)
                THEN [NoCall EXCEPT !.pc = "done"]
           ELSE IF server.alerted THEN come("slowed")
           ELSE come("block")]
  /\ UNCHANGED <<store, mutex, server, worker, chain, faults>>

SlowedDown(c) ==
  /\ At(c, "slowed")
  /\ To(c, "block")
  /\ UNCHANGED <<store, mutex, server, worker, chain, faults>>

Validate(c) ==
  /\ At(c, "block")
  /\ IF InputRefused(c) THEN Done(c)
     ELSE calls' = [calls EXCEPT ![c] = [@ EXCEPT !.pc = "nonce", !.left = 0]]
  /\ UNCHANGED <<store, mutex, server, worker, chain, faults>>

ValidateMaxNonce(c) ==
  /\ At(c, "nonce")
  /\ IF NonceRefused(calls[c].req) THEN Done(c) ELSE To(c, MayCheck(c))
  /\ UNCHANGED <<store, mutex, server, worker, chain, faults>>

\* Mutant: the mutex is taken while another request holds it.
AcquireAnyway(c) ==
  /\ At(c, "lock")
  /\ mutex' = c
  /\ To(c, "read")
  /\ UNCHANGED <<store, server, worker, chain, faults>>

Acquire(c) ==
  /\ At(c, "lock")
  /\ mutex = None
  /\ mutex' = c
  /\ To(c, "read")
  /\ UNCHANGED <<store, server, worker, chain, faults>>

Throttled(entry) ==
  entry.reputation < ThrottleReputation /\ entry.accepted <= ThrottleDelay

\* The status is returned and the mutex released.
Return(c, good) ==
  /\ mutex' = None
  /\ IF good /\ calls[c].req.kind = "relay" THEN ToWith(c, "limits", None)
     ELSE Done(c)

Judge(c, entry) ==
  IF entry.reputation <= BlockReputation THEN Return(c, FALSE)
  ELSE IF entry.flagged = None THEN Return(c, ~Throttled(entry))
  ELSE IF entry.flagged - server.scanned <= AbuseWindow THEN Return(c, FALSE)
  ELSE ToWith(c, "clear", entry) /\ UNCHANGED mutex

Known(p) == p \in DOMAIN store

Write(p, entry) ==
  store' = [q \in DOMAIN store \cup {p} |-> IF q = p THEN entry ELSE store[q]]

GetStatus(c) ==
  /\ At(c, "read")
  /\ LET p == calls[c].req.paymaster
     IN  IF Known(p) THEN Judge(c, store[p])
         ELSE To(c, "create") /\ UNCHANGED mutex
  /\ UNCHANGED <<store, server, worker, chain, faults>>

\* insertAsync fails on the unique index when the entry is there by now.
CreateEntry(c) ==
  /\ At(c, "create")
  /\ LET p == calls[c].req.paymaster
     IN  IF Known(p) THEN Return(c, FALSE) /\ UNCHANGED store
         ELSE /\ Write(p, Entry(InitialReputation))
              /\ Judge(c, Entry(InitialReputation))
  /\ UNCHANGED <<server, worker, chain, faults>>

\* clearAbuseFlag reads the entry, then writes it back as a whole; the
\* throttle is tested on what getPaymasterStatus read before.
ClearFind(c) ==
  /\ At(c, "clear")
  /\ ToWith(c, "cleared",
            [was |-> calls[c].seen, is |-> store[calls[c].req.paymaster]])
  /\ UNCHANGED <<store, mutex, server, worker, chain, faults>>

Cleared(entry) == [entry EXCEPT !.reputation = AbuseTimeout, !.flagged = None]

ClearWrite(c) ==
  /\ At(c, "cleared")
  /\ Write(calls[c].req.paymaster, Cleared(calls[c].seen.is))
  /\ Return(c, ~Throttled(calls[c].seen.was))
  /\ UNCHANGED <<server, worker, chain, faults>>

CheckLimits(c) ==
  /\ At(c, "limits")
  /\ IF LimitsRefuse(calls[c].req) THEN Done(c) ELSE To(c, "view")
  /\ UNCHANGED <<store, mutex, server, worker, chain, faults>>

\* The view call is evaluated by the node on its pending block.
ViewCall(c, accepted) ==
  /\ At(c, "view")
  /\ IF ~accepted THEN Done(c)
     ELSE To(c, "accept")
  /\ UNCHANGED <<store, mutex, server, worker, chain, faults>>

AcceptFind(c) ==
  /\ At(c, "accept")
  /\ LET p == calls[c].req.paymaster
     IN  IF Known(p) THEN ToWith(c, "accepted", store[p]) ELSE Done(c)
  /\ UNCHANGED <<store, mutex, server, worker, chain, faults>>

AcceptWrite(c) ==
  /\ At(c, "accepted")
  /\ Write(calls[c].req.paymaster, [calls[c].seen EXCEPT !.accepted = 0])
  /\ ToWith(c, "send", None)
  /\ UNCHANGED <<mutex, server, worker, chain, faults>>

Send(c) ==
  /\ At(c, "send")
  /\ chain' = [chain EXCEPT !.sent = @ \cup
       {[call |-> c, paymaster |-> calls[c].req.paymaster, fee |-> calls[c].req.fee]}]
  /\ Done(c)
  /\ UNCHANGED <<store, mutex, server, worker, faults>>

\* An await of the request fails: the error is the answer, and the finally
\* block of getPaymasterStatus releases the mutex.
CallFails(c) ==
  /\ calls[c].pc \notin {"idle", "done", "slowed", "lock"}
  /\ Fault
  /\ Done(c)
  /\ mutex' = IF mutex = c THEN None ELSE mutex
  /\ UNCHANGED <<store, server, worker, chain>>

CallStep(c) ==
  \/ SlowedDown(c) \/ Validate(c) \/ ValidateMaxNonce(c)
  \/ Acquire(c) \/ GetStatus(c) \/ CreateEntry(c)
  \/ ClearFind(c) \/ ClearWrite(c)
  \/ CheckLimits(c) \/ \E ok \in BOOLEAN : ViewCall(c, ok)
  \/ AcceptFind(c) \/ AcceptWrite(c) \/ Send(c)

-----------------------------------------------------------------------------
(* The worker's pass.                                                      *)

Working(pc) == worker.pc = pc

Go(pc) == worker' = [worker EXCEPT !.pc = pc]

WorkerWakes ==
  /\ Working("asleep")
  /\ server.scanned > 0
  /\ server.refreshed >= RefreshTimeout \/ ~server.ready
  /\ server' = [server EXCEPT !.refreshed = 0]
  /\ worker' = [Asleep EXCEPT !.pc = "fees"]
  /\ UNCHANGED <<store, mutex, calls, chain, faults>>

\* An exception reaches intervalHandler: what the pass had left to do is lost.
PassFails ==
  /\ worker' = Asleep
  /\ server' = [server EXCEPT !.ready = FALSE]

MinPriority(fees) ==
  IF fees.priority * Policy.factor = 0 THEN Policy.defaultPriority
  ELSE fees.priority * Policy.factor

RefreshGasFees(fees) ==
  LET fresh == [server EXCEPT !.minFee = fees.base,
                              !.minPriority = MinPriority(fees)]
  IN  /\ Working("fees")
      /\ IF MinPriority(fees) > Policy.maxMaxFee \/ fees.base > Policy.maxMaxFee
         THEN /\ Fault
              /\ server' = [fresh EXCEPT !.ready = FALSE]
              /\ worker' = Asleep
         ELSE /\ NoFault
              /\ server' = fresh
              /\ Go("balances")
      /\ UNCHANGED <<store, mutex, calls, chain>>

CheckBalances ==
  /\ Working("balances")
  /\ \/ Go("events") /\ NoFault /\ UNCHANGED server
     \/ PassFails /\ Fault    \* the manager's balance is too low
     \/ /\ Fault              \* the worker's is
        /\ server' = [server EXCEPT !.ready = FALSE]
        /\ Go("events")
  /\ UNCHANGED <<store, mutex, calls, chain>>

\* Mutant: the last scanned block is read again.
SinceAndWithLastScan == {e \in chain.events : e.age <= server.scanned}

\* fromBlock: lastScannedBlock + 1, toBlock: 'latest'.
SinceLastScan == {e \in chain.events : e.age < server.scanned}

GetHubEvents ==
  /\ Working("events")
  /\ worker' = [worker EXCEPT !.pc = "scanned", !.todo = SinceLastScan]
  /\ UNCHANGED <<store, mutex, calls, server, chain, faults>>

\* lastScannedBlock moves on before the events are handled.
Scan(registered) ==
  /\ Working("scanned")
  /\ IF registered
     THEN /\ server' = [server EXCEPT !.scanned = worker.cur]
          /\ Go("handle")
          /\ NoFault
     ELSE /\ server' = [server EXCEPT !.scanned = worker.cur, !.ready = FALSE]
          /\ worker' = Asleep
          /\ Fault
  /\ UNCHANGED <<store, mutex, calls, chain>>

\* The oldest event is taken up. A rejection raises the alert at once.
HandleEvent ==
  /\ Working("handle")
  /\ \E e \in worker.todo :
       /\ \A f \in worker.todo : f.age <= e.age
       /\ worker' = [worker EXCEPT !.pc = IF e.accepted THEN "entry" ELSE "alert",
                                   !.event = e, !.todo = @ \ {e}]
       /\ server' = [server EXCEPT !.alerted = @ \/ ~e.accepted]
  /\ UNCHANGED <<store, mutex, calls, chain, faults>>

Event == worker.event

AlertBlock ==
  /\ Working("alert")
  /\ server' = [server EXCEPT !.alertedBy = Event.age]
  /\ Go("entry")
  /\ UNCHANGED <<store, mutex, calls, chain, faults>>

Change == IF Event.accepted THEN 1 ELSE -1

Of == Event.paymaster

InWindow(age) == age - Event.age < AbuseWindow

ChangeInWindow(entry) ==
  FoldSeq(LAMBDA ch, sum : sum + ch.change, 0,
          SelectSeq(entry.changes, LAMBDA ch : InWindow(ch.age)))

\* The event has been dealt with.
Handled ==
  /\ worker' = [worker EXCEPT !.pc = "handle", !.event = NoEvent, !.seen = None,
                              !.next = None]
  /\ chain' = [chain EXCEPT !.events =
       {IF e.call = Event.call THEN [e EXCEPT !.handled = @ + 1] ELSE e : e \in @}]

Decide(entry) ==
  IF entry.reputation + Change > MaximumReputation THEN Handled
  ELSE /\ Go(IF -ChangeInWindow(entry) >= AbuseChange THEN "flag" ELSE "existing")
       /\ UNCHANGED chain

GetEntry ==
  /\ Working("entry")
  /\ IF Known(Of) THEN Decide(store[Of]) ELSE Go("create") /\ UNCHANGED chain
  /\ UNCHANGED <<store, mutex, calls, server, faults>>

CreateForEvent ==
  /\ Working("create")
  /\ IF Known(Of) THEN PassFails /\ UNCHANGED <<store, chain>>
     ELSE /\ Write(Of, Entry(InitialReputation))
          /\ Decide(Entry(InitialReputation))
          /\ UNCHANGED server
  /\ UNCHANGED <<mutex, calls, faults>>

FlagFind ==
  /\ Working("flag")
  /\ worker' = [worker EXCEPT !.pc = "flagged", !.seen = store[Of]]
  /\ UNCHANGED <<store, mutex, calls, server, chain, faults>>

FlagWrite ==
  /\ Working("flagged")
  /\ Write(Of, [worker.seen EXCEPT !.flagged = Event.age])
  /\ worker' = [worker EXCEPT !.pc = "existing", !.seen = None]
  /\ UNCHANGED <<mutex, calls, server, chain, faults>>

\* updatePaymasterReputation computes from one read what updateEntry writes
\* over another.
UpdateExisting ==
  /\ Working("existing")
  /\ LET was == store[Of]
     IN  worker' = [worker EXCEPT !.pc = "find", !.next =
           [reputation |-> was.reputation + Change,
            changes |-> SelectSeq(Append(was.changes,
                                    [age |-> Event.age, change |-> Change]),
                                  LAMBDA ch : InWindow(ch.age))]]
  /\ UNCHANGED <<store, mutex, calls, server, chain, faults>>

UpdateFind ==
  /\ Working("find")
  /\ worker' = [worker EXCEPT !.pc = "write", !.seen = store[Of]]
  /\ UNCHANGED <<store, mutex, calls, server, chain, faults>>

UpdateWrite ==
  /\ Working("write")
  /\ Write(Of, [worker.seen EXCEPT !.reputation = worker.next.reputation,
                                   !.changes = worker.next.changes])
  /\ Handled
  /\ UNCHANGED <<mutex, calls, server, faults>>

\* Mutant: the operands are swapped.
AlertOverBackwards == worker.cur - server.alertedBy > AlertedDelay

AlertOver == server.alertedBy - worker.cur > AlertedDelay

PassEnds ==
  /\ Working("handle")
  /\ worker.todo = {}
  /\ server' = [server EXCEPT !.ready = TRUE,
                              !.alerted = @ /\ ~AlertOver]
  /\ worker' = Asleep
  /\ UNCHANGED <<store, mutex, calls, chain, faults>>

WorkerFails ==
  /\ worker.pc \notin {"asleep", "balances"}
  /\ Fault
  /\ PassFails
  /\ UNCHANGED <<store, mutex, calls, chain>>

WorkerStep ==
  \/ WorkerWakes
  \/ \E f \in NetworkFees : RefreshGasFees(f)
  \/ CheckBalances \/ GetHubEvents
  \/ \E registered \in BOOLEAN : Scan(registered)
  \/ HandleEvent \/ AlertBlock \/ GetEntry \/ CreateForEvent
  \/ FlagFind \/ FlagWrite \/ UpdateExisting \/ UpdateFind \/ UpdateWrite
  \/ PassEnds

-----------------------------------------------------------------------------
(* The world.                                                              *)

OlderOne(x) == [x EXCEPT !.age = Older(@, AbuseCap)]

OlderAll(seq) == [i \in DOMAIN seq |-> OlderOne(seq[i])]

OlderEntry(entry) ==
  IF entry = None THEN None
  ELSE [entry EXCEPT !.accepted = Older(@, AcceptedCap),
         !.flagged = Older(@, AbuseCap),
         !.changes = OlderAll(@)]

OlderSeen(seen) ==
  IF seen = None THEN None
  ELSE IF "was" \in DOMAIN seen
  THEN [was |-> OlderEntry(seen.was), is |-> OlderEntry(seen.is)]
  ELSE OlderEntry(seen)

OlderCall(call) ==
  [call EXCEPT !.seen = OlderSeen(@),
     !.left = IF call.pc \in {"slowed", "block"} /\ @ > 0 THEN @ - 1 ELSE @]

OlderWorker ==
  IF Working("asleep") THEN worker
  ELSE [worker EXCEPT !.cur = @ + 1, !.seen = OlderEntry(@),
          !.todo = {OlderOne(e) : e \in @}, !.event = OlderOne(@),
          !.next = IF @ = None THEN None ELSE [@ EXCEPT !.changes = OlderAll(@)]]

Ages ==
  /\ server.scanned < MaxLag /\ worker.cur < MaxLag
  /\ store' = [p \in DOMAIN store |-> OlderEntry(store[p])]
  /\ calls' = [c \in Calls |-> OlderCall(calls[c])]
  /\ server' = [server EXCEPT !.alertedBy = Older(@, AlertCap),
                              !.scanned = @ + 1,
                              !.refreshed = Older(@, RefreshTimeout)]
  /\ worker' = OlderWorker
  /\ UNCHANGED <<mutex, faults>>

\* Events that no scan can reach any more are forgotten.
PastEvents ==
  {[e EXCEPT !.age = @ + 1] : e \in {f \in chain.events : f.age < MaxLag}}

Tick ==
  /\ Ages
  /\ chain' = [chain EXCEPT !.events = PastEvents]

\* A block with a transaction of the worker. The paymaster accepts and pays,
\* or rejects; a paymaster that cannot pay makes the hub revert.
Mine(t, accepted) ==
  /\ t \in chain.sent
  /\ Ages
  /\ LET pays  == chain.deposit[t.paymaster] >= t.fee
         event == [call |-> t.call, paymaster |-> t.paymaster,
                   accepted |-> accepted, age |-> 0, handled |-> 0]
     IN  chain' = [chain EXCEPT
           !.sent = @ \ {t},
           !.nonce = @ + 1,
           !.deposit[t.paymaster] = IF pays /\ accepted THEN @ - t.fee ELSE @,
           !.events = PastEvents \cup (IF pays THEN {event} ELSE {})]

\* The process is started again. The store of reputations is in memory.
Restart ==
  /\ Fault
  /\ store' = <<>>
  /\ mutex' = None
  /\ calls' = [c \in Calls |-> IF At(c, "idle") THEN NoCall
                               ELSE [NoCall EXCEPT !.pc = "done"]]
  /\ server' = Starting
  /\ worker' = Asleep
  /\ chain' = [chain EXCEPT !.events = {[e EXCEPT !.handled = 0] : e \in @}]

Next ==
  \/ \E c \in Calls, r \in Requests : Arrive(c, r)
  \/ \E c \in Calls : CallStep(c) \/ CallFails(c)
  \/ WorkerStep \/ WorkerFails
  \/ Tick
  \/ \E t \in chain.sent, ok \in BOOLEAN : Mine(t, ok)
  \/ Restart

Fairness ==
  /\ \A c \in Calls : WF_vars(CallStep(c))
  /\ WF_vars(WorkerStep)
  /\ WF_vars(Tick)

Spec == Init /\ [][Next]_vars /\ Fairness

-----------------------------------------------------------------------------
(* What is expected of the admission of requests.                          *)

EntryOK(entry) ==
  /\ entry.reputation \in Int /\ entry.reputation <= MaximumReputation
  /\ entry.accepted \in 0..AcceptedCap
  /\ entry.flagged \in 0..AbuseCap \cup {None}
  /\ \A i \in DOMAIN entry.changes :
       entry.changes[i].age \in 0..AbuseCap /\ entry.changes[i].change \in {-1, 1}

\* The types, among them that no reputation exceeds maximumReputation: the
\* bound is tested on one read of the entry and the sum computed from another.
TypeOK ==
  /\ \A p \in DOMAIN store : EntryOK(store[p])
  /\ mutex \in Calls \cup {None}
  /\ \A c \in Calls : calls[c].left \in Nat
  /\ server.ready \in BOOLEAN /\ server.alerted \in BOOLEAN
  /\ server.scanned \in 0..MaxLag
  /\ worker.cur \in 0..MaxLag
  /\ chain.deposit \in [Paymasters -> 0..Deposit]
  /\ faults \in 0..MaxFaults

\* Two requests never both set out to create the entry of a paymaster, of
\* which the second would fail on the unique index: getPaymasterStatus holds
\* the mutex from the first read to the insertion (ReputationManager.ts:67-91).
CreatedOnce ==
  \A c, d \in Calls :
    /\ At(c, "create") /\ At(d, "create")
    /\ calls[c].req.paymaster = calls[d].req.paymaster
    => c = d

\* While nothing has failed, every event of a scanned block has been handled
\* once or twice by the time the pass is over: never missed, although
\* lastScannedBlock moves on first, and never counted a third time, although
\* a scan reads up to 'latest' and the next one starts at the pass's block
\* (RelayServer.ts:842-846, :767).
ScannedIsHandled ==
  Working("asleep") /\ faults = MaxFaults =>
    \A e \in chain.events :
      /\ e.handled <= 2
      /\ e.age >= server.scanned => e.handled > 0

\* Every request is answered, whatever fails while it is checked: the mutex
\* is released on every way out (RelayServer.createRelayTransaction).
CallsEnd ==
  \A c \in Calls : calls[c].pc # "idle" ~> At(c, "done")

\* The alert ends once the rejections do (RelayServer.ts:779-782).
AlertEnds == server.alerted ~> ~server.alerted

\* A trusted paymaster has unlimited reputation (ServerConfigParams.ts:116):
\* a request for it that passed the other checks is not refused because of
\* its reputation.
TrustedIsServed ==
  [][\A c \in Calls :
       /\ At(c, "accept")
       /\ calls[c].req.paymaster \in Trusted
       /\ calls'[c].pc = "done"
       => faults' < faults]_vars

=============================================================================
