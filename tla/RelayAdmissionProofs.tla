------------------------- MODULE RelayAdmissionProofs -------------------------
(***************************************************************************)
(* Why the entry of a paymaster is created once, and why no event of the   *)
(* hub is missed or counted a third time.                                  *)
(*                                                                         *)
(* The first holds because whoever is between the first read of            *)
(* getPaymasterStatus and its last write holds the mutex (MutexHeld).  The *)
(* second is an argument about intervals of blocks: a pass reads from the  *)
(* block after the one the last pass was called with up to the latest one, *)
(* and the next pass is not called with an earlier block than that         *)
(* (Counted).  It needs that the pass does not fail half-way, and so that  *)
(* the paymaster of an event has an entry by then (EverKnown), and that a  *)
(* request is sent once (SentOnce).                                        *)
(***************************************************************************)
EXTENDS RelayAdmission, TLAPS

HubEvents ==
  [call : Calls, paymaster : Paymasters, accepted : BOOLEAN, age : Nat,
   handled : Nat]

\* The pass is dealing with an event.
InHand ==
  worker.pc \in {"alert", "entry", "create", "flag", "flagged", "existing",
                 "find", "write"}

BeforeScan == worker.pc \in {"asleep", "fees", "balances", "events"}

\* The records have their fields.
CallsShape ==
  /\ DOMAIN calls = Calls
  /\ \A c \in Calls : DOMAIN calls[c] = {"pc", "req", "seen", "left"}

WorkerShape == DOMAIN worker = {"pc", "cur", "todo", "event", "seen", "next"}

ServerShape ==
  DOMAIN server = {"ready", "alerted", "alertedBy", "scanned", "refreshed",
                   "minFee", "minPriority"}

ChainShape == DOMAIN chain = {"deposit", "sent", "nonce", "events"}

RequestsOK ==
  /\ CallsShape
  /\ \A c \in Calls : calls[c].pc \notin {"idle", "done"} => calls[c].req \in Requests

PassOK ==
  /\ WorkerShape /\ ServerShape
  /\ server.scanned \in Nat /\ worker.cur \in Nat
  /\ worker.todo \subseteq HubEvents
  /\ InHand => worker.event \in HubEvents
  /\ BeforeScan \/ worker.pc \in {"scanned", "handle"} \/ InHand

ChainOK ==
  /\ ChainShape
  /\ chain.events \subseteq HubEvents
  /\ \A t \in chain.sent : t.call \in Calls /\ t.paymaster \in Paymasters

MutexHeld ==
  \A c \in Calls :
    calls[c].pc \in {"read", "create", "clear", "cleared"} => mutex = c

\* A request has one transaction, which has one event, which a pass has once.
SentOnce ==
  /\ \A t \in chain.sent : At(t.call, "done")
  /\ \A e \in chain.events : At(e.call, "done")
  /\ \A t, u \in chain.sent : t.call = u.call => t = u
  /\ \A e, f \in chain.events : e.call = f.call => e = f
  /\ \A t \in chain.sent, e \in chain.events : t.call # e.call

TodoOnce ==
  /\ \A e, f \in worker.todo : e.call = f.call => e = f
  /\ InHand => \A e \in worker.todo : e.call # worker.event.call

\* What is sent, and what comes of it, is about a paymaster with an entry.
EverKnown ==
  faults = MaxFaults =>
    /\ \A c \in Calls : calls[c].pc \in {"accepted", "send"} => Known(calls[c].req.paymaster)
    /\ \A t \in chain.sent : Known(t.paymaster)
    /\ \A e \in chain.events \cup worker.todo : Known(e.paymaster)
    /\ InHand => Known(worker.event.paymaster)
    /\ worker.pc # "create"

\* The requests whose events the pass has still to deal with.
Pending ==
  {e.call : e \in worker.todo} \cup (IF InHand THEN {worker.event.call} ELSE {})

NotSentAgain ==
  \A x \in Pending : At(x, "done") /\ \A t \in chain.sent : t.call # x

\* How often an event has been dealt with, by where its block lies: before or
\* after the block of the last pass, and before or after that of this one.
CountedBefore(e) ==
  /\ e.age >= server.scanned => e.handled \in 1..2
  /\ e.age < server.scanned => e.handled <= 1
  /\ e.age < worker.cur => e.handled = 0

CountedRead(e) ==
  /\ e.call \in Pending => e.age < server.scanned /\ e.handled <= 1
  /\ e.call \notin Pending /\ e.age >= server.scanned => e.handled \in 1..2
  /\ e.call \notin Pending /\ e.age < server.scanned => e.age < worker.cur
  /\ e.age < worker.cur => e.handled = 0

CountedDuring(e) ==
  /\ e.call \in Pending => e.handled <= 1
  /\ e.call \in Pending /\ e.age < server.scanned => e.handled = 0
  /\ e.call \notin Pending /\ e.age >= server.scanned => e.handled \in 1..2
  /\ e.call \notin Pending /\ e.age < server.scanned => e.handled <= 1

Counted ==
  faults = MaxFaults =>
    /\ BeforeScan =>
         worker.cur <= server.scanned /\ \A e \in chain.events : CountedBefore(e)
    /\ worker.pc = "scanned" =>
         worker.cur <= server.scanned /\ \A e \in chain.events : CountedRead(e)
    /\ worker.pc = "handle" \/ InHand =>
         worker.cur = server.scanned /\ \A e \in chain.events : CountedDuring(e)

FaultsOK == faults \in 0..MaxFaults

IInv ==
  /\ RequestsOK /\ PassOK /\ ChainOK /\ FaultsOK
  /\ MutexHeld /\ SentOnce /\ TodoOnce /\ NotSentAgain /\ EverKnown /\ Counted

-----------------------------------------------------------------------------
(* What the helpers do to the records.                                     *)

\* A request's record is replaced, the others are left alone.
Replaces(c, pc, kept) ==
  /\ CallsShape'
  /\ calls'[c].pc = pc
  /\ kept => calls'[c].req = calls[c].req
  /\ \A d \in Calls \ {c} : calls'[d] = calls[d]

LEMMA ToEffect ==
  ASSUME CallsShape, NEW c \in Calls, NEW pc, To(c, pc)
  PROVE  Replaces(c, pc, TRUE)
BY DEF CallsShape, To, Replaces

LEMMA ToWithEffect ==
  ASSUME CallsShape, NEW c \in Calls, NEW pc, NEW entry, ToWith(c, pc, entry)
  PROVE  Replaces(c, pc, TRUE)
BY DEF CallsShape, ToWith, Replaces

LEMMA DoneEffect ==
  ASSUME CallsShape, NEW c \in Calls, Done(c)
  PROVE  Replaces(c, "done", FALSE)
BY DEF CallsShape, Done, Replaces, NoCall

\* A pass of the worker goes on.
LEMMA GoEffect ==
  ASSUME WorkerShape, NEW pc, Go(pc)
  PROVE  /\ WorkerShape' /\ worker'.pc = pc
         /\ worker'.cur = worker.cur /\ worker'.todo = worker.todo
         /\ worker'.event = worker.event
BY DEF WorkerShape, Go

\* An entry is never taken away while the process runs.
LEMMA WriteEffect ==
  ASSUME NEW p, NEW entry, Write(p, entry)
  PROVE  Known(p)' /\ \A q : Known(q) => Known(q)'
BY DEF Write, Known

-----------------------------------------------------------------------------
(* A step of a request.                                                    *)

\* What any step of a request keeps to.
RequestMoves(c) ==
  /\ CallsShape'
  /\ ~At(c, "done") /\ calls'[c].pc # "idle"
  /\ \A d \in Calls \ {c} : calls'[d] = calls[d]
  /\ calls'[c].pc # "done" => calls'[c].req \in Requests
  /\ calls'[c].pc \in {"read", "create", "clear", "cleared"} => mutex' = c
  /\ \/ mutex' = mutex
     \/ mutex = None
     \/ mutex = c
  /\ \A q : Known(q) => Known(q)'
  /\ faults = MaxFaults /\ calls'[c].pc \in {"accepted", "send"} =>
       calls'[c].req.paymaster \in DOMAIN store'
  /\ UNCHANGED <<server, worker>>
  /\ faults' = faults \/ (faults > 0 /\ faults' = faults - 1)
  /\ \/ UNCHANGED chain
     \/ /\ At(c, "send") /\ calls'[c].pc = "done"
        /\ chain' = [chain EXCEPT !.sent = @ \cup
             {[call |-> c, paymaster |-> calls[c].req.paymaster, fee |-> calls[c].req.fee]}]

LEMMA ArriveMoves ==
  ASSUME IInv, NEW c \in Calls, NEW r \in Requests, Arrive(c, r)
  PROVE  RequestMoves(c)
<1> DEFINE come(pc) == [pc |-> pc, req |-> r, seen |-> None,
                        left |-> IF pc = "lock" THEN 0 ELSE r.validFor]
<1>1. \/ calls' = [calls EXCEPT ![c] = [NoCall EXCEPT !.pc = "done"]]
      \/ \E pc \in {"lock", "slowed", "block"} : calls' = [calls EXCEPT ![c] = come(pc)]
  BY DEF Arrive
<1>2. /\ CallsShape' /\ calls'[c].pc \in {"lock", "slowed", "block", "done"}
      /\ calls'[c].pc # "done" => calls'[c].req = r
      /\ \A d \in Calls \ {c} : calls'[d] = calls[d]
  <2>1. CASE calls' = [calls EXCEPT ![c] = [NoCall EXCEPT !.pc = "done"]]
    BY <2>1 DEF IInv, RequestsOK, CallsShape, NoCall
  <2>2. ASSUME NEW pc \in {"lock", "slowed", "block"}, calls' = [calls EXCEPT ![c] = come(pc)]
        PROVE  <1>2!1 /\ <1>2!2 /\ <1>2!3
    BY <2>2 DEF IInv, RequestsOK, CallsShape
  <2>3. QED
    BY <1>1, <2>1, <2>2
<1>3. QED
  BY <1>2 DEF Arrive, RequestMoves, At, Known

\* A request goes on to pc, or is over.
Advances(c, pc) == Replaces(c, pc, TRUE) \/ Replaces(c, "done", FALSE)

LEMMA AdvanceMoves ==
  ASSUME IInv, NEW c \in Calls, NEW pc, Advances(c, pc), pc # "idle",
         calls[c].pc \notin {"idle", "done"},
         pc \in {"read", "create", "clear", "cleared"} => mutex' = c,
         mutex' = mutex \/ mutex = None \/ mutex = c,
         \A q : Known(q) => Known(q)',
         faults = MaxFaults /\ pc \in {"accepted", "send"} =>
           calls[c].req.paymaster \in DOMAIN store',
         UNCHANGED <<server, worker, chain>>,
         faults' = faults \/ (faults > 0 /\ faults' = faults - 1)
  PROVE  RequestMoves(c)
<1>1. calls[c].req \in Requests
  BY DEF IInv, RequestsOK
<1>2. CASE Replaces(c, pc, TRUE)
  BY <1>1, <1>2 DEF Replaces, RequestMoves, At, Known
<1>3. CASE Replaces(c, "done", FALSE)
  BY <1>1, <1>3 DEF Replaces, RequestMoves, At, Known
<1>4. QED
  BY <1>2, <1>3 DEF Advances

LEMMA JudgeEffect ==
  ASSUME IInv, NEW c \in Calls, NEW entry, Judge(c, entry),
         calls[c].pc \in {"read", "create"}
  PROVE  /\ mutex = c
         /\ \E pc \in {"limits", "clear"} :
              Advances(c, pc) /\ (pc = "clear" => mutex' = c)
<1>1. mutex = c /\ CallsShape
  BY DEF IInv, MutexHeld, RequestsOK
<1>2. ASSUME NEW good, Return(c, good)
      PROVE  Advances(c, "limits")
  BY <1>1, <1>2, ToWithEffect, DoneEffect DEF Return, Advances
<1>3. ASSUME ToWith(c, "clear", entry), UNCHANGED mutex
      PROVE  Advances(c, "clear") /\ mutex' = c
  BY <1>1, <1>3, ToWithEffect DEF Advances
<1>4. QED
  BY <1>1, <1>2, <1>3 DEF Judge

LEMMA CallStepMoves ==
  ASSUME IInv, NEW c \in Calls, CallStep(c)
  PROVE  RequestMoves(c)
<1>1. CallsShape /\ None # c
  BY AdmissionConstants DEF IInv, RequestsOK
<1>2. CASE SlowedDown(c)
  BY <1>1, <1>2, ToEffect, AdvanceMoves DEF SlowedDown, At, Advances, Known
<1>3. CASE Validate(c)
  <2>1. Advances(c, "nonce")
    <3>1. CASE Done(c)
      BY <1>1, <3>1, DoneEffect DEF Advances
    <3>2. CASE calls' = [calls EXCEPT ![c] = [@ EXCEPT !.pc = "nonce", !.left = 0]]
      BY <1>1, <3>2 DEF Advances, Replaces, CallsShape
    <3>3. QED
      BY <1>3, <3>1, <3>2 DEF Validate
  <2>2. QED
    BY <1>3, <2>1, AdvanceMoves DEF Validate, At, Known
<1>4. CASE ValidateMaxNonce(c)
  <2>1. PICK pc \in {"limits", "lock"} : Advances(c, pc)
    BY <1>1, <1>4, ToEffect, DoneEffect DEF ValidateMaxNonce, MayCheck, Advances
  <2>2. QED
    BY <1>4, <2>1, AdvanceMoves DEF ValidateMaxNonce, At, Known
<1>5. CASE Acquire(c)
  BY <1>1, <1>5, ToEffect, AdvanceMoves DEF Acquire, At, Advances, Known
<1>6. CASE GetStatus(c)
  <2> DEFINE p == calls[c].req.paymaster
  <2>1. At(c, "read") /\ mutex = c /\ UNCHANGED <<store, server, worker, chain, faults>>
    BY <1>6 DEF GetStatus, At, IInv, MutexHeld
  <2>2. CASE Judge(c, store[p])
    <3>1. PICK pc \in {"limits", "clear"} :
            Advances(c, pc) /\ (pc = "clear" => mutex' = c)
      BY <2>1, <2>2, JudgeEffect DEF At
    <3>2. QED
      BY <2>1, <3>1, AdvanceMoves DEF At, Known
  <2>3. CASE To(c, "create") /\ UNCHANGED mutex
    BY <1>1, <2>1, <2>3, ToEffect, AdvanceMoves DEF At, Advances, Known
  <2>4. QED
    BY <1>6, <2>2, <2>3 DEF GetStatus
<1>7. CASE CreateEntry(c)
  <2> DEFINE p == calls[c].req.paymaster
  <2>1. At(c, "create") /\ mutex = c /\ UNCHANGED <<server, worker, chain, faults>>
    BY <1>7 DEF CreateEntry, At, IInv, MutexHeld
  <2>2. CASE Return(c, FALSE) /\ UNCHANGED store
    <3>1. Advances(c, "done")
      BY <1>1, <2>2, DoneEffect DEF Return, Advances
    <3>2. QED
      BY <2>1, <2>2, <3>1, AdvanceMoves DEF At, Known
  <2>3. CASE Write(p, Entry(InitialReputation)) /\ Judge(c, Entry(InitialReputation))
    <3>1. \A q : Known(q) => Known(q)'
      BY <2>3, WriteEffect
    <3>2. PICK pc \in {"limits", "clear"} :
            Advances(c, pc) /\ (pc = "clear" => mutex' = c)
      BY <2>1, <2>3, JudgeEffect DEF At
    <3>3. QED
      BY <2>1, <3>1, <3>2, AdvanceMoves DEF At
  <2>4. QED
    BY <1>7, <2>2, <2>3 DEF CreateEntry
<1>8. CASE ClearFind(c)
  <2>1. Replaces(c, "cleared", TRUE) /\ mutex = c
    BY <1>1, <1>8, ToWithEffect DEF ClearFind, At, IInv, MutexHeld
  <2>2. QED
    BY <1>8, <2>1, AdvanceMoves DEF ClearFind, At, Advances, Known
<1>9. CASE ClearWrite(c)
  <2>1. Advances(c, "limits") /\ mutex = c
    BY <1>1, <1>9, ToWithEffect, DoneEffect
       DEF ClearWrite, Return, Advances, At, IInv, MutexHeld
  <2>2. \A q : Known(q) => Known(q)'
    BY <1>9, WriteEffect DEF ClearWrite
  <2>3. QED
    BY <1>9, <2>1, <2>2, AdvanceMoves DEF ClearWrite, At
<1>10. CASE CheckLimits(c)
  BY <1>1, <1>10, ToEffect, DoneEffect, AdvanceMoves DEF CheckLimits, At, Advances, Known
<1>11. ASSUME NEW ok \in BOOLEAN, ViewCall(c, ok)
       PROVE  RequestMoves(c)
  BY <1>1, <1>11, ToEffect, DoneEffect, AdvanceMoves DEF ViewCall, At, Advances, Known
<1>12. CASE AcceptFind(c)
  <2>1. \/ Replaces(c, "accepted", TRUE) /\ Known(calls[c].req.paymaster)
        \/ Replaces(c, "done", FALSE)
    BY <1>1, <1>12, ToWithEffect, DoneEffect DEF AcceptFind
  <2>2. PICK pc \in {"accepted", "done"} :
          /\ Advances(c, pc)
          /\ pc = "accepted" => Known(calls[c].req.paymaster)
    BY <2>1 DEF Advances
  <2>3. QED
    BY <1>12, <2>2, AdvanceMoves DEF AcceptFind, At, Known
<1>13. CASE AcceptWrite(c)
  <2>1. Replaces(c, "send", TRUE)
    BY <1>1, <1>13, ToWithEffect DEF AcceptWrite
  <2>2. calls[c].req.paymaster \in DOMAIN store' /\ \A q : Known(q) => Known(q)'
    <3>1. Write(calls[c].req.paymaster, [calls[c].seen EXCEPT !.accepted = 0])
      BY <1>13 DEF AcceptWrite
    <3>2. QED
      BY <3>1 DEF Write, Known
  <2>3. QED
    BY <1>13, <2>1, <2>2, AdvanceMoves DEF AcceptWrite, At, Advances
<1>14. CASE Send(c)
  <2>1. Replaces(c, "done", FALSE)
    BY <1>1, <1>14, DoneEffect DEF Send
  <2>2. QED
    BY <1>14, <2>1 DEF Send, At, Replaces, RequestMoves, Known, IInv, RequestsOK
<1>15. QED
  BY <1>2, <1>3, <1>4, <1>5, <1>6, <1>7, <1>8, <1>9, <1>10, <1>11, <1>12, <1>13, <1>14
     DEF CallStep

LEMMA CallFailsMoves ==
  ASSUME IInv, NEW c \in Calls, CallFails(c)
  PROVE  RequestMoves(c)
<1>1. Replaces(c, "done", FALSE)
  BY DoneEffect DEF CallFails, IInv, RequestsOK
<1>2. QED
  BY <1>1 DEF CallFails, Fault, RequestMoves, Replaces, At, Known, IInv, FaultsOK

\* None of them disturbs the pass, nor what it counts.
LEMMA RequestKeepsIInv ==
  ASSUME IInv, NEW c \in Calls, RequestMoves(c)
  PROVE  IInv'
<1> DEFINE t == [call |-> c, paymaster |-> calls[c].req.paymaster, fee |-> calls[c].req.fee]
<1> HIDE DEF t
<1>1. /\ CallsShape' /\ ~At(c, "done")
      /\ \A d \in Calls \ {c} : calls'[d] = calls[d]
      /\ UNCHANGED <<server, worker>>
      /\ \A q : Known(q) => Known(q)'
  BY DEF RequestMoves
<1>2. /\ faults' \in 0..MaxFaults
      /\ faults' = MaxFaults => faults = MaxFaults
  BY AdmissionConstants DEF RequestMoves, IInv, FaultsOK
<1>3. /\ ChainShape' /\ chain'.events = chain.events
      /\ \/ chain'.sent = chain.sent
         \/ chain'.sent = chain.sent \cup {t} /\ At(c, "send") /\ calls'[c].pc = "done"
  BY DEF RequestMoves, IInv, ChainOK, ChainShape, t
<1>4. t.call = c /\ t.paymaster = calls[c].req.paymaster
  BY DEF t
<1>5. RequestsOK'
  BY <1>1 DEF RequestMoves, IInv, RequestsOK
<1>6. PassOK' /\ TodoOnce' /\ FaultsOK'
  BY <1>1, <1>2 DEF IInv, PassOK, TodoOnce, FaultsOK, WorkerShape, ServerShape, InHand,
                    BeforeScan
<1>7. ChainOK'
  <2>1. At(c, "send") => calls[c].req.paymaster \in Paymasters
    BY AdmissionConstants DEF IInv, RequestsOK, At, Paymasters
  <2>2. QED
    BY <1>3, <1>4, <2>1 DEF IInv, ChainOK
<1>8. MutexHeld'
  <2>1. ASSUME NEW d \in Calls \ {c},
               calls'[d].pc \in {"read", "create", "clear", "cleared"}
        PROVE  mutex' = d
    <3>1. mutex = d
      BY <1>1, <2>1 DEF IInv, MutexHeld
    <3>2. QED
      BY <2>1, <3>1, AdmissionConstants DEF RequestMoves
  <2>2. QED
    BY <2>1 DEF MutexHeld, RequestMoves
<1>9. SentOnce'
  <2>1. \A d \in Calls : At(d, "done") => d # c /\ At(d, "done")'
    BY <1>1 DEF At
  <2>2. /\ \A u \in chain.sent : u.call \in Calls /\ At(u.call, "done")
        /\ \A e \in chain.events : e.call \in Calls /\ At(e.call, "done")
    BY DEF IInv, ChainOK, HubEvents, SentOnce
  <2>3. CASE chain'.sent = chain.sent
    BY <1>3, <2>1, <2>2, <2>3 DEF IInv, SentOnce
  <2>4. CASE chain'.sent = chain.sent \cup {t} /\ calls'[c].pc = "done"
    <3>1. At(c, "done")'
      BY <2>4 DEF At
    <3>2. QED
      BY <1>3, <1>4, <2>1, <2>2, <2>4, <3>1 DEF IInv, SentOnce
  <2>5. QED
    BY <1>3, <2>3, <2>4
<1>10. EverKnown'
  <2> SUFFICES ASSUME faults' = MaxFaults
               PROVE  /\ \A d \in Calls : calls'[d].pc \in {"accepted", "send"} =>
                           calls'[d].req.paymaster \in DOMAIN store'
                      /\ \A u \in chain'.sent : Known(u.paymaster)'
                      /\ \A e \in chain'.events \cup worker'.todo : Known(e.paymaster)'
                      /\ InHand' => Known(worker.event.paymaster)'
                      /\ worker'.pc # "create"
    BY DEF EverKnown, Known
  <2>1. faults = MaxFaults
    BY <1>2
  <2>2. \A d \in Calls \ {c} : calls'[d].pc \in {"accepted", "send"} =>
          calls'[d].req.paymaster \in DOMAIN store'
    BY <1>1, <2>1 DEF IInv, EverKnown, Known
  <2>3. calls'[c].pc \in {"accepted", "send"} =>
          calls'[c].req.paymaster \in DOMAIN store'
    BY <2>1 DEF RequestMoves
  <2>4. \A u \in chain'.sent : Known(u.paymaster)'
    BY <1>1, <1>3, <1>4, <2>1 DEF IInv, EverKnown, At
  <2>5. /\ \A e \in chain'.events \cup worker'.todo : Known(e.paymaster)'
        /\ worker'.pc # "create"
    BY <1>1, <1>3, <2>1 DEF IInv, EverKnown
  <2>6. InHand' => Known(worker.event.paymaster)'
    BY <1>1, <2>1 DEF IInv, EverKnown, InHand, Known
  <2>7. QED
    BY <2>2, <2>3, <2>4, <2>5, <2>6
<1>11. Counted'
  BY <1>1, <1>2, <1>3 DEF IInv, Counted, BeforeScan, InHand, CountedBefore, CountedRead,
                          CountedDuring, Pending
<1>12. NotSentAgain'
  <2>1. Pending' = Pending
    BY <1>1 DEF Pending, InHand
  <2>2. \A x \in Pending : x # c /\ x \in Calls
    BY <1>1 DEF IInv, NotSentAgain, Pending, PassOK, HubEvents
  <2>3. QED
    BY <1>1, <1>3, <1>4, <2>1, <2>2 DEF IInv, NotSentAgain, At
<1>13. QED
  BY <1>5, <1>6, <1>7, <1>8, <1>9, <1>10, <1>11, <1>12 DEF IInv

-----------------------------------------------------------------------------
(* A step of the worker's pass.                                            *)

\* What the pass has in hand, and what it may take up.
InHandEvents == IF InHand THEN {worker.event} ELSE {}

\* What any step but Handled keeps to.
PassMoves ==
  /\ UNCHANGED <<mutex, calls, chain>>
  /\ \A q : Known(q) => Known(q)'
  /\ faults' = faults \/ (faults > 0 /\ faults' = faults - 1)
  /\ worker'.todo \subseteq worker.todo \cup chain.events
  /\ InHandEvents' \subseteq worker.todo \cup InHandEvents
  /\ faults' = MaxFaults => worker'.pc # "create"

LEMMA FaultsMove ==
  ASSUME IInv, faults' = faults \/ (faults > 0 /\ faults' = faults - 1)
  PROVE  FaultsOK' /\ (faults' = MaxFaults => faults = MaxFaults)
BY AdmissionConstants DEF IInv, FaultsOK

LEMMA PassKeepsIInv ==
  ASSUME IInv, PassMoves, PassOK', TodoOnce', Counted'
  PROVE  IInv'
<1>1. /\ UNCHANGED <<mutex, calls, chain>>
      /\ \A q : Known(q) => Known(q)'
  BY DEF PassMoves
<1>2. RequestsOK' /\ ChainOK' /\ MutexHeld' /\ SentOnce'
  BY <1>1 DEF IInv, RequestsOK, CallsShape, ChainOK, ChainShape, MutexHeld, SentOnce, At
<1>3. FaultsOK' /\ (faults' = MaxFaults => faults = MaxFaults)
  BY FaultsMove DEF PassMoves
<1>4. EverKnown'
  <2> SUFFICES ASSUME faults' = MaxFaults
               PROVE  /\ \A d \in Calls : calls'[d].pc \in {"accepted", "send"} =>
                           calls'[d].req.paymaster \in DOMAIN store'
                      /\ \A u \in chain'.sent : Known(u.paymaster)'
                      /\ \A e \in chain'.events \cup worker'.todo : Known(e.paymaster)'
                      /\ InHand' => Known(worker.event.paymaster)'
                      /\ worker'.pc # "create"
    BY DEF EverKnown, Known
  <2>1. /\ \A d \in Calls : calls[d].pc \in {"accepted", "send"} =>
             Known(calls[d].req.paymaster)
        /\ \A u \in chain.sent : Known(u.paymaster)
        /\ \A e \in (chain.events \cup worker.todo) \cup InHandEvents : Known(e.paymaster)
    BY <1>3 DEF IInv, EverKnown, InHandEvents
  <2>2. \A e \in worker'.todo \cup InHandEvents' : Known(e.paymaster)
    BY <2>1 DEF PassMoves
  <2>3. \A e \in (chain'.events \cup worker'.todo) \cup InHandEvents' : Known(e.paymaster)'
    BY <1>1, <2>1, <2>2
  <2>4. InHand' => worker'.event \in InHandEvents'
    BY DEF InHandEvents
  <2>5. InHand' => worker'.event.paymaster \in DOMAIN store'
    BY <2>3, <2>4 DEF Known
  <2>6. \A d \in Calls : calls'[d].pc \in {"accepted", "send"} =>
          calls'[d].req.paymaster \in DOMAIN store'
    BY <1>1, <2>1 DEF Known
  <2>7. worker'.pc # "create" /\ (\A u \in chain'.sent : Known(u.paymaster)')
    BY <1>1, <2>1 DEF PassMoves
  <2>8. QED
    BY <2>3, <2>5, <2>6, <2>7 DEF Known
<1>5. NotSentAgain'
  <2>1. \A x \in Pending : \E e \in worker.todo \cup InHandEvents : x = e.call
    BY DEF Pending, InHandEvents
  <2>2. \A e \in worker.todo \cup InHandEvents : e.call \in Pending
    BY DEF Pending, InHandEvents
  <2>3. \A x \in Pending' : \E e \in worker'.todo \cup InHandEvents' : x = e.call
    BY DEF Pending, InHandEvents
  <2>4. \A x \in Pending' : x \in Pending \/ \E e \in chain.events : x = e.call
    BY <2>2, <2>3 DEF PassMoves
  <2>5. QED
    BY <1>1, <2>4 DEF IInv, NotSentAgain, SentOnce, At
<1>6. QED
  BY <1>2, <1>3, <1>4, <1>5 DEF IInv

\* A pass that fails: nothing is left to do, and a fault has been counted.
LEMMA LostPass ==
  ASSUME IInv, UNCHANGED <<mutex, calls, chain>>, worker' = Asleep,
         ServerShape', server'.scanned \in Nat, \A q : Known(q) => Known(q)',
         faults' = faults \/ (faults > 0 /\ faults' = faults - 1),
         faults' # MaxFaults
  PROVE  IInv'
<1>1. /\ worker'.pc = "asleep" /\ worker'.cur = 0 /\ worker'.todo = {}
      /\ WorkerShape'
  BY DEF Asleep, WorkerShape
<1>2. ~InHand' /\ BeforeScan'
  BY <1>1 DEF InHand, BeforeScan
<1>3. PassOK' /\ TodoOnce' /\ Counted'
  BY <1>1, <1>2 DEF PassOK, TodoOnce, Counted
<1>4. PassMoves
  BY <1>1, <1>2 DEF PassMoves, InHandEvents
<1>5. QED
  BY <1>3, <1>4, PassKeepsIInv

\* A pass that has not yet read the events goes on, or begins.
LEMMA EarlyPass ==
  ASSUME IInv, UNCHANGED <<store, mutex, calls, chain>>, BeforeScan, BeforeScan',
         WorkerShape', ServerShape', server'.scanned = server.scanned,
         worker'.cur \in {0, worker.cur}, worker'.todo \in {{}, worker.todo},
         faults' = faults \/ (faults > 0 /\ faults' = faults - 1)
  PROVE  IInv'
<1>1. ~InHand' /\ worker'.pc \notin {"scanned", "handle", "create"}
  BY DEF BeforeScan, InHand
<1>2. server.scanned \in Nat /\ worker.cur \in Nat /\ worker.todo \subseteq HubEvents
  BY DEF IInv, PassOK
<1>3. PassOK' /\ TodoOnce'
  BY <1>1, <1>2 DEF PassOK, TodoOnce, IInv
<1>4. Counted'
  <2> SUFFICES ASSUME faults' = MaxFaults
               PROVE  /\ worker'.cur <= server'.scanned
                      /\ \A e \in chain'.events : CountedBefore(e)'
    BY <1>1 DEF Counted
  <2>1. /\ worker.cur <= server.scanned
        /\ \A e \in chain.events : CountedBefore(e) /\ e.age \in Nat
    BY FaultsMove DEF IInv, Counted, ChainOK, HubEvents
  <2>2. QED
    BY <1>2, <2>1 DEF CountedBefore
<1>5. PassMoves
  BY <1>1 DEF PassMoves, InHandEvents, Known
<1>6. QED
  BY <1>3, <1>4, <1>5, PassKeepsIInv

\* A pass that deals with an event goes on with it.
LEMMA SameEvent ==
  ASSUME IInv, UNCHANGED <<mutex, calls, chain, faults>>, InHand, InHand',
         WorkerShape', ServerShape', server'.scanned = server.scanned,
         worker'.cur = worker.cur, worker'.todo = worker.todo,
         worker'.event = worker.event, \A q : Known(q) => Known(q)',
         faults = MaxFaults => worker'.pc # "create"
  PROVE  IInv'
<1>1. ~BeforeScan' /\ worker'.pc # "scanned" /\ ~BeforeScan /\ worker.pc # "scanned"
  BY DEF InHand, BeforeScan
<1>2. PassOK' /\ TodoOnce'
  BY <1>1 DEF IInv, PassOK, TodoOnce
<1>3. Pending' = Pending
  BY DEF Pending
<1>4. Counted'
  BY <1>1, <1>3 DEF IInv, Counted, CountedDuring
<1>5. PassMoves
  BY DEF PassMoves, InHandEvents
<1>6. QED
  BY <1>2, <1>4, <1>5, PassKeepsIInv

\* The events read are those of the blocks after the last pass: whatever is read
\* has been dealt with at most once, by that pass.
LEMMA GetHubEventsStep ==
  ASSUME IInv, GetHubEvents
  PROVE  IInv'
<1>1. /\ worker.pc = "events" /\ BeforeScan /\ ~InHand
      /\ UNCHANGED <<store, mutex, calls, server, chain, faults>>
  BY DEF GetHubEvents, Working, BeforeScan, InHand
<1>2. /\ WorkerShape' /\ worker'.pc = "scanned" /\ worker'.cur = worker.cur
      /\ worker'.todo = SinceLastScan
  BY DEF GetHubEvents, IInv, PassOK, WorkerShape
<1>3. ~InHand' /\ ~BeforeScan'
  BY <1>2 DEF InHand, BeforeScan
<1>4. /\ chain.events \subseteq HubEvents
      /\ \A e, f \in chain.events : e.call = f.call => e = f
      /\ server.scanned \in Nat /\ worker.cur \in Nat
  BY DEF IInv, ChainOK, SentOnce, PassOK
<1>5. PassOK' /\ TodoOnce'
  BY <1>1, <1>2, <1>3, <1>4 DEF IInv, PassOK, TodoOnce, SinceLastScan, ServerShape
<1>6. \A e \in chain.events : e.call \in Pending' <=> e.age < server.scanned
  BY <1>2, <1>3, <1>4 DEF Pending, SinceLastScan
<1>7. Counted'
  <2>0. faults = MaxFaults => worker.cur <= server.scanned
    BY <1>1 DEF IInv, Counted
  <2> SUFFICES ASSUME faults = MaxFaults, NEW e \in chain.events
               PROVE  CountedRead(e)'
    BY <1>1, <1>2, <1>3, <2>0 DEF Counted
  <2>1. worker.cur <= server.scanned /\ CountedBefore(e) /\ e \in HubEvents
    BY <1>1, <1>4 DEF IInv, Counted
  <2>2. QED
    BY <1>1, <1>2, <1>4, <1>6, <2>1 DEF CountedRead, CountedBefore, HubEvents
<1>8. PassMoves
  BY <1>1, <1>2, <1>3 DEF PassMoves, InHandEvents, SinceLastScan, Known
<1>9. QED
  BY <1>5, <1>7, <1>8, PassKeepsIInv

\* lastScannedBlock moves on to the pass's block.
LEMMA ScanStep ==
  ASSUME IInv, NEW registered \in BOOLEAN, Scan(registered)
  PROVE  IInv'
<1>1. worker.pc = "scanned" /\ UNCHANGED <<store, mutex, calls, chain>>
  BY DEF Scan, Working
<1>2. WorkerShape /\ ServerShape /\ worker.cur \in Nat /\ server.scanned \in Nat
  BY DEF IInv, PassOK
<1>3. ServerShape' /\ server'.scanned = worker.cur
  BY <1>2 DEF Scan, ServerShape
<1>4. CASE registered
  <2>1. /\ WorkerShape' /\ worker'.pc = "handle" /\ worker'.cur = worker.cur
        /\ worker'.todo = worker.todo /\ UNCHANGED faults
    BY <1>2, <1>4, GoEffect DEF Scan, NoFault
  <2>2. ~InHand /\ ~InHand' /\ ~BeforeScan'
    BY <1>1, <2>1 DEF InHand, BeforeScan
  <2>3. PassOK' /\ TodoOnce'
    BY <1>2, <1>3, <2>1, <2>2 DEF IInv, PassOK, TodoOnce
  <2>4. Pending' = Pending
    BY <2>1, <2>2 DEF Pending
  <2>5. Counted'
    <3> SUFFICES ASSUME faults = MaxFaults, NEW e \in chain.events
                 PROVE  CountedDuring(e)'
      BY <1>1, <1>3, <2>1, <2>2 DEF Counted
    <3>1. worker.cur <= server.scanned /\ CountedRead(e) /\ e \in HubEvents
      BY <1>1 DEF IInv, Counted, ChainOK
    <3>2. QED
      BY <1>2, <1>3, <2>4, <3>1 DEF CountedRead, CountedDuring, HubEvents
  <2>6. PassMoves
    BY <1>1, <2>1, <2>2 DEF PassMoves, InHandEvents, Known
  <2>7. QED
    BY <2>3, <2>5, <2>6, PassKeepsIInv
<1>5. CASE ~registered
  <2>1. worker' = Asleep /\ faults' = faults - 1 /\ faults > 0
    BY <1>5 DEF Scan, Fault
  <2>2. faults' # MaxFaults
    BY <2>1, AdmissionConstants DEF IInv, FaultsOK
  <2>3. QED
    BY <1>1, <1>2, <1>3, <2>1, <2>2, LostPass DEF Known
<1>6. QED
  BY <1>4, <1>5

LEMMA HandleEventStep ==
  ASSUME IInv, HandleEvent
  PROVE  IInv'
<1>1. worker.pc = "handle" /\ UNCHANGED <<store, mutex, calls, chain, faults>>
  BY DEF HandleEvent, Working
<1>2. WorkerShape /\ ServerShape /\ worker.cur \in Nat /\ server.scanned \in Nat
  BY DEF IInv, PassOK
<1>3. PICK e \in worker.todo :
        /\ worker' = [worker EXCEPT !.pc = IF e.accepted THEN "entry" ELSE "alert",
                                    !.event = e, !.todo = @ \ {e}]
        /\ server' = [server EXCEPT !.alerted = @ \/ ~e.accepted]
  BY DEF HandleEvent
<1>4. /\ WorkerShape' /\ worker'.pc \in {"entry", "alert"} /\ worker'.cur = worker.cur
      /\ worker'.event = e /\ worker'.todo = worker.todo \ {e}
  BY <1>2, <1>3 DEF WorkerShape
<1>5. ServerShape' /\ server'.scanned = server.scanned
  BY <1>2, <1>3 DEF ServerShape
<1>6. ~InHand /\ InHand' /\ ~BeforeScan'
  BY <1>1, <1>4 DEF InHand, BeforeScan
<1>7. worker.todo \subseteq HubEvents /\ \A f, g \in worker.todo : f.call = g.call => f = g
  BY DEF IInv, PassOK, TodoOnce
<1>8. PassOK' /\ TodoOnce'
  BY <1>2, <1>4, <1>5, <1>6, <1>7 DEF PassOK, TodoOnce
<1>9. Pending' = Pending
  BY <1>4, <1>6 DEF Pending
<1>10. Counted'
  BY <1>1, <1>4, <1>5, <1>6, <1>9 DEF IInv, Counted, CountedDuring
<1>11. PassMoves
  BY <1>1, <1>4, <1>6 DEF PassMoves, InHandEvents, Known
<1>12. QED
  BY <1>8, <1>10, <1>11, PassKeepsIInv

LEMMA PassEndsStep ==
  ASSUME IInv, PassEnds
  PROVE  IInv'
<1>1. /\ worker.pc = "handle" /\ worker.todo = {} /\ worker' = Asleep
      /\ UNCHANGED <<store, mutex, calls, chain, faults>>
  BY DEF PassEnds, Working
<1>2. ServerShape' /\ server'.scanned = server.scanned
  BY DEF PassEnds, IInv, PassOK, ServerShape
<1>3. /\ worker'.pc = "asleep" /\ worker'.cur = 0 /\ worker'.todo = {} /\ WorkerShape'
      /\ server.scanned \in Nat
  BY <1>1 DEF Asleep, WorkerShape, IInv, PassOK
<1>4. ~InHand /\ ~InHand' /\ BeforeScan'
  BY <1>1, <1>3 DEF InHand, BeforeScan
<1>5. PassOK' /\ TodoOnce'
  BY <1>2, <1>3, <1>4 DEF PassOK, TodoOnce
<1>6. Pending = {}
  BY <1>1, <1>4 DEF Pending
<1>7. Counted'
  <2> SUFFICES ASSUME faults = MaxFaults, NEW e \in chain.events
               PROVE  CountedBefore(e)'
    BY <1>1, <1>2, <1>3, <1>4 DEF Counted
  <2>1. CountedDuring(e) /\ e \in HubEvents
    BY <1>1 DEF IInv, Counted, ChainOK
  <2>2. QED
    BY <1>2, <1>3, <1>6, <2>1 DEF CountedDuring, CountedBefore, HubEvents
<1>8. PassMoves
  BY <1>1, <1>3, <1>4 DEF PassMoves, InHandEvents, Known
<1>9. QED
  BY <1>5, <1>7, <1>8, PassKeepsIInv

\* The event has been dealt with once more, and is not pending any longer.
LEMMA HandledStep ==
  ASSUME IInv, InHand, Handled, UNCHANGED <<mutex, calls, server, faults>>,
         \A q : Known(q) => Known(q)'
  PROVE  IInv'
<1> DEFINE x == worker.event.call
           After(e) == IF e.call = x THEN [e EXCEPT !.handled = @ + 1] ELSE e
<1>1. /\ WorkerShape' /\ worker'.pc = "handle" /\ worker'.cur = worker.cur
      /\ worker'.todo = worker.todo
  BY DEF Handled, IInv, PassOK, WorkerShape
<1>2. /\ ChainShape' /\ chain'.sent = chain.sent
      /\ chain'.events = {After(e) : e \in chain.events}
  BY DEF Handled, IInv, ChainOK, ChainShape, Event
<1>3. \A e \in chain.events :
        /\ e \in HubEvents
        /\ After(e) \in HubEvents
        /\ After(e).call = e.call /\ After(e).paymaster = e.paymaster
        /\ After(e).age = e.age
        /\ After(e).handled = IF e.call = x THEN e.handled + 1 ELSE e.handled
  BY DEF IInv, ChainOK, HubEvents
<1> HIDE DEF After
<1>4. ~InHand' /\ ~BeforeScan' /\ ~BeforeScan /\ worker.pc # "scanned"
  BY <1>1 DEF InHand, BeforeScan
<1>5. x \notin {e.call : e \in worker.todo}
  BY DEF IInv, TodoOnce
<1>6. Pending = Pending' \cup {x} /\ x \notin Pending'
  BY <1>1, <1>4, <1>5 DEF Pending
<1>7. RequestsOK' /\ MutexHeld' /\ FaultsOK'
  BY DEF IInv, RequestsOK, CallsShape, MutexHeld, FaultsOK
<1>8. PassOK' /\ TodoOnce'
  BY <1>1, <1>4 DEF IInv, PassOK, TodoOnce, ServerShape
<1>9. ChainOK'
  BY <1>2, <1>3 DEF IInv, ChainOK
<1>10. SentOnce'
  BY <1>2, <1>3 DEF IInv, SentOnce, At
<1>11. EverKnown'
  <2> SUFFICES ASSUME faults = MaxFaults
               PROVE  /\ \A d \in Calls : calls[d].pc \in {"accepted", "send"} =>
                           Known(calls[d].req.paymaster)
                      /\ \A u \in chain.sent : Known(u.paymaster)
                      /\ \A e \in chain'.events \cup worker.todo : Known(e.paymaster)
    BY <1>1, <1>2, <1>4 DEF EverKnown, Known
  <2>1. QED
    BY <1>2, <1>3 DEF IInv, EverKnown
<1>12. Counted'
  <2>0. faults = MaxFaults => worker.cur = server.scanned
    BY DEF IInv, Counted
  <2> SUFFICES ASSUME faults = MaxFaults, NEW f \in chain'.events
               PROVE  CountedDuring(f)'
    BY <1>1, <1>4, <2>0 DEF Counted
  <2>1. PICK e \in chain.events : f = After(e)
    BY <1>2
  <2>2. worker.cur = server.scanned /\ CountedDuring(e)
    BY DEF IInv, Counted
  <2>3. server.scanned \in Nat
    BY DEF IInv, PassOK
  <2>4. QED
    BY <1>3, <1>6, <2>1, <2>2, <2>3 DEF CountedDuring, HubEvents
<1>13. NotSentAgain'
  BY <1>2, <1>6 DEF IInv, NotSentAgain, At
<1>14. QED
  BY <1>7, <1>8, <1>9, <1>10, <1>11, <1>12, <1>13 DEF IInv

LEMMA DecideStep ==
  ASSUME IInv, InHand, NEW entry, Decide(entry), \A q : Known(q) => Known(q)',
         UNCHANGED <<mutex, calls, server, faults>>
  PROVE  IInv'
<1>1. CASE Handled
  BY <1>1, HandledStep
<1>2. ASSUME NEW pc \in {"flag", "existing"}, Go(pc), UNCHANGED chain
      PROVE  IInv'
  <2>1. WorkerShape /\ ServerShape
    BY DEF IInv, PassOK
  <2>2. /\ WorkerShape' /\ worker'.pc = pc /\ worker'.cur = worker.cur
        /\ worker'.todo = worker.todo /\ worker'.event = worker.event
    BY <1>2, <2>1, GoEffect
  <2>3. QED
    BY <1>2, <2>1, <2>2, SameEvent DEF InHand, ServerShape
<1>3. QED
  BY <1>1, <1>2 DEF Decide

LEMMA WorkerKeepsIInv ==
  ASSUME IInv, WorkerStep \/ WorkerFails
  PROVE  IInv'
<1>1. WorkerShape /\ ServerShape /\ server.scanned \in Nat /\ worker.cur \in Nat
  BY DEF IInv, PassOK
<1>2. Fault => /\ faults' = faults \/ (faults > 0 /\ faults' = faults - 1)
               /\ faults' # MaxFaults
  BY AdmissionConstants DEF Fault, IInv, FaultsOK
<1>3. PassFails => worker' = Asleep /\ ServerShape' /\ server'.scanned = server.scanned
  BY <1>1 DEF PassFails, ServerShape
<1>4. ASSUME WorkerWakes
      PROVE  IInv'
  <2>1. /\ WorkerShape' /\ worker'.pc = "fees" /\ worker'.cur = 0 /\ worker'.todo = {}
    BY <1>4 DEF WorkerWakes, Asleep, WorkerShape
  <2>2. ServerShape' /\ server'.scanned = server.scanned
    BY <1>1, <1>4 DEF WorkerWakes, ServerShape
  <2>3. QED
    BY <1>4, <2>1, <2>2, EarlyPass DEF WorkerWakes, Working, BeforeScan
<1>5. ASSUME NEW f \in NetworkFees, RefreshGasFees(f)
      PROVE  IInv'
  <2> DEFINE fresh == [server EXCEPT !.minFee = f.base, !.minPriority = MinPriority(f)]
  <2>1. worker.pc = "fees" /\ UNCHANGED <<store, mutex, calls, chain>>
    BY <1>5 DEF RefreshGasFees, Working
  <2>2. CASE Fault /\ server' = [fresh EXCEPT !.ready = FALSE] /\ worker' = Asleep
    <3>1. ServerShape' /\ server'.scanned = server.scanned
      BY <1>1, <2>2 DEF ServerShape
    <3>2. QED
      BY <1>1, <1>2, <2>1, <2>2, <3>1, LostPass DEF Known
  <2>3. CASE NoFault /\ server' = fresh /\ Go("balances")
    <3>1. ServerShape' /\ server'.scanned = server.scanned
      BY <1>1, <2>3 DEF ServerShape
    <3>2. /\ WorkerShape' /\ worker'.pc = "balances" /\ worker'.cur = worker.cur
          /\ worker'.todo = worker.todo
      BY <1>1, <2>3, GoEffect
    <3>3. QED
      BY <2>1, <2>3, <3>1, <3>2, EarlyPass DEF NoFault, BeforeScan
  <2>4. QED
    BY <1>5, <2>2, <2>3 DEF RefreshGasFees
<1>6. ASSUME CheckBalances
      PROVE  IInv'
  <2>1. worker.pc = "balances" /\ UNCHANGED <<store, mutex, calls, chain>>
    BY <1>6 DEF CheckBalances, Working
  <2>2. CASE PassFails /\ Fault
    BY <1>1, <1>2, <1>3, <2>1, <2>2, LostPass DEF Known
  <2>3. ASSUME Go("events"), ServerShape', server'.scanned = server.scanned,
               faults' = faults \/ (faults > 0 /\ faults' = faults - 1)
        PROVE  IInv'
    <3>1. /\ WorkerShape' /\ worker'.pc = "events" /\ worker'.cur = worker.cur
          /\ worker'.todo = worker.todo
      BY <1>1, <2>3, GoEffect
    <3>2. QED
      BY <2>1, <2>3, <3>1, EarlyPass DEF BeforeScan
  <2>4. CASE Go("events") /\ NoFault /\ UNCHANGED server
    BY <1>1, <2>3, <2>4 DEF NoFault, ServerShape
  <2>5. CASE Fault /\ server' = [server EXCEPT !.ready = FALSE] /\ Go("events")
    BY <1>1, <1>2, <2>3, <2>5 DEF ServerShape
  <2>6. QED
    BY <1>6, <2>2, <2>4, <2>5 DEF CheckBalances
<1>7. ASSUME AlertBlock
      PROVE  IInv'
  <2>1. ServerShape' /\ server'.scanned = server.scanned
    BY <1>1, <1>7 DEF AlertBlock, ServerShape
  <2>2. /\ WorkerShape' /\ worker'.pc = "entry" /\ worker'.cur = worker.cur
        /\ worker'.todo = worker.todo /\ worker'.event = worker.event
    BY <1>1, <1>7, GoEffect DEF AlertBlock
  <2>3. QED
    BY <1>7, <2>1, <2>2, SameEvent DEF AlertBlock, Working, InHand, Known
<1>8. ASSUME GetEntry
      PROVE  IInv'
  <2>1. worker.pc = "entry" /\ InHand /\ UNCHANGED <<store, mutex, calls, server, faults>>
    BY <1>8 DEF GetEntry, Working, InHand
  <2>2. CASE Decide(store[Of])
    BY <2>1, <2>2, DecideStep DEF Known
  <2>3. CASE ~Known(Of) /\ Go("create") /\ UNCHANGED chain
    <3>1. /\ WorkerShape' /\ worker'.pc = "create" /\ worker'.cur = worker.cur
          /\ worker'.todo = worker.todo /\ worker'.event = worker.event
      BY <1>1, <2>3, GoEffect
    <3>2. faults # MaxFaults
      BY <2>1, <2>3 DEF IInv, EverKnown, Of, Event
    <3>3. QED
      BY <1>1, <2>1, <2>3, <3>1, <3>2, SameEvent DEF InHand, Known, ServerShape
  <2>4. QED
    BY <1>8, <2>2, <2>3 DEF GetEntry
<1>9. ASSUME CreateForEvent
      PROVE  IInv'
  <2>1. /\ worker.pc = "create" /\ InHand /\ UNCHANGED <<mutex, calls, faults>>
        /\ faults # MaxFaults
    BY <1>9 DEF CreateForEvent, Working, InHand, IInv, EverKnown
  <2>2. CASE PassFails /\ UNCHANGED <<store, chain>>
    BY <1>1, <1>3, <2>1, <2>2, LostPass DEF Known
  <2>3. CASE /\ Write(Of, Entry(InitialReputation)) /\ Decide(Entry(InitialReputation))
             /\ UNCHANGED server
    <3>1. \A q : Known(q) => Known(q)'
      BY <2>3, WriteEffect
    <3>2. QED
      BY <2>1, <2>3, <3>1, DecideStep
  <2>4. QED
    BY <1>9, <2>2, <2>3 DEF CreateForEvent
<1>10. ASSUME FlagFind
       PROVE  IInv'
  <2>1. /\ WorkerShape' /\ worker'.pc = "flagged" /\ worker'.cur = worker.cur
        /\ worker'.todo = worker.todo /\ worker'.event = worker.event
    BY <1>1, <1>10 DEF FlagFind, WorkerShape
  <2>2. QED
    BY <1>1, <1>10, <2>1, SameEvent DEF FlagFind, Working, InHand, Known, ServerShape
<1>11. ASSUME FlagWrite
       PROVE  IInv'
  <2>1. /\ WorkerShape' /\ worker'.pc = "existing" /\ worker'.cur = worker.cur
        /\ worker'.todo = worker.todo /\ worker'.event = worker.event
    BY <1>1, <1>11 DEF FlagWrite, WorkerShape
  <2>2. \A q : Known(q) => Known(q)'
    BY <1>11, WriteEffect DEF FlagWrite
  <2>3. QED
    BY <1>1, <1>11, <2>1, <2>2, SameEvent DEF FlagWrite, Working, InHand, ServerShape
<1>12. ASSUME UpdateExisting
       PROVE  IInv'
  <2>1. /\ WorkerShape' /\ worker'.pc = "find" /\ worker'.cur = worker.cur
        /\ worker'.todo = worker.todo /\ worker'.event = worker.event
    BY <1>1, <1>12 DEF UpdateExisting, WorkerShape
  <2>2. QED
    BY <1>1, <1>12, <2>1, SameEvent DEF UpdateExisting, Working, InHand, Known, ServerShape
<1>13. ASSUME UpdateFind
       PROVE  IInv'
  <2>1. /\ WorkerShape' /\ worker'.pc = "write" /\ worker'.cur = worker.cur
        /\ worker'.todo = worker.todo /\ worker'.event = worker.event
    BY <1>1, <1>13 DEF UpdateFind, WorkerShape
  <2>2. QED
    BY <1>1, <1>13, <2>1, SameEvent DEF UpdateFind, Working, InHand, Known, ServerShape
<1>14. ASSUME UpdateWrite
       PROVE  IInv'
  <2>1. \A q : Known(q) => Known(q)'
    BY <1>14, WriteEffect DEF UpdateWrite
  <2>2. QED
    BY <1>14, <2>1, HandledStep DEF UpdateWrite, Working, InHand
<1>15. ASSUME WorkerFails
       PROVE  IInv'
  BY <1>1, <1>2, <1>3, <1>15, LostPass DEF WorkerFails, Known
<1>16. QED
  BY <1>4, <1>5, <1>6, <1>7, <1>8, <1>9, <1>10, <1>11, <1>12, <1>13, <1>14, <1>15,
     GetHubEventsStep, ScanStep, HandleEventStep, PassEndsStep DEF WorkerStep

-----------------------------------------------------------------------------
(* The world.                                                              *)

\* A block changes ages only, and all of them alike.
LEMMA AgesEffect ==
  ASSUME IInv, Ages
  PROVE  /\ CallsShape' /\ UNCHANGED <<mutex, faults>>
         /\ \A c \in Calls : calls'[c].pc = calls[c].pc /\ calls'[c].req = calls[c].req
         /\ \A q : Known(q)' <=> Known(q)
         /\ ServerShape' /\ server'.scanned = server.scanned + 1
         /\ WorkerShape' /\ worker'.pc = worker.pc
         /\ worker'.cur = IF worker.pc = "asleep" THEN worker.cur ELSE worker.cur + 1
         /\ worker'.todo \subseteq HubEvents
         /\ \A f \in worker'.todo : \E e \in worker.todo :
              f = (IF worker.pc = "asleep" THEN e ELSE OlderOne(e))
              /\ f.call = e.call /\ f.paymaster = e.paymaster
         /\ {e.call : e \in worker'.todo} = {e.call : e \in worker.todo}
         /\ InHand => /\ worker'.event \in HubEvents
                      /\ worker'.event.call = worker.event.call
                      /\ worker'.event.paymaster = worker.event.paymaster
<1>1. CallsShape /\ ServerShape /\ WorkerShape /\ worker.todo \subseteq HubEvents
  BY DEF IInv, RequestsOK, PassOK
<1>2. \A c \in Calls : /\ DOMAIN OlderCall(calls[c]) = {"pc", "req", "seen", "left"}
                       /\ OlderCall(calls[c]).pc = calls[c].pc
                       /\ OlderCall(calls[c]).req = calls[c].req
  BY <1>1 DEF CallsShape, OlderCall
<1>3. /\ CallsShape' /\ UNCHANGED <<mutex, faults>>
      /\ \A c \in Calls : calls'[c].pc = calls[c].pc /\ calls'[c].req = calls[c].req
  BY <1>2 DEF CallsShape, Ages
<1>4. \A q : Known(q)' <=> Known(q)
  BY DEF Ages, Known
<1>5. ServerShape' /\ server'.scanned = server.scanned + 1
  BY <1>1 DEF ServerShape, Ages
<1>6. \A e \in HubEvents : /\ OlderOne(e) \in HubEvents
                           /\ OlderOne(e).call = e.call
                           /\ OlderOne(e).paymaster = e.paymaster
  BY DEF OlderOne, HubEvents, Older
<1>7. CASE worker.pc = "asleep"
  <2>1. worker' = worker /\ ~InHand
    BY <1>7 DEF Ages, OlderWorker, Working, InHand
  <2>2. QED
    BY <1>1, <1>3, <1>4, <1>5, <1>7, <2>1 DEF WorkerShape
<1>8. CASE worker.pc # "asleep"
  <2>1. /\ WorkerShape' /\ worker'.pc = worker.pc /\ worker'.cur = worker.cur + 1
        /\ worker'.todo = {OlderOne(e) : e \in worker.todo}
        /\ worker'.event = OlderOne(worker.event)
    BY <1>1, <1>8 DEF Ages, OlderWorker, Working, WorkerShape
  <2>2. InHand => worker.event \in HubEvents
    BY DEF IInv, PassOK
  <2>3. {e.call : e \in worker'.todo} = {e.call : e \in worker.todo}
    BY <1>1, <1>6, <2>1
  <2>4. QED
    BY <1>1, <1>3, <1>4, <1>5, <1>6, <1>8, <2>1, <2>2, <2>3
<1>9. QED
  BY <1>7, <1>8

\* A block with the transactions gone and the events fresh, one at most.
NewBlock(gone, fresh) ==
  /\ gone \subseteq chain.sent /\ fresh \subseteq HubEvents
  /\ ChainShape' /\ chain'.sent = chain.sent \ gone
  /\ chain'.events = PastEvents \cup fresh
  /\ \A e \in fresh : /\ e.age = 0 /\ e.handled = 0
                      /\ \E t \in gone : e.call = t.call /\ e.paymaster = t.paymaster
  /\ \A e, f \in fresh : e = f

LEMMA BlockPasses ==
  ASSUME IInv, Ages, NEW gone, NEW fresh, NewBlock(gone, fresh)
  PROVE  IInv'
<1>0. /\ gone \in SUBSET chain.sent /\ fresh \in SUBSET HubEvents
      /\ ChainShape' /\ chain'.sent = chain.sent \ gone
      /\ chain'.events = PastEvents \cup fresh
      /\ \A e \in fresh : /\ e.age = 0 /\ e.handled = 0
                          /\ \E t \in gone : e.call = t.call /\ e.paymaster = t.paymaster
      /\ \A e, f \in fresh : e = f
  BY DEF NewBlock
<1> USE <1>0
<1> DEFINE Aged(e) == [e EXCEPT !.age = @ + 1]
<1>1. /\ CallsShape' /\ UNCHANGED <<mutex, faults>>
      /\ \A c \in Calls : calls'[c].pc = calls[c].pc /\ calls'[c].req = calls[c].req
      /\ \A q : Known(q)' <=> Known(q)
      /\ ServerShape' /\ server'.scanned = server.scanned + 1
      /\ WorkerShape' /\ worker'.pc = worker.pc
      /\ worker'.cur = IF worker.pc = "asleep" THEN worker.cur ELSE worker.cur + 1
      /\ worker'.todo \subseteq HubEvents
      /\ {e.call : e \in worker'.todo} = {e.call : e \in worker.todo}
      /\ InHand => /\ worker'.event \in HubEvents
                   /\ worker'.event.call = worker.event.call
                   /\ worker'.event.paymaster = worker.event.paymaster
  BY AgesEffect
<1>2. \A f \in worker'.todo : \E e \in worker.todo :
         f = (IF worker.pc = "asleep" THEN e ELSE OlderOne(e))
         /\ f.call = e.call /\ f.paymaster = e.paymaster
  BY AgesEffect
<1>3. /\ InHand' = InHand /\ BeforeScan' = BeforeScan
      /\ server.scanned \in Nat /\ worker.cur \in Nat
  BY <1>1 DEF InHand, BeforeScan, IInv, PassOK
<1>4. \A e \in chain.events :
        /\ e \in HubEvents /\ Aged(e) \in HubEvents
        /\ Aged(e).call = e.call /\ Aged(e).paymaster = e.paymaster
        /\ Aged(e).age = e.age + 1 /\ Aged(e).handled = e.handled
  BY DEF IInv, ChainOK, HubEvents
<1>5. \A f \in chain'.events \ fresh : \E e \in chain.events : f = Aged(e)
  BY DEF PastEvents
<1> HIDE DEF Aged
<1>6. \A e \in fresh : \E t \in chain.sent \ chain'.sent :
         e.call = t.call /\ e.paymaster = t.paymaster
  OBVIOUS
<1>7. chain'.sent \subseteq chain.sent
  OBVIOUS
<1>8. Pending' = Pending
  BY <1>1, <1>3 DEF Pending
<1>9. RequestsOK' /\ FaultsOK' /\ MutexHeld'
  BY <1>1 DEF IInv, RequestsOK, FaultsOK, MutexHeld
<1>10. PassOK'
  BY <1>1, <1>3 DEF IInv, PassOK
<1>11. ChainOK'
  <2>1. chain'.events \subseteq HubEvents
    BY <1>4, <1>5
  <2>2. QED
    BY <1>7, <2>1 DEF IInv, ChainOK
<1>12. SentOnce'
  <2>1. /\ \A t \in chain.sent : t.call \in Calls /\ At(t.call, "done")
        /\ \A e \in chain.events : e.call \in Calls /\ At(e.call, "done")
        /\ \A t, u \in chain.sent : t.call = u.call => t = u
        /\ \A e, f \in chain.events : e.call = f.call => e = f
        /\ \A t \in chain.sent, e \in chain.events : t.call # e.call
    BY <1>4 DEF IInv, SentOnce, ChainOK, HubEvents
  <2>2. \A c \in Calls : At(c, "done") => At(c, "done")'
    BY <1>1 DEF At
  <2>3. \A e \in chain'.events : At(e.call, "done")'
    BY <1>4, <1>5, <1>6, <2>1, <2>2
  <2>4. \A e, f \in chain'.events : e.call = f.call => e = f
    BY <1>4, <1>5, <1>6, <2>1
  <2>5. \A t \in chain'.sent, e \in chain'.events : t.call # e.call
    BY <1>4, <1>5, <1>6, <1>7, <2>1
  <2>6. QED
    BY <1>7, <2>1, <2>2, <2>3, <2>4, <2>5 DEF SentOnce
<1>13. TodoOnce'
  <2>1. \A e, f \in worker.todo : e.call = f.call => e = f
    BY DEF IInv, TodoOnce
  <2>2. \A e, f \in worker'.todo : e.call = f.call => e = f
    BY <1>2, <2>1
  <2>3. InHand => worker'.event.call \notin {e.call : e \in worker'.todo}
    BY <1>1 DEF IInv, TodoOnce
  <2>4. QED
    BY <1>3, <2>2, <2>3 DEF TodoOnce
<1>14. NotSentAgain'
  <2>1. \A x \in Pending : x \in Calls
    BY DEF Pending, IInv, PassOK, HubEvents
  <2>2. QED
    BY <1>1, <1>7, <1>8, <2>1 DEF IInv, NotSentAgain, At
<1>15. EverKnown'
  <2> SUFFICES ASSUME faults = MaxFaults
               PROVE  /\ \A c \in Calls : calls[c].pc \in {"accepted", "send"} =>
                           Known(calls[c].req.paymaster)
                      /\ \A t \in chain'.sent : Known(t.paymaster)
                      /\ \A e \in chain'.events \cup worker'.todo : Known(e.paymaster)
                      /\ InHand => Known(worker.event.paymaster)
                      /\ worker.pc # "create"
    BY <1>1, <1>3 DEF EverKnown, Known
  <2>1. /\ \A c \in Calls : calls[c].pc \in {"accepted", "send"} =>
             Known(calls[c].req.paymaster)
        /\ \A t \in chain.sent : Known(t.paymaster)
        /\ \A e \in chain.events \cup worker.todo : Known(e.paymaster)
        /\ InHand => Known(worker.event.paymaster)
        /\ worker.pc # "create"
    BY DEF IInv, EverKnown
  <2>2. \A e \in chain'.events : Known(e.paymaster)
    BY <1>4, <1>5, <1>6, <2>1
  <2>3. \A e \in worker'.todo : Known(e.paymaster)
    BY <1>2, <2>1
  <2>4. QED
    BY <1>7, <2>1, <2>2, <2>3
<1>16. Counted'
  <2> SUFFICES ASSUME faults = MaxFaults
               PROVE  Counted'
    BY <1>1 DEF Counted
  <2>1. \A e \in chain.events :
          /\ e.age \in Nat /\ e.handled \in Nat
          /\ Aged(e).call = e.call /\ Aged(e).age = e.age + 1 /\ Aged(e).handled = e.handled
    BY <1>4 DEF HubEvents
  <2>2. \A e \in fresh : e.age = 0 /\ e.handled = 0 /\ e.call \notin Pending
    BY DEF IInv, NotSentAgain
  <2>3. CASE BeforeScan
    <3>1. worker.cur <= server.scanned /\ \A e \in chain.events : CountedBefore(e)
      BY <2>3 DEF IInv, Counted
    <3>2. worker'.cur <= server'.scanned /\ worker'.cur \in {worker.cur, worker.cur + 1}
      BY <1>1, <1>3, <3>1
    <3>3. ASSUME NEW f \in chain'.events PROVE CountedBefore(f)'
      <4>1. CASE f \in fresh
        BY <1>1, <1>3, <2>2, <4>1 DEF CountedBefore
      <4>2. CASE f \notin fresh
        <5>1. PICK e \in chain.events : f = Aged(e)
          BY <1>5, <4>2
        <5>2. QED
          BY <1>1, <1>3, <2>1, <3>1, <3>2, <5>1 DEF CountedBefore
      <4>3. QED
        BY <4>1, <4>2
    <3>4. worker'.pc # "scanned" /\ worker'.pc # "handle" /\ ~InHand'
      BY <1>1, <1>3, <2>3 DEF BeforeScan, InHand
    <3>5. QED
      BY <3>2, <3>3, <3>4 DEF Counted
  <2>4. CASE worker.pc = "scanned"
    <3>1. worker.cur <= server.scanned /\ \A e \in chain.events : CountedRead(e)
      BY <2>4 DEF IInv, Counted
    <3>2. worker'.cur = worker.cur + 1 /\ worker'.cur <= server'.scanned
      BY <1>1, <1>3, <2>4, <3>1
    <3>3. ASSUME NEW f \in chain'.events PROVE CountedRead(f)'
      <4>1. CASE f \in fresh
        BY <1>1, <1>3, <1>8, <2>2, <3>2, <4>1 DEF CountedRead
      <4>2. CASE f \notin fresh
        <5>1. PICK e \in chain.events : f = Aged(e)
          BY <1>5, <4>2
        <5>2. QED
          BY <1>1, <1>3, <1>8, <2>1, <3>1, <3>2, <5>1 DEF CountedRead
      <4>3. QED
        BY <4>1, <4>2
    <3>4. ~BeforeScan' /\ worker'.pc # "handle" /\ ~InHand'
      BY <1>1, <2>4 DEF BeforeScan, InHand
    <3>5. QED
      BY <3>2, <3>3, <3>4 DEF Counted
  <2>5. CASE worker.pc = "handle" \/ InHand
    <3>1. worker.cur = server.scanned /\ \A e \in chain.events : CountedDuring(e)
      BY <2>5 DEF IInv, Counted
    <3>2. ~BeforeScan' /\ worker'.pc # "scanned" /\ worker.pc # "asleep"
      BY <1>1, <2>5 DEF BeforeScan, InHand
    <3>3. worker'.cur = server'.scanned
      BY <1>1, <3>1, <3>2
    <3>4. ASSUME NEW f \in chain'.events PROVE CountedDuring(f)'
      <4>1. CASE f \in fresh
        BY <1>1, <1>3, <1>8, <2>2, <4>1 DEF CountedDuring
      <4>2. CASE f \notin fresh
        <5>1. PICK e \in chain.events : f = Aged(e)
          BY <1>5, <4>2
        <5>2. QED
          BY <1>1, <1>3, <1>8, <2>1, <3>1, <5>1 DEF CountedDuring
      <4>3. QED
        BY <4>1, <4>2
    <3>5. QED
      BY <3>2, <3>3, <3>4 DEF Counted
  <2>6. QED
    BY <2>3, <2>4, <2>5 DEF IInv, PassOK
<1>17. QED
  BY <1>9, <1>10, <1>11, <1>12, <1>13, <1>14, <1>15, <1>16 DEF IInv

LEMMA TickStep ==
  ASSUME IInv, Tick
  PROVE  IInv'
<1>1. Ages /\ NewBlock({}, {})
  BY DEF Tick, IInv, ChainOK, ChainShape, NewBlock
<1>2. QED
  BY ONLY <1>1, IInv, BlockPasses

LEMMA MineStep ==
  ASSUME IInv, NEW t \in chain.sent, NEW accepted \in BOOLEAN, Mine(t, accepted)
  PROVE  IInv'
<1> DEFINE pays  == chain.deposit[t.paymaster] >= t.fee
           event == [call |-> t.call, paymaster |-> t.paymaster,
                     accepted |-> accepted, age |-> 0, handled |-> 0]
           fresh == IF pays THEN {event} ELSE {}
<1>1. t.call \in Calls /\ t.paymaster \in Paymasters
  BY DEF IInv, ChainOK
<1>2. event \in HubEvents /\ event.age = 0 /\ event.handled = 0
      /\ event.call = t.call /\ event.paymaster = t.paymaster
  BY <1>1 DEF HubEvents
<1>3. Ages /\ ChainShape' /\ chain'.sent = chain.sent \ {t}
      /\ chain'.events = PastEvents \cup fresh
  BY DEF Mine, IInv, ChainOK, ChainShape
<1> HIDE DEF pays, event
<1>4. NewBlock({t}, fresh)
  BY <1>2, <1>3 DEF NewBlock
<1> HIDE DEF fresh
<1>5. QED
  BY ONLY <1>3, <1>4, IInv, BlockPasses

LEMMA RestartStep ==
  ASSUME IInv, Restart
  PROVE  IInv'
<1> DEFINE Forgotten(e) == [e EXCEPT !.handled = 0]
<1>1. /\ worker' = Asleep /\ server' = Starting /\ mutex' = None
      /\ calls' = [c \in Calls |-> IF At(c, "idle") THEN NoCall
                                   ELSE [NoCall EXCEPT !.pc = "done"]]
      /\ faults > 0 /\ faults' = faults - 1
  BY DEF Restart, Fault
<1>2. /\ ChainShape' /\ chain'.sent = chain.sent
      /\ chain'.events = {Forgotten(e) : e \in chain.events}
  BY DEF Restart, IInv, ChainOK, ChainShape
<1>3. \A e \in chain.events : /\ e \in HubEvents /\ Forgotten(e) \in HubEvents
                              /\ Forgotten(e).call = e.call
  BY DEF IInv, ChainOK, HubEvents
<1> HIDE DEF Forgotten
<1>4. FaultsOK' /\ faults' # MaxFaults
  BY <1>1, AdmissionConstants DEF IInv, FaultsOK
<1>5. /\ CallsShape'
      /\ \A c \in Calls : calls'[c].pc = IF At(c, "idle") THEN "idle" ELSE "done"
  BY <1>1 DEF CallsShape, NoCall
<1>6. /\ WorkerShape' /\ ServerShape' /\ worker'.pc = "asleep" /\ worker'.cur = 0
      /\ worker'.todo = {} /\ server'.scanned = ScanBack /\ ScanBack \in Nat
  BY <1>1, AdmissionConstants DEF Asleep, Starting, WorkerShape, ServerShape
<1>7. ~InHand' /\ BeforeScan'
  BY <1>6 DEF InHand, BeforeScan
<1>8. Pending' = {}
  BY <1>6, <1>7 DEF Pending
<1>9. RequestsOK' /\ MutexHeld'
  BY <1>5 DEF RequestsOK, MutexHeld
<1>10. PassOK' /\ TodoOnce'
  BY <1>6, <1>7 DEF PassOK, TodoOnce
<1>11. ChainOK'
  BY <1>2, <1>3 DEF IInv, ChainOK
<1>12. SentOnce'
  <2>1. \A c \in Calls : At(c, "done") => At(c, "done")'
    BY <1>5 DEF At
  <2>2. /\ \A t \in chain.sent : t.call \in Calls
        /\ \A e \in chain.events : e.call \in Calls
    BY DEF IInv, ChainOK, HubEvents
  <2>3. QED
    BY <1>2, <1>3, <2>1, <2>2 DEF IInv, SentOnce
<1>13. NotSentAgain'
  BY <1>8 DEF NotSentAgain
<1>14. EverKnown' /\ Counted'
  BY <1>4 DEF EverKnown, Counted
<1>15. QED
  BY <1>4, <1>9, <1>10, <1>11, <1>12, <1>13, <1>14 DEF IInv

LEMMA InitIInv == Init => IInv
<1> SUFFICES ASSUME Init PROVE IInv
  OBVIOUS
<1>1. /\ CallsShape /\ \A c \in Calls : calls[c].pc = "idle"
  BY DEF Init, CallsShape, NoCall
<1>2. /\ WorkerShape /\ ServerShape /\ worker.pc = "asleep" /\ worker.cur = 0
      /\ worker.todo = {} /\ server.scanned = ScanBack /\ ScanBack \in Nat
  BY AdmissionConstants DEF Init, Asleep, Starting, WorkerShape, ServerShape
<1>3. ChainShape /\ chain.sent = {} /\ chain.events = {}
  BY DEF Init, ChainShape
<1>4. ~InHand /\ BeforeScan
  BY <1>2 DEF InHand, BeforeScan
<1>5. RequestsOK /\ MutexHeld
  BY <1>1 DEF RequestsOK, MutexHeld
<1>6. PassOK /\ TodoOnce /\ Pending = {}
  BY <1>2, <1>4 DEF PassOK, TodoOnce, Pending
<1>7. ChainOK /\ SentOnce /\ NotSentAgain
  BY <1>3, <1>6 DEF ChainOK, SentOnce, NotSentAgain
<1>8. FaultsOK
  BY AdmissionConstants DEF Init, FaultsOK
<1>9. EverKnown
  BY <1>1, <1>2, <1>3, <1>4 DEF EverKnown
<1>10. Counted
  BY <1>2, <1>3, <1>4 DEF Counted, BeforeScan
<1>11. QED
  BY <1>5, <1>6, <1>7, <1>8, <1>9, <1>10 DEF IInv

LEMMA NextKeepsIInv == IInv /\ [Next]_vars => IInv'
<1> SUFFICES ASSUME IInv, [Next]_vars PROVE IInv'
  OBVIOUS
<1>1. ASSUME NEW c \in Calls, NEW r \in Requests, Arrive(c, r)
      PROVE  IInv'
  BY <1>1, ArriveMoves, RequestKeepsIInv
<1>2. ASSUME NEW c \in Calls, CallStep(c) \/ CallFails(c)
      PROVE  IInv'
  BY <1>2, CallStepMoves, CallFailsMoves, RequestKeepsIInv
<1>3. CASE WorkerStep \/ WorkerFails
  BY <1>3, WorkerKeepsIInv
<1>4. CASE Tick
  BY <1>4, TickStep
<1>5. ASSUME NEW t \in chain.sent, NEW ok \in BOOLEAN, Mine(t, ok)
      PROVE  IInv'
  BY <1>5, MineStep
<1>6. CASE Restart
  BY <1>6, RestartStep
<1>7. CASE UNCHANGED vars
  BY <1>7 DEF vars, IInv, RequestsOK, CallsShape, PassOK, WorkerShape, ServerShape, ChainOK,
     ChainShape, FaultsOK, MutexHeld, SentOnce, TodoOnce, NotSentAgain, EverKnown, Counted,
     CountedBefore, CountedRead, CountedDuring, Pending, InHand, BeforeScan, Known, At
<1>8. QED
  BY <1>1, <1>2, <1>3, <1>4, <1>5, <1>6, <1>7 DEF Next

-----------------------------------------------------------------------------
(* The theorems.                                                           *)

\* The invariant holds in every reachable state, for every number of requests,
\* every policy, all limits and every number of faults.
THEOREM Safety == Spec => []IInv
BY InitIInv, NextKeepsIInv, PTL DEF Spec

\* Two requests never set out to create the same entry: between the first read
\* and the insertion of getPaymasterStatus each of them holds the mutex.
THEOREM EntryCreatedOnce == Spec => []CreatedOnce
<1>1. IInv => CreatedOnce
  BY DEF IInv, MutexHeld, CreatedOnce, At
<1>2. QED
  BY <1>1, Safety, PTL

\* While nothing has failed, a pass that is over has dealt with every event up to
\* its block, and no event is ever dealt with a third time, although a pass reads
\* up to the latest block and the next one reads again from its own.
THEOREM EveryScannedEventIsHandled == Spec => []ScannedIsHandled
<1>1. IInv => ScannedIsHandled
  <2> SUFFICES ASSUME IInv, worker.pc = "asleep", faults = MaxFaults,
                      NEW e \in chain.events
               PROVE  e.handled <= 2 /\ (e.age >= server.scanned => e.handled > 0)
    BY DEF ScannedIsHandled, Working
  <2>1. CountedBefore(e) /\ e \in HubEvents /\ server.scanned \in Nat
    BY DEF IInv, Counted, BeforeScan, ChainOK, PassOK
  <2>2. QED
    BY <2>1 DEF CountedBefore, HubEvents
<1>2. QED
  BY <1>1, Safety, PTL

=============================================================================
