----------------------------- MODULE RelayClient -----------------------------
(***************************************************************************)
(* A dapp's calls relayed by GSN: provider/src/RelayClient.ts with the     *)
(* RelaySelectionManager, KnownRelaysManager, AccountManager and           *)
(* RelayedTransactionValidator it uses, under RelayProvider.ts, which      *)
(* answers the dapp, and over relay/src/HttpServer.ts and RelayServer.ts,  *)
(* whose relay call is one check and one send here.                        *)
(*                                                                         *)
(* A call selects relays in rounds of pings, asks the winner to relay a    *)
(* request signed for it, and goes on to the next relay when that fails.   *)
(* Calls share the signer, the record of failures and, when they have the  *)
(* same sender, the forwarder's nonce.  The chain, with RelayHub, paymaster*)
(* and forwarder, is external.                                             *)
(***************************************************************************)
EXTENDS Integers, FiniteSets, FiniteSetsExt

CONSTANTS
    Calls,              \* transactions the dapp sends, numbered as it sends them
    Accounts,           \* their senders
    Senders,            \* who may send which: functions from Calls to Accounts
    Relays,             \* relay servers, by URL
    Preferred,          \* config.preferredRelays
    Registered,         \* relays in the registrar that pass the filters
    GoodRelays,         \* the sets of relays that may be ready and affordable at all times
    Offers,             \* the fees a relay may ask for when it is pinged
    MaxFee,             \* the fees of the dapp's transactions
    MaxPriority,
    Slack,              \* config.gasPriceSlackPercent
    SliceSize,          \* config.waitForSuccessSliceSize
    MaxNonceGap,        \* config.maxRelayNonceGap
    ValidSeconds,       \* config.requestValidSeconds
    Now,                \* the time the calls are made, in seconds
    FaultKinds,         \* what may go wrong ...
    MaxFaults           \* ... and how often in all

Nobody == "nobody"
NoRelay == "none"

ASSUME RelayClientAssumption ==
    /\ Calls \subseteq Nat /\ IsFiniteSet(Calls) /\ IsFiniteSet(Relays) /\ IsFiniteSet(Offers)
    /\ Nobody \notin Accounts /\ NoRelay \notin Relays
    /\ Senders \subseteq [Calls -> Accounts]
    /\ Preferred \subseteq Relays /\ Registered \subseteq Relays
    /\ GoodRelays \subseteq SUBSET Registered
    /\ Offers \subseteq [minMax : Nat, minPriority : Nat, maxMax : Nat]
    /\ MaxPriority \in Nat \ {0} /\ MaxFee \in Nat /\ MaxPriority <= MaxFee
    /\ SliceSize \in Nat \ {0}
    /\ {Slack, MaxNonceGap, ValidSeconds, Now, MaxFaults} \subseteq Nat
    /\ FaultKinds \subseteq {"timeout", "withhold", "garble", "dry", "reload", "expire"}

VARIABLES
    pc,         \* where each call stands
    from,       \* its sender
    nonce,      \* the forwarder nonce in its request
    fees,       \* the fees in its request
    left,       \* remainingRelays: relays not yet dropped from the selection
    worse,      \* those the selection puts last, for their failures
    relay,      \* the active relay
    lastKnown,  \* relayLastKnownNonce in the request's metadata
    signedBy,   \* the account that signed the request
    answer,     \* the worker nonce of the transaction a relay has answered with
    signer,     \* wrappedUnderlyingSigner, shared by all calls
    failures,   \* keys of KnownRelaysManager.relayFailures
    cached,     \* submittedRelayRequests of the provider
    txs,        \* relay transactions signed so far, by call and relay
    forwarder,  \* the chain: each account's nonce in the forwarder
    late,       \* calls whose validUntilTime has passed
    good,       \* the relays that are ready and affordable at all times
    faults

callVars == <<pc, from, nonce, fees, left, worse, relay, lastKnown, signedBy, answer>>
sharedVars == <<signer, failures, cached>>
chainVars == <<txs, forwarder, late>>
vars == <<pc, from, nonce, fees, left, worse, relay, lastKnown, signedBy, answer,
          signer, failures, cached, txs, forwarder, late, good, faults>>

(***************************************************************************)
(* Fees                                                                    *)
(***************************************************************************)
ClientFees == [max |-> MaxFee, priority |-> MaxPriority]

\* GasPricePingFilter throws for a relay that contradicts itself, or whose
\* ceiling is below what the dapp offers.
PassesFilter(o) == o.minMax < o.maxMax /\ MaxFee <= o.maxMax

\* selectWinnerWithoutAdjustingFees: the fees as they are suit the relay.
Fits(o) == o.maxMax >= MaxFee /\ o.minMax <= MaxFee /\ o.minPriority <= MaxPriority

\* adjustGasCostParameterUp, with its rounded increase in percent.
Up(given, minimum) == IF given >= minimum THEN given ELSE minimum
Percent(given, value) == (200 * (value - given) + given) \div (2 * given)

\* adjustRelayRequestForPingResponse: both fees raised to what the relay asks,
\* and the maximum to the priority.
Adjusted(o) ==
    LET priority == Up(MaxPriority, o.minPriority)
    IN  [max |-> Up(Up(MaxFee, o.minMax), priority), priority |-> priority]
Delta(o) == Max({Percent(MaxFee, Adjusted(o).max),
                 Percent(MaxPriority, Adjusted(o).priority)})

\* RelayServer.validateGasFees, for the fees it asks for at that time.
ServerTakes(f, o) ==
    /\ o.minPriority <= f.priority /\ o.minMax <= f.max
    /\ f.max <= o.maxMax /\ f.priority <= f.max

(***************************************************************************)
(* Relay transactions                                                      *)
(***************************************************************************)
Fault(kind) == kind \in FaultKinds /\ faults < MaxFaults /\ faults' = faults + 1

OfRelay(r) == {id \in DOMAIN txs : id[2] = r}
Mined == {"executed", "rejected"}

\* The worker's nonce as the chain counts it, and as the relay counts it.
MinedNonce(r) == Cardinality({id \in OfRelay(r) : txs[id].state \in Mined})
NextNonce(r) == Cardinality(OfRelay(r))

SetTx(id, tx) == txs' = [i \in DOMAIN txs \cup {id} |-> IF i = id THEN tx ELSE txs[i]]

\* The view call to relayCall(): the forwarder takes the nonce and the time.
ViewSucceeds(c) == nonce[c] = forwarder[from[c]] /\ c \notin late

Init ==
    /\ pc = [c \in Calls |-> "new"]
    /\ from \in Senders
    /\ nonce = [c \in Calls |-> 0]
    /\ fees = [c \in Calls |-> ClientFees]
    /\ left = [c \in Calls |-> {}] /\ worse = [c \in Calls |-> {}]
    /\ relay = [c \in Calls |-> NoRelay]
    /\ lastKnown = [c \in Calls |-> 0]
    /\ signedBy = [c \in Calls |-> Nobody]
    /\ answer = [c \in Calls |-> -1]
    /\ signer = Nobody
    /\ failures = {}
    /\ cached = {}
    /\ txs = <<>>
    /\ forwarder = [a \in Accounts |-> 0]
    /\ late = {}
    /\ good \in GoodRelays
    /\ faults = 0

Goes(c, place, next) == pc[c] = place /\ pc' = [pc EXCEPT ![c] = next]

(***************************************************************************)
(* Preparing a call                                                        *)
(***************************************************************************)

\* KnownRelaysManager: the relays the registrar lists, those that failed put last.
\* _refreshFailures empties a relay's list of failures after a while and keeps the
\* list, so a relay that failed once is one that failed as long as the page lives.
AllRelayers == Registered
HasFailure(r) == r \in failures
WithFailures == {r \in AllRelayers : HasFailure(r)}

\* RelaySelectionManager.init
InitSelection(c) ==
    /\ left' = [left EXCEPT ![c] = Preferred \cup AllRelayers]
    /\ worse' = [worse EXCEPT ![c] = WithFailures]

\* switchSigner changes the one signer that all calls share.
SwitchSigner(c) == signer' = from[c]

\* _prepareRelayRequest reads the sender's nonce; a dry run of the request may
\* find that the call would revert.
NewRequest(c) == nonce' = [nonce EXCEPT ![c] = forwarder[from[c]]]
DryRunFails == Fault("dry")

\* relayTransaction up to the selection.
Prepare(c) ==
    /\ \A d \in Calls : d < c => pc[d] # "new"
    /\ SwitchSigner(c) /\ NewRequest(c)
    /\ \/ Goes(c, "new", "selecting") /\ InitSelection(c) /\ UNCHANGED faults
       \/ Goes(c, "new", "failed") /\ DryRunFails /\ UNCHANGED <<left, worse>>
    /\ UNCHANGED <<from, fees, relay, lastKnown, signedBy, answer, failures, cached,
                   chainVars, good>>

(***************************************************************************)
(* Selecting a relay                                                       *)
(***************************************************************************)

\* _getNextSlice: some relays of the first class that has any.
Classes(c) ==
    <<left[c] \cap Preferred, (left[c] \cap AllRelayers) \ worse[c], left[c] \cap worse[c]>>
NextClass(c) == Classes(c)[Min({i \in 1 .. 3 : Classes(c)[i] # {}} \cup {3})]
Slices(c) ==
    {s \in SUBSET NextClass(c) : Cardinality(s) = Min({SliceSize, Cardinality(NextClass(c))})}

\* What the pings of a slice have come to when waitForSuccess completes: an
\* offer, an error, or nothing yet, which only a success ends the wait for.
Failed == [minMax |-> 0, minPriority |-> 0, maxMax |-> 0]
Pending == [minMax |-> 1, minPriority |-> 0, maxMax |-> 0]
Acceptable == {o \in Offers : PassesFilter(o)}
PingResults(slice) ==
    {res \in [slice -> Acceptable \cup {Failed, Pending}] :
        /\ \A r \in slice \cap good : res[r] \in {Pending} \cup {o \in Acceptable : Fits(o)}
        /\ (\E r \in slice : res[r] = Pending) => \E r \in slice : res[r] \in Offers}

\* selectWinnerFromResult: anyone whom the fees suit, else the least increase
\* within the slack; without the former, the ones beyond the slack are skipped.
Suited(res) == {r \in DOMAIN res : res[r] \in Offers /\ Fits(res[r])}
Skipped(res) ==
    IF Suited(res) # {} THEN {}
    ELSE {r \in DOMAIN res : res[r] \in Offers /\ Delta(res[r]) > Slack}
Winners(res) ==
    IF Suited(res) # {} THEN Suited(res)
    ELSE LET within == {r \in DOMAIN res : res[r] \in Offers /\ Delta(res[r]) <= Slack}
         IN  {r \in within : \A q \in within : Delta(res[r]) <= Delta(res[q])}
WinnerFees(o) == IF Fits(o) THEN ClientFees ELSE Adjusted(o)

\* _handleWaitForSuccessResults: the winner, the errors and the skipped relays
\* leave every class; a relay that has not answered yet stays.
\* Mutant: the winner stays.
RemainingWithWinner(c, res, w) ==
    left[c] \ ({r \in DOMAIN res : res[r] = Failed} \cup Skipped(res))
Remaining(c, res, w) ==
    left[c] \ ({w} \cup {r \in DOMAIN res : res[r] = Failed} \cup Skipped(res))

\* One turn of selectNextRelay.  A preferred relay that is not registered is
\* dropped although it won.
Round(c) ==
    /\ pc[c] = "selecting" /\ left[c] # {}
    /\ \E slice \in Slices(c) : \E res \in PingResults(slice) :
           \/ /\ Winners(res) = {}
              /\ left' = [left EXCEPT ![c] = Remaining(c, res, NoRelay)]
              /\ UNCHANGED <<pc, relay, fees>>
           \/ \E w \in Winners(res) :
              /\ left' = [left EXCEPT ![c] = Remaining(c, res, w)]
              /\ \/ /\ w \notin Registered
                    /\ UNCHANGED <<pc, relay, fees>>
                 \/ /\ w \in Registered
                    /\ pc' = [pc EXCEPT ![c] = "chosen"]
                    /\ relay' = [relay EXCEPT ![c] = w]
                    /\ fees' = [fees EXCEPT ![c] = WinnerFees(res[w])]
    /\ UNCHANGED <<from, nonce, worse, lastKnown, signedBy, answer, sharedVars, chainVars,
                   good, faults>>

\* No relay is left: the dapp gets the errors.
GiveUp(c) ==
    /\ left[c] = {} /\ Goes(c, "selecting", "none left")
    /\ UNCHANGED <<from, nonce, fees, left, worse, relay, lastKnown, signedBy, answer,
                   sharedVars, chainVars, good, faults>>

(***************************************************************************)
(* An attempt                                                              *)
(***************************************************************************)

\* _prepareRelayHttpRequest: the signer is switched to the sender again ...
\* Mutant: the request is made anew for the relay.
ApproachWithNewRequest(c) ==
    /\ Goes(c, "chosen", "signing")
    /\ SwitchSigner(c) /\ NewRequest(c)
    /\ UNCHANGED <<from, fees, left, worse, relay, lastKnown, signedBy, answer, failures,
                   cached, chainVars, good, faults>>
Approach(c) ==
    /\ Goes(c, "chosen", "signing")
    /\ SwitchSigner(c)
    /\ UNCHANGED <<from, nonce, fees, left, worse, relay, lastKnown, signedBy, answer,
                   failures, cached, chainVars, good, faults>>

\* ... and whoever is the signer by now signs: AccountManager.sign throws when
\* that is not the sender.  Then the worker's nonce is read and the call viewed
\* (_verifyViewCallSuccessful); the dapp's call fails with either.
\* Mutant: without the sanity check.
RefusesNoSignature(c) == FALSE
RefusesSignature(c) == signer # from[c]
ViewFails(c) == ~ViewSucceeds(c)
Sign(c) ==
    /\ \/ /\ Goes(c, "signing", "failed")
          /\ RefusesSignature(c) \/ ViewFails(c)
          /\ UNCHANGED <<signedBy, lastKnown>>
       \/ /\ Goes(c, "signing", "asking")
          /\ ~RefusesSignature(c) /\ ~ViewFails(c)
          /\ signedBy' = [signedBy EXCEPT ![c] = signer]
          /\ lastKnown' = [lastKnown EXCEPT ![c] = MinedNonce(relay[c])]
    /\ UNCHANGED <<from, nonce, fees, left, worse, relay, answer, sharedVars, chainVars,
                   good, faults>>

\* createRelayTransaction, its checks: not ready, the fees it asks for by now,
\* the worker's nonce, its view call.  An error sends the client on to the next
\* relay; only a timeout is held against the relay.
MaxNonceKept(c) == NextNonce(relay[c]) <= lastKnown[c] + MaxNonceGap
ServerAccepts(c) == ViewSucceeds(c) /\ MaxNonceKept(c)
Asked(c) ==
    /\ \/ /\ Goes(c, "asking", "serving") /\ ServerAccepts(c)
          /\ \E o \in Offers : ServerTakes(fees[c], o)
       \/ /\ Goes(c, "asking", "selecting")
          /\ ~ServerAccepts(c) \/ relay[c] \notin good
    /\ UNCHANGED <<from, nonce, fees, left, worse, relay, lastKnown, signedBy, answer,
                   sharedVars, chainVars, good, faults>>

NewTx(c, state) ==
    SetTx(<<c, relay[c]>>, [nonce |-> nonce[c], signedBy |-> signedBy[c],
                            place |-> NextNonce(relay[c]), state |-> state])
Blame(r) == failures' = failures \cup {r}
TimesOut(c) == relay[c] \notin good /\ Fault("timeout")

\* ... then it signs, stores, broadcasts and answers; the answer may be late for
\* the client.  A faulty relay answers without broadcasting, or with something
\* else than it was asked for.
Serve(c) ==
    /\ \/ /\ Goes(c, "serving", "answered") /\ NewTx(c, "waiting")
          /\ answer' = [answer EXCEPT ![c] = NextNonce(relay[c])]
          /\ UNCHANGED <<failures, faults>>
       \/ /\ relay[c] \notin good /\ Fault("withhold")
          /\ Goes(c, "serving", "answered") /\ NewTx(c, "signed")
          /\ answer' = [answer EXCEPT ![c] = NextNonce(relay[c])]
          /\ UNCHANGED failures
       \/ /\ TimesOut(c)
          /\ Goes(c, "serving", "selecting") /\ NewTx(c, "waiting")
          /\ Blame(relay[c]) /\ UNCHANGED answer
       \/ /\ relay[c] \notin good /\ Fault("garble")
          /\ Goes(c, "serving", "answered") /\ UNCHANGED <<txs, answer, failures>>
    /\ UNCHANGED <<from, nonce, fees, left, worse, relay, lastKnown, signedBy, signer,
                   cached, forwarder, late, good>>

\* getNonceGapFilled of the server: its worker's transactions in between.
NonceGapFilled(c) ==
    {id \in OfRelay(relay[c]) : txs[id].place \in lastKnown[c] .. answer[c] - 1}

\* validateRelayResponse: the asked-for call, its worker's nonce within the
\* gap, and every transaction of the gap.
ValidAnswer(c) ==
    /\ answer[c] # -1 /\ answer[c] <= lastKnown[c] + MaxNonceGap
    /\ Cardinality(NonceGapFilled(c)) = answer[c] - lastKnown[c]

\* _broadcastRawTx: the client sends what its node has not seen.
\* Mutant: it trusts the relay.
BroadcastNothing(c) == UNCHANGED txs
BroadcastRawTx(c) ==
    LET id == <<c, relay[c]>>
    IN  IF id \in DOMAIN txs /\ txs[id].state = "signed" THEN SetTx(id, [txs[id] EXCEPT !.state = "waiting"])
        ELSE UNCHANGED txs

\* The provider remembers the call for the receipts to come.
CacheSubmitted(c) == cached' = cached \cup {c}

Receive(c) ==
    /\ \/ /\ Goes(c, "answered", "done") /\ ValidAnswer(c)
          /\ BroadcastRawTx(c) /\ CacheSubmitted(c)
          /\ left' = [left EXCEPT ![c] = {}] /\ worse' = [worse EXCEPT ![c] = {}]
          /\ UNCHANGED failures
       \/ /\ Goes(c, "answered", "selecting") /\ ~ValidAnswer(c)
          /\ Blame(relay[c])
          /\ UNCHANGED <<txs, cached, left, worse>>
    /\ answer' = [answer EXCEPT ![c] = -1]
    /\ UNCHANGED <<from, nonce, fees, relay, lastKnown, signedBy, signer,
                   forwarder, late, good, faults>>

CallStep(c) ==
    \/ Prepare(c) \/ Round(c) \/ GiveUp(c)
    \/ Approach(c) \/ Sign(c) \/ Asked(c) \/ Serve(c) \/ Receive(c)

(***************************************************************************)
(* The chain, the clock and the page                                       *)
(***************************************************************************)

\* A worker's transactions are mined in order.  RelayHub relays the call when
\* the forwarder takes its nonce and time, whatever becomes of the call inside;
\* else the paymaster rejects it.
Mine ==
    /\ \E id \in DOMAIN txs :
           /\ txs[id].state = "waiting" /\ txs[id].place = MinedNonce(id[2])
           /\ LET a == from[id[1]]
              IN  \/ /\ txs[id].nonce = forwarder[a] /\ id[1] \notin late
                     /\ forwarder' = [forwarder EXCEPT ![a] = @ + 1]
                     /\ SetTx(id, [txs[id] EXCEPT !.state = "executed"])
                  \/ /\ txs[id].nonce # forwarder[a] \/ id[1] \in late
                     /\ SetTx(id, [txs[id] EXCEPT !.state = "rejected"])
                     /\ UNCHANGED forwarder
    /\ UNCHANGED <<callVars, sharedVars, late, good, faults>>

\* validUntilTime passes.
Expire ==
    /\ Fault("expire")
    /\ \E c \in Calls : c \notin late /\ pc[c] # "new" /\ late' = late \cup {c}
    /\ UNCHANGED <<callVars, sharedVars, txs, forwarder, good>>

\* The page is loaded again: the provider and the client begin anew.
Ended == {"done", "failed", "none left", "gone"}
Reload ==
    /\ Fault("reload")
    /\ pc' = [c \in Calls |-> IF pc[c] \in Ended \cup {"new"} THEN pc[c] ELSE "gone"]
    /\ signer' = Nobody /\ cached' = {}
    /\ failures' = {}
    /\ UNCHANGED <<from, nonce, fees, left, worse, relay, lastKnown, signedBy, answer,
                   chainVars, good>>

Next == (\E c \in Calls : CallStep(c)) \/ Mine \/ Expire \/ Reload

\* The dapp makes its calls and waits for them, every ping and request is
\* answered or times out, and blocks come.
Fairness == (\A c \in Calls : WF_vars(CallStep(c))) /\ WF_vars(Mine)
Spec == Init /\ [][Next]_vars
FairSpec == Spec /\ Fairness

(***************************************************************************)
(* What the dapp is told                                                   *)
(***************************************************************************)

\* getTransactionHashFromRequestId compares validUntilTime with Date.now(), the
\* one in seconds and the other in milliseconds; for a call the provider does
\* not remember it takes the largest time there is.
Clock(c) == IF c \in late THEN Now + ValidSeconds ELSE Now
Remembered(c) == c \in cached
LooksValid(c) == Remembered(c) => Now + ValidSeconds > 1000 * Clock(c)

\* _createTransactionReceiptForRelayRequestID, for a call that was answered.
TranslatedStatus(state) == IF state = "executed" THEN "success" ELSE "failure"
RevertedReceipt == "failure"
Receipt(c) ==
    LET tx == txs[<<c, relay[c]>>]
    IN  IF tx.state \in Mined THEN TranslatedStatus(tx.state)
        ELSE IF LooksValid(c) THEN "null" ELSE RevertedReceipt

(***************************************************************************)
(* Properties                                                              *)
(***************************************************************************)
Places == Ended \cup {"new", "selecting", "chosen", "signing", "asking", "serving", "answered"}

\* Every variable has its type, and a call that was answered has a transaction.
TypeOK ==
    /\ pc \in [Calls -> Places]
    /\ from \in [Calls -> Accounts]
    /\ nonce \in [Calls -> Nat] /\ lastKnown \in [Calls -> Nat]
    /\ fees \in [Calls -> [max : Nat, priority : Nat]]
    /\ left \in [Calls -> SUBSET Relays] /\ worse \in [Calls -> SUBSET Relays]
    /\ relay \in [Calls -> Relays \cup {NoRelay}]
    /\ signedBy \in [Calls -> Accounts \cup {Nobody}]
    /\ answer \in [Calls -> Nat \cup {-1}]
    /\ signer \in Accounts \cup {Nobody}
    /\ failures \subseteq Relays
    /\ cached \subseteq Calls /\ late \subseteq Calls /\ good \subseteq Relays
    /\ DOMAIN txs \subseteq Calls \X Relays
    /\ \A id \in DOMAIN txs :
           txs[id] \in [nonce : Nat, signedBy : Accounts, place : Nat,
                        state : Mined \cup {"signed", "waiting"}]
    /\ forwarder \in [Accounts -> Nat]
    /\ faults \in 0 .. MaxFaults
    /\ \A c \in Calls : pc[c] = "done" => <<c, relay[c]>> \in DOMAIN txs

\* A call is executed at most once, although a relay that seemed to fail may
\* have sent it and another relay was asked after it.
ExecutedOnce ==
    \A c \in Calls : Cardinality({r \in Relays : <<c, r>> \in DOMAIN txs
                                      /\ txs[<<c, r>>].state = "executed"}) <= 1

\* A relay is never asked twice for the same call: 'will never return the same
\* relay twice'.
NeverSameRelay ==
    [][\A c \in Calls : pc[c] = "selecting" /\ pc'[c] = "chosen" =>
           /\ relay'[c] # relay[c]
           /\ <<c, relay'[c]>> \notin DOMAIN txs]_vars

\* However the calls of several senders interleave around the one signer, a
\* relay only ever gets requests signed by their sender.
SignedBySender == \A id \in DOMAIN txs : txs[id].signedBy = from[id[1]]

\* The dapp's callback is called, whatever the relays do; and a call that was
\* answered with an id ends up on the chain, even if its relay keeps the
\* transaction to itself.
OnChain(c) == /\ pc[c] = "done" /\ <<c, relay[c]>> \in DOMAIN txs
              /\ txs[<<c, relay[c]>>].state \in Mined
CallsSettle == \A c \in Calls : <>(pc[c] \in Ended \ {"done"} \/ OnChain(c))

=============================================================================
