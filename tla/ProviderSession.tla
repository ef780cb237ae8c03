--------------------------- MODULE ProviderSession ---------------------------
(***************************************************************************)
(* The JSON-RPC face of GSN: RelayProvider.send() and the handlers it      *)
(* dispatches to (provider/src/RelayProvider.ts), over a RelayClient that  *)
(* gets ready as in ClientSetup and reads events as in EventPaging.        *)
(*                                                                         *)
(* A call is a JSON-RPC payload and its callback.  Most handlers are async *)
(* functions whose promise send() drops, so what they throw reaches nobody *)
(* unless they catch it.  Relaying itself is RelayClient's business        *)
(* (module RelayClient) and takes one step here; the relay worker, the     *)
(* chain and the node behind the provider are external.                    *)
(***************************************************************************)
EXTENDS ClientSetup, EventPaging, FiniteSetsExt

CONSTANTS
    Maker,              \* the call of init() that makes the RelayProvider
    Dapps,              \* what dapps ask: functions from Callers to sets of payloads
    SignTypedOverride,  \* asyncSignTypedData was passed
    BlocksForLookup,    \* BLOCKS_FOR_LOOKUP
    Requests,           \* relay request IDs, as they are given out
    SentBefore          \* those sent before the page was loaded again

\* What the dapp's payloads differ in: the method, whether it is for GSN, and what it is about.
ASSUME ProviderSessionAssumption ==
    /\ \A d \in Dapps : \A c \in Callers : \A p \in d[c] : p.useGSN \in BOOLEAN
    /\ Requests \subseteq Nat /\ SentBefore \subseteq Requests
    /\ IsFiniteSet(SentBefore) /\ SentBefore = 1 .. Cardinality(SentBefore)
    /\ \A e \in Events : e.id \in Requests /\ e.name \in {"relayed", "rejected"}
    /\ Maker \in Inits /\ BlocksForLookup \in Nat
    /\ SignTypedOverride \in BOOLEAN

VARIABLES
    asks,               \* what this dapp may ask in each of its calls
    call,               \* where each call stands, and what it has found on the way
    answers,            \* what its callback was called with
    submittedRelayRequests,     \* the block at which each request was submitted
    relayed,                    \* requests the relays have
    told                \* history: the requests of this session each call was made after a
                        \* receipt said they succeeded

sessionVars == <<asks, call, answers, submittedRelayRequests, relayed, told>>
allVars == <<setupVars, pagingVars, sessionVars>>

NoEvent == [id |-> 0, name |-> Null, ok |-> FALSE]
NoCall == [at |-> "idle", payload |-> [method |-> Null], id |-> 0, block |-> 0, found |-> NoEvent]

\* Answers: an error, a result of the node, and what GSN makes itself.
Error == [kind |-> "error", of |-> Null]
Answer(kind, of) == [kind |-> kind, of |-> of]

\* The callback is called: the answer is added to the call's answers.
Answers(c, answer) ==
    /\ answers' = [answers EXCEPT ![c] = Append(@, answer)]
    /\ call' = [call EXCEPT ![c].at = "over"]

GoesTo(c, where) == call' = [call EXCEPT ![c].at = where] /\ UNCHANGED answers

\* _useGSN
UsesGSN(p) == p.method = "accounts" \/ p.useGSN

\* _pickSingleEvent: the only success, or the last of the rejections; Null when it throws.
PickLast(logs) == logs[CHOOSE k \in DOMAIN logs :
                           \A n \in DOMAIN logs : logs[n].block <= logs[k].block]
NoLog == [block |-> 0, index |-> 0, event |-> NoEvent]
PickSingleEvent(logs) ==
    LET successes == {k \in DOMAIN logs : logs[k].event.name = "relayed"}
    IN  CASE successes = {} -> PickLast(logs)
          [] Cardinality(successes) = 1 -> logs[CHOOSE k \in successes : TRUE]
          [] OTHER -> NoLog

\* The status of a receipt, as _getTranslatedGsnResponseResult changes it.
Translated(event) ==
    IF event.name = "rejected" \/ ~event.ok THEN "failure" ELSE "success"

\* The events a lookup by ID asks for.
Wanted(id) == {e \in Events : e.id = id}

\* isEphemeralAccount
HoldsKey(a) == a \in accounts

\* Where a payload goes: a handler's first step, an answer at once, or the node.
\* _fixGasFees needs both fees or none of them.
SendRoute(p) ==
    CASE ~p.to \/ p.fees = "one" -> "refused"
      [] p.fees = "none" -> "fees"
      [] OTHER -> "relaying"
ReceiptRoute(p) == IF p.id \in Requests THEN "lookup" ELSE "byTheHash"
AccountsRoute == IF IsConnectedWithSigner THEN "signer" ELSE "node"
SignRoute(p) == IF HoldsKey(p.from) THEN "signed" ELSE "node"
SignTransactionRoute(p) == IF HoldsKey(p.from) THEN "key" ELSE "node"
SignTypedRoute(p) ==
    CASE HoldsKey(p.from) -> "signed"
      [] SignTypedOverride -> "override"
      [] OTHER -> "node"

Dispatch(p) ==
    CASE ~UsesGSN(p) -> "node"
      [] p.method = "send" -> SendRoute(p)
      [] p.method = "receipt" -> ReceiptRoute(p)
      [] p.method = "byHash" -> "lookup"
      [] p.method = "accounts" -> AccountsRoute
      [] p.method = "sign" -> SignRoute(p)
      [] p.method = "signTransaction" -> SignTransactionRoute(p)
      [] p.method = "signTyped" -> SignTypedRoute(p)
      [] OTHER -> "node"

-----------------------------------------------------------------------------

SessionInit ==
    /\ SetupInit /\ PagingInit
    /\ asks \in Dapps
    /\ call = [c \in Callers |-> NoCall]
    /\ answers = [c \in Callers |-> <<>>]
    /\ submittedRelayRequests = <<>>
    /\ relayed \in {{}, SentBefore}
    /\ told = [c \in Callers |-> {}]

\* The requests a receipt has said to have succeeded.
Succeeded == {r \in Requests : \E c \in Callers : Answer("success", r) \in ToSet(answers[c])}

\* The requests the dapp can ask about: those whose ID it was given, now or before.
Known ==
    DOMAIN submittedRelayRequests \cup
    {r \in relayed : \A c \in Callers : ~(call[c].id = r /\ call[c].payload.method = "send")}

\* send(): the provider exists only once its client is initialized.  Bound: a caller makes
\* one call, and one more after a transaction was sent.
MayCall(c, p) ==
    \/ call[c].at = "idle"
    \/ call[c].at = "over" /\ call[c].payload.method = "send" /\ p.method # "send"
Send(c, p) ==
    LET where == Dispatch(p)
        started == [call EXCEPT ![c].payload = p, ![c].id = p.id, ![c].at = where]
    IN  /\ MayCall(c, p)
        /\ p.id \in Requests => p.id \in Known
        /\ told' = [told EXCEPT ![c] = Succeeded \cap DOMAIN submittedRelayRequests]
        /\ IF where \in {"refused", "signed"}
           THEN /\ answers' = [answers EXCEPT ![c] =
                       Append(@, IF where = "refused" THEN Error ELSE Answer("signature", Null))]
                /\ call' = [started EXCEPT ![c].at = "over"]
           ELSE call' = started /\ UNCHANGED answers
        /\ UNCHANGED <<asks, setupVars, pagingVars, submittedRelayRequests, relayed>>

\* The node, the signer or the override answers, or fails; the accounts of the node are
\* joined by the keys the client holds.
NodeAnswers(c, ok) ==
    /\ call[c].at \in {"node", "signer", "override"}
    /\ Answers(c, IF ~ok THEN Error
                  ELSE IF call[c].payload.method = "accounts" /\ call[c].at = "node"
                       THEN Answer("accounts", accounts)
                       ELSE Answer("node", Null))
    /\ UNCHANGED <<asks, setupVars, pagingVars, submittedRelayRequests, relayed, told>>

\* A receipt asked for by the hash of a transaction: the node's, with its status translated.
HashReceiptRead(c, has) ==
    /\ call[c].at = "byTheHash"
    /\ \E e \in Events :
          Answers(c, IF has THEN Answer(Translated(e), 0) ELSE Answer("null", 0))
    /\ UNCHANGED <<asks, setupVars, pagingVars, submittedRelayRequests, relayed, told>>

\* A key the client holds signs a transaction, but not one for another chain: that throws.
SignTransaction(c) ==
    /\ call[c].at = "key"
    /\ IF call[c].payload.chainOk THEN Answers(c, Answer("signature", Null)) ELSE GoesTo(c, "dropped")
    /\ UNCHANGED <<asks, setupVars, pagingVars, submittedRelayRequests, relayed, told>>

\* calculateGasFees, for a transaction that names no fees.
FeesRead(c, ok) ==
    /\ call[c].at = "fees"
    /\ IF ok THEN GoesTo(c, "relaying") ELSE Answers(c, Error)
    /\ UNCHANGED <<asks, setupVars, pagingVars, submittedRelayRequests, relayed, told>>

\* relayTransaction: the node says which block it is at, and a relay takes the request.
AskRelay(c, b) ==
    LET r == Cardinality(relayed) + 1
    IN  /\ call[c].at = "relaying"
        /\ r \in Requests
        /\ relayed' = relayed \cup {r}
        /\ call' = [call EXCEPT ![c].at = "atRelay", ![c].id = r, ![c].block = b]
        /\ UNCHANGED <<asks, setupVars, pagingVars, answers, submittedRelayRequests, told>>

\* _onRelayTransactionFulfilled, with a request ID: it is kept with the block of its
\* submission and given to the dapp.
CacheSubmittedTransactionDetails(c) ==
    submittedRelayRequests' =
        [r \in DOMAIN submittedRelayRequests \cup {call[c].id} |->
            IF r = call[c].id THEN call[c].block ELSE submittedRelayRequests[r]]
Fulfilled(c) ==
    /\ call[c].at = "atRelay"
    /\ CacheSubmittedTransactionDetails(c)
    /\ Answers(c, Answer("requestId", call[c].id))
    /\ UNCHANGED <<asks, setupVars, pagingVars, relayed, told>>

\* No relay could be used, or relayTransaction throws, before a relay has the request or after.
RelayingFailsSilently(c) ==
    /\ call[c].at \in {"relaying", "atRelay"}
    /\ GoesTo(c, "dropped")
    /\ UNCHANGED <<asks, setupVars, pagingVars, submittedRelayRequests, relayed, told>>
RelayingFails(c) ==
    /\ call[c].at \in {"relaying", "atRelay"}
    /\ Answers(c, Error)
    /\ UNCHANGED <<asks, setupVars, pagingVars, submittedRelayRequests, relayed, told>>

-----------------------------------------------------------------------------
(* Lookups: eth_getTransactionReceipt and eth_getTransactionByHash         *)

\* What a handler throws: the one for receipts catches it, the other does not.
Throws(c) ==
    IF call[c].payload.method = "receipt" THEN Answers(c, Error) ELSE GoesTo(c, "dropped")

IsCached(c) == call[c].id \in DOMAIN submittedRelayRequests

\* getTransactionHashFromRequestId: from the block of the submission or, for a request this
\* session did not send, from some blocks ago, the hub's events are read.
LookUp(c, b) ==
    LET from == IF IsCached(c) THEN submittedRelayRequests[call[c].id]
                ELSE IF b > BlocksForLookup THEN b - BlocksForLookup ELSE 1
    IN  /\ call[c].at = "lookup"
        /\ AskEvents(c, from, Latest, Wanted(call[c].id))
        /\ GoesTo(c, "events")
        /\ UNCHANGED <<asks, setupVars, blocks, lastBlockNumber, submittedRelayRequests, relayed, told>>

\* The block number cannot be read, or the events cannot.
LookUpFails(c) ==
    /\ \/ call[c].at = "lookup" /\ ~IsCached(c)
       \/ call[c].at = "events" /\ query[c].phase = "failed"
    /\ Throws(c)
    /\ query' = [query EXCEPT ![c] = NoQuery]
    /\ UNCHANGED <<asks, setupVars, blocks, lastBlockNumber, submittedRelayRequests, relayed, told>>

\* Without any event a request this session submitted is taken for expired, since its
\* validUntilTime is in seconds and compared with milliseconds, and any other for one that may
\* still be mined.
MayStillBeMined(c) == ~IsCached(c)

TransactionRevertedReceipt(id) == Answer("failure", id)

\* The events are there.
EventsRead(c) ==
    LET logs == query[c].events
        isReceipt == call[c].payload.method = "receipt"
    IN  /\ call[c].at = "events" /\ query[c].phase = "found"
        /\ IF logs = <<>>
           THEN IF isReceipt
                THEN Answers(c, IF MayStillBeMined(c) THEN Answer("null", call[c].id)
                                ELSE TransactionRevertedReceipt(call[c].id))
                ELSE GoesTo(c, "transaction")
           ELSE IF PickSingleEvent(logs) = NoLog
                THEN Throws(c)
                ELSE /\ call' = [call EXCEPT ![c].found = PickSingleEvent(logs).event,
                                  ![c].at = IF isReceipt THEN "receipt" ELSE "transaction"]
                     /\ UNCHANGED answers
        /\ query' = [query EXCEPT ![c] = NoQuery]
        /\ UNCHANGED <<asks, setupVars, blocks, lastBlockNumber, submittedRelayRequests, relayed, told>>

\* The receipt of the transaction that was found: the node has it, has it not or fails.
ReceiptRead(c, has) ==
    /\ call[c].at = "receipt"
    /\ Answers(c, IF has THEN Answer(Translated(call[c].found), call[c].id)
                  ELSE Answer("null", call[c].id))
    /\ UNCHANGED <<asks, setupVars, pagingVars, submittedRelayRequests, relayed, told>>

\* The transaction, by its hash or, when none was found, by the ID itself.
TransactionRead(c, has) ==
    /\ call[c].at = "transaction"
    /\ has => call[c].found # NoEvent
    /\ Answers(c, Answer(IF has THEN "transaction" ELSE "null", call[c].id))
    /\ UNCHANGED <<asks, setupVars, pagingVars, submittedRelayRequests, relayed, told>>

FoundUnreadable(c) ==
    /\ call[c].at \in {"receipt", "transaction", "byTheHash"}
    /\ Throws(c)
    /\ UNCHANGED <<asks, setupVars, pagingVars, submittedRelayRequests, relayed, told>>

-----------------------------------------------------------------------------

\* The relays' transactions are mined.  The forwarder executes a request once; another relay
\* that has it too is rejected, before that or after.
RelayHubEmits(e) ==
    /\ e.id \in relayed
    /\ e.name = "relayed" => \A b \in DOMAIN blocks : \A k \in DOMAIN blocks[b] :
                                 blocks[b][k].id = e.id => blocks[b][k].name # "relayed"
    /\ MineBlock(<<e>>)
    /\ UNCHANGED <<setupVars, sessionVars>>

\* What goes on by itself once it has begun.
Handler(c) ==
    \/ \E ok \in BOOLEAN : NodeAnswers(c, ok) \/ FeesRead(c, ok)
    \/ \E b \in 1..Tip : AskRelay(c, b) \/ LookUp(c, b)
    \/ SignTransaction(c)
    \/ Fulfilled(c) \/ RelayingFails(c)
    \/ LookUpFails(c) \/ EventsRead(c)
    \/ \E has \in BOOLEAN : ReceiptRead(c, has) \/ HashReceiptRead(c, has) \/ TransactionRead(c, has)
    \/ FoundUnreadable(c)
    \/ /\ \/ \E b \in 1..Tip : ReadHead(c, b)
          \/ ReadPage(c)
          \/ \E tooMany \in BOOLEAN : PageFails(c, tooMany)
       /\ UNCHANGED <<setupVars, sessionVars>>

\* The RelayProvider exists once the init() that newWeb3Provider calls has ended well.  Bound:
\* no other call of init() has been made by then, and none is made during the session.
Ready == step[Maker] = "done" /\ \A i \in Inits \ {Maker} : step[i] = "idle"
NoneCalled == \A c \in Callers : call[c].at = "idle"

Setup ==
    /\ NoneCalled
    /\ \/ \E i \in Inits : CallInit(i) \/ SetupStep(i)
       \/ \E a \in EphemeralAccounts : AddAccount(a)
       \/ \E p \in Paymasters : SetContracts(p)
    /\ UNCHANGED <<pagingVars, sessionVars>>

SessionNext ==
    \/ Ready /\ \E c \in Callers : \E p \in asks[c] : Send(c, p)
    \/ \E c \in Callers : Handler(c)
    \/ ~NoneCalled /\ \E e \in Events : RelayHubEmits(e)
    \/ ~NoneCalled /\ MineBlock(<<>>) /\ UNCHANGED <<setupVars, sessionVars>>
    \/ Setup

SessionSpec == SessionInit /\ [][SessionNext]_allVars

\* A promise settles: requests to the node, the relays and the servers are answered or fail,
\* and what waits for them goes on.
FairSessionSpec == SessionSpec /\ \A c \in Callers : WF_allVars(Handler(c))

-----------------------------------------------------------------------------

SessionTypeOK ==
    /\ SetupTypeOK /\ PagingTypeOK
    /\ DOMAIN submittedRelayRequests \subseteq relayed
    /\ relayed \subseteq Requests
    /\ told \in [Callers -> SUBSET Requests]

\* Once a receipt said that a request of this session succeeded, a receipt asked for later
\* does not say it failed: not when another relay's transaction with the same request is
\* rejected before it or afterwards, and not when a backend of the node lags behind.
SuccessIsLasting ==
    \A c \in Callers : \A r \in told[c] : Answer("failure", r) \notin ToSet(answers[c])

\* Every call's callback is called in the end, except where a handler that catches nothing
\* throws: a lookup of a transaction, or a signature for another chain.
CallsAreAnswered ==
    \A c \in Callers : call[c].at # "idle" ~>
        \/ answers[c] # <<>>
        \/ call[c].at = "dropped" /\ call[c].payload.method \in {"byHash", "signTransaction"}
=============================================================================
