---------------------------- MODULE UserOpSender ----------------------------
(***************************************************************************)
(* The account abstraction client: signers that wrap a transaction in a    *)
(* user operation (AASigner.ts), the queue that bundles operations of      *)
(* several signers for the EntryPoint, and the two senders without a       *)
(* queue.                                                                  *)
(*                                                                         *)
(* Calls of one signer interleave at every await; bundles are mined, or    *)
(* revert, between them.                                                   *)
(***************************************************************************)
EXTENDS Integers, Sequences, FiniteSets, SequencesExt

CONSTANTS
    Signers,            \* AASigner objects
    Txs,                \* transactions to send
    SignerOf,           \* the signer of each
    IndexOf,            \* the index of each signer
    Modes,              \* which sender the signers may be given
    Connecting,         \* signers that are new; the others were connected before
    BundleSize,         \* BUNDLE_SIZE_IMMEDIATE
    MaxHeight,          \* bound: blocks
    None

Own(s) == <<"create2", s>>
Other(s) == <<"deployed", s>>
Addresses == {Own(s) : s \in Signers} \cup {Other(s) : s \in Signers}

(* Signers are objects of one process; None is no value of theirs.         *)
ASSUME SenderAssumption ==
    /\ IsFiniteSet(Signers) /\ Connecting \subseteq Signers
    /\ SignerOf \in [Txs -> Signers] /\ IndexOf \in [Signers -> Nat]
    /\ None \notin Txs \cup Addresses \cup Nat \cup BOOLEAN \cup {"push"}
    /\ None \notin [tx : Txs, sender : Addresses, creates : BOOLEAN, nonce : Nat]
    /\ "push" \notin Txs

VARIABLES
    signer,             \* _account and _isPhantom of each signer
    call,               \* the sendTransaction of each transaction
    connect,            \* the connectAccountAddress of each signer
    queue,              \* queue: operations by sender
    queueSize,
    young,              \* lastQueueUpdate + IDLE_TIME > Date.now()
    sending,            \* the flag of that name, one for the whole module
    batch,              \* the operations that were taken off the queue
    pool,               \* handleOps transactions that are not mined yet
    nonce,              \* nonceSequenceNumber of the EntryPoint
    height, events,     \* blocks, and the UserOperationEvents in them
    factory,            \* whether Create2Factory.contractAddress has code
    mode,               \* the sender in use
    patient             \* signers that send nothing before the last answer

callVars == <<signer, call, connect>>
queueVars == <<queue, queueSize, young, sending, batch>>
chainVars == <<pool, nonce, height, events>>
otherVars == <<factory, mode, patient>>
vars == <<callVars, queueVars, chainVars, otherVars>>

HasCode(a) == \E s \in Signers : a = Other(s)

-----------------------------------------------------------------------------
(* AASigner.syncAccount, at the start of every sendTransaction *)

InStep(t, step) == call[t].step = step
Goes(t, c) == call' = [call EXCEPT ![t] = c]
Rejected(c) == [c EXCEPT !.step = "rejected"]

Quiet(s) == \A u \in Txs : SignerOf[u] = s => call[u].step \in {"idle", "done", "rejected"}

(* The size of the code is asked for as soon as there is an address. *)
AskCodeSize(c, account) == [c EXCEPT !.step = "size", !.seen = HasCode(account)]

sendTransaction(t) ==
    LET s == SignerOf[t]
    IN  /\ InStep(t, "idle")
        /\ s \in patient => Quiet(s) /\ (s \in Connecting => connect[s] = "ended")
        /\ Goes(t, IF signer[s].account = None THEN [call[t] EXCEPT !.step = "address"]
                   ELSE IF signer[s].phantom THEN AskCodeSize(call[t], signer[s].account)
                   ELSE [call[t] EXCEPT !.step = "build"])
        /\ UNCHANGED <<signer, connect, queueVars, chainVars, otherVars>>

(* The address is computed; whatever account the signer has got meanwhile  *)
(* is replaced.                                                            *)
AddressComputed(t) ==
    LET s == SignerOf[t]
    IN  /\ InStep(t, "address")
        /\ signer' = [signer EXCEPT ![s].account = Own(s)]
        /\ Goes(t, IF signer[s].phantom THEN AskCodeSize(call[t], Own(s))
                   ELSE [call[t] EXCEPT !.step = "build"])
        /\ UNCHANGED <<connect, queueVars, chainVars, otherVars>>

StillPhantom(t) == ~call[t].seen

CodeSizeKnown(t) ==
    /\ InStep(t, "size")
    /\ signer' = [signer EXCEPT ![SignerOf[t]].phantom = StillPhantom(t)]
    /\ Goes(t, [call[t] EXCEPT !.step = "build"])
    /\ UNCHANGED <<connect, queueVars, chainVars, otherVars>>

(* _createUserOperation and fillAndSign: the operation that creates the    *)
(* account takes the signer's index for a nonce, any other asks the        *)
(* account, which fails if there is none.  The account to create is a      *)
(* proxy of the zero address, which its constructor refuses: the gas       *)
(* estimate of the creation throws, unless there is no factory to call.    *)
OperationNumberedByIndex(t) ==
    LET s == SignerOf[t]
    IN  [tx |-> t, sender |-> signer[s].account, creates |-> signer[s].phantom,
         nonce |-> IndexOf[s]]

Operation(t) ==
    LET s == SignerOf[t]
    IN  [tx |-> t, sender |-> signer[s].account, creates |-> signer[s].phantom,
         nonce |-> IF signer[s].phantom THEN IndexOf[s] ELSE nonce[signer[s].account]]

createUserOperation(t) ==
    /\ InStep(t, "build")
    /\ Goes(t, IF IF Operation(t).creates THEN ~factory
                                          ELSE HasCode(Operation(t).sender)
               THEN [call[t] EXCEPT !.step = "listen", !.op = Operation(t)]
               ELSE Rejected(call[t]))
    /\ UNCHANGED <<signer, connect, queueVars, chainVars, otherVars>>

(* connectAccountAddress: the check, then the code of the address, then    *)
(* the account is set.                                                     *)
connectAccountAddress(s) ==
    /\ s \in Connecting
    /\ connect[s] = "no"
    /\ connect' = [connect EXCEPT ![s] = IF signer[s].account = None THEN "code" ELSE "refused"]
    /\ UNCHANGED <<signer, call, queueVars, chainVars, otherVars>>

Connected(s) ==
    /\ connect[s] = "code"
    /\ connect' = [connect EXCEPT ![s] = "ended"]
    /\ signer' = [signer EXCEPT ![s] = [account |-> Other(s), phantom |-> FALSE]]
    /\ UNCHANGED <<call, queueVars, chainVars, otherVars>>

-----------------------------------------------------------------------------
(* userEventResponse *)

Listening(t) == call[t].op # None /\ ~InStep(t, "done")

(* The number of the current block is asked for before the operation is    *)
(* sent; nothing waits for the answer but the listener.                    *)
BlockNumberKnown(t) ==
    /\ Listening(t)
    /\ call[t].block = None
    /\ Goes(t, [call[t] EXCEPT !.block = height])
    /\ UNCHANGED <<signer, connect, queueVars, chainVars, otherVars>>

TooEarlyByOne(event, block) == event.block <= block + 1

TooEarly(event, block) == event.block <= block

(* The event, from the subscription or from the query after 500 ms.  The   *)
(* reason of a failed operation is looked up by the sender in the place of *)
(* the operation's hash and never found, so wait() returns a receipt.      *)
Notice(t) ==
    /\ Listening(t)
    /\ call[t].block # None
    /\ \E event \in events :
          /\ event.op = call[t].op
          /\ ~TooEarly(event, call[t].block)
          /\ Goes(t, [call[t] EXCEPT !.step = IF @ = "sending" THEN @ ELSE "done",
                                     !.status = event.success])
    /\ call'[t] # call[t]
    /\ UNCHANGED <<signer, connect, queueVars, chainVars, otherVars>>

-----------------------------------------------------------------------------
(* The EntryPoint: a bundle is executed as a whole or not at all. *)

Valid(op) == ~op.creates /\ HasCode(op.sender) /\ op.nonce = nonce[op.sender]

Executable(ops) == \A i \in DOMAIN ops : Valid(ops[i])

Executed(ops, success) ==
    /\ height' = height + 1
    /\ events' = events \cup {[op |-> ops[i], block |-> height + 1, success |-> success]
                              : i \in DOMAIN ops}
    /\ nonce' = [a \in Addresses |->
                    nonce[a] + Cardinality({i \in DOMAIN ops : ops[i].sender = a})]

-----------------------------------------------------------------------------
(* The senders *)

Enqueue(t) ==
    /\ InStep(t, "listen")
    /\ mode = "queue"
    /\ queue' = [queue EXCEPT ![call[t].op.sender] = Append(@, call[t].op)]
    /\ queueSize' = queueSize + 1
    /\ young' = TRUE
    /\ Goes(t, [call[t] EXCEPT !.step = "wait"])
    /\ UNCHANGED <<signer, connect, sending, batch, chainVars, otherVars>>

(* localUserOpSender: the gas estimate of a bundle that would revert       *)
(* throws.  rpcUserOpSender: the bundler refuses, or takes the operation.  *)
SendAlone(t) ==
    LET ops == <<call[t].op>>
    IN  /\ InStep(t, "listen")
        /\ mode \in {"local", "rpc"}
        /\ IF Executable(ops)
           THEN /\ pool' = pool \cup {[ops |-> ops, waits |-> IF mode = "local" THEN t ELSE None]}
                /\ Goes(t, [call[t] EXCEPT !.step = IF mode = "local" THEN "sending" ELSE "wait"])
           ELSE Goes(t, Rejected(call[t])) /\ UNCHANGED pool
        /\ UNCHANGED <<signer, connect, queueVars, nonce, height, events, otherVars>>

Idle ==
    /\ young
    /\ young' = FALSE
    /\ UNCHANGED <<signer, call, connect, queue, queueSize, sending, batch, chainVars, otherVars>>

(* sendQueuedUserOps, from the interval's tick to its first await.         *)
Waits == queueSize < BundleSize \/ young

Heads == {a \in Addresses : queue[a] # <<>>}

HeadsTaken(n) == n - Cardinality(Heads)

push ==
    /\ ~sending
    /\ ~Waits
    /\ Heads # {}
    /\ sending' = TRUE
    /\ batch' = SetToSeq({Head(queue[a]) : a \in Heads})
    /\ queue' = [a \in Addresses |-> IF a \in Heads THEN Tail(queue[a]) ELSE queue[a]]
    /\ queueSize' = HeadsTaken(queueSize)
    /\ UNCHANGED <<signer, call, connect, young, chainVars, otherVars>>

(* finally resets the flag. *)
Finally == FALSE

(* handleOps throws if the bundle would revert: its operations are gone.   *)
handleOps ==
    /\ sending
    /\ batch # <<>>
    /\ batch' = <<>>
    /\ IF Executable(batch)
       THEN pool' = pool \cup {[ops |-> batch, waits |-> "push"]} /\ UNCHANGED sending
       ELSE sending' = Finally /\ UNCHANGED pool
    /\ UNCHANGED <<signer, call, connect, queue, queueSize, young, nonce, height, events, otherVars>>

(* A transaction of the pool is mined: it executes, or reverts if another  *)
(* came first.  Whoever waits for its receipt goes on, or throws.          *)
MineBundle(b) ==
    LET done == Executable(b.ops)
    IN  /\ height < MaxHeight
        /\ pool' = pool \ {b}
        /\ \E success \in BOOLEAN :
              IF done THEN Executed(b.ops, success)
              ELSE ~success /\ UNCHANGED <<nonce, height, events>>
        /\ sending' = IF b.waits = "push" THEN Finally ELSE sending
        /\ call' = IF b.waits \in Txs
                   THEN [call EXCEPT ![b.waits] =
                           IF ~done THEN Rejected(@)
                           ELSE [@ EXCEPT !.step = "wait"]]
                   ELSE call
        /\ UNCHANGED <<signer, connect, queue, queueSize, young, batch, otherVars>>

-----------------------------------------------------------------------------
NewCall == [step |-> "idle", seen |-> FALSE, op |-> None, block |-> None, status |-> None]

Init ==
    /\ signer = [s \in Signers |-> IF s \in Connecting THEN [account |-> None, phantom |-> TRUE]
                                  ELSE [account |-> Other(s), phantom |-> FALSE]]
    /\ call = [t \in Txs |-> NewCall]
    /\ connect = [s \in Signers |-> "no"]
    /\ queue = [a \in Addresses |-> <<>>]
    /\ queueSize = 0
    /\ young = FALSE
    /\ sending = FALSE
    /\ batch = <<>>
    /\ pool = {}
    /\ nonce = [a \in Addresses |-> 0]
    /\ height = 0
    /\ events = {}
    /\ mode \in Modes
    /\ factory \in BOOLEAN
    /\ patient \in {{}, Signers}

CallStep(t) ==
    \/ AddressComputed(t) \/ CodeSizeKnown(t) \/ createUserOperation(t)
    \/ BlockNumberKnown(t) \/ Notice(t)
    \/ Enqueue(t) \/ SendAlone(t)

Next ==
    \/ \E t \in Txs : sendTransaction(t) \/ CallStep(t)
    \/ \E s \in Signers : connectAccountAddress(s) \/ Connected(s)
    \/ \E b \in pool : MineBundle(b)
    \/ Idle \/ push \/ handleOps

Spec == Init /\ [][Next]_vars

(* The node answers and mines, the interval ticks, time passes; nobody has *)
(* to send.                                                                *)
Fairness ==
    /\ \A t \in Txs : WF_vars(CallStep(t))
    /\ \A s \in Signers : WF_vars(Connected(s))
    /\ WF_vars(\E b \in pool : MineBundle(b))
    /\ WF_vars(Idle) /\ WF_vars(push) /\ WF_vars(handleOps)

FairSpec == Spec /\ Fairness

-----------------------------------------------------------------------------
Ops == {call[t].op : t \in Txs} \ {None}

Queued(op) == \E a \in Addresses : op \in ToSet(queue[a])
OnItsWay(op) ==
    \/ Queued(op)
    \/ op \in ToSet(batch)
    \/ \E b \in pool : op \in ToSet(b.ops)
    \/ \E t \in Txs : call[t].op = op /\ call[t].step = "listen"
    \/ \E event \in events : event.op = op

(* Where every signer connects first and sends nothing before the last     *)
(* answer, no operation is lost: bundles that mix several senders never    *)
(* revert and no operation falls out between the queue, the bundle and the *)
(* pool.                                                                   *)
PatientLoseNothing ==
    patient = Signers =>
        /\ \A op \in Ops : OnItsWay(op)
        /\ \A t \in Txs : call[t].step # "rejected"

(* wait() returns for every operation that was executed in a block after   *)
(* the one that was current when the signer started to listen.             *)
ReportDue(t) ==
    /\ call[t].block # None
    /\ \E event \in events : event.op = call[t].op /\ event.block > call[t].block

WaitEnds == \A t \in Txs : ReportDue(t) ~> call[t].step \in {"done", "rejected"}

=============================================================================
