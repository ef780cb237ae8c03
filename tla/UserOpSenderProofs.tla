-------------------------- MODULE UserOpSenderProofs --------------------------
(***************************************************************************)
(* Where every signer waits for its last answer, no operation is lost: for *)
(* any number of signers and transactions, in each of the senders.         *)
(*                                                                         *)
(* Nothing in the code keeps two operations of one account from asking for *)
(* the same nonce; patience does.  A signer has one operation under way,   *)
(* which is in one place only and carries the account's nonce.  So the     *)
(* operations that meet in a bundle, or in two, are of different accounts, *)
(* and none of them invalidates another.                                   *)
(***************************************************************************)
EXTENDS UserOpSender, FiniteSetTheorems, SequenceTheorems, TLAPS

Operations == [tx : Txs, sender : Addresses, creates : BOOLEAN, nonce : Nat]
Steps == {"idle", "build", "listen", "wait", "sending", "done"}
CallRecords == [step : Steps, seen : BOOLEAN, op : Operations \cup {None},
                block : Nat \cup {None}, status : BOOLEAN \cup {None}]

PatientTypes ==
    /\ signer \in [Signers -> [account : Addresses \cup {None}, phantom : BOOLEAN]]
    /\ connect \in [Signers -> {"no", "code", "ended", "refused"}]
    /\ call \in [Txs -> CallRecords]
    /\ queue \in [Addresses -> Seq(Operations)]
    /\ batch \in Seq(Operations)
    /\ sending \in BOOLEAN
    /\ \A b \in pool : b.ops \in Seq(Operations) /\ b.ops # <<>>
    /\ nonce \in [Addresses -> Nat] /\ height \in Nat
    /\ events \subseteq [op : Operations, block : Nat, success : BOOLEAN]

\* A signer has its account, or is about to get it and has sent nothing.
Ready(s) == signer[s].account = Other(s) /\ ~signer[s].phantom
SignersReady ==
    \A s \in Signers :
        \/ Ready(s) /\ (s \in Connecting => connect[s] = "ended")
        \/ /\ s \in Connecting /\ connect[s] \in {"no", "code"} /\ signer[s].account = None
           /\ \A t \in Txs : SignerOf[t] = s => call[t].step = "idle"

\* A call has its operation as soon as it listens, and is the only one of its
\* signer that is under way.
Resting(t) == call[t].step \in {"idle", "done"}
CallsInTurn ==
    /\ \A t \in Txs : call[t].op = None <=> call[t].step \in {"idle", "build"}
    /\ \A t \in Txs : call[t].op # None =>
           /\ call[t].op.tx = t
           /\ call[t].op.sender = Other(SignerOf[t]) /\ ~call[t].op.creates
    /\ \A t \in Txs, u \in Txs :
           SignerOf[t] = SignerOf[u] /\ ~Resting(t) /\ ~Resting(u) => t = u

\* The places of an operation.
Taken(op) == op \in ToSet(batch)
Sent(op) == \E b \in pool : op \in ToSet(b.ops)
Mined(op) == \E event \in events : event.op = op
Somewhere(op) == Queued(op) \/ Taken(op) \/ Sent(op) \/ Mined(op)
Holds(op, steps) == op.tx \in Txs /\ call[op.tx].op = op /\ call[op.tx].step \in steps

\* Each operation is in one of them, if its call is past listening.
OnePlace ==
    /\ \A a \in Addresses : \A op \in ToSet(queue[a]) :
           op.sender = a /\ Holds(op, {"wait"}) /\ ~Taken(op) /\ ~Sent(op) /\ ~Mined(op)
    /\ \A op \in ToSet(batch) : Holds(op, {"wait"}) /\ ~Sent(op) /\ ~Mined(op)
    /\ \A b \in pool : \A op \in ToSet(b.ops) :
           Holds(op, IF b.waits = op.tx THEN {"sending"} ELSE {"wait"}) /\ ~Mined(op)
    /\ \A b \in pool, c \in pool : \A op \in ToSet(b.ops) : op \in ToSet(c.ops) => b = c
    /\ \A event \in events : Holds(event.op, {"wait", "done"})
    /\ \A t \in Txs : call[t].step \in {"wait", "sending", "done"} => Somewhere(call[t].op)
    /\ \A t \in Txs : call[t].step = "done" => Mined(call[t].op)

\* No place holds an operation twice.
NoneTwice ==
    /\ \A a \in Addresses : Len(queue[a]) <= 1
    /\ IsInjective(batch)
    /\ \A b \in pool : IsInjective(b.ops)
    /\ \A b \in pool : b.waits \in Txs => \A op \in ToSet(b.ops) : op.tx = b.waits

\* An operation that is not mined has the account's next nonce.
Numbered ==
    \A t \in Txs : call[t].op # None /\ ~Mined(call[t].op) =>
        call[t].op.nonce = nonce[call[t].op.sender]

\* The queue pushes one bundle at a time.
OnePush ==
    /\ ~sending => batch = <<>>
    /\ \A b \in pool : b.waits = "push" => sending /\ batch = <<>>
    /\ \A b \in pool, c \in pool : b.waits = "push" /\ c.waits = "push" => b = c

PatientInv ==
    /\ PatientTypes /\ SignersReady /\ CallsInTurn /\ OnePlace /\ NoneTwice
    /\ Numbered /\ OnePush

IInv == patient \in {{}, Signers} /\ (patient = Signers => PatientInv)

-----------------------------------------------------------------------------
LEMMA NoneIsNone ==
  /\ None \notin Addresses /\ None \notin Operations /\ None \notin Txs /\ None \notin Nat
  /\ "push" \notin Txs /\ None # "push"
  BY SenderAssumption DEF Operations

\* The address a connected signer has is its own and has code.
LEMMA AccountOfSigner ==
  /\ \A s \in Signers : Other(s) \in Addresses /\ HasCode(Other(s))
  /\ \A s \in Signers, r \in Signers : Other(s) = Other(r) => s = r
  BY DEF Other, Addresses, HasCode

LEMMA SignerType == SignerOf \in [Txs -> Signers] /\ IndexOf \in [Signers -> Nat]
  BY SenderAssumption

\* What is in a sequence of no, of one and of one more element.
LEMMA ElementsOf ==
  /\ ToSet(<<>>) = {}
  /\ \A e : ToSet(<<e>>) = {e}
  BY DEF ToSet
LEMMA ElementsAppend ==
  ASSUME NEW S, NEW q \in Seq(S), NEW e \in S
  PROVE  ToSet(Append(q, e)) = ToSet(q) \cup {e}
<1>1. /\ DOMAIN Append(q, e) = 1 .. Len(q) + 1 /\ DOMAIN q = 1 .. Len(q) /\ Len(q) \in Nat
      /\ \A i \in 1 .. Len(q) : Append(q, e)[i] = q[i]
      /\ Append(q, e)[Len(q) + 1] = e
  BY AppendProperties, LenProperties
<1>2. 1 .. Len(q) + 1 = (1 .. Len(q)) \cup {Len(q) + 1}
  BY <1>1
<1>3. QED
  BY <1>1, <1>2 DEF ToSet
LEMMA ElementsType ==
  ASSUME NEW S, NEW q \in Seq(S)
  PROVE  ToSet(q) \subseteq S
  BY DEF ToSet

LEMMA OfOneElement ==
  ASSUME NEW S, NEW q \in Seq(S), q # <<>>, Len(q) <= 1
  PROVE  q = <<Head(q)>> /\ Tail(q) = <<>>
<1>1. Len(q) \in Nat /\ Len(q) # 0
  BY EmptySeq, LenProperties
<1>2. Len(q) = 1
  BY <1>1
<1>3. q[1] \in S
  BY <1>2, ElementOfSeq
<1>4. Len(Tail(q)) = 0 /\ Tail(q) \in Seq(S)
  BY <1>2, HeadTailProperties
<1>5. <<q[1]>> \in Seq(S) /\ Len(<<q[1]>>) = 1
  BY <1>3
<1>6. q = <<q[1]>>
  BY <1>2, <1>5, SeqEqual
<1>7. Head(q) = q[1]
  BY <1>6
<1>8. QED
  BY <1>4, <1>6, <1>7, EmptySeq

LEMMA InitIInv == Init => IInv
<1> SUFFICES ASSUME Init, patient = Signers PROVE PatientInv
  BY DEF Init, IInv
<1>1. PatientTypes
  <2>1. signer \in [Signers -> [account : Addresses \cup {None}, phantom : BOOLEAN]]
    BY AccountOfSigner DEF Init
  <2>2. call \in [Txs -> CallRecords]
    BY DEF Init, CallRecords, Steps, NewCall
  <2>3. queue \in [Addresses -> Seq(Operations)] /\ batch \in Seq(Operations)
    BY DEF Init
  <2>4. QED
    BY <2>1, <2>2, <2>3 DEF Init, PatientTypes
<1>2. SignersReady
  BY SignerType DEF Init, SignersReady, Ready, NewCall
<1>3. CallsInTurn
  BY DEF Init, CallsInTurn, Resting, NewCall
<1>4. OnePlace /\ Numbered /\ OnePush
  BY ElementsOf DEF Init, OnePlace, Numbered, OnePush, NewCall
<1>5. NoneTwice
  BY DEF Init, NoneTwice, IsInjective
<1>6. QED
  BY <1>1, <1>2, <1>3, <1>4, <1>5 DEF PatientInv

-----------------------------------------------------------------------------
(* The call alone moves *)

\* A call that gets its operation, or is told that it was mined, leaves every
\* operation where it is.
LEMMA PlacesKept ==
  ASSUME PatientInv, UNCHANGED <<queue, batch, pool, events>>, NEW t \in Txs,
         \A u \in Txs : u # t => call'[u] = call[u],
         \/ call[t].step \in {"idle", "build"} /\ call'[t].step \in {"build", "listen"}
         \/ call'[t].op = call[t].op /\ call'[t].step = call[t].step
         \/ /\ call'[t].op = call[t].op /\ Mined(call[t].op)
            /\ call[t].step = "wait" /\ call'[t].step = "done"
  PROVE  OnePlace'
<1>1. ASSUME NEW op, Holds(op, {"wait"}), ~Mined(op)
      PROVE  Holds(op, {"wait"})'
  BY <1>1 DEF Holds
<1>2. ASSUME NEW op, Holds(op, {"sending"})
      PROVE  Holds(op, {"sending"})'
  BY <1>2 DEF Holds
<1>3. ASSUME NEW op, Holds(op, {"wait", "done"})
      PROVE  Holds(op, {"wait", "done"})'
  BY <1>3 DEF Holds
<1>4. \A a \in Addresses : \A op \in ToSet(queue'[a]) :
          /\ op.sender = a /\ Holds(op, {"wait"})'
          /\ ~Taken(op)' /\ ~Sent(op)' /\ ~Mined(op)'
  BY <1>1 DEF PatientInv, OnePlace, Taken, Sent, Mined
<1>5. \A op \in ToSet(batch') : Holds(op, {"wait"})' /\ ~Sent(op)' /\ ~Mined(op)'
  BY <1>1 DEF PatientInv, OnePlace, Sent, Mined
<1>6. ASSUME NEW b \in pool', NEW op \in ToSet(b.ops)
      PROVE  Holds(op, IF b.waits = op.tx THEN {"sending"} ELSE {"wait"})' /\ ~Mined(op)'
  <2>1. Holds(op, IF b.waits = op.tx THEN {"sending"} ELSE {"wait"}) /\ ~Mined(op)
    BY <1>6 DEF PatientInv, OnePlace
  <2>2. CASE b.waits = op.tx
    BY <2>1, <2>2, <1>2 DEF Mined
  <2>3. CASE b.waits # op.tx
    BY <2>1, <2>3, <1>1 DEF Mined
  <2>4. QED
    BY <2>2, <2>3
<1>7. \A event \in events' : Holds(event.op, {"wait", "done"})'
  BY <1>3 DEF PatientInv, OnePlace
<1>8. ASSUME NEW u \in Txs
      PROVE  /\ call'[u].step \in {"wait", "sending", "done"} => Somewhere(call[u].op)'
             /\ call'[u].step = "done" => Mined(call[u].op)'
  <2>1. call'[u].step \in {"wait", "sending", "done"} =>
           /\ call[u].step \in {"wait", "sending", "done"} /\ call'[u].op = call[u].op
           /\ call'[u].step = "done" => Mined(call[u].op)
    BY DEF PatientInv, OnePlace
  <2>2. call'[u].op = call[u].op => /\ Somewhere(call[u].op)' <=> Somewhere(call[u].op)
                                    /\ Mined(call[u].op)' <=> Mined(call[u].op)
    BY DEF Somewhere, Queued, Taken, Sent, Mined
  <2>3. QED
    BY <2>1, <2>2 DEF PatientInv, OnePlace
<1>9. \A b \in pool', c \in pool' : \A op \in ToSet(b.ops) : op \in ToSet(c.ops) => b = c
  BY DEF PatientInv, OnePlace
<1>10. QED
  BY <1>4, <1>5, <1>6, <1>7, <1>8, <1>9 DEF OnePlace

\* The places and their counts know no call.
LEMMA PlacesOnly ==
  ASSUME PatientInv, UNCHANGED <<queue, batch, pool, sending>>
  PROVE  NoneTwice' /\ OnePush'
  BY DEF PatientInv, NoneTwice, OnePush

LEMMA SendInv ==
  ASSUME patient = Signers, PatientInv, NEW t \in Txs, sendTransaction(t)
  PROVE  PatientInv'
<1> DEFINE s == SignerOf[t]
<1>1. s \in Signers /\ call[t].step = "idle" /\ call[t].op = None
  BY SignerType DEF sendTransaction, InStep, PatientInv, CallsInTurn
<1>2. Quiet(s) /\ (s \in Connecting => connect[s] = "ended")
  BY <1>1 DEF sendTransaction
<1>3. Ready(s)
  BY <1>1, <1>2 DEF PatientInv, SignersReady
<1>4. Other(s) # None
  BY <1>1, AccountOfSigner, NoneIsNone
<1>5. call' = [call EXCEPT ![t] = [call[t] EXCEPT !.step = "build"]]
  BY <1>3, <1>4 DEF sendTransaction, Goes, Ready
<1>6. call \in [Txs -> CallRecords] /\ call[t] \in CallRecords
  BY DEF PatientInv, PatientTypes
<1>7. /\ call' \in [Txs -> CallRecords]
      /\ call'[t].step = "build" /\ call'[t].op = None
      /\ \A u \in Txs : u # t => call'[u] = call[u]
  BY <1>1, <1>5, <1>6 DEF CallRecords, Steps
<1>8. UNCHANGED <<signer, connect, queue, batch, sending, pool, nonce, height, events>>
  BY DEF sendTransaction, queueVars, chainVars
<1>9. PatientTypes'
  BY <1>7, <1>8 DEF PatientInv, PatientTypes
<1>10. SignersReady'
  BY <1>2, <1>3, <1>7, <1>8 DEF PatientInv, SignersReady, Ready
<1>11. CallsInTurn'
  <2>1. \A u \in Txs : call'[u].op = call[u].op
    BY <1>1, <1>7
  <2>2. \A u \in Txs : u # t => Resting(u)' = Resting(u)
    BY <1>7 DEF Resting
  <2>3. ASSUME NEW u \in Txs, SignerOf[u] = s, u # t PROVE Resting(u)
    BY <1>2, <2>3 DEF Quiet, Resting, PatientInv, PatientTypes, CallRecords, Steps
  <2>4. \A u \in Txs : call'[u].op = None <=> call'[u].step \in {"idle", "build"}
    BY <1>7 DEF PatientInv, CallsInTurn
  <2>5. \A u \in Txs, v \in Txs :
           SignerOf[u] = SignerOf[v] /\ ~Resting(u)' /\ ~Resting(v)' => u = v
    BY <2>2, <2>3 DEF PatientInv, CallsInTurn
  <2>6. QED
    BY <2>1, <2>4, <2>5 DEF PatientInv, CallsInTurn
<1>12. OnePlace'
  BY <1>1, <1>7, <1>8, PlacesKept
<1>13. Numbered'
  BY <1>7, <1>8 DEF PatientInv, Numbered, Mined
<1>14. QED
  BY <1>8, <1>9, <1>10, <1>11, <1>12, <1>13, PlacesOnly DEF PatientInv

LEMMA CreateInv ==
  ASSUME patient = Signers, PatientInv, NEW t \in Txs, createUserOperation(t)
  PROVE  PatientInv'
<1> DEFINE s == SignerOf[t]
           op == Operation(t)
<1>1. s \in Signers /\ call[t].step = "build" /\ call[t].op = None
  BY SignerType DEF createUserOperation, InStep, PatientInv, CallsInTurn
<1>2. Ready(s)
  BY <1>1 DEF PatientInv, SignersReady
<1>3. /\ op = [tx |-> t, sender |-> Other(s), creates |-> FALSE, nonce |-> nonce[Other(s)]]
      /\ Other(s) \in Addresses /\ HasCode(Other(s))
  BY <1>1, <1>2, AccountOfSigner DEF Operation, Ready, PatientInv, PatientTypes
<1>4. op \in Operations /\ op # None
  <2>1. nonce[Other(s)] \in Nat
    BY <1>3 DEF PatientInv, PatientTypes
  <2>2. op \in Operations
    BY <1>3, <2>1 DEF Operations
  <2>3. QED
    BY <2>2, NoneIsNone
<1>5. call' = [call EXCEPT ![t] = [call[t] EXCEPT !.step = "listen", !.op = op]]
  BY <1>3 DEF createUserOperation, Goes
<1>6. call \in [Txs -> CallRecords] /\ call[t] \in CallRecords
  BY DEF PatientInv, PatientTypes
<1>7. /\ call' \in [Txs -> CallRecords]
      /\ call'[t].step = "listen" /\ call'[t].op = op
      /\ \A u \in Txs : u # t => call'[u] = call[u]
  <2> HIDE DEF op
  <2>1. /\ [call[t] EXCEPT !.step = "listen", !.op = op] \in CallRecords
        /\ [call[t] EXCEPT !.step = "listen", !.op = op].step = "listen"
        /\ [call[t] EXCEPT !.step = "listen", !.op = op].op = op
    BY <1>4, <1>6 DEF CallRecords, Steps
  <2>2. QED
    BY <1>5, <1>6, <2>1
<1>8. UNCHANGED <<signer, connect, queue, batch, sending, pool, nonce, height, events>>
  BY DEF createUserOperation, queueVars, chainVars
<1> HIDE DEF op
<1>9. PatientTypes'
  BY <1>7, <1>8 DEF PatientInv, PatientTypes
<1>10. SignersReady'
  BY <1>1, <1>7, <1>8 DEF PatientInv, SignersReady, Ready
<1>11. CallsInTurn'
  <2>1. \A u \in Txs : Resting(u)' = Resting(u)
    BY <1>1, <1>7 DEF Resting
  <2>2. \A u \in Txs : call'[u].op = None <=> call'[u].step \in {"idle", "build"}
    BY <1>4, <1>7 DEF PatientInv, CallsInTurn
  <2>3. \A u \in Txs : call'[u].op # None =>
           /\ call'[u].op.tx = u
           /\ call'[u].op.sender = Other(SignerOf[u]) /\ ~call'[u].op.creates
    BY <1>3, <1>7 DEF PatientInv, CallsInTurn
  <2>4. QED
    BY <2>1, <2>2, <2>3 DEF PatientInv, CallsInTurn
<1>12. OnePlace'
  BY <1>1, <1>7, <1>8, PlacesKept
<1>13. Numbered'
  BY <1>3, <1>7, <1>8 DEF PatientInv, Numbered, Mined
<1>14. QED
  BY <1>8, <1>9, <1>10, <1>11, <1>12, <1>13, PlacesOnly DEF PatientInv

\* What the listener does with the call alone.
LEMMA ListenInv ==
  ASSUME patient = Signers, PatientInv, NEW t \in Txs, BlockNumberKnown(t) \/ Notice(t)
  PROVE  PatientInv'
<1>1. call \in [Txs -> CallRecords] /\ call[t] \in CallRecords
  BY DEF PatientInv, PatientTypes
<1>2. /\ call' \in [Txs -> CallRecords] /\ call'[t].op = call[t].op
      /\ \/ call'[t].step = call[t].step
         \/ Mined(call[t].op) /\ call[t].step = "wait" /\ call'[t].step = "done"
      /\ \A u \in Txs : u # t => call'[u] = call[u]
  <2>1. CASE BlockNumberKnown(t)
    BY <1>1, <2>1 DEF BlockNumberKnown, Goes, CallRecords, PatientInv, PatientTypes
  <2>2. CASE Notice(t)
    <3>1. PICK event \in events :
             /\ event.op = call[t].op
             /\ Goes(t, [call[t] EXCEPT !.step = IF @ = "sending" THEN @ ELSE "done",
                                        !.status = event.success])
      BY <2>2 DEF Notice
    <3>2. call[t].op # None /\ call[t].step # "done" /\ event.success \in BOOLEAN
      BY <2>2 DEF Notice, Listening, InStep, PatientInv, PatientTypes
    <3>3. call[t].op.tx = t /\ Mined(call[t].op)
      BY <3>1, <3>2 DEF PatientInv, CallsInTurn, Mined
    <3>4. call[t].step = "wait"
      BY <3>1, <3>2, <3>3 DEF PatientInv, OnePlace, Holds
    <3>5. call' = [call EXCEPT ![t] = [call[t] EXCEPT !.step = "done",
                                                     !.status = event.success]]
      BY <3>1, <3>4 DEF Goes
    <3>6. /\ [call[t] EXCEPT !.step = "done", !.status = event.success] \in CallRecords
          /\ [call[t] EXCEPT !.step = "done", !.status = event.success].step = "done"
          /\ [call[t] EXCEPT !.step = "done", !.status = event.success].op = call[t].op
      BY <1>1, <3>2 DEF CallRecords, Steps
    <3>7. QED
      BY <1>1, <3>3, <3>4, <3>5, <3>6
  <2>3. QED
    BY <2>1, <2>2
<1>3. UNCHANGED <<signer, connect, queue, batch, sending, pool, nonce, height, events>>
  BY DEF BlockNumberKnown, Notice, queueVars, chainVars
<1>4. PatientTypes'
  BY <1>2, <1>3 DEF PatientInv, PatientTypes
<1>5. call[t].step # "idle"
  BY DEF BlockNumberKnown, Notice, Listening, PatientInv, CallsInTurn
<1>6. SignersReady'
  BY <1>2, <1>3, <1>5 DEF PatientInv, SignersReady, Ready
<1>7. CallsInTurn'
  BY <1>2 DEF PatientInv, CallsInTurn, Resting
<1>8. OnePlace'
  BY <1>2, <1>3, PlacesKept
<1>9. Numbered'
  BY <1>2, <1>3 DEF PatientInv, Numbered, Mined
<1>10. QED
  BY <1>3, <1>4, <1>6, <1>7, <1>8, <1>9, PlacesOnly DEF PatientInv

-----------------------------------------------------------------------------
(* The signer gets its account *)

LEMMA ConnectInv ==
  ASSUME patient = Signers, PatientInv, NEW s \in Signers,
         connectAccountAddress(s) \/ Connected(s)
  PROVE  PatientInv'
<1>1. UNCHANGED <<call, queue, batch, sending, pool, nonce, height, events>>
  BY DEF connectAccountAddress, Connected, queueVars, chainVars
<1>2. Other(s) \in Addresses /\ Other(s) # None
  BY AccountOfSigner, NoneIsNone
<1>3. /\ signer' \in [Signers -> [account : Addresses \cup {None}, phantom : BOOLEAN]]
      /\ connect' \in [Signers -> {"no", "code", "ended", "refused"}]
  <2>1. /\ signer \in [Signers -> [account : Addresses \cup {None}, phantom : BOOLEAN]]
        /\ connect \in [Signers -> {"no", "code", "ended", "refused"}]
    BY DEF PatientInv, PatientTypes
  <2>2. [account |-> Other(s), phantom |-> FALSE]
           \in [account : Addresses \cup {None}, phantom : BOOLEAN]
    BY <1>2
  <2>3. \/ signer' = signer
        \/ signer' = [signer EXCEPT ![s] = [account |-> Other(s), phantom |-> FALSE]]
    BY DEF connectAccountAddress, Connected
  <2>4. signer' \in [Signers -> [account : Addresses \cup {None}, phantom : BOOLEAN]]
    BY <2>1, <2>2, <2>3
  <2>5. connect' \in [Signers -> {"no", "code", "ended", "refused"}]
    BY <2>1 DEF connectAccountAddress, Connected
  <2>6. QED
    BY <2>4, <2>5
<1>4. SignersReady'
  <2>1. \A r \in Signers : r # s => signer'[r] = signer[r] /\ connect'[r] = connect[r]
    BY DEF connectAccountAddress, Connected, PatientInv, PatientTypes
  <2>2. CASE connectAccountAddress(s)
    <3>1. s \in Connecting /\ connect[s] = "no" /\ signer' = signer
      BY <2>2 DEF connectAccountAddress
    <3>2. signer[s].account = None /\ \A t \in Txs : SignerOf[t] = s => call[t].step = "idle"
      BY <3>1 DEF PatientInv, SignersReady
    <3>3. connect'[s] = "code"
      BY <2>2, <3>2 DEF connectAccountAddress, PatientInv, PatientTypes
    <3>4. QED
      BY <1>1, <2>1, <3>1, <3>2, <3>3 DEF PatientInv, SignersReady, Ready
  <2>3. CASE Connected(s)
    <3>1. signer'[s].account = Other(s) /\ ~signer'[s].phantom /\ connect'[s] = "ended"
      BY <2>3 DEF Connected, PatientInv, PatientTypes
    <3>2. QED
      BY <1>1, <2>1, <3>1 DEF PatientInv, SignersReady, Ready
  <2>4. QED
    BY <2>2, <2>3
<1>5. PatientTypes'
  BY <1>1, <1>3 DEF PatientInv, PatientTypes
<1>6. CallsInTurn' /\ Numbered'
  BY <1>1 DEF PatientInv, CallsInTurn, Resting, Numbered, Mined
<1>7. OnePlace'
  BY <1>1 DEF PatientInv, OnePlace, Holds, Somewhere, Queued, Taken, Sent, Mined
<1>8. QED
  BY <1>1, <1>4, <1>5, <1>6, <1>7, PlacesOnly DEF PatientInv

-----------------------------------------------------------------------------
(* The operation moves *)

\* An operation in a place is one of its call's, and of no other transaction.
LEMMA PlacedIsHeld ==
  ASSUME PatientInv, NEW op, Somewhere(op)
  PROVE  /\ op.tx \in Txs /\ call[op.tx].op = op /\ op \in Operations
         /\ call[op.tx].step \in {"wait", "sending", "done"}
<1>1. op.tx \in Txs /\ call[op.tx].op = op /\ call[op.tx].step \in {"wait", "sending", "done"}
  BY DEF PatientInv, OnePlace, Somewhere, Queued, Taken, Sent, Mined, Holds
<1>2. call[op.tx].op \in Operations \cup {None} /\ call[op.tx].op # None
  BY <1>1 DEF PatientInv, PatientTypes, CallRecords, CallsInTurn
<1>3. QED
  BY <1>1, <1>2

\* The operation of a call that is not past listening is in no place.
LEMMA ListeningIsNowhere ==
  ASSUME PatientInv, NEW t \in Txs, call[t].step = "listen"
  PROVE  /\ call[t].op \in Operations /\ call[t].op.tx = t
         /\ call[t].op.sender = Other(SignerOf[t])
         /\ ~Somewhere(call[t].op)
         /\ \A op : Somewhere(op) => op.tx # t
<1>1. call[t].op # None /\ call[t].op \in Operations \cup {None}
  BY DEF PatientInv, PatientTypes, CallRecords, CallsInTurn
<1>2. call[t].op.tx = t /\ call[t].op.sender = Other(SignerOf[t])
  BY <1>1 DEF PatientInv, CallsInTurn
<1>3. \A op : Somewhere(op) => op.tx # t
  BY PlacedIsHeld
<1>4. QED
  BY <1>1, <1>2, <1>3

\* What the EntryPoint asks of an operation holds until it is mined.
LEMMA UnminedIsValid ==
  ASSUME PatientInv, NEW op, op.tx \in Txs, call[op.tx].op = op, op \in Operations, ~Mined(op)
  PROVE  Valid(op)
<1>1. op # None
  BY NoneIsNone
<1>2. ~op.creates /\ op.sender = Other(SignerOf[op.tx]) /\ op.nonce = nonce[op.sender]
  BY <1>1 DEF PatientInv, CallsInTurn, Numbered
<1>3. HasCode(op.sender)
  BY <1>2, SignerType, AccountOfSigner
<1>4. QED
  BY <1>2, <1>3 DEF Valid

LEMMA EnqueueInv ==
  ASSUME patient = Signers, PatientInv, NEW t \in Txs, Enqueue(t)
  PROVE  PatientInv'
<1> DEFINE o == call[t].op
           a == o.sender
<1>1. call[t].step = "listen"
  BY DEF Enqueue, InStep
<1>2. /\ o \in Operations /\ o.tx = t /\ a = Other(SignerOf[t]) /\ a \in Addresses
      /\ ~Somewhere(o) /\ \A op : Somewhere(op) => op.tx # t
  BY <1>1, ListeningIsNowhere, SignerType, AccountOfSigner
<1>3. call \in [Txs -> CallRecords] /\ queue \in [Addresses -> Seq(Operations)]
  BY DEF PatientInv, PatientTypes
<1>4. /\ call' \in [Txs -> CallRecords]
      /\ call'[t].op = o /\ call'[t].step = "wait"
      /\ \A u \in Txs : u # t => call'[u] = call[u]
  BY <1>3 DEF Enqueue, Goes, CallRecords, Steps
<1>5. queue[a] = <<>>
  <2>1. SUFFICES ASSUME queue[a] # <<>> PROVE FALSE
    OBVIOUS
  <2>2. Head(queue[a]) \in ToSet(queue[a])
    BY <1>2, <1>3, <2>1 DEF ToSet
  <2>3. PICK h \in ToSet(queue[a]) : TRUE
    BY <2>2
  <2>4. Somewhere(h) /\ h.sender = a /\ call[h.tx].step = "wait"
    BY <1>2, <2>3 DEF Somewhere, Queued, PatientInv, OnePlace, Holds
  <2>5. h.tx \in Txs /\ call[h.tx].op = h /\ h \in Operations /\ h # None
    BY <2>4, PlacedIsHeld, NoneIsNone
  <2>6. Other(SignerOf[h.tx]) = Other(SignerOf[t])
    BY <1>2, <2>4, <2>5 DEF PatientInv, CallsInTurn
  <2>7. SignerOf[h.tx] = SignerOf[t]
    BY <2>5, <2>6, SignerType, AccountOfSigner
  <2>8. QED
    BY <1>1, <2>4, <2>5, <2>7 DEF PatientInv, CallsInTurn, Resting
<1>6. /\ queue' \in [Addresses -> Seq(Operations)]
      /\ queue'[a] = <<o>> /\ \A x \in Addresses : x # a => queue'[x] = queue[x]
  <2>1. queue' = [queue EXCEPT ![a] = Append(queue[a], o)]
    BY DEF Enqueue
  <2>2. Append(queue[a], o) = <<o>> /\ <<o>> \in Seq(Operations)
    BY <1>2, <1>5
  <2> HIDE DEF o, a
  <2>3. QED
    BY <1>2, <1>3, <2>1, <2>2
<1>7. UNCHANGED <<signer, connect, sending, batch, pool, nonce, height, events>>
  BY DEF Enqueue, chainVars
<1> HIDE DEF o, a
<1>8. /\ \A op : Queued(op)' <=> Queued(op) \/ op = o
      /\ \A op : Taken(op)' <=> Taken(op)
      /\ \A op : Sent(op)' <=> Sent(op)
      /\ \A op : Mined(op)' <=> Mined(op)
  <2>1. ToSet(queue'[a]) = {o} /\ ToSet(queue[a]) = {}
    BY <1>5, <1>6, ElementsOf
  <2>2. \A op : Queued(op)' <=> Queued(op) \/ op = o
    BY <1>2, <1>6, <2>1 DEF Queued
  <2>3. QED
    BY <1>7, <2>2 DEF Taken, Sent, Mined
<1>9. \A op : Somewhere(op) => \A steps : Holds(op, steps) => Holds(op, steps)'
  BY <1>2, <1>4 DEF Holds
<1>10. PatientTypes'
  BY <1>4, <1>6, <1>7 DEF PatientInv, PatientTypes
<1>11. SignersReady'
  BY <1>1, <1>4, <1>7 DEF PatientInv, SignersReady, Ready
<1>12. CallsInTurn'
  BY <1>1, <1>4 DEF PatientInv, CallsInTurn, Resting, o
<1>13. OnePlace'
  <2>1. ASSUME NEW x \in Addresses, NEW op \in ToSet(queue'[x])
        PROVE  /\ op.sender = x /\ Holds(op, {"wait"})'
               /\ ~Taken(op)' /\ ~Sent(op)' /\ ~Mined(op)'
    <3>1. CASE x = a
      <4>1. op = o
        BY <1>6, <2>1, <3>1, ElementsOf
      <4>2. QED
        BY <1>2, <1>4, <1>8, <3>1, <4>1 DEF Holds, Somewhere, a
    <3>2. CASE x # a
      <4>1. op \in ToSet(queue[x])
        BY <1>6, <2>1, <3>2
      <4>2. QED
        BY <1>8, <1>9, <4>1 DEF PatientInv, OnePlace, Somewhere, Queued
    <3>3. QED
      BY <3>1, <3>2
  <2>2. \A op \in ToSet(batch') : Holds(op, {"wait"})' /\ ~Sent(op)' /\ ~Mined(op)'
    BY <1>7, <1>8, <1>9 DEF PatientInv, OnePlace, Somewhere, Taken
  <2>3. ASSUME NEW b \in pool', NEW op \in ToSet(b.ops)
        PROVE  Holds(op, IF b.waits = op.tx THEN {"sending"} ELSE {"wait"})' /\ ~Mined(op)'
    BY <1>7, <1>8, <1>9, <2>3 DEF PatientInv, OnePlace, Somewhere, Sent
  <2>4. \A b \in pool', c \in pool' : \A op \in ToSet(b.ops) : op \in ToSet(c.ops) => b = c
    BY <1>7 DEF PatientInv, OnePlace
  <2>5. \A event \in events' : Holds(event.op, {"wait", "done"})'
    BY <1>7, <1>9 DEF PatientInv, OnePlace, Somewhere, Mined
  <2>6. ASSUME NEW u \in Txs
        PROVE  /\ call'[u].step \in {"wait", "sending", "done"} => Somewhere(call[u].op)'
               /\ call'[u].step = "done" => Mined(call[u].op)'
    <3>1. call'[u].op = call[u].op
      BY <1>4 DEF o
    <3>2. CASE u = t
      BY <1>4, <1>8, <3>1, <3>2 DEF Somewhere, o
    <3>3. CASE u # t
      BY <1>4, <1>8, <3>1, <3>3 DEF Somewhere, PatientInv, OnePlace
    <3>4. QED
      BY <3>2, <3>3
  <2>7. QED
    BY <2>1, <2>2, <2>3, <2>4, <2>5, <2>6 DEF OnePlace
<1>14. NoneTwice'
  <2>1. Len(queue'[a]) <= 1
    BY <1>6
  <2>2. QED
    BY <1>6, <1>7, <2>1 DEF PatientInv, NoneTwice
<1>15. Numbered'
  BY <1>4, <1>7 DEF PatientInv, Numbered, Mined, o
<1>16. OnePush'
  BY <1>7 DEF PatientInv, OnePush
<1>17. QED
  BY <1>10, <1>11, <1>12, <1>13, <1>14, <1>15, <1>16 DEF PatientInv

LEMMA SendAloneInv ==
  ASSUME patient = Signers, PatientInv, NEW t \in Txs, SendAlone(t)
  PROVE  PatientInv'
<1> DEFINE o == call[t].op
           w == IF mode = "local" THEN t ELSE None
           d == [ops |-> <<o>>, waits |-> w]
           step == IF mode = "local" THEN "sending" ELSE "wait"
<1>1. call[t].step = "listen"
  BY DEF SendAlone, InStep
<1>2. /\ o \in Operations /\ o.tx = t /\ ~Somewhere(o)
      /\ \A op : Somewhere(op) => op.tx # t
  BY <1>1, ListeningIsNowhere
<1>3. Executable(<<o>>)
  <2>1. Valid(o)
    BY <1>2, UnminedIsValid DEF Somewhere
  <2> HIDE DEF o
  <2>2. QED
    BY <2>1 DEF Executable
<1>4. /\ pool' = pool \cup {d}
      /\ call' = [call EXCEPT ![t] = [call[t] EXCEPT !.step = step]]
  BY <1>3 DEF SendAlone, Goes
<1>5. call \in [Txs -> CallRecords] /\ step \in {"sending", "wait"}
  BY DEF PatientInv, PatientTypes
<1>6. /\ w # "push" /\ (step = "sending" => w = t) /\ (step = "wait" => w # t)
      /\ (w \in Txs => w = t)
  BY NoneIsNone
<1>7. d.ops = <<o>> /\ d.waits = w
  OBVIOUS
<1> HIDE DEF step, w
<1>8. /\ call' \in [Txs -> CallRecords]
      /\ call'[t].op = o /\ call'[t].step = step
      /\ \A u \in Txs : u # t => call'[u] = call[u]
  BY <1>4, <1>5 DEF CallRecords, Steps
<1>9. UNCHANGED <<signer, connect, queue, sending, batch, nonce, height, events>>
  BY DEF SendAlone, queueVars
<1> HIDE DEF o, d
<1>10. d.ops \in Seq(Operations) /\ d.ops # <<>> /\ ToSet(d.ops) = {o} /\ IsInjective(d.ops)
  BY <1>2, <1>7, ElementsOf DEF IsInjective
<1>11. /\ \A op : Queued(op)' <=> Queued(op)
       /\ \A op : Taken(op)' <=> Taken(op)
       /\ \A op : Sent(op)' <=> Sent(op) \/ op = o
       /\ \A op : Mined(op)' <=> Mined(op)
  <2>1. \A op : Sent(op)' <=> Sent(op) \/ op = o
    BY <1>4, <1>10 DEF Sent
  <2>2. QED
    BY <1>9, <2>1 DEF Queued, Taken, Mined
<1>12. \A op : Somewhere(op) => \A steps : Holds(op, steps) => Holds(op, steps)'
  BY <1>2, <1>8 DEF Holds
<1>13. PatientTypes'
  BY <1>4, <1>8, <1>9, <1>10 DEF PatientInv, PatientTypes
<1>14. SignersReady'
  BY <1>1, <1>8, <1>9 DEF PatientInv, SignersReady, Ready
<1>15. CallsInTurn'
  BY <1>1, <1>5, <1>8 DEF PatientInv, CallsInTurn, Resting, o
<1>16. OnePlace'
  <2>1. ASSUME NEW x \in Addresses, NEW op \in ToSet(queue'[x])
        PROVE  /\ op.sender = x /\ Holds(op, {"wait"})'
               /\ ~Taken(op)' /\ ~Sent(op)' /\ ~Mined(op)'
    <3>1. Queued(op) /\ op.sender = x /\ Holds(op, {"wait"}) /\ ~Taken(op) /\ ~Sent(op) /\ ~Mined(op)
      BY <1>9, <2>1 DEF PatientInv, OnePlace, Queued
    <3>2. QED
      BY <1>2, <1>11, <1>12, <3>1 DEF Somewhere
  <2>2. ASSUME NEW op \in ToSet(batch')
        PROVE  Holds(op, {"wait"})' /\ ~Sent(op)' /\ ~Mined(op)'
    <3>1. Taken(op) /\ Holds(op, {"wait"}) /\ ~Sent(op) /\ ~Mined(op)
      BY <1>9, <2>2 DEF PatientInv, OnePlace, Taken
    <3>2. QED
      BY <1>2, <1>11, <1>12, <3>1 DEF Somewhere
  <2>3. ASSUME NEW b \in pool', NEW op \in ToSet(b.ops)
        PROVE  Holds(op, IF b.waits = op.tx THEN {"sending"} ELSE {"wait"})' /\ ~Mined(op)'
    <3>1. CASE b \in pool
      BY <1>11, <1>12, <2>3, <3>1 DEF PatientInv, OnePlace, Somewhere, Sent
    <3>2. CASE b = d
      BY <1>2, <1>5, <1>6, <1>7, <1>8, <1>10, <1>11, <2>3, <3>2 DEF Holds, Somewhere
    <3>3. QED
      BY <1>4, <3>1, <3>2
  <2>4. ASSUME NEW b \in pool', NEW c \in pool', NEW op \in ToSet(b.ops), op \in ToSet(c.ops)
        PROVE  b = c
    <3>1. CASE b \in pool /\ c \in pool
      BY <2>4, <3>1 DEF PatientInv, OnePlace
    <3>2. CASE b = d \/ c = d
      <4>1. op = o
        BY <1>10, <2>4, <3>2
      <4>2. b \notin pool /\ c \notin pool
        BY <1>2, <2>4, <4>1 DEF Somewhere, Sent
      <4>3. QED
        BY <1>4, <4>2
    <3>3. QED
      BY <1>4, <3>1, <3>2
  <2>5. \A event \in events' : Holds(event.op, {"wait", "done"})'
    BY <1>9, <1>12 DEF PatientInv, OnePlace, Somewhere, Mined
  <2>6. ASSUME NEW u \in Txs
        PROVE  /\ call'[u].step \in {"wait", "sending", "done"} => Somewhere(call[u].op)'
               /\ call'[u].step = "done" => Mined(call[u].op)'
    <3>1. call'[u].op = call[u].op
      BY <1>8 DEF o
    <3>2. CASE u = t
      BY <1>5, <1>8, <1>11, <3>1, <3>2 DEF Somewhere, o
    <3>3. CASE u # t
      BY <1>8, <1>11, <3>1, <3>3 DEF Somewhere, PatientInv, OnePlace
    <3>4. QED
      BY <3>2, <3>3
  <2>7. QED
    BY <2>1, <2>2, <2>3, <2>4, <2>5, <2>6 DEF OnePlace
<1>17. NoneTwice'
  BY <1>2, <1>4, <1>6, <1>7, <1>9, <1>10 DEF PatientInv, NoneTwice
<1>18. Numbered'
  BY <1>8, <1>9 DEF PatientInv, Numbered, Mined, o
<1>19. OnePush'
  BY <1>4, <1>6, <1>7, <1>9 DEF PatientInv, OnePush
<1>20. QED
  BY <1>13, <1>14, <1>15, <1>16, <1>17, <1>18, <1>19 DEF PatientInv

\* The bundle is a sequence of just the heads, each once.
LEMMA SequenceOfSet ==
  ASSUME NEW S, IsFiniteSet(S)
  PROVE  /\ SetToSeq(S) \in Seq(S) /\ IsInjective(SetToSeq(S))
         /\ ToSet(SetToSeq(S)) = S
<1>1. Cardinality(S) \in Nat /\ ExistsBijection(1 .. Cardinality(S), S)
  BY FS_CardinalityType
<1>2. PICK f : f \in Bijection(1 .. Cardinality(S), S)
  BY <1>1 DEF ExistsBijection
<1>3. f \in [1 .. Cardinality(S) -> S] /\ IsInjective(f)
  BY <1>2 DEF Bijection, Injection, IsInjective
<1> DEFINE q == SetToSeq(S)
<1>4. q \in [1 .. Cardinality(S) -> S] /\ IsInjective(q)
  BY <1>3 DEF SetToSeq
<1> HIDE DEF q
<1>5. q \in Injection(1 .. Cardinality(S), S)
  BY <1>4 DEF Injection, IsInjective
<1>6. IsFiniteSet(1 .. Cardinality(S)) /\ Cardinality(1 .. Cardinality(S)) = Cardinality(S)
  BY <1>1, FS_Interval
<1>7. q \in Surjection(1 .. Cardinality(S), S)
  BY <1>5, <1>6, FS_Injection
<1>8. ToSet(q) = S
  BY <1>4, <1>7 DEF ToSet, Surjection
<1>9. q \in Seq(S)
  BY <1>1, <1>4
<1>10. QED
  BY <1>4, <1>8, <1>9 DEF q

LEMMA AddressesFinite == IsFiniteSet(Addresses)
<1> DEFINE A == {Own(s) : s \in Signers}
           B == {Other(s) : s \in Signers}
           f == [s \in Signers |-> Own(s)]
           g == [s \in Signers |-> Other(s)]
<1>1. IsFiniteSet(Signers)
  BY SenderAssumption
<1>2. f \in Surjection(Signers, A) /\ g \in Surjection(Signers, B)
  BY DEF Surjection
<1> HIDE DEF A, B, f, g
<1>3. IsFiniteSet(A) /\ IsFiniteSet(B)
  BY <1>1, <1>2, FS_Surjection
<1>4. IsFiniteSet(A \cup B)
  BY <1>3, FS_Union
<1>5. QED
  BY <1>4 DEF Addresses, A, B

\* Only the places change, and what they hold together stays.
LEMMA CallsKept ==
  ASSUME PatientInv, UNCHANGED <<signer, connect, call>>
  PROVE  SignersReady' /\ CallsInTurn'
  BY DEF PatientInv, SignersReady, Ready, CallsInTurn, Resting

LEMMA PushInv ==
  ASSUME patient = Signers, PatientInv, push
  PROVE  PatientInv'
<1> DEFINE H == {Head(queue[a]) : a \in Heads}
<1>1. queue \in [Addresses -> Seq(Operations)] /\ \A a \in Addresses : Len(queue[a]) <= 1
  BY DEF PatientInv, PatientTypes, NoneTwice
<1>2. \A a \in Heads : a \in Addresses /\ queue[a] = <<Head(queue[a])>> /\ Tail(queue[a]) = <<>>
  <2>1. SUFFICES ASSUME NEW a \in Heads
                 PROVE  a \in Addresses /\ queue[a] = <<Head(queue[a])>> /\ Tail(queue[a]) = <<>>
    OBVIOUS
  <2>2. a \in Addresses /\ queue[a] # <<>>
    BY DEF Heads
  <2>3. queue[a] \in Seq(Operations) /\ Len(queue[a]) <= 1
    BY <1>1, <2>2
  <2>4. QED
    BY <2>2, <2>3, OfOneElement
<1>3. \A op : Queued(op) <=> op \in H
  <2>1. \A a \in Heads : ToSet(queue[a]) = {Head(queue[a])}
    BY <1>2, ElementsOf
  <2>2. \A a \in Addresses \ Heads : ToSet(queue[a]) = {}
    BY ElementsOf DEF Heads
  <2>3. QED
    BY <1>2, <2>1, <2>2 DEF Queued
<1>4. \A a \in Addresses : queue'[a] = <<>>
  BY <1>1, <1>2 DEF push, Heads
<1>5. queue' \in [Addresses -> Seq(Operations)]
  <2>1. queue' = [a \in Addresses |-> <<>>]
    BY <1>4 DEF push
  <2>2. QED
    BY <2>1
<1>6. H \subseteq Operations
  BY <1>3, PlacedIsHeld DEF Somewhere
<1>7. IsFiniteSet(H)
  <2> DEFINE f == [a \in Heads |-> Head(queue[a])]
  <2>1. IsFiniteSet(Heads)
    BY AddressesFinite, FS_Subset DEF Heads
  <2>2. f \in Surjection(Heads, H)
    BY DEF Surjection
  <2> HIDE DEF f, H
  <2>3. QED
    BY <2>1, <2>2, FS_Surjection
<1>8. sending' = TRUE /\ ~sending /\ batch' = SetToSeq(H)
      /\ UNCHANGED <<signer, connect, call, pool, nonce, height, events>>
  BY DEF push, chainVars
<1> HIDE DEF H
<1>9. batch' \in Seq(Operations) /\ IsInjective(batch') /\ ToSet(batch') = H
  BY <1>6, <1>7, <1>8, SequenceOfSet
<1>10. batch = <<>> /\ \A b \in pool : b.waits # "push"
  BY <1>8 DEF PatientInv, OnePush
<1>11. /\ \A op : ~Queued(op)' /\ ~Taken(op)
       /\ \A op : Taken(op)' <=> Queued(op)
       /\ \A op : Sent(op)' <=> Sent(op)
       /\ \A op : Mined(op)' <=> Mined(op)
       /\ \A op, steps : Holds(op, steps)' <=> Holds(op, steps)
  <2>1. \A op : ~Queued(op)' /\ ~Taken(op)
    BY <1>4, <1>10, ElementsOf DEF Queued, Taken
  <2>2. \A op : Taken(op)' <=> Queued(op)
    BY <1>3, <1>9 DEF Taken
  <2>3. QED
    BY <1>8, <2>1, <2>2 DEF Sent, Mined, Holds
<1>12. PatientTypes'
  BY <1>5, <1>8, <1>9 DEF PatientInv, PatientTypes
<1>13. OnePlace'
  <2>1. \A x \in Addresses : ToSet(queue'[x]) = {}
    BY <1>4, ElementsOf
  <2>2. ASSUME NEW op \in ToSet(batch')
        PROVE  Holds(op, {"wait"})' /\ ~Sent(op)' /\ ~Mined(op)'
    <3>1. Queued(op)
      BY <1>3, <1>9, <2>2
    <3>2. Holds(op, {"wait"}) /\ ~Sent(op) /\ ~Mined(op)
      BY <3>1 DEF PatientInv, OnePlace, Queued
    <3>3. QED
      BY <1>11, <3>2
  <2>3. ASSUME NEW b \in pool', NEW op \in ToSet(b.ops)
        PROVE  Holds(op, IF b.waits = op.tx THEN {"sending"} ELSE {"wait"})' /\ ~Mined(op)'
    BY <1>8, <1>11, <2>3 DEF PatientInv, OnePlace
  <2>4. \A b \in pool', c \in pool' : \A op \in ToSet(b.ops) : op \in ToSet(c.ops) => b = c
    BY <1>8 DEF PatientInv, OnePlace
  <2>5. \A event \in events' : Holds(event.op, {"wait", "done"})'
    BY <1>8, <1>11 DEF PatientInv, OnePlace
  <2>6. ASSUME NEW u \in Txs
        PROVE  /\ call'[u].step \in {"wait", "sending", "done"} => Somewhere(call[u].op)'
               /\ call'[u].step = "done" => Mined(call[u].op)'
    <3>1. Somewhere(call[u].op) => Somewhere(call[u].op)'
      BY <1>8, <1>11 DEF Somewhere, Queued, Taken, Sent, Mined
    <3>2. QED
      BY <1>8, <3>1 DEF PatientInv, OnePlace, Mined
  <2>7. QED
    BY <2>1, <2>2, <2>3, <2>4, <2>5, <2>6 DEF OnePlace
<1>14. NoneTwice'
  <2>1. \A a \in Addresses : Len(queue'[a]) <= 1
    BY <1>4
  <2>2. QED
    BY <1>8, <1>9, <2>1 DEF PatientInv, NoneTwice
<1>15. Numbered'
  BY <1>8 DEF PatientInv, Numbered, Mined
<1>16. OnePush'
  BY <1>8, <1>10 DEF OnePush
<1>17. QED
  BY <1>8, <1>12, <1>13, <1>14, <1>15, <1>16, CallsKept DEF PatientInv

\* A bundle of a place is executable.
LEMMA PlacedIsExecutable ==
  ASSUME PatientInv, NEW ops \in Seq(Operations),
         \A op \in ToSet(ops) : Somewhere(op) /\ ~Mined(op)
  PROVE  Executable(ops)
<1>1. \A op \in ToSet(ops) : Valid(op)
  BY PlacedIsHeld, UnminedIsValid
<1>2. QED
  BY <1>1 DEF Executable, ToSet

LEMMA HandleOpsInv ==
  ASSUME patient = Signers, PatientInv, handleOps
  PROVE  PatientInv'
<1> DEFINE d == [ops |-> batch, waits |-> "push"]
<1>1. /\ batch \in Seq(Operations) /\ batch # <<>> /\ sending /\ IsInjective(batch)
      /\ \A b \in pool : b.waits # "push"
  BY DEF handleOps, PatientInv, PatientTypes, NoneTwice, OnePush
<1>2. Executable(batch)
  BY <1>1, PlacedIsExecutable DEF PatientInv, OnePlace, Somewhere, Taken
<1>3. /\ pool' = pool \cup {d} /\ batch' = <<>>
      /\ UNCHANGED <<signer, connect, call, queue, sending, nonce, height, events>>
  BY <1>2 DEF handleOps
<1>4. d.ops = batch /\ d.waits = "push"
  OBVIOUS
<1> HIDE DEF d
<1>5. /\ \A op : Queued(op)' <=> Queued(op)
      /\ \A op : ~Taken(op)'
      /\ \A op : Sent(op)' <=> Sent(op) \/ Taken(op)
      /\ \A op : Mined(op)' <=> Mined(op)
      /\ \A op, steps : Holds(op, steps)' <=> Holds(op, steps)
  <2>1. \A op : ~Taken(op)'
    BY <1>3, ElementsOf DEF Taken
  <2>2. \A op : Sent(op)' <=> Sent(op) \/ Taken(op)
    BY <1>3, <1>4 DEF Sent, Taken
  <2>3. QED
    BY <1>3, <2>1, <2>2 DEF Queued, Mined, Holds
<1>6. PatientTypes'
  <2>1. \A b \in pool' : b.ops \in Seq(Operations) /\ b.ops # <<>>
    BY <1>1, <1>3, <1>4 DEF PatientInv, PatientTypes
  <2>2. batch' \in Seq(Operations)
    BY <1>3
  <2>3. QED
    BY <1>3, <2>1, <2>2 DEF PatientInv, PatientTypes
<1>7. OnePlace'
  <2>1. ASSUME NEW x \in Addresses, NEW op \in ToSet(queue'[x])
        PROVE  /\ op.sender = x /\ Holds(op, {"wait"})'
               /\ ~Taken(op)' /\ ~Sent(op)' /\ ~Mined(op)'
    BY <1>3, <1>5, <2>1 DEF PatientInv, OnePlace
  <2>2. ToSet(batch') = {}
    BY <1>3, ElementsOf
  <2>3. ASSUME NEW b \in pool', NEW op \in ToSet(b.ops)
        PROVE  Holds(op, IF b.waits = op.tx THEN {"sending"} ELSE {"wait"})' /\ ~Mined(op)'
    <3>1. CASE b \in pool
      BY <1>5, <2>3, <3>1 DEF PatientInv, OnePlace
    <3>2. CASE b = d
      <4>1. Holds(op, {"wait"}) /\ ~Mined(op)
        BY <1>4, <2>3, <3>2 DEF PatientInv, OnePlace
      <4>2. b.waits # op.tx
        BY <1>4, <3>2, <4>1, NoneIsNone DEF Holds
      <4>3. QED
        BY <1>5, <4>1, <4>2
    <3>3. QED
      BY <1>3, <3>1, <3>2
  <2>4. ASSUME NEW b \in pool', NEW c \in pool', NEW op \in ToSet(b.ops), op \in ToSet(c.ops)
        PROVE  b = c
    <3>1. CASE b \in pool /\ c \in pool
      BY <2>4, <3>1 DEF PatientInv, OnePlace
    <3>2. CASE b = d \/ c = d
      <4>1. ~Sent(op)
        BY <1>4, <2>4, <3>2 DEF PatientInv, OnePlace
      <4>2. b \notin pool /\ c \notin pool
        BY <2>4, <4>1 DEF Sent
      <4>3. QED
        BY <1>3, <4>2
    <3>3. QED
      BY <1>3, <3>1, <3>2
  <2>5. \A event \in events' : Holds(event.op, {"wait", "done"})'
    BY <1>3, <1>5 DEF PatientInv, OnePlace
  <2>6. ASSUME NEW u \in Txs
        PROVE  /\ call'[u].step \in {"wait", "sending", "done"} => Somewhere(call[u].op)'
               /\ call'[u].step = "done" => Mined(call[u].op)'
    <3>1. Somewhere(call[u].op) => Somewhere(call[u].op)'
      BY <1>3, <1>5 DEF Somewhere, Queued, Taken, Sent, Mined
    <3>2. QED
      BY <1>3, <3>1 DEF PatientInv, OnePlace, Mined
  <2>7. QED
    BY <2>1, <2>2, <2>3, <2>4, <2>5, <2>6 DEF OnePlace
<1>8. NoneTwice'
  <2>1. \A b \in pool' : IsInjective(b.ops)
    BY <1>1, <1>3, <1>4 DEF PatientInv, NoneTwice
  <2>2. \A b \in pool' : b.waits \in Txs => \A op \in ToSet(b.ops) : op.tx = b.waits
    BY <1>3, <1>4, NoneIsNone DEF PatientInv, NoneTwice
  <2>3. IsInjective(batch')
    BY <1>3 DEF IsInjective
  <2>4. QED
    BY <1>3, <2>1, <2>2, <2>3 DEF PatientInv, NoneTwice
<1>9. Numbered'
  BY <1>3 DEF PatientInv, Numbered, Mined
<1>10. OnePush'
  BY <1>1, <1>3 DEF OnePush
<1>11. QED
  BY <1>3, <1>6, <1>7, <1>8, <1>9, <1>10, CallsKept DEF PatientInv

\* Two operations of one sender that are not mined are one.
LEMMA OneOfSender ==
  ASSUME PatientInv, NEW op, Somewhere(op), ~Mined(op), NEW t \in Txs, call[t].op # None,
         ~Mined(call[t].op), call[t].op.sender = op.sender
  PROVE  op = call[t].op
<1>1. op.tx \in Txs /\ call[op.tx].op = op /\ op # None
  BY PlacedIsHeld, NoneIsNone
<1>2. ~Resting(t) /\ ~Resting(op.tx)
  BY <1>1 DEF PatientInv, CallsInTurn, OnePlace, Resting
<1>3. Other(SignerOf[t]) = Other(SignerOf[op.tx])
  BY <1>1 DEF PatientInv, CallsInTurn
<1>4. SignerOf[t] = SignerOf[op.tx]
  BY <1>1, <1>3, SignerType, AccountOfSigner
<1>5. QED
  BY <1>1, <1>2, <1>4 DEF PatientInv, CallsInTurn

\* A bundle that is mined raises the nonces of its senders and of no others.
LEMMA NonceOfOthers ==
  ASSUME NEW ops \in Seq(Operations), NEW a,
         \A op \in ToSet(ops) : op.sender # a
  PROVE  Cardinality({i \in DOMAIN ops : ops[i].sender = a}) = 0
<1>1. {i \in DOMAIN ops : ops[i].sender = a} = {}
  BY DEF ToSet
<1>2. QED
  BY <1>1, FS_EmptySet
LEMMA NonceCountType ==
  ASSUME NEW ops \in Seq(Operations), NEW a
  PROVE  Cardinality({i \in DOMAIN ops : ops[i].sender = a}) \in Nat
<1>1. DOMAIN ops = 1 .. Len(ops) /\ Len(ops) \in Int
  BY LenProperties
<1>2. IsFiniteSet(DOMAIN ops)
  BY <1>1, FS_Interval
<1>3. IsFiniteSet({i \in DOMAIN ops : ops[i].sender = a})
  BY <1>2, FS_Subset
<1>4. QED
  BY <1>3, FS_CardinalityType

LEMMA MineInv ==
  ASSUME patient = Signers, PatientInv, NEW b \in pool, MineBundle(b)
  PROVE  PatientInv'
<1>1. b.ops \in Seq(Operations) /\ b.ops # <<>> /\ ToSet(b.ops) \subseteq Operations
  BY ElementsType DEF PatientInv, PatientTypes
<1>2. \A op \in ToSet(b.ops) : Somewhere(op) /\ ~Mined(op)
  BY DEF PatientInv, OnePlace, Somewhere, Sent
<1>3. Executable(b.ops)
  BY <1>1, <1>2, PlacedIsExecutable
<1>4. PICK success \in BOOLEAN : Executed(b.ops, success)
  BY <1>3 DEF MineBundle
<1>5. /\ pool' = pool \ {b}
      /\ sending' = IF b.waits = "push" THEN FALSE ELSE sending
      /\ call' = IF b.waits \in Txs THEN [call EXCEPT ![b.waits] = [@ EXCEPT !.step = "wait"]]
                 ELSE call
      /\ UNCHANGED <<signer, connect, queue, batch>>
  BY <1>3 DEF MineBundle, Finally
<1>6. call \in [Txs -> CallRecords]
  BY DEF PatientInv, PatientTypes
<1>7. PICK first \in ToSet(b.ops) : TRUE
  <2>1. b.ops[1] \in ToSet(b.ops)
    BY <1>1, EmptySeq, LenProperties DEF ToSet
  <2>2. QED
    BY <2>1
<1>8. b.waits \in Txs => call[b.waits].step = "sending" /\ \A op \in ToSet(b.ops) : op.tx = b.waits
  BY <1>7 DEF PatientInv, OnePlace, NoneTwice, Holds
<1>9. /\ call' \in [Txs -> CallRecords]
      /\ \A u \in Txs : call'[u].op = call[u].op
      /\ \A u \in Txs : u # b.waits => call'[u] = call[u]
      /\ b.waits \in Txs => call'[b.waits].step = "wait"
  <2>1. CASE b.waits \in Txs
    BY <1>5, <1>6, <2>1 DEF CallRecords, Steps
  <2>2. CASE b.waits \notin Txs
    BY <1>5, <1>6, <2>2
  <2>3. QED
    BY <2>1, <2>2
<1>10. \A op \in ToSet(b.ops) : Holds(op, {"wait"})'
  BY <1>8, <1>9 DEF PatientInv, OnePlace, Holds
<1>11. \A op, steps : Holds(op, steps) /\ op.tx # b.waits => Holds(op, steps)'
  BY <1>9 DEF Holds
<1>12. \A op : Somewhere(op) /\ op.tx = b.waits => op \in ToSet(b.ops)
  <2>1. SUFFICES ASSUME NEW op, Somewhere(op), op.tx = b.waits PROVE op \in ToSet(b.ops)
    OBVIOUS
  <2>2. op.tx \in Txs /\ call[op.tx].op = op
    BY <2>1, PlacedIsHeld
  <2>3. first.tx = b.waits /\ call[first.tx].op = first
    BY <1>2, <1>8, <2>1, <2>2, PlacedIsHeld
  <2>4. QED
    BY <2>1, <2>2, <2>3
<1>13. /\ events' = events \cup {[op |-> b.ops[i], block |-> height + 1, success |-> success]
                                 : i \in DOMAIN b.ops}
       /\ height' = height + 1
       /\ nonce' = [a \in Addresses |->
                       nonce[a] + Cardinality({i \in DOMAIN b.ops : b.ops[i].sender = a})]
  BY <1>4 DEF Executed
<1>14. /\ \A op : Queued(op)' <=> Queued(op)
       /\ \A op : Taken(op)' <=> Taken(op)
       /\ \A op : Sent(op)' <=> Sent(op) /\ op \notin ToSet(b.ops)
       /\ \A op : Mined(op)' <=> Mined(op) \/ op \in ToSet(b.ops)
  <2>1. \A op : Sent(op)' <=> Sent(op) /\ op \notin ToSet(b.ops)
    BY <1>5 DEF Sent, PatientInv, OnePlace
  <2>2. \A op : Mined(op)' <=> Mined(op) \/ op \in ToSet(b.ops)
    <3> DEFINE new == {[op |-> b.ops[i], block |-> height + 1, success |-> success]
                       : i \in DOMAIN b.ops}
    <3>1. \A event \in new : event.op \in ToSet(b.ops)
      BY DEF ToSet
    <3>2. ASSUME NEW i \in DOMAIN b.ops PROVE \E event \in new : event.op = b.ops[i]
      <4> DEFINE n == [op |-> b.ops[i], block |-> height + 1, success |-> success]
      <4>1. n \in new /\ n.op = b.ops[i]
        OBVIOUS
      <4> HIDE DEF n, new
      <4>2. QED
        BY <4>1
    <3>3. \A op \in ToSet(b.ops) : \E event \in new : event.op = op
      BY <3>2 DEF ToSet
    <3>4. events' = events \cup new
      BY <1>13
    <3> HIDE DEF new
    <3>5. QED
      BY <3>1, <3>3, <3>4 DEF Mined
  <2>3. QED
    BY <1>5, <2>1, <2>2 DEF Queued, Taken
<1>15. PatientTypes'
  <2>1. nonce' \in [Addresses -> Nat]
    <3>1. \A a \in Addresses :
             /\ Cardinality({i \in DOMAIN b.ops : b.ops[i].sender = a}) \in Nat
             /\ nonce[a] \in Nat
      BY <1>1, NonceCountType DEF PatientInv, PatientTypes
    <3>2. QED
      BY <1>13, <3>1
  <2>2. height' \in Nat
    BY <1>13 DEF PatientInv, PatientTypes
  <2>3. events' \subseteq [op : Operations, block : Nat, success : BOOLEAN]
    <3>1. \A i \in DOMAIN b.ops : b.ops[i] \in Operations
      BY <1>1
    <3>2. height + 1 \in Nat
      BY <1>13, <2>2
    <3>3. \A i \in DOMAIN b.ops : [op |-> b.ops[i], block |-> height + 1, success |-> success]
              \in [op : Operations, block : Nat, success : BOOLEAN]
      BY <3>1, <3>2
    <3>4. QED
      BY <1>13, <3>3 DEF PatientInv, PatientTypes
  <2>4. sending' \in BOOLEAN
    BY <1>5 DEF PatientInv, PatientTypes
  <2>5. QED
    BY <1>5, <1>9, <2>1, <2>2, <2>3, <2>4 DEF PatientInv, PatientTypes
<1>16. SignersReady'
  BY <1>5, <1>8, <1>9 DEF PatientInv, SignersReady, Ready
<1>17. CallsInTurn'
  <2>1. \A u \in Txs : Resting(u)' <=> Resting(u)
    BY <1>8, <1>9 DEF Resting
  <2>2. \A u \in Txs : call'[u].op = None <=> call'[u].step \in {"idle", "build"}
    BY <1>8, <1>9 DEF PatientInv, CallsInTurn
  <2>3. QED
    BY <1>9, <2>1, <2>2 DEF PatientInv, CallsInTurn
<1>18. OnePlace'
  <2>1. ASSUME NEW x \in Addresses, NEW op \in ToSet(queue'[x])
        PROVE  /\ op.sender = x /\ Holds(op, {"wait"})'
               /\ ~Taken(op)' /\ ~Sent(op)' /\ ~Mined(op)'
    <3>1. /\ Queued(op) /\ op.sender = x /\ Holds(op, {"wait"})
          /\ ~Taken(op) /\ ~Sent(op) /\ ~Mined(op)
      BY <1>5, <2>1 DEF PatientInv, OnePlace, Queued
    <3>2. op \notin ToSet(b.ops) /\ op.tx # b.waits
      BY <1>12, <3>1 DEF Sent, Somewhere
    <3>3. QED
      BY <1>11, <1>14, <3>1, <3>2
  <2>2. ASSUME NEW op \in ToSet(batch')
        PROVE  Holds(op, {"wait"})' /\ ~Sent(op)' /\ ~Mined(op)'
    <3>1. Taken(op) /\ Holds(op, {"wait"}) /\ ~Sent(op) /\ ~Mined(op)
      BY <1>5, <2>2 DEF PatientInv, OnePlace, Taken
    <3>2. op \notin ToSet(b.ops) /\ op.tx # b.waits
      BY <1>12, <3>1 DEF Sent, Somewhere
    <3>3. QED
      BY <1>11, <1>14, <3>1, <3>2
  <2>3. ASSUME NEW c \in pool', NEW op \in ToSet(c.ops)
        PROVE  Holds(op, IF c.waits = op.tx THEN {"sending"} ELSE {"wait"})' /\ ~Mined(op)'
    <3>1. c \in pool /\ c # b
      BY <1>5
    <3>2. /\ Sent(op) /\ Holds(op, IF c.waits = op.tx THEN {"sending"} ELSE {"wait"})
          /\ ~Mined(op) /\ op \notin ToSet(b.ops)
      BY <2>3, <3>1 DEF PatientInv, OnePlace, Sent
    <3>3. op.tx # b.waits
      BY <1>12, <3>2 DEF Somewhere
    <3>4. QED
      BY <1>11, <1>14, <3>2, <3>3
  <2>4. \A c \in pool', d \in pool' : \A op \in ToSet(c.ops) : op \in ToSet(d.ops) => c = d
    BY <1>5 DEF PatientInv, OnePlace
  <2>5. ASSUME NEW event \in events'
        PROVE  Holds(event.op, {"wait", "done"})'
    <3>1. CASE event \in events
      <4>1. Mined(event.op) /\ Holds(event.op, {"wait", "done"})
        BY <3>1 DEF PatientInv, OnePlace, Mined
      <4>2. event.op.tx # b.waits
        BY <1>2, <1>12, <4>1 DEF Somewhere
      <4>3. QED
        BY <1>11, <4>1, <4>2
    <3>2. CASE event.op \in ToSet(b.ops)
      BY <1>10, <3>2 DEF Holds
    <3>3. event \in events \/ event.op \in ToSet(b.ops)
      BY <1>13 DEF ToSet
    <3>4. QED
      BY <3>1, <3>2, <3>3
  <2>6. ASSUME NEW u \in Txs
        PROVE  /\ call'[u].step \in {"wait", "sending", "done"} => Somewhere(call[u].op)'
               /\ call'[u].step = "done" => Mined(call[u].op)'
    <3>1. Somewhere(call[u].op) => Somewhere(call[u].op)'
      <4>1. /\ Queued(call[u].op)' <=> Queued(call'[u].op)
            /\ Taken(call[u].op)' <=> Taken(call'[u].op)
            /\ (Sent(call[u].op)' <=> Sent(call'[u].op) /\ call'[u].op \notin ToSet(b.ops))
            /\ (Mined(call[u].op)' <=> Mined(call'[u].op) \/ call'[u].op \in ToSet(b.ops))
        BY <1>14
      <4>2. QED
        BY <1>9, <4>1 DEF Somewhere
    <3>2. Mined(call[u].op) => Mined(call[u].op)'
      BY <1>9, <1>13 DEF Mined
    <3>3. CASE u = b.waits
      BY <1>8, <1>9, <3>1, <3>3 DEF PatientInv, OnePlace
    <3>4. CASE u # b.waits
      BY <1>9, <3>1, <3>2, <3>4 DEF PatientInv, OnePlace
    <3>5. QED
      BY <3>3, <3>4
  <2>7. QED
    BY <2>1, <2>2, <2>3, <2>4, <2>5, <2>6 DEF OnePlace
<1>19. NoneTwice'
  BY <1>5 DEF PatientInv, NoneTwice
<1>20. Numbered'
  <2>1. SUFFICES ASSUME NEW t \in Txs, call'[t].op # None, ~Mined(call[t].op)'
                 PROVE  call'[t].op.nonce = nonce'[call'[t].op.sender]
    BY DEF Numbered
  <2> DEFINE o == call[t].op
  <2>2. call'[t].op = o /\ o # None
    BY <1>9, <2>1
  <2>3. ~Mined(o) /\ o \notin ToSet(b.ops)
    <3>1. Mined(call[t].op)' <=> Mined(call'[t].op) \/ call'[t].op \in ToSet(b.ops)
      BY <1>14
    <3>2. QED
      BY <2>1, <2>2, <3>1
  <2>4. o.nonce = nonce[o.sender]
    BY <2>2, <2>3 DEF PatientInv, Numbered
  <2>5. o.sender \in Addresses
    BY <2>2, SignerType, AccountOfSigner DEF PatientInv, CallsInTurn
  <2>6. \A op \in ToSet(b.ops) : op.sender # o.sender
    BY <1>2, <2>2, <2>3, OneOfSender
  <2> HIDE DEF o
  <2>7. nonce'[o.sender] = nonce[o.sender]
    <3>1. Cardinality({i \in DOMAIN b.ops : b.ops[i].sender = o.sender}) = 0
      BY <1>1, <2>6, NonceOfOthers
    <3>2. nonce[o.sender] \in Nat
      BY <2>5 DEF PatientInv, PatientTypes
    <3>3. QED
      BY <1>13, <2>5, <3>1, <3>2
  <2>8. QED
    BY <2>2, <2>4, <2>7
<1>21. OnePush'
  BY <1>5 DEF PatientInv, OnePush
<1>22. QED
  BY <1>15, <1>16, <1>17, <1>18, <1>19, <1>20, <1>21 DEF PatientInv

-----------------------------------------------------------------------------
LEMMA NextInv ==
  ASSUME patient = Signers, PatientInv, [Next]_vars
  PROVE  PatientInv'
<1>1. ASSUME NEW t \in Txs, sendTransaction(t) \/ CallStep(t)
      PROVE  PatientInv'
  <2>1. call[t].step \in Steps
    BY DEF PatientInv, PatientTypes, CallRecords
  <2>2. ~AddressComputed(t) /\ ~CodeSizeKnown(t)
    BY <2>1 DEF AddressComputed, CodeSizeKnown, InStep, Steps
  <2>3. QED
    BY <1>1, <2>2, SendInv, CreateInv, ListenInv, EnqueueInv, SendAloneInv DEF CallStep
<1>2. CASE Idle \/ UNCHANGED vars
  <2>1. UNCHANGED <<signer, call, connect, queue, sending, batch, pool, nonce, height, events>>
    BY <1>2 DEF Idle, vars, callVars, queueVars, chainVars
  <2>2. PatientTypes' /\ Numbered'
    BY <2>1 DEF PatientInv, PatientTypes, Numbered, Mined
  <2>3. OnePlace'
    BY <2>1 DEF PatientInv, OnePlace, Holds, Somewhere, Queued, Taken, Sent, Mined
  <2>4. QED
    BY <2>1, <2>2, <2>3, CallsKept, PlacesOnly DEF PatientInv
<1>3. QED
  BY <1>1, <1>2, ConnectInv, PushInv, HandleOpsInv, MineInv DEF Next

LEMMA PatientIsKept == Spec => []IInv
<1>1. IInv /\ [Next]_vars => IInv'
  <2> SUFFICES ASSUME IInv, [Next]_vars PROVE IInv'
    OBVIOUS
  <2>1. patient' = patient
    BY DEF Next, CallStep, sendTransaction, AddressComputed, CodeSizeKnown,
           createUserOperation, BlockNumberKnown, Notice, Enqueue, SendAlone,
           connectAccountAddress, Connected, MineBundle, Idle, push, handleOps, vars, otherVars
  <2>2. QED
    BY <2>1, NextInv DEF IInv
<1>2. QED
  BY <1>1, InitIInv, PTL DEF Spec

\* Whoever connects first and waits for each answer loses no operation, and is
\* refused none: it is with the call, in the queue, in the bundle, on its way to
\* the chain or executed, until its answer comes.
THEOREM PatienceLosesNothing == Spec => []PatientLoseNothing
<1>1. IInv => PatientLoseNothing
  <2> SUFFICES ASSUME IInv, patient = Signers
               PROVE  /\ \A op \in Ops : OnItsWay(op)
                      /\ \A t \in Txs : call[t].step # "rejected"
    BY DEF PatientLoseNothing
  <2>1. PatientInv
    BY DEF IInv
  <2>2. \A t \in Txs : call[t].step \in Steps
    BY <2>1 DEF PatientInv, PatientTypes, CallRecords
  <2>3. ASSUME NEW t \in Txs, call[t].op # None
        PROVE  OnItsWay(call[t].op)
    <3>1. call[t].step \in {"listen", "wait", "sending", "done"}
      BY <2>1, <2>2, <2>3 DEF PatientInv, CallsInTurn, Steps
    <3>2. call[t].step = "listen" \/ Somewhere(call[t].op)
      BY <2>1, <3>1 DEF PatientInv, OnePlace
    <3>3. QED
      BY <3>2 DEF OnItsWay, Somewhere, Taken, Sent, Mined
  <2>4. QED
    BY <2>2, <2>3 DEF Ops, Steps
<1>2. QED
  BY <1>1, PatientIsKept, PTL

=============================================================================
