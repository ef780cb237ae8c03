-------------------------- MODULE RelayClientProofs --------------------------
(***************************************************************************)
(* The client's side of GSN, for any number of calls, senders, relays,     *)
(* callers, requests and blocks, any offers and any faults.                *)
(*                                                                         *)
(* RelayClient: a call is executed at most once, is signed by its sender   *)
(* and asks no relay twice.  ProviderSession: a query for events returns   *)
(* all of them, and a request that was said to have succeeded is never     *)
(* said to have failed.                                                    *)
(***************************************************************************)
EXTENDS RelayClient, ProviderSession, FiniteSetTheorems, SequenceTheorems, WellFoundedInduction, TLAPS

\* The places of a call with a relay to ask.
Trying == {"chosen", "signing", "asking", "serving", "answered"}

\* A call that began has nothing more to do with a relay it dropped, and every
\* relay it asked is dropped; one that has not begun has asked none.
HasRelay ==
    \A c \in Calls :
        /\ pc[c] = "new" => relay[c] = NoRelay
        /\ pc[c] \in Trying \cup {"done"} => relay[c] \in Relays
UsedIsDropped ==
    \A c \in Calls :
        /\ pc[c] # "new" => relay[c] \notin left[c]
        /\ \A r \in Relays : <<c, r>> \in DOMAIN txs => pc[c] # "new" /\ r \notin left[c]

\* Whatever relay carries it, a call's transaction has the nonce that the
\* request got in the beginning, and its sender's signature.
OneRequest ==
    \A id \in DOMAIN txs : txs[id].nonce = nonce[id[1]] /\ txs[id].signedBy = from[id[1]]
SignedRequest ==
    \A c \in Calls : pc[c] \in {"asking", "serving"} => signedBy[c] = from[c]

\* What was executed has used its nonce up.
IsExecuted(id) == id \in DOMAIN txs /\ txs[id].state = "executed"
NonceIsSpent ==
    /\ \A id \in DOMAIN txs : IsExecuted(id) => txs[id].nonce < forwarder[from[id[1]]]
    /\ \A id \in DOMAIN txs, jd \in DOMAIN txs :
           IsExecuted(id) /\ IsExecuted(jd) /\ id[1] = jd[1] => id = jd

\* An answer is about a transaction the relay has signed.
AnswerHasTx ==
    \A c \in Calls :
        /\ pc[c] \notin {"answered", "gone"} => answer[c] = -1
        /\ pc[c] = "answered" /\ answer[c] # -1 => <<c, relay[c]>> \in DOMAIN txs

IInv ==
    /\ TypeOK /\ HasRelay /\ UsedIsDropped /\ OneRequest /\ SignedRequest
    /\ NonceIsSpent /\ AnswerHasTx

LEMMA ConstantTypes ==
  /\ MaxFee \in Nat /\ MaxPriority \in Nat /\ MaxFaults \in Nat
  /\ Preferred \subseteq Relays /\ Registered \subseteq Relays
  /\ \A o \in Offers : o \in [minMax : Nat, minPriority : Nat, maxMax : Nat]
  BY RelayClientAssumption

LEMMA InitIInv == Init => IInv
<1> SUFFICES ASSUME Init PROVE IInv
  OBVIOUS
<1>1. DOMAIN txs = {}
  BY DEF Init
<1>2. from \in [Calls -> Accounts] /\ good \subseteq Relays
  BY RelayClientAssumption DEF Init
<1>3. TypeOK
  BY <1>1, <1>2, ConstantTypes DEF Init, TypeOK, Places, Ended, ClientFees
<1>4. UsedIsDropped /\ HasRelay
  BY <1>1 DEF Init, UsedIsDropped, HasRelay, Trying
<1>5. QED
  BY <1>1, <1>3, <1>4 DEF Init, IInv, OneRequest, SignedRequest, NonceIsSpent, AnswerHasTx

\* The counts of a relay's transactions are numbers.
LEMMA CountsType ==
  ASSUME TypeOK, NEW r
  PROVE  MinedNonce(r) \in Nat /\ NextNonce(r) \in Nat
<1>1. IsFiniteSet(Calls \X Relays)
  BY RelayClientAssumption, FS_Product
<1>2. IsFiniteSet(OfRelay(r)) /\ IsFiniteSet({id \in OfRelay(r) : txs[id].state \in Mined})
  BY <1>1, FS_Subset DEF OfRelay, TypeOK
<1>3. QED
  BY <1>2, FS_CardinalityType DEF MinedNonce, NextNonce

\* The relays of the next round are relays left, and the winner is one of them.
LEMMA NextClassIsLeft ==
  ASSUME NEW c \in Calls
  PROVE  NextClass(c) \subseteq left[c]
<1> DEFINE S == {i \in 1 .. 3 : Classes(c)[i] # {}} \cup {3}
<1>1. \E x \in S : \A y \in S : x <= y
  <2>1. CASE 1 \in S
    BY <2>1
  <2>2. CASE 1 \notin S /\ 2 \in S
    BY <2>2
  <2>3. CASE 1 \notin S /\ 2 \notin S
    BY <2>3
  <2>4. QED
    BY <2>1, <2>2, <2>3
<1>2. Min(S) \in S
  BY <1>1 DEF Min
<1>3. Min(S) \in {1, 2, 3}
  BY <1>2
<1>4. NextClass(c) = Classes(c)[Min(S)]
  BY DEF NextClass
<1> HIDE DEF S
<1>5. \A k \in {1, 2, 3} : Classes(c)[k] \subseteq left[c]
  BY DEF Classes
<1>6. QED
  BY <1>3, <1>4, <1>5

LEMMA WinnerIsLeft ==
  ASSUME NEW c \in Calls, NEW slice \in Slices(c), NEW res \in PingResults(slice),
         NEW w \in Winners(res)
  PROVE  w \in left[c] /\ res[w] \in Offers
<1>1. slice \subseteq left[c] /\ DOMAIN res = slice
  BY NextClassIsLeft DEF Slices, PingResults
<1>2. w \in DOMAIN res /\ res[w] \in Offers
  BY DEF Winners, Suited
<1>3. QED
  BY <1>1, <1>2

LEMMA WinnerFeesType ==
  ASSUME NEW o \in Offers
  PROVE  WinnerFees(o) \in [max : Nat, priority : Nat]
<1>1. o.minMax \in Nat /\ o.minPriority \in Nat /\ MaxFee \in Nat /\ MaxPriority \in Nat
  BY ConstantTypes
<1>2. QED
  BY <1>1 DEF WinnerFees, ClientFees, Adjusted, Up

\* Steps that sign no transaction and mine none.
LEMMA TxsKept ==
  ASSUME IInv, UNCHANGED <<txs, forwarder, from>>,
         \A id \in DOMAIN txs : nonce'[id[1]] = nonce[id[1]]
  PROVE  OneRequest' /\ NonceIsSpent'
  BY DEF IInv, OneRequest, NonceIsSpent, IsExecuted

LEMMA FaultType ==
  ASSUME TypeOK, NEW kind, Fault(kind)
  PROVE  faults' \in 0 .. MaxFaults
<1>1. MaxFaults \in Nat
  BY ConstantTypes
<1>2. QED
  BY <1>1 DEF Fault, TypeOK

LEMMA PrepareIInv ==
  ASSUME IInv, NEW c \in Calls, Prepare(c)
  PROVE  IInv'
<1> USE DEF IInv
<1>1. /\ pc[c] = "new"
      /\ nonce' = [nonce EXCEPT ![c] = forwarder[from[c]]]
      /\ signer' = from[c]
      /\ \/ /\ pc' = [pc EXCEPT ![c] = "selecting"] /\ UNCHANGED faults
            /\ left' = [left EXCEPT ![c] = Preferred \cup AllRelayers]
            /\ worse' = [worse EXCEPT ![c] = WithFailures]
         \/ pc' = [pc EXCEPT ![c] = "failed"] /\ Fault("dry") /\ UNCHANGED <<left, worse>>
      /\ UNCHANGED <<from, fees, relay, lastKnown, signedBy, answer, failures, cached,
                     txs, forwarder, late, good>>
  BY DEF Prepare, Goes, SwitchSigner, NewRequest, InitSelection, DryRunFails, chainVars
<1>2. Preferred \cup AllRelayers \subseteq Relays /\ WithFailures \subseteq Relays
  BY ConstantTypes DEF AllRelayers, WithFailures
<1>3. faults' \in 0 .. MaxFaults
  BY <1>1, FaultType DEF TypeOK
<1>4. forwarder[from[c]] \in Nat /\ from[c] \in Accounts
  BY DEF TypeOK
<1>5. TypeOK'
  <2>1. /\ pc' \in [Calls -> Places] /\ nonce' \in [Calls -> Nat]
        /\ left' \in [Calls -> SUBSET Relays] /\ worse' \in [Calls -> SUBSET Relays]
        /\ signer' \in Accounts \cup {Nobody}
    <3>1. pc' \in [Calls -> Places]
      BY <1>1 DEF TypeOK, Places, Ended
    <3>2. nonce' \in [Calls -> Nat]
      BY <1>1, <1>4 DEF TypeOK
    <3>3. left' \in [Calls -> SUBSET Relays]
      BY <1>1, <1>2 DEF TypeOK
    <3>4. worse' \in [Calls -> SUBSET Relays]
      BY <1>1, <1>2 DEF TypeOK
    <3>5. QED
      BY <1>1, <1>4, <3>1, <3>2, <3>3, <3>4
  <2>2. \A d \in Calls : pc'[d] = "done" => <<d, relay'[d]>> \in DOMAIN txs'
    BY <1>1 DEF TypeOK
  <2>3. QED
    BY <1>1, <1>3, <2>1, <2>2 DEF TypeOK
<1>6. \A r \in Relays : <<c, r>> \notin DOMAIN txs
  BY <1>1 DEF UsedIsDropped
<1>7. \A id \in DOMAIN txs : id[1] # c
  BY <1>6 DEF TypeOK
<1>8. OneRequest' /\ NonceIsSpent'
  BY <1>1, <1>7, TxsKept DEF TypeOK
<1>9. HasRelay' /\ SignedRequest' /\ AnswerHasTx'
  BY <1>1 DEF TypeOK, HasRelay, Trying, SignedRequest, AnswerHasTx
<1>10. UsedIsDropped'
  <2>1. ASSUME NEW d \in Calls, pc'[d] # "new"
        PROVE  relay'[d] \notin left'[d]
    <3>1. CASE d = c
      <4>1. relay[c] \notin Relays
        BY <1>1, RelayClientAssumption DEF HasRelay
      <4>2. QED
        BY <1>1, <1>5, <3>1, <4>1 DEF TypeOK
    <3>2. CASE d # c
      BY <1>1, <2>1, <3>2 DEF TypeOK, UsedIsDropped
    <3>3. QED
      BY <3>1, <3>2
  <2>2. ASSUME NEW d \in Calls, NEW r \in Relays, <<d, r>> \in DOMAIN txs'
        PROVE  pc'[d] # "new" /\ r \notin left'[d]
    BY <1>1, <1>6, <2>2 DEF TypeOK, UsedIsDropped
  <2>3. QED
    BY <2>1, <2>2 DEF UsedIsDropped
<1>11. QED
  BY <1>5, <1>8, <1>9, <1>10

LEMMA RoundIInv ==
  ASSUME IInv, NEW c \in Calls, Round(c)
  PROVE  /\ IInv'
         /\ pc'[c] = "chosen" => relay'[c] \in left[c]
         /\ \A d \in Calls : d # c => pc'[d] = pc[d]
<1> USE DEF IInv
<1>1. /\ pc[c] = "selecting"
      /\ UNCHANGED <<from, nonce, worse, lastKnown, signedBy, answer, signer, failures,
                     cached, txs, forwarder, late, good, faults>>
      /\ \E gone : left' = [left EXCEPT ![c] = @ \ gone] /\
           \/ UNCHANGED <<pc, relay, fees>>
           \/ \E w \in gone \cap left[c], f \in [max : Nat, priority : Nat] :
                /\ pc' = [pc EXCEPT ![c] = "chosen"]
                /\ relay' = [relay EXCEPT ![c] = w]
                /\ fees' = [fees EXCEPT ![c] = f]
  <2>1. PICK slice \in Slices(c) : \E res \in PingResults(slice) :
           \/ /\ Winners(res) = {}
              /\ left' = [left EXCEPT ![c] = Remaining(c, res, NoRelay)]
              /\ UNCHANGED <<pc, relay, fees>>
           \/ \E w \in Winners(res) :
              /\ left' = [left EXCEPT ![c] = Remaining(c, res, w)]
              /\ \/ UNCHANGED <<pc, relay, fees>>
                 \/ /\ pc' = [pc EXCEPT ![c] = "chosen"]
                    /\ relay' = [relay EXCEPT ![c] = w]
                    /\ fees' = [fees EXCEPT ![c] = WinnerFees(res[w])]
    BY DEF Round
  <2>2. PICK res \in PingResults(slice) :
           \/ /\ left' = [left EXCEPT ![c] = Remaining(c, res, NoRelay)]
              /\ UNCHANGED <<pc, relay, fees>>
           \/ \E w \in Winners(res) :
              /\ left' = [left EXCEPT ![c] = Remaining(c, res, w)]
              /\ \/ UNCHANGED <<pc, relay, fees>>
                 \/ /\ pc' = [pc EXCEPT ![c] = "chosen"]
                    /\ relay' = [relay EXCEPT ![c] = w]
                    /\ fees' = [fees EXCEPT ![c] = WinnerFees(res[w])]
    BY <2>1
  <2> DEFINE gone(w) == {w} \cup {r \in DOMAIN res : res[r] = Failed} \cup Skipped(res)
  <2>3. \A w : [left EXCEPT ![c] = Remaining(c, res, w)] = [left EXCEPT ![c] = @ \ gone(w)]
    BY DEF Remaining, TypeOK
  <2>4. \A w \in Winners(res) : /\ w \in gone(w) \cap left[c]
                                /\ WinnerFees(res[w]) \in [max : Nat, priority : Nat]
    BY WinnerIsLeft, WinnerFeesType
  <2> HIDE DEF gone
  <2>5. pc[c] = "selecting"
        /\ UNCHANGED <<from, nonce, worse, lastKnown, signedBy, answer, signer, failures,
                     cached, txs, forwarder, late, good, faults>>
    BY DEF Round, sharedVars, chainVars
  <2>6. CASE left' = [left EXCEPT ![c] = Remaining(c, res, NoRelay)] /\ UNCHANGED <<pc, relay, fees>>
    BY <2>3, <2>5, <2>6
  <2>7. ASSUME NEW w \in Winners(res),
               left' = [left EXCEPT ![c] = Remaining(c, res, w)],
               \/ UNCHANGED <<pc, relay, fees>>
               \/ /\ pc' = [pc EXCEPT ![c] = "chosen"]
                  /\ relay' = [relay EXCEPT ![c] = w]
                  /\ fees' = [fees EXCEPT ![c] = WinnerFees(res[w])]
        PROVE  \E g : left' = [left EXCEPT ![c] = @ \ g] /\
                 \/ UNCHANGED <<pc, relay, fees>>
                 \/ \E v \in g \cap left[c], f \in [max : Nat, priority : Nat] :
                      /\ pc' = [pc EXCEPT ![c] = "chosen"]
                      /\ relay' = [relay EXCEPT ![c] = v]
                      /\ fees' = [fees EXCEPT ![c] = f]
    BY <2>3, <2>4, <2>7
  <2>8. QED
    BY <2>2, <2>5, <2>6, <2>7
<1>2. PICK gone : left' = [left EXCEPT ![c] = @ \ gone] /\
           \/ UNCHANGED <<pc, relay, fees>>
           \/ \E w \in gone \cap left[c], f \in [max : Nat, priority : Nat] :
                /\ pc' = [pc EXCEPT ![c] = "chosen"]
                /\ relay' = [relay EXCEPT ![c] = w]
                /\ fees' = [fees EXCEPT ![c] = f]
  BY <1>1
<1>3. TypeOK' /\ HasRelay'
  <2>1. /\ pc' \in [Calls -> Places] /\ relay' \in [Calls -> Relays \cup {NoRelay}]
        /\ fees' \in [Calls -> [max : Nat, priority : Nat]]
        /\ left' \in [Calls -> SUBSET Relays]
    <3>1. pc' \in [Calls -> Places]
      BY <1>2 DEF TypeOK, Places
    <3>2. relay' \in [Calls -> Relays \cup {NoRelay}]
      BY <1>2 DEF TypeOK
    <3>3. fees' \in [Calls -> [max : Nat, priority : Nat]]
      BY <1>2 DEF TypeOK
    <3>4. left' \in [Calls -> SUBSET Relays]
      BY <1>2 DEF TypeOK
    <3>5. QED
      BY <3>1, <3>2, <3>3, <3>4
  <2>2. \A d \in Calls : pc'[d] = "done" => <<d, relay'[d]>> \in DOMAIN txs'
    BY <1>1, <1>2 DEF TypeOK
  <2>3. HasRelay'
    BY <1>1, <1>2 DEF TypeOK, HasRelay, Trying
  <2>4. QED
    BY <1>1, <2>1, <2>2, <2>3 DEF TypeOK
<1>4. UsedIsDropped'
  BY <1>1, <1>2 DEF TypeOK, UsedIsDropped
<1>5. OneRequest' /\ NonceIsSpent'
  BY <1>1, TxsKept
<1>6. SignedRequest' /\ AnswerHasTx'
  BY <1>1, <1>2 DEF TypeOK, SignedRequest, AnswerHasTx
<1>7. /\ pc'[c] = "chosen" => relay'[c] \in left[c]
      /\ \A d \in Calls : d # c => pc'[d] = pc[d]
  BY <1>1, <1>2 DEF TypeOK
<1>8. QED
  BY <1>3, <1>4, <1>5, <1>6, <1>7

\* A call that goes from one place of its attempt to another, or ends.
LEMMA MovesOn ==
  ASSUME IInv, NEW c \in Calls, NEW place \in Places \ {"new", "done", "answered", "gone"},
         pc[c] \in Trying \cup {"selecting"}, pc[c] # "answered",
         place \in Trying \cup {"done"} => pc[c] \in Trying,
         pc' = [pc EXCEPT ![c] = place],
         place \in {"asking", "serving"} => signedBy'[c] = from[c],
         signedBy' \in [Calls -> Accounts \cup {Nobody}],
         \A d \in Calls : d # c => signedBy'[d] = signedBy[d],
         lastKnown' \in [Calls -> Nat], signer' \in Accounts \cup {Nobody},
         UNCHANGED <<from, nonce, fees, left, worse, relay, answer, failures, cached, txs,
                     forwarder, late, good, faults>>
  PROVE  IInv'
<1> USE DEF IInv
<1>1. \A d \in Calls : pc'[d] = IF d = c THEN place ELSE pc[d]
  BY DEF TypeOK
<1>2. TypeOK'
  <2>1. pc' \in [Calls -> Places]
    BY DEF TypeOK
  <2>2. \A d \in Calls : pc'[d] = "done" => <<d, relay'[d]>> \in DOMAIN txs'
    BY <1>1 DEF TypeOK
  <2>3. QED
    BY <2>1, <2>2 DEF TypeOK
<1>3. HasRelay'
  BY <1>1 DEF HasRelay, Trying
<1>4. UsedIsDropped'
  BY <1>1 DEF UsedIsDropped, Trying
<1>5. OneRequest' /\ NonceIsSpent'
  BY TxsKept
<1>6. SignedRequest' /\ AnswerHasTx'
  BY <1>1 DEF SignedRequest, AnswerHasTx, Trying
<1>7. QED
  BY <1>2, <1>3, <1>4, <1>5, <1>6

LEMMA GiveUpIInv ==
  ASSUME IInv, NEW c \in Calls, GiveUp(c)
  PROVE  IInv'
<1>1. "none left" \in Places \ {"new", "done", "answered", "gone"}
      /\ "none left" \notin Trying \cup {"done"}
  BY DEF Places, Ended, Trying
<1>2. IInv => signedBy \in [Calls -> Accounts \cup {Nobody}] /\ lastKnown \in [Calls -> Nat]
              /\ signer \in Accounts \cup {Nobody}
  BY DEF IInv, TypeOK
<1>3. QED
  BY <1>1, <1>2, MovesOn DEF GiveUp, Goes, sharedVars, chainVars

LEMMA ApproachIInv ==
  ASSUME IInv, NEW c \in Calls, Approach(c)
  PROVE  IInv'
<1>1. "signing" \in Places \ {"new", "done", "answered", "gone"} /\ "chosen" \in Trying
      /\ "chosen" # "answered"
  BY DEF Places, Ended, Trying
<1>2. signedBy \in [Calls -> Accounts \cup {Nobody}] /\ lastKnown \in [Calls -> Nat]
              /\ from[c] \in Accounts
  BY DEF IInv, TypeOK
<1>3. QED
  BY <1>1, <1>2, MovesOn DEF Approach, Goes, SwitchSigner, chainVars

\* The account manager signs for the sender only, whoever's turn it is.
LEMMA SignIInv ==
  ASSUME IInv, NEW c \in Calls, Sign(c)
  PROVE  IInv'
<1>1. /\ {"failed", "asking"} \subseteq Places \ {"new", "done", "answered", "gone"}
      /\ "signing" \in Trying /\ "signing" # "answered" /\ "failed" \notin Trying \cup {"done"}
  BY DEF Places, Ended, Trying
<1>2. /\ signedBy \in [Calls -> Accounts \cup {Nobody}] /\ lastKnown \in [Calls -> Nat]
      /\ signer \in Accounts \cup {Nobody}
      /\ TypeOK
  BY DEF IInv, TypeOK
<1>3. /\ pc[c] = "signing"
      /\ UNCHANGED <<from, nonce, fees, left, worse, relay, answer, signer, failures, cached,
                     txs, forwarder, late, good, faults>>
  BY DEF Sign, Goes, sharedVars, chainVars
<1>4. CASE pc' = [pc EXCEPT ![c] = "failed"] /\ UNCHANGED <<signedBy, lastKnown>>
  BY <1>1, <1>2, <1>3, <1>4, MovesOn
<1>5. CASE /\ pc' = [pc EXCEPT ![c] = "asking"] /\ signer = from[c]
           /\ signedBy' = [signedBy EXCEPT ![c] = signer]
           /\ lastKnown' = [lastKnown EXCEPT ![c] = MinedNonce(relay[c])]
  <2>1. MinedNonce(relay[c]) \in Nat
    BY <1>2, CountsType
  <2>2. lastKnown' \in [Calls -> Nat] /\ signedBy' \in [Calls -> Accounts \cup {Nobody}]
        /\ signedBy'[c] = from[c] /\ \A d \in Calls : d # c => signedBy'[d] = signedBy[d]
    BY <1>2, <1>5, <2>1
  <2>3. QED
    BY <1>1, <1>2, <1>3, <1>5, <2>2, MovesOn
<1>6. QED
  BY <1>4, <1>5 DEF Sign, Goes, RefusesSignature

LEMMA AskedIInv ==
  ASSUME IInv, NEW c \in Calls, Asked(c)
  PROVE  IInv'
<1>1. /\ {"serving", "selecting"} \subseteq Places \ {"new", "done", "answered", "gone"}
      /\ "asking" \in Trying /\ "asking" # "answered" /\ "selecting" \notin Trying \cup {"done"}
  BY DEF Places, Ended, Trying
<1>2. /\ signedBy \in [Calls -> Accounts \cup {Nobody}] /\ lastKnown \in [Calls -> Nat]
      /\ signer \in Accounts \cup {Nobody}
      /\ pc[c] = "asking" => signedBy[c] = from[c]
  BY DEF IInv, TypeOK, SignedRequest
<1>3. QED
  BY <1>1, <1>2, MovesOn DEF Asked, Goes, sharedVars, chainVars

\* A relay signs a transaction for the request it was asked to serve.
LEMMA ServeIInv ==
  ASSUME IInv, NEW c \in Calls, Serve(c)
  PROVE  IInv'
<1> USE DEF IInv
<1> DEFINE id == <<c, relay[c]>>
           NewOne(s) == [nonce |-> nonce[c], signedBy |-> signedBy[c],
                         place |-> NextNonce(relay[c]), state |-> s]
<1>1. /\ pc[c] = "serving"
      /\ UNCHANGED <<from, nonce, fees, left, worse, relay, lastKnown, signedBy, signer,
                     cached, forwarder, late, good>>
  BY DEF Serve, Goes
<1>2. /\ relay[c] \in Relays /\ signedBy[c] = from[c] /\ NextNonce(relay[c]) \in Nat
      /\ from[c] \in Accounts /\ nonce[c] \in Nat /\ relay[c] \notin left[c]
  BY <1>1, CountsType DEF HasRelay, Trying, SignedRequest, TypeOK, UsedIsDropped
<1>3. /\ failures' \subseteq Relays /\ faults' \in 0 .. MaxFaults
  <2>1. CASE UNCHANGED faults
    BY <1>2, <2>1 DEF Serve, Blame, TypeOK
  <2>2. CASE \E kind : Fault(kind)
    BY <1>2, <2>2, FaultType DEF Serve, Blame, TypeOK
  <2>3. QED
    BY <2>1, <2>2 DEF Serve, TimesOut
<1>4. \/ /\ \E s \in {"waiting", "signed"} : SetTx(id, NewOne(s))
         /\ \/ /\ pc' = [pc EXCEPT ![c] = "answered"]
               /\ answer' = [answer EXCEPT ![c] = NextNonce(relay[c])]
            \/ pc' = [pc EXCEPT ![c] = "selecting"] /\ UNCHANGED answer
      \/ pc' = [pc EXCEPT ![c] = "answered"] /\ UNCHANGED <<txs, answer>>
  BY DEF Serve, Goes, NewTx
<1>5. /\ pc' \in [Calls -> Places] /\ answer' \in [Calls -> Nat \cup {-1}]
      /\ \A d \in Calls : d # c => pc'[d] = pc[d] /\ answer'[d] = answer[d]
      /\ pc'[c] \in {"answered", "selecting"} /\ (pc'[c] # "answered" => answer'[c] = answer[c])
  <2>1. pc' \in [Calls -> Places]
    BY <1>4 DEF TypeOK, Places
  <2>2. answer' \in [Calls -> Nat \cup {-1}]
    BY <1>2, <1>4 DEF TypeOK
  <2>3. QED
    BY <1>4, <2>1, <2>2 DEF TypeOK
<1>6. CASE UNCHANGED <<txs, answer>>
  <2>1. TypeOK'
    BY <1>1, <1>3, <1>5, <1>6 DEF TypeOK
  <2>2. OneRequest' /\ NonceIsSpent'
    BY <1>1, <1>6, TxsKept
  <2>3. HasRelay' /\ UsedIsDropped' /\ SignedRequest'
    BY <1>1, <1>2, <1>5, <1>6 DEF HasRelay, UsedIsDropped, SignedRequest, Trying
  <2>4. AnswerHasTx'
    BY <1>1, <1>5, <1>6 DEF AnswerHasTx
  <2>5. QED
    BY <2>1, <2>2, <2>3, <2>4
<1>7. ASSUME NEW s \in {"waiting", "signed"}, SetTx(id, NewOne(s))
      PROVE  IInv'
  <2>1. /\ DOMAIN txs' = DOMAIN txs \cup {id} /\ txs'[id] = NewOne(s)
        /\ \A jd \in DOMAIN txs : jd # id => txs'[jd] = txs[jd]
    BY <1>7 DEF SetTx
  <2>2. id \in Calls \X Relays /\ id[1] = c /\ id[2] = relay[c]
        /\ NewOne(s).nonce = nonce[c] /\ NewOne(s).signedBy = from[c] /\ NewOne(s).state = s
    BY <1>2
  <2>3. NewOne(s) \in [nonce : Nat, signedBy : Accounts, place : Nat,
                       state : Mined \cup {"signed", "waiting"}]
    BY <1>2
  <2> HIDE DEF NewOne
  <2>4. TypeOK'
    <3>1. \A jd \in DOMAIN txs' : txs'[jd] \in [nonce : Nat, signedBy : Accounts, place : Nat,
                                                state : Mined \cup {"signed", "waiting"}]
      BY <2>1, <2>3 DEF TypeOK
    <3>2. DOMAIN txs' \subseteq Calls \X Relays
      BY <2>1, <2>2 DEF TypeOK
    <3>3. \A d \in Calls : pc'[d] = "done" => <<d, relay'[d]>> \in DOMAIN txs'
      BY <1>1, <1>5, <2>1 DEF TypeOK
    <3>4. QED
      BY <1>1, <1>3, <1>5, <3>1, <3>2, <3>3 DEF TypeOK
  <2>5. OneRequest'
    BY <1>1, <2>1, <2>2 DEF OneRequest
  <2>6. \A jd \in DOMAIN txs' : IsExecuted(jd)' => IsExecuted(jd) /\ txs'[jd] = txs[jd]
    BY <2>1, <2>2 DEF IsExecuted
  <2>7. NonceIsSpent'
    BY <1>1, <2>6 DEF NonceIsSpent, IsExecuted
  <2>8. HasRelay' /\ SignedRequest'
    BY <1>1, <1>2, <1>5 DEF HasRelay, SignedRequest, Trying
  <2>9. UsedIsDropped'
    BY <1>1, <1>2, <1>5, <2>1, <2>2 DEF UsedIsDropped
  <2>10. AnswerHasTx'
    BY <1>1, <1>5, <2>1 DEF AnswerHasTx
  <2>11. QED
    BY <2>4, <2>5, <2>7, <2>8, <2>9, <2>10
<1>8. QED
  BY <1>4, <1>6, <1>7

\* The client sends on what its relay kept to itself, and executes nothing.
LEMMA ReceiveIInv ==
  ASSUME IInv, NEW c \in Calls, Receive(c)
  PROVE  IInv'
<1> USE DEF IInv
<1> DEFINE id == <<c, relay[c]>>
           SentOn == [txs[id] EXCEPT !.state = "waiting"]
<1>1. /\ pc[c] = "answered" /\ relay[c] \in Relays
      /\ answer' = [answer EXCEPT ![c] = -1]
      /\ UNCHANGED <<from, nonce, fees, relay, lastKnown, signedBy, signer,
                     forwarder, late, good, faults>>
  BY DEF Receive, Goes, HasRelay, Trying
<1>2. \/ /\ pc' = [pc EXCEPT ![c] = "done"] /\ answer[c] # -1 /\ UNCHANGED failures
         /\ BroadcastRawTx(c) /\ cached' = cached \cup {c}
         /\ left' = [left EXCEPT ![c] = {}] /\ worse' = [worse EXCEPT ![c] = {}]
      \/ /\ pc' = [pc EXCEPT ![c] = "selecting"] /\ failures' = failures \cup {relay[c]}
         /\ UNCHANGED <<txs, cached, left, worse>>
  BY DEF Receive, Goes, ValidAnswer, CacheSubmitted, Blame
<1>3. /\ pc' \in [Calls -> Places] /\ answer' \in [Calls -> Nat \cup {-1}]
      /\ answer'[c] = -1 /\ pc'[c] \in {"done", "selecting"}
      /\ \A d \in Calls : d # c => pc'[d] = pc[d] /\ answer'[d] = answer[d]
  <2>1. pc' \in [Calls -> Places]
    BY <1>2 DEF TypeOK, Places, Ended
  <2>2. QED
    BY <1>1, <1>2, <2>1 DEF TypeOK
<1>4. /\ left' \in [Calls -> SUBSET Relays] /\ worse' \in [Calls -> SUBSET Relays]
      /\ cached' \subseteq Calls /\ failures' \subseteq Relays
      /\ \A d \in Calls : left'[d] \subseteq left[d]
  <2>1. left' \in [Calls -> SUBSET Relays] /\ \A d \in Calls : left'[d] \subseteq left[d]
    BY <1>2 DEF TypeOK
  <2>2. worse' \in [Calls -> SUBSET Relays]
    BY <1>2 DEF TypeOK
  <2>3. QED
    BY <1>1, <1>2, <2>1, <2>2 DEF TypeOK
<1>5. pc'[c] = "done" => id \in DOMAIN txs
  BY <1>1, <1>2, <1>3 DEF AnswerHasTx, TypeOK
<1>6. HasRelay' /\ SignedRequest'
  BY <1>1, <1>3 DEF HasRelay, SignedRequest, Trying
<1>7. DOMAIN txs' = DOMAIN txs
      /\ \A jd \in DOMAIN txs :
            \/ txs'[jd] = txs[jd]
            \/ txs[jd].state = "signed" /\ txs'[jd] = [txs[jd] EXCEPT !.state = "waiting"]
  <2>1. CASE UNCHANGED txs
    BY <2>1
  <2>2. CASE id \in DOMAIN txs /\ txs[id].state = "signed" /\ SetTx(id, SentOn)
    BY <2>2 DEF SetTx
  <2>3. QED
    BY <1>2, <2>1, <2>2 DEF BroadcastRawTx
<1>8. \A jd \in DOMAIN txs :
          LET T == [nonce : Nat, signedBy : Accounts, place : Nat,
                    state : Mined \cup {"signed", "waiting"}]
          IN  /\ txs'[jd] \in T
              /\ txs'[jd].nonce = txs[jd].nonce /\ txs'[jd].signedBy = txs[jd].signedBy
              /\ txs'[jd].state = "executed" => txs[jd].state = "executed"
  BY <1>7 DEF TypeOK
<1>9. TypeOK'
  <2>1. \A d \in Calls : pc'[d] = "done" => <<d, relay'[d]>> \in DOMAIN txs'
    BY <1>1, <1>3, <1>5, <1>7 DEF TypeOK
  <2>2. QED
    BY <1>1, <1>3, <1>4, <1>7, <1>8, <2>1 DEF TypeOK
<1>10. OneRequest' /\ NonceIsSpent'
  BY <1>1, <1>7, <1>8 DEF OneRequest, NonceIsSpent, IsExecuted
<1>11. UsedIsDropped'
  BY <1>1, <1>3, <1>4, <1>7 DEF UsedIsDropped
<1>12. AnswerHasTx'
  BY <1>1, <1>3, <1>7 DEF AnswerHasTx
<1>13. QED
  BY <1>6, <1>9, <1>10, <1>11, <1>12

\* The forwarder takes a nonce once: a call whose transaction was executed has
\* spent its own, so no other transaction of it is.
LEMMA MineIInv ==
  ASSUME IInv, Mine
  PROVE  IInv'
<1> USE DEF IInv
<1>1. PICK id \in DOMAIN txs :
          \/ /\ txs[id].nonce = forwarder[from[id[1]]]
             /\ forwarder' = [forwarder EXCEPT ![from[id[1]]] = @ + 1]
             /\ SetTx(id, [txs[id] EXCEPT !.state = "executed"])
          \/ /\ SetTx(id, [txs[id] EXCEPT !.state = "rejected"]) /\ UNCHANGED forwarder
  BY DEF Mine
<1>2. UNCHANGED <<pc, from, nonce, fees, left, worse, relay, lastKnown, signedBy, answer,
                  signer, failures, cached, late, good, faults>>
  BY DEF Mine, callVars, sharedVars
<1>3. PICK s \in Mined : txs' = [i \in DOMAIN txs \cup {id} |->
                                   IF i = id THEN [txs[id] EXCEPT !.state = s] ELSE txs[i]]
  BY <1>1 DEF SetTx, Mined
<1>4. /\ DOMAIN txs' = DOMAIN txs
      /\ \A jd \in DOMAIN txs :
            /\ txs'[jd].nonce = txs[jd].nonce /\ txs'[jd].signedBy = txs[jd].signedBy
            /\ txs'[jd] \in [nonce : Nat, signedBy : Accounts, place : Nat,
                             state : Mined \cup {"signed", "waiting"}]
            /\ jd # id => txs'[jd] = txs[jd]
  <2>1. \A jd \in DOMAIN txs : txs'[jd] = IF jd = id THEN [txs[id] EXCEPT !.state = s]
                                          ELSE txs[jd]
    BY <1>3
  <2>2. DOMAIN txs' = DOMAIN txs
    BY <1>3
  <2>3. \A jd \in DOMAIN txs :
            txs[jd] \in [nonce : Nat, signedBy : Accounts, place : Nat,
                         state : Mined \cup {"signed", "waiting"}]
    BY DEF TypeOK
  <2>4. LET tx == [txs[id] EXCEPT !.state = s]
        IN  /\ tx.nonce = txs[id].nonce /\ tx.signedBy = txs[id].signedBy
            /\ tx \in [nonce : Nat, signedBy : Accounts, place : Nat,
                       state : Mined \cup {"signed", "waiting"}]
    BY <2>3
  <2>5. QED
    BY <2>1, <2>2, <2>3, <2>4
<1>5. id[1] \in Calls /\ from[id[1]] \in Accounts
  BY DEF TypeOK
<1>6. /\ forwarder' \in [Accounts -> Nat]
      /\ \A a \in Accounts : forwarder[a] <= forwarder'[a]
  <2>1. forwarder \in [Accounts -> Nat]
    BY DEF TypeOK
  <2>2. CASE UNCHANGED forwarder
    BY <2>1, <2>2
  <2>3. CASE forwarder' = [forwarder EXCEPT ![from[id[1]]] = @ + 1]
    BY <1>5, <2>1, <2>3
  <2>4. QED
    BY <1>1, <2>2, <2>3
<1>7. TypeOK'
  BY <1>2, <1>4, <1>6 DEF TypeOK
<1>8. HasRelay' /\ UsedIsDropped' /\ OneRequest' /\ SignedRequest' /\ AnswerHasTx'
  BY <1>2, <1>4 DEF HasRelay, UsedIsDropped, OneRequest, SignedRequest, AnswerHasTx
<1>9. txs'[id].state = "executed" =>
        /\ txs[id].nonce = forwarder[from[id[1]]]
        /\ forwarder'[from[id[1]]] = forwarder[from[id[1]]] + 1
  <2>1. CASE SetTx(id, [txs[id] EXCEPT !.state = "rejected"])
    BY <2>1 DEF SetTx, TypeOK
  <2>2. QED
    BY <1>1, <1>5, <2>1 DEF TypeOK
<1>10. ASSUME NEW jd \in DOMAIN txs', IsExecuted(jd)'
       PROVE  txs'[jd].nonce < forwarder'[from'[jd[1]]]
  <2>1. jd[1] \in Calls /\ from[jd[1]] \in Accounts /\ txs[jd].nonce \in Nat
        /\ forwarder[from[jd[1]]] \in Nat /\ forwarder'[from[jd[1]]] \in Nat
    BY <1>4, <1>6 DEF TypeOK
  <2>2. CASE jd = id
    BY <1>2, <1>4, <1>9, <1>10, <2>1, <2>2 DEF IsExecuted
  <2>3. CASE jd # id
    <3>1. txs[jd].nonce < forwarder[from[jd[1]]]
      BY <1>4, <1>10, <2>3 DEF IsExecuted, NonceIsSpent
    <3>2. forwarder[from[jd[1]]] <= forwarder'[from[jd[1]]]
      BY <1>6, <2>1
    <3>3. QED
      BY <1>2, <1>4, <2>1, <3>1, <3>2
  <2>4. QED
    BY <2>2, <2>3
<1>11. ASSUME NEW jd \in DOMAIN txs, IsExecuted(jd), jd # id, jd[1] = id[1],
              txs'[id].state = "executed"
       PROVE  FALSE
  <2>1. txs[jd].nonce < forwarder[from[id[1]]]
    BY <1>11 DEF NonceIsSpent
  <2>2. txs[jd].nonce = txs[id].nonce
    BY <1>11 DEF OneRequest
  <2>3. forwarder[from[id[1]]] \in Nat
    BY <1>5 DEF TypeOK
  <2>4. QED
    BY <1>9, <1>11, <2>1, <2>2, <2>3
<1>12. ASSUME NEW jd \in DOMAIN txs', NEW kd \in DOMAIN txs',
              IsExecuted(jd)', IsExecuted(kd)', jd[1] = kd[1]
       PROVE  jd = kd
  <2>1. CASE jd # id /\ kd # id
    BY <1>4, <1>12, <2>1 DEF IsExecuted, NonceIsSpent
  <2>2. CASE jd = id \/ kd = id
    BY <1>4, <1>11, <1>12, <2>2 DEF IsExecuted
  <2>3. QED
    BY <2>1, <2>2
<1>13. NonceIsSpent'
  BY <1>10, <1>12 DEF NonceIsSpent
<1>14. QED
  BY <1>7, <1>8, <1>13

LEMMA ExpireIInv ==
  ASSUME IInv, Expire
  PROVE  IInv'
<1> USE DEF IInv
<1>1. /\ UNCHANGED <<pc, from, nonce, fees, left, worse, relay, lastKnown, signedBy, answer,
                     signer, failures, cached, txs, forwarder, good>>
      /\ late' \subseteq Calls /\ faults' \in 0 .. MaxFaults
  BY FaultType DEF Expire, callVars, sharedVars, TypeOK
<1>2. TypeOK'
  BY <1>1 DEF TypeOK
<1>3. OneRequest' /\ NonceIsSpent'
  BY <1>1, TxsKept
<1>4. QED
  BY <1>1, <1>2, <1>3 DEF HasRelay, UsedIsDropped, SignedRequest, AnswerHasTx

LEMMA ReloadIInv ==
  ASSUME IInv, Reload
  PROVE  IInv'
<1> USE DEF IInv
<1>1. /\ UNCHANGED <<from, nonce, fees, left, worse, relay, lastKnown, signedBy, answer,
                     txs, forwarder, late, good>>
      /\ \A c \in Calls : pc'[c] = IF pc[c] \in Ended \cup {"new"} THEN pc[c] ELSE "gone"
      /\ signer' = Nobody /\ cached' = {} /\ failures' = {} /\ faults' \in 0 .. MaxFaults
  BY FaultType DEF Reload, chainVars
<1>2. pc' \in [Calls -> Places]
  BY DEF Reload, TypeOK, Places, Ended
<1>3. \A c \in Calls : \/ pc'[c] = pc[c]
                       \/ pc'[c] = "gone" /\ pc[c] # "new"
  BY <1>1 DEF TypeOK
<1>4. TypeOK'
  BY <1>1, <1>2, <1>3 DEF TypeOK
<1>5. OneRequest' /\ NonceIsSpent'
  BY <1>1, TxsKept
<1>6. HasRelay' /\ UsedIsDropped' /\ SignedRequest' /\ AnswerHasTx'
  BY <1>1, <1>3 DEF HasRelay, UsedIsDropped, SignedRequest, AnswerHasTx, Trying
<1>7. QED
  BY <1>4, <1>5, <1>6

LEMMA StutterIInv ==
  ASSUME IInv, UNCHANGED vars
  PROVE  IInv'
<1>1. UNCHANGED <<pc, from, nonce, fees, left, worse, relay, lastKnown, signedBy, answer,
                  signer, failures, cached, txs, forwarder, late, good, faults>>
  BY DEF vars
<1>2. TypeOK' /\ HasRelay' /\ UsedIsDropped' /\ SignedRequest' /\ AnswerHasTx'
  BY <1>1 DEF IInv, TypeOK, HasRelay, UsedIsDropped, SignedRequest, AnswerHasTx
<1>3. QED
  BY <1>1, <1>2, TxsKept DEF IInv

LEMMA NextIInv == IInv /\ [Next]_vars => IInv'
<1> SUFFICES ASSUME IInv, [Next]_vars PROVE IInv'
  OBVIOUS
<1>1. CASE UNCHANGED vars
  BY <1>1, StutterIInv
<1>2. ASSUME NEW c \in Calls, CallStep(c) PROVE IInv'
  BY <1>2, PrepareIInv, RoundIInv, GiveUpIInv, ApproachIInv, SignIInv, AskedIInv, ServeIInv,
     ReceiveIInv DEF CallStep
<1>3. QED
  BY <1>1, <1>2, MineIInv, ExpireIInv, ReloadIInv DEF Next

\* The invariant of every theorem below.
LEMMA IInvHolds == Spec => []IInv
  BY InitIInv, NextIInv, PTL DEF Spec

\* Every variable has its type, and a call that the dapp has an answer to has a
\* transaction: relayTransaction returns none for it otherwise.
THEOREM TypeCorrect == Spec => []TypeOK
<1>1. IInv => TypeOK
  BY DEF IInv
<1>2. QED
  BY <1>1, IInvHolds, PTL

\* Whoever was the account manager's signer meanwhile, no relay ever has a
\* request that another account than its sender signed.
THEOREM SignedByItsSender == Spec => []SignedBySender
<1>1. IInv => SignedBySender
  BY DEF IInv, OneRequest, SignedBySender
<1>2. QED
  BY <1>1, IInvHolds, PTL

\* However many relays were asked for it, a call is executed at most once: all
\* of them have the same forwarder nonce.
THEOREM ExecutedAtMostOnce == Spec => []ExecutedOnce
<1>1. ASSUME IInv PROVE ExecutedOnce
  <2> SUFFICES ASSUME NEW c \in Calls
               PROVE  Cardinality({r \in Relays : <<c, r>> \in DOMAIN txs
                                      /\ txs[<<c, r>>].state = "executed"}) <= 1
    BY DEF ExecutedOnce
  <2> DEFINE S == {r \in Relays : <<c, r>> \in DOMAIN txs /\ txs[<<c, r>>].state = "executed"}
  <2>1. \A q, r \in S : q = r
    BY <1>1 DEF IInv, NonceIsSpent, IsExecuted
  <2> HIDE DEF S
  <2>2. CASE S = {}
    <3>1. Cardinality(S) <= 1
      BY <2>2, FS_EmptySet
    <3>2. QED
      BY <3>1 DEF S
  <2>3. CASE S # {}
    <3>1. PICK r \in S : TRUE
      BY <2>3
    <3>2. S = {r}
      BY <2>1, <3>1
    <3>3. Cardinality(S) = 1
      BY <3>2, FS_Singleton, Zenon
    <3>4. QED
      BY <3>3 DEF S
  <2>4. QED
    BY <2>2, <2>3
<1>2. QED
  BY <1>1, IInvHolds, PTL

\* The selection never returns the same relay twice for a call: it is another
\* than the one that just failed, and none that has signed for this call.
THEOREM RelayAskedOnce == Spec => NeverSameRelay
<1>1. ASSUME IInv, [Next]_vars, NEW c \in Calls, pc[c] = "selecting", pc'[c] = "chosen"
      PROVE  relay'[c] # relay[c] /\ <<c, relay'[c]>> \notin DOMAIN txs
  <2>1. Round(c)
    <3>1. ASSUME NEW d \in Calls, CallStep(d), d # c PROVE FALSE
      BY <1>1, <3>1, RoundIInv DEF CallStep, Prepare, GiveUp, Approach, Sign, Asked, Serve,
         Receive, Goes, IInv, TypeOK
    <3>2. CallStep(c) => Round(c)
      BY <1>1 DEF CallStep, Prepare, GiveUp, Approach, Sign, Asked, Serve, Receive, Goes,
         IInv, TypeOK
    <3>3. ~UNCHANGED vars /\ ~Mine /\ ~Expire
      BY <1>1 DEF vars, Mine, Expire, callVars
    <3>4. ~Reload
      BY <1>1 DEF Reload, IInv, TypeOK
    <3>5. QED
      BY <1>1, <3>1, <3>2, <3>3, <3>4 DEF Next
  <2>2. relay'[c] \in left[c] /\ left[c] \subseteq Relays
    BY <1>1, <2>1, RoundIInv DEF IInv, TypeOK
  <2>3. QED
    BY <1>1, <2>2 DEF IInv, UsedIsDropped
<1>2. IInv /\ [Next]_vars =>
        [\A c \in Calls : pc[c] = "selecting" /\ pc'[c] = "chosen" =>
           /\ relay'[c] # relay[c]
           /\ <<c, relay'[c]>> \notin DOMAIN txs]_vars
  BY <1>1
<1>3. QED
  BY <1>2, IInvHolds, PTL DEF Spec, NeverSameRelay

(***************************************************************************)
(* The queries for events.                                                 *)
(***************************************************************************)
LogSet == [block : Nat, index : Nat, event : Events]
Queries ==
    [phase : {"none", "head", "pages", "found", "failed"}, from : Nat, to : Nat, head : Nat,
     pages : Nat, next : Nat, attempts : Nat, wanted : SUBSET Events, events : Seq(LogSet)]

\* Where the page starts that is read next, and how many there are.
PageSize(q) == Ceiling(q.to + 1 - q.from, q.pages)
PageStart(q) == IF q.pages = 1 THEN q.from ELSE q.from + (q.next - 1) * PageSize(q)
PageCount(q) == IF q.pages = 1 THEN 1 ELSE Ceiling(q.to + 1 - q.from, PageSize(q))
IsRead(q, b) == q.phase = "found" \/ (q.phase = "pages" /\ b < PageStart(q))
HasLog(q, b, k) == blocks[b][k] \in q.wanted => LogAt(b, k) \in ToSet(q.events)

QueryInOrder(q) ==
    /\ q.phase = "head" => MaxPageSize # Unlimited /\ q.to = Latest /\ q.from >= 1 /\ q.events = <<>>
    /\ q.phase = "pages" => q.pages >= 1 /\ q.next \in 1 .. PageCount(q)
    /\ q.phase \in {"pages", "found"} =>
           /\ q.from >= 1
           /\ q.to = Latest <=> MaxPageSize = Unlimited
           /\ q.to = Latest => q.pages = 1
           /\ q.to # Latest =>
                  /\ q.from <= q.to /\ q.head \in 1 .. Tip /\ q.head <= q.to
                  /\ q.to <= lastBlockNumber \/ q.to = q.from
                  /\ \A b \in q.from .. q.head : \A k \in DOMAIN blocks[b] :
                        IsRead(q, b) => HasLog(q, b, k)
           /\ \A log \in ToSet(q.events) : \E b \in DOMAIN blocks : \E k \in DOMAIN blocks[b] :
                  /\ log = LogAt(b, k) /\ blocks[b][k] \in q.wanted
                  /\ b >= q.from /\ (q.to # Latest => b <= q.to)

PagingInv ==
    /\ blocks \in Seq(Seq(Events)) /\ lastBlockNumber \in 0 .. Tip
    /\ query \in [Callers -> Queries]
    /\ \A c \in Callers : QueryInOrder(query[c])

(***************************************************************************)
(* The calls.                                                              *)
(***************************************************************************)
Steps == {"idle", "over", "dropped", "node", "signer", "override", "fees", "relaying", "atRelay",
          "byTheHash", "key", "lookup", "events", "receipt", "transaction"}
IsNamed(b, k, id, name) == blocks[b][k].id = id /\ blocks[b][k].name = name
Success(b, k, r) == IsNamed(b, k, r, "relayed") /\ blocks[b][k].ok
\* What the callback of a call was told.
Says(c, kind, r) == Answer(kind, r) \in ToSet(answers[c])
\* The block is one that every later query will read.
InSight(b, r) == MaxPageSize = Unlimited \/ b <= lastBlockNumber \/ b = submittedRelayRequests[r]
Proved(r) == \E b \in DOMAIN blocks : \E k \in DOMAIN blocks[b] : Success(b, k, r) /\ InSight(b, r)

CallsInOrder ==
    /\ relayed \subseteq Requests /\ IsFiniteSet(relayed) /\ relayed = 1 .. Cardinality(relayed)
    /\ DOMAIN call = Callers
    /\ \A c \in Callers :
          /\ DOMAIN call[c] = {"at", "payload", "id", "block", "found"}
          /\ call[c].at \in Steps
          /\ call[c].id \in Requests \ {0} => call[c].id \in relayed
          /\ call[c].at \in {"lookup", "events", "receipt"} /\ call[c].payload.method = "receipt" =>
                call[c].id \in relayed
          /\ call[c].at \in {"fees", "relaying", "atRelay"} => call[c].payload.method = "send"
          /\ call[c].at = "receipt" => call[c].payload.method = "receipt"
          /\ call[c].at \in {"byTheHash", "lookup", "events", "receipt", "transaction"} =>
                call[c].payload.method # "send"

\* A request on its way to a relay is nobody else's, and not known yet.
AtRelayInOrder ==
    \A c \in Callers : call[c].at = "atRelay" =>
        /\ call[c].id \in relayed \ DOMAIN submittedRelayRequests
        /\ call[c].block \in 1 .. Tip
        /\ \A b \in DOMAIN blocks : \A k \in DOMAIN blocks[b] :
              blocks[b][k].id = call[c].id => b >= call[c].block
        /\ \A d \in Callers : call[d].id = call[c].id => d = c
        /\ \A d \in Callers : ~Says(d, "success", call[c].id)

SubmittedInOrder ==
    /\ submittedRelayRequests \in [DOMAIN submittedRelayRequests -> 1 .. Tip]
    /\ DOMAIN submittedRelayRequests \subseteq relayed
    /\ \A r \in DOMAIN submittedRelayRequests : \A b \in DOMAIN blocks : \A k \in DOMAIN blocks[b] :
          blocks[b][k].id = r => b >= submittedRelayRequests[r]

\* The forwarder executes a request once.
ExecutedInOrder ==
    /\ \A b \in DOMAIN blocks : \A k \in DOMAIN blocks[b] : blocks[b][k].id \in relayed
    /\ \A b, d \in DOMAIN blocks : \A k \in DOMAIN blocks[b], l \in DOMAIN blocks[d] :
          blocks[b][k].id = blocks[d][l].id /\ blocks[b][k].name = "relayed"
            /\ blocks[d][l].name = "relayed" => b = d /\ k = l

LookUpsInOrder ==
    \A c \in Callers : call[c].at = "events" =>
        /\ query[c].wanted = Wanted(call[c].id)
        /\ call[c].id \in DOMAIN submittedRelayRequests =>
              query[c].from = submittedRelayRequests[call[c].id]

AnswersTyped == \E S : answers \in [Callers -> Seq(S)]
\* What succeeded is in the chain, or was sent before this session.
SuccessesInOrder ==
    \A c \in Callers : \A r \in Nat \ {0} : Says(c, "success", r) =>
        r \in relayed /\ (r \in DOMAIN submittedRelayRequests => Proved(r))
FoundInOrder ==
    \A c \in Callers :
        /\ call[c].at = "receipt" /\ Translated(call[c].found) = "success"
        /\ call[c].id \in DOMAIN submittedRelayRequests
        => Proved(call[c].id)
\* A call may be made by who has made none, or has sent a transaction.
CallersInOrder ==
    \A c \in Callers :
        /\ call[c].at = "idle" => answers[c] = <<>>
        /\ call[c].payload.method = "send" => \A r \in Nat \ {0} : ~Says(c, "failure", r)

\* The query will have the event that made the request a success.
Finds(q, r) ==
    \A b \in DOMAIN blocks : \A k \in DOMAIN blocks[b] : Success(b, k, r) =>
        /\ q.phase \in {"pages", "found"} /\ q.to # Latest => b <= q.to
        /\ IsRead(q, b) => LogAt(b, k) \in ToSet(q.events)

\* What was told to have succeeded is found again.
ToldInOrder ==
    /\ told \in [Callers -> SUBSET Requests]
    /\ \A c \in Callers : \A r \in told[c] :
          /\ r \in DOMAIN submittedRelayRequests /\ Proved(r)
          /\ ~Says(c, "failure", r)
          /\ call[c].id = r /\ call[c].at = "events" => Finds(query[c], r)
          /\ call[c].id = r /\ call[c].at = "receipt" => Translated(call[c].found) = "success"

SessionInv ==
    /\ PagingInv /\ CallsInOrder /\ AtRelayInOrder /\ SubmittedInOrder /\ ExecutedInOrder
    /\ LookUpsInOrder /\ AnswersTyped /\ SuccessesInOrder /\ FoundInOrder /\ CallersInOrder
    /\ ToldInOrder

\* What rounding a quotient up gives.
LEMMA CeilingBounds ==
  ASSUME NEW a \in Nat \ {0}, NEW b \in Nat \ {0}
  PROVE  /\ Ceiling(a, b) \in Nat \ {0} /\ Ceiling(a, b) * b >= a
         /\ (Ceiling(a, b) - 1) * b < a
<1> DEFINE c == (a + b - 1) \div b
<1>1. c \in Int /\ c * b <= a + b - 1 /\ a + b - 1 < c * b + b
  BY SMTT(30)
<1>2. c >= 1
  <2>1. CASE c <= 0
    <3>1. c * b <= 0
      BY <1>1, <2>1, SMTT(30)
    <3>2. a + b - 1 < b
      BY <1>1, <3>1
    <3> QED BY <3>2
  <2> QED BY <1>1, <2>1
<1>3. (c - 1) * b = c * b - b
  BY <1>1
<1> QED BY <1>1, <1>2, <1>3 DEF Ceiling

\* A finite set can be listed, and the list has its elements.
LEMMA SequenceOfSet ==
  ASSUME NEW S, IsFiniteSet(S)
  PROVE  SetToSeq(S) \in Seq(S) /\ ToSet(SetToSeq(S)) = S
<1> DEFINE n == Cardinality(S)
           f == SetToSeq(S)
<1>1. n \in Nat /\ ExistsBijection(1 .. n, S)
  BY FS_CardinalityType
<1>2. \E g \in [1 .. n -> S] : IsInjective(g)
  BY <1>1 DEF ExistsBijection, Bijection, Injection, IsInjective
<1>3. f \in [1 .. n -> S] /\ IsInjective(f)
  BY <1>2 DEF SetToSeq
<1>4. f \in Injection(1 .. n, S)
  BY <1>3 DEF Injection, IsInjective
<1>5. Cardinality(1 .. n) = n
  BY <1>1, FS_Interval
<1>6. f \in Surjection(1 .. n, S)
  BY <1>4, <1>5, FS_Injection
<1>7. f \in Seq(S) /\ DOMAIN f = 1 .. n
  BY <1>1, <1>3
<1> QED BY <1>3, <1>6, <1>7 DEF ToSet, Surjection

-----------------------------------------------------------------------------
(* Logs and pages                                                          *)

\* What is assumed of the constants of the paging.
LEMMA PagingConstants ==
  /\ MaxPageSize \in Nat /\ MaxPageCount \in Nat /\ MaxSplit \in Nat
  /\ MaxAttempts \in Nat \ {0} /\ MaxHeadReads \in Nat \ {0}
  BY EventPagingAssumption

LastOf(to) == IF to = Latest \/ to > Tip THEN Tip ELSE to

\* The logs of a range are those of its mined blocks.
LEMMA LogsOfRange ==
  ASSUME NEW first, NEW to, NEW wanted, NEW x
  PROVE  x \in LogsInRange(first, to, wanted) <=>
           \E b \in first .. LastOf(to) : \E k \in DOMAIN blocks[b] :
              x = LogAt(b, k) /\ blocks[b][k] \in wanted
  BY DEF LogsInRange, LogsOfBlock, LastOf

\* A range has finitely many logs.
LEMMA LogsAreFinite ==
  ASSUME blocks \in Seq(Seq(Events)), NEW first \in Nat \ {0}, NEW to \in Nat, NEW wanted
  PROVE  IsFiniteSet(LogsInRange(first, to, wanted))
<1> DEFINE I == first .. LastOf(to)
           S == {LogsOfBlock(b, wanted) : b \in I}
<1>1. LastOf(to) \in Nat /\ LastOf(to) <= Tip /\ Tip \in Nat /\ DOMAIN blocks = 1 .. Tip
  BY DEF LastOf, Tip, Latest
<1>2. ASSUME NEW b \in I
      PROVE  IsFiniteSet(LogsOfBlock(b, wanted))
  <2> DEFINE T == {i \in DOMAIN blocks[b] : blocks[b][i] \in wanted}
             g == [i \in T |-> LogAt(b, i)]
  <2>1. blocks[b] \in Seq(Events)
    BY <1>1, <1>2
  <2>2. IsFiniteSet(DOMAIN blocks[b])
    <3>1. PICK n \in Int : DOMAIN blocks[b] = 1 .. n
      BY <2>1
    <3>2. IsFiniteSet(1 .. n)
      BY FS_Interval
    <3> QED BY <3>1, <3>2
  <2>3. IsFiniteSet(T)
    BY <2>2, FS_Subset
  <2>4. g \in Surjection(T, LogsOfBlock(b, wanted))
    BY DEF Surjection, LogsOfBlock
  <2> QED BY <2>3, <2>4, FS_Surjection
<1>3. IsFiniteSet(I)
  BY <1>1, FS_Interval
<1>4. IsFiniteSet(S)
  <2> DEFINE g == [b \in I |-> LogsOfBlock(b, wanted)]
  <2>1. g \in Surjection(I, S)
    BY DEF Surjection
  <2> QED BY <1>3, <2>1, FS_Surjection
<1>5. \A T \in S : IsFiniteSet(T)
  BY <1>2
<1>6. LogsInRange(first, to, wanted) = UNION S
  BY DEF LogsInRange, LastOf
<1> QED BY <1>4, <1>5, <1>6, FS_UNION

\* What a page returns is what the chain holds there.
LEMMA LogsAreThere ==
  ASSUME blocks \in Seq(Seq(Events)), NEW first \in Nat \ {0}, NEW to \in Nat, NEW wanted
  PROVE  /\ Logs(first, to, wanted) \in Seq(LogSet)
         /\ ToSet(Logs(first, to, wanted)) = LogsInRange(first, to, wanted)
<1> DEFINE S == LogsInRange(first, to, wanted)
<1>1. IsFiniteSet(S)
  BY LogsAreFinite
<1>2. Logs(first, to, wanted) \in Seq(S) /\ ToSet(Logs(first, to, wanted)) = S
  BY <1>1, SequenceOfSet DEF Logs
<1>3. S \subseteq LogSet
  <2> SUFFICES ASSUME NEW x \in S
               PROVE  x \in LogSet
    OBVIOUS
  <2>1. PICK b \in first .. LastOf(to) : \E k \in DOMAIN blocks[b] : x = LogAt(b, k)
    BY LogsOfRange
  <2>2. PICK k \in DOMAIN blocks[b] : x = LogAt(b, k)
    BY <2>1
  <2>3. b \in 1 .. Len(blocks)
    BY DEF LastOf, Tip, Latest
  <2>4. blocks[b] \in Seq(Events)
    BY <2>3
  <2>5. k \in Nat /\ blocks[b][k] \in Events
    BY <2>2, <2>4
  <2> QED BY <2>2, <2>3, <2>5 DEF LogAt, LogSet
<1> QED BY <1>2, <1>3, SeqMonotonic

\* A concatenation has the elements of both.
LEMMA Concatenated ==
  ASSUME NEW S, NEW s \in Seq(S), NEW t \in Seq(S)
  PROVE  s \o t \in Seq(S) /\ ToSet(s \o t) = ToSet(s) \cup ToSet(t)
<1>1. /\ s \o t \in Seq(S) /\ Len(s \o t) = Len(s) + Len(t)
      /\ \A i \in 1 .. Len(s) + Len(t) : (s \o t)[i] = IF i <= Len(s) THEN s[i] ELSE t[i - Len(s)]
  BY ConcatProperties
<1>2. /\ DOMAIN s = 1 .. Len(s) /\ DOMAIN t = 1 .. Len(t) /\ DOMAIN (s \o t) = 1 .. Len(s) + Len(t)
      /\ Len(s) \in Nat /\ Len(t) \in Nat
  BY <1>1
<1>3. ASSUME NEW i \in DOMAIN (s \o t)
      PROVE  (s \o t)[i] \in ToSet(s) \cup ToSet(t)
  <2>1. CASE i <= Len(s)
    BY <1>1, <1>2, <2>1 DEF ToSet
  <2>2. CASE ~(i <= Len(s))
    <3>1. i - Len(s) \in DOMAIN t /\ (s \o t)[i] = t[i - Len(s)]
      BY <1>1, <1>2, <2>2
    <3> QED BY <3>1 DEF ToSet
  <2> QED BY <2>1, <2>2
<1>4. ASSUME NEW i \in DOMAIN s
      PROVE  s[i] \in ToSet(s \o t)
  <2>1. i \in DOMAIN (s \o t) /\ (s \o t)[i] = s[i]
    BY <1>1, <1>2
  <2> QED BY <2>1 DEF ToSet
<1>5. ASSUME NEW i \in DOMAIN t
      PROVE  t[i] \in ToSet(s \o t)
  <2>1. i + Len(s) \in DOMAIN (s \o t) /\ (s \o t)[i + Len(s)] = t[i]
    <3>1. i + Len(s) \in 1 .. Len(s) + Len(t) /\ ~(i + Len(s) <= Len(s)) /\ (i + Len(s)) - Len(s) = i
      BY <1>2
    <3> QED BY <1>1, <1>2, <3>1
  <2> QED BY <2>1 DEF ToSet
<1>6. ToSet(s \o t) \subseteq ToSet(s) \cup ToSet(t)
  BY <1>3 DEF ToSet
<1>7. ToSet(s) \subseteq ToSet(s \o t) /\ ToSet(t) \subseteq ToSet(s \o t)
  BY <1>4, <1>5 DEF ToSet
<1> QED BY <1>1, <1>6, <1>7

\* A function on 1 .. n is a sequence of its range.
LEMMA FunctionIsSequence ==
  ASSUME NEW S, NEW n \in Nat, NEW f \in [1 .. n -> S]
  PROVE  f \in Seq(S) /\ Len(f) = n
  OBVIOUS

\* A range is read page by page, without a gap and to its end.
Paging(q) ==
    /\ q \in Queries /\ q.from >= 1 /\ q.pages >= 1 /\ q.next \in 1 .. PageCount(q)
    /\ q.to = Latest => q.pages = 1
    /\ q.to # Latest => q.from <= q.to

\* Where splitRange lets each page begin and end.
LEMMA PageBounds ==
  ASSUME NEW q, Paging(q)
  PROVE  /\ Len(SplitRange(q.from, q.to, q.pages)) = PageCount(q)
         /\ Part(q).from = PageStart(q) /\ Part(q).from \in Nat \ {0} /\ Part(q).from >= q.from
         /\ Part(q).to \in Nat
         /\ q.pages = 1 => Part(q).to = q.to
         /\ q.to # Latest => Part(q).to \in 1 .. q.to
         /\ q.to # Latest /\ q.next = PageCount(q) => Part(q).to = q.to
         /\ q.next # PageCount(q) =>
               /\ q.next + 1 \in 1 .. PageCount(q)
               /\ \A x : x = q.next + 1 => q.from + (x - 1) * PageSize(q) <= Part(q).to + 1
<1> USE DEF Latest
<1>0. /\ q.from \in Nat \ {0} /\ q.to \in Nat /\ q.pages \in Nat \ {0} /\ q.next \in Nat \ {0}
      /\ q.next \in 1 .. PageCount(q)
  BY DEF Paging, Queries
<1>1. CASE q.pages = 1
  <2>1. PageCount(q) = 1 /\ q.next = 1 /\ PageStart(q) = q.from
    BY <1>0, <1>1 DEF PageCount, PageStart
  <2>2. SplitRange(q.from, q.to, q.pages) = <<[from |-> q.from, to |-> q.to]>>
    BY <1>1 DEF SplitRange
  <2>3. Part(q) = [from |-> q.from, to |-> q.to]
    BY <2>1, <2>2 DEF Part
  <2> QED BY <1>0, <1>1, <2>1, <2>2, <2>3 DEF Paging
<1>2. CASE q.pages # 1
  <2> DEFINE n == q.to + 1 - q.from
             size == PageSize(q)
             m == PageCount(q)
             k == q.next
             parts == [j \in 1 .. m |->
                         [from |-> q.from + (j - 1) * size,
                          to   |-> IF q.from + j * size > q.to THEN q.to ELSE q.from + j * size - 1]]
  <2>1. q.to # Latest /\ q.from <= q.to /\ n \in Nat \ {0}
    BY <1>0, <1>2 DEF Paging
  <2>2. size \in Nat \ {0}
    BY <1>0, <2>1, CeilingBounds DEF PageSize
  <2>3. m \in Nat \ {0} /\ m * size >= n /\ (m - 1) * size < n
    BY <1>2, <2>1, <2>2, CeilingBounds DEF PageCount
  <2>4. SplitRange(q.from, q.to, q.pages) = parts
    BY <1>2 DEF SplitRange, PageSize, PageCount
  <2>5. parts \in [1 .. m -> [from : Int, to : Int]]
    BY <1>0, <2>2, <2>3
  <2>7. Len(parts) = m
    <3> HIDE DEF parts
    <3> QED BY <2>3, <2>5, FunctionIsSequence
  <2>8. Part(q) = [from |-> q.from + (k - 1) * size,
                   to   |-> IF q.from + k * size > q.to THEN q.to ELSE q.from + k * size - 1]
    BY <1>0, <2>4 DEF Part
  <2>9. PageStart(q) = q.from + (k - 1) * size
    BY <1>2 DEF PageStart
  <2>10. (k - 1) * size \in Nat /\ k * size \in Nat /\ k * size = (k - 1) * size + size
    BY <1>0, <2>2
  <2>12. k \in 1 .. m /\ n = q.to + 1 - q.from
    BY <1>0
  <2>13. \A x : x = k + 1 => (x - 1) * size = k * size
    BY <1>0, <2>2
  <2> HIDE DEF n, size, m, k, parts
  <2>11. (k = m) => q.from + k * size > q.to
    <3>1. (k = m) => k * size >= n
      BY <2>3
    <3> QED BY <1>0, <2>10, <2>12, <3>1
  <2>14. /\ Part(q).from = q.from + (k - 1) * size
         /\ Part(q).to = IF q.from + k * size > q.to THEN q.to ELSE q.from + k * size - 1
    BY <2>8
  <2>15. /\ Part(q).from \in Nat \ {0} /\ Part(q).from >= q.from
         /\ Part(q).to \in 1 .. q.to
         /\ q.from + k * size <= Part(q).to + 1 \/ Part(q).to = q.to
    BY <1>0, <2>1, <2>2, <2>10, <2>14
  <2>16. (k # m) => q.from + k * size <= Part(q).to + 1
    <3> SUFFICES ASSUME k # m
                 PROVE  q.from + k * size <= Part(q).to + 1
      OBVIOUS
    <3>1. k <= m - 1
      BY <2>3, <2>12
    <3>2. k * size <= (m - 1) * size
      BY <2>2, <2>3, <2>12, <3>1
    <3>3. k * size < n
      BY <2>1, <2>2, <2>3, <2>10, <2>12, <3>2
    <3>4. q.from + k * size <= q.to
      BY <1>0, <2>1, <2>10, <2>12, <3>3
    <3> QED BY <1>0, <2>10, <2>14, <3>4
  <2>17. Part(q).to = IF q.from + k * size > q.to THEN q.to ELSE q.from + k * size - 1
    BY <2>14
  <2>18. (k = m) => Part(q).to = q.to
    BY <2>11, <2>17
  <2>19. (k # m) => \A x : x = k + 1 => q.from + (x - 1) * size <= Part(q).to + 1
    BY <2>13, <2>16
  <2>20. (k # m) => k + 1 \in 1 .. m
    BY <2>3, <2>12
  <2> QED BY <1>2, <2>4, <2>7, <2>9, <2>14, <2>15, <2>18, <2>19, <2>20 DEF n, size, m, k
<1> QED BY <1>1, <1>2

-----------------------------------------------------------------------------
(* The queries stay in order                                               *)

\* What happens to the chain and to what is known of its head.
Grown ==
    /\ blocks' \in Seq(Seq(Events)) /\ Tip \in Nat /\ Tip' \in Nat /\ Tip <= Tip'
    /\ DOMAIN blocks = 1 .. Tip /\ DOMAIN blocks' = 1 .. Tip'
    /\ \A b \in 1 .. Tip : blocks'[b] = blocks[b]
    /\ lastBlockNumber \in Nat /\ lastBlockNumber' \in Nat
    /\ lastBlockNumber <= lastBlockNumber' /\ lastBlockNumber' <= Tip'

\* A chain that stays as it is counts as grown, whatever is learned of its head.
LEMMA SameIsGrown ==
  ASSUME PagingInv, blocks' = blocks, lastBlockNumber' \in lastBlockNumber .. Tip
  PROVE  Grown
  BY DEF PagingInv, Grown, Tip

\* A block mined is growth.
LEMMA MinedIsGrown ==
  ASSUME PagingInv, NEW e \in Seq(Events), blocks' = Append(blocks, e),
         lastBlockNumber' = lastBlockNumber
  PROVE  Grown
<1>1. Len(blocks) \in Nat /\ Len(blocks') = Len(blocks) + 1 /\ blocks' \in Seq(Seq(Events))
  BY DEF PagingInv
<1>2. \A b \in 1 .. Len(blocks) : blocks'[b] = blocks[b]
  BY DEF PagingInv
<1> QED BY <1>1, <1>2 DEF PagingInv, Grown, Tip

\* A query in order is so still when the chain has grown: its range is of blocks that stay.
LEMMA QueryKept ==
  ASSUME Grown, NEW q \in Queries, QueryInOrder(q)
  PROVE  QueryInOrder(q)'
<1> USE DEF Grown
<1>1. ASSUME NEW b \in 1 .. Tip
      PROVE  /\ blocks'[b] = blocks[b]
             /\ \A k : LogAt(b, k)' = LogAt(b, k)
             /\ \A k : HasLog(q, b, k)' <=> HasLog(q, b, k)
  BY <1>1 DEF LogAt, HasLog
<1>2. /\ PageCount(q)' = PageCount(q)
      /\ \A b : IsRead(q, b)' <=> IsRead(q, b)
  BY DEF PageCount, PageSize, PageStart, IsRead
<1>3. /\ q.phase = "head" => MaxPageSize # Unlimited /\ q.to = Latest /\ q.from >= 1 /\ q.events = <<>>
      /\ q.phase = "pages" => q.pages >= 1 /\ q.next \in 1 .. PageCount(q)'
  BY <1>2 DEF QueryInOrder
<1>4. ASSUME q.phase \in {"pages", "found"}
      PROVE  /\ q.from >= 1
             /\ q.to = Latest <=> MaxPageSize = Unlimited
             /\ q.to = Latest => q.pages = 1
  BY <1>4 DEF QueryInOrder
<1>5. ASSUME q.phase \in {"pages", "found"}, q.to # Latest
      PROVE  /\ q.from <= q.to /\ q.head \in 1 .. Tip' /\ q.head <= q.to
             /\ q.to <= lastBlockNumber' \/ q.to = q.from
             /\ \A b \in q.from .. q.head : \A k \in DOMAIN blocks'[b] :
                   IsRead(q, b)' => HasLog(q, b, k)'
  <2>1. /\ q.from >= 1 /\ q.from <= q.to /\ q.head \in 1 .. Tip /\ q.head <= q.to
        /\ q.to <= lastBlockNumber \/ q.to = q.from
        /\ \A b \in q.from .. q.head : \A k \in DOMAIN blocks[b] : IsRead(q, b) => HasLog(q, b, k)
    BY <1>5 DEF QueryInOrder
  <2>2. q.from \in Nat /\ q.to \in Nat
    BY DEF Queries
  <2>3. \A b \in q.from .. q.head : b \in 1 .. Tip
    BY <2>1, <2>2
  <2>4. \A b \in q.from .. q.head : \A k \in DOMAIN blocks'[b] : IsRead(q, b)' => HasLog(q, b, k)'
    BY <1>1, <1>2, <2>1, <2>3
  <2> QED BY <2>1, <2>2, <2>4
<1>6. ASSUME q.phase \in {"pages", "found"}
      PROVE  \A log \in ToSet(q.events) : \E b \in DOMAIN blocks' : \E k \in DOMAIN blocks'[b] :
                /\ log = LogAt(b, k)' /\ blocks'[b][k] \in q.wanted
                /\ b >= q.from /\ (q.to # Latest => b <= q.to)
  <2> SUFFICES ASSUME NEW log \in ToSet(q.events)
               PROVE  \E b \in DOMAIN blocks' : \E k \in DOMAIN blocks'[b] :
                         /\ log = LogAt(b, k)' /\ blocks'[b][k] \in q.wanted
                         /\ b >= q.from /\ (q.to # Latest => b <= q.to)
    OBVIOUS
  <2>1. PICK b \in DOMAIN blocks : \E k \in DOMAIN blocks[b] :
                /\ log = LogAt(b, k) /\ blocks[b][k] \in q.wanted
                /\ b >= q.from /\ (q.to # Latest => b <= q.to)
    BY <1>6 DEF QueryInOrder
  <2>2. b \in DOMAIN blocks' /\ b \in 1 .. Tip
    BY <2>1
  <2> QED BY <1>1, <2>1, <2>2
<1>7. (ToSet(q.events))' = ToSet(q.events)
  OBVIOUS
<1> QED BY <1>3, <1>4, <1>5, <1>6, <1>7 DEF QueryInOrder

\* So is every query when one of them moves in order.
LEMMA PagingKept ==
  ASSUME PagingInv, Grown, NEW x \in Queries, QueryInOrder(x)',
         NEW c \in Callers, query' = [query EXCEPT ![c] = x]
  PROVE  PagingInv'
<1>1. query' \in [Callers -> Queries]
  BY DEF PagingInv
<1>2. ASSUME NEW d \in Callers
      PROVE  QueryInOrder(query[d])'
  <2>1. CASE d = c
    <3>1. query'[d] = x
      BY <2>1 DEF PagingInv
    <3> QED BY <3>1
  <2>2. CASE d # c
    <3>1. query'[d] = query[d] /\ query[d] \in Queries /\ QueryInOrder(query[d])
      BY <2>2 DEF PagingInv
    <3>2. \A q \in Queries : QueryInOrder(q) => QueryInOrder(q)'
      BY QueryKept
    <3> QED BY <3>1, <3>2
  <2> QED BY <2>1, <2>2
<1> QED BY <1>1, <1>2 DEF PagingInv, Grown, Tip

\* And when none moves.
LEMMA PagingSame ==
  ASSUME PagingInv, Grown, query' = query
  PROVE  PagingInv'
<1>1. \A q \in Queries : QueryInOrder(q) => QueryInOrder(q)'
  BY QueryKept
<1>2. \A d \in Callers : QueryInOrder(query[d])'
  BY <1>1 DEF PagingInv
<1> QED BY <1>2 DEF PagingInv, Grown, Tip

\* Steps that leave the queries alone keep them in order.
LEMMA PagingStutters ==
  ASSUME PagingInv, UNCHANGED pagingVars
  PROVE  PagingInv'
<1>1. Grown
  BY SameIsGrown DEF pagingVars, PagingInv, Tip
<1> QED BY <1>1, PagingSame DEF pagingVars

\* A query that is over, or has not begun, is in order.
LEMMA IdleInOrder ==
  ASSUME NEW q, q.phase \in {"none", "failed"}
  PROVE  QueryInOrder(q) /\ QueryInOrder(q)'
  BY DEF QueryInOrder

\* The idle query is typed and empty.
LEMMA NoQueryType == NoQuery \in Queries /\ NoQuery.phase = "none" /\ NoQuery.events = <<>>
  BY DEF NoQuery, Queries

\* At the start no query is under way.
LEMMA PagingInitInv == PagingInit => PagingInv
<1> SUFFICES ASSUME PagingInit
             PROVE  PagingInv
  OBVIOUS
<1>1. blocks \in Seq(Seq(Events)) /\ Len(blocks) = 1
  BY DEF PagingInit
<1>2. \A c \in Callers : query[c] = NoQuery
  BY DEF PagingInit
<1>3. \A c \in Callers : QueryInOrder(query[c])
  BY <1>2, NoQueryType, IdleInOrder
<1> QED BY <1>1, <1>3, NoQueryType DEF PagingInv, PagingInit, Tip

\* A query that has read nothing yet misses nothing.
Unread(q) == \A b \in Nat : b >= q.from => ~IsRead(q, b)

\* A query whose range has just become known is in order.
LEMMA PagedFresh ==
  ASSUME NEW q \in Queries, q.from >= 1, q.events = <<>>, blocks \in Seq(Seq(Events)),
         blocks' = blocks, lastBlockNumber' \in Nat,
         \/ MaxPageSize = Unlimited /\ q.to = Latest
         \/ /\ MaxPageSize # Unlimited /\ q.from <= q.to /\ q.head \in 1 .. Tip /\ q.head <= q.to
            /\ q.to <= lastBlockNumber' \/ q.to = q.from
  PROVE  Paged(q) \in Queries /\ QueryInOrder(Paged(q))' /\ Unread(Paged(q))
<1> DEFINE pages == PagesFor(q.from, q.to)
           x == [q EXCEPT !.phase = "pages", !.pages = pages, !.next = 1]
<1> USE DEF Latest, Unlimited
<1>0. MaxPageSize \in Nat /\ q.from \in Nat \ {0} /\ q.to \in Nat
  BY PagingConstants DEF Queries
<1>1. pages \in Nat \ {0} /\ (MaxPageSize = Unlimited => pages = 1)
  <2>1. CASE MaxPageSize = Unlimited
    BY <2>1 DEF PagesFor
  <2>2. CASE MaxPageSize # Unlimited
    <3>1. q.to + 1 - q.from \in Nat \ {0} /\ ~(q.to < q.from)
      BY <1>0, <2>2
    <3>2. Ceiling(q.to + 1 - q.from, MaxPageSize) \in Nat \ {0}
      BY <1>0, <2>2, <3>1, CeilingBounds
    <3> QED BY <2>2, <3>1, <3>2 DEF PagesFor
  <2> QED BY <2>1, <2>2
<1>2. CASE Paged(q) = [q EXCEPT !.phase = "failed"]
  <2>1. Paged(q) \in Queries /\ Paged(q).phase = "failed"
    BY <1>2 DEF Queries
  <2> QED BY <2>1, IdleInOrder DEF Unread, IsRead
<1>3. CASE Paged(q) = x
  <2> HIDE DEF pages
  <2>1. /\ x \in Queries /\ x.phase = "pages" /\ x.from = q.from /\ x.to = q.to /\ x.head = q.head
        /\ x.pages = pages /\ x.next = 1 /\ x.events = <<>>
    BY <1>1 DEF Queries
  <2> HIDE DEF x
  <2>2. PageCount(x) \in Nat \ {0} /\ PageStart(x) = q.from
    <3>1. CASE pages = 1
      BY <2>1, <3>1 DEF PageCount, PageStart
    <3>2. CASE pages # 1
      <4>1. q.to + 1 - q.from \in Nat \ {0}
        BY <1>0, <1>1, <3>2
      <4>2. PageSize(x) \in Nat \ {0}
        BY <1>1, <2>1, <4>1, CeilingBounds DEF PageSize
      <4>3. PageCount(x) \in Nat \ {0}
        BY <2>1, <3>2, <4>1, <4>2, CeilingBounds DEF PageCount
      <4>4. PageStart(x) = q.from + (1 - 1) * PageSize(x)
        BY <2>1, <3>2 DEF PageStart
      <4>5. (1 - 1) * PageSize(x) = 0
        BY <4>2
      <4> QED BY <1>0, <4>3, <4>4, <4>5
    <3> QED BY <3>1, <3>2
  <2>3. Unread(x) /\ \A b \in x.from .. x.head : ~IsRead(x, b)
    BY <1>0, <2>1, <2>2 DEF Unread, IsRead, Queries
  <2>4. ToSet(x.events) = {}
    BY <2>1 DEF ToSet
  <2>5. Tip' = Tip
    BY DEF Tip
  <2>6. (\A b : IsRead(x, b)' <=> IsRead(x, b)) /\ PageCount(x)' = PageCount(x)
        /\ ToSet(x.events)' = ToSet(x.events)
    BY DEF IsRead, PageStart, PageSize, PageCount
  <2>7. QueryInOrder(x)'
    BY <1>0, <1>1, <2>1, <2>2, <2>3, <2>4, <2>5, <2>6 DEF QueryInOrder
  <2> QED BY <1>3, <2>1, <2>3, <2>7
<1> HIDE DEF x, pages
<1>4. Paged(q) = x \/ Paged(q) = [q EXCEPT !.phase = "failed"]
  BY DEF Paged, x, pages
<1> QED BY <1>2, <1>3, <1>4

\* AskEvents, which begins a query.
LEMMA AskEventsKeeps ==
  ASSUME PagingInv, NEW c \in Callers, NEW first \in Nat \ {0}, NEW wanted \in SUBSET Events,
         AskEvents(c, first, Latest, wanted), UNCHANGED <<blocks, lastBlockNumber>>
  PROVE  /\ PagingInv'
         /\ query'[c].wanted = wanted /\ query'[c].from = first /\ query'[c].events = <<>>
         /\ Unread(query[c])' /\ query'[c].phase \in {"head", "pages", "failed"}
         /\ query'[c].phase \in {"pages", "found"} => query'[c].to = Latest
         /\ \A d \in Callers : d # c => query'[d] = query[d]
<1> DEFINE q == [NoQuery EXCEPT !.from = first, !.to = Latest, !.wanted = wanted]
           x == IF MaxPageSize # Unlimited THEN [q EXCEPT !.phase = "head"] ELSE Paged(q)
<1>1. /\ q \in Queries /\ q.from = first /\ q.to = Latest /\ q.wanted = wanted
      /\ q.events = <<>>
  BY NoQueryType DEF Queries, Latest
<1>2. query' = [query EXCEPT ![c] = x]
  BY DEF AskEvents
<1>3. Grown
  BY SameIsGrown DEF PagingInv
<1>4. x \in Queries /\ QueryInOrder(x)' /\ Unread(x)
  <2>1. CASE MaxPageSize # Unlimited
    <3> DEFINE y == [q EXCEPT !.phase = "head"]
    <3> HIDE DEF q
    <3>1. y \in Queries /\ y.phase = "head" /\ y.from >= 1 /\ y.to = Latest /\ y.events = <<>>
      BY <1>1 DEF Queries
    <3> HIDE DEF y
    <3>2. QueryInOrder(y)'
      BY <2>1, <3>1 DEF QueryInOrder
    <3>3. Unread(y)
      BY <3>1 DEF Unread, IsRead
    <3> QED BY <2>1, <3>1, <3>2, <3>3 DEF y
  <2>2. CASE MaxPageSize = Unlimited
    <3> HIDE DEF q
    <3>1. lastBlockNumber' \in Nat
      BY DEF PagingInv, Tip
    <3>2. Paged(q) \in Queries /\ QueryInOrder(Paged(q))' /\ Unread(Paged(q))
      BY <1>1, <2>2, <3>1, PagedFresh DEF PagingInv
    <3> QED BY <2>2, <3>2
  <2> QED BY <2>1, <2>2
<1>5. /\ x.wanted = wanted /\ x.from = first /\ x.events = <<>> /\ x.to = Latest
      /\ x.phase \in {"head", "pages", "failed"}
  <2> DEFINE p == PagesFor(q.from, q.to)
  <2>1. Paged(q) \in {[q EXCEPT !.phase = "failed"],
                      [q EXCEPT !.phase = "pages", !.pages = p, !.next = 1]}
    BY DEF Paged
  <2> HIDE DEF p
  <2> QED BY <1>1, <2>1 DEF Queries
<1> HIDE DEF x
<1>6. PagingInv'
  BY <1>2, <1>3, <1>4, PagingKept
<1>7. query'[c] = x /\ \A d \in Callers : d # c => query'[d] = query[d]
  BY <1>2 DEF PagingInv
<1>8. Unread(query[c])'
  BY <1>4, <1>7 DEF Unread, IsRead, PageStart, PageSize
<1> QED BY <1>5, <1>6, <1>7, <1>8

\* ReadHead: the range ends at the head or at its own beginning, and nothing of it is read.
LEMMA ReadHeadKeeps ==
  ASSUME PagingInv, NEW c \in Callers, NEW b \in 1 .. Tip, ReadHead(c, b)
  PROVE  /\ PagingInv' /\ Grown /\ \A d \in Callers : d # c => query'[d] = query[d]
         /\ query'[c].wanted = query[c].wanted /\ query'[c].from = query[c].from
         /\ query'[c].phase \in {"head", "pages", "failed"}
         /\ lastBlockNumber' >= lastBlockNumber
         /\ query'[c].phase = "pages" => query'[c].to >= lastBlockNumber'
         /\ MaxPageSize # Unlimited /\ Unread(query[c])'
<1> PICK q : q = query[c]
  OBVIOUS
<1>1. /\ q \in Queries /\ q.phase = "head" /\ MaxPageSize # Unlimited /\ q.from >= 1 /\ q.to = Latest
      /\ q.events = <<>> /\ blocks' = blocks
  BY DEF PagingInv, QueryInOrder, ReadHead
<1>0. b \in Nat \ {0} /\ b <= Tip /\ lastBlockNumber \in Nat
  BY DEF PagingInv, Tip
<1>2. CASE b >= lastBlockNumber
  <2> DEFINE y == [q EXCEPT !.head = b, !.attempts = 0, !.to = IF q.from > b THEN q.from ELSE b]
  <2>1. lastBlockNumber' = b /\ query' = [query EXCEPT ![c] = Paged(y)]
    BY <1>2 DEF ReadHead
  <2>2. Grown
    BY <1>1, <1>2, <2>1, SameIsGrown DEF PagingInv, Tip
  <2>3. /\ y \in Queries /\ y.from = q.from /\ y.from \in Nat /\ y.from >= 1 /\ y.head = b
        /\ y.events = <<>> /\ y.wanted = q.wanted
        /\ y.to = IF q.from > b THEN q.from ELSE b
    BY <1>0, <1>1 DEF Queries
  <2> HIDE DEF y
  <2>4. y.from <= y.to /\ y.head <= y.to /\ (y.to <= lastBlockNumber' \/ y.to = y.from)
        /\ y.to >= lastBlockNumber'
    BY <1>0, <2>1, <2>3
  <2>5. Paged(y) \in Queries /\ QueryInOrder(Paged(y))' /\ Unread(Paged(y))
    <3>1. blocks \in Seq(Seq(Events)) /\ lastBlockNumber' \in Nat /\ y.head \in 1 .. Tip
      BY <1>0, <2>1, <2>3 DEF PagingInv
    <3>2. y.to <= lastBlockNumber' \/ y.to = y.from
      BY <2>4
    <3> QED BY <1>1, <2>3, <2>4, <3>1, <3>2, PagedFresh
  <2>6. PagingInv'
    BY <2>1, <2>2, <2>5, PagingKept
  <2>7. /\ Paged(y).wanted = q.wanted /\ Paged(y).from = q.from /\ Paged(y).to = y.to
        /\ Paged(y).phase \in {"head", "pages", "failed"}
    <3> DEFINE p == PagesFor(y.from, y.to)
    <3>1. Paged(y) \in {[y EXCEPT !.phase = "failed"],
                        [y EXCEPT !.phase = "pages", !.pages = p, !.next = 1]}
      BY DEF Paged
    <3> HIDE DEF p
    <3> QED BY <2>3, <3>1 DEF Queries
  <2>8. query'[c] = Paged(y) /\ \A d \in Callers : d # c => query'[d] = query[d]
    BY <2>1 DEF PagingInv
  <2>9. Unread(query[c])'
    BY <2>5, <2>8 DEF Unread, IsRead, PageStart, PageSize
  <2> QED BY <1>1, <1>2, <2>1, <2>2, <2>4, <2>6, <2>7, <2>8, <2>9
<1>3. CASE ~(b >= lastBlockNumber)
  <2> DEFINE y == IF q.attempts + 1 = MaxHeadReads THEN [q EXCEPT !.phase = "failed"]
                  ELSE [q EXCEPT !.attempts = @ + 1]
  <2>1. lastBlockNumber' = lastBlockNumber /\ query' = [query EXCEPT ![c] = y]
    BY <1>3 DEF ReadHead
  <2>2. Grown
    <3>1. lastBlockNumber' \in lastBlockNumber .. Tip
      BY <2>1 DEF PagingInv
    <3> QED BY <1>1, <3>1, SameIsGrown
  <2>3. /\ y \in Queries /\ y.from = q.from /\ y.wanted = q.wanted /\ y.events = <<>>
        /\ y.phase \in {"head", "failed"} /\ y.from >= 1 /\ y.to = Latest
    <3>1. CASE q.attempts + 1 = MaxHeadReads
      BY <1>1, <3>1 DEF Queries
    <3>2. CASE q.attempts + 1 # MaxHeadReads
      BY <1>1, <3>2 DEF Queries
    <3> QED BY <3>1, <3>2
  <2> HIDE DEF y
  <2>4. QueryInOrder(y)'
    BY <1>1, <2>3 DEF QueryInOrder
  <2>5. PagingInv'
    BY <2>1, <2>2, <2>3, <2>4, PagingKept
  <2>6. query'[c] = y /\ \A d \in Callers : d # c => query'[d] = query[d]
    BY <2>1 DEF PagingInv
  <2>7. lastBlockNumber' >= lastBlockNumber
    BY <2>2 DEF Grown
  <2>8. Unread(query[c])'
    BY <2>3, <2>6 DEF Unread, IsRead, PageStart, PageSize
  <2> QED BY <1>1, <2>2, <2>3, <2>5, <2>6, <2>7, <2>8
<1> QED BY <1>2, <1>3

\* What reading a page makes of a query: every event of the page is in it, and the next page
\* begins where this one ends.
AfterPage(q, x) ==
    /\ Paging(q) /\ q.phase = "pages" /\ x.phase \in {"pages", "found"}
    /\ x.from = q.from /\ x.to = q.to /\ x.head = q.head /\ x.pages = q.pages
    /\ x.wanted = q.wanted
    /\ x.phase = "pages" => x.next \in 1 .. PageCount(x)
    /\ ToSet(x.events) =
          ToSet(q.events) \cup LogsInRange(Part(q).from, Part(q).to, q.wanted)
    /\ Part(q).from \in Nat /\ Part(q).from >= q.from /\ Part(q).to \in Nat
    /\ q.to # Latest => Part(q).to \in 1 .. q.to
    /\ \A b \in q.from .. Tip : \A k \in DOMAIN blocks[b] :
          /\ q.to # Latest => b <= q.to
          /\ IsRead(x, b) /\ blocks[b][k] \in q.wanted
          => IsRead(q, b) \/ LogAt(b, k) \in ToSet(x.events)

\* ReadPage does that.
LEMMA PageRead ==
  ASSUME PagingInv, NEW c \in Callers, ReadPage(c), NEW q, q = query[c]
  PROVE  \E x \in Queries :
            /\ query' = [query EXCEPT ![c] = x] /\ UNCHANGED <<blocks, lastBlockNumber>>
            /\ AfterPage(q, x)
<1> PICK logs : logs = Logs(Part(q).from, Part(q).to, q.wanted)
  OBVIOUS
<1> PICK n : n = PageCount(q)
  OBVIOUS
<1> DEFINE x == [q EXCEPT !.events = @ \o logs, !.attempts = 0, !.next = @ + 1,
                          !.phase = IF q.next = n THEN "found" ELSE "pages"]
<1>1. q \in Queries /\ q.phase = "pages" /\ QueryInOrder(q) /\ blocks \in Seq(Seq(Events))
      /\ Tip \in Nat /\ UNCHANGED <<blocks, lastBlockNumber>>
  BY DEF PagingInv, ReadPage, Tip
<1>2. Paging(q)
  BY <1>1 DEF QueryInOrder, Paging
<1>3. /\ q.from \in Nat \ {0} /\ q.to \in Nat /\ q.next \in Nat /\ q.events \in Seq(LogSet)
      /\ q.pages \in Nat /\ q.wanted \subseteq Events
  BY <1>1, <1>2 DEF Queries, Paging
<1>4. /\ Len(SplitRange(q.from, q.to, q.pages)) = n
      /\ Part(q).from = PageStart(q) /\ Part(q).from \in Nat \ {0} /\ Part(q).from >= q.from
      /\ Part(q).to \in Nat
      /\ q.pages = 1 => Part(q).to = q.to
      /\ q.to # Latest => Part(q).to \in 1 .. q.to
      /\ q.to # Latest /\ q.next = n => Part(q).to = q.to
      /\ q.next # n =>
            /\ q.next + 1 \in 1 .. n
            /\ \A y : y = q.next + 1 => q.from + (y - 1) * PageSize(q) <= Part(q).to + 1
  BY <1>2, PageBounds
<1>5. logs \in Seq(LogSet) /\ ToSet(logs) = LogsInRange(Part(q).from, Part(q).to, q.wanted)
  BY <1>1, <1>4, LogsAreThere
<1>6. q.events \o logs \in Seq(LogSet) /\ ToSet(q.events \o logs) = ToSet(q.events) \cup ToSet(logs)
  BY <1>3, <1>5, Concatenated
<1>7. query' = [query EXCEPT ![c] = x]
  BY <1>4 DEF ReadPage
<1>8. /\ x \in Queries /\ x.events = q.events \o logs
      /\ x.from = q.from /\ x.to = q.to /\ x.head = q.head /\ x.pages = q.pages
      /\ x.wanted = q.wanted /\ x.next = q.next + 1
      /\ x.phase = IF q.next = n THEN "found" ELSE "pages"
  <2>1. PICK events \in Seq(LogSet) : events = q.events \o logs
    BY <1>6
  <2>2. PICK phase \in {"pages", "found"} : phase = IF q.next = n THEN "found" ELSE "pages"
    OBVIOUS
  <2>5. PICK next \in Nat : next = q.next + 1
    BY <1>3
  <2>3. x = [q EXCEPT !.events = events, !.attempts = 0, !.next = next, !.phase = phase]
    BY <2>1, <2>2, <2>5
  <2> HIDE DEF x
  <2>4. /\ x \in Queries /\ x.events = events
        /\ x.from = q.from /\ x.to = q.to /\ x.head = q.head /\ x.pages = q.pages
        /\ x.wanted = q.wanted /\ x.next = next /\ x.phase = phase
    BY <1>1, <2>3 DEF Queries
  <2> QED BY <2>1, <2>2, <2>4, <2>5
<1> HIDE DEF x
<1>9. PageCount(x) = n /\ PageSize(x) = PageSize(q)
  BY <1>8 DEF PageCount, PageSize
<1>10. x.phase = "pages" => x.next \in 1 .. PageCount(x)
  BY <1>4, <1>8, <1>9
<1>11. ASSUME NEW b \in q.from .. Tip, NEW k \in DOMAIN blocks[b], q.to # Latest => b <= q.to,
              IsRead(x, b), blocks[b][k] \in q.wanted, ~IsRead(q, b)
       PROVE  LogAt(b, k) \in ToSet(x.events)
  <2>1. b \in Nat /\ b >= Part(q).from
    <3>1. PageStart(q) \in Nat /\ b \in Nat
      BY <1>1, <1>3, <1>4, <1>11
    <3> QED BY <1>1, <1>4, <1>11, <3>1 DEF IsRead
  <2>2. q.to # Latest => b <= Part(q).to
    <3> SUFFICES ASSUME q.to # Latest
                 PROVE  b <= Part(q).to
      OBVIOUS
    <3>1. CASE q.next = n
      BY <1>4, <1>11, <3>1
    <3>2. CASE q.next # n
      <4>1. x.phase = "pages" /\ b < PageStart(x)
        BY <1>8, <1>11, <3>2 DEF IsRead
      <4>2. q.pages # 1
        <5>1. q.pages = 1 => n = 1
          BY DEF PageCount
        <5> QED BY <1>2, <3>2, <5>1 DEF Paging
      <4>3. PageStart(x) = q.from + (x.next - 1) * PageSize(q)
        BY <1>8, <1>9, <4>2 DEF PageStart
      <4>4. PageStart(x) <= Part(q).to + 1
        BY <1>4, <1>8, <3>2, <4>3
      <4>5. PageSize(q) \in Nat
        <5>1. q.to + 1 - q.from \in Nat \ {0} /\ q.pages \in Nat \ {0}
          BY <1>2, <1>3 DEF Paging
        <5> QED BY <5>1, CeilingBounds DEF PageSize
      <4>6. PageStart(x) \in Int
        <5>1. (x.next - 1) * PageSize(q) \in Int
          BY <1>3, <1>8, <4>5
        <5> QED BY <1>3, <4>3, <5>1
      <4> QED BY <1>4, <2>1, <4>1, <4>4, <4>6
    <3> QED BY <3>1, <3>2
  <2>3. q.to = Latest => Part(q).to = Latest
    BY <1>2, <1>4 DEF Paging
  <2>4. b \in Part(q).from .. LastOf(Part(q).to)
    BY <1>1, <1>4, <1>11, <2>1, <2>2, <2>3 DEF LastOf
  <2>5. LogAt(b, k) \in LogsInRange(Part(q).from, Part(q).to, q.wanted)
    BY <1>11, <2>4, LogsOfRange
  <2> QED BY <1>5, <1>6, <1>8, <2>5
<1>12. x.phase \in {"pages", "found"}
  BY <1>8
<1>13. AfterPage(q, x)
  BY <1>1, <1>2, <1>4, <1>5, <1>6, <1>8, <1>10, <1>11, <1>12 DEF AfterPage
<1> QED BY <1>1, <1>7, <1>8, <1>13

\* ReadPage keeps the queries in order.
LEMMA ReadPageKeeps ==
  ASSUME PagingInv, NEW c \in Callers, ReadPage(c)
  PROVE  PagingInv'
<1> PICK q : q = query[c]
  OBVIOUS
<1>1. PICK x \in Queries :
            /\ query' = [query EXCEPT ![c] = x] /\ UNCHANGED <<blocks, lastBlockNumber>>
            /\ AfterPage(q, x)
  BY PageRead
<1> USE DEF AfterPage
<1>2. /\ q \in Queries /\ QueryInOrder(q) /\ blocks \in Seq(Seq(Events)) /\ Tip \in Nat
      /\ lastBlockNumber \in 0 .. Tip /\ DOMAIN blocks = 1 .. Tip
  BY DEF PagingInv, Tip
<1>3. Grown
  <2>1. lastBlockNumber' \in lastBlockNumber .. Tip
    BY <1>1, <1>2
  <2> QED BY <1>1, <2>1, SameIsGrown
<1>4. q.from \in Nat /\ q.to \in Nat /\ q.head \in Nat
  BY <1>2 DEF Queries
<1>5. ASSUME q.to # Latest
      PROVE  /\ q.from >= 1 /\ q.from <= q.to /\ q.head \in 1 .. Tip /\ q.head <= q.to
             /\ q.to <= lastBlockNumber \/ q.to = q.from
             /\ \A b \in q.from .. q.head : \A k \in DOMAIN blocks[b] : IsRead(q, b) => HasLog(q, b, k)
  BY <1>1, <1>2, <1>5 DEF QueryInOrder
<1>6. ASSUME q.to # Latest, NEW b \in q.from .. q.head, NEW k \in DOMAIN blocks[b], IsRead(x, b)
      PROVE  HasLog(x, b, k)
  <2> SUFFICES ASSUME blocks[b][k] \in q.wanted
               PROVE  LogAt(b, k) \in ToSet(x.events)
    BY <1>1 DEF HasLog
  <2>1. b \in q.from .. Tip /\ b <= q.to
    BY <1>2, <1>4, <1>5, <1>6
  <2>2. IsRead(q, b) => LogAt(b, k) \in ToSet(q.events)
    BY <1>5, <1>6 DEF HasLog
  <2> QED BY <1>1, <1>6, <2>1, <2>2
<1>7. ASSUME NEW log \in ToSet(x.events)
      PROVE  \E b \in DOMAIN blocks : \E k \in DOMAIN blocks[b] :
                  /\ log = LogAt(b, k) /\ blocks[b][k] \in q.wanted
                  /\ b >= q.from /\ (q.to # Latest => b <= q.to)
  <2>1. CASE log \in ToSet(q.events)
    BY <1>1, <1>2, <2>1 DEF QueryInOrder
  <2>2. CASE log \in LogsInRange(Part(q).from, Part(q).to, q.wanted)
    <3>1. PICK b \in Part(q).from .. LastOf(Part(q).to) : \E k \in DOMAIN blocks[b] :
              log = LogAt(b, k) /\ blocks[b][k] \in q.wanted
      BY <2>2, LogsOfRange
    <3>2. b \in Nat /\ b >= q.from /\ b <= Tip /\ (Part(q).to # Latest => b <= Part(q).to)
      BY <1>1, <1>2, <1>4, <3>1 DEF LastOf
    <3>3. q.from >= 1 /\ (q.to # Latest => b <= q.to)
      BY <1>1, <1>4, <3>2 DEF Paging, Latest
    <3>4. b \in DOMAIN blocks
      BY <1>2, <1>4, <3>2, <3>3
    <3> QED BY <3>1, <3>2, <3>3, <3>4
  <2> QED BY <1>1, <2>1, <2>2
<1>8. QueryInOrder(x)
  <2>1. /\ q.from >= 1
        /\ q.to = Latest <=> MaxPageSize = Unlimited
        /\ q.to = Latest => q.pages = 1
        /\ q.pages >= 1
    BY <1>1, <1>2 DEF QueryInOrder
  <2> QED BY <1>1, <1>5, <1>6, <1>7, <2>1 DEF QueryInOrder
<1>9. QueryInOrder(x)'
  BY <1>3, <1>8, QueryKept
<1> QED BY <1>1, <1>3, <1>9, PagingKept

\* A page that fails changes nothing of what is read, or has all of it read again.
AfterFailure(q, x) ==
    /\ q.phase = "pages" /\ x.phase \in {"pages", "failed"}
    /\ x.from = q.from /\ x.to = q.to /\ x.head = q.head /\ x.wanted = q.wanted
    /\ x.events = q.events
    /\ \A b : b >= q.from /\ b \in Nat /\ IsRead(x, b) => IsRead(q, b)

\* PageFails does that, also when the range is split again.
LEMMA PageFailsKeeps ==
  ASSUME PagingInv, NEW c \in Callers, NEW tooMany, PageFails(c, tooMany), NEW q, q = query[c]
  PROVE  /\ PagingInv'
         /\ \E x \in Queries : query' = [query EXCEPT ![c] = x] /\ AfterFailure(q, x)
<1>1. q \in Queries /\ QueryInOrder(q) /\ q.phase = "pages" /\ q.pages >= 1
      /\ UNCHANGED <<blocks, lastBlockNumber>>
  BY DEF PagingInv, QueryInOrder, PageFails
<1>2. Grown
  <2>1. lastBlockNumber' \in lastBlockNumber .. Tip
    BY <1>1 DEF PagingInv, Tip
  <2> QED BY <1>1, <2>1, SameIsGrown
<1>3. q.from \in Nat /\ q.to \in Nat /\ q.pages \in Nat \ {0} /\ q.attempts \in Nat
  BY <1>1 DEF Queries
<1>4. \E x \in Queries : query' = [query EXCEPT ![c] = x] /\ QueryInOrder(x) /\ AfterFailure(q, x)
  <2>1. CASE query' = [query EXCEPT ![c] = [q EXCEPT !.phase = "failed"]]
    <3> DEFINE x == [q EXCEPT !.phase = "failed"]
    <3>1. /\ x \in Queries /\ x.phase = "failed" /\ x.from = q.from /\ x.to = q.to
          /\ x.head = q.head /\ x.wanted = q.wanted /\ x.events = q.events
      BY <1>1 DEF Queries
    <3> HIDE DEF x
    <3>2. QueryInOrder(x) /\ AfterFailure(q, x)
      BY <1>1, <3>1, IdleInOrder DEF AfterFailure, IsRead
    <3> QED BY <2>1, <3>1, <3>2 DEF x
  <2>2. CASE query' = [query EXCEPT ![c] = [q EXCEPT !.attempts = @ + 1]]
    <3> PICK n \in Nat : n = q.attempts + 1
      BY <1>3
    <3> DEFINE x == [q EXCEPT !.attempts = n]
    <3>1. /\ x \in Queries /\ x.phase = "pages" /\ x.from = q.from /\ x.to = q.to
          /\ x.head = q.head /\ x.wanted = q.wanted /\ x.events = q.events
          /\ x.pages = q.pages /\ x.next = q.next
      BY <1>1 DEF Queries
    <3> HIDE DEF x
    <3>2. PageCount(x) = PageCount(q) /\ PageStart(x) = PageStart(q)
      BY <3>1 DEF PageCount, PageStart, PageSize
    <3>3. \A b : (IsRead(x, b) <=> IsRead(q, b)) /\ \A k : HasLog(x, b, k) <=> HasLog(q, b, k)
      BY <1>1, <3>1, <3>2 DEF IsRead, HasLog
    <3>4. QueryInOrder(x)
      BY <1>1, <3>1, <3>2, <3>3 DEF QueryInOrder
    <3>5. AfterFailure(q, x)
      BY <1>1, <3>1, <3>3 DEF AfterFailure
    <3> QED BY <2>2, <3>1, <3>4, <3>5 DEF x
  <2>3. CASE /\ q.to # Latest
             /\ query' = [query EXCEPT ![c] =
                             [q EXCEPT !.pages = 4 * @, !.next = 1, !.attempts = 0]]
    <3> PICK n \in Nat : n = 4 * q.pages
      BY <1>3
    <3> DEFINE x == [q EXCEPT !.pages = n, !.next = 1, !.attempts = 0]
    <3>1. /\ x \in Queries /\ x.phase = "pages" /\ x.from = q.from /\ x.to = q.to
          /\ x.head = q.head /\ x.wanted = q.wanted /\ x.events = q.events
          /\ x.pages = 4 * q.pages /\ x.next = 1
      BY <1>1, <1>3 DEF Queries
    <3> HIDE DEF x
    <3>2. q.to + 1 - q.from \in Nat \ {0} /\ x.pages \in Nat \ {0} /\ x.pages # 1
      BY <1>1, <1>3, <2>3, <3>1 DEF QueryInOrder
    <3>3. PageSize(x) \in Nat \ {0}
      BY <3>1, <3>2, CeilingBounds DEF PageSize
    <3>4. PageCount(x) \in Nat \ {0}
      BY <3>1, <3>2, <3>3, CeilingBounds DEF PageCount
    <3>5. PageStart(x) = q.from
      <4>1. PageStart(x) = q.from + (1 - 1) * PageSize(x)
        BY <3>1, <3>2 DEF PageStart
      <4>2. (1 - 1) * PageSize(x) = 0
        BY <3>3
      <4> QED BY <1>3, <4>1, <4>2
    <3>6. \A b \in Nat : b >= q.from => ~IsRead(x, b)
      BY <1>3, <3>1, <3>5 DEF IsRead
    <3>7. q.from >= 1 /\ q.head \in Nat
      BY <1>1 DEF QueryInOrder, Queries
    <3>8. \A b \in q.from .. q.head : ~IsRead(x, b)
      BY <1>3, <3>6, <3>7
    <3>9. QueryInOrder(x)
      BY <1>1, <2>3, <3>1, <3>2, <3>4, <3>8 DEF QueryInOrder
    <3>10. AfterFailure(q, x)
      BY <1>1, <3>1, <3>6 DEF AfterFailure
    <3> QED BY <2>3, <3>1, <3>9, <3>10 DEF x
  <2> QED BY <2>1, <2>2, <2>3 DEF PageFails
<1>5. PICK x \in Queries : query' = [query EXCEPT ![c] = x] /\ QueryInOrder(x) /\ AfterFailure(q, x)
  BY <1>4
<1>6. QueryInOrder(x)'
  BY <1>2, <1>5, QueryKept
<1> QED BY <1>2, <1>5, <1>6, PagingKept

\* The events of a query are taken, or it is given up.
LEMMA QueryDroppedKeeps ==
  ASSUME PagingInv, NEW c \in Callers, query' = [query EXCEPT ![c] = NoQuery],
         UNCHANGED <<blocks, lastBlockNumber>>
  PROVE  PagingInv'
<1>1. Grown
  <2>1. lastBlockNumber' \in lastBlockNumber .. Tip
    BY DEF PagingInv, Tip
  <2> QED BY <2>1, SameIsGrown
<1>2. QueryInOrder(NoQuery)'
  BY NoQueryType, IdleInOrder
<1>3. PICK x : x = NoQuery
  OBVIOUS
<1> QED BY <1>1, <1>2, NoQueryType, PagingKept

\* MineBlock keeps the queries in order.
LEMMA MineBlockKeeps ==
  ASSUME PagingInv, NEW e \in Seq(Events), MineBlock(e)
  PROVE  PagingInv' /\ Grown
<1>1. Grown
  BY MinedIsGrown DEF MineBlock
<1> QED BY <1>1, PagingSame DEF MineBlock

\* A query in order that has ended well has every event of its range.
LEMMA EveryEventIsThere == PagingInv => EveryEventReturned
<1> SUFFICES ASSUME PagingInv, NEW c \in Callers, NEW q, q = query[c],
                    q.phase = "found", q.to # Latest, NEW x,
                    x \in LogsInRange(q.from, IF q.head = 0 \/ q.to < q.head THEN q.to ELSE q.head,
                                      q.wanted)
             PROVE  x \in ToSet(q.events)
  BY DEF EveryEventReturned
<1>1. /\ q \in Queries /\ q.from >= 1 /\ q.from <= q.to /\ q.head \in 1 .. Tip /\ q.head <= q.to
      /\ \A b \in q.from .. q.head : \A k \in DOMAIN blocks[b] : HasLog(q, b, k)
  BY DEF PagingInv, QueryInOrder, IsRead
<1>2. Tip \in Nat /\ q.head \in Nat /\ q.to \in Nat /\ q.from \in Nat
  BY <1>1 DEF PagingInv, Tip, Queries
<1>3. x \in LogsInRange(q.from, q.head, q.wanted)
  BY <1>1, <1>2
<1>4. PICK b \in q.from .. LastOf(q.head) : \E k \in DOMAIN blocks[b] :
           x = LogAt(b, k) /\ blocks[b][k] \in q.wanted
  BY <1>3, LogsOfRange
<1>5. LastOf(q.head) = q.head
  BY <1>1, <1>2 DEF LastOf, Latest
<1> QED BY <1>1, <1>4, <1>5 DEF HasLog

-----------------------------------------------------------------------------
(* The calls stay in order                                                 *)

\* What is assumed of the constants.
LEMMA SessionConstants ==
  /\ Requests \subseteq Nat /\ BlocksForLookup \in Nat
  /\ \A e \in Events : e.id \in Requests /\ e.name \in {"relayed", "rejected"}
  BY ProviderSessionAssumption

\* Answers are equal when they say the same of the same.
LEMMA AnswersDiffer ==
  ASSUME NEW k1, NEW k2, NEW x1, NEW x2
  PROVE  Answer(k1, x1) = Answer(k2, x2) <=> k1 = k2 /\ x1 = x2
  BY DEF Answer

\* The elements of a sequence with one more at its end.
LEMMA ElementsAppended ==
  ASSUME NEW S, NEW s \in Seq(S), NEW a
  PROVE  Append(s, a) \in Seq(S \cup {a}) /\ ToSet(Append(s, a)) = ToSet(s) \cup {a}
<1>1. s \in Seq(S \cup {a}) /\ a \in S \cup {a}
  BY SeqMonotonic
<1>2. /\ Append(s, a) \in Seq(S \cup {a}) /\ Len(Append(s, a)) = Len(s) + 1
      /\ Append(s, a)[Len(s) + 1] = a
      /\ \A i \in 1 .. Len(s) : Append(s, a)[i] = s[i]
  BY <1>1
<1>3. DOMAIN s = 1 .. Len(s) /\ DOMAIN Append(s, a) = 1 .. Len(s) + 1 /\ Len(s) \in Nat
  BY <1>2
<1>4. DOMAIN Append(s, a) = DOMAIN s \cup {Len(s) + 1}
  BY <1>3
<1>5. ToSet(Append(s, a)) = {Append(s, a)[i] : i \in DOMAIN s} \cup {Append(s, a)[Len(s) + 1]}
  BY <1>4, Zenon DEF ToSet
<1>6. {Append(s, a)[i] : i \in DOMAIN s} = ToSet(s)
  BY <1>2, <1>3 DEF ToSet
<1> QED BY <1>2, <1>5, <1>6

\* Requests are numbered as the relays get them.
LEMMA RelayedType ==
  ASSUME CallsInOrder
  PROVE  /\ relayed \subseteq Nat \ {0} /\ IsFiniteSet(relayed) /\ Cardinality(relayed) \in Nat
         /\ relayed = 1 .. Cardinality(relayed)
<1>1. IsFiniteSet(relayed) /\ relayed = 1 .. Cardinality(relayed)
  BY DEF CallsInOrder
<1>2. Cardinality(relayed) \in Nat
  BY <1>1, FS_CardinalityType
<1> QED BY <1>1, <1>2

\* What an answer may say.
MaySay(c, a) ==
    \A r \in Nat \ {0} :
        /\ a = Answer("success", r) => /\ r = call[c].id /\ r \in relayed
                                       /\ r \in DOMAIN submittedRelayRequests => Proved(r)
        /\ a = Answer("failure", r) => r \notin told[c] /\ call[c].payload.method # "send"

\* At most one caller is answered, with what it may be told.
Appends(c, a) == answers' = [answers EXCEPT ![c] = Append(@, a)]
Talks(c) ==
    /\ AnswersTyped' /\ \A d \in Callers : d # c => answers'[d] = answers[d]
    /\ \A d \in Callers : \A r \in Nat \ {0} :
          /\ Says(d, "success", r)' =>
                \/ Says(d, "success", r)
                \/ /\ d = c /\ r = call[c].id /\ r \in relayed
                   /\ r \in DOMAIN submittedRelayRequests => Proved(r)
          /\ Says(d, "failure", r)' =>
                \/ Says(d, "failure", r)
                \/ d = c /\ r \notin told[c] /\ call[c].payload.method # "send"

\* A caller that is answered knows what it knew and the answer.
LEMMA AnswersAppended ==
  ASSUME AnswersTyped, NEW c \in Callers, NEW a, Appends(c, a)
  PROVE  /\ AnswersTyped'
         /\ \A d \in Callers : d # c => answers'[d] = answers[d]
         /\ \A d \in Callers : \A kind, r :
               Says(d, kind, r)' <=> Says(d, kind, r) \/ (d = c /\ a = Answer(kind, r))
<1>1. PICK S : answers \in [Callers -> Seq(S)]
  BY DEF AnswersTyped
<1>2. answers' = [d \in Callers |-> IF d = c THEN Append(answers[c], a) ELSE answers[d]]
  BY <1>1 DEF Appends
<1>3. \A d \in Callers : answers[d] \in Seq(S \cup {a})
  BY <1>1, SeqMonotonic
<1>4. /\ Append(answers[c], a) \in Seq(S \cup {a})
      /\ ToSet(Append(answers[c], a)) = ToSet(answers[c]) \cup {a}
  BY <1>1, ElementsAppended
<1>5. answers' \in [Callers -> Seq(S \cup {a})]
  BY <1>2, <1>3, <1>4
<1>6. ASSUME NEW d \in Callers, NEW kind, NEW r
      PROVE  Says(d, kind, r)' <=> Says(d, kind, r) \/ (d = c /\ a = Answer(kind, r))
  <2>1. CASE d = c
    <3>1. ToSet(answers[d])' = ToSet(answers[d]) \cup {a}
      BY <1>2, <1>4, <2>1
    <3> QED BY <2>1, <3>1, Zenon DEF Says
  <2>2. CASE d # c
    <3>1. answers'[d] = answers[d]
      BY <1>2, <2>2
    <3> QED BY <2>2, <3>1 DEF Says
  <2> QED BY <2>1, <2>2
<1> QED BY <1>2, <1>5, <1>6 DEF AnswersTyped

\* No answer is in order,
LEMMA SilentTalks ==
  ASSUME AnswersTyped, UNCHANGED answers, NEW c \in Callers
  PROVE  Talks(c)
<1>1. \A d \in Callers : \A kind, r : Says(d, kind, r)' <=> Says(d, kind, r)
  BY DEF Says
<1>2. AnswersTyped'
  BY DEF AnswersTyped
<1> QED BY <1>1, <1>2 DEF Talks

\* and so is one with what the call may be told.
LEMMA AnswerTalks ==
  ASSUME AnswersTyped, NEW c \in Callers, NEW a, Appends(c, a), MaySay(c, a)
  PROVE  Talks(c)
<1>1. /\ AnswersTyped'
      /\ \A d \in Callers : d # c => answers'[d] = answers[d]
      /\ \A d \in Callers : \A kind, r :
            Says(d, kind, r)' <=> Says(d, kind, r) \/ (d = c /\ a = Answer(kind, r))
  BY AnswersAppended
<1>2. ASSUME NEW d \in Callers, NEW r \in Nat \ {0}
      PROVE  /\ Says(d, "success", r)' =>
                   \/ Says(d, "success", r)
                   \/ /\ d = c /\ r = call[c].id /\ r \in relayed
                      /\ r \in DOMAIN submittedRelayRequests => Proved(r)
             /\ Says(d, "failure", r)' =>
                   \/ Says(d, "failure", r)
                   \/ d = c /\ r \notin told[c] /\ call[c].payload.method # "send"
  BY <1>1, Zenon DEF MaySay
<1> QED BY <1>1, <1>2 DEF Talks

\* A call that moves is still the same call.
LEMMA CallMoved ==
  ASSUME CallsInOrder, NEW c \in Callers, NEW w, call' = [call EXCEPT ![c].at = w]
  PROVE  /\ DOMAIN call' = Callers
         /\ \A d \in Callers : d # c => call'[d] = call[d]
         /\ \A d \in Callers : /\ call'[d].id = call[d].id /\ call'[d].payload = call[d].payload
                               /\ call'[d].block = call[d].block /\ call'[d].found = call[d].found
                               /\ DOMAIN call'[d] = DOMAIN call[d]
         /\ call'[c].at = w
<1>1. DOMAIN call = Callers /\ DOMAIN call[c] = {"at", "payload", "id", "block", "found"}
  BY DEF CallsInOrder
<1> QED BY <1>1

\* What depends on the chain and the submissions only stays as it is when they do.
LEMMA ChainSame ==
  ASSUME UNCHANGED <<blocks, lastBlockNumber, submittedRelayRequests>>
  PROVE  /\ \A r : Proved(r)' <=> Proved(r)
         /\ \A q, r : Finds(q, r)' <=> Finds(q, r)
         /\ Tip' = Tip
<1>1. \A b, k, r : Success(b, k, r)' <=> Success(b, k, r)
  BY DEF Success, IsNamed
<1>2. \A b, r : InSight(b, r)' <=> InSight(b, r)
  BY DEF InSight
<1>3. \A q, b : IsRead(q, b)' <=> IsRead(q, b)
  BY DEF IsRead, PageStart, PageSize
<1>4. \A q : ToSet(q.events)' = ToSet(q.events)
  OBVIOUS
<1>5. \A b, k : LogAt(b, k)' = LogAt(b, k)
  BY DEF LogAt
<1>6. \A r : Proved(r)' <=> Proved(r)
  BY <1>1, <1>2 DEF Proved
<1>7. \A q, r : Finds(q, r)' <=> Finds(q, r)
  BY <1>1, <1>3, <1>4, <1>5 DEF Finds
<1> QED BY <1>6, <1>7 DEF Tip

\* A call that is not a query, an answer on its way nor a request at a relay goes on.
Resting == {"over", "dropped", "node", "signer", "override", "fees", "relaying", "byTheHash", "key",
            "transaction"}

\* It does not disturb the session.
LEMMA MoveKeeps ==
  ASSUME SessionInv, PagingInv', NEW c \in Callers, NEW w \in Resting,
         w \in {"byTheHash", "transaction"} => call[c].payload.method # "send",
         w \in {"fees", "relaying"} => call[c].payload.method = "send",
         call' = [call EXCEPT ![c].at = w], Talks(c),
         \A d \in Callers : d # c => query'[d] = query[d],
         UNCHANGED <<blocks, lastBlockNumber, submittedRelayRequests, relayed, told>>
  PROVE  SessionInv'
<1> USE DEF SessionInv
<1>1. /\ DOMAIN call' = Callers
      /\ \A d \in Callers : d # c => call'[d] = call[d]
      /\ \A d \in Callers : /\ call'[d].id = call[d].id /\ call'[d].payload = call[d].payload
                            /\ call'[d].block = call[d].block /\ call'[d].found = call[d].found
                            /\ DOMAIN call'[d] = DOMAIN call[d]
      /\ call'[c].at = w
  BY CallMoved
<1>2. w \in Steps /\ w \notin {"idle", "atRelay", "lookup", "events", "receipt"}
  BY DEF Steps, Resting
<1>3. /\ \A r : Proved(r)' <=> Proved(r)
      /\ \A q, r : Finds(q, r)' <=> Finds(q, r)
      /\ Tip' = Tip
  BY ChainSame
<1>4. CallsInOrder'
  BY <1>1, <1>2 DEF CallsInOrder
<1>5. AtRelayInOrder'
  <2> SUFFICES ASSUME NEW d \in Callers, call'[d].at = "atRelay"
               PROVE  /\ call'[d].id \in relayed \ DOMAIN submittedRelayRequests
                      /\ call'[d].block \in 1 .. Tip
                      /\ \A b \in DOMAIN blocks : \A k \in DOMAIN blocks[b] :
                            blocks[b][k].id = call'[d].id => b >= call'[d].block
                      /\ \A e \in Callers : call'[e].id = call'[d].id => e = d
                      /\ \A e \in Callers : ~Says(e, "success", call[d].id)'
    BY <1>1, <1>3 DEF AtRelayInOrder
  <2>1. d # c /\ call[d].at = "atRelay"
    BY <1>1, <1>2
  <2>2. /\ call[d].id \in relayed \ DOMAIN submittedRelayRequests
        /\ call[d].block \in 1 .. Tip
        /\ \A b \in DOMAIN blocks : \A k \in DOMAIN blocks[b] :
              blocks[b][k].id = call[d].id => b >= call[d].block
        /\ \A e \in Callers : call[e].id = call[d].id => e = d
        /\ \A e \in Callers : ~Says(e, "success", call[d].id)
    BY <2>1 DEF AtRelayInOrder
  <2>3. call[d].id \in Nat \ {0}
    BY <2>2, RelayedType
  <2>4. \A e \in Callers : ~Says(e, "success", call[d].id)'
    BY <2>1, <2>2, <2>3 DEF Talks
  <2> QED BY <1>1, <2>2, <2>4
<1>6. SubmittedInOrder' /\ ExecutedInOrder'
  BY <1>3 DEF SubmittedInOrder, ExecutedInOrder
<1>7. LookUpsInOrder'
  BY <1>1, <1>2 DEF LookUpsInOrder, Wanted
<1>8. SuccessesInOrder'
  BY <1>3 DEF SuccessesInOrder, Talks
<1>9. FoundInOrder'
  BY <1>1, <1>2, <1>3 DEF FoundInOrder, Translated
<1>10. CallersInOrder'
  <2>1. \A d \in Callers : call'[d].at = "idle" => answers'[d] = <<>>
    BY <1>1, <1>2 DEF CallersInOrder, Talks
  <2>2. \A d \in Callers : call'[d].payload.method = "send" => \A r \in Nat \ {0} : ~Says(d, "failure", r)'
    BY <1>1 DEF CallersInOrder, Talks
  <2> QED BY <2>1, <2>2 DEF CallersInOrder
<1>11. ToldInOrder'
  <2> SUFFICES ASSUME NEW d \in Callers, NEW r \in told[d]
               PROVE  /\ r \in DOMAIN submittedRelayRequests /\ Proved(r)'
                      /\ ~Says(d, "failure", r)'
                      /\ call'[d].id = r /\ call'[d].at = "events" => Finds(query[d], r)'
                      /\ call'[d].id = r /\ call'[d].at = "receipt" => Translated(call'[d].found) = "success"
    BY DEF ToldInOrder, Translated
  <2>1. /\ r \in DOMAIN submittedRelayRequests /\ Proved(r) /\ ~Says(d, "failure", r)
        /\ call[d].id = r /\ call[d].at = "events" => Finds(query[d], r)
        /\ call[d].id = r /\ call[d].at = "receipt" => Translated(call[d].found) = "success"
    BY DEF ToldInOrder
  <2>2. r \in Nat \ {0}
    BY <2>1, RelayedType DEF SubmittedInOrder
  <2>3. ~Says(d, "failure", r)'
    BY <2>1, <2>2 DEF Talks
  <2>4. CASE d = c
    BY <1>1, <1>2, <1>3, <2>1, <2>3, <2>4
  <2>5. CASE d # c
    <3>1. call'[d] = call[d] /\ query'[d] = query[d]
      BY <1>1, <2>5
    <3>2. Finds(query[d], r) => Finds(query[d], r)'
      BY <1>3, <3>1
    <3> QED BY <1>3, <2>1, <2>3, <3>1, <3>2
  <2> QED BY <2>4, <2>5
<1> QED BY <1>4, <1>5, <1>6, <1>7, <1>8, <1>9, <1>10, <1>11 DEF Talks

\* Everything but the calls and their answers stays; the query of the caller may end.
Stays(c) ==
    /\ PagingInv' /\ \A d \in Callers : d # c => query'[d] = query[d]
    /\ UNCHANGED <<blocks, lastBlockNumber, submittedRelayRequests, relayed, told>>

\* Everything else stays when a step leaves it alone,
LEMMA UnchangedStays ==
  ASSUME SessionInv, NEW c,
         UNCHANGED <<asks, setupVars, pagingVars, submittedRelayRequests, relayed, told>>
  PROVE  Stays(c)
<1>1. PagingInv'
  BY PagingStutters DEF SessionInv
<1> QED BY <1>1 DEF Stays, pagingVars

\* and when the query of the caller ends.
LEMMA DroppedStays ==
  ASSUME SessionInv, NEW c \in Callers, query' = [query EXCEPT ![c] = NoQuery],
         UNCHANGED <<asks, setupVars, blocks, lastBlockNumber, submittedRelayRequests, relayed, told>>
  PROVE  Stays(c)
<1>1. PagingInv'
  BY QueryDroppedKeeps DEF SessionInv
<1> QED BY <1>1 DEF Stays, SessionInv, PagingInv

\* An answer a call may be given keeps the session in order,
LEMMA AnswersKeep ==
  ASSUME SessionInv, NEW c \in Callers, NEW a, Answers(c, a), MaySay(c, a), Stays(c)
  PROVE  SessionInv'
<1>1. Talks(c)
  BY AnswerTalks DEF SessionInv, Answers, Appends
<1> QED BY <1>1, MoveKeeps DEF Answers, Stays, Resting

\* and so does an await.
LEMMA GoesKeep ==
  ASSUME SessionInv, NEW c \in Callers, NEW w \in Resting, GoesTo(c, w), Stays(c),
         w \in {"byTheHash", "transaction"} => call[c].payload.method # "send",
         w \in {"fees", "relaying"} => call[c].payload.method = "send"
  PROVE  SessionInv'
<1>1. Talks(c)
  BY SilentTalks DEF SessionInv, GoesTo
<1> QED BY <1>1, MoveKeeps DEF GoesTo, Stays

\* What is neither a success nor a failure may always be said.
LEMMA MaySayOthers ==
  ASSUME NEW c
  PROVE  /\ MaySay(c, Error)
         /\ \A kind, x : kind \notin {"success", "failure"} => MaySay(c, Answer(kind, x))
<1>1. Error = Answer("error", Null)
  BY DEF Error, Answer
<1>2. ASSUME NEW kind, NEW x, kind \notin {"success", "failure"}
      PROVE  MaySay(c, Answer(kind, x))
  <2>1. \A r : Answer("success", r) # Answer(kind, x) /\ Answer("failure", r) # Answer(kind, x)
    BY <1>2, AnswersDiffer
  <2> QED BY <2>1 DEF MaySay
<1> QED BY <1>1, <1>2

\* What is thrown is an error or is lost.
LEMMA ThrowsKeep ==
  ASSUME SessionInv, NEW c \in Callers, Throws(c), Stays(c)
  PROVE  SessionInv'
<1>1. CASE Answers(c, Error)
  <2>1. MaySay(c, Error)
    BY MaySayOthers
  <2> QED BY <1>1, <2>1, AnswersKeep
<1>2. CASE GoesTo(c, "dropped")
  BY <1>2, GoesKeep DEF Resting
<1> QED BY <1>1, <1>2 DEF Throws

\* The handlers that say nothing of a request of this session.
LEMMA QuietKeeps ==
  ASSUME SessionInv, NEW c \in Callers, NEW ok \in BOOLEAN,
         \/ NodeAnswers(c, ok) \/ FeesRead(c, ok) \/ SignTransaction(c) \/ RelayingFails(c)
         \/ TransactionRead(c, ok) \/ FoundUnreadable(c) \/ LookUpFails(c) \/ HashReceiptRead(c, ok)
  PROVE  SessionInv'
<1>1. MaySay(c, Error) /\ \A kind, x : kind \notin {"success", "failure"} => MaySay(c, Answer(kind, x))
  BY MaySayOthers
<1>2. CASE NodeAnswers(c, ok)
  <2>1. Stays(c)
    BY <1>2, UnchangedStays DEF NodeAnswers
  <2>2. \E a : Answers(c, a) /\ MaySay(c, a)
    BY <1>1, <1>2 DEF NodeAnswers
  <2> QED BY <2>1, <2>2, AnswersKeep
<1>3. CASE FeesRead(c, ok)
  <2>1. Stays(c)
    BY <1>3, UnchangedStays DEF FeesRead
  <2>2. call[c].payload.method = "send"
    BY <1>3 DEF FeesRead, SessionInv, CallsInOrder
  <2>3. GoesTo(c, "relaying") \/ Answers(c, Error)
    BY <1>3 DEF FeesRead
  <2> QED BY <1>1, <2>1, <2>2, <2>3, AnswersKeep, GoesKeep DEF Resting
<1>4. CASE SignTransaction(c)
  <2>1. Stays(c)
    BY <1>4, UnchangedStays DEF SignTransaction
  <2>2. GoesTo(c, "dropped") \/ Answers(c, Answer("signature", Null))
    BY <1>4 DEF SignTransaction
  <2>3. MaySay(c, Answer("signature", Null))
    BY <1>1
  <2> QED BY <2>1, <2>2, <2>3, AnswersKeep, GoesKeep DEF Resting
<1>5. CASE RelayingFails(c)
  <2>1. Stays(c) /\ Answers(c, Error)
    BY <1>5, UnchangedStays DEF RelayingFails
  <2> QED BY <1>1, <2>1, AnswersKeep
<1>6. CASE TransactionRead(c, ok)
  <2>1. Stays(c)
    BY <1>6, UnchangedStays DEF TransactionRead
  <2>2. \E a : Answers(c, a) /\ MaySay(c, a)
    BY <1>1, <1>6 DEF TransactionRead
  <2> QED BY <2>1, <2>2, AnswersKeep
<1>7. CASE FoundUnreadable(c)
  <2>1. Stays(c) /\ Throws(c)
    BY <1>7, UnchangedStays DEF FoundUnreadable
  <2> QED BY <2>1, ThrowsKeep
<1>8. CASE LookUpFails(c)
  <2>1. Stays(c) /\ Throws(c)
    BY <1>8, DroppedStays DEF LookUpFails
  <2> QED BY <2>1, ThrowsKeep
<1>9. CASE HashReceiptRead(c, ok)
  <2>1. Stays(c)
    BY <1>9, UnchangedStays DEF HashReceiptRead
  <2>2. PICK kind : Answers(c, Answer(kind, 0))
    BY <1>9 DEF HashReceiptRead
  <2>3. MaySay(c, Answer(kind, 0))
    BY AnswersDiffer DEF MaySay
  <2> QED BY <2>1, <2>2, <2>3, AnswersKeep
<1> QED BY <1>2, <1>3, <1>4, <1>5, <1>6, <1>7, <1>8, <1>9

\* ReceiptRead: the status is that of the event which was found.
LEMMA ReceiptReadKeeps ==
  ASSUME SessionInv, NEW c \in Callers, NEW has \in BOOLEAN, ReceiptRead(c, has)
  PROVE  SessionInv'
<1>1. Stays(c)
  BY UnchangedStays DEF ReceiptRead
<1>2. /\ call[c].at = "receipt" /\ call[c].payload.method = "receipt" /\ call[c].id \in relayed
  BY DEF ReceiptRead, SessionInv, CallsInOrder
<1>3. CASE has
  <2>1. Answers(c, Answer(Translated(call[c].found), call[c].id))
    BY <1>3 DEF ReceiptRead
  <2>2. ASSUME NEW r \in Nat \ {0}, Answer(Translated(call[c].found), call[c].id) = Answer("success", r)
        PROVE  /\ r = call[c].id /\ r \in relayed
               /\ r \in DOMAIN submittedRelayRequests => Proved(r)
    <3>1. Translated(call[c].found) = "success" /\ call[c].id = r
      BY <2>2, AnswersDiffer
    <3> QED BY <1>2, <3>1 DEF SessionInv, FoundInOrder
  <2>3. ASSUME NEW r \in Nat \ {0}, Answer(Translated(call[c].found), call[c].id) = Answer("failure", r)
        PROVE  r \notin told[c] /\ call[c].payload.method # "send"
    <3>1. Translated(call[c].found) = "failure" /\ call[c].id = r
      BY <2>3, AnswersDiffer
    <3> QED BY <1>2, <3>1 DEF SessionInv, ToldInOrder
  <2>4. MaySay(c, Answer(Translated(call[c].found), call[c].id))
    BY <2>2, <2>3 DEF MaySay
  <2> QED BY <1>1, <2>1, <2>4, AnswersKeep
<1>4. CASE ~has
  <2>1. Answers(c, Answer("null", call[c].id))
    BY <1>4 DEF ReceiptRead
  <2>2. MaySay(c, Answer("null", call[c].id))
    BY MaySayOthers
  <2> QED BY <1>1, <2>1, <2>2, AnswersKeep
<1> QED BY <1>3, <1>4

\* The dapp makes a call: about a request nobody knows of it can say nothing.
Begins(c, p, where) ==
    /\ DOMAIN call' = Callers /\ \A d \in Callers : d # c => call'[d] = call[d]
    /\ call'[c].id = p.id /\ call'[c].payload = p
    /\ DOMAIN call'[c] = {"at", "payload", "id", "block", "found"}
    /\ call'[c].at = IF where \in {"refused", "signed"} THEN "over" ELSE where

\* Send makes a call begin.
LEMMA SendBegins ==
  ASSUME SessionInv, NEW c \in Callers, NEW p, Send(c, p)
  PROVE  /\ Begins(c, p, Dispatch(p)) /\ AnswersTyped'
         /\ \A d \in Callers : d # c => answers'[d] = answers[d]
         /\ \A d \in Callers : \A r \in Nat \ {0} :
               /\ Says(d, "success", r)' <=> Says(d, "success", r)
               /\ Says(d, "failure", r)' <=> Says(d, "failure", r)
<1> PICK where : where = Dispatch(p)
  OBVIOUS
<1> DEFINE started == [call EXCEPT ![c].payload = p, ![c].id = p.id, ![c].at = where]
<1>1. DOMAIN call = Callers /\ DOMAIN call[c] = {"at", "payload", "id", "block", "found"}
  BY DEF SessionInv, CallsInOrder
<1>2. /\ DOMAIN started = Callers /\ \A d \in Callers : d # c => started[d] = call[d]
      /\ started[c].id = p.id /\ started[c].payload = p /\ started[c].at = where
      /\ DOMAIN started[c] = {"at", "payload", "id", "block", "found"}
  BY <1>1
<1>3. CASE where \in {"refused", "signed"}
  <2> PICK a : a = IF where = "refused" THEN Error ELSE Answer("signature", Null)
    OBVIOUS
  <2>1. answers' = [answers EXCEPT ![c] = Append(@, a)] /\ call' = [started EXCEPT ![c].at = "over"]
    BY <1>3 DEF Send
  <2> HIDE DEF started
  <2>2. Begins(c, p, where)
    BY <1>2, <1>3, <2>1 DEF Begins
  <2>3. a = Answer("error", Null) \/ a = Answer("signature", Null)
    BY DEF Error, Answer
  <2>4. \A r : a # Answer("success", r) /\ a # Answer("failure", r)
    BY <2>3, AnswersDiffer
  <2>5. /\ AnswersTyped'
        /\ \A d \in Callers : d # c => answers'[d] = answers[d]
        /\ \A d \in Callers : \A kind, r :
              Says(d, kind, r)' <=> Says(d, kind, r) \/ (d = c /\ a = Answer(kind, r))
    <3>1. AnswersTyped /\ Appends(c, a)
      BY <2>1 DEF SessionInv, Appends
    <3> QED BY <3>1, AnswersAppended
  <2> QED BY <2>2, <2>4, <2>5
<1>4. CASE where \notin {"refused", "signed"}
  <2>1. call' = started /\ answers' = answers
    BY <1>4 DEF Send
  <2>2. Begins(c, p, where)
    BY <1>2, <1>4, <2>1 DEF Begins
  <2>3. \A d \in Callers : \A kind, r : Says(d, kind, r)' <=> Says(d, kind, r)
    BY <2>1 DEF Says
  <2>4. AnswersTyped'
    BY <2>1 DEF SessionInv, AnswersTyped
  <2> QED BY <2>1, <2>2, <2>3, <2>4
<1> QED BY <1>3, <1>4

\* Where a call goes by its payload.
LEMMA DispatchTypes ==
  ASSUME NEW p
  PROVE  /\ Dispatch(p) \in (Steps \ {"idle", "over", "dropped", "atRelay", "events", "receipt",
                                      "transaction"}) \cup {"refused", "signed"}
         /\ Dispatch(p) \in {"fees", "relaying"} => p.method = "send"
         /\ Dispatch(p) \in {"byTheHash", "lookup"} => p.method # "send"
         /\ Dispatch(p) = "lookup" /\ p.method = "receipt" => p.id \in Requests
  BY DEF Dispatch, SendRoute, ReceiptRoute, AccountsRoute, SignRoute, SignTransactionRoute,
         SignTypedRoute, Steps

\* Send keeps the session in order: what the call is told succeeded is in the chain already.
LEMMA SendKeeps ==
  ASSUME SessionInv, NEW c \in Callers, NEW p, Send(c, p)
  PROVE  SessionInv'
<1> USE DEF SessionInv
<1> PICK where : where = Dispatch(p)
  OBVIOUS
<1>1. /\ Begins(c, p, where) /\ AnswersTyped'
      /\ \A d \in Callers : d # c => answers'[d] = answers[d]
      /\ \A d \in Callers : \A r \in Nat \ {0} :
            /\ Says(d, "success", r)' <=> Says(d, "success", r)
            /\ Says(d, "failure", r)' <=> Says(d, "failure", r)
  BY SendBegins
<1>2. /\ where \in (Steps \ {"idle", "over", "dropped", "atRelay", "events", "receipt",
                             "transaction"}) \cup {"refused", "signed"}
      /\ where \in {"fees", "relaying"} => p.method = "send"
      /\ where \in {"byTheHash", "lookup"} => p.method # "send"
      /\ where = "lookup" /\ p.method = "receipt" => p.id \in Requests
  BY DispatchTypes
<1>3. /\ call'[c].at \in Steps /\ call'[c].at \notin {"idle", "atRelay", "events", "receipt", "transaction"}
      /\ call'[c].at \in {"fees", "relaying"} => p.method = "send"
      /\ call'[c].at \in {"byTheHash", "lookup"} => p.method # "send"
      /\ call'[c].at = "lookup" /\ p.method = "receipt" => p.id \in Requests
  BY <1>1, <1>2 DEF Begins, Steps
<1>4. /\ MayCall(c, p) /\ (p.id \in Requests => p.id \in Known)
      /\ told' = [told EXCEPT ![c] = Succeeded \cap DOMAIN submittedRelayRequests]
      /\ UNCHANGED <<asks, setupVars, pagingVars, submittedRelayRequests, relayed>>
  BY DEF Send
<1>5. UNCHANGED <<blocks, lastBlockNumber, query, submittedRelayRequests, relayed>>
  BY <1>4 DEF pagingVars
<1>6. PagingInv'
  BY <1>4, PagingStutters
<1>7. /\ \A r : Proved(r)' <=> Proved(r)
      /\ \A q, r : Finds(q, r)' <=> Finds(q, r)
      /\ Tip' = Tip
  BY <1>5, ChainSame
<1>8. p.id \in Requests => p.id \in relayed
  BY <1>4 DEF Known, SubmittedInOrder
<1>9. \A d \in Callers : call[d].at = "atRelay" => p.id # call[d].id /\ d # c
  <2> SUFFICES ASSUME NEW d \in Callers, call[d].at = "atRelay"
               PROVE  p.id # call[d].id /\ d # c
    OBVIOUS
  <2>1. call[d].id \in relayed \ DOMAIN submittedRelayRequests /\ call[d].payload.method = "send"
    BY DEF AtRelayInOrder, CallsInOrder
  <2>2. call[d].id \in Requests /\ call[d].id \notin Known
    BY <2>1 DEF CallsInOrder, Known
  <2>3. d # c
    BY <1>4 DEF MayCall
  <2> QED BY <1>4, <2>2, <2>3
<1>10. CallsInOrder'
  BY <1>1, <1>3, <1>5, <1>8 DEF CallsInOrder, Begins
<1>11. AtRelayInOrder'
  <2> SUFFICES ASSUME NEW d \in Callers, call'[d].at = "atRelay"
               PROVE  /\ call'[d].id \in relayed \ DOMAIN submittedRelayRequests
                      /\ call'[d].block \in 1 .. Tip
                      /\ \A b \in DOMAIN blocks : \A k \in DOMAIN blocks[b] :
                            blocks[b][k].id = call'[d].id => b >= call'[d].block
                      /\ \A e \in Callers : call'[e].id = call'[d].id => e = d
                      /\ \A e \in Callers : ~Says(e, "success", call[d].id)'
    BY <1>5, <1>7 DEF AtRelayInOrder
  <2>1. d # c /\ call[d].at = "atRelay" /\ call'[d] = call[d]
    BY <1>1, <1>3 DEF Begins
  <2>2. /\ call[d].id \in relayed \ DOMAIN submittedRelayRequests
        /\ call[d].block \in 1 .. Tip
        /\ \A b \in DOMAIN blocks : \A k \in DOMAIN blocks[b] :
              blocks[b][k].id = call[d].id => b >= call[d].block
        /\ \A e \in Callers : call[e].id = call[d].id => e = d
        /\ \A e \in Callers : ~Says(e, "success", call[d].id)
    BY <2>1 DEF AtRelayInOrder
  <2>3. call[d].id \in Nat \ {0}
    BY <2>2, RelayedType
  <2>4. \A e \in Callers : ~Says(e, "success", call[d].id)'
    BY <1>1, <2>1, <2>2, <2>3
  <2>5. \A e \in Callers : call'[e].id = call[d].id => e = d
    BY <1>1, <1>9, <2>1, <2>2 DEF Begins
  <2> QED BY <2>1, <2>2, <2>4, <2>5
<1>12. SubmittedInOrder' /\ ExecutedInOrder'
  BY <1>5, <1>7 DEF SubmittedInOrder, ExecutedInOrder
<1>13. LookUpsInOrder'
  BY <1>1, <1>3, <1>5 DEF LookUpsInOrder, Wanted, Begins
<1>14. SuccessesInOrder'
  BY <1>1, <1>5, <1>7 DEF SuccessesInOrder
<1>15. FoundInOrder'
  BY <1>1, <1>3, <1>5, <1>7 DEF FoundInOrder, Translated, Begins
<1>16. p.method = "send" => answers[c] = <<>>
  BY <1>4 DEF MayCall, CallersInOrder
<1>17. \A r \in Nat \ {0} : ~Says(c, "failure", r)
  <2>1. answers[c] = <<>> => \A r : ~Says(c, "failure", r)
    BY DEF Says, ToSet
  <2> QED BY <1>4, <2>1 DEF MayCall, CallersInOrder
<1>18. CallersInOrder'
  <2>1. \A d \in Callers : call'[d].at = "idle" => answers'[d] = <<>>
    BY <1>1, <1>3 DEF CallersInOrder, Begins
  <2>2. ASSUME NEW d \in Callers, call'[d].payload.method = "send", NEW r \in Nat \ {0}
        PROVE  ~Says(d, "failure", r)'
    <3>1. CASE d = c
      BY <1>1, <1>17, <3>1
    <3>2. CASE d # c
      <4>1. call'[d] = call[d]
        BY <1>1, <3>2 DEF Begins
      <4> QED BY <1>1, <2>2, <4>1 DEF CallersInOrder
    <3> QED BY <3>1, <3>2
  <2> QED BY <2>1, <2>2 DEF CallersInOrder
<1>19. ToldInOrder'
  <2>1. /\ told \in [Callers -> SUBSET Requests]
        /\ told'[c] = Succeeded \cap DOMAIN submittedRelayRequests
        /\ \A d \in Callers : d # c => told'[d] = told[d]
        /\ told' \in [Callers -> SUBSET Requests]
    BY <1>4 DEF ToldInOrder, Succeeded
  <2> SUFFICES ASSUME NEW d \in Callers, NEW r \in told'[d]
               PROVE  /\ r \in DOMAIN submittedRelayRequests /\ Proved(r)'
                      /\ ~Says(d, "failure", r)'
                      /\ call'[d].id = r /\ call'[d].at = "events" => Finds(query[d], r)'
                      /\ call'[d].id = r /\ call'[d].at = "receipt" => Translated(call'[d].found) = "success"
    BY <1>5, <2>1 DEF ToldInOrder, Translated
  <2>2. CASE d = c
    <3>1. r \in Requests /\ r \in DOMAIN submittedRelayRequests /\ \E e \in Callers : Says(e, "success", r)
      BY <2>1, <2>2 DEF Succeeded, Says
    <3>2. r \in Nat \ {0}
      BY <3>1, RelayedType DEF SubmittedInOrder
    <3>3. Proved(r)
      BY <3>1, <3>2 DEF SuccessesInOrder
    <3> QED BY <1>1, <1>3, <1>7, <1>17, <2>2, <3>1, <3>2, <3>3
  <2>3. CASE d # c
    <3>1. call'[d] = call[d] /\ query' = query /\ r \in told[d]
      BY <1>1, <1>5, <2>1, <2>3 DEF Begins
    <3>2. /\ r \in DOMAIN submittedRelayRequests /\ Proved(r) /\ ~Says(d, "failure", r)
          /\ call[d].id = r /\ call[d].at = "events" => Finds(query[d], r)
          /\ call[d].id = r /\ call[d].at = "receipt" => Translated(call[d].found) = "success"
      BY <3>1 DEF ToldInOrder
    <3>3. r \in Nat \ {0}
      BY <3>2, RelayedType DEF SubmittedInOrder
    <3>4. Finds(query[d], r) => Finds(query[d], r)'
      BY <1>7, <3>1
    <3> QED BY <1>1, <1>7, <3>1, <3>2, <3>3, <3>4
  <2> QED BY <2>2, <2>3
<1> QED BY <1>1, <1>6, <1>10, <1>11, <1>12, <1>13, <1>14, <1>15, <1>18, <1>19

\* AskRelay: the number of the request is new to the chain and to every call.
LEMMA AskRelayKeeps ==
  ASSUME SessionInv, NEW c \in Callers, NEW b0 \in 1 .. Tip, AskRelay(c, b0)
  PROVE  SessionInv'
<1> USE DEF SessionInv
<1> PICK n : n = Cardinality(relayed) + 1
  OBVIOUS
<1>1. /\ call[c].at = "relaying" /\ n \in Requests /\ relayed' = relayed \cup {n}
      /\ call' = [call EXCEPT ![c].at = "atRelay", ![c].id = n, ![c].block = b0]
      /\ UNCHANGED <<blocks, lastBlockNumber, query, submittedRelayRequests, answers, told>>
  BY DEF AskRelay, pagingVars
<1>2. /\ relayed \subseteq Nat \ {0} /\ IsFiniteSet(relayed) /\ relayed = 1 .. Cardinality(relayed)
      /\ n \in Nat \ {0} /\ n \notin relayed
  BY RelayedType
<1>3. /\ DOMAIN call' = Callers /\ \A d \in Callers : d # c => call'[d] = call[d]
      /\ call'[c].at = "atRelay" /\ call'[c].id = n /\ call'[c].block = b0
      /\ call'[c].payload = call[c].payload
      /\ DOMAIN call'[c] = {"at", "payload", "id", "block", "found"}
  <2>1. DOMAIN call = Callers /\ DOMAIN call[c] = {"at", "payload", "id", "block", "found"}
    BY DEF CallsInOrder
  <2> QED BY <1>1, <2>1
<1>4. /\ \A r : Proved(r)' <=> Proved(r)
      /\ \A q, r : Finds(q, r)' <=> Finds(q, r)
      /\ Tip' = Tip
  BY <1>1, ChainSame
<1>5. (\A d \in Callers : \A kind, r : Says(d, kind, r)' <=> Says(d, kind, r)) /\ AnswersTyped'
  BY <1>1 DEF Says, AnswersTyped
<1>6. PagingInv'
  BY <1>1, PagingStutters DEF pagingVars
<1>7. CallsInOrder'
  <2>1. relayed' \subseteq Requests
    BY <1>1 DEF CallsInOrder
  <2>2. IsFiniteSet(relayed') /\ Cardinality(relayed') = n
    BY <1>1, <1>2, FS_AddElement
  <2>3. relayed' = 1 .. n
    BY <1>1, <1>2, RelayedType
  <2>4. call[c].payload.method = "send"
    BY <1>1 DEF CallsInOrder
  <2>5. call'[c].at \in Steps
    BY <1>3 DEF Steps
  <2> QED BY <1>1, <1>3, <2>1, <2>2, <2>3, <2>4, <2>5 DEF CallsInOrder
<1>8. \A b \in DOMAIN blocks : \A k \in DOMAIN blocks[b] : blocks[b][k].id # n
  BY <1>2 DEF ExecutedInOrder
<1>9. \A d \in Callers : call[d].id # n
  BY <1>1, <1>2 DEF CallsInOrder
<1>10. AtRelayInOrder'
  <2>1. n \in relayed' \ DOMAIN submittedRelayRequests
    BY <1>1, <1>2 DEF SubmittedInOrder
  <2>2. \A e \in Callers : ~Says(e, "success", n)
    BY <1>2 DEF SuccessesInOrder
  <2> SUFFICES ASSUME NEW d \in Callers, call'[d].at = "atRelay"
               PROVE  /\ call'[d].id \in relayed' \ DOMAIN submittedRelayRequests
                      /\ call'[d].block \in 1 .. Tip
                      /\ \A b \in DOMAIN blocks : \A k \in DOMAIN blocks[b] :
                            blocks[b][k].id = call'[d].id => b >= call'[d].block
                      /\ \A e \in Callers : call'[e].id = call'[d].id => e = d
                      /\ \A e \in Callers : ~Says(e, "success", call[d].id)'
    BY <1>1, <1>4 DEF AtRelayInOrder
  <2>3. CASE d = c
    BY <1>3, <1>5, <1>8, <1>9, <2>1, <2>2, <2>3
  <2>4. CASE d # c
    <3>1. call'[d] = call[d]
      BY <1>3, <2>4
    <3>2. /\ call[d].id \in relayed \ DOMAIN submittedRelayRequests
          /\ call[d].block \in 1 .. Tip
          /\ \A b \in DOMAIN blocks : \A k \in DOMAIN blocks[b] :
                blocks[b][k].id = call[d].id => b >= call[d].block
          /\ \A e \in Callers : call[e].id = call[d].id => e = d
          /\ \A e \in Callers : ~Says(e, "success", call[d].id)
      BY <3>1 DEF AtRelayInOrder
    <3>3. \A e \in Callers : call'[e].id = call[d].id => e = d
      BY <1>3, <1>9, <3>2
    <3>4. \A e \in Callers : ~Says(e, "success", call[d].id)'
      BY <1>5, <3>1, <3>2
    <3>5. call'[d].id \in relayed' \ DOMAIN submittedRelayRequests
      <4>1. relayed \subseteq relayed'
        BY <1>1
      <4> QED BY <3>1, <3>2, <4>1
    <3>6. /\ call'[d].block \in 1 .. Tip
          /\ \A b \in DOMAIN blocks : \A k \in DOMAIN blocks[b] :
                blocks[b][k].id = call'[d].id => b >= call'[d].block
      BY <3>1, <3>2
    <3>7. \A e \in Callers : call'[e].id = call'[d].id => e = d
      BY <3>1, <3>3
    <3> QED BY <3>4, <3>5, <3>6, <3>7
  <2> QED BY <2>3, <2>4
<1>11. SubmittedInOrder' /\ ExecutedInOrder'
  BY <1>1, <1>4 DEF SubmittedInOrder, ExecutedInOrder
<1>12. LookUpsInOrder'
  BY <1>1, <1>3 DEF LookUpsInOrder, Wanted
<1>13. SuccessesInOrder'
  BY <1>1, <1>4, <1>5 DEF SuccessesInOrder
<1>14. FoundInOrder'
  BY <1>1, <1>3, <1>4 DEF FoundInOrder, Translated
<1>15. CallersInOrder'
  <2>1. \A d \in Callers : call'[d].at = "idle" => answers'[d] = <<>>
    BY <1>1, <1>3 DEF CallersInOrder
  <2>2. \A d \in Callers : call'[d].payload = call[d].payload
    BY <1>3
  <2> QED BY <1>5, <2>1, <2>2 DEF CallersInOrder
<1>16. ToldInOrder'
  <2> SUFFICES ASSUME NEW d \in Callers, NEW r \in told[d]
               PROVE  /\ r \in DOMAIN submittedRelayRequests /\ Proved(r)'
                      /\ ~Says(d, "failure", r)'
                      /\ call'[d].id = r /\ call'[d].at = "events" => Finds(query[d], r)'
                      /\ call'[d].id = r /\ call'[d].at = "receipt" => Translated(call'[d].found) = "success"
    BY <1>1 DEF ToldInOrder, Translated
  <2>1. /\ r \in DOMAIN submittedRelayRequests /\ Proved(r) /\ ~Says(d, "failure", r)
        /\ call[d].id = r /\ call[d].at = "events" => Finds(query[d], r)
        /\ call[d].id = r /\ call[d].at = "receipt" => Translated(call[d].found) = "success"
    BY DEF ToldInOrder
  <2>2. Finds(query[d], r) => Finds(query[d], r)'
    BY <1>1, <1>4
  <2> QED BY <1>3, <1>4, <1>5, <2>1, <2>2
<1> QED BY <1>5, <1>6, <1>7, <1>10, <1>11, <1>12, <1>13, <1>14, <1>15, <1>16

\* Fulfilled: the block that is cached is not above any event of the request.
LEMMA FulfilledKeeps ==
  ASSUME SessionInv, NEW c \in Callers, Fulfilled(c)
  PROVE  SessionInv'
<1> USE DEF SessionInv
<1> PICK n : n = call[c].id
  OBVIOUS
<1> PICK a : a = Answer("requestId", n)
  OBVIOUS
<1>1. /\ call[c].at = "atRelay" /\ answers' = [answers EXCEPT ![c] = Append(@, a)]
      /\ call' = [call EXCEPT ![c].at = "over"]
      /\ submittedRelayRequests' =
            [r \in DOMAIN submittedRelayRequests \cup {n} |->
                IF r = n THEN call[c].block ELSE submittedRelayRequests[r]]
      /\ UNCHANGED <<blocks, lastBlockNumber, query, relayed, told>>
  BY DEF Fulfilled, Answers, CacheSubmittedTransactionDetails, pagingVars
<1>2. /\ n \in relayed \ DOMAIN submittedRelayRequests /\ call[c].block \in 1 .. Tip
      /\ \A b \in DOMAIN blocks : \A k \in DOMAIN blocks[b] :
            blocks[b][k].id = n => b >= call[c].block
      /\ \A d \in Callers : call[d].id = n => d = c
      /\ \A d \in Callers : ~Says(d, "success", n)
  BY <1>1 DEF AtRelayInOrder
<1>3. n \in Nat \ {0}
  BY <1>2, RelayedType
<1>4. /\ DOMAIN call' = Callers
      /\ \A d \in Callers : d # c => call'[d] = call[d]
      /\ \A d \in Callers : /\ call'[d].id = call[d].id /\ call'[d].payload = call[d].payload
                            /\ call'[d].block = call[d].block /\ call'[d].found = call[d].found
                            /\ DOMAIN call'[d] = DOMAIN call[d]
      /\ call'[c].at = "over"
  BY <1>1, CallMoved
<1>5. /\ AnswersTyped' /\ \A d \in Callers : d # c => answers'[d] = answers[d]
      /\ \A d \in Callers : \A r :
            /\ Says(d, "success", r)' <=> Says(d, "success", r)
            /\ Says(d, "failure", r)' <=> Says(d, "failure", r)
  <2>1. AnswersTyped /\ Appends(c, a)
    BY <1>1 DEF Appends
  <2>2. \A r : a # Answer("success", r) /\ a # Answer("failure", r)
    BY AnswersDiffer
  <2> QED BY <2>1, <2>2, AnswersAppended
<1>6. /\ DOMAIN submittedRelayRequests' = DOMAIN submittedRelayRequests \cup {n}
      /\ submittedRelayRequests'[n] = call[c].block
      /\ \A r \in DOMAIN submittedRelayRequests : submittedRelayRequests'[r] = submittedRelayRequests[r]
  BY <1>1, <1>2
<1>7. Tip' = Tip
  BY <1>1 DEF Tip
<1>8. \A r \in DOMAIN submittedRelayRequests : Proved(r)' <=> Proved(r)
  <2> SUFFICES ASSUME NEW r \in DOMAIN submittedRelayRequests
               PROVE  Proved(r)' <=> Proved(r)
    OBVIOUS
  <2>1. \A b, k : Success(b, k, r)' <=> Success(b, k, r)
    BY <1>1 DEF Success, IsNamed
  <2>2. \A b : InSight(b, r)' <=> InSight(b, r)
    BY <1>1, <1>6 DEF InSight
  <2> QED BY <1>1, <2>1, <2>2 DEF Proved
<1>9. \A q, r : Finds(q, r)' <=> Finds(q, r)
  <2>1. \A b, k, r : Success(b, k, r)' <=> Success(b, k, r)
    BY <1>1 DEF Success, IsNamed
  <2>2. \A q, b : IsRead(q, b)' <=> IsRead(q, b)
    BY DEF IsRead, PageStart, PageSize
  <2>3. \A b, k : LogAt(b, k)' = LogAt(b, k)
    BY <1>1 DEF LogAt
  <2>4. \A q : ToSet(q.events)' = ToSet(q.events)
    OBVIOUS
  <2> QED BY <1>1, <2>1, <2>2, <2>3, <2>4 DEF Finds
<1>10. PagingInv'
  BY <1>1, PagingStutters DEF pagingVars
<1>11. CallsInOrder'
  <2>1. "over" \in Steps
    BY DEF Steps
  <2> QED BY <1>1, <1>4, <2>1 DEF CallsInOrder
<1>12. AtRelayInOrder'
  <2> SUFFICES ASSUME NEW d \in Callers, call'[d].at = "atRelay"
               PROVE  /\ call'[d].id \in relayed \ DOMAIN submittedRelayRequests'
                      /\ call'[d].block \in 1 .. Tip
                      /\ \A b \in DOMAIN blocks : \A k \in DOMAIN blocks[b] :
                            blocks[b][k].id = call'[d].id => b >= call'[d].block
                      /\ \A e \in Callers : call'[e].id = call'[d].id => e = d
                      /\ \A e \in Callers : ~Says(e, "success", call[d].id)'
    BY <1>1, <1>7 DEF AtRelayInOrder
  <2>1. d # c /\ call'[d] = call[d]
    BY <1>4
  <2>2. /\ call[d].id \in relayed \ DOMAIN submittedRelayRequests
        /\ call[d].block \in 1 .. Tip
        /\ \A b \in DOMAIN blocks : \A k \in DOMAIN blocks[b] :
              blocks[b][k].id = call[d].id => b >= call[d].block
        /\ \A e \in Callers : call[e].id = call[d].id => e = d
        /\ \A e \in Callers : ~Says(e, "success", call[d].id)
    BY <2>1 DEF AtRelayInOrder
  <2>3. call[d].id # n
    BY <1>2, <2>1
  <2>4. \A e \in Callers : ~Says(e, "success", call[d].id)'
    BY <1>5, <2>1, <2>2
  <2> QED BY <1>4, <1>6, <2>1, <2>2, <2>3, <2>4
<1>13. SubmittedInOrder'
  <2>1. submittedRelayRequests' \in [DOMAIN submittedRelayRequests' -> 1 .. Tip]
    BY <1>1, <1>2, <1>6 DEF SubmittedInOrder
  <2>2. \A r \in DOMAIN submittedRelayRequests' : \A b \in DOMAIN blocks : \A k \in DOMAIN blocks[b] :
           blocks[b][k].id = r => b >= submittedRelayRequests'[r]
    BY <1>2, <1>6 DEF SubmittedInOrder
  <2>3. DOMAIN submittedRelayRequests' \subseteq relayed
    BY <1>2, <1>6 DEF SubmittedInOrder
  <2> QED BY <1>1, <1>7, <2>1, <2>2, <2>3 DEF SubmittedInOrder
<1>14. ExecutedInOrder'
  BY <1>1 DEF ExecutedInOrder
<1>15. LookUpsInOrder'
  <2> SUFFICES ASSUME NEW d \in Callers, call'[d].at = "events"
               PROVE  /\ query[d].wanted = Wanted(call'[d].id)
                      /\ call'[d].id \in DOMAIN submittedRelayRequests' =>
                            query[d].from = submittedRelayRequests'[call'[d].id]
    BY <1>1 DEF LookUpsInOrder, Wanted
  <2>1. d # c /\ call'[d] = call[d] /\ call[d].id # n
    BY <1>2, <1>4
  <2> QED BY <1>6, <2>1 DEF LookUpsInOrder
<1>16. SuccessesInOrder'
  BY <1>1, <1>2, <1>5, <1>6, <1>8 DEF SuccessesInOrder
<1>17. FoundInOrder'
  <2> SUFFICES ASSUME NEW d \in Callers, call'[d].at = "receipt", Translated(call'[d].found) = "success",
                      call'[d].id \in DOMAIN submittedRelayRequests'
               PROVE  Proved(call[d].id)'
    BY DEF FoundInOrder, Translated
  <2>1. d # c /\ call'[d] = call[d] /\ call[d].id # n
    BY <1>2, <1>4
  <2>2. call[d].id \in DOMAIN submittedRelayRequests /\ Proved(call[d].id)
    BY <1>6, <2>1 DEF FoundInOrder
  <2> QED BY <1>8, <2>1, <2>2
<1>18. CallersInOrder'
  <2>1. \A d \in Callers : call'[d].at = "idle" => answers'[d] = <<>>
    BY <1>4, <1>5 DEF CallersInOrder
  <2> QED BY <1>4, <1>5, <2>1 DEF CallersInOrder
<1>19. ToldInOrder'
  <2> SUFFICES ASSUME NEW d \in Callers, NEW r \in told[d]
               PROVE  /\ r \in DOMAIN submittedRelayRequests' /\ Proved(r)'
                      /\ ~Says(d, "failure", r)'
                      /\ call'[d].id = r /\ call'[d].at = "events" => Finds(query[d], r)'
                      /\ call'[d].id = r /\ call'[d].at = "receipt" => Translated(call'[d].found) = "success"
    BY <1>1 DEF ToldInOrder, Translated
  <2>1. /\ r \in DOMAIN submittedRelayRequests /\ Proved(r) /\ ~Says(d, "failure", r)
        /\ call[d].id = r /\ call[d].at = "events" => Finds(query[d], r)
        /\ call[d].id = r /\ call[d].at = "receipt" => Translated(call[d].found) = "success"
    BY DEF ToldInOrder
  <2>2. Finds(query[d], r) => Finds(query[d], r)'
    BY <1>1, <1>9
  <2> QED BY <1>4, <1>5, <1>6, <1>8, <2>1, <2>2
<1> QED BY <1>5, <1>10, <1>11, <1>12, <1>13, <1>14, <1>15, <1>16, <1>17, <1>18, <1>19


\* LookUp: the query begins at the block of the submission.
LEMMA LookUpKeeps ==
  ASSUME SessionInv, NEW c \in Callers, NEW b0 \in 1 .. Tip, LookUp(c, b0)
  PROVE  SessionInv'
<1> USE DEF SessionInv
<1> PICK id : id = call[c].id
  OBVIOUS
<1> PICK first : first = IF IsCached(c) THEN submittedRelayRequests[id]
                       ELSE IF b0 > BlocksForLookup THEN b0 - BlocksForLookup ELSE 1
  OBVIOUS
<1>1. /\ call[c].at = "lookup" /\ AskEvents(c, first, Latest, Wanted(id))
      /\ call' = [call EXCEPT ![c].at = "events"] /\ answers' = answers
      /\ UNCHANGED <<blocks, lastBlockNumber, submittedRelayRequests, relayed, told>>
  BY DEF LookUp, GoesTo
<1>2. first \in Nat \ {0}
  <2>1. b0 \in Nat \ {0} /\ Tip \in Nat
    BY DEF PagingInv, Tip
  <2>2. BlocksForLookup \in Nat
    BY SessionConstants
  <2>3. IsCached(c) => submittedRelayRequests[id] \in Nat \ {0}
    BY <2>1 DEF IsCached, SubmittedInOrder
  <2> QED BY <2>1, <2>2, <2>3
<1>3. Wanted(id) \in SUBSET Events
  BY DEF Wanted
<1>4. /\ PagingInv'
      /\ query'[c].wanted = Wanted(id) /\ query'[c].from = first /\ Unread(query[c])'
      /\ query'[c].phase \in {"pages", "found"} => query'[c].to = Latest
      /\ \A d \in Callers : d # c => query'[d] = query[d]
  BY <1>1, <1>2, <1>3, AskEventsKeeps
<1>5. /\ DOMAIN call' = Callers
      /\ \A d \in Callers : d # c => call'[d] = call[d]
      /\ \A d \in Callers : /\ call'[d].id = call[d].id /\ call'[d].payload = call[d].payload
                            /\ call'[d].block = call[d].block /\ call'[d].found = call[d].found
                            /\ DOMAIN call'[d] = DOMAIN call[d]
      /\ call'[c].at = "events"
  BY <1>1, CallMoved
<1>6. /\ \A r : Proved(r)' <=> Proved(r)
      /\ \A q, r : Finds(q, r)' <=> Finds(q, r)
      /\ Tip' = Tip
  BY <1>1, ChainSame
<1>7. (\A d \in Callers : \A kind, r : Says(d, kind, r)' <=> Says(d, kind, r)) /\ AnswersTyped'
  BY <1>1 DEF Says, AnswersTyped
<1>8. CallsInOrder'
  <2>1. "events" \in Steps
    BY DEF Steps
  <2> QED BY <1>1, <1>5, <2>1 DEF CallsInOrder
<1>9. AtRelayInOrder'
  <2> SUFFICES ASSUME NEW d \in Callers, call'[d].at = "atRelay"
               PROVE  /\ call'[d].id \in relayed \ DOMAIN submittedRelayRequests
                      /\ call'[d].block \in 1 .. Tip
                      /\ \A b \in DOMAIN blocks : \A k \in DOMAIN blocks[b] :
                            blocks[b][k].id = call'[d].id => b >= call'[d].block
                      /\ \A e \in Callers : call'[e].id = call'[d].id => e = d
                      /\ \A e \in Callers : ~Says(e, "success", call[d].id)'
    BY <1>1, <1>6 DEF AtRelayInOrder
  <2>1. d # c /\ call[d].at = "atRelay" /\ call'[d] = call[d]
    BY <1>5
  <2>2. /\ call[d].id \in relayed \ DOMAIN submittedRelayRequests
        /\ call[d].block \in 1 .. Tip
        /\ \A b \in DOMAIN blocks : \A k \in DOMAIN blocks[b] :
              blocks[b][k].id = call[d].id => b >= call[d].block
        /\ \A e \in Callers : call[e].id = call[d].id => e = d
        /\ \A e \in Callers : ~Says(e, "success", call[d].id)
    BY <2>1 DEF AtRelayInOrder
  <2>3. \A e \in Callers : ~Says(e, "success", call[d].id)'
    BY <1>7, <2>1, <2>2
  <2> QED BY <1>5, <2>1, <2>2, <2>3
<1>10. SubmittedInOrder' /\ ExecutedInOrder'
  BY <1>1, <1>6 DEF SubmittedInOrder, ExecutedInOrder
<1>11. LookUpsInOrder'
  <2> SUFFICES ASSUME NEW d \in Callers, call'[d].at = "events"
               PROVE  /\ query'[d].wanted = Wanted(call'[d].id)
                      /\ call'[d].id \in DOMAIN submittedRelayRequests =>
                            query'[d].from = submittedRelayRequests[call'[d].id]
    BY <1>1 DEF LookUpsInOrder, Wanted
  <2>1. CASE d = c
    BY <1>4, <1>5, <2>1 DEF IsCached
  <2>2. CASE d # c
    BY <1>4, <1>5, <2>2 DEF LookUpsInOrder
  <2> QED BY <2>1, <2>2
<1>12. SuccessesInOrder'
  BY <1>1, <1>6, <1>7 DEF SuccessesInOrder
<1>13. FoundInOrder'
  BY <1>1, <1>5, <1>6 DEF FoundInOrder, Translated
<1>14. CallersInOrder'
  <2>1. \A d \in Callers : call'[d].at = "idle" => answers'[d] = <<>>
    BY <1>1, <1>5 DEF CallersInOrder
  <2> QED BY <1>5, <1>7, <2>1 DEF CallersInOrder
<1>15. ToldInOrder'
  <2> SUFFICES ASSUME NEW d \in Callers, NEW r \in told[d]
               PROVE  /\ r \in DOMAIN submittedRelayRequests /\ Proved(r)'
                      /\ ~Says(d, "failure", r)'
                      /\ call'[d].id = r /\ call'[d].at = "events" => Finds(query[d], r)'
                      /\ call'[d].id = r /\ call'[d].at = "receipt" => Translated(call'[d].found) = "success"
    BY <1>1 DEF ToldInOrder, Translated
  <2>1. /\ r \in DOMAIN submittedRelayRequests /\ Proved(r) /\ ~Says(d, "failure", r)
        /\ call[d].id = r /\ call[d].at = "events" => Finds(query[d], r)
        /\ call[d].id = r /\ call[d].at = "receipt" => Translated(call[d].found) = "success"
    BY DEF ToldInOrder
  <2>2. CASE d = c
    <3>1. ASSUME id = r
          PROVE  Finds(query[d], r)'
      <4>1. first = submittedRelayRequests[r]
        BY <2>1, <3>1 DEF IsCached
      <4>2. PICK q : q = query'[c]
        OBVIOUS
      <4>3. Unread(q) /\ q.from = first /\ (q.phase \in {"pages", "found"} => q.to = Latest)
        BY <1>4, <4>2 DEF Unread, IsRead, PageStart, PageSize
      <4>4. \A b \in DOMAIN blocks : \A k \in DOMAIN blocks[b] :
               Success(b, k, r) => b \in Nat /\ b >= q.from
        BY <2>1, <4>1, <4>3 DEF Success, IsNamed, SubmittedInOrder, PagingInv
      <4>5. Finds(q, r)
        BY <4>3, <4>4 DEF Finds, Unread
      <4> QED BY <1>6, <2>2, <4>2, <4>5
    <3> QED BY <1>5, <1>6, <1>7, <2>1, <2>2, <3>1
  <2>3. CASE d # c
    <3>1. Finds(query[d], r) => Finds(query[d], r)'
      BY <1>4, <1>6, <2>3
    <3> QED BY <1>5, <1>6, <1>7, <2>1, <2>3, <3>1
  <2> QED BY <2>2, <2>3
<1> QED BY <1>4, <1>7, <1>8, <1>9, <1>10, <1>11, <1>12, <1>13, <1>14, <1>15

\* The last of the logs is one of them.
LEMMA LastIsThere ==
  ASSUME NEW logs \in Seq(LogSet), logs # <<>>, NEW n \in Nat, \A k \in DOMAIN logs : logs[k].block <= n
  PROVE  \E k \in DOMAIN logs : PickLast(logs) = logs[k]
<1> DEFINE S == {m \in Nat : \E k \in DOMAIN logs : m = n - logs[k].block}
<1>1. \A k \in DOMAIN logs : logs[k].block \in Nat
  <2>1. \A k \in DOMAIN logs : logs[k] \in LogSet
    BY LenProperties
  <2> QED BY <2>1 DEF LogSet
<1>2. 1 \in DOMAIN logs
  BY EmptySeq, LenProperties
<1>3. S \subseteq Nat /\ S # {}
  <2>1. n - logs[1].block \in S
    BY <1>1, <1>2
  <2> QED BY <2>1
<1>4. PICK m \in S : \A y \in S : ~(<<y, m>> \in OpToRel(<, Nat))
  <2> HIDE DEF S
  <2> QED BY <1>3, NatLessThanWellFounded, WFMin, Zenon
<1>5. PICK k \in DOMAIN logs : m = n - logs[k].block
  BY <1>4
<1>6. \A i \in DOMAIN logs : logs[i].block <= logs[k].block
  <2> SUFFICES ASSUME NEW i \in DOMAIN logs, ~(logs[i].block <= logs[k].block)
               PROVE  FALSE
    OBVIOUS
  <2>1. n - logs[i].block \in S /\ n - logs[i].block < m /\ m \in Nat
    <3>1. logs[i].block \in Nat /\ logs[i].block <= n /\ logs[k].block \in Nat
      BY <1>1
    <3>2. n - logs[i].block \in Nat
      BY <3>1
    <3>3. m \in Nat
      OBVIOUS
    <3> QED BY <1>5, <3>1, <3>2, <3>3
  <2>2. <<n - logs[i].block, m>> \in OpToRel(<, Nat)
    BY <1>3, <2>1 DEF OpToRel
  <2> QED BY <1>4, <2>1, <2>2
<1> QED BY <1>6 DEF PickLast

\* The event picked is one of those found; it is a success when there is one.
IsPicked(q, log) ==
    /\ \E b \in DOMAIN blocks : \E k \in DOMAIN blocks[b] :
          /\ log = LogAt(b, k) /\ blocks[b][k] \in q.wanted
          /\ b >= q.from /\ (q.to # Latest => b <= q.to)
    /\ \A other \in ToSet(q.events) : other.event.name = "relayed" => log.event.name = "relayed"

\* What _pickSingleEvent returns is such an event.
LEMMA PickedIsThere ==
  ASSUME PagingInv, NEW q \in Queries, QueryInOrder(q), q.phase = "found", q.events # <<>>,
         PickSingleEvent(q.events) # NoLog
  PROVE  IsPicked(q, PickSingleEvent(q.events))
<1> DEFINE logs == q.events
           successes == {k \in DOMAIN logs : logs[k].event.name = "relayed"}
<1>1. /\ logs \in Seq(LogSet) /\ Tip \in Nat /\ DOMAIN blocks = 1 .. Tip
      /\ \A log \in ToSet(logs) : \E b \in DOMAIN blocks : \E k \in DOMAIN blocks[b] :
            /\ log = LogAt(b, k) /\ blocks[b][k] \in q.wanted
            /\ b >= q.from /\ (q.to # Latest => b <= q.to)
  BY DEF QueryInOrder, Queries, PagingInv, Tip
<1>2. \A k \in DOMAIN logs : logs[k] \in ToSet(logs)
  BY DEF ToSet
<1>3. \A k \in DOMAIN logs : logs[k].block <= Tip
  <2> SUFFICES ASSUME NEW k \in DOMAIN logs
               PROVE  logs[k].block <= Tip
    OBVIOUS
  <2>1. PICK b \in DOMAIN blocks : \E i \in DOMAIN blocks[b] : logs[k] = LogAt(b, i)
    BY <1>1, <1>2
  <2>2. logs[k].block = b
    BY <2>1 DEF LogAt
  <2> QED BY <1>1, <2>2
<1>4. CASE successes = {}
  <2>0. Cardinality(successes) # 1
    <3>1. Cardinality({}) = 0
      BY FS_EmptySet
    <3> HIDE DEF successes
    <3> QED BY <1>4, <3>1
  <2>5. PickSingleEvent(logs) =
           CASE successes = {} -> PickLast(logs)
             [] Cardinality(successes) = 1 -> logs[CHOOSE k \in successes : TRUE]
             [] OTHER -> NoLog
    BY Zenon DEF PickSingleEvent
  <2>1. PickSingleEvent(logs) = PickLast(logs)
    <3> HIDE DEF successes, logs
    <3> QED BY <1>4, <2>0, <2>5
  <2>2. PICK k \in DOMAIN logs : PickLast(logs) = logs[k]
    BY <1>1, <1>3, LastIsThere
  <2>3. \A other \in ToSet(logs) : other.event.name # "relayed"
    BY <1>4 DEF ToSet
  <2> QED BY <1>1, <1>2, <2>1, <2>2, <2>3 DEF IsPicked
<1>5. CASE successes # {}
  <2>1. PickSingleEvent(logs) = logs[CHOOSE k \in successes : TRUE]
    BY <1>5 DEF PickSingleEvent
  <2> PICK k : k = CHOOSE i \in successes : TRUE
    OBVIOUS
  <2>2. k \in successes
    BY <1>5
  <2>3. k \in DOMAIN logs /\ logs[k].event.name = "relayed" /\ PickSingleEvent(logs) = logs[k]
    BY <2>1, <2>2
  <2> QED BY <1>1, <1>2, <2>3 DEF IsPicked
<1> QED BY <1>4, <1>5

\* EventsRead, when an event was found: of a request that was told to have succeeded it is its
\* success, since that was mined once and is among the events.
LEMMA FoundKeeps ==
  ASSUME SessionInv, NEW c \in Callers, EventsRead(c), query[c].events # <<>>,
         PickSingleEvent(query[c].events) # NoLog
  PROVE  SessionInv'
<1> USE DEF SessionInv
<1> PICK q : q = query[c]
  OBVIOUS
<1> PICK log : log = PickSingleEvent(q.events)
  OBVIOUS
<1> PICK w : w = IF call[c].payload.method = "receipt" THEN "receipt" ELSE "transaction"
  OBVIOUS
<1>1. /\ call[c].at = "events" /\ q.phase = "found"
      /\ call' = [call EXCEPT ![c].found = log.event, ![c].at = w] /\ answers' = answers
      /\ query' = [query EXCEPT ![c] = NoQuery]
      /\ UNCHANGED <<asks, setupVars, blocks, lastBlockNumber, submittedRelayRequests, relayed, told>>
  BY DEF EventsRead
<1>2. Stays(c)
  BY <1>1, DroppedStays
<1>3. /\ DOMAIN call' = Callers
      /\ \A d \in Callers : d # c => call'[d] = call[d]
      /\ \A d \in Callers : /\ call'[d].id = call[d].id /\ call'[d].payload = call[d].payload
                            /\ call'[d].block = call[d].block /\ DOMAIN call'[d] = DOMAIN call[d]
      /\ call'[c].at = w /\ call'[c].found = log.event
  <2>1. DOMAIN call = Callers /\ DOMAIN call[c] = {"at", "payload", "id", "block", "found"}
    BY DEF CallsInOrder
  <2> QED BY <1>1, <2>1
<1>4. /\ \A r : Proved(r)' <=> Proved(r)
      /\ \A q0, r : Finds(q0, r)' <=> Finds(q0, r)
      /\ Tip' = Tip
  BY <1>1, ChainSame
<1>5. (\A d \in Callers : \A kind, r : Says(d, kind, r)' <=> Says(d, kind, r)) /\ AnswersTyped'
  BY <1>1 DEF Says, AnswersTyped
<1>6. /\ q \in Queries /\ QueryInOrder(q) /\ q.wanted = Wanted(call[c].id)
      /\ call[c].id \in DOMAIN submittedRelayRequests => q.from = submittedRelayRequests[call[c].id]
  BY <1>1 DEF PagingInv, LookUpsInOrder
<1>7. IsPicked(q, log)
  BY <1>1, <1>6, PickedIsThere
<1>0. PICK b0 \in DOMAIN blocks : \E k \in DOMAIN blocks[b0] :
           /\ log = LogAt(b0, k) /\ blocks[b0][k] \in q.wanted
           /\ b0 >= q.from /\ (q.to # Latest => b0 <= q.to)
  BY <1>7 DEF IsPicked
<1>8. PICK k0 \in DOMAIN blocks[b0] :
           /\ log = LogAt(b0, k0) /\ blocks[b0][k0] \in q.wanted
           /\ b0 >= q.from /\ (q.to # Latest => b0 <= q.to)
  BY <1>0
<1>9. /\ log.event = blocks[b0][k0] /\ blocks[b0][k0].id = call[c].id
      /\ blocks[b0][k0].name \in {"relayed", "rejected"}
  BY <1>6, <1>8, SessionConstants DEF LogAt, Wanted
<1>10. ASSUME Translated(log.event) = "success", call[c].id \in DOMAIN submittedRelayRequests
       PROVE  Proved(call[c].id)
  <2>1. Success(b0, k0, call[c].id)
    BY <1>9, <1>10 DEF Translated, Success, IsNamed
  <2>2. InSight(b0, call[c].id)
    <3> SUFFICES ASSUME MaxPageSize # Unlimited
                 PROVE  b0 <= lastBlockNumber \/ b0 = submittedRelayRequests[call[c].id]
      BY DEF InSight
    <3>1. q.to # Latest /\ (q.to <= lastBlockNumber \/ q.to = q.from)
      BY <1>1, <1>6 DEF QueryInOrder
    <3>2. /\ q.from \in Nat /\ q.to \in Nat /\ b0 \in Nat /\ lastBlockNumber \in Nat
      BY <1>6, <1>8 DEF Queries, PagingInv, Tip
    <3> QED BY <1>6, <1>8, <1>10, <3>1, <3>2
  <2> QED BY <2>1, <2>2 DEF Proved
<1>11. CallsInOrder'
  <2>1. w \in Steps /\ w \in {"receipt", "transaction"} /\ (w = "receipt" => call[c].payload.method = "receipt")
    BY DEF Steps
  <2>2. call[c].payload.method # "send" /\ (w = "receipt" => call[c].id \in relayed)
    BY <1>1, <2>1 DEF CallsInOrder
  <2>3. ASSUME NEW d \in Callers
        PROVE  /\ DOMAIN call'[d] = {"at", "payload", "id", "block", "found"}
               /\ call'[d].at \in Steps
               /\ call'[d].id \in Requests \ {0} => call'[d].id \in relayed
               /\ call'[d].at \in {"lookup", "events", "receipt"} /\ call'[d].payload.method = "receipt" =>
                     call'[d].id \in relayed
               /\ call'[d].at \in {"fees", "relaying", "atRelay"} => call'[d].payload.method = "send"
               /\ call'[d].at = "receipt" => call'[d].payload.method = "receipt"
               /\ call'[d].at \in {"byTheHash", "lookup", "events", "receipt", "transaction"} =>
                     call'[d].payload.method # "send"
    <3>1. CASE d = c
      BY <1>3, <2>1, <2>2, <3>1 DEF CallsInOrder
    <3>2. CASE d # c
      BY <1>3, <3>2 DEF CallsInOrder
    <3> QED BY <3>1, <3>2
  <2>4. relayed' = relayed
    BY <1>1
  <2>5. relayed \subseteq Requests /\ IsFiniteSet(relayed) /\ relayed = 1 .. Cardinality(relayed)
    BY DEF CallsInOrder
  <2> QED BY <1>3, <2>3, <2>4, <2>5 DEF CallsInOrder
<1>12. AtRelayInOrder'
  <2> SUFFICES ASSUME NEW d \in Callers, call'[d].at = "atRelay"
               PROVE  /\ call'[d].id \in relayed \ DOMAIN submittedRelayRequests
                      /\ call'[d].block \in 1 .. Tip
                      /\ \A b \in DOMAIN blocks : \A k \in DOMAIN blocks[b] :
                            blocks[b][k].id = call'[d].id => b >= call'[d].block
                      /\ \A e \in Callers : call'[e].id = call'[d].id => e = d
                      /\ \A e \in Callers : ~Says(e, "success", call[d].id)'
    BY <1>1, <1>4 DEF AtRelayInOrder
  <2>1. d # c /\ call[d].at = "atRelay" /\ call'[d] = call[d]
    BY <1>3
  <2>2. /\ call[d].id \in relayed \ DOMAIN submittedRelayRequests
        /\ call[d].block \in 1 .. Tip
        /\ \A b \in DOMAIN blocks : \A k \in DOMAIN blocks[b] :
              blocks[b][k].id = call[d].id => b >= call[d].block
        /\ \A e \in Callers : call[e].id = call[d].id => e = d
        /\ \A e \in Callers : ~Says(e, "success", call[d].id)
    BY <2>1 DEF AtRelayInOrder
  <2>3. \A e \in Callers : ~Says(e, "success", call[d].id)'
    BY <1>5, <2>1, <2>2
  <2> QED BY <1>3, <2>1, <2>2, <2>3
<1>13. SubmittedInOrder' /\ ExecutedInOrder'
  BY <1>1, <1>4 DEF SubmittedInOrder, ExecutedInOrder
<1>14. LookUpsInOrder'
  BY <1>1, <1>2, <1>3 DEF LookUpsInOrder, Wanted, Stays
<1>15. SuccessesInOrder'
  BY <1>1, <1>4, <1>5 DEF SuccessesInOrder
<1>16. FoundInOrder'
  <2> SUFFICES ASSUME NEW d \in Callers, call'[d].at = "receipt", Translated(call'[d].found) = "success",
                      call'[d].id \in DOMAIN submittedRelayRequests
               PROVE  Proved(call[d].id)'
    BY <1>1 DEF FoundInOrder, Translated
  <2>1. Proved(call[d].id)
    BY <1>3, <1>10 DEF FoundInOrder
  <2> QED BY <1>3, <1>4, <2>1
<1>17. CallersInOrder'
  <2>1. \A d \in Callers : call'[d].at = "idle" => answers'[d] = <<>>
    BY <1>1, <1>3 DEF CallersInOrder
  <2> QED BY <1>3, <1>5, <2>1 DEF CallersInOrder
<1>18. ASSUME NEW r \in told[c], call[c].id = r
       PROVE  Translated(log.event) = "success"
  <2>1. Proved(r) /\ Finds(q, r)
    BY <1>1, <1>18 DEF ToldInOrder
  <2>0. PICK b \in DOMAIN blocks : \E k \in DOMAIN blocks[b] : Success(b, k, r)
    BY <2>1 DEF Proved
  <2>2. PICK k \in DOMAIN blocks[b] : Success(b, k, r)
    BY <2>0
  <2>3. LogAt(b, k) \in ToSet(q.events)
    BY <1>1, <2>1, <2>2 DEF Finds, IsRead
  <2>4. LogAt(b, k).event = blocks[b][k] /\ blocks[b][k].name = "relayed" /\ blocks[b][k].id = r
        /\ blocks[b][k].ok
    BY <2>2 DEF LogAt, Success, IsNamed
  <2>5. log.event.name = "relayed"
    BY <1>7, <2>3, <2>4 DEF IsPicked
  <2>6. b = b0 /\ k = k0
    BY <1>8, <1>9, <1>18, <2>2, <2>4, <2>5 DEF ExecutedInOrder
  <2> QED BY <1>9, <2>4, <2>6 DEF Translated
<1>19. ToldInOrder'
  <2> SUFFICES ASSUME NEW d \in Callers, NEW r \in told[d]
               PROVE  /\ r \in DOMAIN submittedRelayRequests /\ Proved(r)'
                      /\ ~Says(d, "failure", r)'
                      /\ call'[d].id = r /\ call'[d].at = "events" => Finds(query[d], r)'
                      /\ call'[d].id = r /\ call'[d].at = "receipt" => Translated(call'[d].found) = "success"
    BY <1>1 DEF ToldInOrder, Translated
  <2>1. /\ r \in DOMAIN submittedRelayRequests /\ Proved(r) /\ ~Says(d, "failure", r)
        /\ call[d].id = r /\ call[d].at = "events" => Finds(query[d], r)
        /\ call[d].id = r /\ call[d].at = "receipt" => Translated(call[d].found) = "success"
    BY DEF ToldInOrder
  <2>2. CASE d = c
    <3>1. call'[d].at # "events"
      BY <1>3, <2>2
    <3> QED BY <1>3, <1>4, <1>5, <1>18, <2>1, <2>2, <3>1
  <2>3. CASE d # c
    <3>1. Finds(query[d], r) => Finds(query[d], r)'
      BY <1>2, <1>4, <2>3 DEF Stays
    <3> QED BY <1>3, <1>4, <1>5, <2>1, <2>3, <3>1
  <2> QED BY <2>2, <2>3
<1> QED BY <1>2, <1>5, <1>11, <1>12, <1>13, <1>14, <1>15, <1>16, <1>17, <1>19 DEF Stays

\* EventsRead: of a request that was told to have succeeded some event is found.
LEMMA EventsReadKeeps ==
  ASSUME SessionInv, NEW c \in Callers, EventsRead(c)
  PROVE  SessionInv'
<1>1. /\ call[c].at = "events" /\ query[c].phase = "found"
      /\ query' = [query EXCEPT ![c] = NoQuery]
      /\ UNCHANGED <<asks, setupVars, blocks, lastBlockNumber, submittedRelayRequests, relayed, told>>
  BY DEF EventsRead
<1>2. Stays(c)
  BY <1>1, DroppedStays
<1>3. call[c].payload.method # "send"
  BY <1>1 DEF SessionInv, CallsInOrder
<1>4. CASE query[c].events = <<>>
  <2>1. CASE GoesTo(c, "transaction")
    BY <1>2, <1>3, <2>1, GoesKeep DEF Resting
  <2>2. CASE Answers(c, Answer("null", call[c].id))
    <3>1. MaySay(c, Answer("null", call[c].id))
      BY MaySayOthers
    <3> QED BY <1>2, <2>2, <3>1, AnswersKeep
  <2>3. CASE Answers(c, Answer("failure", call[c].id))
    <3>1. call[c].id \notin told[c]
      <4> SUFFICES ASSUME call[c].id \in told[c]
                   PROVE  FALSE
        OBVIOUS
      <4> PICK r : r = call[c].id
        OBVIOUS
      <4>1. Proved(r) /\ Finds(query[c], r)
        BY <1>1 DEF SessionInv, ToldInOrder
      <4>0. PICK b \in DOMAIN blocks : \E k \in DOMAIN blocks[b] : Success(b, k, r)
        BY <4>1 DEF Proved
      <4>2. PICK k \in DOMAIN blocks[b] : Success(b, k, r)
        BY <4>0
      <4>3. LogAt(b, k) \in ToSet(query[c].events)
        BY <1>1, <4>1, <4>2 DEF Finds, IsRead
      <4> QED BY <1>4, <4>3 DEF ToSet
    <3>2. MaySay(c, Answer("failure", call[c].id))
      BY <1>3, <3>1, AnswersDiffer DEF MaySay
    <3> QED BY <1>2, <2>3, <3>2, AnswersKeep
  <2> QED BY <1>4, <2>1, <2>2, <2>3 DEF EventsRead, TransactionRevertedReceipt
<1>5. CASE query[c].events # <<>> /\ PickSingleEvent(query[c].events) = NoLog
  <2>1. Throws(c)
    BY <1>5 DEF EventsRead
  <2> QED BY <1>2, <2>1, ThrowsKeep
<1> QED BY <1>4, <1>5, FoundKeeps

-----------------------------------------------------------------------------
(* The chain grows and pages are read                                      *)

\* What was told to have succeeded succeeded once: it is enough that this event is found.
LEMMA FindsIt ==
  ASSUME ExecutedInOrder', NEW q, NEW r, NEW b \in DOMAIN blocks', NEW k \in DOMAIN blocks'[b],
         Success(b, k, r)',
         q.phase \in {"pages", "found"} /\ q.to # Latest => b <= q.to,
         IsRead(q, b) => LogAt(b, k)' \in ToSet(q.events)
  PROVE  Finds(q, r)'
<1>1. IsRead(q, b)' <=> IsRead(q, b)
  BY DEF IsRead, PageStart, PageSize
<1>2. ASSUME NEW d \in DOMAIN blocks', NEW l \in DOMAIN blocks'[d], Success(d, l, r)'
      PROVE  d = b /\ l = k
  BY <1>2 DEF ExecutedInOrder, Success, IsNamed
<1> QED BY <1>1, <1>2 DEF Finds

\* What was mined stays as it is.
LEMMA SuccessGrown ==
  ASSUME Grown, NEW b \in DOMAIN blocks
  PROVE  /\ b \in DOMAIN blocks' /\ blocks'[b] = blocks[b]
         /\ \A k : LogAt(b, k)' = LogAt(b, k) /\ \A r : Success(b, k, r)' <=> Success(b, k, r)
<1>1. b \in DOMAIN blocks' /\ blocks'[b] = blocks[b]
  BY DEF Grown
<1> QED BY <1>1 DEF LogAt, Success, IsNamed

\* A success in the chain stays in sight.
LEMMA ProvedGrown ==
  ASSUME Grown, UNCHANGED submittedRelayRequests, NEW r, Proved(r)
  PROVE  Proved(r)'
<1>1. PICK b \in DOMAIN blocks : \E k \in DOMAIN blocks[b] : Success(b, k, r) /\ InSight(b, r)
  BY DEF Proved
<1>2. PICK k \in DOMAIN blocks[b] : Success(b, k, r) /\ InSight(b, r)
  BY <1>1
<1>3. b \in DOMAIN blocks' /\ k \in DOMAIN blocks'[b] /\ Success(b, k, r)'
  BY <1>2, SuccessGrown
<1>4. InSight(b, r)'
  <2>1. b \in Nat
    BY DEF Grown
  <2> QED BY <1>2, <2>1 DEF InSight, Grown
<1> QED BY <1>3, <1>4 DEF Proved

\* A query that will find a success will find it in the grown chain.
LEMMA FindsKept ==
  ASSUME Grown, ExecutedInOrder', NEW r, Proved(r), NEW q, Finds(q, r)
  PROVE  Finds(q, r)'
<1>1. PICK b \in DOMAIN blocks : \E k \in DOMAIN blocks[b] : Success(b, k, r) /\ InSight(b, r)
  BY DEF Proved
<1>2. PICK k \in DOMAIN blocks[b] : Success(b, k, r) /\ InSight(b, r)
  BY <1>1
<1>3. b \in DOMAIN blocks' /\ k \in DOMAIN blocks'[b] /\ Success(b, k, r)'
      /\ LogAt(b, k)' = LogAt(b, k)
  BY <1>2, SuccessGrown
<1>4. /\ q.phase \in {"pages", "found"} /\ q.to # Latest => b <= q.to
      /\ IsRead(q, b) => LogAt(b, k)' \in ToSet(q.events)
  BY <1>2, <1>3 DEF Finds
<1> QED BY <1>3, <1>4, FindsIt

\* The session stays in order when the chain grows and a query goes on, as long as a request is
\* still executed once and still found where it was told to have succeeded.
LEMMA ChainMoves ==
  ASSUME SessionInv, PagingInv', Grown, UNCHANGED sessionVars, ExecutedInOrder',
         \A d \in Callers : query'[d].wanted = query[d].wanted /\ query'[d].from = query[d].from,
         \A d \in Callers : \A r \in told[d] :
            call[d].id = r /\ call[d].at = "events" => Finds(query[d], r)'
  PROVE  SessionInv'
<1> USE DEF SessionInv
<1>1. /\ call' = call /\ answers' = answers /\ submittedRelayRequests' = submittedRelayRequests
      /\ relayed' = relayed /\ told' = told
  BY DEF sessionVars
<1>2. /\ Tip \in Nat /\ Tip' \in Nat /\ Tip <= Tip'
      /\ DOMAIN blocks = 1 .. Tip /\ DOMAIN blocks' = 1 .. Tip'
      /\ \A b \in 1 .. Tip : blocks'[b] = blocks[b]
  BY DEF Grown
<1>3. \A r : Proved(r) => Proved(r)'
  BY <1>1, ProvedGrown
<1>4. (\A d \in Callers : \A kind, r : Says(d, kind, r)' <=> Says(d, kind, r)) /\ AnswersTyped'
  BY <1>1 DEF Says, AnswersTyped
<1>5. CallsInOrder'
  BY <1>1 DEF CallsInOrder
<1>6. AtRelayInOrder'
  <2> SUFFICES ASSUME NEW d \in Callers, call[d].at = "atRelay"
               PROVE  /\ call[d].id \in relayed \ DOMAIN submittedRelayRequests
                      /\ call[d].block \in 1 .. Tip'
                      /\ \A b \in DOMAIN blocks' : \A k \in DOMAIN blocks'[b] :
                            blocks'[b][k].id = call[d].id => b >= call[d].block
                      /\ \A e \in Callers : call[e].id = call[d].id => e = d
                      /\ \A e \in Callers : ~Says(e, "success", call[d].id)'
    BY <1>1 DEF AtRelayInOrder
  <2>1. /\ call[d].id \in relayed \ DOMAIN submittedRelayRequests
        /\ call[d].block \in 1 .. Tip
        /\ \A b \in DOMAIN blocks : \A k \in DOMAIN blocks[b] :
              blocks[b][k].id = call[d].id => b >= call[d].block
        /\ \A e \in Callers : call[e].id = call[d].id => e = d
        /\ \A e \in Callers : ~Says(e, "success", call[d].id)
    BY DEF AtRelayInOrder
  <2>2. \A e \in Callers : ~Says(e, "success", call[d].id)'
    BY <1>1, <1>4, <2>1
  <2>3. ASSUME NEW b \in DOMAIN blocks', NEW k \in DOMAIN blocks'[b], blocks'[b][k].id = call[d].id
        PROVE  b >= call[d].block
    <3>1. CASE b \in 1 .. Tip
      BY <1>2, <2>1, <2>3, <3>1
    <3>2. CASE b \notin 1 .. Tip
      BY <1>2, <2>1, <3>2
    <3> QED BY <3>1, <3>2
  <2>4. call[d].block \in 1 .. Tip'
    BY <1>2, <2>1
  <2> QED BY <2>1, <2>2, <2>3, <2>4
<1>7. SubmittedInOrder'
  <2>1. /\ submittedRelayRequests \in [DOMAIN submittedRelayRequests -> 1 .. Tip]
        /\ DOMAIN submittedRelayRequests \subseteq relayed
        /\ \A r \in DOMAIN submittedRelayRequests : \A b \in DOMAIN blocks : \A k \in DOMAIN blocks[b] :
              blocks[b][k].id = r => b >= submittedRelayRequests[r]
    BY DEF SubmittedInOrder
  <2>2. ASSUME NEW r \in DOMAIN submittedRelayRequests, NEW b \in DOMAIN blocks',
               NEW k \in DOMAIN blocks'[b], blocks'[b][k].id = r
        PROVE  b >= submittedRelayRequests[r]
    <3>1. submittedRelayRequests[r] \in 1 .. Tip
      BY <2>1
    <3>2. CASE b \in 1 .. Tip
      BY <1>2, <2>1, <2>2, <3>2
    <3>3. CASE b \notin 1 .. Tip
      BY <1>2, <3>1, <3>3
    <3> QED BY <3>2, <3>3
  <2>3. submittedRelayRequests \in [DOMAIN submittedRelayRequests -> 1 .. Tip']
    <3>1. 1 .. Tip \subseteq 1 .. Tip'
      BY <1>2
    <3> QED BY <2>1, <3>1
  <2> QED BY <1>1, <2>1, <2>2, <2>3 DEF SubmittedInOrder
<1>8. LookUpsInOrder'
  BY <1>1 DEF LookUpsInOrder, Wanted
<1>9. SuccessesInOrder'
  BY <1>1, <1>3, <1>4 DEF SuccessesInOrder
<1>10. FoundInOrder'
  BY <1>1, <1>3 DEF FoundInOrder, Translated
<1>11. CallersInOrder'
  BY <1>1, <1>4 DEF CallersInOrder
<1>12. ToldInOrder'
  <2> SUFFICES ASSUME NEW d \in Callers, NEW r \in told[d]
               PROVE  /\ r \in DOMAIN submittedRelayRequests /\ Proved(r)'
                      /\ ~Says(d, "failure", r)'
                      /\ call[d].id = r /\ call[d].at = "events" => Finds(query[d], r)'
                      /\ call[d].id = r /\ call[d].at = "receipt" => Translated(call[d].found) = "success"
    BY <1>1 DEF ToldInOrder, Translated
  <2>1. /\ r \in DOMAIN submittedRelayRequests /\ Proved(r) /\ ~Says(d, "failure", r)
        /\ call[d].id = r /\ call[d].at = "receipt" => Translated(call[d].found) = "success"
    BY DEF ToldInOrder
  <2> QED BY <1>3, <1>4, <2>1
<1> QED BY <1>4, <1>5, <1>6, <1>7, <1>8, <1>9, <1>10, <1>11, <1>12

\* Where a query stands that looks for what was told to have succeeded.
LEMMA ToldSuccess ==
  ASSUME SessionInv, NEW c \in Callers, NEW r \in told[c], call[c].id = r, call[c].at = "events"
  PROVE  /\ Proved(r) /\ Finds(query[c], r)
         /\ \E b \in DOMAIN blocks : \E k \in DOMAIN blocks[b] :
               /\ Success(b, k, r) /\ b >= query[c].from /\ blocks[b][k] \in query[c].wanted
               /\ MaxPageSize = Unlimited \/ b <= lastBlockNumber \/ b = query[c].from
<1>1. /\ r \in DOMAIN submittedRelayRequests /\ Proved(r) /\ Finds(query[c], r)
  BY DEF SessionInv, ToldInOrder
<1>2. query[c].wanted = Wanted(r) /\ query[c].from = submittedRelayRequests[r]
  BY <1>1 DEF SessionInv, LookUpsInOrder
<1>3. PICK b \in DOMAIN blocks : \E k \in DOMAIN blocks[b] : Success(b, k, r) /\ InSight(b, r)
  BY <1>1 DEF Proved
<1>4. PICK k \in DOMAIN blocks[b] : Success(b, k, r) /\ InSight(b, r)
  BY <1>3
<1>5. blocks[b][k].id = r
  BY <1>4 DEF Success, IsNamed
<1>6. b >= query[c].from
  BY <1>1, <1>2, <1>5 DEF SessionInv, SubmittedInOrder
<1>7. blocks[b][k] \in query[c].wanted
  <2>1. blocks[b] \in Seq(Events)
    BY DEF SessionInv, PagingInv
  <2>2. blocks[b][k] \in Events
    BY <2>1
  <2> QED BY <1>2, <1>5, <2>2 DEF Wanted
<1>8. MaxPageSize = Unlimited \/ b <= lastBlockNumber \/ b = query[c].from
  BY <1>2, <1>4 DEF InSight
<1> QED BY <1>1, <1>4, <1>6, <1>7, <1>8


\* ReadHead: the range reaches to what was in sight before.
LEMMA ReadHeadGoesOn ==
  ASSUME SessionInv, NEW c \in Callers, NEW b0 \in 1 .. Tip, ReadHead(c, b0), UNCHANGED sessionVars
  PROVE  SessionInv'
<1>1. /\ PagingInv' /\ Grown /\ \A d \in Callers : d # c => query'[d] = query[d]
      /\ query'[c].wanted = query[c].wanted /\ query'[c].from = query[c].from
      /\ query'[c].phase \in {"head", "pages", "failed"}
      /\ query'[c].phase = "pages" => query'[c].to >= lastBlockNumber'
      /\ MaxPageSize # Unlimited /\ Unread(query[c])'
  BY ReadHeadKeeps DEF SessionInv
<1>2. blocks' = blocks
  BY DEF ReadHead
<1>3. ExecutedInOrder'
  BY <1>2 DEF SessionInv, ExecutedInOrder, sessionVars
<1>4. ASSUME NEW d \in Callers, NEW r \in told[d], call[d].id = r, call[d].at = "events"
      PROVE  Finds(query[d], r)'
  <2>1. Proved(r) /\ Finds(query[d], r)
    BY <1>4, ToldSuccess
  <2>2. CASE d # c
    <3> PICK q : q = query[d]
      OBVIOUS
    <3>1. Finds(q, r)'
      BY <1>1, <1>3, <2>1, FindsKept
    <3>2. query'[d] = q
      BY <1>1, <2>2
    <3> QED BY <3>1, <3>2
  <2>3. CASE d = c
    <3> PICK q : q = query'[c]
      OBVIOUS
    <3>1. PICK b \in DOMAIN blocks : \E k \in DOMAIN blocks[b] :
               /\ Success(b, k, r) /\ b >= query[c].from
               /\ MaxPageSize = Unlimited \/ b <= lastBlockNumber \/ b = query[c].from
      BY <1>4, <2>3, ToldSuccess
    <3>2. PICK k \in DOMAIN blocks[b] :
               /\ Success(b, k, r) /\ b >= query[c].from
               /\ MaxPageSize = Unlimited \/ b <= lastBlockNumber \/ b = query[c].from
      BY <3>1
    <3>3. b \in DOMAIN blocks' /\ k \in DOMAIN blocks'[b] /\ Success(b, k, r)'
      BY <1>1, <3>2, SuccessGrown
    <3>4. b \in Nat
      BY <1>1 DEF Grown
    <3>5. ~IsRead(q, b)
      <4>1. \A e \in Nat : e >= q.from => ~IsRead(query[c], e)'
        BY <1>1 DEF Unread
      <4>2. ~IsRead(query[c], b)'
        BY <1>1, <3>2, <3>4, <4>1
      <4> QED BY <4>2 DEF IsRead, PageStart, PageSize
    <3>6. ASSUME q.phase \in {"pages", "found"}, q.to # Latest
          PROVE  b <= q.to
      <4>1. q \in Queries /\ q.phase = "pages" /\ q.to >= lastBlockNumber' /\ q.from = query[c].from
        BY <1>1, <3>6 DEF PagingInv
      <4>2. q.from <= q.to
        BY <1>1, <3>6 DEF PagingInv, QueryInOrder
      <4>3. q.from \in Nat /\ q.to \in Nat
        BY <4>1 DEF Queries
      <4>4. lastBlockNumber \in Nat /\ lastBlockNumber' \in Nat /\ lastBlockNumber <= lastBlockNumber'
        BY <1>1 DEF Grown
      <4>5. b <= lastBlockNumber \/ b = q.from
        BY <1>1, <3>2, <4>1
      <4> QED BY <3>4, <4>1, <4>2, <4>3, <4>4, <4>5
    <3>7. Finds(q, r)'
      BY <1>3, <3>3, <3>5, <3>6, FindsIt
    <3> QED BY <2>3, <3>7
  <2> QED BY <2>2, <2>3
<1>5. \A d \in Callers : query'[d].wanted = query[d].wanted /\ query'[d].from = query[d].from
  BY <1>1
<1> QED BY <1>1, <1>3, <1>4, <1>5, ChainMoves

\* Reading pages, a query finds what it would have found: the block it is in has not been read
\* yet, or has been read with it.
LEMMA PagesGoOn ==
  ASSUME SessionInv, PagingInv', NEW c \in Callers, NEW x,
         UNCHANGED <<blocks, lastBlockNumber, sessionVars>>,
         query' = [query EXCEPT ![c] = x], x.wanted = query[c].wanted, x.from = query[c].from,
         x.to = query[c].to, query[c].phase = "pages", ToSet(query[c].events) \subseteq ToSet(x.events),
         \A b \in query[c].from .. Tip : \A k \in DOMAIN blocks[b] :
            /\ query[c].to # Latest => b <= query[c].to
            /\ IsRead(x, b) /\ blocks[b][k] \in query[c].wanted
            => IsRead(query[c], b) \/ LogAt(b, k) \in ToSet(x.events)
  PROVE  SessionInv'
<1>1. Grown
  <2>1. lastBlockNumber' \in lastBlockNumber .. Tip
    BY DEF SessionInv, PagingInv, Tip
  <2> QED BY <2>1, SameIsGrown DEF SessionInv
<1>2. ExecutedInOrder'
  BY DEF SessionInv, ExecutedInOrder, sessionVars
<1>3. query'[c] = x /\ \A d \in Callers : d # c => query'[d] = query[d]
  BY DEF SessionInv, PagingInv
<1>4. ASSUME NEW d \in Callers, NEW r \in told[d], call[d].id = r, call[d].at = "events"
      PROVE  Finds(query[d], r)'
  <2>1. Proved(r) /\ Finds(query[d], r)
    BY <1>4, ToldSuccess
  <2>2. CASE d # c
    <3> PICK q : q = query[d]
      OBVIOUS
    <3>1. Finds(q, r)'
      BY <1>1, <1>2, <2>1, FindsKept
    <3>2. query'[d] = q
      BY <1>3, <2>2
    <3> QED BY <3>1, <3>2
  <2>3. CASE d = c
    <3> PICK q : q = query[c]
      OBVIOUS
    <3>1. PICK b \in DOMAIN blocks : \E k \in DOMAIN blocks[b] :
               Success(b, k, r) /\ b >= q.from /\ blocks[b][k] \in q.wanted
      BY <1>4, <2>3, ToldSuccess
    <3>2. PICK k \in DOMAIN blocks[b] : Success(b, k, r) /\ b >= q.from /\ blocks[b][k] \in q.wanted
      BY <3>1
    <3>3. b \in DOMAIN blocks' /\ k \in DOMAIN blocks'[b] /\ Success(b, k, r)'
          /\ LogAt(b, k)' = LogAt(b, k)
      BY <1>1, <3>2, SuccessGrown
    <3>4. /\ q.to # Latest => b <= q.to
          /\ IsRead(q, b) => LogAt(b, k) \in ToSet(q.events)
      BY <2>1, <2>3, <3>2 DEF Finds
    <3>5. b \in q.from .. Tip
      <4>1. q \in Queries
        BY DEF SessionInv, PagingInv
      <4>2. q.from \in Nat
        BY <4>1 DEF Queries
      <4>3. b \in Nat /\ b <= Tip
        BY <1>1 DEF Grown
      <4> QED BY <1>1, <3>2, <4>2, <4>3 DEF Grown
    <3>6. IsRead(x, b) => IsRead(q, b) \/ LogAt(b, k) \in ToSet(x.events)
      BY <3>2, <3>4, <3>5
    <3>7. IsRead(x, b) => LogAt(b, k)' \in ToSet(x.events)
      BY <3>3, <3>4, <3>6
    <3>8. x.to # Latest => b <= x.to
      BY <3>4
    <3>9. Finds(x, r)'
      BY <1>2, <3>3, <3>7, <3>8, FindsIt
    <3> QED BY <1>3, <2>3, <3>9
  <2> QED BY <2>2, <2>3
<1>5. \A d \in Callers : query'[d].wanted = query[d].wanted /\ query'[d].from = query[d].from
  BY <1>3
<1>6. UNCHANGED sessionVars
  OBVIOUS
<1> QED BY <1>1, <1>2, <1>4, <1>5, <1>6, ChainMoves

\* ReadPage is such a step,
LEMMA ReadPageGoesOn ==
  ASSUME SessionInv, NEW c \in Callers, ReadPage(c), UNCHANGED sessionVars
  PROVE  SessionInv'
<1> PICK q : q = query[c]
  OBVIOUS
<1>1. PagingInv'
  BY ReadPageKeeps DEF SessionInv
<1>2. PICK x \in Queries :
            /\ query' = [query EXCEPT ![c] = x] /\ UNCHANGED <<blocks, lastBlockNumber>>
            /\ AfterPage(q, x)
  BY PageRead DEF SessionInv
<1>3. /\ x.wanted = q.wanted /\ x.from = q.from /\ x.to = q.to /\ q.phase = "pages"
      /\ ToSet(q.events) \subseteq ToSet(x.events)
      /\ \A b \in q.from .. Tip : \A k \in DOMAIN blocks[b] :
            /\ q.to # Latest => b <= q.to
            /\ IsRead(x, b) /\ blocks[b][k] \in q.wanted
            => IsRead(q, b) \/ LogAt(b, k) \in ToSet(x.events)
  BY <1>2 DEF AfterPage
<1> QED BY <1>1, <1>2, <1>3, PagesGoOn

\* and so is PageFails.
LEMMA PageFailsGoesOn ==
  ASSUME SessionInv, NEW c \in Callers, NEW tooMany, PageFails(c, tooMany), UNCHANGED sessionVars
  PROVE  SessionInv'
<1> PICK q : q = query[c]
  OBVIOUS
<1>1. PagingInv' /\ \E x \in Queries : query' = [query EXCEPT ![c] = x] /\ AfterFailure(q, x)
  BY PageFailsKeeps DEF SessionInv
<1>2. PICK x \in Queries : query' = [query EXCEPT ![c] = x] /\ AfterFailure(q, x)
  BY <1>1
<1>3. /\ x.wanted = q.wanted /\ x.from = q.from /\ x.to = q.to /\ q.phase = "pages"
      /\ x.events = q.events
      /\ \A b : b >= q.from /\ b \in Nat /\ IsRead(x, b) => IsRead(q, b)
  BY <1>2 DEF AfterFailure
<1>4. UNCHANGED <<blocks, lastBlockNumber>>
  BY DEF PageFails
<1>5. q.from \in Nat
  <2>1. q \in Queries
    BY DEF SessionInv, PagingInv
  <2> QED BY <2>1 DEF Queries
<1>6. \A b \in q.from .. Tip : IsRead(x, b) => IsRead(q, b)
  BY <1>3, <1>5
<1> QED BY <1>1, <1>2, <1>3, <1>4, <1>6, PagesGoOn

\* A block is mined: the forwarder executes no request twice.
LEMMA ChainGrows ==
  ASSUME SessionInv, NEW es \in Seq(Events), MineBlock(es), UNCHANGED sessionVars,
         \/ es = <<>>
         \/ \E e \in Events :
               /\ es = <<e>> /\ e.id \in relayed
               /\ e.name = "relayed" => \A b \in DOMAIN blocks : \A k \in DOMAIN blocks[b] :
                                            blocks[b][k].id = e.id => blocks[b][k].name # "relayed"
  PROVE  SessionInv'
<1>1. PagingInv' /\ Grown
  BY MineBlockKeeps DEF SessionInv
<1>2. /\ Tip \in Nat /\ Tip' = Tip + 1 /\ DOMAIN blocks = 1 .. Tip /\ DOMAIN blocks' = 1 .. Tip + 1
      /\ blocks'[Tip + 1] = es /\ \A b \in 1 .. Tip : blocks'[b] = blocks[b]
      /\ query' = query /\ relayed' = relayed
  BY <1>1 DEF SessionInv, PagingInv, MineBlock, Tip, Grown, sessionVars
<1>3. /\ DOMAIN es \subseteq {1}
      /\ \A k \in DOMAIN es :
            /\ es[k].id \in relayed
            /\ es[k].name = "relayed" => \A b \in DOMAIN blocks : \A l \in DOMAIN blocks[b] :
                  blocks[b][l].id = es[k].id => blocks[b][l].name # "relayed"
  OBVIOUS
<1>4. ExecutedInOrder'
  <2>1. ASSUME NEW b \in DOMAIN blocks', NEW k \in DOMAIN blocks'[b]
        PROVE  blocks'[b][k].id \in relayed
    <3>1. CASE b \in 1 .. Tip
      BY <1>2, <3>1 DEF SessionInv, ExecutedInOrder
    <3>2. CASE b = Tip + 1
      BY <1>2, <1>3, <3>2
    <3> QED BY <1>2, <3>1, <3>2
  <2>2. ASSUME NEW b \in DOMAIN blocks', NEW d \in DOMAIN blocks', NEW k \in DOMAIN blocks'[b],
               NEW l \in DOMAIN blocks'[d], blocks'[b][k].id = blocks'[d][l].id,
               blocks'[b][k].name = "relayed", blocks'[d][l].name = "relayed"
        PROVE  b = d /\ k = l
    <3>1. CASE b \in 1 .. Tip /\ d \in 1 .. Tip
      BY <1>2, <2>2, <3>1 DEF SessionInv, ExecutedInOrder
    <3>2. CASE b = Tip + 1 /\ d = Tip + 1
      BY <1>2, <1>3, <2>2, <3>2
    <3>3. CASE b = Tip + 1 /\ d \in 1 .. Tip
      BY <1>2, <1>3, <2>2, <3>3
    <3>4. CASE b \in 1 .. Tip /\ d = Tip + 1
      BY <1>2, <1>3, <2>2, <3>4
    <3> QED BY <1>2, <3>1, <3>2, <3>3, <3>4
  <2> QED BY <1>2, <2>1, <2>2 DEF ExecutedInOrder
<1>5. ASSUME NEW d \in Callers, NEW r \in told[d], call[d].id = r, call[d].at = "events"
      PROVE  Finds(query[d], r)'
  <2> PICK q : q = query[d]
    OBVIOUS
  <2>1. Proved(r) /\ Finds(q, r)
    BY <1>5, ToldSuccess
  <2>2. Finds(q, r)'
    BY <1>1, <1>4, <2>1, FindsKept
  <2> QED BY <1>2, <2>2
<1> QED BY <1>1, <1>2, <1>4, <1>5, ChainMoves


\* Steps of the setup change nothing of this.
LEMMA SessionStutters ==
  ASSUME SessionInv, UNCHANGED <<pagingVars, sessionVars>>
  PROVE  SessionInv'
<1>1. PagingInv' /\ Grown
  BY PagingStutters, SameIsGrown DEF SessionInv, PagingInv, pagingVars, Tip
<1>2. query' = query /\ blocks' = blocks /\ relayed' = relayed
  BY DEF pagingVars, sessionVars
<1>3. ExecutedInOrder'
  BY <1>2 DEF SessionInv, ExecutedInOrder
<1>4. ASSUME NEW d \in Callers, NEW r \in told[d], call[d].id = r, call[d].at = "events"
      PROVE  Finds(query[d], r)'
  <2> PICK q : q = query[d]
    OBVIOUS
  <2>1. Proved(r) /\ Finds(q, r)
    BY <1>4, ToldSuccess
  <2>2. Finds(q, r)'
    BY <1>1, <1>3, <2>1, FindsKept
  <2> QED BY <1>2, <2>2
<1> QED BY <1>1, <1>2, <1>3, <1>4, ChainMoves

\* At the start nothing is cached, told or asked.
LEMMA SessionInitInv == SessionInit => SessionInv
<1> SUFFICES ASSUME SessionInit
             PROVE  SessionInv
  OBVIOUS
<1>1. /\ call = [c \in Callers |-> NoCall] /\ answers = [c \in Callers |-> <<>>]
      /\ submittedRelayRequests = <<>> /\ told = [c \in Callers |-> {}]
      /\ relayed \in {{}, SentBefore} /\ blocks = << <<>> >> /\ query = [c \in Callers |-> NoQuery]
  BY DEF SessionInit, PagingInit
<1>2. PagingInv
  BY PagingInitInv DEF SessionInit
<1>3. /\ DOMAIN NoCall = {"at", "payload", "id", "block", "found"}
      /\ NoCall.at = "idle" /\ NoCall.id = 0 /\ NoCall.payload = [method |-> Null]
  BY DEF NoCall
<1>4. \A c \in Callers : call[c] = NoCall /\ answers[c] = <<>>
  BY <1>1
<1>5. CallsInOrder
  <2>1. relayed \subseteq Requests /\ IsFiniteSet(relayed) /\ relayed = 1 .. Cardinality(relayed)
    <3>1. Cardinality({}) = 0 /\ IsFiniteSet({})
      BY FS_EmptySet
    <3>2. CASE relayed = {}
      BY <3>1, <3>2
    <3>3. CASE relayed = SentBefore
      BY <3>3, ProviderSessionAssumption
    <3> QED BY <1>1, <3>2, <3>3
  <2> QED BY <1>1, <1>3, <1>4, <2>1 DEF CallsInOrder, Steps
<1>6. AtRelayInOrder /\ LookUpsInOrder /\ FoundInOrder
  BY <1>3, <1>4 DEF AtRelayInOrder, LookUpsInOrder, FoundInOrder
<1>7. SubmittedInOrder
  BY <1>1 DEF SubmittedInOrder
<1>8. ExecutedInOrder
  <2>1. \A b \in DOMAIN blocks : blocks[b] = <<>>
    BY <1>1
  <2> QED BY <2>1 DEF ExecutedInOrder
<1>9. AnswersTyped
  <2>1. answers \in [Callers -> Seq({})]
    BY <1>1
  <2> QED BY <2>1 DEF AnswersTyped
<1>10. \A c \in Callers : \A kind, r : ~Says(c, kind, r)
  BY <1>4 DEF Says, ToSet
<1>11. SuccessesInOrder /\ CallersInOrder
  BY <1>4, <1>10 DEF SuccessesInOrder, CallersInOrder
<1>12. ToldInOrder
  BY <1>1 DEF ToldInOrder
<1> QED BY <1>2, <1>5, <1>6, <1>7, <1>8, <1>9, <1>11, <1>12 DEF SessionInv

\* Every handler keeps the session in order,
LEMMA HandlerKeeps ==
  ASSUME SessionInv, NEW c \in Callers, Handler(c)
  PROVE  SessionInv'
<1>1. CASE \E ok \in BOOLEAN : NodeAnswers(c, ok) \/ FeesRead(c, ok)
  BY <1>1, QuietKeeps
<1>2. CASE \E b \in 1 .. Tip : AskRelay(c, b) \/ LookUp(c, b)
  BY <1>2, AskRelayKeeps, LookUpKeeps
<1>3. CASE SignTransaction(c) \/ RelayingFails(c) \/ LookUpFails(c) \/ FoundUnreadable(c)
  BY <1>3, QuietKeeps
<1>4. CASE Fulfilled(c)
  BY <1>4, FulfilledKeeps
<1>5. CASE EventsRead(c)
  BY <1>5, EventsReadKeeps
<1>6. CASE \E has \in BOOLEAN : HashReceiptRead(c, has) \/ TransactionRead(c, has)
  BY <1>6, QuietKeeps
<1>7. CASE \E has \in BOOLEAN : ReceiptRead(c, has)
  BY <1>7, ReceiptReadKeeps
<1>8. CASE /\ \/ \E b \in 1..Tip : ReadHead(c, b)
              \/ ReadPage(c)
              \/ \E tooMany \in BOOLEAN : PageFails(c, tooMany)
           /\ UNCHANGED <<setupVars, sessionVars>>
  <2>1. UNCHANGED sessionVars
    BY <1>8
  <2> QED BY <1>8, <2>1, ReadHeadGoesOn, ReadPageGoesOn, PageFailsGoesOn
<1> QED BY <1>1, <1>2, <1>3, <1>4, <1>5, <1>6, <1>7, <1>8 DEF Handler

\* and with it every step.
LEMMA SessionInvKept == SessionInv /\ [SessionNext]_allVars => SessionInv'
<1> SUFFICES ASSUME SessionInv, [SessionNext]_allVars
             PROVE  SessionInv'
  OBVIOUS
<1>1. CASE \E c \in Callers : \E p \in asks[c] : Send(c, p)
  BY <1>1, SendKeeps
<1>2. CASE \E c \in Callers : Handler(c)
  BY <1>2, HandlerKeeps
<1>3. CASE \E e \in Events : RelayHubEmits(e)
  <2>1. PICK e \in Events : RelayHubEmits(e)
    BY <1>3
  <2>2. PICK es : es = <<e>>
    OBVIOUS
  <2>3. /\ es \in Seq(Events) /\ MineBlock(es) /\ UNCHANGED sessionVars /\ e.id \in relayed
        /\ e.name = "relayed" => \A b \in DOMAIN blocks : \A k \in DOMAIN blocks[b] :
                                     blocks[b][k].id = e.id => blocks[b][k].name # "relayed"
    BY <2>1, <2>2 DEF RelayHubEmits
  <2> QED BY <2>2, <2>3, ChainGrows
<1>4. CASE MineBlock(<<>>) /\ UNCHANGED <<setupVars, sessionVars>>
  <2>0. <<>> \in Seq(Events)
    OBVIOUS
  <2>1. PICK es \in Seq(Events) : es = <<>>
    BY <2>0
  <2>2. MineBlock(es) /\ UNCHANGED sessionVars
    BY <1>4, <2>1
  <2> QED BY <2>1, <2>2, ChainGrows
<1>5. CASE Setup
  BY <1>5, SessionStutters DEF Setup
<1>6. CASE UNCHANGED allVars
  BY <1>6, SessionStutters DEF allVars
<1> QED BY <1>1, <1>2, <1>3, <1>4, <1>5, <1>6 DEF SessionNext

\* The strengthened invariant of a session holds in every behaviour: queries miss no block they
\* have read past, a request on its way belongs to one call, and a success that was told is found.
THEOREM SessionIsInOrder == SessionSpec => []SessionInv
<1>1. SessionInit => SessionInv
  BY SessionInitInv
<1>2. SessionInv /\ [SessionNext]_allVars => SessionInv'
  BY SessionInvKept
<1> QED BY <1>1, <1>2, PTL DEF SessionSpec

\* A query of _getPastEventsPaginated that succeeds has every event it asked for that was mined by
\* the block it took for the head, however often a range was split and whatever the node refused:
\* for every page size, limit of the node, number of attempts and number of callers.
THEOREM QueriesReturnEveryEvent == SessionSpec => []EveryEventReturned
<1>1. SessionInv => EveryEventReturned
  BY EveryEventIsThere DEF SessionInv
<1> QED BY <1>1, SessionIsInOrder, PTL

\* Once a receipt of eth_getTransactionReceipt said that a request of this session succeeded, no
\* receipt asked for later says that it failed: for every number of callers, requests, events and
\* blocks, every page size, and whatever other relays' rejections are mined before or after.
THEOREM ToldSuccessIsLasting == SessionSpec => []SuccessIsLasting
<1>1. SessionInv => SuccessIsLasting
  BY DEF SessionInv, ToldInOrder, SuccessIsLasting, Says
<1> QED BY <1>1, SessionIsInOrder, PTL
=============================================================================
