------------------------------ MODULE Commands ------------------------------
(***************************************************************************)
(* The operator's commands (packages/cli/src/CommandsLogic.ts): register a *)
(* relay, fund a paymaster, withdraw from the relay's manager.  Every run  *)
(* of a command awaits the node and the relay between its steps, so runs   *)
(* overlap with one another, with the relay's server and with mining.      *)
(***************************************************************************)
EXTENDS Integers, Sequences, FiniteSets, SequencesExt, FiniteSetsExt

CONSTANTS
    Runs,               \* runs of commands
    Starts,             \* the command they are of, and what it finds on the chain
    Operators,          \* accounts that run commands
    Owner,              \* ownerAddress in the server's configuration
    FirstToken,         \* the token that _findFirstToken finds
    RegisterOptions, FundAmounts, WithdrawOptions,
    Funds,              \* --funds
    MinStake, MinDelay, \* of the hub, for its first token
    SleepCount,         \* --sleepCount
    None

ASSUME CommandsAssumption ==
    /\ IsFiniteSet(Runs) /\ IsFiniteSet(Starts)
    /\ \A s \in Starts :
          /\ s.kind \in {"register", "fund", "withdraw"}
          /\ DOMAIN s.stakeInfo = {"owner", "token", "stake", "delay", "authorized"}
          /\ s.stakeInfo.stake \in Nat /\ s.deposit \in Nat
    /\ \A o \in RegisterOptions : o.from \in Operators /\ o.stake \in Nat
    /\ \A o \in FundAmounts : o.from \in Operators /\ o.amount \in Nat
    /\ None \notin RegisterOptions \cup FundAmounts \cup WithdrawOptions

VARIABLES
    kind,               \* the command
    node,               \* "dev" has unlocked accounts, "public" has not
    run,                \* the local variables of every run
    stakeInfo,          \* stakes[relayManager] and authorizedHubs
    relayer,            \* ether of the relay's manager
    deposit,            \* balance of the paymaster at the hub
    hubBalance,         \* balance of the manager at the hub
    wallet, allowance,  \* of the operators, in the staking token
    pool,               \* transactions of the operators, in nonce order
    managerNonce,       \* transactions of the manager that were mined
    managerTx,          \* the manager's pending transaction
    ready,              \* what the relay answers to a ping
    moved               \* ether that left the node's own account

accountVars == <<stakeInfo, relayer, deposit, hubBalance, wallet, allowance, managerNonce, ready>>
fixedVars == <<kind, node>>
commandVars == <<accountVars, fixedVars, run, pool, managerTx, moved>>

-----------------------------------------------------------------------------
Ended == {"success", "failed"}
Active(r) == run[r].step \notin Ended \cup {"idle"}
At(r, step) == run[r].step = step
From(r) == run[r].option.from
To(r, step) == run' = [run EXCEPT ![r].step = step]
GivesUp(r) == To(r, "failed")
Send(o, tx) == pool' = [pool EXCEPT ![o] = Append(@, tx)]
NothingPending == (\A o \in Operators : pool[o] = <<>>) /\ managerTx = None

FirstStep == [register |-> "ping", fund |-> "deposit", withdraw |-> "owner?"]

OptionsOf(k) == CASE k = "register" -> RegisterOptions
                  [] k = "fund" -> FundAmounts
                  [] OTHER -> WithdrawOptions

(* A run is undisturbed if no other runs at the same time and nothing was  *)
(* pending when it started.                                                *)
Start(r) ==
    LET alone == \A q \in Runs : ~Active(q)
    IN  /\ At(r, "idle")
        /\ \E option \in OptionsOf(kind) :
              run' = [q \in Runs |->
                        IF q = r THEN [run[q] EXCEPT !.step = FirstStep[kind], !.option = option,
                                                     !.undisturbed = alone /\ NothingPending]
                        ELSE [run[q] EXCEPT !.undisturbed = @ /\ ~Active(q)]]
        /\ UNCHANGED <<accountVars, fixedVars, pool, managerTx, moved>>

AskedInFull(asked, has) == asked

(* What is paid is what is missing. *)
Missing(asked, has) == asked - has

-----------------------------------------------------------------------------
(* registerRelay *)

(* The relay does not answer, is ready already, or has another owner in    *)
(* its configuration.                                                      *)
Ping(r) ==
    /\ At(r, "ping")
    /\ \/ GivesUp(r)
       \/ ~ready /\ From(r) = Owner /\ To(r, "info")
    /\ UNCHANGED <<accountVars, fixedVars, pool, managerTx, moved>>

StakingToken(r) == IF run[r].option.token = None THEN FirstToken ELSE run[r].option.token

OwnsOrWill(r) == stakeInfo.owner \in {None, From(r)}

(* The stake is read once, before everything that takes time. *)
ReadStakeInfo(r) ==
    /\ At(r, "info")
    /\ IF StakingToken(r) # None /\ stakeInfo.token \in {None, StakingToken(r)} /\ OwnsOrWill(r)
       THEN run' = [run EXCEPT ![r].step = "balance", ![r].seen = stakeInfo]
       ELSE GivesUp(r)
    /\ UNCHANGED <<accountVars, fixedVars, pool, managerTx, moved>>

AfterFunding(r) == IF run[r].seen.owner = None THEN "owner" ELSE "stake"

FundRelay(r) ==
    /\ At(r, "balance")
    /\ IF relayer > Funds
       THEN To(r, AfterFunding(r)) /\ UNCHANGED pool
       ELSE To(r, "funding") /\ Send(From(r), [type |-> "fund", run |-> r])
    /\ UNCHANGED <<accountVars, fixedVars, managerTx, moved>>

(* web3 waits for the receipt; the transactions below are not waited for.  *)
RelayFunded(r) ==
    /\ At(r, "funding")
    /\ ~\E tx \in ToSet(pool[From(r)]) : tx.type = "fund" /\ tx.run = r
    /\ To(r, AfterFunding(r))
    /\ UNCHANGED <<accountVars, fixedVars, pool, managerTx, moved>>

SameTry(n) == n

NextTry(n) == n + 1

WaitForOwner(r) ==
    /\ At(r, "owner")
    /\ CASE stakeInfo.owner = From(r) -> To(r, "stake")
         [] run[r].tries = SleepCount -> GivesUp(r)
         [] OTHER -> run' = [run EXCEPT ![r].tries = NextTry(@)]
    /\ UNCHANGED <<accountVars, fixedVars, pool, managerTx, moved>>

MinimumStake(token) == IF token = FirstToken THEN MinStake ELSE 0

CheckStake(r) ==
    LET option == run[r].option
        minimum == MinimumStake(StakingToken(r))
    IN  /\ At(r, "stake")
        /\ IF run[r].seen.delay >= option.delay /\ run[r].seen.stake >= option.stake
           THEN To(r, "verify")
           ELSE IF minimum > option.stake \/ minimum = 0 \/ MinDelay > option.delay
           THEN GivesUp(r)
           ELSE run' = [run EXCEPT ![r].step = "wrap",
                                   ![r].value = Missing(option.stake, run[r].seen.stake)]
        /\ UNCHANGED <<accountVars, fixedVars, pool, managerTx, moved>>

Wrap(r) ==
    /\ At(r, "wrap")
    /\ To(r, "approve")
    /\ IF wallet[From(r)] < run[r].value /\ run[r].option.wrap
       THEN Send(From(r), [type |-> "wrap", value |-> run[r].value])
       ELSE UNCHANGED pool
    /\ UNCHANGED <<accountVars, fixedVars, managerTx, moved>>

Approve(r) ==
    /\ At(r, "approve")
    /\ To(r, "send")
    /\ IF allowance[From(r)] < run[r].value
       THEN Send(From(r), [type |-> "approve", value |-> run[r].value])
       ELSE UNCHANGED pool
    /\ UNCHANGED <<accountVars, fixedVars, managerTx, moved>>

(* A lower stake than there is, with a longer delay, is a negative amount: *)
(* it cannot be encoded.                                                   *)
SendStake(r) ==
    /\ At(r, "send")
    /\ IF run[r].value < 0 THEN GivesUp(r) /\ UNCHANGED pool
       ELSE /\ To(r, "verify")
            /\ Send(From(r), [type |-> "stake", value |-> run[r].value, run |-> r,
                              token |-> StakingToken(r), delay |-> run[r].option.delay])
    /\ UNCHANGED <<accountVars, fixedVars, managerTx, moved>>

(* RelayHub.verifyRelayManagerStaked *)
RelayManagerStaked ==
    /\ stakeInfo.token # None
    /\ stakeInfo.stake >= MinimumStake(stakeInfo.token)
    /\ MinimumStake(stakeInfo.token) # 0
    /\ stakeInfo.delay >= MinDelay
    /\ stakeInfo.authorized

Authorize(r) ==
    /\ At(r, "verify")
    /\ To(r, "wait")
    /\ IF RelayManagerStaked THEN UNCHANGED pool ELSE Send(From(r), [type |-> "authorize"])
    /\ UNCHANGED <<accountVars, fixedVars, managerTx, moved>>

TimedOut == "failed"

(* The relay becomes ready in time or does not. *)
WaitForRelay(r) ==
    /\ At(r, "wait")
    /\ \/ ready /\ To(r, "success")
       \/ To(r, TimedOut)
    /\ UNCHANGED <<accountVars, fixedVars, pool, managerTx, moved>>

-----------------------------------------------------------------------------
(* fundPaymaster *)

ReadDeposit(r) ==
    /\ At(r, "deposit")
    /\ IF deposit < run[r].option.amount
       THEN run' = [run EXCEPT ![r].step = "pay",
                               ![r].value = Missing(run[r].option.amount, deposit)]
       ELSE To(r, "success")
    /\ UNCHANGED <<accountVars, fixedVars, pool, managerTx, moved>>

DepositFor(r) ==
    /\ At(r, "pay")
    /\ To(r, "success")
    /\ Send(From(r), [type |-> "deposit", value |-> run[r].value])
    /\ UNCHANGED <<accountVars, fixedVars, managerTx, moved>>

-----------------------------------------------------------------------------
(* withdrawToOwner *)

CheckOwner(r) ==
    /\ At(r, "owner?")
    /\ To(r, IF stakeInfo.owner = Owner THEN "nonce" ELSE "failed")
    /\ UNCHANGED <<accountVars, fixedVars, pool, managerTx, moved>>

ReadNonce(r) ==
    /\ At(r, "nonce")
    /\ run' = [run EXCEPT ![r].step = "check", ![r].nonce = managerNonce]
    /\ UNCHANGED <<accountVars, fixedVars, pool, managerTx, moved>>

(* "Calling in view mode": the hub is asked by callStatic.  The account's  *)
(* ether is sent by eth_sendTransaction, which names no sender: a node     *)
(* with unlocked accounts pays from one of its own, any other refuses.     *)
ViewMode(r) ==
    LET amount == run[r].option.amount
    IN  /\ At(r, "check")
        /\ IF run[r].option.account
           THEN IF relayer < amount \/ node = "public" THEN GivesUp(r) /\ UNCHANGED moved
                ELSE To(r, "sign") /\ moved' = moved + amount
           ELSE /\ To(r, IF hubBalance < amount THEN "failed" ELSE "sign")
                /\ UNCHANGED moved
        /\ UNCHANGED <<accountVars, fixedVars, pool, managerTx>>

IsBroadcast(r) == run[r].option.broadcast

(* The manager's nonce may be used, or taken, by now. *)
BroadcastWithdrawal(r) ==
    /\ At(r, "sign")
    /\ IF ~IsBroadcast(r) THEN To(r, "success") /\ UNCHANGED managerTx
       ELSE IF managerTx # None \/ run[r].nonce < managerNonce
       THEN GivesUp(r) /\ UNCHANGED managerTx
       ELSE /\ To(r, "success")
            /\ managerTx' = [amount |-> run[r].option.amount, account |-> run[r].option.account]
    /\ UNCHANGED <<accountVars, fixedVars, pool, moved>>

-----------------------------------------------------------------------------
(* The relay's server and the chain *)

SetOwner ==
    /\ kind = "register"
    /\ stakeInfo.owner = None
    /\ relayer > 0
    /\ stakeInfo' = [stakeInfo EXCEPT !.owner = Owner]
    /\ relayer' = relayer - 1
    /\ UNCHANGED <<deposit, hubBalance, wallet, allowance, managerNonce, ready, fixedVars,
                   run, pool, managerTx, moved>>

BecomeReady ==
    /\ kind = "register"
    /\ ~ready
    /\ RelayManagerStaked
    /\ stakeInfo.owner = Owner
    /\ ready' = TRUE
    /\ UNCHANGED <<stakeInfo, relayer, deposit, hubBalance, wallet, allowance, managerNonce,
                   fixedVars, run, pool, managerTx, moved>>

ServerSends ==
    /\ kind = "withdraw"
    /\ managerTx = None
    /\ managerNonce = 0
    /\ managerTx' = [amount |-> 0, account |-> TRUE]
    /\ UNCHANGED <<accountVars, fixedVars, run, pool, moved>>

(* A withdrawal that the balance does not cover any more reverts. *)
MineManagerTx ==
    /\ managerTx # None
    /\ managerTx' = None
    /\ managerNonce' = managerNonce + 1
    /\ IF managerTx.account
       THEN relayer' = Max({relayer - managerTx.amount, 0}) /\ UNCHANGED hubBalance
       ELSE /\ hubBalance' = IF hubBalance >= managerTx.amount THEN hubBalance - managerTx.amount
                             ELSE hubBalance
            /\ UNCHANGED relayer
    /\ UNCHANGED <<stakeInfo, deposit, wallet, allowance, ready, fixedVars, run, pool, moved>>

CanStake(o, tx) ==
    /\ stakeInfo.owner = o
    /\ stakeInfo.token \in {None, tx.token}
    /\ tx.delay >= stakeInfo.delay
    /\ wallet[o] >= tx.value /\ allowance[o] >= tx.value

(* StakeManager and token: every transaction succeeds, or reverts and      *)
(* changes nothing; nobody looks at the receipt.                           *)
Applied(o, tx) ==
    \/ tx.type = "fund" /\ relayer' = relayer + Funds
       /\ UNCHANGED <<stakeInfo, deposit, wallet, allowance>>
    \/ tx.type = "wrap" /\ wallet' = [wallet EXCEPT ![o] = @ + tx.value]
       /\ UNCHANGED <<stakeInfo, relayer, deposit, allowance>>
    \/ tx.type = "approve" /\ allowance' = [allowance EXCEPT ![o] = tx.value]
       /\ UNCHANGED <<stakeInfo, relayer, deposit, wallet>>
    \/ tx.type = "stake" /\ CanStake(o, tx)
       /\ stakeInfo' = [stakeInfo EXCEPT !.token = tx.token, !.stake = @ + tx.value,
                                         !.delay = tx.delay]
       /\ wallet' = [wallet EXCEPT ![o] = @ - tx.value]
       /\ allowance' = [allowance EXCEPT ![o] = @ - tx.value]
       /\ UNCHANGED <<relayer, deposit>>
    \/ tx.type = "stake" /\ ~CanStake(o, tx)
       /\ UNCHANGED <<stakeInfo, relayer, deposit, wallet, allowance>>
    \/ tx.type = "authorize"
       /\ stakeInfo' = [stakeInfo EXCEPT !.authorized = @ \/ stakeInfo.owner = o]
       /\ UNCHANGED <<relayer, deposit, wallet, allowance>>
    \/ tx.type = "deposit" /\ deposit' = deposit + tx.value
       /\ UNCHANGED <<stakeInfo, relayer, wallet, allowance>>

MineTx(o) ==
    /\ pool[o] # <<>>
    /\ Applied(o, Head(pool[o]))
    /\ pool' = [pool EXCEPT ![o] = Tail(@)]
    /\ UNCHANGED <<hubBalance, managerNonce, ready, fixedVars, run, managerTx, moved>>

-----------------------------------------------------------------------------
NewRun == [step |-> "idle", option |-> None, seen |-> None, value |-> 0, tries |-> 0,
           nonce |-> 0, undisturbed |-> TRUE]

CommandsInit ==
    /\ \E start \in Starts :
          /\ kind = start.kind /\ node = start.node
          /\ stakeInfo = start.stakeInfo
          /\ relayer = start.relayer
          /\ deposit = start.deposit
          /\ hubBalance = start.hubBalance
          /\ wallet = start.wallet
    /\ run = [r \in Runs |-> NewRun]
    /\ allowance = [o \in Operators |-> 0]
    /\ pool = [o \in Operators |-> <<>>]
    /\ managerNonce = 0
    /\ managerTx = None
    /\ ready = FALSE
    /\ moved = 0

RegisterRelay(r) ==
    \/ Ping(r) \/ ReadStakeInfo(r) \/ FundRelay(r) \/ RelayFunded(r) \/ WaitForOwner(r)
    \/ CheckStake(r) \/ Wrap(r) \/ Approve(r) \/ SendStake(r) \/ Authorize(r) \/ WaitForRelay(r)

Withdraw(r) == CheckOwner(r) \/ ReadNonce(r) \/ ViewMode(r) \/ BroadcastWithdrawal(r)

Continue(r) == RegisterRelay(r) \/ ReadDeposit(r) \/ DepositFor(r) \/ Withdraw(r)

CommandsNext ==
    \/ \E r \in Runs : Start(r) \/ Continue(r)
    \/ \E o \in Operators : MineTx(o)
    \/ SetOwner \/ BecomeReady \/ ServerSends \/ MineManagerTx

CommandsSpec == CommandsInit /\ [][CommandsNext]_commandVars

(* The node mines and answers; nobody has to run a command. *)
FairCommandsSpec ==
    /\ CommandsSpec
    /\ \A r \in Runs : WF_commandVars(Continue(r))
    /\ \A o \in Operators : WF_commandVars(MineTx(o))

-----------------------------------------------------------------------------
Asked(k, what) == {run[r].option[what] : r \in {q \in Runs : kind = k /\ run[q].option # None}}
Undisturbed == \A r \in Runs : run[r].undisturbed

(* Runs one after the other, each after the transactions of the one before *)
(* were mined, leave the stake and the deposit at what was asked for: a    *)
(* run that is repeated pays nothing twice.                                *)
RepeatedPaysOnce ==
    Undisturbed =>
        /\ kind = "register" => stakeInfo.stake <=
               Max(Asked("register", "stake") \cup {s.stakeInfo.stake : s \in Starts})
        /\ kind = "fund" => deposit <= Max(Asked("fund", "amount") \cup {s.deposit : s \in Starts})

(* Every command ends. *)
RunsEnd == \A r \in Runs : Active(r) ~> run[r].step \in Ended

=============================================================================
