-------------------------- MODULE RelayRegistration --------------------------
(***************************************************************************)
(* How a GSN relay server gets registered, stays ready and gives its funds *)
(* back: relay/src/RegistrationManager.ts under the worker of              *)
(* relay/src/RelayServer.ts.                                               *)
(*                                                                         *)
(* The worker passes over the events of the StakeManager since its last    *)
(* scan, one at a time, with calls to the node in between: the chain goes  *)
(* on, the node may fail and the process may be restarted at any of them.  *)
(* The server's own transactions are pending, then mined, then for a while *)
(* recent (TxStoreManager); TransactionManager models how they get mined.  *)
(***************************************************************************)
EXTENDS Integers, Sequences, SequencesExt

CONSTANTS
    MaxMoves,       \* moves of the owner and of time that change the chain
    MaxFailures     \* calls to the node that fail, and restarts

ASSUME RegistrationAssumption == MaxMoves \in Nat /\ MaxFailures \in Nat

Places == {"hub", "worker", "manager"}
Withdrawals == {"hubToOwner", "workerToOwner", "managerToOwner"}
Once == {"setOwner", "authorizeHub", "addWorker", "register", "replenish"}
Actions == Once \cup Withdrawals
Kinds == {"OwnerSet", "StakeAdded", "StakeUnlocked", "StakeWithdrawn",
          "HubAuthorized", "HubUnauthorized"}

VARIABLES
    stake,      \* StakeManager: the manager's stake
    owner,      \* its owner is set
    hubAuth,    \* its hub is authorized
    workerAdded,\* RelayHub.workerToManager
    registry,   \* RelayRegistrar: the manager's entry
    log,        \* StakeManager's events about the manager
    due,        \* events HubUnauthorized whose removalTime has passed
    funds,      \* where the server's money is
    pending,    \* the server's transactions that wait to be mined, as sent ...
    recent,     \* ... and the kinds of those that were mined recently
    mem,        \* the fields of RegistrationManager and RelayServer
    scanned,    \* lastScannedBlock, as the number of events up to it
    round,      \* the pass of the worker: its step, the events up to the block it
                \* looks at, those it has fetched, those it has handled, and
                \* shouldRegisterAgain
    moves, failures

managerVars == <<stake, owner, hubAuth, workerAdded, registry, log, due>>
bounds == <<moves, failures>>
registrationVars == <<managerVars, funds, pending, recent, mem, scanned, round, bounds>>

\* A new process: isHubAuthorized, isStakeLocked, stakeRequired.isSatisfied,
\* balanceRequired.isSatisfied, ownerAddress, _isOwnerSetOnStakeManager,
\* _isSetOwnerCalled, currentRelayInfo, delayedEvents, shouldRefreshBalances, ready.
NewProcess ==
    [hub |-> FALSE, locked |-> FALSE, staked |-> FALSE, balance |-> "manager" \in funds,
     ownerKnown |-> FALSE, ownerSet |-> FALSE, setCalled |-> FALSE, info |-> FALSE,
     delayed |-> {}, refresh |-> TRUE, ready |-> FALSE]

NoRound == [step |-> "idle", block |-> 0, upto |-> 0, at |-> 0, force |-> FALSE]

\* RelayHub.verifyRelayManagerStaked, and the one error the server looks for.
StakedOnHub == stake = "locked" /\ hubAuth
NotAuthorized == stake = "locked" /\ ~hubAuth

\* isActionPendingOrRecentlyMined.
Pending == ToSet(pending)
PendingOrRecent(a) == a \in Pending \cup recent

(***************************************************************************)
(* RegistrationManager                                                     *)
(***************************************************************************)

BalanceRefreshed(m) == [m EXCEPT !.balance = "manager" \in funds]

\* What refreshStake makes of the fields.  Without stake it returns before it
\* looks at the lock.
Refreshed(m) ==
    LET m1 == [m EXCEPT !.hub = @ \/ StakedOnHub, !.ownerSet = owner]
    IN  IF stake \in {"none", "withdrawn"} THEN m1
        ELSE [m1 EXCEPT !.locked = stake = "locked", !.staked = TRUE, !.ownerKnown = TRUE]
When(condition, action) == IF condition THEN <<action>> ELSE <<>>
RefreshSends == When(NotAuthorized /\ ~PendingOrRecent("authorizeHub"), "authorizeHub")

\* withdrawAllFunds, from places that hold enough.
WithdrawSends(withManager) ==
    When("hub" \in funds, "hubToOwner") \o When("worker" \in funds, "workerToOwner")
    \o When(withManager /\ "manager" \in funds, "managerToOwner")

\* A broadcast makes the worker look at the balances again.  What is sent a
\* second time while the first is pending has nothing left to do; no step sends
\* more than four.
Queue(actions) ==
    LET New(i) == IF i <= Len(actions) /\ actions[i] \notin Pending THEN <<actions[i]>> ELSE <<>>
    IN  pending \o New(1) \o New(2) \o New(3) \o New(4)
Sends(m, actions) ==
    /\ pending' = Queue(actions)
    /\ mem' = IF actions = <<>> THEN m ELSE [m EXCEPT !.refresh = TRUE]

\* The node fails in a pass: the worker gives up and is not ready.
Fails(m, actions) ==
    /\ failures < MaxFailures /\ failures' = failures + 1
    /\ round' = NoRound
    /\ Sends([m EXCEPT !.ready = FALSE], actions)

RegistrationInit ==
    /\ stake = "none" /\ owner = FALSE /\ hubAuth = FALSE
    /\ workerAdded = FALSE /\ registry = "none"
    /\ log = <<>> /\ due = {}
    /\ funds \in {{}, {"manager"}}
    /\ pending = <<>> /\ recent = {}
    /\ mem = NewProcess
    /\ scanned = 0
    /\ round = NoRound
    /\ moves = 0 /\ failures = 0

(***************************************************************************)
(* RelayServer._worker                                                     *)
(***************************************************************************)

\* _refreshAndCheckBalances: a manager without balance ends the pass.
Checked(m) ==
    IF ~m.refresh THEN m
    ELSE [BalanceRefreshed(m) EXCEPT
                   !.ready = @ /\ {"manager", "worker"} \subseteq funds,
                   !.refresh = ~({"manager", "worker"} \subseteq funds)]
Wake ==
    /\ round = NoRound
    /\ mem' = Checked(mem)
    /\ \/ mem.refresh /\ "manager" \notin funds /\ UNCHANGED round
       \/ /\ ~mem.refresh \/ "manager" \in funds
          /\ round' = [NoRound EXCEPT !.step = "scan", !.block = Len(log)]
    /\ UNCHANGED <<managerVars, funds, pending, recent, scanned, bounds>>

\* _shouldRegisterAgain, then the events since the last scan, and the owner,
\* whom the server sets once: the flag is set before the transaction is sent.
ShouldRegisterAgain == registry # "current" /\ ~PendingOrRecent("register")
MustSetOwner == ~mem.ownerSet /\ mem.balance /\ ~mem.setCalled
Scan ==
    /\ round.step = "scan"
    /\ LET called == IF MustSetOwner THEN [mem EXCEPT !.setCalled = TRUE] ELSE mem
       IN  \/ /\ round' = [round EXCEPT !.step = "events", !.upto = Len(log), !.at = scanned,
                                      !.force = ShouldRegisterAgain]
              /\ UNCHANGED failures
              /\ Sends(called, When(MustSetOwner, "setOwner"))
           \/ Fails(mem, <<>>)
           \/ MustSetOwner /\ Fails(called, <<>>)
    /\ UNCHANGED <<managerVars, funds, recent, scanned, moves>>

\* One event.  A second call to the node in it may fail after the first has
\* sent something.
HandleEvent ==
    /\ round.step = "events" /\ round.at < round.upto
    /\ LET next == round.at + 1
           kind == log[next]
           m == Refreshed(mem)
           On == round' = [round EXCEPT !.at = next] /\ UNCHANGED failures
       IN  \/ /\ kind = "HubAuthorized" /\ Sends([mem EXCEPT !.hub = TRUE], <<>>)
              /\ On
           \/ /\ kind = "HubUnauthorized"
              /\ Sends([mem EXCEPT !.hub = FALSE, !.delayed = @ \cup {next}], <<>>)
              /\ On
           \/ /\ kind \in {"OwnerSet", "StakeAdded", "StakeUnlocked"}
              /\ Sends(m, RefreshSends) /\ On
           \/ /\ kind = "StakeWithdrawn" /\ m.ownerKnown
              /\ Sends(m, RefreshSends \o WithdrawSends(TRUE)) /\ On
           \/ /\ kind = "StakeWithdrawn" /\ ~m.ownerKnown
              /\ round' = NoRound /\ Sends([m EXCEPT !.ready = FALSE], RefreshSends)
              /\ UNCHANGED failures
           \/ /\ kind = "StakeWithdrawn" /\ m.ownerKnown
              /\ Fails(m, RefreshSends \o When("hub" \in funds, "hubToOwner"))
           \/ kind \notin {"HubAuthorized", "HubUnauthorized"} /\ Fails(mem, <<>>)
    /\ UNCHANGED <<managerVars, funds, recent, scanned, moves>>

\* _extractDuePendingEvents, which forgets the due events before they are handled:
\* they are lost when the node fails then, or when the owner is not known.
\* Mutant: every delayed event is due.
AllDelayed == mem.delayed
DueNow == mem.delayed \cap due
HandleDue ==
    /\ round.step = "events" /\ round.at = round.upto
    /\ LET m == [mem EXCEPT !.delayed = @ \ DueNow]
       IN  \/ /\ DueNow = {} /\ round' = [round EXCEPT !.step = "register"]
              /\ Sends(m, <<>>) /\ UNCHANGED failures
           \/ /\ DueNow # {} /\ mem.ownerKnown /\ round' = [round EXCEPT !.step = "register"]
              /\ Sends(m, WithdrawSends(FALSE)) /\ UNCHANGED failures
           \/ /\ DueNow # {} /\ (mem.ownerKnown => failures < MaxFailures)
              /\ failures' = IF mem.ownerKnown THEN failures + 1 ELSE failures
              /\ round' = NoRound /\ Sends([m EXCEPT !.ready = FALSE], <<>>)
    /\ UNCHANGED <<managerVars, funds, recent, scanned, moves>>

\* refreshRegistrarRelayInfo and attemptRegistration.
\* Mutant: the worker must have been added before.
PrerequisitesWithWorker ==
    mem.hub /\ mem.locked /\ mem.staked /\ mem.balance /\ StakedOnHub /\ workerAdded
Prerequisites == mem.hub /\ mem.locked /\ mem.staked /\ mem.balance /\ StakedOnHub
AddWorkerSends == When(~workerAdded /\ ~PendingOrRecent("addWorker"), "addWorker")
Register ==
    /\ round.step = "register"
    /\ LET m == [mem EXCEPT !.info = registry # "none"]
           needed == round.force \/ (~m.info /\ ~PendingOrRecent("register"))
       IN  \/ /\ ~needed /\ round' = [round EXCEPT !.step = "finish"]
              /\ Sends(m, <<>>) /\ UNCHANGED failures
           \/ /\ needed /\ Prerequisites /\ round' = [round EXCEPT !.step = "finish"]
              /\ Sends(m, Append(AddWorkerSends, "register")) /\ UNCHANGED failures
           \/ /\ needed /\ ~Prerequisites /\ round' = [round EXCEPT !.step = "finish"]
              /\ Sends(BalanceRefreshed(Refreshed(m)), RefreshSends)
              /\ UNCHANGED failures
           \/ needed /\ Prerequisites /\ Fails(m, AddWorkerSends)
    /\ UNCHANGED <<managerVars, funds, recent, scanned, moves>>

\* isRegistered, from the fields alone; then replenishServer fills the worker.
\* Mutant: the scan counts as far as the chain is by now.
ScannedNow == Len(log)
Scanned == round.block
IsRegistered(m) == m.staked /\ m.locked /\ m.hub /\ m.info
MustReplenish ==
    "worker" \notin funds /\ "manager" \in funds /\ mem.balance /\ ~PendingOrRecent("replenish")
ReplenishSends == When(MustReplenish, "replenish")
Finish ==
    /\ round.step = "finish" /\ round' = NoRound
    /\ scanned' = Scanned
    /\ \/ ~IsRegistered(mem) /\ Sends([mem EXCEPT !.ready = FALSE], <<>>)
       \/ /\ IsRegistered(mem)
          /\ pending' = Queue(ReplenishSends)
          /\ LET m == IF MustReplenish THEN [mem EXCEPT !.refresh = TRUE] ELSE mem
             IN  mem' = [Checked(m) EXCEPT !.ready = TRUE]
    /\ UNCHANGED <<managerVars, funds, recent, bounds>>

\* The process is restarted: it scans again from ten blocks back and begins
\* with refreshBalance and refreshStake.  What was left of the pass is lost.
RestartServer ==
    /\ failures < MaxFailures /\ failures' = failures + 1
    /\ round' = NoRound
    /\ scanned' \in 0 .. Len(log)
    /\ Sends(Refreshed(NewProcess), RefreshSends)
    /\ UNCHANGED <<managerVars, funds, recent, moves>>

WorkerStep == Wake \/ Scan \/ HandleEvent \/ HandleDue \/ Register \/ Finish

(***************************************************************************)
(* The chain                                                               *)
(***************************************************************************)
Logs(kind) == log' = Append(log, kind)

\* A transaction is mined; one the contracts no longer accept reverts.
Takes(a) ==
    CASE a = "setOwner" -> ~owner
      [] a = "authorizeHub" -> owner
      [] a = "addWorker" -> StakedOnHub /\ ~workerAdded
      [] a = "register" -> StakedOnHub /\ workerAdded
      [] a = "replenish" -> "manager" \in funds
      [] a \in Withdrawals -> TRUE
\* The manager's transactions are mined in order; the worker's is another account.
NextUp ==
    {pending[i] : i \in {j \in DOMAIN pending :
        pending[j] # "workerToOwner" => \A k \in 1 .. j - 1 : pending[k] = "workerToOwner"}}
Place(w) ==
    CASE w = "hubToOwner" -> "hub" [] w = "workerToOwner" -> "worker"
      [] w = "managerToOwner" -> "manager"
Mine(a) ==
    /\ a \in NextUp /\ pending' = RemoveFirst(pending, a)
    /\ recent' = recent \cup ({a} \cap Once)
    /\ owner' = (owner \/ a = "setOwner")
    /\ hubAuth' = (hubAuth \/ (a = "authorizeHub" /\ Takes(a)))
    /\ workerAdded' = (workerAdded \/ (a = "addWorker" /\ Takes(a)))
    /\ registry' = IF a = "register" /\ Takes(a) THEN "current" ELSE registry
    /\ \/ a = "setOwner" /\ Takes(a) /\ Logs("OwnerSet")
       \/ a = "authorizeHub" /\ Takes(a) /\ Logs("HubAuthorized")
       \/ (a \notin {"setOwner", "authorizeHub"} \/ ~Takes(a)) /\ UNCHANGED log
    /\ funds' = CASE a \in Withdrawals -> funds \ {Place(a)}
                  [] a = "replenish" /\ Takes(a) -> funds \cup {"worker"}
                  [] OTHER -> funds
    /\ UNCHANGED <<stake, due, mem, scanned, round, bounds>>

\* recentActionAvoidRepeatDistanceBlocks pass.  A pass has one block to count from.
Age ==
    /\ round = NoRound /\ recent # {} /\ recent' = {}
    /\ UNCHANGED <<managerVars, funds, pending, mem, scanned, round, bounds>>

\* Relayed calls are paid into the hub.
Earn ==
    /\ mem.ready /\ StakedOnHub /\ "worker" \in funds
    /\ funds' = funds \cup {"hub"}
    /\ UNCHANGED <<managerVars, pending, recent, mem, scanned, round, bounds>>

Move == moves < MaxMoves /\ moves' = moves + 1
OwnerStakes ==
    /\ owner /\ stake \in {"none", "withdrawn"} /\ stake' = "locked" /\ Logs("StakeAdded")
    /\ UNCHANGED <<owner, hubAuth, workerAdded, registry, due, funds>>
OwnerUnlocks ==
    /\ stake = "locked" /\ stake' = "unlocked" /\ Logs("StakeUnlocked")
    /\ UNCHANGED <<owner, hubAuth, workerAdded, registry, due, funds>>
OwnerWithdraws ==
    /\ stake = "unlocked" /\ stake' = "withdrawn" /\ Logs("StakeWithdrawn")
    /\ UNCHANGED <<owner, hubAuth, workerAdded, registry, due, funds>>
OwnerUnauthorizes ==
    /\ hubAuth /\ hubAuth' = FALSE /\ Logs("HubUnauthorized")
    /\ UNCHANGED <<stake, owner, workerAdded, registry, due, funds>>
Mature ==
    /\ \E i \in DOMAIN log \ due : log[i] = "HubUnauthorized" /\ due' = due \cup {i}
    /\ UNCHANGED <<stake, owner, hubAuth, workerAdded, registry, log, funds>>
Expires ==
    /\ registry = "current" /\ registry' = "expired"
    /\ UNCHANGED <<stake, owner, hubAuth, workerAdded, log, due, funds>>
OwnerFunds ==
    /\ "manager" \notin funds /\ funds' = funds \cup {"manager"}
    /\ UNCHANGED managerVars
Environment ==
    /\ Move
    /\ \/ OwnerStakes \/ OwnerUnlocks \/ OwnerWithdraws \/ OwnerUnauthorizes
       \/ Mature \/ Expires \/ OwnerFunds
    /\ UNCHANGED <<pending, recent, mem, scanned, round, failures>>

RegistrationNext ==
    \/ WorkerStep \/ RestartServer \/ (\E a \in Actions : Mine(a))
    \/ Environment \/ Earn \/ Age

\* setTimeout calls the worker again after every pass, and blocks come.
RegistrationFairness ==
    /\ WF_registrationVars(WorkerStep)
    /\ WF_registrationVars(\E a \in Actions : Mine(a))
    /\ WF_registrationVars(Age)
RegistrationSpec == RegistrationInit /\ [][RegistrationNext]_registrationVars
FairRegistrationSpec == RegistrationSpec /\ RegistrationFairness

(***************************************************************************)
(* Properties                                                              *)
(***************************************************************************)
\* Every variable has its type, and the scan never runs ahead of the chain.
RegistrationTypeOK ==
    /\ stake \in {"none", "locked", "unlocked", "withdrawn"}
    /\ {owner, hubAuth, workerAdded, round.force} \subseteq BOOLEAN
    /\ registry \in {"none", "current", "expired"}
    /\ log \in Seq(Kinds) /\ due \subseteq DOMAIN log
    /\ funds \subseteq Places /\ Pending \subseteq Actions /\ recent \subseteq Once
    /\ \A f \in DOMAIN mem \ {"delayed"} : mem[f] \in BOOLEAN
    /\ mem.delayed \subseteq DOMAIN log
    /\ round.step \in {"idle", "scan", "events", "register", "finish"}
    /\ {scanned, round.block, round.upto, round.at} \subseteq 0 .. Len(log)
    /\ failures <= MaxFailures /\ moves <= MaxMoves

\* The server gives no money away that it still needs: the manager's own
\* balance goes only once the stake was withdrawn, and the worker's only then or
\* when the hub's removal time has passed.
Logged(kind) == \E i \in DOMAIN log : log[i] = kind
WithdrawnWhenDue ==
    /\ "managerToOwner" \in Pending => Logged("StakeWithdrawn")
    /\ {"workerToOwner", "hubToOwner"} \cap Pending # {} =>
           Logged("StakeWithdrawn") \/ due # {}

\* Once the owner has staked and leaves the stake and the hub alone, the server
\* gets itself authorized, registered and ready, whatever was lost on the way.
Settled == stake = "locked" /\ ~Logged("HubUnauthorized")
GetsReady == <>[](Settled /\ "manager" \in funds) => <>[](registry # "none" /\ mem.ready)

\* When the stake was withdrawn for good, the owner gets what the server and the
\* hub hold for him, if the server still knows him, though it may have missed
\* the event at first or failed in the middle.  A replenishment under way may
\* leave the worker something.
WithdrawnForGood == stake = "withdrawn" /\ mem.ownerKnown
FundsReturned == <>[]WithdrawnForGood => <>(funds \subseteq {"worker"})
=============================================================================
