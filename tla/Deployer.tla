------------------------------ MODULE Deployer ------------------------------
(***************************************************************************)
(* The deployment of the GSN contracts: the script that is run again after *)
(* every change of the configuration and after every crash                 *)
(* (packages/deployer: deploy.ts, deployUtils.ts), and the CLI command     *)
(* that deploys what it is not given the address of                        *)
(* (CommandsLogic.deployGsnContracts).  Contracts are numbered in the      *)
(* order of their deployment.                                              *)
(***************************************************************************)
EXTENDS Integers, Sequences, FiniteSets, SequencesExt, Functions

CONSTANTS
    Commands,           \* "deploy", "applyConfig" of the script; "cli"
    Configs,            \* contents of the configuration file
    CliOptions,
    MaxContracts,       \* bound: contracts
    MaxRuns, MaxCliRuns,  \* bounds: runs of the script, of the CLI
    TestStake,          \* 10^18
    Nothing             \* no address, no configuration

VARIABLES
    records,            \* hardhat-deploy's files: address and arguments by name
    step,               \* of the run under way, or how the last one ended
    command,            \* the command that runs or ran last
    env,                \* the configuration that the run has read
    txCount,            \* transactions of the run
    given, made,        \* addresses that the CLI is given, and uses
    options,            \* other options of the CLI
    runs,               \* bound: runs so far
    undisturbed,        \* nothing was pending when the run started
    settled,            \* the configuration of the last run, if it deployed it all
    contract,           \* contracts on the chain
    typed,              \* what is registered at each forwarder
    unmined             \* calls of setConfiguration that are not mined yet

onChain == <<contract, typed>>
history == <<undisturbed, settled>>
cliVars == <<given, made, options>>
deployerVars == <<records, step, command, env, txCount, cliVars, runs, history, onChain, unmined>>

Names == {"TestToken", "Forwarder", "Penalizer", "StakeManager", "RelayRegistrar", "RelayHub",
          "Paymaster"}
Over == {"idle", "done", "failed"}

-----------------------------------------------------------------------------
(* deploymentFunc *)

ScriptSteps == <<"TestToken", "Forwarder", "requestType", "domain", "Penalizer", "StakeManager",
           "RelayRegistrar", "RelayHub", "hubConfig", "checkConfig", "stakes", "devAddress",
           "maxAge", "Paymaster", "pmHub", "pmForwarder", "pmDeposit">>

After(s) ==
    LET i == CHOOSE k \in DOMAIN ScriptSteps : ScriptSteps[k] = s
    IN  IF i = Len(ScriptSteps) \/ (command = "applyConfig" /\ s = "maxAge") THEN "done"
        ELSE ScriptSteps[i + 1]

AtStep(s) == step = s /\ command # "cli"
Record(name) == records[name].address
Hub == Record("RelayHub")
Next1(s) == step' = After(s)
Called == txCount' = txCount + 1
SendsOne(s) == Next1(s) /\ Called

(* The arguments of each constructor, all taken from the environment and   *)
(* from the contracts before it.                                           *)
Arguments(name) ==
    CASE name = "Penalizer" -> <<env.penalizeBlockDelay, env.penalizeBlockDelay>>
      [] name = "StakeManager" -> <<env.devAddress>>
      [] name = "RelayRegistrar" -> <<env.maxAge>>
      [] name = "RelayHub" -> <<Record("StakeManager"), Record("Penalizer"),
                                Record("RelayRegistrar"), env.hubConfig, env.devAddress>>
      [] OTHER -> <<>>

(* What a new contract holds. *)
Fresh(name, args) ==
    CASE name = "Penalizer" -> [name |-> name, delay |-> args[1], expiration |-> args[2]]
      [] name = "StakeManager" -> [name |-> name, devAddress |-> args[1]]
      [] name = "RelayRegistrar" -> [name |-> name, maxAge |-> args[1]]
      [] name = "RelayHub" -> [name |-> name, stakeManager |-> args[1], penalizer |-> args[2],
                               registrar |-> args[3], config |-> <<args[4], args[5]>>,
                               stakes |-> {}, deposits |-> {}]
      [] name = "Paymaster" -> [name |-> name, hub |-> Nothing, forwarder |-> Nothing]
      [] OTHER -> [name |-> name]

HubOnce(name) ==
    name \in DOMAIN records /\ (name = "RelayHub" \/ records[name].args = Arguments(name))

(* "re-deploy only on change" *)
IsDeployed(name) == name \in DOMAIN records /\ records[name].args = Arguments(name)

(* The forwarder has the same address for everybody: it is there already   *)
(* if anyone has deployed it.                                              *)
ForwarderExists == \E i \in DOMAIN contract : contract[i].name = "Forwarder"

NewlyDeployed(name) == ~IsDeployed(name) /\ ~(name = "Forwarder" /\ ForwarderExists)

(* What hardhat-deploy writes to the contract's file. *)
Saved(name, address) ==
    records' = [n \in DOMAIN records \cup {name} |->
                  IF n = name THEN [address |-> address, args |-> Arguments(name)]
                  ELSE records[n]]

DeployContract(name) ==
    /\ AtStep(name)
    /\ IF name = "Forwarder" /\ ~NewlyDeployed(name)
       THEN step' = "Penalizer" ELSE Next1(name)
    /\ IF NewlyDeployed(name)
       THEN /\ contract' = Append(contract, Fresh(name, Arguments(name)))
            /\ Saved(name, Len(contract) + 1)
            /\ Called
       ELSE /\ UNCHANGED <<contract, txCount>>
            /\ IF name \in DOMAIN records THEN UNCHANGED records
               ELSE Saved(name, CHOOSE i \in DOMAIN contract : contract[i].name = name)
    /\ UNCHANGED <<command, env, cliVars, runs, history, typed, unmined>>

(* registerRequestType and registerDomainSeparator, only if the forwarder  *)
(* was deployed by this run.                                               *)
RegisterTypes ==
    \E what \in {"requestType", "domain"} :
        /\ AtStep(what)
        /\ SendsOne(what)
        /\ typed' = typed \cup {<<Record("Forwarder"), what>>}
        /\ UNCHANGED <<records, command, env, cliVars, runs, history, contract, unmined>>

(* applyHubConfiguration: setConfiguration is sent, and the configuration  *)
(* read again at once, mined or not.                                       *)
NewConfig == <<env.hubConfig, env.devAddress>>

SetConfiguration ==
    /\ AtStep("hubConfig")
    /\ IF contract[Hub].config = NewConfig
       THEN step' = "stakes" /\ UNCHANGED <<txCount, unmined>>
       ELSE SendsOne("hubConfig") /\ unmined' = Append(unmined, <<Hub, NewConfig>>)
    /\ UNCHANGED <<records, command, env, cliVars, runs, history, onChain>>

CheckConfiguration ==
    /\ AtStep("checkConfig")
    /\ step' = IF contract[Hub].config = NewConfig THEN "stakes" ELSE "failed"
    /\ UNCHANGED <<records, command, env, txCount, cliVars, runs, history, onChain, unmined>>

SetConfigurationMined ==
    /\ unmined # <<>>
    /\ LET tx == Head(unmined) IN contract' = [contract EXCEPT ![tx[1]].config = tx[2]]
    /\ unmined' = Tail(unmined)
    /\ UNCHANGED <<records, step, command, env, txCount, cliVars, runs, history, typed>>

(* setField, setDevAddress, setMinimumStakes, depositFor: a value that is  *)
(* right already costs nothing.                                            *)
SetIfChanged(s, id, field, value) ==
    /\ AtStep(s)
    /\ Next1(s)
    /\ IF contract[id][field] = value THEN UNCHANGED <<contract, txCount>>
       ELSE contract' = [contract EXCEPT ![id][field] = value] /\ Called
    /\ UNCHANGED <<records, command, env, cliVars, runs, history, typed, unmined>>

Stakes == {<<Record("TestToken"), env.minimumStake>>}

ApplyConfig ==
    \/ SetIfChanged("stakes", Hub, "stakes", Stakes)
    \/ SetIfChanged("devAddress", Record("StakeManager"), "devAddress", env.devAddress)
    \/ SetIfChanged("maxAge", Record("RelayRegistrar"), "maxAge", env.maxAge)

Deposit ==
    SetIfChanged("pmDeposit", Hub, "deposits", contract[Hub].deposits \cup {Record("Paymaster")})

SetPaymaster ==
    \/ SetIfChanged("pmHub", Record("Paymaster"), "hub", Hub)
    \/ SetIfChanged("pmForwarder", Record("Paymaster"), "forwarder", Record("Forwarder"))

-----------------------------------------------------------------------------
(* Runs of the script *)

(* The configuration may have been edited since the last run. *)
StartScript(c) ==
    /\ c \in Commands \ {"cli"}
    /\ step \in Over /\ env = Nothing
    /\ command # "cli"
    /\ runs < MaxRuns
    /\ Len(contract) + Len(SelectSeq(ScriptSteps, LAMBDA s : s \in Names)) <= MaxContracts
    /\ c = "applyConfig" => "RelayHub" \in DOMAIN records
    /\ step' = IF c = "applyConfig" THEN "hubConfig" ELSE "TestToken"
    /\ command' = c
    /\ env' \in Configs
    /\ txCount' = 0
    /\ runs' = runs + 1
    /\ undisturbed' = (unmined = <<>>)
    /\ UNCHANGED <<records, cliVars, settled, onChain, unmined>>

(* The process is killed, or the node does not answer. *)
Crash ==
    /\ step \notin Over
    /\ step' = "failed"
    /\ UNCHANGED <<records, command, env, txCount, cliVars, runs, history, onChain, unmined>>

(* The script ends; what it found settled, and what it leaves. *)
Close ==
    /\ step \in Over
    /\ env # Nothing
    /\ settled' = IF step = "done" /\ command = "deploy" /\ unmined = <<>> THEN env ELSE Nothing
    /\ env' = Nothing
    /\ txCount' = 0
    /\ undisturbed' = TRUE
    /\ UNCHANGED <<records, step, command, cliVars, runs, onChain, unmined>>

-----------------------------------------------------------------------------
(* CommandsLogic.deployGsnContracts *)

CliSteps == <<"RelayRegistrar", "StakeManager", "Penalizer", "Forwarder", "RelayHub", "registrar",
              "Paymaster", "pmHub", "pmForwarder", "requestType", "domain", "TestToken",
              "testStake", "stakes">>

CliAfter(s) == LET i == CHOOSE k \in DOMAIN CliSteps : CliSteps[k] = s
               IN  IF i = Len(CliSteps) THEN "done" ELSE CliSteps[i + 1]

AtCli(s) == step = s /\ command = "cli"
CliGoes(s) == step' = CliAfter(s)

(* Addresses are given of any contracts that exist. *)
StartCli ==
    /\ "cli" \in Commands
    /\ step \in Over
    /\ command \in {Nothing, "cli"}
    /\ runs < MaxCliRuns
    /\ Len(contract) + Cardinality(Names) <= MaxContracts
    /\ runs' = runs + 1
    /\ command' = "cli"
    /\ \E o \in CliOptions :
          /\ options' = o
          /\ step' = IF o.testToken = (o.stakingToken # Nothing) THEN "failed" ELSE "RelayRegistrar"
    /\ \E known \in SUBSET {n \in Names \ {"TestToken", "Paymaster"} :
                              \E i \in DOMAIN contract : contract[i].name = n} :
          given' = [n \in Names |->
                      IF n \in known THEN CHOOSE i \in DOMAIN contract : contract[i].name = n
                      ELSE Nothing]
    /\ made' = given'
    /\ UNCHANGED <<records, env, txCount, history, onChain, unmined>>

CliArguments(name) ==
    CASE name = "Penalizer" -> <<1, 2>>
      [] name = "RelayHub" -> <<made["StakeManager"], made["Penalizer"], made["RelayRegistrar"],
                                1, 1>>
      [] OTHER -> <<1>>

Wanted(name) ==
    CASE name = "Paymaster" -> options.paymaster
      [] name = "TestToken" -> options.testToken
      [] OTHER -> made[name] = Nothing

(* getContractInstance: nothing is deployed without a "yes". *)
GetContractInstance(name) ==
    /\ AtCli(name)
    /\ IF Wanted(name)
       THEN \E confirmed \in BOOLEAN :
              IF confirmed
              THEN /\ contract' = Append(contract, Fresh(name, CliArguments(name)))
                   /\ made' = [made EXCEPT ![name] = Len(contract) + 1]
                   /\ CliGoes(name)
              ELSE step' = "failed" /\ UNCHANGED <<contract, made>>
       ELSE /\ step' = CASE name = "Paymaster" -> "requestType"
                         [] name = "TestToken" -> "stakes"
                         [] OTHER -> CliAfter(name)
            /\ UNCHANGED <<contract, made>>
    /\ UNCHANGED <<records, command, env, txCount, given, options, runs, history, typed, unmined>>

CliSets(s, id, field, value) ==
    /\ AtCli(s)
    /\ CliGoes(s)
    /\ contract' = [contract EXCEPT ![id][field] = value]
    /\ UNCHANGED <<records, command, env, txCount, cliVars, runs, history, typed, unmined>>

RegistrarSet == made["RelayRegistrar"]

WithStake(token) ==
    {s \in contract[made["RelayHub"]].stakes : s[1] # token} \cup {<<token, options.minimum>>}

CliToken == IF options.testToken THEN made["TestToken"] ELSE options.stakingToken

CliWires ==
    \/ CliSets("registrar", made["RelayHub"], "registrar", RegistrarSet)
    \/ CliSets("pmHub", made["Paymaster"], "hub", made["RelayHub"])
    \/ CliSets("pmForwarder", made["Paymaster"], "forwarder", made["Forwarder"])
    \/ CliSets("testStake", made["RelayHub"], "stakes",
               contract[made["RelayHub"]].stakes \cup {<<made["TestToken"], TestStake>>})
    \/ CliSets("stakes", made["RelayHub"], "stakes", WithStake(CliToken))

(* registerForwarderForGsn *)
CliRegistersTypes ==
    \E what \in {"requestType", "domain"} :
        /\ AtCli(what)
        /\ CliGoes(what)
        /\ typed' = typed \cup {<<made["Forwarder"], what>>}
        /\ UNCHANGED <<records, command, env, txCount, cliVars, runs, history, contract, unmined>>

-----------------------------------------------------------------------------
DeployerInit ==
    /\ records = <<>>
    /\ step = "idle"
    /\ command = Nothing
    /\ env = Nothing
    /\ txCount = 0
    /\ given = [n \in Names |-> Nothing]
    /\ made = [n \in Names |-> Nothing]
    /\ options = Nothing
    /\ runs = 0
    /\ settled = Nothing
    /\ undisturbed = TRUE
    /\ contract \in {<<>>, <<[name |-> "Forwarder"]>>}
    /\ typed = {}
    /\ unmined = <<>>

Script ==
    \/ \E name \in Names : DeployContract(name)
    \/ RegisterTypes \/ SetConfiguration \/ CheckConfiguration \/ ApplyConfig
    \/ SetPaymaster \/ Deposit

Cli == (\E name \in Names : GetContractInstance(name)) \/ CliWires \/ CliRegistersTypes

DeployerNext ==
    \/ Script \/ Cli \/ SetConfigurationMined \/ Crash \/ Close
    \/ \E c \in Commands : StartScript(c)
    \/ StartCli

DeployerSpec == DeployerInit /\ [][DeployerNext]_deployerVars

-----------------------------------------------------------------------------
Deployed == step = "done" /\ command = "deploy" /\ env # Nothing
TheOf(name) == contract[Record(name)]

(* Whatever crashed before and wherever, a deployment that ends well left  *)
(* everything as configured: the contracts of this configuration, wired to *)
(* one another, and the values that have setters.  A setConfiguration that *)
(* was pending when it started may still undo it.                          *)
EndsAsConfigured ==
    Deployed /\ undisturbed =>
        /\ TheOf("RelayHub").stakeManager = Record("StakeManager")
        /\ TheOf("RelayHub").penalizer = Record("Penalizer")
        /\ TheOf("RelayHub").registrar = Record("RelayRegistrar")
        /\ TheOf("RelayHub").config = NewConfig
        /\ TheOf("RelayHub").stakes = Stakes
        /\ TheOf("StakeManager").devAddress = env.devAddress
        /\ TheOf("RelayRegistrar").maxAge = env.maxAge
        /\ TheOf("Paymaster").hub = Hub
        /\ TheOf("Paymaster").forwarder = Record("Forwarder")
        /\ Record("Paymaster") \in TheOf("RelayHub").deposits

(* "should NOT deploy with no change": a deployment after a complete one   *)
(* of the same configuration sends no transaction.                         *)
NoChangeSendsNothing == env # Nothing /\ command = "deploy" /\ env = settled => txCount = 0

(* What the CLI reports as a deployment works together: the hub knows the  *)
(* registrar and the staking token, and the stake manager and penalizer if *)
(* it is new; the forwarder knows the request type.                        *)
CliDeploymentIsWired ==
    command = "cli" /\ step = "done" =>
        LET hub == contract[made["RelayHub"]]
        IN  /\ hub.registrar = made["RelayRegistrar"]
            /\ {s \in hub.stakes : s[1] = CliToken} = {<<CliToken, options.minimum>>}
            /\ given["RelayHub"] = Nothing => /\ hub.stakeManager = made["StakeManager"]
                                           /\ hub.penalizer = made["Penalizer"]
            /\ {<<made["Forwarder"], what>> : what \in {"requestType", "domain"}} \subseteq typed
            /\ options.paymaster => contract[made["Paymaster"]].hub = made["RelayHub"]

(* The penalizer is deployed with penalizeBlockDelay and                   *)
(* penalizeBlockExpiration of the environment.  The script passes the      *)
(* delay for both.                                                         *)
PenalizerIsAsConfigured ==
    Deployed => TheOf("Penalizer").expiration = env.penalizeBlockExpiration

=============================================================================
