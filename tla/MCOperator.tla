----------------------------- MODULE MCOperator -----------------------------
(***************************************************************************)
(* What an operator runs: the commands of Commands against a chain and a   *)
(* relay of their own, or the deployments of Deployer.                     *)
(***************************************************************************)
EXTENDS Commands, Deployer
CONSTANTS own, other, tk
VARIABLES topic

StakeOf(owner, token, stake) ==
    [owner |-> owner, token |-> token, stake |-> stake, delay |-> stake, authorized |-> FALSE]
NoWallet == [o \in {own, other} |-> 0]
AStart ==
    [kind |-> "register", node |-> "public", stakeInfo |-> StakeOf(own, tk, 1), relayer |-> 0,
     deposit |-> 0, hubBalance |-> 0, wallet |-> NoWallet]
MCStarts ==
    {[AStart EXCEPT !.stakeInfo = i, !.relayer = IF i.owner = None THEN 0 ELSE 2]
        : i \in {StakeOf(None, None, 0), StakeOf(own, tk, 1), StakeOf(other, None, 0)}}
    \cup {[AStart EXCEPT !.wallet[own] = 3]}
    \cup {[AStart EXCEPT !.kind = "fund", !.deposit = d] : d \in {0, 2}}
    \cup {[AStart EXCEPT !.kind = "withdraw", !.node = n, !.relayer = 2, !.hubBalance = 2]
          : n \in {"public", "dev"}}

Registration(from, token, stake, delay, wrap) ==
    [from |-> from, token |-> token, stake |-> stake, delay |-> delay, wrap |-> wrap]
MCRegisterOptions ==
    {Registration(own, None, 2, 1, FALSE), Registration(own, None, 3, 1, TRUE),
     Registration(own, None, 2, 2, TRUE), Registration(other, tk, 2, 1, TRUE)}
MCFundAmounts == [from : {own, other}, amount : 1..3]
MCWithdrawOptions == [amount : 1..2, account : BOOLEAN, broadcast : BOOLEAN]

AConfig == [hubConfig |-> 1, devAddress |-> 1, maxAge |-> 1, penalizeBlockDelay |-> 1,
            penalizeBlockExpiration |-> 2, minimumStake |-> 1]
MCConfigs ==
    {AConfig, [AConfig EXCEPT !.hubConfig = 2, !.maxAge = 2, !.minimumStake = 2, !.devAddress = 2]}
MCCliOptions == [testToken : BOOLEAN, stakingToken : {Nothing, 0}, paymaster : BOOLEAN,
                 minimum : {5}]

CommandStep == topic = "commands" /\ CommandsNext /\ UNCHANGED <<topic, deployerVars>>
DeployStep == topic = "deployer" /\ DeployerNext /\ UNCHANGED <<topic, commandVars>>

(* The other half starts, and stays, in one state. *)
MCInit ==
    /\ CommandsInit /\ DeployerInit
    /\ \/ topic = "commands" /\ contract = <<>>
       \/ topic = "deployer" /\ kind = "fund" /\ deposit = 0
MCNext == CommandStep \/ DeployStep
MCSpec == MCInit /\ [][MCNext]_<<commandVars, topic, deployerVars>>
(* The fairness of Commands. *)
MCFairSpec ==
    /\ MCSpec
    /\ \A r \in Runs :
          WF_commandVars(topic = "commands" /\ Continue(r) /\ UNCHANGED <<topic, deployerVars>>)
    /\ \A o \in Operators :
          WF_commandVars(topic = "commands" /\ MineTx(o) /\ UNCHANGED <<topic, deployerVars>>)
=============================================================================
