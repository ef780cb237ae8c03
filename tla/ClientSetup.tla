----------------------------- MODULE ClientSetup -----------------------------
(***************************************************************************)
(* How a RelayClient becomes ready: init(), _initInternal(), the           *)
(* resolution of its configuration and of its dependencies                 *)
(* (provider/src/RelayClient.ts), and ContractInteractor.init() with the   *)
(* resolution of the deployment from the paymaster                         *)
(* (common/src/ContractInteractor.ts).                                     *)
(*                                                                         *)
(* Several calls of init() may be under way, because `initialized` is set  *)
(* only when one of them ends: relayTransaction calls init() on its own,   *)
(* and a call that failed may be repeated.  They share the configuration   *)
(* the application passed, which they modify.  The node, the two servers   *)
(* asked for configuration and the contracts are external.                 *)
(***************************************************************************)
EXTENDS Naturals, FiniteSets

CONSTANTS
    Inits,              \* calls of init()
    Paymasters,         \* addresses of paymaster contracts
    Forwarders,         \* and what their owners may set in them: the zero address for
    Hubs,               \*    what is not set
    Given,              \* config.paymasterAddress as the application passes it
    HasApiKey,          \* config.verifierServerApiKey is set
    FromServer,         \* what the configuration server says of the paymaster
    Official,           \* the official paymaster of a type on this chain
    SkipErc165,         \* config.skipErc165Check
    InputProvider,      \* what kind of provider or signer the client was given
    HasProvider,        \* a signer given is connected to a provider
    EphemeralAccounts   \* accounts whose keys the application may add

Null == "null"                  \* not set
Zero == "0x0"                   \* constants.ZERO_ADDRESS
Empty == ""                     \* defaultGsnConfig.paymasterAddress
VerifyingType == "VerifyingPaymaster"
OtherType == "PermitERC20UniswapV3Paymaster"
NoDependencies == 0                     \* no dependencies yet

ASSUME ClientSetupAssumption ==
    /\ Inits \subseteq Nat \ {NoDependencies}
    /\ Given \in Paymasters \cup {Null, Empty, VerifyingType, OtherType}
    /\ FromServer \subseteq Paymasters \cup {Null}
    /\ Official \in Paymasters \cup {Null}
    /\ Zero \in Forwarders \cap Hubs /\ Zero \notin Paymasters
    /\ {HasApiKey, SkipErc165, HasProvider} \subseteq BOOLEAN
    /\ InputProvider \in {"Web3JsProvider", "ProviderEthersV5", "SignerEthersV5",
                          "ProviderEthersV6", "SignerEthersV6"}

VARIABLES
    step,           \* where each init() stands
    server,         \* the paymaster in the configuration each has from the server
    built,          \* the deployment in the interactor each makes
    raw,            \* config.paymasterAddress in the constructor's input
    config,         \* the resolved config.paymasterAddress
    dependencies,   \* the init() that made this.dependencies
    initialized,
    accounts,       \* the keys in the AccountManager of the dependencies
    hubOf,          \* the chain: the hub and the forwarder of each paymaster
    forwarderOf

setupVars == <<step, server, built, raw, config, dependencies, initialized, accounts,
               hubOf, forwarderOf>>
contracts == <<hubOf, forwarderOf>>

NoDeployment == [paymaster |-> Null, hub |-> Null, forwarder |-> Null]

\* The configuration is merged: the default, over it what the server says and over that what
\* the application passed, fields that are null left out.
MergedPaymaster(given, fromServer) ==
    IF given # Null THEN given ELSE IF fromServer # Null THEN fromServer ELSE Empty

\* _resolveVerifierConfig asks for the address of the verifying paymaster ...
AsksVerifier(given) == HasApiKey /\ given \in {Null, Empty, VerifyingType}

\* getPaymasterAddressByTypeAndChain: an address, Empty for the verifying paymaster, or Null
\* when it throws.
PaymasterByType(p) ==
    CASE p \in {Empty, VerifyingType} -> Empty
      [] p = OtherType -> Official
      [] OTHER -> p

\* What _resolveDeploymentFromPaymaster accepts.
IsDeployed(p) == p \in Paymasters
HasHubAndForwarder(p) == hubOf[p] # Zero /\ forwarderOf[p] # Zero

IsConnectedWithSigner == InputProvider \in {"SignerEthersV5", "SignerEthersV6"}

Ends(i, how) == step' = [step EXCEPT ![i] = how]

-----------------------------------------------------------------------------

SetupInit ==
    /\ step = [i \in Inits |-> "idle"]
    /\ server = [i \in Inits |-> Null]
    /\ built = [i \in Inits |-> NoDeployment]
    /\ raw = Given /\ config = Null
    /\ dependencies = NoDependencies /\ initialized = FALSE
    /\ accounts = {}
    /\ hubOf \in [Paymasters -> Hubs] /\ forwarderOf \in [Paymasters -> Forwarders]

\* init() is called, by the application or by relayTransaction; it is not an error to call it
\* while another call of it is under way.
CallInit(i) ==
    /\ step[i] = "idle"
    /\ Ends(i, IF initialized THEN "rejected" ELSE "wrapping")
    /\ UNCHANGED <<server, built, raw, config, dependencies, initialized, accounts, contracts>>

\* wrapInputProviderLike: a signer without a provider is of no use.
WrapProvider(i) ==
    /\ step[i] = "wrapping"
    /\ Ends(i, IF IsConnectedWithSigner /\ ~HasProvider THEN "rejected" ELSE "network")
    /\ UNCHANGED <<server, built, raw, config, dependencies, initialized, accounts, contracts>>

\* The provider says which chain it is on, then the server gives its defaults for it; when the
\* server fails, it is as if it gave none.
ReadServerConfig(i, p) ==
    /\ step[i] = "network"
    /\ p \in FromServer \cup {Null}
    /\ server' = [server EXCEPT ![i] = p]
    /\ IF AsksVerifier(raw)
       THEN Ends(i, "verifier") /\ UNCHANGED config
       ELSE Ends(i, "interactor") /\ config' = MergedPaymaster(raw, p)
    /\ built' = [built EXCEPT ![i].paymaster = config']
    /\ UNCHANGED <<raw, dependencies, initialized, accounts, contracts>>

\* The verifier server gives its paymaster, or fails, and the zero address stands for it.  The
\* answer is written to the application's configuration.
ReadVerifier(i, p) ==
    /\ step[i] = "verifier"
    /\ p \in Paymasters \cup {Zero}
    /\ raw' = p
    /\ config' = MergedPaymaster(p, server[i])
    /\ built' = [built EXCEPT ![i].paymaster = config']
    /\ Ends(i, "interactor")
    /\ UNCHANGED <<server, dependencies, initialized, accounts, contracts>>

\* The address of the paymaster is found by its type, and the interactor reads a block, the
\* fee history and the signer's address.  Without a paymaster it has nothing to resolve.
StartInteractor(i) ==
    LET p == PaymasterByType(built[i].paymaster)
    IN  /\ step[i] = "interactor"
        /\ built' = [built EXCEPT ![i].paymaster = p]
        /\ Ends(i, CASE p = Null -> "rejected"
                     [] p = Empty -> "made"
                     [] OTHER -> "paymaster")
        /\ UNCHANGED <<server, raw, config, dependencies, initialized, accounts, contracts>>

\* The paymaster is asked for its hub, its forwarder and its version.
ReadPaymaster(i) ==
    LET p == built[i].paymaster
    IN  /\ step[i] = "paymaster"
        /\ IF IsDeployed(p) /\ HasHubAndForwarder(p)
           THEN /\ built' = [built EXCEPT ![i].hub = hubOf[p], ![i].forwarder = forwarderOf[p]]
                /\ Ends(i, "hub")
           ELSE Ends(i, "rejected") /\ UNCHANGED built
        /\ UNCHANGED <<server, raw, config, dependencies, initialized, accounts, contracts>>

\* The hub gives the rest of the deployment, and its version and the network are checked.
ReadHub(i, compatible) ==
    /\ step[i] = "hub"
    /\ Ends(i, IF compatible THEN "made" ELSE "rejected")
    /\ UNCHANGED <<server, built, raw, config, dependencies, initialized, accounts, contracts>>

\* The dependencies are made, a new AccountManager among them.  What was in this.dependencies
\* is gone.
MakeDependencies(i) ==
    /\ step[i] = "made"
    /\ dependencies' = i
    /\ accounts' = {}
    /\ IF SkipErc165 THEN Ends(i, "done") /\ initialized' = TRUE
       ELSE Ends(i, "erc165") /\ UNCHANGED initialized
    /\ UNCHANGED <<server, built, raw, config, contracts>>

\* Its forwarder and its paymaster are asked whether they are what they should be.  An
\* interactor that has none throws.  A call that fails here leaves the dependencies it made.
CheckErc165(i, supported) ==
    /\ step[i] = "erc165"
    /\ IF supported /\ built[i].hub # Null
       THEN Ends(i, "done") /\ initialized' = TRUE
       ELSE Ends(i, "rejected") /\ UNCHANGED initialized
    /\ UNCHANGED <<server, built, raw, config, dependencies, accounts, contracts>>

\* A request to the node fails: getNetwork, a block, a contract.
SetupNodeFails(i) ==
    /\ step[i] \in {"network", "interactor", "paymaster"}
    /\ Ends(i, "rejected")
    /\ UNCHANGED <<server, built, raw, config, dependencies, initialized, accounts, contracts>>

\* addAccount and newAccount.
AddAccount(a) ==
    /\ initialized
    /\ accounts' = accounts \cup {a}
    /\ UNCHANGED <<step, server, built, raw, config, dependencies, initialized, contracts>>

\* The owner of a paymaster sets its hub or its forwarder, in time or too late.
SetContracts(p) ==
    /\ hubOf' \in {hubOf, [hubOf EXCEPT ![p] = CHOOSE h \in Hubs : h # Zero]}
    /\ forwarderOf' \in {forwarderOf, [forwarderOf EXCEPT ![p] = CHOOSE f \in Forwarders : f # Zero]}
    /\ UNCHANGED <<step, server, built, raw, config, dependencies, initialized, accounts>>

SetupStep(i) ==
    \/ WrapProvider(i)
    \/ \E p \in FromServer \cup {Null} : ReadServerConfig(i, p)
    \/ \E p \in Paymasters \cup {Zero} : ReadVerifier(i, p)
    \/ StartInteractor(i)
    \/ ReadPaymaster(i)
    \/ MakeDependencies(i)
    \/ \E ok \in BOOLEAN : ReadHub(i, ok) \/ CheckErc165(i, ok)
    \/ SetupNodeFails(i)

-----------------------------------------------------------------------------

SetupTypeOK ==
    /\ step \in [Inits -> {"idle", "wrapping", "network", "verifier", "interactor", "paymaster",
                           "hub", "made", "erc165", "done", "rejected"}]
    /\ dependencies \in Inits \cup {NoDependencies}
    /\ initialized \in BOOLEAN
    /\ accounts \subseteq EphemeralAccounts

=============================================================================
