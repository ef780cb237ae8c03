----------------------------- MODULE MCBethVault ----------------------------
(***************************************************************************)
(* Small instances of FedVault for TLC.  The decimals are scaled down and *)
(* kept in proportion: a dollar is 8 units of an oracle price and 4 of     *)
(* USDC, one BTC is 4 units and one ETH 8, one whole share is 4.           *)
(***************************************************************************)
EXTENDS FedVault, TLC

CONSTANTS alice, bob, vault, btc, eth, usdc, Topics, MaxOut
VARIABLE topic

\* alice deploys, owns and operates the vault and seeds it; both hold USDC.
MCAccount == {alice, bob, vault}
MCReaders == {alice, vault}
MCToken == {btc, eth, usdc}
MCOracle == {btc, eth}
MCAssetUnit == (btc :> 4) @@ (eth :> 8) @@ (usdc :> 4)
BtcEth == [assets |-> (1 :> btc) @@ (2 :> eth),
           oracles |-> (1 :> btc) @@ (2 :> eth),
           units |-> (1 :> 4) @@ (2 :> 8), usdc |-> usdc]
\* One asset twice.
EthEth == [assets |-> (1 :> eth) @@ (2 :> eth),
           oracles |-> (1 :> eth) @@ (2 :> eth),
           units |-> (1 :> 8) @@ (2 :> 8), usdc |-> usdc]
Holding(a, b) == [u \in MCAccount |-> CASE u = alice -> a
                                        [] u = bob -> b
                                        [] OTHER -> 0]
HolderToken == (btc :> Holding(4, 0)) @@ (eth :> Holding(8, 0))
                 @@ (usdc :> Holding(0, 24))
LeanToken == (btc :> Holding(4, 0)) @@ (eth :> Holding(8, 0))
               @@ (usdc :> Holding(0, 5))
MCTokens == {HolderToken, LeanToken}
MCConfigs == {EthEth}
Seed == {(1 :> 4) @@ (2 :> 8)}
\* Prices, one of which the vault cannot use.
MCQuotes == {-1, 8, 16}
EvenPrices == [o \in MCOracle |-> 8]
EvenMarket == [t \in MCToken |-> 8]

(* A run is about one topic.  Holders call the vault, and the owner seeds  *)
(* it, in each; beside that, prices move and a pool runs dry ("prices"),   *)
(* the oracle's owner and endpoint use it while time passes ("oracle"),    *)
(* the operator and the owner move tokens and roles ("operator"), or the   *)
(* owner changes the settings while the DEX moves ("settings").            *)
(* MaxOut bounds what the operator has taken out.                          *)
Calls ==
  \E c \in User :
    \/ HolderCall(c)
    \/ \E to \in Receivers, n \in SeedShares, seed \in SeedAssets : Initialize(c, to, n, seed)
Moves ==
  \/ \E o \in Oracle, price \in Quotes : Feed(o, price)
  \/ \E t \in DryPools : Drain(t)
Works ==
  \/ \E c \in User : OpCall(c) \/ OwnerCall(c)
  \/ \E pair \in approved, to \in User, n \in OpAmounts : SpendToken(pair[2], pair[1], to, n)
  \/ \E c \in User, t \in Token, n \in OpAmounts : Donate(c, t, n)
Sets ==
  \/ \E t \in Token, price \in Markets : Trade(t, price)
  \/ \E c \in User :
       \/ \E cfg \in Configs : ChangeStates(c, cfg)
       \/ \E x \in Slippages : SetSlippage(c, x)
       \/ \E x \in Fees : SetFee(c, x)

PriceStep ==
  topic = "prices" /\ (Calls \/ Moves) /\ UNCHANGED <<allowance, topic, oracle>>
OperatorStep ==
  /\ topic = "operator" /\ (Calls \/ Works)
  /\ \A t \in Token \cup {vault} : totalUtilised'[t] <= MaxOut
  /\ UNCHANGED <<allowance, settings, topic, oracle>>
SettingStep ==
  /\ topic = "settings" /\ (Calls \/ Sets)
  /\ UNCHANGED <<topic, oracle>>
VaultStep ==
  /\ topic = "oracle" /\ quote = [o \in Oracle |-> Answer]
  /\ Calls /\ UNCHANGED <<allowance, topic, oracle>>
OracleStep ==
  /\ topic = "oracle" /\ Feeder!Next /\ quote' = [o \in Oracle |-> Answer']
  /\ UNCHANGED <<share, allowance, feeBalance, funds, roles, settings, approved, market, dry,
                 topic>>

MCInit ==
  /\ Init /\ Feeder!Init
  /\ topic \in Topics
  /\ token = IF topic \in {"prices", "oracle"} THEN HolderToken ELSE LeanToken
MCNext == PriceStep \/ OperatorStep \/ SettingStep \/ VaultStep \/ OracleStep
MCSpec == MCInit /\ [][MCNext]_<<vars, topic, oracle>>
=============================================================================
