------------------------------ MODULE BethVault -----------------------------
(***************************************************************************)
(* The two-asset vault: Multi4626V1 (MultiVault.sol), which sells shares   *)
(* for USDC at oracle prices and keeps the proceeds in two assets bought   *)
(* on a DEX, and BethVault (DualVault.sol), which adds the owner and an    *)
(* operator who takes the assets out to work and brings them back.         *)
(*                                                                         *)
(* As in AaveVault, a transaction is one action, its caller the first      *)
(* parameter, and a call that reverts is a step that is not enabled.       *)
(*                                                                         *)
(* Outside src/: the oracles answer with any price at any time (a negative *)
(* quote stands for a negative answer and for a read that reverts, since   *)
(* the vault reverts on either); the DEX sells and buys at a price of its  *)
(* own, exactly what it quoted; a pool may be missing or too short to pay; *)
(* tokens revert on a transfer they cannot make, and who pays the vault    *)
(* has approved it.                                                        *)
(***************************************************************************)
EXTENDS ERC20, Integers

CONSTANTS
  Vault, Deployer,
  Token,                   \* every token but the vault's own share
  Oracle,                  \* the price oracles a configuration may name
  AssetUnit,               \* one whole token, 10 ** decimals of the token
  ShareUnit,               \* 10 ** decimals(), one whole share
  PriceUnit,               \* 10 ** 18, one dollar of an oracle price
  CostUnit,                \* 10 ** (18 - 6), a price to USDC
  BtcScale,                \* 10 ** 10, from 18 decimals to those of BTC
  Permille, FeeParts,      \* the 1000 of the slippage, the 10000 of the fee
  InitSlippage, InitFee,   \* slippage and _txFee at deployment
  InitConfig, InitTokens, InitQuote, InitMarket,
  Configs,                 \* bound: what changeStates may install
  ShareAmounts,            \* bound: share amounts that calls name
  OpAmounts,               \* bound: token amounts the operator moves
  OpShareAmounts,          \* bound: amounts of the vault's own shares he moves
  SeedAssets, SeedShares,  \* bound: what initialize brings in and mints
  ApprovalAmounts, Spenders, \* bound: share allowances
  Receivers,               \* bound: accounts that calls name as receiver
  ExecTargets,             \* bound: addresses the owner's calls name
  RoleTargets,             \* bound: addresses a role can be given to
  Slippages, Fees,         \* bound: what setSlippage and setFee are called with
  Quotes, Markets,         \* bound: oracle and DEX prices
  DryPools,                \* bound: tokens whose pool may run dry
  MaxCount                 \* bound: what the operator's calls count up to

User == Account \ {Vault}
\* _assets[0] and _assets[1]: the code reads these two by index.
Slots == {1, 2}
\* What changeStates and the constructor set.
ConfigType == [assets : [Slots -> Token], oracles : [Slots -> Oracle],
               units : [Slots -> Nat \ {0}], usdc : Token]
Tokens == [Token -> [Account -> Nat]]

ASSUME BethAssumption ==
  /\ Vault \in Account /\ Deployer \in User /\ Vault \notin Token
  /\ AssetUnit \in [Token -> Nat \ {0}]
  /\ ShareUnit \in Nat \ {0} /\ PriceUnit \in Nat \ {0}
  /\ CostUnit \in Nat \ {0} /\ BtcScale \in Nat \ {0}
  /\ Permille \in Nat \ {0} /\ FeeParts \in Nat \ {0}
  /\ InitSlippage \in Nat /\ InitFee \in Nat
  /\ InitConfig \in ConfigType /\ Configs \subseteq ConfigType
  /\ InitTokens \subseteq Tokens
  /\ InitQuote \in [Oracle -> Int] /\ InitMarket \in [Token -> Nat \ {0}]
  /\ ShareAmounts \subseteq Uint /\ OpAmounts \subseteq Nat
  /\ OpShareAmounts \subseteq Uint
  /\ SeedAssets \subseteq [Slots -> Nat] /\ SeedShares \subseteq Uint
  /\ ApprovalAmounts \subseteq Uint /\ Spenders \subseteq Account
  /\ Receivers \subseteq Account /\ ExecTargets \subseteq User
  /\ RoleTargets \subseteq User \cup {Zero}
  /\ Slippages \subseteq Nat /\ Fees \subseteq Nat
  /\ Quotes \subseteq Int /\ Markets \subseteq Nat \ {0}
  /\ DryPools \subseteq Token
  /\ MaxCount \in Uint

VARIABLES
  share, allowance,  \* the share token
  token,             \* balances of the other tokens, the vault's included
  assetBalances,     \* _assetBalances: what the vault has booked, per token
  feeBalance,        \* _feeBalances[address(this)], in shares
  totalUtilised,     \* what the operator has taken out, per token and shares
  initialized, owner, operator,
  slippage, txFee, config,
  approved,          \* whom the vault has approved: pairs <<token, spender>>
  quote, market, dry \* oracle prices, DEX prices, pools that cannot pay

funds == <<token, assetBalances, totalUtilised>>
roles == <<initialized, owner, operator>>
settings == <<slippage, txFee, config>>
world == <<quote, market, dry>>
vars == <<share, allowance, feeBalance, funds, roles, settings, approved, world>>

Asset(i) == config.assets[i]
Price(i) == quote[config.oracles[i]]

-----------------------------------------------------------------------------
(* Valuation.                                                              *)

ValueOf(i) == (Price(i) * assetBalances[Asset(i)]) \div config.units[i]
TotalAssets == ValueOf(1) + ValueOf(2)
\* totalAssets() returns: no price is negative and no product overflows.
CanValue ==
  /\ \A i \in Slots : Price(i) >= 0 /\ Fits(Price(i) * assetBalances[Asset(i)])
  /\ Fits(TotalAssets * ShareUnit)

\* The price of one whole share among `supply` shares, and its division.
CanPrice(supply) == CanValue /\ supply > 0
PricePerShare(supply) == (TotalAssets * ShareUnit) \div supply

Slip(x) == (x \div Permille) * slippage

\* Mutant: the price is brought to whole dollars, not to those of USDC.
PreviewMintInDollars(n) ==
  LET s == (PricePerShare(share.supply) \div PriceUnit) * (n \div ShareUnit)
  IN s + Slip(s)
PreviewMint(n) ==
  LET s == (PricePerShare(share.supply) \div CostUnit) * (n \div ShareUnit)
  IN s + Slip(s)

\* How much of asset i a redeemer of n shares is paid from: the asset's half of
\* the share price at the oracle's price, less the slippage.
Half(i, supply) == ((PricePerShare(supply) \div 2) * PriceUnit) \div Price(i)
Scaled(i, x) == IF i = 1 THEN x \div BtcScale ELSE x
PerShare(i, supply) == Scaled(i, Half(i, supply) - Slip(Half(i, supply)))
ReturnValue(i, n, supply) == (PerShare(i, supply) * n) \div ShareUnit
CanReturn(n, supply) ==
  /\ CanPrice(supply)
  /\ Fits((PricePerShare(supply) \div 2) * PriceUnit)
  /\ \A i \in Slots : /\ Price(i) > 0
                      /\ Slip(Half(i, supply)) <= Half(i, supply)
                      /\ Fits(PerShare(i, supply) * n)

FeeOn(n) == (n \div FeeParts) * txFee
\* Mutant: the fee is minted to the vault but not taken off.
AfterNoFee(n) == n
AfterFee(n) == n - FeeOn(n)

(* The DEX, at its own price: what it pays for USDC and for an asset.      *)
Bought(t, n) == (n * CostUnit * AssetUnit[t]) \div market[t]
Sold(t, n) == (n * market[t]) \div (AssetUnit[t] * CostUnit)
\* A swap of t against USDC that pays `out` from the pool of `from`.
CanSwap(t, from, out) == t # config.usdc /\ out > 0 /\ from \notin dry

-----------------------------------------------------------------------------
(* Modifiers.                                                              *)

\* Mutant: the gate is missing.
AlwaysInitialized == TRUE
isInitialized == initialized
isOp(c) == c = operator
onlyOwner(c) == c = owner

-----------------------------------------------------------------------------
(* Token movements.                                                        *)

\* Token balances with n more, or n less, of t on one account.
Credited(balances, t, u, n) == [balances EXCEPT ![t][u] = @ + n]
Debited(balances, t, u, n) == [balances EXCEPT ![t][u] = @ - n]

Sent(t, from, to, n) == Credited(Debited(token, t, from, n), t, to, n)
HasSent(t, from, n) == token[t][from] >= n

\* What the vault books when it gets n[i] of asset i.
\* Mutant: the amount of the second asset is booked for both.
BookedFromSecond(n) ==
  LET first == [assetBalances EXCEPT ![Asset(1)] = @ + n[2]]
  IN [first EXCEPT ![Asset(2)] = @ + n[2]]
Booked(n) ==
  LET first == [assetBalances EXCEPT ![Asset(1)] = @ + n[1]]
  IN [first EXCEPT ![Asset(2)] = @ + n[2]]
\* The balances when it has got them.
Gained(balances, n) ==
  Credited(Credited(balances, Asset(1), Vault, n[1]), Asset(2), Vault, n[2])

-----------------------------------------------------------------------------
(* Holders.                                                                *)

\* The vault gives itself no USDC allowance, so it cannot mint to itself.
Mint(c, n, to) ==
  LET cost == PreviewMint(n)
      half == cost \div 2
      cash == config.usdc
      got  == [i \in Slots |-> Bought(Asset(i), half)]
  IN /\ c # Vault
     /\ CanPrice(share.supply)
     /\ Fits(cost) /\ Fits(share.supply + n)
     /\ HasSent(cash, c, cost)
     /\ half > 0
     /\ \A i \in Slots : CanSwap(Asset(i), Asset(i), got[i])
     /\ n >= FeeOn(n)
     /\ to # Zero
     /\ token' = Gained(Debited(Sent(cash, c, Vault, cost), cash, Vault, 2 * half), got)
     /\ assetBalances' = Booked(got)
     /\ feeBalance' = feeBalance + FeeOn(n)
     /\ share' = Minted(Minted(share, Vault, FeeOn(n)), to, AfterFee(n))
     /\ UNCHANGED <<allowance, totalUtilised, roles, settings, approved, world>>

\* The fee shares are minted before the assets are priced, and the redeemer's
\* shares are burned whole after it.
Redeem(c, n, to) ==
  LET charged == Minted(share, Vault, FeeOn(n))
      cash    == config.usdc
      paid    == [i \in Slots |-> ReturnValue(i, AfterFee(n), charged.supply)]
      got     == [i \in Slots |-> Sold(Asset(i), paid[i])]
      given(t) == (IF t = Asset(1) THEN paid[1] ELSE 0)
                    + (IF t = Asset(2) THEN paid[2] ELSE 0)
  IN /\ n <= share.balance[c]
     /\ n >= FeeOn(n)
     /\ CanMint(share, Vault, FeeOn(n))
     /\ CanReturn(AfterFee(n), charged.supply)
     /\ \A i \in Slots : CanSwap(Asset(i), cash, got[i])
     /\ \A t \in Token : given(t) <= token[t][Vault] /\ given(t) <= assetBalances[t]
     /\ to # Zero
     /\ share' = Burned(charged, c, n)
     /\ feeBalance' = feeBalance + FeeOn(n)
     /\ token' = Credited(Debited(Debited(token, Asset(1), Vault, paid[1]),
                                  Asset(2), Vault, paid[2]),
                          cash, to, got[1] + got[2])
     /\ assetBalances' = [t \in Token |-> assetBalances[t] - given(t)]
     /\ UNCHANGED <<allowance, totalUtilised, roles, settings, approved, world>>

Transfer(c, to, n) ==
  /\ CanMove(share, c, to, n)
  /\ share' = Moved(share, c, to, n)
  /\ UNCHANGED <<allowance, feeBalance, funds, roles, settings, approved, world>>

TransferFrom(c, holder, to, n) ==
  /\ CanSpend(allowance, holder, c, n)
  /\ CanMove(share, holder, to, n)
  /\ allowance' = Spent(allowance, holder, c, n)
  /\ share' = Moved(share, holder, to, n)
  /\ UNCHANGED <<feeBalance, funds, roles, settings, approved, world>>

Approve(c, spender, n) ==
  /\ allowance' = [allowance EXCEPT ![c][spender] = n]
  /\ UNCHANGED <<share, feeBalance, funds, roles, settings, approved, world>>

HolderCall(c) ==
  \/ \E n \in ShareAmounts, to \in Receivers :
       \/ Mint(c, n, to)
       \/ Redeem(c, n, to)
       \/ Transfer(c, to, n)
       \/ \E holder \in Account : TransferFrom(c, holder, to, n)
  \/ \E n \in ApprovalAmounts, to \in Spenders : Approve(c, to, n)

-----------------------------------------------------------------------------
(* The operator.                                                           *)

OpWithdrawAssets(c, t, n, to) ==
  /\ isOp(c) /\ isInitialized
  /\ HasSent(t, Vault, n)
  /\ totalUtilised[t] + n <= MaxCount
  /\ token' = Sent(t, Vault, to, n)
  /\ totalUtilised' = [totalUtilised EXCEPT ![t] = @ + n]
  /\ UNCHANGED <<share, allowance, feeBalance, assetBalances, roles, settings,
                 approved, world>>

\* The same call with the vault's own share as the token.
OpWithdrawShares(c, n, to) ==
  /\ isOp(c) /\ isInitialized
  /\ CanMove(share, Vault, to, n)
  /\ totalUtilised[Vault] + n <= MaxCount
  /\ share' = Moved(share, Vault, to, n)
  /\ totalUtilised' = [totalUtilised EXCEPT ![Vault] = @ + n]
  /\ UNCHANGED <<allowance, feeBalance, token, assetBalances, roles, settings,
                 approved, world>>

\* A token that is not an asset is refused with `false` and changes nothing.
IsAsset(t) == \E i \in Slots : t = Asset(i)

OpDepositAssets(c, t, n, from) ==
  /\ isOp(c) /\ isInitialized
  /\ IsAsset(t)
  /\ HasSent(t, from, n)
  /\ totalUtilised[t] >= n
  /\ token' = Sent(t, from, Vault, n)
  /\ totalUtilised' = [totalUtilised EXCEPT ![t] = @ - n]
  /\ UNCHANGED <<share, allowance, feeBalance, assetBalances, roles, settings,
                 approved, world>>

OpDepositYield(c, t, n, from) ==
  /\ isOp(c) /\ isInitialized
  /\ IsAsset(t)
  /\ HasSent(t, from, n)
  /\ assetBalances[t] + n <= MaxCount
  /\ token' = Sent(t, from, Vault, n)
  /\ assetBalances' = [assetBalances EXCEPT ![t] = @ + n]
  /\ UNCHANGED <<share, allowance, feeBalance, totalUtilised, roles, settings,
                 approved, world>>

WithdrawFee(c, n, to) ==
  /\ isOp(c)
  /\ CanMove(share, Vault, to, n)
  /\ feeBalance >= n
  /\ share' = Moved(share, Vault, to, n)
  /\ feeBalance' = feeBalance - n
  /\ UNCHANGED <<allowance, funds, roles, settings, approved, world>>

\* Whoever pays the vault other than the vault itself has approved it.
OpCall(c) ==
  \/ \E t \in Token, n \in OpAmounts :
       \/ \E to \in Receivers : OpWithdrawAssets(c, t, n, to)
       \/ \E from \in User : OpDepositAssets(c, t, n, from)
                             \/ OpDepositYield(c, t, n, from)
  \/ \E n \in OpShareAmounts, to \in Receivers :
       OpWithdrawShares(c, n, to) \/ WithdrawFee(c, n, to)

-----------------------------------------------------------------------------
(* The owner.                                                              *)

\* `seed` is what is paid in of each asset, nothing where the list is short.
Initialize(c, to, n, seed) ==
  /\ onlyOwner(c)
  /\ ~initialized
  /\ IF Asset(1) = Asset(2) THEN HasSent(Asset(1), c, seed[1] + seed[2])
     ELSE \A i \in Slots : HasSent(Asset(i), c, seed[i])
  /\ CanMint(share, to, n)
  /\ token' = Gained(Debited(Debited(token, Asset(1), c, seed[1]),
                             Asset(2), c, seed[2]), seed)
  /\ assetBalances' = Booked(seed)
  /\ share' = Minted(share, to, n)
  /\ initialized' = TRUE
  /\ UNCHANGED <<allowance, feeBalance, totalUtilised, owner, operator, settings,
                 approved, world>>

(* execute, in the forms that reach the state kept here; a call that fails *)
(* is reported and changes nothing.                                        *)

SendToken(t, to, n) ==
  /\ HasSent(t, Vault, n)
  /\ token' = Sent(t, Vault, to, n)
  /\ UNCHANGED <<share, allowance, feeBalance, assetBalances, totalUtilised,
                 roles, settings, approved, world>>

SetApproval(pairs) ==
  /\ approved' = pairs
  /\ UNCHANGED <<share, allowance, feeBalance, funds, roles, settings, world>>

Execute(c) ==
  /\ onlyOwner(c) /\ isInitialized
  /\ \/ \E t \in Token, to \in ExecTargets :
          \/ SetApproval(approved \cup {<<t, to>>})
          \/ SetApproval(approved \ {<<t, to>>})
          \/ \E n \in OpAmounts : SendToken(t, to, n)
     \/ ExecTargets # {} /\ HolderCall(Vault)

ChangeStates(c, cfg) ==
  /\ onlyOwner(c)
  /\ config' = cfg
  /\ UNCHANGED <<share, allowance, feeBalance, funds, roles, slippage, txFee,
                 approved, world>>

SetSlippage(c, x) ==
  /\ onlyOwner(c)
  /\ slippage' = x
  /\ UNCHANGED <<share, allowance, feeBalance, funds, roles, txFee, config,
                 approved, world>>

SetFee(c, x) ==
  /\ onlyOwner(c)
  /\ txFee' = x
  /\ UNCHANGED <<share, allowance, feeBalance, funds, roles, slippage, config,
                 approved, world>>

SetOperator(c, to) ==
  /\ onlyOwner(c)
  /\ operator' = to
  /\ UNCHANGED <<share, allowance, feeBalance, funds, initialized, owner,
                 settings, approved, world>>

TransferOwnership(c, to) ==
  /\ onlyOwner(c)
  /\ to # Zero
  /\ owner' = to
  /\ UNCHANGED <<share, allowance, feeBalance, funds, initialized, operator,
                 settings, approved, world>>

RenounceOwnership(c) ==
  /\ onlyOwner(c)
  /\ owner' = Zero
  /\ UNCHANGED <<share, allowance, feeBalance, funds, initialized, operator,
                 settings, approved, world>>

OwnerCall(c) ==
  \/ \E to \in Receivers, n \in SeedShares, seed \in SeedAssets :
       Initialize(c, to, n, seed)
  \/ Execute(c)
  \/ \E cfg \in Configs : ChangeStates(c, cfg)
  \/ \E x \in Slippages : SetSlippage(c, x)
  \/ \E x \in Fees : SetFee(c, x)
  \/ \E to \in RoleTargets : SetOperator(c, to) \/ TransferOwnership(c, to)
  \/ RoleTargets # {} /\ RenounceOwnership(c)

-----------------------------------------------------------------------------
(* What happens outside the vault's own calls.                             *)

\* A spender the vault has approved takes a token.
SpendToken(spender, t, to, n) ==
  /\ <<t, spender>> \in approved
  /\ SendToken(t, to, n)

\* Anybody may send a token to the vault.
Donate(c, t, n) ==
  /\ HasSent(t, c, n)
  /\ token' = Sent(t, c, Vault, n)
  /\ UNCHANGED <<share, allowance, feeBalance, assetBalances, totalUtilised,
                 roles, settings, approved, world>>

Feed(o, price) ==
  /\ quote' = [quote EXCEPT ![o] = price]
  /\ UNCHANGED <<share, allowance, feeBalance, funds, roles, settings, approved,
                 market, dry>>

Trade(t, price) ==
  /\ t # config.usdc
  /\ market' = [market EXCEPT ![t] = price]
  /\ UNCHANGED <<share, allowance, feeBalance, funds, roles, settings, approved,
                 quote, dry>>

Drain(t) ==
  /\ dry' = (dry \cup {t}) \ (dry \cap {t})
  /\ UNCHANGED <<share, allowance, feeBalance, funds, roles, settings, approved,
                 quote, market>>

Outside ==
  \/ \E pair \in approved, to \in User, n \in OpAmounts :
       SpendToken(pair[2], pair[1], to, n)
  \/ \E c \in User, t \in Token, n \in OpAmounts : Donate(c, t, n)
  \/ \E o \in Oracle, price \in Quotes : Feed(o, price)
  \/ \E t \in Token, price \in Markets : Trade(t, price)
  \/ \E t \in DryPools : Drain(t)

-----------------------------------------------------------------------------
Init ==
  /\ share = EmptyLedger
  /\ allowance = NoAllowances
  /\ token \in InitTokens
  /\ assetBalances = [t \in Token |-> 0]
  /\ feeBalance = 0
  /\ totalUtilised = [t \in Token \cup {Vault} |-> 0]
  /\ initialized = FALSE
  /\ owner = Deployer
  /\ operator = Deployer
  /\ slippage = InitSlippage
  /\ txFee = InitFee
  /\ config = InitConfig
  /\ approved = {}
  /\ quote = InitQuote
  /\ market = InitMarket
  /\ dry = {}

Next ==
  \/ \E c \in User : HolderCall(c) \/ OpCall(c) \/ OwnerCall(c)
  \/ Outside

Spec == Init /\ [][Next]_vars

-----------------------------------------------------------------------------
(* Properties.                                                             *)

\* Types: shares and share allowances are Uints, every other amount a natural.
TypeOK ==
  /\ share \in Ledger
  /\ allowance \in Allowances
  /\ token \in Tokens
  /\ assetBalances \in [Token -> Nat]
  /\ feeBalance \in Nat
  /\ totalUtilised \in [Token \cup {Vault} -> Nat]
  /\ initialized \in BOOLEAN
  /\ owner \in Account \cup {Zero} /\ operator \in Account \cup {Zero}
  /\ slippage \in Nat /\ txFee \in Nat /\ config \in ConfigType
  /\ approved \subseteq Token \X Account
  /\ quote \in [Oracle -> Int] /\ market \in [Token -> Nat \ {0}]
  /\ dry \subseteq Token

\* The share balances add up to the supply: a mint of fee shares and of the
\* receiver's, and a redeem that mints and burns in one call, lose no share.
SupplyIsSum == share.supply = SumOf(share.balance)

\* mint and redeem are not gated, yet before initialize nothing is issued,
\* booked, charged or taken out: without a supply there is no price.
NothingBeforeInit ==
  ~initialized =>
    /\ share.supply = 0 /\ feeBalance = 0 /\ approved = {}
    /\ \A t \in Token : assetBalances[t] = 0
    /\ \A t \in Token \cup {Vault} : totalUtilised[t] = 0

\* What the vault holds of a token, together with what the operator has taken
\* out, above what it has booked; for the vault's own share, above the fees.
Margin(t) ==
  IF t = Vault THEN share.balance[Vault] + totalUtilised[Vault] - feeBalance
  ELSE token[t][Vault] + totalUtilised[t] - assetBalances[t]

\* The steps that may take from the vault without a record: the owner's execute,
\* and those of an address that execute has approved.
OwnersDoing ==
  \/ \E c \in User : Execute(c)
  \/ \E c \in User, to \in Receivers, n \in ShareAmounts : TransferFrom(c, Vault, to, n)
  \/ \E pair \in approved, to \in User, n \in OpAmounts :
       SpendToken(pair[2], pair[1], to, n)

\* Whatever holders, the operator and the market do, in any order and with any
\* list of assets, the books never get ahead of the tokens: what is booked of
\* each token stays covered by what is held and what the operator owes, and the
\* fees by the vault's own shares.
BackingKept ==
  [][(\A t \in Token \cup {Vault} : Margin(t)' >= Margin(t)) \/ OwnersDoing]_vars

\* The order of assets that the code assumes: BTC with its short decimals first.
WellConfigured ==
  /\ Asset(1) # Asset(2)
  /\ config.units[1] * BtcScale = PriceUnit
  /\ config.units[2] = PriceUnit

\* The exact value of what is booked, over the product of the two units.
Worth == Price(1) * assetBalances[Asset(1)] * config.units[2]
           + Price(2) * assetBalances[Asset(2)] * config.units[1]

\* The value per share falls in a step, by more than `lost` of the whole value.
PriceFalls(lost) == (Worth' + lost) * share.supply < Worth * share'.supply

\* A redeem never lowers the value booked per share for those who stay, whatever
\* the fee, the slippage, the mix of the two assets and the roundings.
RedeemKeepsPrice ==
  [][PriceFalls(0) /\ WellConfigured
      => ~\E c \in User, n \in ShareAmounts, to \in Receivers : Redeem(c, n, to)]_vars

\* What the vault counts its assets as, over the same product.
Counted == TotalAssets * config.units[1] * config.units[2]

\* A mint of n whole shares brings in what the vault counts n shares as, while the
\* DEX trades at the oracle's prices, but for its roundings: per whole share a
\* unit of USDC, and once the odd unit of USDC and a unit of each asset.
Roundings(n) ==
  ((n \div ShareUnit) + 1) * CostUnit * config.units[1] * config.units[2]
    + Price(1) * config.units[2] + Price(2) * config.units[1]
WholeSharesPayTheirWay ==
  [][\A n \in ShareAmounts :
       /\ WellConfigured /\ n % ShareUnit = 0
       /\ \A i \in Slots : market[Asset(i)] = Price(i) /\ AssetUnit[Asset(i)] = config.units[i]
       /\ (Worth' - Worth + Roundings(n)) * share.supply < Counted * n
      => ~\E c \in User, to \in Receivers : Mint(c, n, to)]_vars

=============================================================================
