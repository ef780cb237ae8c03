------------------------------ MODULE AaveVault -----------------------------
(***************************************************************************)
(* The single-asset vault: AAVE4626 (Managed4626.sol), an ERC-4626 vault   *)
(* that lends every deposit to an Aave V3 pool, and Vault (Vault.sol),     *)
(* which adds the initialisation gate, the manager and the owner.          *)
(*                                                                         *)
(* A transaction is atomic, so an external call is one action with the     *)
(* caller (msg.sender) as its first parameter; a call that reverts changes *)
(* nothing and is a step that is not enabled.  Holders, the manager, the   *)
(* owner, the pool and anybody who donates aTokens interleave freely.      *)
(*                                                                         *)
(* Outside src/: the Aave pool moves exactly the amount asked for or       *)
(* reverts, and pays out only what it holds (poolCash); the aToken is      *)
(* worth one unit of the asset; interest appears in the aToken balance of  *)
(* the vault.  ERC-20 approvals of the asset and of aTokens given to the   *)
(* vault are assumed to be there when a call needs them.                   *)
(***************************************************************************)
EXTENDS ERC20

CONSTANTS
  Vault,                   \* address(this)
  Deployer,                \* msg.sender of the constructor
  VirtualShares,           \* 10 ** _decimalsOffset()
  ShareUnit,               \* 10 ** decimals(), one whole share
  FeeRate, BasisPoints,    \* fee and the 10000 of _feeOnRaw
  InitAsset, InitAToken,   \* balances outside the vault at deployment
  InitPoolCash,            \* asset units the pool holds at deployment
  MaxPoolCash,             \* bound: repayments stop at this much cash
  AssetAmounts,            \* bound: amounts of the asset users ask for
  ShareAmounts,            \* bound: amounts of shares users ask for
  ApprovalAmounts,         \* bound: share allowances users grant
  Spenders,                \* bound: accounts they grant them to
  SeedAssets, SeedShares,  \* bound: aTokens and whole shares to initialise with
  Receivers,               \* bound: accounts that calls name as receiver
  ExecTargets,             \* bound: addresses the manager's calls name
  RoleTargets,             \* bound: addresses a role can be given to
  Yields, Loans            \* bound: interest and loan sizes of the pool

User == Account \ {Vault}

ASSUME VaultAssumption ==
  /\ Vault \in Account /\ Deployer \in User
  /\ VirtualShares \in Nat \ {0} /\ ShareUnit \in Nat \ {0}
  /\ BasisPoints \in Nat \ {0} /\ FeeRate \in 0 .. BasisPoints
  /\ InitAsset \in [Account -> Nat] /\ InitAToken \in Balances
  /\ InitAToken[Vault] = 0
  /\ InitPoolCash \in Nat /\ MaxPoolCash \in Nat
  /\ AssetAmounts \subseteq Uint /\ ShareAmounts \subseteq Uint
  /\ ApprovalAmounts \subseteq Uint /\ SeedAssets \subseteq Uint /\ SeedShares \subseteq Nat
  /\ Receivers \subseteq Account /\ Spenders \subseteq Account
  /\ ExecTargets \subseteq User /\ RoleTargets \subseteq User \cup {Zero}
  /\ Yields \subseteq Nat /\ Loans \subseteq Nat

VARIABLES
  share,        \* the share token: balance of each account, total supply
  allowance,    \* share allowances, holder by spender
  asset,        \* balances of the underlying asset outside the pool
  aToken,       \* aToken balances; the vault's is totalAssets()
  aSpenders,    \* who the vault has approved, without limit, on its aTokens
  poolCash,     \* what the pool can pay out now
  initialized, controller, owner, feeReceiver

token == <<share, allowance>>
money == <<asset, aToken, poolCash>>
roles == <<initialized, controller, owner, feeReceiver>>
vars == <<token, money, aSpenders, roles>>

-----------------------------------------------------------------------------
(* Pricing.  The conversions take the ledger and the assets they read,     *)
(* because the fee shares of a call are priced after its own transfers.    *)

TotalAssets == aToken[Vault]

ToSharesDown(n, t, a) == MulDivDown(n, t.supply + VirtualShares, a + 1)
ToSharesUp(n, t, a) == MulDivUp(n, t.supply + VirtualShares, a + 1)
ToAssetsDown(n, t, a) == MulDivDown(n, a + 1, t.supply + VirtualShares)
ToAssetsUp(n, t, a) == MulDivUp(n, a + 1, t.supply + VirtualShares)

\* The sums inside the conversions are checked additions.
CanPrice(t, a) == Fits(t.supply + VirtualShares) /\ Fits(a + 1)

FeeOnRaw(n) == MulDivDown(n, FeeRate, BasisPoints)

MaxWithdraw(holder) == ToAssetsDown(share.balance[holder], share, TotalAssets)
MaxRedeem(holder) == share.balance[holder]

PreviewDeposit(n) == ToSharesDown(n - FeeOnRaw(n), share, TotalAssets)
PreviewMint(n) ==
  LET a == ToAssetsUp(n, share, TotalAssets) IN a + FeeOnRaw(a)
PreviewWithdraw(n) == ToSharesUp(n + FeeOnRaw(n), share, TotalAssets)
\* Mutant: the redeemer's assets round up.
PreviewRedeemRoundedUp(n) ==
  LET a == ToAssetsUp(n, share, TotalAssets) IN a - FeeOnRaw(a)
PreviewRedeem(n) ==
  LET a == ToAssetsDown(n, share, TotalAssets) IN a - FeeOnRaw(a)

-----------------------------------------------------------------------------
(* Modifiers.                                                              *)

\* Mutant: the gate is missing.
AlwaysInitialized == TRUE
Initialized == initialized
onlyManager(c) == c = controller
\* Mutant: an ownership nobody holds can be taken up.
onlyOwnerOrUnowned(c) == owner \in {c, Zero}
onlyOwner(c) == c = owner

-----------------------------------------------------------------------------
(* The shared workflows of deposit/mint and of withdraw/redeem.            *)

\* Half of the fee goes to the fee receiver as newly minted shares.
ChargesFee(fees) == fees > 0 /\ feeReceiver # Zero
CanPayFee(t, a, fees, feeShares) ==
  ChargesFee(fees) => CanPrice(t, a) /\ CanMint(t, feeReceiver, feeShares)
WithFee(t, fees, feeShares) ==
  IF ChargesFee(fees) THEN Minted(t, feeReceiver, feeShares) ELSE t

\* _deposit: the assets go from the caller through the vault to the pool.
PullIn(c, assets) ==
  /\ asset[c] >= assets
  /\ Fits(aToken[Vault] + assets)
  /\ asset' = [asset EXCEPT ![c] = @ - assets]
  /\ aToken' = [aToken EXCEPT ![Vault] = @ + assets]
  /\ poolCash' = poolCash + assets

\* _withdraw: the pool pays the vault, the vault pays the receiver.  The pool
\* returns the amount it was asked for, and `amount <= 0` reverts.
PayOut(receiver, assets) ==
  /\ aToken[Vault] >= assets
  /\ poolCash >= assets
  /\ assets > 0
  /\ asset' = [asset EXCEPT ![receiver] = @ + assets]
  /\ aToken' = [aToken EXCEPT ![Vault] = @ - assets]
  /\ poolCash' = poolCash - assets

\* Burning somebody else's shares spends an allowance; one's own does not.
\* Mutant: the allowance is asked of the holder, not of the others.
MaySpendSwapped(c, holder, shares) ==
  c = holder => CanSpend(allowance, holder, c, shares)
MaySpend(c, holder, shares) ==
  c # holder => CanSpend(allowance, holder, c, shares)
SpendShares(c, holder, shares) ==
  allowance' = IF c = holder THEN allowance
               ELSE Spent(allowance, holder, c, shares)

-----------------------------------------------------------------------------
(* The ERC-4626 calls of Vault: each is the Initialized override of the    *)
(* one in AAVE4626.                                                        *)

Deposit(c, assets, receiver) ==
  LET shares    == PreviewDeposit(assets)
      after     == Minted(share, receiver, shares)
      held      == TotalAssets + assets
      fees      == FeeOnRaw(assets) \div 2
      feeShares == ToSharesDown(fees, after, held)
  IN /\ Initialized
     /\ CanPrice(share, TotalAssets)
     /\ PullIn(c, assets)
     /\ CanMint(share, receiver, shares)
     /\ CanPayFee(after, held, fees, feeShares)
     /\ share' = WithFee(after, fees, feeShares)
     /\ UNCHANGED <<allowance, aSpenders, roles>>

Mint(c, shares, receiver) ==
  LET assets    == PreviewMint(shares)
      after     == Minted(share, receiver, shares)
      held      == TotalAssets + assets
      fees      == FeeOnRaw(ToAssetsUp(shares, after, held)) \div 2
      feeShares == ToSharesUp(fees, after, held)
  IN /\ Initialized
     /\ CanPrice(share, TotalAssets)
     /\ PullIn(c, assets)
     /\ CanMint(share, receiver, shares)
     /\ CanPrice(after, held)
     /\ CanPayFee(after, held, fees, feeShares)
     /\ share' = WithFee(after, fees, feeShares)
     /\ UNCHANGED <<allowance, aSpenders, roles>>

Withdraw(c, assets, receiver, holder) ==
  LET shares    == PreviewWithdraw(assets)
      after     == Burned(share, holder, shares)
      held      == TotalAssets - assets
      fees      == FeeOnRaw(assets) \div 2
      feeShares == ToSharesUp(fees, after, held)
  IN /\ Initialized
     /\ CanPrice(share, TotalAssets)
     /\ assets <= MaxWithdraw(holder)
     /\ MaySpend(c, holder, shares)
     /\ PayOut(receiver, assets)
     /\ CanBurn(share, holder, shares)
     /\ CanPayFee(after, held, fees, feeShares)
     /\ share' = WithFee(after, fees, feeShares)
     /\ SpendShares(c, holder, shares)
     /\ UNCHANGED <<aSpenders, roles>>

Redeem(c, shares, receiver, holder) ==
  LET assets    == PreviewRedeem(shares)
      after     == Burned(share, holder, shares)
      held      == TotalAssets - assets
      fees      == FeeOnRaw(ToAssetsDown(shares, after, held)) \div 2
      feeShares == ToSharesDown(fees, after, held)
  IN /\ Initialized
     /\ CanPrice(share, TotalAssets)
     /\ shares <= MaxRedeem(holder)
     /\ MaySpend(c, holder, shares)
     /\ PayOut(receiver, assets)
     /\ CanBurn(share, holder, shares)
     /\ CanPayFee(after, held, fees, feeShares)
     /\ share' = WithFee(after, fees, feeShares)
     /\ SpendShares(c, holder, shares)
     /\ UNCHANGED <<aSpenders, roles>>

\* A holder gives up shares for nothing.
BurnShare(c, shares) ==
  /\ Initialized
  /\ CanBurn(share, c, shares)
  /\ share' = Burned(share, c, shares)
  /\ UNCHANGED <<allowance, money, aSpenders, roles>>

(* The share token itself; no gate on initialisation.                      *)

Transfer(c, to, shares) ==
  /\ CanMove(share, c, to, shares)
  /\ share' = Moved(share, c, to, shares)
  /\ UNCHANGED <<allowance, money, aSpenders, roles>>

TransferFrom(c, holder, to, shares) ==
  /\ CanSpend(allowance, holder, c, shares)
  /\ CanMove(share, holder, to, shares)
  /\ allowance' = Spent(allowance, holder, c, shares)
  /\ share' = Moved(share, holder, to, shares)
  /\ UNCHANGED <<money, aSpenders, roles>>

Approve(c, spender, shares) ==
  /\ allowance' = [allowance EXCEPT ![c][spender] = shares]
  /\ UNCHANGED <<share, money, aSpenders, roles>>

\* Everything an address can ask of the vault without a role.
HolderCall(c) ==
  \/ \E n \in AssetAmounts, to \in Receivers :
       \/ Deposit(c, n, to)
       \/ \E holder \in Account : Withdraw(c, n, to, holder)
  \/ \E n \in ShareAmounts, to \in Receivers :
       \/ Mint(c, n, to)
       \/ Transfer(c, to, n)
       \/ \E holder \in Account :
            Redeem(c, n, to, holder) \/ TransferFrom(c, holder, to, n)
  \/ \E n \in ShareAmounts : BurnShare(c, n)
  \/ \E n \in ApprovalAmounts, to \in Spenders : Approve(c, to, n)

-----------------------------------------------------------------------------
(* The manager (controller) and the owner.                                 *)

\* _initializeVault may be called again at any time.  `from` has approved the
\* vault on its aTokens; the shares are priced by the manager, not the vault.
InitializeVault(c, to, from, assets, shares) ==
  /\ onlyManager(c)
  /\ aToken[from] >= assets
  /\ CanMint(share, to, shares * ShareUnit)
  /\ Fits(aToken[Vault] + assets)
  /\ aToken' = [aToken EXCEPT ![from] = @ - assets, ![Vault] = @ + assets]
  /\ initialized' = TRUE
  /\ share' = Minted(share, to, shares * ShareUnit)
  /\ UNCHANGED <<allowance, asset, poolCash, aSpenders, controller, owner,
                 feeReceiver>>

(* execute makes the vault call any contract with any data.  A call that   *)
(* fails is reported, not reverted, and changes nothing.  The calls that   *)
(* matter here are those on the aToken, the pool, the asset and the vault. *)

ApproveAToken(spender) ==
  /\ aSpenders' = aSpenders \cup {spender}
  /\ UNCHANGED <<token, money, roles>>

RevokeAToken(spender) ==
  /\ aSpenders' = aSpenders \ {spender}
  /\ UNCHANGED <<token, money, roles>>

SendAToken(to, n) ==
  /\ aToken[Vault] >= n
  /\ Fits(aToken[to] + n)
  /\ aToken' = [aToken EXCEPT ![Vault] = @ - n, ![to] = @ + n]
  /\ UNCHANGED <<token, asset, poolCash, aSpenders, roles>>

PoolWithdraw(to, n) ==
  /\ PayOut(to, n)
  /\ UNCHANGED <<token, aSpenders, roles>>

SendAsset(to, n) ==
  /\ asset[Vault] >= n
  /\ asset' = [asset EXCEPT ![Vault] = @ - n, ![to] = @ + n]
  /\ UNCHANGED <<token, aToken, poolCash, aSpenders, roles>>

Execute(c) ==
  /\ onlyManager(c)
  /\ Initialized
  /\ \/ \E to \in ExecTargets : ApproveAToken(to) \/ RevokeAToken(to)
     \/ \E to \in ExecTargets, n \in AssetAmounts :
          SendAToken(to, n) \/ PoolWithdraw(to, n) \/ SendAsset(to, n)
     \/ ExecTargets # {} /\ HolderCall(Vault)

SetFeeReciever(c, to) ==
  /\ onlyManager(c)
  /\ feeReceiver' = to
  /\ UNCHANGED <<token, money, aSpenders, initialized, controller, owner>>

SetManager(c, to) ==
  /\ onlyOwner(c)
  /\ controller' = to
  /\ UNCHANGED <<token, money, aSpenders, initialized, owner, feeReceiver>>

TransferOwnership(c, to) ==
  /\ onlyOwner(c)
  /\ to # Zero
  /\ owner' = to
  /\ UNCHANGED <<token, money, aSpenders, initialized, controller,
                 feeReceiver>>

RenounceOwnership(c) ==
  /\ onlyOwner(c)
  /\ owner' = Zero
  /\ UNCHANGED <<token, money, aSpenders, initialized, controller,
                 feeReceiver>>

RoleCall(c) ==
  \/ \E to \in Receivers, from \in User, n \in SeedAssets, s \in SeedShares :
       InitializeVault(c, to, from, n, s)
  \/ Execute(c)
  \/ \E to \in RoleTargets :
       SetFeeReciever(c, to) \/ SetManager(c, to) \/ TransferOwnership(c, to)
  \/ RoleTargets # {} /\ RenounceOwnership(c)

-----------------------------------------------------------------------------
(* What happens outside the vault's own calls.                             *)

\* An address the vault has approved moves its aTokens.
SpendAToken(spender, to, n) ==
  /\ spender \in aSpenders
  /\ SendAToken(to, n)

\* Anybody may send aTokens to the vault.
Donate(c, n) ==
  /\ aToken[c] >= n
  /\ Fits(aToken[Vault] + n)
  /\ aToken' = [aToken EXCEPT ![c] = @ - n, ![Vault] = @ + n]
  /\ UNCHANGED <<token, asset, poolCash, aSpenders, roles>>

AccrueYield(n) ==
  /\ TotalAssets > 0
  /\ Fits(aToken[Vault] + n)
  /\ aToken' = [aToken EXCEPT ![Vault] = @ + n]
  /\ UNCHANGED <<token, asset, poolCash, aSpenders, roles>>

Borrow(n) ==
  /\ poolCash >= n
  /\ poolCash' = poolCash - n
  /\ UNCHANGED <<token, asset, aToken, aSpenders, roles>>

Repay(n) ==
  /\ poolCash + n <= MaxPoolCash
  /\ poolCash' = poolCash + n
  /\ UNCHANGED <<token, asset, aToken, aSpenders, roles>>

Outside ==
  \/ \E spender \in aSpenders, to \in User, n \in AssetAmounts :
       SpendAToken(spender, to, n)
  \/ \E c \in User, n \in AssetAmounts : Donate(c, n)
  \/ \E n \in Yields : AccrueYield(n)
  \/ \E n \in Loans : Borrow(n) \/ Repay(n)

-----------------------------------------------------------------------------
Init ==
  /\ share = EmptyLedger
  /\ allowance = NoAllowances
  /\ asset = InitAsset
  /\ aToken = InitAToken
  /\ aSpenders = {}
  /\ poolCash = InitPoolCash
  /\ initialized = FALSE
  /\ controller = Deployer
  /\ owner = Deployer
  /\ feeReceiver = Deployer

Next ==
  \/ \E c \in User : HolderCall(c) \/ RoleCall(c)
  \/ Outside

Spec == Init /\ [][Next]_vars

-----------------------------------------------------------------------------
(* Properties.                                                             *)

\* Types: every balance, the supply and every allowance is a Uint, roles are
\* addresses, and only the two asset counters outside the vault are unbounded.
TypeOK ==
  /\ share \in Ledger
  /\ allowance \in Allowances
  /\ asset \in [Account -> Nat]
  /\ aToken \in Balances
  /\ aSpenders \subseteq Account
  /\ poolCash \in Nat
  /\ initialized \in BOOLEAN
  /\ controller \in Account \cup {Zero}
  /\ owner \in Account \cup {Zero}
  /\ feeReceiver \in Account \cup {Zero}

\* The share balances add up to the total supply, through every mint, burn and
\* fee mint.  _update relies on it twice: its additions to balances and its
\* subtraction from the supply are unchecked and would wrap without it.
SupplyIsSum == share.supply = SumOf(share.balance)

\* Before initialisation nobody holds a share and the vault has approved nobody,
\* whatever was approved or donated before.
NothingBeforeInit == ~initialized => share.supply = 0 /\ aSpenders = {}

\* The price of a share, (assets + 1) / (supply + virtual shares), does not fall
\* when `slack` of the new shares are left out of the count.
PriceKept(slack) ==
  (aToken'[Vault] + 1) * (share.supply + VirtualShares)
    >= (TotalAssets + 1) * (share'.supply + VirtualShares - slack)

\* The steps that may lower the price: the manager's, and those of an address
\* the vault has approved on its aTokens.
ManagerStep == \E c \in User : RoleCall(c)
SpenderStep == \E s \in aSpenders, to \in User, n \in AssetAmounts :
                 SpendAToken(s, to, n)

\* No holder, donor or pool step lowers the share price by more than the one
\* share that mint and withdraw add when they round the fee shares up.
PriceNeverFalls == [][PriceKept(1) \/ ManagerStep \/ SpenderStep]_vars

\* What an account owns outside the vault, with its shares at the vault's price.
Worth(u) == asset[u] + MaxWithdraw(u)

\* Nobody but the fee receiver gets richer by a call on his own account: the
\* roundings, the fee and the price change that the call itself causes never
\* add up to a gain, not even of one unit.
NoFreeProfit ==
  [][\A c \in User \ {feeReceiver} :
       \/ \E n \in AssetAmounts : Deposit(c, n, c) \/ Withdraw(c, n, c, c)
       \/ \E n \in ShareAmounts : Mint(c, n, c) \/ Redeem(c, n, c, c)
      => Worth(c)' <= Worth(c)]_vars

\* How many shares an account lost in a step.
Lost(u) == IF share'.balance[u] < share.balance[u]
           THEN share.balance[u] - share'.balance[u] ELSE 0

\* A caller can lower somebody else's share balance only within the allowance
\* it was given, and uses that allowance up unless it is infinite.
OnlyByAllowance ==
  [][\A c \in User, u \in Account :
       c # u /\ Lost(u) > 0 /\ HolderCall(c)
      => \/ allowance[u][c] = MaxUint
         \/ /\ Lost(u) <= allowance[u][c]
            /\ allowance'[u][c] <= allowance[u][c] - Lost(u)]_vars

\* After the owner renounces, the manager is the manager for good, and nobody can
\* take the ownership up again.
RenouncedForGood ==
  [][owner = Zero => owner' = Zero /\ controller' = controller]_vars

\* The vault implements the abstract pool of shares: its holders, the pool, the
\* donors and the manager do to (assets, supply, initialized) only what SharePool
\* allows, at a slack of the one share that rounding up the fee shares costs.
Abstract == INSTANCE SharePool WITH
  assets <- TotalAssets, supply <- share.supply, open <- initialized,
  Slack <- 1, Custodial <- ExecTargets # {},
  Seeds <- SeedAssets \X {s * ShareUnit : s \in SeedShares}

IsSharePool == Abstract!Spec

=============================================================================
