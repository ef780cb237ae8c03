--------------------------- MODULE AaveVaultProofs --------------------------
(***************************************************************************)
(* Safety of AaveVault for every number of accounts, every fee up to the   *)
(* whole amount and every integer width.  The inductive invariant joins    *)
(* the types, the share sum and the gate: the types need the sum, because  *)
(* the ledger's additions are unchecked, and the gate needs it, because a  *)
(* burn before initialisation must be of no shares.                        *)
(***************************************************************************)
EXTENDS AaveVault, ERC20Proofs

IInv == TypeOK /\ SupplyIsSum /\ NothingBeforeInit

\* A conversion of naturals is a natural.
LEMMA MulDivType ==
  ASSUME NEW x \in Nat, NEW y \in Nat, NEW d \in Nat \ {0}
  PROVE  MulDivDown(x, y, d) \in Nat /\ MulDivUp(x, y, d) \in Nat
<1> DEFINE p == x * y
<1>1. p \in Nat
  OBVIOUS
<1> HIDE DEF p
<1>2. p \div d \in Nat
  BY <1>1
<1>3. QED
  BY <1>2 DEF MulDivDown, MulDivUp, p

\* Every price asked of a sound ledger and a natural amount is a natural.
LEMMA PriceType ==
  ASSUME NEW n \in Nat, NEW t, SoundLedger(t), NEW a \in Nat
  PROVE  /\ ToSharesDown(n, t, a) \in Nat
         /\ ToSharesUp(n, t, a) \in Nat
         /\ ToAssetsDown(n, t, a) \in Nat
         /\ ToAssetsUp(n, t, a) \in Nat
<1>1. t.supply + VirtualShares \in Nat \ {0} /\ a + 1 \in Nat \ {0}
  BY FixedPointAssumption, VaultAssumption DEF SoundLedger, Ledger, Uint
<1>2. QED
  BY <1>1, MulDivType
     DEF ToSharesDown, ToSharesUp, ToAssetsDown, ToAssetsUp

\* The fee is a part of the amount.
LEMMA FeeType ==
  ASSUME NEW n \in Nat
  PROVE  FeeOnRaw(n) \in Nat /\ FeeOnRaw(n) <= n
<1> DEFINE p == n * FeeRate
<1>1. p \in Nat /\ p <= n * BasisPoints
  BY VaultAssumption
<1>2. (n * BasisPoints) \div BasisPoints = n
  BY VaultAssumption
<1>3. p \div BasisPoints <= (n * BasisPoints) \div BasisPoints
  BY <1>1, VaultAssumption
<1>4. QED
  BY <1>1, <1>2, <1>3, MulDivType, VaultAssumption DEF FeeOnRaw, MulDivDown

\* The fee mint keeps the ledger sound and lowers neither the supply nor any
\* balance.
LEMMA WithFeeSound ==
  ASSUME NEW t, SoundLedger(t), NEW a \in Nat, NEW fees \in Nat,
         NEW feeShares \in Nat, feeReceiver \in Account \cup {Zero},
         CanPayFee(t, a, fees, feeShares)
  PROVE  /\ SoundLedger(WithFee(t, fees, feeShares))
         /\ WithFee(t, fees, feeShares).supply >= t.supply
         /\ \A u \in Account :
              WithFee(t, fees, feeShares).balance[u] >= t.balance[u]
<1>1. t.supply \in Nat /\ \A u \in Account : t.balance[u] \in Nat
  BY FixedPointAssumption DEF SoundLedger, Ledger, Balances, Uint
<1>2. CASE ChargesFee(fees)
  <2>1. feeReceiver \in Account /\ CanMint(t, feeReceiver, feeShares)
    BY <1>2 DEF ChargesFee, CanPayFee
  <2>2. /\ SoundLedger(Minted(t, feeReceiver, feeShares))
        /\ \A u \in Account :
             Minted(t, feeReceiver, feeShares).balance[u] >= t.balance[u]
    BY <2>1, MintedSound
  <2>3. Minted(t, feeReceiver, feeShares).supply = t.supply + feeShares
    BY DEF Minted
  <2>4. QED
    BY <1>1, <1>2, <2>2, <2>3 DEF WithFee
<1>3. CASE ~ChargesFee(fees)
  BY <1>1, <1>3 DEF WithFee
<1>4. QED
  BY <1>2, <1>3

\* The types of the money that _deposit and _withdraw move.
LEMMA PullInType ==
  ASSUME TypeOK, NEW c \in Account, NEW assets \in Nat, PullIn(c, assets)
  PROVE  /\ asset' \in [Account -> Nat]
         /\ aToken' \in Balances
         /\ poolCash' \in Nat
         /\ TotalAssets + assets \in Nat
  BY FixedPointAssumption, VaultAssumption
     DEF PullIn, TypeOK, Balances, Uint, Fits, TotalAssets

LEMMA PayOutType ==
  ASSUME TypeOK, NEW to \in Account, NEW assets \in Nat, PayOut(to, assets)
  PROVE  /\ asset' \in [Account -> Nat]
         /\ aToken' \in Balances
         /\ poolCash' \in Nat
         /\ TotalAssets - assets \in Nat
  BY FixedPointAssumption, VaultAssumption
     DEF PayOut, TypeOK, Balances, Uint, TotalAssets

\* What IInv says of the ledger and of the amounts that calls enumerate.
LEMMA IInvFacts ==
  ASSUME IInv
  PROVE  /\ SoundLedger(share)
         /\ TotalAssets \in Nat
         /\ allowance \in Allowances
         /\ feeReceiver \in Account \cup {Zero}
         /\ AssetAmounts \subseteq Nat /\ ShareAmounts \subseteq Nat
         /\ Receivers \subseteq Account /\ Vault \in Account
  BY FixedPointAssumption, VaultAssumption
     DEF IInv, TypeOK, SupplyIsSum, SoundLedger, TotalAssets, Balances, Uint

\* The previews of natural amounts are naturals.
LEMMA PreviewType ==
  ASSUME IInv, NEW n \in Nat
  PROVE  /\ PreviewDeposit(n) \in Nat
         /\ PreviewMint(n) \in Nat
         /\ PreviewWithdraw(n) \in Nat
         /\ PreviewRedeem(n) \in Nat
<1>1. SoundLedger(share) /\ TotalAssets \in Nat
  BY IInvFacts
<1>2. FeeOnRaw(n) \in Nat /\ n - FeeOnRaw(n) \in Nat /\ n + FeeOnRaw(n) \in Nat
  BY FeeType
<1>3. PreviewDeposit(n) \in Nat /\ PreviewWithdraw(n) \in Nat
  BY <1>1, <1>2, PriceType DEF PreviewDeposit, PreviewWithdraw
<1>4. PreviewMint(n) \in Nat
  <2>1. ToAssetsUp(n, share, TotalAssets) \in Nat
    BY <1>1, PriceType
  <2>2. QED
    BY <2>1, FeeType DEF PreviewMint
<1>5. PreviewRedeem(n) \in Nat
  <2>1. ToAssetsDown(n, share, TotalAssets) \in Nat
    BY <1>1, PriceType
  <2>2. QED
    BY <2>1, FeeType DEF PreviewRedeem
<1>6. QED
  BY <1>3, <1>4, <1>5

\* A step of a holder's call keeps IInv as soon as the gate was open, the ledger
\* stays sound and the money and the allowances stay well typed.
LEMMA OpenStepKeepsIInv ==
  ASSUME IInv, initialized, SoundLedger(share)',
         asset' \in [Account -> Nat], aToken' \in Balances, poolCash' \in Nat,
         allowance' \in Allowances, UNCHANGED <<aSpenders, roles>>
  PROVE  IInv'
  BY DEF IInv, TypeOK, SupplyIsSum, NothingBeforeInit, SoundLedger, roles

\* Transitivity on the balances of three sound ledgers.
LEMMA BalancesRise ==
  ASSUME NEW t, SoundLedger(t), NEW v, SoundLedger(v), NEW w, SoundLedger(w),
         \A u \in Account : v.balance[u] >= t.balance[u],
         \A u \in Account : w.balance[u] >= v.balance[u]
  PROVE  \A u \in Account : w.balance[u] >= t.balance[u]
  BY FixedPointAssumption DEF SoundLedger, Ledger, Balances, Uint

\* deposit keeps IInv and takes shares from nobody.
LEMMA DepositStep ==
  ASSUME IInv, NEW c \in Account, NEW assets \in Nat, NEW receiver \in Account,
         Deposit(c, assets, receiver)
  PROVE  IInv' /\ \A u \in Account : share'.balance[u] >= share.balance[u]
<1> DEFINE shares    == PreviewDeposit(assets)
           after     == Minted(share, receiver, shares)
           held      == TotalAssets + assets
           fees      == FeeOnRaw(assets) \div 2
           feeShares == ToSharesDown(fees, after, held)
<1>1. /\ initialized
      /\ PullIn(c, assets)
      /\ CanMint(share, receiver, shares)
      /\ CanPayFee(after, held, fees, feeShares)
      /\ share' = WithFee(after, fees, feeShares)
      /\ UNCHANGED <<allowance, aSpenders, roles>>
  BY DEF Deposit, Initialized
<1>2. TypeOK /\ SoundLedger(share) /\ allowance \in Allowances
      /\ feeReceiver \in Account \cup {Zero}
  BY IInvFacts DEF IInv
<1>3. /\ asset' \in [Account -> Nat] /\ aToken' \in Balances
      /\ poolCash' \in Nat /\ held \in Nat
  BY <1>1, <1>2, PullInType
<1>4. shares \in Nat
  BY PreviewType
<1>5. fees \in Nat
  BY FeeType
<1> HIDE DEF shares, held, fees
<1>6. /\ SoundLedger(after)
      /\ \A u \in Account : after.balance[u] >= share.balance[u]
  BY <1>1, <1>2, <1>4, MintedSound
<1> HIDE DEF after
<1>7. feeShares \in Nat
  BY <1>3, <1>5, <1>6, PriceType
<1> HIDE DEF feeShares
<1>8. /\ SoundLedger(share')
      /\ \A u \in Account : share'.balance[u] >= after.balance[u]
  BY <1>1, <1>2, <1>3, <1>5, <1>6, <1>7, WithFeeSound
<1>9. IInv'
  BY <1>1, <1>2, <1>3, <1>8, OpenStepKeepsIInv
<1>10. QED
  BY <1>2, <1>6, <1>8, <1>9, BalancesRise

\* mint keeps IInv and takes shares from nobody.
LEMMA MintStep ==
  ASSUME IInv, NEW c \in Account, NEW shares \in Nat, NEW receiver \in Account,
         Mint(c, shares, receiver)
  PROVE  IInv' /\ \A u \in Account : share'.balance[u] >= share.balance[u]
<1> DEFINE assets    == PreviewMint(shares)
           after     == Minted(share, receiver, shares)
           held      == TotalAssets + assets
           fees      == FeeOnRaw(ToAssetsUp(shares, after, held)) \div 2
           feeShares == ToSharesUp(fees, after, held)
<1>1. /\ initialized
      /\ PullIn(c, assets)
      /\ CanMint(share, receiver, shares)
      /\ CanPayFee(after, held, fees, feeShares)
      /\ share' = WithFee(after, fees, feeShares)
      /\ UNCHANGED <<allowance, aSpenders, roles>>
  BY DEF Mint, Initialized
<1>2. TypeOK /\ SoundLedger(share) /\ allowance \in Allowances
      /\ feeReceiver \in Account \cup {Zero}
  BY IInvFacts DEF IInv
<1>3. assets \in Nat
  BY PreviewType
<1>4. /\ asset' \in [Account -> Nat] /\ aToken' \in Balances
      /\ poolCash' \in Nat /\ held \in Nat
  BY <1>1, <1>2, <1>3, PullInType
<1>5. /\ SoundLedger(after)
      /\ \A u \in Account : after.balance[u] >= share.balance[u]
  BY <1>1, <1>2, MintedSound
<1> HIDE DEF assets, after, held
<1>6. fees \in Nat
  <2>1. ToAssetsUp(shares, after, held) \in Nat
    BY <1>4, <1>5, PriceType
  <2>2. QED
    BY <2>1, FeeType
<1> HIDE DEF fees
<1>7. feeShares \in Nat
  BY <1>4, <1>5, <1>6, PriceType
<1> HIDE DEF feeShares
<1>8. /\ SoundLedger(share')
      /\ \A u \in Account : share'.balance[u] >= after.balance[u]
  BY <1>1, <1>2, <1>4, <1>5, <1>6, <1>7, WithFeeSound
<1>9. IInv'
  BY <1>1, <1>2, <1>4, <1>8, OpenStepKeepsIInv
<1>10. QED
  BY <1>2, <1>5, <1>8, <1>9, BalancesRise

\* A ledger burned from `holder` and raised since has lost at most the burn there.
LEMMA BalancesAfterBurn ==
  ASSUME NEW t, SoundLedger(t), NEW holder \in Account, NEW n \in Nat,
         SoundLedger(Burned(t, holder, n)), NEW w, SoundLedger(w),
         \A u \in Account : w.balance[u] >= Burned(t, holder, n).balance[u]
  PROVE  \A u \in Account :
           w.balance[u] >= IF u = holder THEN t.balance[u] - n ELSE t.balance[u]
<1>1. t.balance \in [Account -> Nat] /\ w.balance \in [Account -> Nat]
  BY FixedPointAssumption DEF SoundLedger, Ledger, Balances, Uint
<1>2. \A u \in Account : Burned(t, holder, n).balance[u]
        = IF u = holder THEN t.balance[u] - n ELSE t.balance[u]
  BY <1>1 DEF Burned
<1>3. QED
  BY <1>1, <1>2

\* What an allowance that was asked for and spent leaves behind.
LEMMA SpendSharesType ==
  ASSUME allowance \in Allowances, NEW c \in Account, NEW holder \in Account,
         NEW n \in Nat, MaySpend(c, holder, n), SpendShares(c, holder, n)
  PROVE  allowance' \in Allowances
  BY SpentType DEF MaySpend, SpendShares

\* withdraw keeps IInv and takes from the holder alone, no more than the shares it
\* priced.
LEMMA WithdrawStep ==
  ASSUME IInv, NEW c \in Account, NEW assets \in Nat, NEW receiver \in Account,
         NEW holder \in Account, Withdraw(c, assets, receiver, holder)
  PROVE  /\ IInv'
         /\ \A u \in Account : share'.balance[u]
              >= IF u = holder THEN share.balance[u] - PreviewWithdraw(assets)
                 ELSE share.balance[u]
<1> DEFINE shares    == PreviewWithdraw(assets)
           after     == Burned(share, holder, shares)
           held      == TotalAssets - assets
           fees      == FeeOnRaw(assets) \div 2
           feeShares == ToSharesUp(fees, after, held)
<1>1. /\ initialized
      /\ MaySpend(c, holder, shares)
      /\ PayOut(receiver, assets)
      /\ CanBurn(share, holder, shares)
      /\ CanPayFee(after, held, fees, feeShares)
      /\ share' = WithFee(after, fees, feeShares)
      /\ SpendShares(c, holder, shares)
      /\ UNCHANGED <<aSpenders, roles>>
  BY DEF Withdraw, Initialized
<1>2. TypeOK /\ SoundLedger(share) /\ allowance \in Allowances
      /\ feeReceiver \in Account \cup {Zero}
  BY IInvFacts DEF IInv
<1>3. /\ asset' \in [Account -> Nat] /\ aToken' \in Balances
      /\ poolCash' \in Nat /\ held \in Nat
  BY <1>1, <1>2, PayOutType
<1>4. shares \in Nat
  BY PreviewType
<1>5. fees \in Nat
  BY FeeType
<1> HIDE DEF shares, held, fees
<1>6. SoundLedger(after)
  BY <1>1, <1>2, <1>4, BurnedSound
<1>7. allowance' \in Allowances
  BY <1>1, <1>2, <1>4, SpendSharesType
<1> HIDE DEF after
<1>8. feeShares \in Nat
  BY <1>3, <1>5, <1>6, PriceType
<1> HIDE DEF feeShares
<1>9. /\ SoundLedger(share')
      /\ \A u \in Account : share'.balance[u] >= after.balance[u]
  BY <1>1, <1>2, <1>3, <1>5, <1>6, <1>8, WithFeeSound
<1>10. IInv'
  BY <1>1, <1>3, <1>7, <1>9, OpenStepKeepsIInv
<1>11. QED
  BY <1>2, <1>4, <1>6, <1>9, <1>10, BalancesAfterBurn DEF after, shares

\* redeem keeps IInv and takes from the holder alone, no more than it was asked to.
LEMMA RedeemStep ==
  ASSUME IInv, NEW c \in Account, NEW shares \in Nat, NEW receiver \in Account,
         NEW holder \in Account, Redeem(c, shares, receiver, holder)
  PROVE  /\ IInv'
         /\ \A u \in Account : share'.balance[u]
              >= IF u = holder THEN share.balance[u] - shares
                 ELSE share.balance[u]
<1> DEFINE assets    == PreviewRedeem(shares)
           after     == Burned(share, holder, shares)
           held      == TotalAssets - assets
           fees      == FeeOnRaw(ToAssetsDown(shares, after, held)) \div 2
           feeShares == ToSharesDown(fees, after, held)
<1>1. /\ initialized
      /\ MaySpend(c, holder, shares)
      /\ PayOut(receiver, assets)
      /\ CanBurn(share, holder, shares)
      /\ CanPayFee(after, held, fees, feeShares)
      /\ share' = WithFee(after, fees, feeShares)
      /\ SpendShares(c, holder, shares)
      /\ UNCHANGED <<aSpenders, roles>>
  BY DEF Redeem, Initialized
<1>2. TypeOK /\ SoundLedger(share) /\ allowance \in Allowances
      /\ feeReceiver \in Account \cup {Zero}
  BY IInvFacts DEF IInv
<1>3. assets \in Nat
  BY PreviewType
<1>4. /\ asset' \in [Account -> Nat] /\ aToken' \in Balances
      /\ poolCash' \in Nat /\ held \in Nat
  BY <1>1, <1>2, <1>3, PayOutType
<1>5. SoundLedger(after)
  BY <1>1, <1>2, BurnedSound
<1>6. allowance' \in Allowances
  BY <1>1, <1>2, SpendSharesType
<1> HIDE DEF assets, after, held
<1>7. fees \in Nat
  <2>1. ToAssetsDown(shares, after, held) \in Nat
    BY <1>4, <1>5, PriceType
  <2>2. QED
    BY <2>1, FeeType
<1> HIDE DEF fees
<1>8. feeShares \in Nat
  BY <1>4, <1>5, <1>7, PriceType
<1> HIDE DEF feeShares
<1>9. /\ SoundLedger(share')
      /\ \A u \in Account : share'.balance[u] >= after.balance[u]
  BY <1>1, <1>2, <1>4, <1>5, <1>7, <1>8, WithFeeSound
<1>10. IInv'
  BY <1>1, <1>4, <1>6, <1>9, OpenStepKeepsIInv
<1>11. QED
  BY <1>2, <1>5, <1>9, <1>10, BalancesAfterBurn DEF after

\* The share token's own calls: the supply moves only behind the gate.
LEMMA TokenCallKeepsIInv ==
  ASSUME IInv, NEW c \in Account,
         \/ \E n \in ShareAmounts : BurnShare(c, n)
         \/ \E n \in ShareAmounts, to \in Receivers :
              \/ Transfer(c, to, n)
              \/ \E holder \in Account : TransferFrom(c, holder, to, n)
         \/ \E n \in ApprovalAmounts, to \in Spenders : Approve(c, to, n)
  PROVE  IInv'
<1>1. /\ TypeOK /\ SoundLedger(share) /\ allowance \in Allowances
      /\ ShareAmounts \subseteq Nat /\ Receivers \subseteq Account
  BY IInvFacts DEF IInv
<1>2. /\ asset \in [Account -> Nat] /\ aToken \in Balances /\ poolCash \in Nat
  BY <1>1 DEF TypeOK
<1>3. ASSUME NEW n \in ShareAmounts, BurnShare(c, n)
      PROVE  IInv'
  <2>1. /\ initialized /\ CanBurn(share, c, n) /\ share' = Burned(share, c, n)
        /\ UNCHANGED <<allowance, money, aSpenders, roles>>
    BY <1>3 DEF BurnShare, Initialized
  <2>2. SoundLedger(share')
    BY <1>1, <2>1, BurnedSound
  <2>3. QED
    BY <1>1, <1>2, <2>1, <2>2, OpenStepKeepsIInv DEF money
<1>4. ASSUME SoundLedger(share'), share'.supply = share.supply,
             allowance' \in Allowances, UNCHANGED <<money, aSpenders, roles>>
      PROVE  IInv'
  BY <1>2, <1>4
     DEF IInv, TypeOK, SupplyIsSum, NothingBeforeInit, SoundLedger, money, roles
<1>5. ASSUME NEW n \in ShareAmounts, NEW to \in Receivers, Transfer(c, to, n)
      PROVE  IInv'
  <2>1. SoundLedger(share') /\ share'.supply = share.supply
    BY <1>1, <1>5, MovedSound DEF Transfer
  <2>2. QED
    BY <1>1, <1>4, <1>5, <2>1 DEF Transfer
<1>6. ASSUME NEW n \in ShareAmounts, NEW to \in Receivers, NEW holder \in Account,
             TransferFrom(c, holder, to, n)
      PROVE  IInv'
  <2>1. SoundLedger(share') /\ share'.supply = share.supply
    BY <1>1, <1>6, MovedSound DEF TransferFrom
  <2>2. allowance' \in Allowances
    BY <1>1, <1>6, SpentType DEF TransferFrom
  <2>3. QED
    BY <1>4, <1>6, <2>1, <2>2 DEF TransferFrom
<1>7. ASSUME NEW n \in ApprovalAmounts, NEW to \in Spenders, Approve(c, to, n)
      PROVE  IInv'
  <2>1. n \in Uint /\ to \in Account
    BY VaultAssumption
  <2>2. allowance' \in Allowances
    BY <1>1, <1>7, <2>1 DEF Approve, Allowances
  <2>3. QED
    BY <1>1, <1>4, <1>7, <2>2 DEF Approve
<1>8. QED
  BY <1>3, <1>5, <1>6, <1>7

LEMMA HolderCallKeepsIInv ==
  ASSUME IInv, NEW c \in Account, HolderCall(c)
  PROVE  IInv'
<1>1. /\ AssetAmounts \subseteq Nat /\ ShareAmounts \subseteq Nat
      /\ Receivers \subseteq Account
  BY IInvFacts
<1>2. ASSUME NEW n \in AssetAmounts, NEW to \in Receivers, Deposit(c, n, to)
      PROVE  IInv'
  BY <1>1, <1>2, DepositStep
<1>3. ASSUME NEW n \in AssetAmounts, NEW to \in Receivers, NEW h \in Account,
             Withdraw(c, n, to, h)
      PROVE  IInv'
  BY <1>1, <1>3, WithdrawStep
<1>4. ASSUME NEW n \in ShareAmounts, NEW to \in Receivers, Mint(c, n, to)
      PROVE  IInv'
  BY <1>1, <1>4, MintStep
<1>5. ASSUME NEW n \in ShareAmounts, NEW to \in Receivers, NEW h \in Account,
             Redeem(c, n, to, h)
      PROVE  IInv'
  BY <1>1, <1>5, RedeemStep
<1>6. QED
  BY <1>2, <1>3, <1>4, <1>5, TokenCallKeepsIInv DEF HolderCall

LEMMA InitializeVaultKeepsIInv ==
  ASSUME IInv, NEW c \in User, NEW to \in Account, NEW from \in User,
         NEW assets \in Nat, NEW shares \in Nat,
         InitializeVault(c, to, from, assets, shares)
  PROVE  IInv'
<1>1. SoundLedger(share) /\ TypeOK
  BY IInvFacts DEF IInv
<1>2. shares * ShareUnit \in Nat
  BY VaultAssumption
<1>3. SoundLedger(share')
  BY <1>1, <1>2, MintedSound DEF InitializeVault
<1>4. aToken' \in Balances
  BY <1>1, FixedPointAssumption, VaultAssumption
     DEF InitializeVault, TypeOK, Balances, Uint, Fits, User
<1>5. QED
  BY <1>1, <1>3, <1>4
     DEF IInv, TypeOK, SupplyIsSum, NothingBeforeInit, SoundLedger, InitializeVault

\* Steps that leave the shares, the gate and the approved spenders alone.
LEMMA MoneyStepKeepsIInv ==
  ASSUME IInv, asset' \in [Account -> Nat], aToken' \in Balances,
         poolCash' \in Nat, UNCHANGED <<token, aSpenders, roles>>
  PROVE  IInv'
  BY DEF IInv, TypeOK, SupplyIsSum, NothingBeforeInit, token, roles

\* Steps that leave the shares and the money alone and need the gate or leave
\* the gate and the approved spenders alone too.
LEMMA RoleStepKeepsIInv ==
  ASSUME IInv, UNCHANGED <<token, money, initialized>>,
         aSpenders' \subseteq Account, initialized \/ UNCHANGED aSpenders,
         controller' \in Account \cup {Zero}, owner' \in Account \cup {Zero},
         feeReceiver' \in Account \cup {Zero}
  PROVE  IInv'
  BY DEF IInv, TypeOK, SupplyIsSum, NothingBeforeInit, token, money

LEMMA SendATokenKeepsIInv ==
  ASSUME IInv, NEW to \in User, NEW n \in Nat, SendAToken(to, n)
  PROVE  IInv'
<1>1. TypeOK
  BY DEF IInv
<1>2. aToken' \in Balances
  BY <1>1, FixedPointAssumption, VaultAssumption
     DEF SendAToken, TypeOK, Balances, Uint, Fits, User
<1>3. QED
  BY <1>1, <1>2, MoneyStepKeepsIInv DEF SendAToken, TypeOK

LEMMA ExecuteKeepsIInv ==
  ASSUME IInv, NEW c \in User, Execute(c)
  PROVE  IInv'
<1>1. /\ TypeOK /\ initialized
      /\ AssetAmounts \subseteq Nat /\ ExecTargets \subseteq User
      /\ User \subseteq Account /\ Vault \in Account
  BY IInvFacts, VaultAssumption DEF IInv, Execute, Initialized, User
<1>2. ASSUME NEW to \in ExecTargets, ApproveAToken(to) \/ RevokeAToken(to)
      PROVE  IInv'
  <2>1. aSpenders' \subseteq Account
    BY <1>1, <1>2 DEF ApproveAToken, RevokeAToken, TypeOK
  <2>2. QED
    BY <1>1, <1>2, <2>1, RoleStepKeepsIInv
       DEF ApproveAToken, RevokeAToken, TypeOK, roles
<1>3. ASSUME NEW to \in ExecTargets, NEW n \in AssetAmounts, SendAToken(to, n)
      PROVE  IInv'
  BY <1>1, <1>3, SendATokenKeepsIInv
<1>4. ASSUME NEW to \in ExecTargets, NEW n \in AssetAmounts, PoolWithdraw(to, n)
      PROVE  IInv'
  BY <1>1, <1>4, PayOutType, MoneyStepKeepsIInv DEF PoolWithdraw
<1>5. ASSUME NEW to \in ExecTargets, NEW n \in AssetAmounts, SendAsset(to, n)
      PROVE  IInv'
  <2>1. asset' \in [Account -> Nat]
    BY <1>1, <1>5 DEF SendAsset, TypeOK, User
  <2>2. QED
    BY <1>1, <1>5, <2>1, MoneyStepKeepsIInv DEF SendAsset, TypeOK
<1>6. QED
  BY <1>1, <1>2, <1>3, <1>4, <1>5, HolderCallKeepsIInv DEF Execute

LEMMA RoleCallKeepsIInv ==
  ASSUME IInv, NEW c \in User, RoleCall(c)
  PROVE  IInv'
<1>1. /\ TypeOK /\ RoleTargets \subseteq Account \cup {Zero}
      /\ SeedAssets \subseteq Nat /\ SeedShares \subseteq Nat
      /\ Receivers \subseteq Account
  BY FixedPointAssumption, VaultAssumption DEF IInv, User, Uint
<1>2. ASSUME NEW to \in Receivers, NEW from \in User, NEW n \in SeedAssets,
             NEW s \in SeedShares, InitializeVault(c, to, from, n, s)
      PROVE  IInv'
  BY <1>1, <1>2, InitializeVaultKeepsIInv
<1>3. ASSUME NEW to \in RoleTargets,
             SetFeeReciever(c, to) \/ SetManager(c, to) \/ TransferOwnership(c, to)
      PROVE  IInv'
  BY <1>1, <1>3, RoleStepKeepsIInv
     DEF SetFeeReciever, SetManager, TransferOwnership, TypeOK
<1>4. ASSUME RenounceOwnership(c)
      PROVE  IInv'
  BY <1>1, <1>4, RoleStepKeepsIInv DEF RenounceOwnership, TypeOK
<1>5. QED
  BY <1>2, <1>3, <1>4, ExecuteKeepsIInv DEF RoleCall

LEMMA OutsideKeepsIInv ==
  ASSUME IInv, Outside
  PROVE  IInv'
<1>1. /\ TypeOK /\ AssetAmounts \subseteq Nat
      /\ Yields \subseteq Nat /\ Loans \subseteq Nat
      /\ MaxPoolCash \in Nat /\ MaxUint \in Nat /\ Vault \in Account
  BY IInvFacts, VaultAssumption, FixedPointAssumption DEF IInv
<1>2. ASSUME NEW spender \in aSpenders, NEW to \in User, NEW n \in AssetAmounts,
             SpendAToken(spender, to, n)
      PROVE  IInv'
  BY <1>1, <1>2, SendATokenKeepsIInv DEF SpendAToken
<1>3. ASSUME NEW c \in User, NEW n \in AssetAmounts, Donate(c, n)
      PROVE  IInv'
  <2>1. aToken' \in Balances
    BY <1>1, <1>3 DEF Donate, TypeOK, Balances, Uint, Fits, User
  <2>2. QED
    BY <1>1, <1>3, <2>1, MoneyStepKeepsIInv DEF Donate, TypeOK
<1>4. ASSUME NEW n \in Yields, AccrueYield(n)
      PROVE  IInv'
  <2>1. aToken' \in Balances
    BY <1>1, <1>4 DEF AccrueYield, TypeOK, Balances, Uint, Fits
  <2>2. QED
    BY <1>1, <1>4, <2>1, MoneyStepKeepsIInv DEF AccrueYield, TypeOK
<1>5. ASSUME NEW n \in Loans, Borrow(n) \/ Repay(n)
      PROVE  IInv'
  <2>1. poolCash' \in Nat
    BY <1>1, <1>5 DEF Borrow, Repay, TypeOK
  <2>2. QED
    BY <1>1, <1>5, <2>1, MoneyStepKeepsIInv DEF Borrow, Repay, TypeOK
<1>6. QED
  BY <1>2, <1>3, <1>4, <1>5 DEF Outside

LEMMA InitIInv == Init => IInv
<1> SUFFICES ASSUME Init PROVE IInv
  OBVIOUS
<1>1. SoundLedger(share)
  BY EmptySound DEF Init
<1>2. TypeOK
  <2>1. share \in Ledger
    BY <1>1 DEF SoundLedger
  <2>2. allowance \in Allowances
    <3>1. 0 \in Uint
      BY FixedPointAssumption DEF Uint
    <3>2. QED
      BY <3>1 DEF Init, NoAllowances, Allowances
  <2>3. /\ asset \in [Account -> Nat] /\ aToken \in Balances
        /\ aSpenders \subseteq Account /\ poolCash \in Nat
        /\ initialized \in BOOLEAN
    BY VaultAssumption DEF Init
  <2>4. /\ controller \in Account \cup {Zero} /\ owner \in Account \cup {Zero}
        /\ feeReceiver \in Account \cup {Zero}
    BY VaultAssumption DEF Init, User
  <2>5. QED
    BY <2>1, <2>2, <2>3, <2>4 DEF TypeOK
<1>3. QED
  BY <1>1, <1>2
     DEF Init, IInv, SupplyIsSum, SoundLedger, NothingBeforeInit, EmptyLedger

LEMMA NextIInv == IInv /\ [Next]_vars => IInv'
<1> SUFFICES ASSUME IInv, [Next]_vars PROVE IInv'
  OBVIOUS
<1>1. CASE UNCHANGED vars
  BY <1>1 DEF IInv, TypeOK, SupplyIsSum, NothingBeforeInit,
              vars, token, money, roles
<1>2. ASSUME NEW c \in User, HolderCall(c) \/ RoleCall(c)
      PROVE  IInv'
  BY <1>2, HolderCallKeepsIInv, RoleCallKeepsIInv DEF User
<1>3. QED
  BY <1>1, <1>2, OutsideKeepsIInv DEF Next

\* In every reachable state the ledger is well typed and sums up, and nothing is
\* issued or approved before initialisation.
THEOREM Safety == Spec => []IInv
  BY InitIInv, NextIInv, PTL DEF Spec

\* Every value the vault keeps fits its Solidity type: no unchecked operation of
\* the share token ever wraps.
THEOREM TypeCorrect == Spec => []TypeOK
<1>1. IInv => TypeOK
  BY DEF IInv
<1>2. QED
  BY <1>1, Safety, PTL

\* The share balances add up to the total supply.
THEOREM SupplyIsAlwaysSum == Spec => []SupplyIsSum
<1>1. IInv => SupplyIsSum
  BY DEF IInv
<1>2. QED
  BY <1>1, Safety, PTL

\* Before initialisation there are no shares and no approved spenders.
THEOREM NothingIssuedBeforeInit == Spec => []NothingBeforeInit
<1>1. IInv => NothingBeforeInit
  BY DEF IInv
<1>2. QED
  BY <1>1, Safety, PTL

-----------------------------------------------------------------------------
(* Nobody loses shares without his consent, and a renounced ownership      *)
(* freezes the manager.                                                    *)

\* What OnlyByAllowance says of the caller c and the holder u of one step.
Consented(c, u) ==
  c # u /\ Lost(u) > 0
    => \/ allowance[u][c] = MaxUint
       \/ /\ Lost(u) <= allowance[u][c]
          /\ allowance'[u][c] <= allowance[u][c] - Lost(u)

\* A holder who loses nothing need not have consented.
LEMMA NothingLost ==
  ASSUME NEW c \in Account, NEW u \in Account,
         share.balance[u] \in Nat, share'.balance[u] \in Nat,
         share'.balance[u] >= share.balance[u]
  PROVE  Consented(c, u)
  BY DEF Consented, Lost

\* Shares taken against an allowance use it up by as many.
LEMMA SpentCoversLoss ==
  ASSUME allowance \in Allowances, NEW c \in Account, NEW holder \in Account,
         NEW n \in Nat, NEW u \in Account,
         share.balance[u] \in Nat, share'.balance[u] \in Nat,
         share'.balance[u] >= IF u = holder THEN share.balance[u] - n
                              ELSE share.balance[u],
         c # holder => /\ CanSpend(allowance, holder, c, n)
                       /\ allowance' = Spent(allowance, holder, c, n)
  PROVE  Consented(c, u)
<1>1. CASE u # holder
  BY <1>1, NothingLost
<1>2. CASE c = u
  BY <1>2 DEF Consented
<1>3. CASE u = holder /\ c # u
  <2>1. Lost(u) <= n /\ Lost(u) \in Nat
    BY <1>3 DEF Lost
  <2>2. allowance[u][c] \in Nat /\ allowance[u][c] >= n
    BY <1>3, FixedPointAssumption DEF CanSpend, Allowances, Uint
  <2>3. \/ allowance[u][c] = MaxUint
        \/ allowance'[u][c] = allowance[u][c] - n
    BY <1>3 DEF Spent, Allowances
  <2>4. QED
    BY <2>1, <2>2, <2>3 DEF Consented
<1>4. QED
  BY <1>1, <1>2, <1>3

\* A call by a holder keeps the types and asks consent of every other holder.
LEMMA HolderCallConsented ==
  ASSUME IInv, NEW c \in Account, HolderCall(c), NEW u \in Account
  PROVE  Consented(c, u)
<1>1. /\ AssetAmounts \subseteq Nat /\ ShareAmounts \subseteq Nat
      /\ Receivers \subseteq Account /\ allowance \in Allowances
      /\ SoundLedger(share)
  BY IInvFacts
<1>2. share.balance[u] \in Nat /\ share'.balance[u] \in Nat
  <2>1. IInv'
    BY HolderCallKeepsIInv
  <2>2. QED
    BY <2>1, FixedPointAssumption DEF IInv, TypeOK, Ledger, Balances, Uint
<1>3. ASSUME NEW n \in AssetAmounts, NEW to \in Receivers, Deposit(c, n, to)
      PROVE  Consented(c, u)
  BY <1>1, <1>2, <1>3, DepositStep, NothingLost
<1>4. ASSUME NEW n \in ShareAmounts, NEW to \in Receivers, Mint(c, n, to)
      PROVE  Consented(c, u)
  BY <1>1, <1>2, <1>4, MintStep, NothingLost
<1>5. ASSUME NEW n \in AssetAmounts, NEW to \in Receivers, NEW h \in Account,
             Withdraw(c, n, to, h)
      PROVE  Consented(c, u)
  <2> DEFINE shares == PreviewWithdraw(n)
  <2>1. /\ shares \in Nat
        /\ share'.balance[u] >= IF u = h THEN share.balance[u] - shares
                                ELSE share.balance[u]
    BY <1>1, <1>5, WithdrawStep, PreviewType
  <2>2. c # h => /\ CanSpend(allowance, h, c, shares)
                 /\ allowance' = Spent(allowance, h, c, shares)
    BY <1>5 DEF Withdraw, MaySpend, SpendShares
  <2> HIDE DEF shares
  <2>3. QED
    BY <1>1, <1>2, <2>1, <2>2, SpentCoversLoss
<1>6. ASSUME NEW n \in ShareAmounts, NEW to \in Receivers, NEW h \in Account,
             Redeem(c, n, to, h)
      PROVE  Consented(c, u)
  <2>1. share'.balance[u] >= IF u = h THEN share.balance[u] - n
                             ELSE share.balance[u]
    BY <1>1, <1>6, RedeemStep
  <2>2. c # h => /\ CanSpend(allowance, h, c, n)
                 /\ allowance' = Spent(allowance, h, c, n)
    BY <1>6 DEF Redeem, MaySpend, SpendShares
  <2>3. QED
    BY <1>1, <1>2, <2>1, <2>2, SpentCoversLoss
<1>7. ASSUME NEW n \in ShareAmounts, BurnShare(c, n)
      PROVE  Consented(c, u)
  <2>1. c # u => share'.balance[u] = share.balance[u]
    BY <1>7 DEF BurnShare, Burned
  <2>2. QED
    BY <1>2, <2>1, NothingLost DEF Consented
<1>8. ASSUME NEW n \in ShareAmounts, NEW to \in Receivers, Transfer(c, to, n)
      PROVE  Consented(c, u)
  <2>1. c # u => share'.balance[u] >= share.balance[u]
    BY <1>1, <1>8, MovedSound DEF Transfer
  <2>2. QED
    BY <1>2, <2>1, NothingLost DEF Consented
<1>9. ASSUME NEW n \in ShareAmounts, NEW to \in Receivers, NEW h \in Account,
             TransferFrom(c, h, to, n)
      PROVE  Consented(c, u)
  <2>1. share'.balance[u] >= IF u = h THEN share.balance[u] - n
                             ELSE share.balance[u]
    BY <1>1, <1>9, MovedSound DEF TransferFrom
  <2>2. c # h => /\ CanSpend(allowance, h, c, n)
                 /\ allowance' = Spent(allowance, h, c, n)
    BY <1>9 DEF TransferFrom
  <2>3. QED
    BY <1>1, <1>2, <2>1, <2>2, SpentCoversLoss
<1>10. ASSUME NEW n \in ApprovalAmounts, NEW to \in Spenders, Approve(c, to, n)
       PROVE  Consented(c, u)
  BY <1>2, <1>10, NothingLost DEF Approve
<1>11. QED
  BY <1>3, <1>4, <1>5, <1>6, <1>7, <1>8, <1>9, <1>10 DEF HolderCall

\* In every step, whoever loses shares to another caller had allowed it, and the
\* allowance went down with them unless it was infinite.
THEOREM SharesLeaveByAllowance == Spec => OnlyByAllowance
<1>1. IInv /\ [Next]_vars =>
        [\A c \in User, u \in Account :
           c # u /\ Lost(u) > 0 /\ HolderCall(c)
          => \/ allowance[u][c] = MaxUint
             \/ /\ Lost(u) <= allowance[u][c]
                /\ allowance'[u][c] <= allowance[u][c] - Lost(u)]_vars
  BY HolderCallConsented DEF Consented, User
<1>2. QED
  BY <1>1, Safety, PTL DEF Spec, OnlyByAllowance

\* A holder's call leaves the roles alone.
LEMMA HolderCallKeepsRoles ==
  ASSUME NEW c, HolderCall(c)
  PROVE  UNCHANGED roles
  BY DEF HolderCall, Deposit, Mint, Withdraw, Redeem, BurnShare, Transfer,
         TransferFrom, Approve

\* Without an owner, every step keeps the owner and the manager.
LEMMA RenouncedStep ==
  ASSUME [Next]_vars, owner = Zero
  PROVE  owner' = Zero /\ controller' = controller
<1>1. \A c \in User : ~ onlyOwner(c)
  BY ERC20Assumption DEF User, onlyOwner
<1>2. CASE UNCHANGED vars
  BY <1>2 DEF vars, roles
<1>3. ASSUME NEW c \in User, HolderCall(c)
      PROVE  UNCHANGED roles
  BY <1>3, HolderCallKeepsRoles
<1>4. ASSUME NEW c \in User, Execute(c)
      PROVE  UNCHANGED roles
  BY <1>4, HolderCallKeepsRoles
     DEF Execute, ApproveAToken, RevokeAToken, SendAToken, PoolWithdraw, SendAsset
<1>5. ASSUME NEW c \in User, RoleCall(c)
      PROVE  UNCHANGED <<owner, controller>>
  BY <1>1, <1>4, <1>5
     DEF RoleCall, InitializeVault, SetFeeReciever, SetManager,
         TransferOwnership, RenounceOwnership, roles
<1>6. ASSUME Outside
      PROVE  UNCHANGED roles
  BY <1>6 DEF Outside, SpendAToken, SendAToken, Donate, AccrueYield, Borrow, Repay
<1>7. QED
  BY <1>2, <1>3, <1>5, <1>6 DEF Next, roles

\* After a renounced ownership the manager stays who he is, for good.
THEOREM RenouncedFreezesManager == Spec => RenouncedForGood
<1>1. [Next]_vars =>
        [owner = Zero => owner' = Zero /\ controller' = controller]_vars
  BY RenouncedStep
<1>2. QED
  BY <1>1, PTL DEF Spec, RenouncedForGood

(***************************************************************************)
(* The price of a share, for every fee rate, every size of the virtual     *)
(* offset and every ledger.  With A = assets + 1 and S = supply + virtual  *)
(* shares, a call takes (A, S) to (A1, S1) by its own transfer, with the   *)
(* fee f left in the vault, and then issues shares worth g <= f / 2 to the *)
(* fee receiver.  All theorems rest on A * S1 <= (A1 - f) * S, which the   *)
(* directions of the roundings give, and on what the fee shares may be.    *)
(***************************************************************************)

\* The price does not fall by more than the one fee share that rounds up, when
\* the call itself left the fee f in the vault and issues shares worth g.
LEMMA FeeSharesAreCovered ==
  ASSUME NEW A \in Nat \ {0}, NEW S \in Nat \ {0}, NEW A1 \in Nat \ {0}, NEW S1 \in Nat,
         NEW f \in Nat, NEW g \in Nat, NEW fs \in Nat,
         A * S1 <= (A1 - f) * S, g <= f, (fs - 1) * A1 <= g * S1
  PROVE  A * (S1 + fs - 1) <= A1 * S
<1> DEFINE T == S1 + fs - 1
<1>1. T * A1 <= (A1 + g) * S1
  OBVIOUS
<1>2. T * A1 * A <= (A1 + g) * S1 * A
  BY <1>1, MulMono
<1>3. (A * S1) * (A1 + g) <= (A1 - f) * S * (A1 + g)
  BY MulMono
<1>4. (A1 - f) * (A1 + g) <= A1 * A1
  <2>1. A1 * g <= A1 * f
    BY MulMono
  <2>2. 0 <= f * g
    OBVIOUS
  <2>3. QED
    BY <2>1, <2>2
<1>5. (A1 - f) * (A1 + g) * S <= A1 * A1 * S
  BY <1>4, MulMono
<1>6. (T * A) * A1 <= (A1 * S) * A1
  BY <1>2, <1>3, <1>5
<1> HIDE DEF T
<1>7. T \in Int
  BY DEF T
<1>8. T * A <= A1 * S
  BY <1>6, <1>7, MulCancel
<1>9. QED
  BY <1>8 DEF T

\* The holder's own worth: whoever trades at a price that the call does not
\* lower, and then is diluted by the fee shares, has gained nothing.
LEMMA TradeGainsNothing ==
  ASSUME NEW A \in Nat \ {0}, NEW S \in Nat \ {0}, NEW n \in Int, NEW sh \in Int,
         A + n \in Nat \ {0}, S + sh \in Nat \ {0},
         NEW b \in Nat, b <= S, b + sh \in Nat, NEW S2 \in Nat, S2 >= S + sh,
         A * (S + sh) <= (A + n) * S
  PROVE  MulDivDown(b + sh, A + n, S2) <= MulDivDown(b, A, S) + n
<1> DEFINE W == MulDivDown(b, A, S)
           W2 == MulDivDown(b + sh, A + n, S2)
           A1 == A + n
           S1 == S + sh
           h == S - b
<1>1. W \in Nat /\ b * A < W * S + S
  BY RoundsDown
<1>2. W2 \in Nat /\ W2 * S2 <= (b + sh) * A1
  BY RoundsDown
<1> HIDE DEF W, W2
<1>3. W2 * S1 <= (b + sh) * A1
  BY <1>2, MulMono
<1>4. SUFFICES ASSUME W2 >= W + n + 1 PROVE FALSE
  BY <1>1, <1>2 DEF W, W2
<1>5. (W + n + 1) * S1 <= (b + sh) * A1
  BY <1>1, <1>2, <1>3, <1>4, MulMono
<1>6. h \in Nat /\ b + sh = S1 - h /\ b = S - h
  OBVIOUS
<1>7. (W + n + 1) * S1 * S <= (S1 - h) * A1 * S
  BY <1>1, <1>5, <1>6, MulMono
<1>8. (A * S1) * h <= (A1 * S) * h
  BY <1>6, MulMono
<1>9. ((W + n + 1) * S) * S1 <= (A1 * S - h * A) * S1
  BY <1>1, <1>6, <1>7, <1>8
<1>10. (W + n + 1) * S <= A1 * S - h * A
  BY <1>1, <1>6, <1>9, MulCancel
<1>11. W * S + S <= b * A
  BY <1>1, <1>6, <1>10
<1>12. QED
  BY <1>1, <1>11

(* The fee.                                                                *)

LEMMA FeeBounds ==
  ASSUME NEW n \in Nat
  PROVE  /\ FeeOnRaw(n) \in Nat /\ FeeOnRaw(n) <= n
         /\ FeeOnRaw(n) * BasisPoints <= n * FeeRate
         /\ n * FeeRate < FeeOnRaw(n) * BasisPoints + BasisPoints
         /\ FeeOnRaw(n) \div 2 \in Nat /\ 2 * (FeeOnRaw(n) \div 2) <= FeeOnRaw(n)
<1>1. /\ FeeOnRaw(n) \in Nat
      /\ FeeOnRaw(n) * BasisPoints <= n * FeeRate
      /\ n * FeeRate < FeeOnRaw(n) * BasisPoints + BasisPoints
  BY VaultAssumption, RoundsDown DEF FeeOnRaw
<1>2. FeeOnRaw(n) <= n
  BY FeeType
<1>3. QED
  BY <1>1, <1>2, HalfBounds

\* mint prices its fee again after its transfers, and does not get more than
\* twice the fee that the caller paid.
LEMMA MintFeeIsCovered ==
  ASSUME NEW A \in Nat \ {0}, NEW S \in Nat \ {0}, NEW s \in Nat
  PROVE  LET a0 == MulDivUp(s, A, S)
             A1 == A + a0 + FeeOnRaw(a0)
         IN  FeeOnRaw(MulDivUp(s, A1, S + s)) \div 2 <= FeeOnRaw(a0)
<1> DEFINE a0 == MulDivUp(s, A, S)
           f0 == FeeOnRaw(a0)
           A1 == A + a0 + f0
           a2 == MulDivUp(s, A1, S + s)
           f2 == FeeOnRaw(a2)
<1>1. a0 \in Nat /\ s * A <= a0 * S
  BY RoundsUp
<1> HIDE DEF a0
<1>2. /\ f0 \in Nat /\ f0 <= a0
      /\ a0 * FeeRate < f0 * BasisPoints + BasisPoints
  BY <1>1, FeeBounds
<1> HIDE DEF f0
<1>3. A1 \in Nat /\ S + s \in Nat \ {0}
  BY <1>1, <1>2
<1>4. a2 \in Nat /\ (a2 - 1) * (S + s) < s * A1
  BY <1>3, RoundsUp
<1> HIDE DEF a2
<1>5. a2 <= a0 + f0
  <2>1. 0 <= f0 * S
    BY <1>2
  <2>2. s * A1 <= (a0 + f0) * (S + s)
    BY <1>1, <1>2, <2>1
  <2>3. SUFFICES ASSUME a2 - 1 >= a0 + f0 PROVE FALSE
    BY <1>1, <1>2, <1>4
  <2>4. (a0 + f0) * (S + s) <= (a2 - 1) * (S + s)
    BY <1>1, <1>2, <1>3, <1>4, <2>3, MulMono
  <2>5. QED
    BY <1>1, <1>2, <1>3, <1>4, <2>2, <2>4
<1>6. f2 \in Nat /\ f2 * BasisPoints <= a2 * FeeRate /\ f2 \div 2 \in Nat /\ 2 * (f2 \div 2) <= f2
  BY <1>4, FeeBounds
<1> HIDE DEF f2
<1>7. f2 < 2 * f0 + 1
  <2>1. BasisPoints \in Nat \ {0} /\ FeeRate \in Nat /\ FeeRate <= BasisPoints
    BY VaultAssumption
  <2>2. a2 * FeeRate <= (a0 + f0) * FeeRate /\ f0 * FeeRate <= f0 * BasisPoints
    BY <1>1, <1>2, <1>4, <1>5, <2>1, MulMono
  <2>3. f2 * BasisPoints < (2 * f0 + 1) * BasisPoints
    BY <1>1, <1>2, <1>4, <1>6, <2>1, <2>2
  <2>4. SUFFICES ASSUME f2 >= 2 * f0 + 1 PROVE FALSE
    BY <1>2, <1>6
  <2>5. (2 * f0 + 1) * BasisPoints <= f2 * BasisPoints
    BY <1>2, <1>6, <2>1, <2>4, MulMono
  <2>6. QED
    BY <1>2, <1>6, <2>1, <2>3, <2>5
<1>8. f2 \div 2 <= f0
  BY <1>2, <1>6, <1>7
<1>9. QED
  BY <1>8 DEF a0, f0, a2, f2

\* redeem prices its fee again after its transfers.  The price may have risen by
\* then, the more the fewer shares are left, and the fee shares be worth more
\* than the fee left in the vault; then it is that rise that covers them.
LEMMA RedeemFeeIsCovered ==
  ASSUME NEW A \in Nat \ {0}, NEW S \in Nat \ {0}, NEW s \in Nat, s < S,
         NEW n \in Nat, NEW f \in Nat, f < n, n < A, n * S <= s * A,
         n * FeeRate < f * BasisPoints + BasisPoints,
         NEW a2 \in Nat, a2 * (S - s) <= s * (A - n + f),
         NEW g \in Nat, 2 * g * BasisPoints <= a2 * FeeRate,
         NEW fs \in Nat, (fs - 1) * (A - n + f) <= g * (S - s)
  PROVE  A * (S - s + fs - 1) <= (A - n + f) * S
<1> DEFINE A1 == A - n + f
           S1 == S - s
           d == n - f
<1>1. /\ A1 \in Nat \ {0} /\ S1 \in Nat \ {0} /\ d \in Nat \ {0} /\ A1 >= f + 1
      /\ A = A1 + d /\ n = d + f /\ S = S1 + s
  OBVIOUS
<1>2. CASE g <= f
  <2>1. A * S1 <= (A1 - f) * S
    OBVIOUS
  <2>2. QED
    BY <1>1, <1>2, <2>1, FeeSharesAreCovered
<1>3. CASE g >= f + 1
  <2>1. (f + 1) * a2 >= 2 * g * n + 1
    <3>1. BasisPoints \in Nat \ {0} /\ FeeRate \in Nat
      BY VaultAssumption
    <3>2. 2 * g * BasisPoints * (f + 1) <= a2 * FeeRate * (f + 1)
      BY <3>1, MulMono
    <3>3. n * FeeRate + 1 <= (f + 1) * BasisPoints
      BY <3>1
    <3>4. (n * FeeRate + 1) * (2 * g) <= (f + 1) * BasisPoints * (2 * g)
      BY <3>1, <3>3, MulMono
    <3>5. (2 * g * n) * FeeRate + 2 * g <= ((f + 1) * a2) * FeeRate
      BY <3>1, <3>2, <3>4
    <3>6. SUFFICES ASSUME (f + 1) * a2 <= 2 * g * n PROVE FALSE
      OBVIOUS
    <3>7. ((f + 1) * a2) * FeeRate <= (2 * g * n) * FeeRate
      BY <3>1, <3>6, MulMono
    <3>8. QED
      BY <1>3, <3>1, <3>5, <3>7
  <2>2. (f + 1) * (a2 - d - g) >= g * d + d * (g - f - 1) + g * (f - 1) + 1
    BY <1>1, <2>1
  <2>3. d * (g - f - 1) + g * (f - 1) + 1 >= 0
    <3>1. CASE f = 0
      <4>1. d - 1 \in Nat /\ g - 1 \in Nat
        BY <1>1, <1>3
      <4>2. (d - 1) * (g - 1) >= 0
        BY <4>1
      <4>3. QED
        BY <1>1, <3>1, <4>2
    <3>2. CASE f >= 1
      <4>1. g - f - 1 \in Nat /\ f - 1 \in Nat
        BY <1>3, <3>2
      <4>2. d * (g - f - 1) \in Nat /\ g * (f - 1) \in Nat
        BY <1>1, <4>1
      <4>3. QED
        BY <4>2
    <3>3. QED
      BY <3>1, <3>2
  <2>4. a2 - d - g \in Nat
    <3>1. g * d >= 0
      BY <1>1
    <3>2. (f + 1) * (a2 - d - g) >= 0
      BY <2>2, <2>3, <3>1
    <3>3. SUFFICES ASSUME a2 - d - g <= -1 PROVE FALSE
      BY <1>1
    <3>4. (a2 - d - g) * (f + 1) <= (-1) * (f + 1)
      BY <1>1, <3>3, MulMono
    <3>5. QED
      BY <3>2, <3>4
  <2>5. (f + 1) * (a2 - d - g) <= A1 * (a2 - d - g)
    BY <1>1, <2>4, MulMono
  <2>6. A1 * (a2 - d - g) >= g * d
    BY <2>2, <2>3, <2>5
  <2>7. (A1 + d) * (A1 + g) <= A1 * (a2 + A1)
    BY <1>1, <2>6
  <2>8. S1 * (a2 + A1) <= S * A1
    BY <1>1
  <2> DEFINE T == S1 + fs - 1
  <2>9. T * A1 <= S1 * (A1 + g)
    BY <1>1
  <2>10. T \in Int
    BY <1>1
  <2> HIDE DEF T, A1, S1, d
  <2>11. T * A1 * A <= S1 * (A1 + g) * A
    BY <1>1, <2>9, <2>10, MulMono
  <2>12. (A1 + d) * (A1 + g) * S1 <= A1 * (a2 + A1) * S1
    BY <1>1, <2>7, MulMono
  <2>13. S1 * (a2 + A1) * A1 <= S * A1 * A1
    BY <1>1, <2>8, MulMono
  <2>14. (T * A) * A1 <= (A1 * S) * A1
    BY <1>1, <2>10, <2>11, <2>12, <2>13
  <2>15. T * A <= A1 * S
    BY <1>1, <2>10, <2>14, MulCancel
  <2>16. QED
    BY <2>15 DEF T, A1, S1
<1>4. QED
  BY <1>2, <1>3

(* The calls.                                                              *)

\* What a call reads: the ledger as numbers.
LEMMA Quantities ==
  ASSUME IInv
  PROVE  /\ SoundLedger(share) /\ TypeOK
         /\ TotalAssets \in Nat /\ TotalAssets + 1 \in Nat \ {0}
         /\ share.supply \in Nat /\ share.supply + VirtualShares \in Nat \ {0}
         /\ VirtualShares \in Nat \ {0}
         /\ feeReceiver \in Account \cup {Zero}
         /\ \A u \in Account : share.balance[u] \in Nat /\ share.balance[u] <= share.supply
<1>1. SoundLedger(share) /\ TypeOK /\ TotalAssets \in Nat /\ feeReceiver \in Account \cup {Zero}
  BY IInvFacts DEF IInv
<1>2. MaxUint \in Nat /\ share.balance \in [Account -> 0 .. MaxUint] /\ share.supply \in Nat
      /\ share.supply = SumOf(share.balance)
  BY <1>1, FixedPointAssumption DEF SoundLedger, Ledger, Balances, Uint
<1>3. \A u \in Account : share.balance[u] <= share.supply
  BY <1>2, BalanceAtMostSum
<1>4. VirtualShares \in Nat \ {0}
  BY VaultAssumption
<1>5. QED
  BY <1>1, <1>2, <1>3, <1>4

\* The fee mint adds its shares to the supply, or nothing, and to no balance but
\* the fee receiver's.
LEMMA FeeLedger ==
  ASSUME NEW t, SoundLedger(t), NEW fees \in Nat, NEW feeShares \in Nat
  PROVE  /\ \E k \in {0, feeShares} : WithFee(t, fees, feeShares).supply = t.supply + k
         /\ \A u \in Account \ {feeReceiver} :
              WithFee(t, fees, feeShares).balance[u] = t.balance[u]
<1>1. t.supply \in Nat /\ t.balance \in [Account -> Uint]
  BY FixedPointAssumption DEF SoundLedger, Ledger, Balances, Uint
<1>2. CASE ChargesFee(fees)
  BY <1>1, <1>2 DEF WithFee, Minted
<1>3. CASE ~ChargesFee(fees)
  BY <1>1, <1>3 DEF WithFee
<1>4. QED
  BY <1>2, <1>3

\* A call that takes the ledger to `after` and then issues its fee shares keeps
\* the price, and the worth of a caller who trades n assets for sh shares.
LEMMA CallIsFair ==
  ASSUME IInv, NEW after, SoundLedger(after), NEW n \in Int, NEW sh \in Int,
         NEW fees \in Nat, NEW feeShares \in Nat,
         share' = WithFee(after, fees, feeShares),
         aToken'[Vault] = TotalAssets + n, TotalAssets + n \in Nat,
         after.supply = share.supply + sh,
         (TotalAssets + 1) * (after.supply + VirtualShares)
           <= (TotalAssets + n + 1) * (share.supply + VirtualShares),
         (TotalAssets + 1) * (after.supply + VirtualShares + feeShares - 1)
           <= (TotalAssets + n + 1) * (share.supply + VirtualShares)
  PROVE  /\ PriceKept(1)
         /\ share'.supply >= after.supply /\ share'.supply \in Nat
         /\ \A c \in Account \ {feeReceiver} :
              after.balance[c] = share.balance[c] + sh /\ asset'[c] = asset[c] - n
              => Worth(c)' <= Worth(c)
<1> DEFINE A == TotalAssets + 1
           S == share.supply + VirtualShares
           S1 == after.supply + VirtualShares
           S2 == share'.supply + VirtualShares
<1>1. after.supply \in Nat /\ \A u \in Account : after.balance[u] \in Nat
  BY FixedPointAssumption DEF SoundLedger, Ledger, Balances, Uint
<1>2. PICK k \in {0, feeShares} : share'.supply = after.supply + k
  BY FeeLedger
<1>3. /\ TotalAssets \in Nat /\ share.supply \in Nat /\ VirtualShares \in Nat \ {0}
      /\ asset \in [Account -> Nat]
  BY Quantities DEF TypeOK
<1>4. /\ A \in Nat \ {0} /\ A + n \in Nat \ {0}
      /\ S \in Nat \ {0} /\ S1 \in Nat \ {0} /\ S2 \in Nat \ {0} /\ S2 >= S1
      /\ S + sh = S1
  BY <1>1, <1>2, <1>3
<1>5. A * S1 <= (A + n) * S /\ A * (S1 + feeShares - 1) <= (A + n) * S
  <2>1. TotalAssets + n + 1 = A + n
    BY <1>3
  <2>2. A * S1 <= (TotalAssets + n + 1) * S
        /\ A * (S1 + feeShares - 1) <= (TotalAssets + n + 1) * S
    OBVIOUS
  <2> HIDE DEF A, S, S1
  <2>3. QED
    BY <2>1, <2>2
<1>6. S2 = S1 \/ S2 = S1 + feeShares
  BY <1>1, <1>2, <1>3
<1>7. /\ TotalAssets + 1 = A /\ aToken'[Vault] + 1 = A + n
      /\ share.supply + VirtualShares = S /\ share'.supply + VirtualShares - 1 = S2 - 1
  <2>1. aToken'[Vault] + 1 = A + n
    BY <1>3
  <2>2. QED
    BY <1>1, <1>2, <1>3, <2>1
<1>8. \A u \in Account : share.balance[u] \in Nat /\ share.balance[u] <= S
  BY <1>3, Quantities
<1>9. share'.supply >= after.supply /\ share'.supply \in Nat
  BY <1>1, <1>2
<1> HIDE DEF A, S, S1, S2
<1>10. PriceKept(1)
  <2>1. A * (S2 - 1) <= (A + n) * S
    <3>1. CASE S2 = S1
      BY <1>4, <1>5, <3>1
    <3>2. CASE S2 = S1 + feeShares
      BY <1>4, <1>5, <3>2
    <3>3. QED
      BY <1>6, <3>1, <3>2
  <2>2. (aToken'[Vault] + 1) * (share.supply + VirtualShares)
          >= (TotalAssets + 1) * (share'.supply + VirtualShares - 1)
    BY <1>4, <1>7, <2>1
  <2>3. QED
    BY <2>2 DEF PriceKept
<1>11. ASSUME NEW c \in Account \ {feeReceiver},
              after.balance[c] = share.balance[c] + sh, asset'[c] = asset[c] - n
       PROVE  Worth(c)' <= Worth(c)
  <2> DEFINE b == share.balance[c]
  <2>1. b \in Nat /\ b <= S /\ b + sh \in Nat /\ share'.balance[c] = b + sh
    BY <1>1, <1>8, <1>11, FeeLedger
  <2>2. /\ Worth(c) = asset[c] + MulDivDown(b, A, S)
        /\ Worth(c)' = asset'[c] + MulDivDown(b + sh, A + n, S2)
    <3>1. TotalAssets' + 1 = A + n
      BY <1>7 DEF TotalAssets
    <3>2. Worth(c)' = asset'[c] + MulDivDown(share'.balance[c], TotalAssets' + 1, S2)
      BY DEF Worth, MaxWithdraw, ToAssetsDown, S2
    <3>3. Worth(c) = asset[c] + MulDivDown(b, A, S)
      BY DEF Worth, MaxWithdraw, ToAssetsDown, A, S
    <3>4. QED
      BY <2>1, <3>1, <3>2, <3>3
  <2> HIDE DEF b
  <2>3. MulDivDown(b + sh, A + n, S2) <= MulDivDown(b, A, S) + n
    BY <1>4, <1>5, <2>1, TradeGainsNothing
  <2>4. MulDivDown(b + sh, A + n, S2) \in Nat /\ MulDivDown(b, A, S) \in Nat
    BY <1>4, <2>1, RoundsDown
  <2>5. asset[c] \in Nat
    BY <1>3
  <2>6. QED
    BY <1>11, <2>2, <2>3, <2>4, <2>5
<1>12. QED
  BY <1>9, <1>10, <1>11

\* A mint and a burn move the supply and one balance by what they say.
LEMMA MintedExact ==
  ASSUME NEW t, SoundLedger(t), NEW to \in Account, NEW n \in Nat, CanMint(t, to, n)
  PROVE  /\ Minted(t, to, n).supply = t.supply + n
         /\ Minted(t, to, n).balance[to] = t.balance[to] + n
<1>1. /\ MaxUint \in Nat /\ t.balance \in [Account -> 0 .. MaxUint]
      /\ t.supply = SumOf(t.balance) /\ t.supply \in Nat /\ t.supply + n <= MaxUint
  BY FixedPointAssumption DEF SoundLedger, Ledger, Balances, Uint, CanMint, Fits
<1>2. t.balance[to] \in Nat /\ t.balance[to] <= t.supply
  BY <1>1, BalanceAtMostSum
<1>3. WrapAdd(t.balance[to], n) = t.balance[to] + n
  BY <1>1, <1>2, WrapAddExact DEF Uint
<1>4. QED
  BY <1>1, <1>3 DEF Minted

LEMMA BurnedExact ==
  ASSUME NEW t, SoundLedger(t), NEW from \in Account, NEW n \in Nat, CanBurn(t, from, n)
  PROVE  /\ Burned(t, from, n).supply = t.supply - n
         /\ Burned(t, from, n).balance[from] = t.balance[from] - n
<1>1. t.balance \in [Account -> Uint]
  BY DEF SoundLedger, Ledger, Balances
<1>2. QED
  BY <1>1, BurnedSound DEF Burned

\* deposit: the fee n * FeeRate stays with the assets, the shares round down.
LEMMA DepositPrice ==
  ASSUME IInv, NEW c \in Account, NEW assets \in Nat, NEW receiver \in Account,
         Deposit(c, assets, receiver)
  PROVE  /\ PriceKept(1)
         /\ initialized /\ UNCHANGED initialized
         /\ aToken'[Vault] = TotalAssets + assets
         /\ share'.supply >= share.supply /\ share'.supply \in Nat
         /\ c \in User \ {feeReceiver} /\ receiver = c => Worth(c)' <= Worth(c)
<1> DEFINE shares    == PreviewDeposit(assets)
           after     == Minted(share, receiver, shares)
           held      == TotalAssets + assets
           f         == FeeOnRaw(assets)
           fees      == f \div 2
           feeShares == ToSharesDown(fees, after, held)
           A == TotalAssets + 1
           S == share.supply + VirtualShares
           S1 == after.supply + VirtualShares
           A1 == A + assets
<1>1. /\ initialized /\ UNCHANGED roles
      /\ PullIn(c, assets)
      /\ CanMint(share, receiver, shares)
      /\ share' = WithFee(after, fees, feeShares)
  BY DEF Deposit, Initialized
<1>2. /\ SoundLedger(share) /\ TotalAssets \in Nat /\ A \in Nat \ {0} /\ S \in Nat \ {0}
      /\ share.supply \in Nat /\ VirtualShares \in Nat \ {0}
      /\ asset \in [Account -> Nat] /\ aToken \in [Account -> Uint] /\ Vault \in Account
  BY Quantities, VaultAssumption DEF TypeOK, Balances
<1>3. /\ f \in Nat /\ f <= assets /\ fees \in Nat /\ 2 * fees <= f
  BY FeeBounds
<1>4. shares \in Nat /\ shares * A <= (assets - f) * S
  <2>1. assets - f \in Nat
    BY <1>3
  <2>2. shares = MulDivDown(assets - f, S, A)
    BY DEF PreviewDeposit, ToSharesDown
  <2> HIDE DEF A, S, f, shares
  <2>3. QED
    BY <1>2, <2>1, <2>2, RoundsDown
<1>5. /\ SoundLedger(after) /\ after.supply = share.supply + shares
      /\ after.balance[receiver] = share.balance[receiver] + shares
  BY <1>1, <1>2, <1>4, MintedSound, MintedExact
<1> HIDE DEF shares, after, f
<1>6. A1 \in Nat \ {0} /\ S1 \in Nat \ {0} /\ S1 = S + shares /\ held + 1 = A1 /\ held \in Nat
  BY <1>2, <1>4, <1>5
<1>7. feeShares \in Nat /\ feeShares * A1 <= fees * S1
  <2>1. feeShares = MulDivDown(fees, S1, A1)
    BY <1>6 DEF ToSharesDown
  <2> HIDE DEF feeShares, S1, A1, fees
  <2>2. QED
    BY <1>3, <1>6, <2>1, RoundsDown
<1> HIDE DEF feeShares, fees, S1, S, A
<1>8. A * S1 <= (A1 - f) * S
  BY <1>2, <1>3, <1>4, <1>6
<1>9. (feeShares - 1) * A1 <= fees * S1 /\ fees <= f
  BY <1>2, <1>3, <1>6, <1>7
<1>10. A * S1 <= A1 * S
  BY <1>2, <1>3, <1>6, <1>8
<1> HIDE DEF A1
<1>11. A * (S1 + feeShares - 1) <= A1 * S
  BY <1>2, <1>3, <1>6, <1>7, <1>8, <1>9, FeeSharesAreCovered
<1>12. aToken'[Vault] = TotalAssets + assets
  BY <1>1, <1>2 DEF PullIn, TotalAssets
<1>13. /\ (TotalAssets + 1) * (after.supply + VirtualShares)
            <= (TotalAssets + assets + 1) * (share.supply + VirtualShares)
       /\ (TotalAssets + 1) * (after.supply + VirtualShares + feeShares - 1)
            <= (TotalAssets + assets + 1) * (share.supply + VirtualShares)
  <2>1. TotalAssets + assets + 1 = A1
    BY <1>6
  <2>2. QED
    BY <1>10, <1>11, <2>1 DEF A, S, S1
<1>14. /\ PriceKept(1) /\ share'.supply >= after.supply /\ share'.supply \in Nat
       /\ \A d \in Account \ {feeReceiver} :
            after.balance[d] = share.balance[d] + shares /\ asset'[d] = asset[d] - assets
            => Worth(d)' <= Worth(d)
  BY <1>1, <1>3, <1>4, <1>5, <1>6, <1>7, <1>12, <1>13, CallIsFair
<1>15. share'.supply >= share.supply
  BY <1>2, <1>4, <1>5, <1>14
<1>16. asset'[c] = asset[c] - assets
  BY <1>1, <1>2 DEF PullIn
<1>17. QED
  BY <1>1, <1>5, <1>12, <1>14, <1>15, <1>16 DEF User, roles

\* mint: the caller pays the price, rounded up, and the fee on it; the fee shares
\* round up too.
LEMMA MintPrice ==
  ASSUME IInv, NEW c \in Account, NEW shares \in Nat, NEW receiver \in Account,
         Mint(c, shares, receiver)
  PROVE  /\ PriceKept(1)
         /\ initialized /\ UNCHANGED initialized
         /\ aToken'[Vault] >= TotalAssets
         /\ share'.supply >= share.supply /\ share'.supply \in Nat
         /\ c \in User \ {feeReceiver} /\ receiver = c => Worth(c)' <= Worth(c)
<1> DEFINE A == TotalAssets + 1
           S == share.supply + VirtualShares
           a0        == ToAssetsUp(shares, share, TotalAssets)
           f         == FeeOnRaw(a0)
           assets    == PreviewMint(shares)
           after     == Minted(share, receiver, shares)
           held      == TotalAssets + assets
           a2        == ToAssetsUp(shares, after, held)
           fees      == FeeOnRaw(a2) \div 2
           feeShares == ToSharesUp(fees, after, held)
           S1 == after.supply + VirtualShares
           A1 == A + a0 + f
<1>1. /\ initialized /\ UNCHANGED roles
      /\ PullIn(c, assets)
      /\ CanMint(share, receiver, shares)
      /\ share' = WithFee(after, fees, feeShares)
  BY DEF Mint, Initialized
<1>2. /\ SoundLedger(share) /\ TotalAssets \in Nat /\ A \in Nat \ {0} /\ S \in Nat \ {0}
      /\ share.supply \in Nat /\ VirtualShares \in Nat \ {0}
      /\ asset \in [Account -> Nat] /\ aToken \in [Account -> Uint] /\ Vault \in Account
  BY Quantities, VaultAssumption DEF TypeOK, Balances
<1>3. a0 = MulDivUp(shares, A, S)
  BY DEF ToAssetsUp
<1>4. assets = a0 + f
  BY DEF PreviewMint
<1>5. /\ SoundLedger(after) /\ after.supply = share.supply + shares
      /\ after.balance[receiver] = share.balance[receiver] + shares
  BY <1>1, <1>2, MintedSound, MintedExact
<1> HIDE DEF after, a0
<1>6. a0 \in Nat /\ shares * A <= a0 * S
  BY <1>2, <1>3, RoundsUp
<1>7. f \in Nat /\ f <= a0
  BY <1>6, FeeBounds
<1> HIDE DEF f, assets
<1>8. /\ A1 \in Nat \ {0} /\ S1 \in Nat \ {0} /\ S1 = S + shares /\ held + 1 = A1
      /\ held \in Nat /\ assets \in Nat
  BY <1>2, <1>4, <1>5, <1>6, <1>7
<1>9. a2 = MulDivUp(shares, A1, S1)
  BY <1>8 DEF ToAssetsUp
<1> HIDE DEF a2
<1>10. a2 \in Nat /\ fees \in Nat /\ fees <= f
  <2>1. a2 \in Nat
    BY <1>8, <1>9, RoundsUp
  <2>2. FeeOnRaw(MulDivUp(shares, A1, S + shares)) \div 2 <= f
    BY <1>2, <1>3, MintFeeIsCovered DEF f
  <2>3. QED
    BY <1>8, <1>9, <2>1, <2>2, FeeBounds
<1> HIDE DEF fees
<1>11. feeShares \in Nat /\ (feeShares - 1) * A1 < fees * S1
  <2>1. feeShares = MulDivUp(fees, S1, A1)
    BY <1>8 DEF ToSharesUp
  <2> HIDE DEF feeShares, S1, A1
  <2>2. QED
    BY <1>8, <1>10, <2>1, RoundsUp
<1> HIDE DEF feeShares, S1, S, A
<1>12. A * S1 <= (A1 - f) * S
  BY <1>2, <1>6, <1>7, <1>8
<1>13. (feeShares - 1) * A1 <= fees * S1
  BY <1>2, <1>8, <1>10, <1>11
<1>14. A * S1 <= A1 * S
  BY <1>2, <1>7, <1>8, <1>12
<1>15. TotalAssets + assets + 1 = A1
  BY <1>8
<1> HIDE DEF A1
<1>16. A * (S1 + feeShares - 1) <= A1 * S
  BY <1>2, <1>7, <1>8, <1>10, <1>11, <1>12, <1>13, FeeSharesAreCovered
<1>17. aToken'[Vault] = TotalAssets + assets
  BY <1>1, <1>2 DEF PullIn, TotalAssets
<1>18. /\ (TotalAssets + 1) * (after.supply + VirtualShares)
            <= (TotalAssets + assets + 1) * (share.supply + VirtualShares)
       /\ (TotalAssets + 1) * (after.supply + VirtualShares + feeShares - 1)
            <= (TotalAssets + assets + 1) * (share.supply + VirtualShares)
  BY <1>14, <1>15, <1>16 DEF A, S, S1
<1>19. /\ PriceKept(1) /\ share'.supply >= after.supply /\ share'.supply \in Nat
       /\ \A d \in Account \ {feeReceiver} :
            after.balance[d] = share.balance[d] + shares /\ asset'[d] = asset[d] - assets
            => Worth(d)' <= Worth(d)
  BY <1>1, <1>5, <1>8, <1>10, <1>11, <1>17, <1>18, CallIsFair
<1>20. share'.supply >= share.supply /\ aToken'[Vault] >= TotalAssets
  BY <1>2, <1>5, <1>8, <1>17, <1>19
<1>21. asset'[c] = asset[c] - assets
  BY <1>1, <1>2 DEF PullIn
<1>22. QED
  BY <1>1, <1>5, <1>19, <1>20, <1>21 DEF User, roles

\* A call that pays assets out at a kept price leaves no more shares than before.
LEMMA SupplyFalls ==
  ASSUME NEW A \in Nat \ {0}, NEW A1 \in Nat \ {0}, A1 < A, NEW S \in Nat \ {0},
         NEW T \in Int, A * (T - 1) <= A1 * S
  PROVE  T <= S
<1> SUFFICES ASSUME T - 1 >= S PROVE FALSE
  OBVIOUS
<1>1. S * A <= (T - 1) * A
  BY MulMono
<1>2. (A1 + 1) * S <= A * S
  BY MulMono
<1>3. QED
  BY <1>1, <1>2

\* withdraw: the fee is paid in shares that are burned with the rest, rounded up;
\* so are the fee shares, of which there are no more than were burned.
LEMMA WithdrawPrice ==
  ASSUME IInv, NEW c \in Account, NEW assets \in Nat, NEW receiver \in Account,
         NEW holder \in Account, Withdraw(c, assets, receiver, holder)
  PROVE  /\ PriceKept(1)
         /\ initialized /\ UNCHANGED initialized
         /\ aToken'[Vault] < TotalAssets
         /\ share'.supply <= share.supply /\ share'.supply \in Nat
         /\ c \in User \ {feeReceiver} /\ receiver = c /\ holder = c => Worth(c)' <= Worth(c)
<1> DEFINE A == TotalAssets + 1
           S == share.supply + VirtualShares
           f         == FeeOnRaw(assets)
           shares    == PreviewWithdraw(assets)
           after     == Burned(share, holder, shares)
           held      == TotalAssets - assets
           fees      == f \div 2
           feeShares == ToSharesUp(fees, after, held)
           S1 == after.supply + VirtualShares
           A1 == A - assets
           n == -assets
           sh == -shares
<1>1. /\ initialized /\ UNCHANGED roles
      /\ PayOut(receiver, assets)
      /\ CanBurn(share, holder, shares)
      /\ share' = WithFee(after, fees, feeShares)
  BY DEF Withdraw, Initialized
<1>2. /\ SoundLedger(share) /\ TotalAssets \in Nat /\ A \in Nat \ {0} /\ S \in Nat \ {0}
      /\ share.supply \in Nat /\ VirtualShares \in Nat \ {0}
      /\ asset \in [Account -> Nat] /\ aToken \in [Account -> Uint] /\ Vault \in Account
  BY Quantities, VaultAssumption DEF TypeOK, Balances
<1>3. /\ f \in Nat /\ f <= assets /\ fees \in Nat /\ 2 * fees <= f
  BY FeeBounds
<1>4. assets <= TotalAssets /\ assets > 0
  BY <1>1 DEF PayOut, TotalAssets
<1>5. shares \in Nat /\ (assets + f) * S <= shares * A
  <2>1. shares = MulDivUp(assets + f, S, A)
    BY DEF PreviewWithdraw, ToSharesUp
  <2>2. assets + f \in Nat
    BY <1>3
  <2> HIDE DEF A, S, f, shares
  <2>3. QED
    BY <1>2, <2>1, <2>2, RoundsUp
<1>6. /\ SoundLedger(after) /\ after.supply = share.supply - shares
      /\ after.balance[holder] = share.balance[holder] - shares
  BY <1>1, <1>2, <1>5, BurnedSound, BurnedExact
<1>7. after.supply \in Nat
  BY <1>6, FixedPointAssumption DEF SoundLedger, Ledger, Uint
<1> HIDE DEF shares, after, f
<1>8. A1 \in Nat \ {0} /\ S1 \in Nat \ {0} /\ S1 = S - shares /\ held + 1 = A1 /\ held \in Nat
  BY <1>2, <1>4, <1>5, <1>6, <1>7
<1>9. feeShares \in Nat /\ (feeShares - 1) * A1 < fees * S1
  <2>1. feeShares = MulDivUp(fees, S1, A1)
    BY <1>8 DEF ToSharesUp
  <2> HIDE DEF feeShares, S1, A1, fees
  <2>2. QED
    BY <1>3, <1>8, <2>1, RoundsUp
<1> HIDE DEF feeShares, fees, S1, S, A
<1>10. A * S1 <= (A1 - f) * S
  BY <1>2, <1>3, <1>5, <1>8
<1>11. (feeShares - 1) * A1 <= fees * S1 /\ fees <= f
  BY <1>2, <1>3, <1>8, <1>9
<1>12. A * S1 <= A1 * S
  BY <1>2, <1>3, <1>8, <1>10
<1>13. TotalAssets + n + 1 = A1 /\ TotalAssets + n = held /\ A1 < A
       /\ n \in Int /\ n = -assets /\ sh \in Int /\ sh = -shares
  BY <1>2, <1>4, <1>5, <1>8 DEF A
<1> HIDE DEF A1, n, sh
<1>14. A * (S1 + feeShares - 1) <= A1 * S
  BY <1>2, <1>3, <1>8, <1>9, <1>10, <1>11, FeeSharesAreCovered
<1>15. aToken'[Vault] = TotalAssets + n
  BY <1>1, <1>2, <1>4, <1>13 DEF PayOut, TotalAssets
<1>16. /\ (TotalAssets + 1) * (after.supply + VirtualShares)
            <= (TotalAssets + n + 1) * (share.supply + VirtualShares)
       /\ (TotalAssets + 1) * (after.supply + VirtualShares + feeShares - 1)
            <= (TotalAssets + n + 1) * (share.supply + VirtualShares)
  BY <1>12, <1>13, <1>14 DEF A, S, S1
<1>17. /\ after.supply = share.supply + sh
       /\ after.balance[holder] = share.balance[holder] + sh
  <2>1. share.balance[holder] \in Nat
    BY Quantities
  <2>2. QED
    BY <1>2, <1>5, <1>6, <1>13, <2>1
<1>18. /\ PriceKept(1) /\ share'.supply \in Nat
       /\ \A d \in Account \ {feeReceiver} :
            /\ after.balance[d] = share.balance[d] + sh
            /\ asset'[d] = asset[d] - n
            => Worth(d)' <= Worth(d)
  BY <1>1, <1>3, <1>5, <1>6, <1>8, <1>9, <1>13, <1>15, <1>16, <1>17, CallIsFair
<1>19. aToken'[Vault] < TotalAssets
  BY <1>2, <1>4, <1>13, <1>15
<1>20. share'.supply <= share.supply
  <2>1. PICK k \in {0, feeShares} : share'.supply = after.supply + k
    BY <1>1, <1>3, <1>6, <1>9, FeeLedger
  <2>2. S1 + feeShares <= S
    BY <1>2, <1>8, <1>9, <1>13, <1>14, SupplyFalls
  <2>3. after.supply + feeShares <= share.supply
    BY <1>2, <1>5, <1>6, <1>7, <1>8, <1>9, <2>2 DEF S
  <2>4. QED
    BY <1>2, <1>7, <1>9, <2>1, <2>3
<1>21. asset'[receiver] = asset[receiver] - n
  <2>1. asset'[receiver] = asset[receiver] + assets /\ asset[receiver] \in Nat
    BY <1>1, <1>2 DEF PayOut
  <2>2. QED
    BY <1>13, <2>1
<1>22. QED
  BY <1>1, <1>17, <1>18, <1>19, <1>20, <1>21 DEF User, roles

\* redeem: the holder gets the price less the fee, rounded down; so are the fee
\* shares, but the fee they are worth is priced when the shares are gone.
LEMMA RedeemPrice ==
  ASSUME IInv, NEW c \in Account, NEW shares \in Nat, NEW receiver \in Account,
         NEW holder \in Account, Redeem(c, shares, receiver, holder)
  PROVE  /\ PriceKept(1)
         /\ initialized /\ UNCHANGED initialized
         /\ aToken'[Vault] < TotalAssets
         /\ share'.supply <= share.supply /\ share'.supply \in Nat
         /\ c \in User \ {feeReceiver} /\ receiver = c /\ holder = c => Worth(c)' <= Worth(c)
<1> DEFINE A == TotalAssets + 1
           S == share.supply + VirtualShares
           a0        == ToAssetsDown(shares, share, TotalAssets)
           f         == FeeOnRaw(a0)
           assets    == PreviewRedeem(shares)
           after     == Burned(share, holder, shares)
           held      == TotalAssets - assets
           a2        == ToAssetsDown(shares, after, held)
           f2        == FeeOnRaw(a2)
           fees      == f2 \div 2
           feeShares == ToSharesDown(fees, after, held)
           S1 == after.supply + VirtualShares
           A1 == A - a0 + f
           n == -assets
           sh == -shares
<1>1. /\ initialized /\ UNCHANGED roles
      /\ PayOut(receiver, assets)
      /\ CanBurn(share, holder, shares)
      /\ share' = WithFee(after, fees, feeShares)
  BY DEF Redeem, Initialized
<1>2. /\ SoundLedger(share) /\ TotalAssets \in Nat /\ A \in Nat \ {0} /\ S \in Nat \ {0}
      /\ share.supply \in Nat /\ VirtualShares \in Nat \ {0}
      /\ asset \in [Account -> Nat] /\ aToken \in [Account -> Uint] /\ Vault \in Account
  BY Quantities, VaultAssumption DEF TypeOK, Balances
<1>3. shares < S
  <2>1. shares <= share.balance[holder] /\ share.balance[holder] <= share.supply
        /\ share.balance[holder] \in Nat
    BY <1>1, Quantities DEF CanBurn
  <2>2. QED
    BY <1>2, <2>1
<1>4. a0 = MulDivDown(shares, A, S)
  BY DEF ToAssetsDown
<1>5. assets = a0 - f
  BY DEF PreviewRedeem
<1>6. /\ SoundLedger(after) /\ after.supply = share.supply - shares
      /\ after.balance[holder] = share.balance[holder] - shares
  BY <1>1, <1>2, BurnedSound, BurnedExact
<1>7. after.supply \in Nat
  BY <1>6, FixedPointAssumption DEF SoundLedger, Ledger, Uint
<1> HIDE DEF after, a0
<1>8. a0 \in Nat /\ a0 * S <= shares * A
  BY <1>2, <1>4, RoundsDown
<1>9. /\ f \in Nat /\ f <= a0
      /\ a0 * FeeRate < f * BasisPoints + BasisPoints
  BY <1>8, FeeBounds
<1> HIDE DEF f, assets
<1>10. assets \in Nat /\ assets > 0 /\ f < a0
  <2>1. assets > 0
    BY <1>1 DEF PayOut
  <2>2. QED
    BY <1>5, <1>8, <1>9, <2>1
<1>11. a0 < A
  <2>1. SUFFICES ASSUME A <= a0 PROVE FALSE
    BY <1>2, <1>8
  <2>2. A * S <= a0 * S
    BY <1>2, <1>8, <2>1, MulMono
  <2>3. (shares + 1) * A <= S * A
    BY <1>2, <1>3, MulMono
  <2>4. QED
    BY <1>2, <1>8, <2>2, <2>3
<1>12. /\ A1 \in Nat \ {0} /\ S1 \in Nat \ {0} /\ S1 = S - shares /\ held + 1 = A1
       /\ held \in Nat /\ A1 < A
  BY <1>2, <1>3, <1>5, <1>6, <1>7, <1>8, <1>9, <1>10, <1>11
<1>13. a2 = MulDivDown(shares, A1, S1)
  BY <1>12 DEF ToAssetsDown
<1> HIDE DEF a2
<1>14. a2 \in Nat /\ a2 * S1 <= shares * A1
  BY <1>12, <1>13, RoundsDown
<1>15. fees \in Nat /\ 2 * fees * BasisPoints <= a2 * FeeRate
  <2>1. /\ f2 \in Nat /\ f2 * BasisPoints <= a2 * FeeRate
        /\ fees \in Nat /\ 2 * fees <= f2
    BY <1>14, FeeBounds
  <2>2. BasisPoints \in Nat /\ FeeRate \in Nat
    BY VaultAssumption
  <2> HIDE DEF fees, f2
  <2>3. 2 * fees * BasisPoints <= f2 * BasisPoints
    BY <2>1, <2>2, MulMono
  <2>4. QED
    BY <1>14, <2>1, <2>2, <2>3
<1> HIDE DEF fees, f2
<1>16. feeShares \in Nat /\ feeShares * A1 <= fees * S1
  <2>1. feeShares = MulDivDown(fees, S1, A1)
    BY <1>12 DEF ToSharesDown
  <2> HIDE DEF feeShares, S1, A1
  <2>2. QED
    BY <1>12, <1>15, <2>1, RoundsDown
<1> HIDE DEF feeShares, S1, S, A
<1>17. A * S1 <= A1 * S
  <2>1. A * S1 <= (A1 - f) * S
    BY <1>2, <1>8, <1>9, <1>12
  <2>2. 0 <= f * S
    BY <1>2, <1>9
  <2>3. QED
    BY <1>2, <1>9, <1>12, <2>1, <2>2
<1>18. A * (S1 + feeShares - 1) <= A1 * S
  <2>1. (feeShares - 1) * (A - a0 + f) <= fees * (S - shares)
    BY <1>2, <1>8, <1>9, <1>12, <1>15, <1>16
  <2>2. a2 * (S - shares) <= shares * (A - a0 + f)
    BY <1>12, <1>14
  <2>3. A * (S - shares + feeShares - 1) <= (A - a0 + f) * S
    BY <1>2, <1>3, <1>8, <1>9, <1>10, <1>11, <1>14, <1>15, <1>16, <2>1, <2>2,
       RedeemFeeIsCovered
  <2>4. QED
    BY <1>12, <2>3
<1>19. /\ TotalAssets + n + 1 = A1 /\ TotalAssets + n = held
       /\ n \in Int /\ n = -assets /\ sh \in Int /\ sh = -shares
  BY <1>2, <1>10, <1>12
<1> HIDE DEF A1, n, sh
<1>20. aToken'[Vault] = TotalAssets + n
  BY <1>1, <1>2, <1>10, <1>19 DEF PayOut, TotalAssets
<1>21. /\ (TotalAssets + 1) * (after.supply + VirtualShares)
            <= (TotalAssets + n + 1) * (share.supply + VirtualShares)
       /\ (TotalAssets + 1) * (after.supply + VirtualShares + feeShares - 1)
            <= (TotalAssets + n + 1) * (share.supply + VirtualShares)
  BY <1>17, <1>18, <1>19 DEF A, S, S1
<1>22. /\ after.supply = share.supply + sh
       /\ after.balance[holder] = share.balance[holder] + sh
  <2>1. share.balance[holder] \in Nat
    BY Quantities
  <2>2. QED
    BY <1>2, <1>6, <1>19, <2>1
<1>23. /\ PriceKept(1) /\ share'.supply \in Nat
       /\ \A d \in Account \ {feeReceiver} :
            /\ after.balance[d] = share.balance[d] + sh
            /\ asset'[d] = asset[d] - n
            => Worth(d)' <= Worth(d)
  BY <1>1, <1>6, <1>12, <1>15, <1>16, <1>19, <1>20, <1>21, <1>22, CallIsFair
<1>24. aToken'[Vault] < TotalAssets
  BY <1>2, <1>10, <1>19, <1>20
<1>25. share'.supply <= share.supply
  <2>1. PICK k \in {0, feeShares} : share'.supply = after.supply + k
    BY <1>1, <1>6, <1>15, <1>16, FeeLedger
  <2>2. S1 + feeShares <= S
    BY <1>2, <1>12, <1>16, <1>18, SupplyFalls
  <2>3. after.supply + feeShares <= share.supply
    BY <1>2, <1>6, <1>7, <1>12, <1>16, <2>2 DEF S
  <2>4. QED
    BY <1>2, <1>7, <1>16, <2>1, <2>3
<1>26. asset'[receiver] = asset[receiver] - n
  <2>1. asset'[receiver] = asset[receiver] + assets /\ asset[receiver] \in Nat
    BY <1>1, <1>2 DEF PayOut
  <2>2. QED
    BY <1>10, <1>19, <2>1
<1>27. QED
  BY <1>1, <1>22, <1>23, <1>24, <1>25, <1>26 DEF User, roles

\* What any call of a holder does to the assets, the supply and the gate.
Enters == /\ initialized /\ UNCHANGED initialized /\ PriceKept(1)
          /\ aToken'[Vault] >= TotalAssets /\ share'.supply >= share.supply
Leaves == /\ initialized /\ UNCHANGED initialized /\ PriceKept(1)
          /\ aToken'[Vault] < TotalAssets /\ share'.supply <= share.supply
Forfeits == /\ initialized /\ UNCHANGED initialized
            /\ aToken'[Vault] = TotalAssets /\ share'.supply <= share.supply
Stays == /\ UNCHANGED initialized
         /\ aToken'[Vault] = TotalAssets /\ share'.supply = share.supply
LEMMA HolderCallEffect ==
  ASSUME IInv, NEW c \in Account, HolderCall(c)
  PROVE  (Enters \/ Leaves \/ Forfeits \/ Stays) /\ share'.supply \in Nat
<1>1. /\ AssetAmounts \subseteq Nat /\ ShareAmounts \subseteq Nat
      /\ Receivers \subseteq Account /\ SoundLedger(share) /\ share.supply \in Nat
      /\ TotalAssets \in Nat
  BY IInvFacts, Quantities
<1>2. ASSUME NEW n \in AssetAmounts, NEW to \in Receivers, Deposit(c, n, to)
      PROVE  Enters /\ share'.supply \in Nat
  <2>1. n \in Nat /\ to \in Account
    BY <1>1
  <2>2. QED
    BY <1>1, <1>2, <2>1, DepositPrice DEF Enters
<1>3. ASSUME NEW n \in ShareAmounts, NEW to \in Receivers, Mint(c, n, to)
      PROVE  Enters /\ share'.supply \in Nat
  BY <1>1, <1>3, MintPrice DEF Enters
<1>4. ASSUME NEW n \in AssetAmounts, NEW to \in Receivers, NEW h \in Account,
             Withdraw(c, n, to, h)
      PROVE  Leaves /\ share'.supply \in Nat
  BY <1>1, <1>4, WithdrawPrice DEF Leaves
<1>5. ASSUME NEW n \in ShareAmounts, NEW to \in Receivers, NEW h \in Account,
             Redeem(c, n, to, h)
      PROVE  Leaves /\ share'.supply \in Nat
  BY <1>1, <1>5, RedeemPrice DEF Leaves
<1>6. ASSUME NEW n \in ShareAmounts, BurnShare(c, n)
      PROVE  Forfeits /\ share'.supply \in Nat
  <2>1. n \in Nat /\ CanBurn(share, c, n) /\ share' = Burned(share, c, n)
    BY <1>1, <1>6 DEF BurnShare
  <2>2. share'.supply = share.supply - n /\ SoundLedger(share')
    BY <1>1, <2>1, BurnedSound
  <2>3. share'.supply \in Nat
    BY <2>2, FixedPointAssumption DEF SoundLedger, Ledger, Uint
  <2>4. QED
    BY <1>1, <1>6, <2>1, <2>2, <2>3
       DEF BurnShare, Forfeits, Initialized, TotalAssets, money, roles
<1>7. ASSUME NEW n \in ShareAmounts, NEW to \in Receivers,
             \/ Transfer(c, to, n)
             \/ \E h \in Account : TransferFrom(c, h, to, n)
      PROVE  Stays /\ share'.supply \in Nat
  <2>1. share'.supply = share.supply
    BY <1>1, <1>7, MovedSound DEF Transfer, TransferFrom
  <2>2. UNCHANGED <<aToken, initialized>>
    BY <1>7 DEF Transfer, TransferFrom, money, roles
  <2>3. QED
    BY <1>1, <2>1, <2>2 DEF Stays, TotalAssets
<1>8. ASSUME NEW n \in ApprovalAmounts, NEW to \in Spenders, Approve(c, to, n)
      PROVE  Stays /\ share'.supply \in Nat
  BY <1>1, <1>8 DEF Approve, Stays, TotalAssets, money, roles
<1>9. QED
  BY <1>2, <1>3, <1>4, <1>5, <1>6, <1>7, <1>8 DEF HolderCall

\* With no fewer assets and no more shares the price is kept.
LEMMA PriceKeptByGain ==
  ASSUME IInv, aToken'[Vault] \in Nat, aToken'[Vault] >= TotalAssets,
         share'.supply \in Nat, share'.supply <= share.supply
  PROVE  PriceKept(1)
<1> DEFINE A == TotalAssets + 1
           B == aToken'[Vault] + 1
           S == share.supply + VirtualShares
           T == share'.supply + VirtualShares - 1
<1>1. A \in Nat /\ B \in Nat /\ A <= B /\ S \in Nat /\ T \in Nat /\ T <= S
  BY Quantities
<1>2. PriceKept(1) <=> B * S >= A * T
  BY DEF PriceKept
<1> HIDE DEF A, B, S, T
<1>3. A * T <= A * S /\ A * S <= B * S
  BY <1>1, MulMono
<1>4. QED
  BY <1>1, <1>2, <1>3

LEMMA HolderCallKeepsPrice ==
  ASSUME IInv, NEW c \in Account, HolderCall(c)
  PROVE  PriceKept(1)
<1>1. share.supply \in Nat /\ TotalAssets \in Nat
  BY Quantities
<1>2. QED
  BY <1>1, HolderCallEffect, PriceKeptByGain DEF Enters, Leaves, Forfeits, Stays

\* Donations, interest and the pool's own lending.
LEMMA PoolStepEffect ==
  ASSUME IInv, \/ \E c \in User, n \in AssetAmounts : Donate(c, n)
               \/ \E n \in Yields : AccrueYield(n)
               \/ \E n \in Loans : Borrow(n) \/ Repay(n)
  PROVE  /\ UNCHANGED <<share, initialized>>
         /\ aToken'[Vault] \in Nat /\ aToken'[Vault] >= TotalAssets
<1>1. /\ aToken \in [Account -> Uint] /\ TotalAssets \in Nat /\ Vault \in Account
      /\ AssetAmounts \subseteq Nat /\ Yields \subseteq Nat /\ MaxUint \in Nat
  BY Quantities, VaultAssumption, FixedPointAssumption DEF TypeOK, Balances, Uint
<1>2. ASSUME NEW c \in User, NEW n \in AssetAmounts, Donate(c, n)
      PROVE  aToken'[Vault] = TotalAssets + n /\ UNCHANGED <<share, initialized>>
  BY <1>1, <1>2 DEF Donate, TotalAssets, User, Uint, token, roles
<1>3. ASSUME NEW n \in Yields, AccrueYield(n)
      PROVE  aToken'[Vault] = TotalAssets + n /\ UNCHANGED <<share, initialized>>
  BY <1>1, <1>3 DEF AccrueYield, TotalAssets, Uint, token, roles
<1>4. ASSUME NEW n \in Loans, Borrow(n) \/ Repay(n)
      PROVE  aToken'[Vault] = TotalAssets /\ UNCHANGED <<share, initialized>>
  BY <1>4 DEF Borrow, Repay, TotalAssets, token, roles
<1>5. QED
  BY <1>1, <1>2, <1>3, <1>4

\* Whatever the fee rate, the virtual offset and the amounts, the roundings of
\* deposit, mint, withdraw and redeem, the fee shares, burns, transfers, donations
\* and interest never lower the share price by more than one share: only the
\* manager and the addresses he approved can.
THEOREM PriceIsKept == Spec => PriceNeverFalls
<1>1. ASSUME IInv, [Next]_vars
      PROVE  [PriceKept(1) \/ ManagerStep \/ SpenderStep]_vars
  <2>1. ASSUME NEW c \in User, HolderCall(c) \/ RoleCall(c)
        PROVE  PriceKept(1) \/ ManagerStep
    BY <1>1, <2>1, HolderCallKeepsPrice DEF User, ManagerStep
  <2>2. ASSUME Outside
        PROVE  PriceKept(1) \/ SpenderStep
    <3>1. share.supply \in Nat
      BY <1>1, Quantities
    <3>2. QED
      BY <1>1, <2>2, <3>1, PoolStepEffect, PriceKeptByGain DEF Outside, SpenderStep
  <2>3. QED
    BY <1>1, <2>1, <2>2 DEF Next
<1>2. QED
  BY <1>1, Safety, PTL DEF Spec, PriceNeverFalls

\* A caller other than the fee receiver who deposits, mints, withdraws or redeems
\* on his own account never gains by it, not even by the roundings or by his part
\* of the fee that he leaves to the shareholders.
THEOREM NobodyProfits == Spec => NoFreeProfit
<1>1. ASSUME IInv, NEW c \in User \ {feeReceiver},
             \/ \E n \in AssetAmounts : Deposit(c, n, c) \/ Withdraw(c, n, c, c)
             \/ \E n \in ShareAmounts : Mint(c, n, c) \/ Redeem(c, n, c, c)
      PROVE  Worth(c)' <= Worth(c)
  <2>1. /\ AssetAmounts \subseteq Nat /\ ShareAmounts \subseteq Nat /\ c \in Account
    BY <1>1, IInvFacts DEF User
  <2>2. ASSUME NEW n \in AssetAmounts, Deposit(c, n, c) PROVE Worth(c)' <= Worth(c)
    BY <1>1, <2>1, <2>2, DepositPrice
  <2>3. ASSUME NEW n \in AssetAmounts, Withdraw(c, n, c, c) PROVE Worth(c)' <= Worth(c)
    BY <1>1, <2>1, <2>3, WithdrawPrice
  <2>4. ASSUME NEW n \in ShareAmounts, Mint(c, n, c) PROVE Worth(c)' <= Worth(c)
    BY <1>1, <2>1, <2>4, MintPrice
  <2>5. ASSUME NEW n \in ShareAmounts, Redeem(c, n, c, c) PROVE Worth(c)' <= Worth(c)
    BY <1>1, <2>1, <2>5, RedeemPrice
  <2>6. QED
    BY <1>1, <2>2, <2>3, <2>4, <2>5
<1>2. IInv /\ [Next]_vars =>
        [\A c \in User \ {feeReceiver} :
           \/ \E n \in AssetAmounts : Deposit(c, n, c) \/ Withdraw(c, n, c, c)
           \/ \E n \in ShareAmounts : Mint(c, n, c) \/ Redeem(c, n, c, c)
          => Worth(c)' <= Worth(c)]_vars
  BY <1>1
<1>3. QED
  BY <1>2, Safety, PTL DEF Spec, NoFreeProfit

(* The abstract pool of shares.                                            *)

\* Nobody but the manager's targets is ever approved on the vault's aTokens.
OnlyTargetsApproved == aSpenders \subseteq ExecTargets
LEMMA ApprovedAreTargets == Spec => []OnlyTargetsApproved
<1>1. Init => OnlyTargetsApproved
  BY DEF Init, OnlyTargetsApproved
<1>2. OnlyTargetsApproved /\ [Next]_vars => OnlyTargetsApproved'
  <2> SUFFICES ASSUME aSpenders \subseteq ExecTargets, [Next]_vars
               PROVE  aSpenders' \subseteq ExecTargets
    BY DEF OnlyTargetsApproved
  <2>1. ASSUME NEW c, HolderCall(c) PROVE UNCHANGED aSpenders
    BY <2>1 DEF HolderCall, Deposit, Mint, Withdraw, Redeem, BurnShare, Transfer,
       TransferFrom, Approve
  <2>2. ASSUME NEW c, RoleCall(c) PROVE aSpenders' \subseteq ExecTargets
    BY <2>1, <2>2 DEF RoleCall, InitializeVault, Execute, ApproveAToken, RevokeAToken,
       SendAToken, PoolWithdraw, SendAsset, SetFeeReciever, SetManager, TransferOwnership,
       RenounceOwnership
  <2>3. Outside => UNCHANGED aSpenders
    BY DEF Outside, SpendAToken, SendAToken, Donate, AccrueYield, Borrow, Repay
  <2>4. UNCHANGED vars => UNCHANGED aSpenders
    BY DEF vars
  <2>5. QED
    BY <2>1, <2>2, <2>3, <2>4 DEF Next
<1>3. QED
  BY <1>1, <1>2, PTL DEF Spec

LEMMA HolderCallRefines ==
  ASSUME IInv, NEW c \in Account, HolderCall(c)
  PROVE  [Abstract!Next]_(Abstract!vars)
<1>1. share.supply \in Nat /\ share'.supply \in Nat /\ TotalAssets' = aToken'[Vault]
  BY Quantities, HolderCallEffect DEF TotalAssets
<1>2. PriceKept(1) <=> Abstract!PriceKept
  BY <1>1 DEF PriceKept, Abstract!PriceKept
<1>3. Enters => Abstract!Enter
  BY <1>1, <1>2 DEF Enters, Abstract!Enter
<1>4. Leaves => Abstract!Leave
  BY <1>1, <1>2 DEF Leaves, Abstract!Leave
<1>5. Forfeits => Abstract!Forfeit \/ UNCHANGED Abstract!vars
  BY <1>1 DEF Forfeits, Abstract!Forfeit, Abstract!vars
<1>6. Stays => UNCHANGED Abstract!vars
  BY <1>1 DEF Stays, Abstract!vars
<1>7. QED
  BY <1>3, <1>4, <1>5, <1>6, HolderCallEffect DEF Abstract!Next

\* An aToken transfer out of the vault, by the manager or an approved spender.
LEMMA SendATokenRefines ==
  ASSUME IInv, initialized, ExecTargets # {}, NEW to \in User, NEW n \in Nat,
         SendAToken(to, n)
  PROVE  [Abstract!Next]_(Abstract!vars)
<1>1. aToken'[Vault] = TotalAssets - n /\ TotalAssets \in Nat /\ UNCHANGED <<share, initialized>>
  BY Quantities, VaultAssumption, FixedPointAssumption
     DEF SendAToken, TypeOK, Balances, Uint, TotalAssets, User, token, roles
<1>2. QED
  BY <1>1 DEF TotalAssets, Abstract!Next, Abstract!Take, Abstract!vars

LEMMA RoleCallRefines ==
  ASSUME IInv, NEW c \in User, RoleCall(c)
  PROVE  [Abstract!Next]_(Abstract!vars)
<1>1. /\ AssetAmounts \subseteq Nat /\ ExecTargets \subseteq User /\ Vault \in Account
      /\ aToken \in [Account -> Uint] /\ MaxUint \in Nat /\ TotalAssets \in Nat
      /\ share.supply \in Nat /\ SeedAssets \subseteq Nat
  BY Quantities, IInvFacts, VaultAssumption, FixedPointAssumption DEF TypeOK, Balances, Uint
<1>2. ASSUME NEW to \in Receivers, NEW from \in User, NEW n \in SeedAssets,
             NEW s \in SeedShares, InitializeVault(c, to, from, n, s)
      PROVE  Abstract!Seed
  <2>1. aToken'[Vault] = TotalAssets + n
    BY <1>1, <1>2 DEF InitializeVault, TotalAssets, User, Uint
  <2>2. share'.supply = share.supply + s * ShareUnit /\ initialized' = TRUE
    BY <1>2 DEF InitializeVault, Minted
  <2>3. <<n, s * ShareUnit>> \in SeedAssets \X {k * ShareUnit : k \in SeedShares}
    OBVIOUS
  <2>4. QED
    BY <2>1, <2>2, <2>3 DEF Abstract!Seed, TotalAssets
<1>3. ASSUME Execute(c)
      PROVE  [Abstract!Next]_(Abstract!vars)
  <2>1. initialized
    BY <1>3 DEF Execute, Initialized
  <2>2. ASSUME NEW to \in ExecTargets, ApproveAToken(to) \/ RevokeAToken(to)
        PROVE  UNCHANGED Abstract!vars
    BY <2>2 DEF ApproveAToken, RevokeAToken, Abstract!vars, TotalAssets, token, money, roles
  <2>3. ASSUME NEW to \in ExecTargets, NEW n \in AssetAmounts, SendAToken(to, n)
        PROVE  [Abstract!Next]_(Abstract!vars)
    BY <1>1, <2>1, <2>3, SendATokenRefines
  <2>4. ASSUME NEW to \in ExecTargets, NEW n \in AssetAmounts, PoolWithdraw(to, n)
        PROVE  Abstract!Take
    <3>1. n > 0 /\ n \in Nat /\ aToken'[Vault] = TotalAssets - n /\ UNCHANGED <<share, initialized>>
      BY <1>1, <2>4 DEF PoolWithdraw, PayOut, TotalAssets, Uint, token, roles
    <3>2. QED
      BY <1>1, <2>1, <3>1 DEF Abstract!Take, TotalAssets
  <2>5. ASSUME NEW to \in ExecTargets, NEW n \in AssetAmounts, SendAsset(to, n)
        PROVE  UNCHANGED Abstract!vars
    BY <2>5 DEF SendAsset, Abstract!vars, TotalAssets, token, roles
  <2>6. HolderCall(Vault) => [Abstract!Next]_(Abstract!vars)
    BY <1>1, HolderCallRefines
  <2>7. QED
    BY <1>3, <2>2, <2>3, <2>4, <2>5, <2>6 DEF Execute, Abstract!Next
<1>4. ASSUME NEW to, \/ SetFeeReciever(c, to) \/ SetManager(c, to)
                     \/ TransferOwnership(c, to) \/ RenounceOwnership(c)
      PROVE  UNCHANGED Abstract!vars
  BY <1>4 DEF SetFeeReciever, SetManager, TransferOwnership, RenounceOwnership,
     Abstract!vars, TotalAssets, token, money
<1>5. QED
  BY <1>2, <1>3, <1>4 DEF RoleCall, Abstract!Next

\* The vault with its accounts, fees, roundings and lending pool is the abstract
\* pool of shares: every step is one of the pool's, or none.
THEOREM VaultIsSharePool == Spec => IsSharePool
<1>1. Init => Abstract!Init
  BY VaultAssumption DEF Init, Abstract!Init, EmptyLedger, TotalAssets
<1>2. ASSUME IInv, OnlyTargetsApproved, [Next]_vars
      PROVE  [Abstract!Next]_(Abstract!vars)
  <2>1. ASSUME NEW c \in User, HolderCall(c) \/ RoleCall(c)
        PROVE  [Abstract!Next]_(Abstract!vars)
    BY <1>2, <2>1, HolderCallRefines, RoleCallRefines DEF User
  <2>2. ASSUME NEW spender \in aSpenders, NEW to \in User, NEW n \in AssetAmounts,
               SpendAToken(spender, to, n)
        PROVE  [Abstract!Next]_(Abstract!vars)
    <3>1. initialized
      BY <1>2, <2>2 DEF IInv, NothingBeforeInit
    <3>2. n \in Nat
      BY <1>2, IInvFacts
    <3>3. ExecTargets # {}
      BY <1>2 DEF OnlyTargetsApproved
    <3>4. QED
      BY <1>2, <2>2, <3>1, <3>2, <3>3, SendATokenRefines DEF SpendAToken
  <2>3. ASSUME UNCHANGED <<share, initialized>>,
               aToken'[Vault] \in Nat, aToken'[Vault] >= TotalAssets
        PROVE  [Abstract!Next]_(Abstract!vars)
    <3>1. TotalAssets \in Nat
      BY <1>2, Quantities
    <3>2. QED
      BY <2>3, <3>1 DEF Abstract!Next, Abstract!Gain, Abstract!vars, TotalAssets
  <2>4. Outside => [Abstract!Next]_(Abstract!vars)
    BY <1>2, <2>2, <2>3, PoolStepEffect DEF Outside
  <2>5. UNCHANGED vars => UNCHANGED Abstract!vars
    BY DEF vars, Abstract!vars, TotalAssets, token, money, roles
  <2>6. QED
    BY <1>2, <2>1, <2>4, <2>5 DEF Next
<1>3. QED
  BY <1>1, <1>2, Safety, ApprovedAreTargets, PTL DEF Spec, IsSharePool, Abstract!Spec
=============================================================================
