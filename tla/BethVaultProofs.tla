--------------------------- MODULE BethVaultProofs --------------------------
(***************************************************************************)
(* Safety of BethVault for every set of accounts, tokens and oracles,      *)
(* every scale of decimals, fee and slippage and every integer width.      *)
(* The inductive invariant joins the types, the share sum and the gate,    *)
(* as for AaveVault.  Each step lemma says two things: the invariant is    *)
(* kept, and the books do not get ahead of the tokens unless the vault     *)
(* itself is the caller.                                                   *)
(***************************************************************************)
EXTENDS FedVault, ERC20Proofs

IInv == TypeOK /\ SupplyIsSum /\ NothingBeforeInit

\* What BackingKept says of one step that is not the owner's doing.
MarginsKept == \A t \in Token \cup {Vault} : Margin(t)' >= Margin(t)

-----------------------------------------------------------------------------
(* Arithmetic and single token movements.                                  *)

LEMMA QuotientType ==
  ASSUME NEW x \in Nat, NEW d \in Nat \ {0}
  PROVE  x \div d \in Nat
  OBVIOUS

LEMMA ProductType ==
  ASSUME NEW x \in Nat, NEW y \in Nat
  PROVE  x * y \in Nat
  OBVIOUS

LEMMA FeeType ==
  ASSUME txFee \in Nat, NEW n \in Nat
  PROVE  FeeOn(n) \in Nat
<1>1. n \div FeeParts \in Nat
  BY QuotientType, BethAssumption
<1>2. QED
  BY <1>1, ProductType DEF FeeOn

\* What the DEX pays is a natural.
LEMMA TradeType ==
  ASSUME TypeOK, NEW t \in Token, NEW n \in Nat
  PROVE  Bought(t, n) \in Nat /\ Sold(t, n) \in Nat
<1>1. /\ CostUnit \in Nat \ {0} /\ AssetUnit[t] \in Nat \ {0}
      /\ market[t] \in Nat \ {0}
  BY BethAssumption DEF TypeOK
<1>2. n * CostUnit * AssetUnit[t] \in Nat /\ n * market[t] \in Nat
  <2>1. n * CostUnit \in Nat /\ n * market[t] \in Nat
    BY <1>1, ProductType
  <2>2. QED
    BY <1>1, <2>1, ProductType
<1>3. AssetUnit[t] * CostUnit \in Nat \ {0}
  BY <1>1
<1>4. QED
  BY <1>1, <1>2, <1>3, QuotientType DEF Bought, Sold

\* One account of one token changes by n, and no other.
Accounts == [Token -> [Account -> Int]]
At(t, u, v, w, n) == IF v = t /\ w = u THEN n ELSE 0

LEMMA CreditedEffect ==
  ASSUME NEW a \in Accounts, NEW t \in Token, NEW u \in Account, NEW n \in Int
  PROVE  /\ Credited(a, t, u, n) \in Accounts
         /\ \A v \in Token, w \in Account :
              Credited(a, t, u, n)[v][w] = a[v][w] + At(t, u, v, w, n)
  BY DEF Accounts, Credited, At

LEMMA DebitedEffect ==
  ASSUME NEW a \in Accounts, NEW t \in Token, NEW u \in Account, NEW n \in Int
  PROVE  /\ Debited(a, t, u, n) \in Accounts
         /\ \A v \in Token, w \in Account :
              Debited(a, t, u, n)[v][w] = a[v][w] - At(t, u, v, w, n)
  BY DEF Accounts, Debited, At

\* Balances are accounts that are nowhere below zero.
LEMMA TokensAreAccounts ==
  /\ \A a \in Tokens : a \in Accounts
  /\ \A a \in Accounts :
       (\A t \in Token, u \in Account : a[t][u] >= 0) => a \in Tokens
  BY DEF Tokens, Accounts

\* A transfer that the sender can make.
LEMMA SentEffect ==
  ASSUME token \in Tokens, NEW t \in Token, NEW from \in Account,
         NEW to \in Account, NEW n \in Nat, HasSent(t, from, n)
  PROVE  /\ Sent(t, from, to, n) \in Tokens
         /\ \A v \in Token, w \in Account : Sent(t, from, to, n)[v][w]
              = token[v][w] - At(t, from, v, w, n) + At(t, to, v, w, n)
<1> DEFINE left == Debited(token, t, from, n)
<1>1. token \in Accounts
  BY TokensAreAccounts
<1>2. left \in Accounts
      /\ \A v \in Token, w \in Account : left[v][w] = token[v][w] - At(t, from, v, w, n)
  BY <1>1, DebitedEffect
<1> HIDE DEF left
<1>3. /\ Credited(left, t, to, n) \in Accounts
      /\ \A v \in Token, w \in Account :
           Credited(left, t, to, n)[v][w] = left[v][w] + At(t, to, v, w, n)
  BY <1>2, CreditedEffect
<1>4. ASSUME NEW v \in Token, NEW w \in Account
      PROVE  left[v][w] >= 0
  BY <1>2 DEF At, HasSent, Tokens
<1>5. ASSUME NEW v \in Token, NEW w \in Account
      PROVE  Credited(left, t, to, n)[v][w] >= 0
  BY <1>2, <1>3, <1>4 DEF At, Accounts
<1>6. QED
  BY <1>2, <1>3, <1>5, TokensAreAccounts DEF Sent, left

-----------------------------------------------------------------------------
(* What the calls rest on.                                                 *)

LEMMA Facts ==
  ASSUME IInv
  PROVE  /\ TypeOK /\ SoundLedger(share)
         /\ Vault \in Account /\ Vault \notin Token
         /\ User \subseteq Account /\ Vault \notin User
         /\ ShareAmounts \subseteq Nat /\ OpAmounts \subseteq Nat
         /\ OpShareAmounts \subseteq Nat
         /\ Receivers \subseteq Account /\ ExecTargets \subseteq Account
         /\ \A i \in Slots : Asset(i) \in Token
         /\ config.usdc \in Token
<1>1. TypeOK /\ SoundLedger(share)
  BY DEF IInv, SupplyIsSum, TypeOK, SoundLedger
<1>2. ShareAmounts \subseteq Nat /\ OpShareAmounts \subseteq Nat
  BY BethAssumption, FixedPointAssumption DEF Uint
<1>3. (\A i \in Slots : Asset(i) \in Token) /\ config.usdc \in Token
  BY <1>1 DEF TypeOK, ConfigType, Asset
<1>4. QED
  BY <1>1, <1>2, <1>3, BethAssumption DEF User

\* A mint that passes the supply check adds exactly its amount to one balance.
LEMMA MintedBalance ==
  ASSUME NEW t, SoundLedger(t), NEW to \in Account, NEW n \in Nat,
         CanMint(t, to, n)
  PROVE  \A u \in Account : Minted(t, to, n).balance[u]
                               = t.balance[u] + (IF u = to THEN n ELSE 0)
<1>1. /\ t.balance \in [Account -> 0 .. MaxUint]
      /\ t.supply = SumOf(t.balance) /\ t.supply + n \in 0 .. MaxUint
      /\ t.supply \in Nat /\ MaxUint \in Nat
  BY FixedPointAssumption DEF SoundLedger, Ledger, Balances, Uint, CanMint, Fits
<1>2. t.balance[to] <= SumOf(t.balance)
  BY <1>1, BalanceAtMostSum
<1>3. WrapAdd(t.balance[to], n) = t.balance[to] + n
  BY <1>1, <1>2, WrapAddExact
<1>4. QED
  BY <1>1, <1>3 DEF Minted

\* No holder has more than the supply.
LEMMA HoldsAtMostSupply ==
  ASSUME SoundLedger(share), NEW u \in Account
  PROVE  share.balance[u] \in Nat /\ share.supply \in Nat
         /\ share.balance[u] <= share.supply
  BY BalanceAtMostSum, FixedPointAssumption DEF SoundLedger, Ledger, Balances, Uint

\* The steps that change no role, setting, approval or price: types, a sound
\* ledger, and before the gate is open nothing issued, booked or charged.
LEMMA CallKeepsIInv ==
  ASSUME IInv, SoundLedger(share'), allowance' \in Allowances, token' \in Tokens,
         assetBalances' \in [Token -> Nat], feeBalance' \in Nat,
         totalUtilised' \in [Token \cup {Vault} -> Nat],
         UNCHANGED <<roles, settings, approved, world>>,
         \/ initialized
         \/ /\ UNCHANGED <<assetBalances, totalUtilised>>
            /\ share'.supply = share.supply /\ feeBalance' <= feeBalance
  PROVE  IInv'
<1>1. TypeOK'
  BY DEF IInv, TypeOK, SoundLedger, roles, settings, world
<1>2. NothingBeforeInit'
  BY DEF IInv, NothingBeforeInit, TypeOK, roles
<1>3. QED
  BY <1>1, <1>2 DEF IInv, SupplyIsSum, SoundLedger

\* MarginsKept, token by token and for the vault's own share.
LEMMA MarginsFrom ==
  ASSUME Vault \notin Token,
         \A t \in Token : token'[t][Vault] + totalUtilised'[t] - assetBalances'[t]
           >= token[t][Vault] + totalUtilised[t] - assetBalances[t],
         share'.balance[Vault] + totalUtilised'[Vault] - feeBalance'
           >= share.balance[Vault] + totalUtilised[Vault] - feeBalance
  PROVE  MarginsKept
  BY DEF MarginsKept, Margin

\* A step that only moves shares, and none of the vault's unless it is the caller.
LEMMA SharesOnly ==
  ASSUME IInv, NEW c \in Account, SoundLedger(share'), share'.supply = share.supply,
         allowance' \in Allowances,
         c # Vault => share'.balance[Vault] >= share.balance[Vault],
         UNCHANGED <<feeBalance, funds, roles, settings, approved, world>>
  PROVE  IInv' /\ (c # Vault => MarginsKept)
<1>1. TypeOK /\ Vault \in Account /\ Vault \notin Token
  BY Facts
<1>2. IInv'
  <2>1. /\ token' \in Tokens /\ assetBalances' \in [Token -> Nat]
        /\ feeBalance' \in Nat /\ totalUtilised' \in [Token \cup {Vault} -> Nat]
        /\ feeBalance' <= feeBalance /\ UNCHANGED <<assetBalances, totalUtilised>>
    BY <1>1 DEF TypeOK, funds
  <2>2. QED
    BY <2>1, CallKeepsIInv
<1>3. ASSUME c # Vault
      PROVE  MarginsKept
  <2>1. /\ share.balance[Vault] \in Nat /\ share'.balance[Vault] \in Nat
        /\ \A t \in Token : token[t][Vault] \in Nat /\ assetBalances[t] \in Nat
                            /\ totalUtilised[t] \in Nat
        /\ totalUtilised[Vault] \in Nat /\ feeBalance \in Nat
        /\ UNCHANGED <<token, assetBalances, totalUtilised, feeBalance>>
    BY <1>1, FixedPointAssumption
       DEF TypeOK, Tokens, SoundLedger, Ledger, Balances, Uint, funds
  <2>2. QED
    BY <1>1, <1>3, <2>1, MarginsFrom
<1>4. QED
  BY <1>2, <1>3

-----------------------------------------------------------------------------
(* Holders.                                                                *)

LEMMA TransferStep ==
  ASSUME IInv, NEW c \in Account, NEW n \in Nat, NEW to \in Account,
         Transfer(c, to, n)
  PROVE  IInv' /\ (c # Vault => MarginsKept)
<1>1. TypeOK /\ SoundLedger(share) /\ Vault \in Account
  BY Facts
<1>2. /\ SoundLedger(share') /\ share'.supply = share.supply
      /\ \A u \in Account : share'.balance[u]
           >= IF u = c THEN share.balance[u] - n ELSE share.balance[u]
  BY <1>1, MovedSound DEF Transfer
<1>3. allowance' \in Allowances
  BY <1>1 DEF Transfer, TypeOK
<1>4. QED
  BY <1>1, <1>2, <1>3, SharesOnly DEF Transfer

\* The vault's own shares move only if it is the holder.
LEMMA TransferFromStep ==
  ASSUME IInv, NEW c \in Account, NEW n \in Nat, NEW to \in Account,
         NEW holder \in Account, TransferFrom(c, holder, to, n)
  PROVE  IInv' /\ (holder # Vault => MarginsKept)
<1>1. TypeOK /\ SoundLedger(share) /\ Vault \in Account
  BY Facts
<1>2. /\ SoundLedger(share') /\ share'.supply = share.supply
      /\ \A u \in Account : share'.balance[u]
           >= IF u = holder THEN share.balance[u] - n ELSE share.balance[u]
  BY <1>1, MovedSound DEF TransferFrom
<1>3. allowance' \in Allowances
  BY <1>1, SpentType DEF TransferFrom, TypeOK
<1>4. UNCHANGED <<feeBalance, funds, roles, settings, approved, world>>
  BY DEF TransferFrom
<1>5. holder # Vault => share'.balance[Vault] >= share.balance[Vault]
  BY <1>1, <1>2
<1>6. QED
  BY <1>2, <1>3, <1>4, <1>5, SharesOnly

LEMMA ApproveStep ==
  ASSUME IInv, NEW c \in Account, NEW n \in Uint, NEW spender \in Account,
         Approve(c, spender, n)
  PROVE  IInv' /\ (c # Vault => MarginsKept)
<1>1. TypeOK /\ SoundLedger(share) /\ Vault \in Account
  BY Facts
<1>2. allowance' \in Allowances
  BY <1>1 DEF Approve, TypeOK, Allowances
<1>3. /\ SoundLedger(share') /\ share'.supply = share.supply
      /\ share'.balance[Vault] >= share.balance[Vault]
  BY <1>1, HoldsAtMostSupply DEF Approve
<1>4. UNCHANGED <<feeBalance, funds, roles, settings, approved, world>>
  BY DEF Approve
<1>5. QED
  BY <1>2, <1>3, <1>4, SharesOnly

\* What is booked when the vault gets n[1] and n[2] of its assets.
LEMMA BookedEffect ==
  ASSUME TypeOK, NEW n \in [Slots -> Nat]
  PROVE  /\ Booked(n) \in [Token -> Nat]
         /\ \A t \in Token : Booked(n)[t] = assetBalances[t]
              + (IF t = Asset(1) THEN n[1] ELSE 0) + (IF t = Asset(2) THEN n[2] ELSE 0)
<1>1. /\ assetBalances \in [Token -> Nat] /\ Asset(1) \in Token /\ Asset(2) \in Token
      /\ n[1] \in Nat /\ n[2] \in Nat
  BY DEF TypeOK, ConfigType, Asset, Slots
<1> DEFINE first == [assetBalances EXCEPT ![Asset(1)] = @ + n[1]]
<1>2. /\ first \in [Token -> Nat]
      /\ \A t \in Token : first[t] = assetBalances[t] + (IF t = Asset(1) THEN n[1] ELSE 0)
  BY <1>1
<1>3. Booked(n) = [first EXCEPT ![Asset(2)] = @ + n[2]]
  BY DEF Booked
<1> HIDE DEF first
<1>4. QED
  BY <1>1, <1>2, <1>3

\* The same of the balances themselves.
LEMMA GainedEffect ==
  ASSUME TypeOK, NEW n \in [Slots -> Nat], NEW a \in Accounts
  PROVE  /\ Gained(a, n) \in Accounts
         /\ \A v \in Token, w \in Account : Gained(a, n)[v][w]
              = a[v][w] + At(Asset(1), Vault, v, w, n[1]) + At(Asset(2), Vault, v, w, n[2])
<1> DEFINE x == n[1]
           y == n[2]
           first == Credited(a, Asset(1), Vault, x)
<1>1. /\ Asset(1) \in Token /\ Asset(2) \in Token /\ Vault \in Account
      /\ x \in Int /\ y \in Int
  BY BethAssumption DEF TypeOK, ConfigType, Asset, Slots
<1>2. Gained(a, n) = Credited(first, Asset(2), Vault, y)
  BY DEF Gained
<1>3. \A v, w : /\ At(Asset(1), Vault, v, w, n[1]) = At(Asset(1), Vault, v, w, x)
                /\ At(Asset(2), Vault, v, w, n[2]) = At(Asset(2), Vault, v, w, y)
  OBVIOUS
<1> HIDE DEF x, y
<1>4. /\ first \in Accounts
      /\ \A v \in Token, w \in Account :
           first[v][w] = a[v][w] + At(Asset(1), Vault, v, w, x)
  BY <1>1, CreditedEffect
<1> HIDE DEF first
<1>5. /\ Credited(first, Asset(2), Vault, y) \in Accounts
      /\ \A v \in Token, w \in Account : Credited(first, Asset(2), Vault, y)[v][w]
           = first[v][w] + At(Asset(2), Vault, v, w, y)
  BY <1>1, <1>4, CreditedEffect
<1>6. QED
  BY <1>2, <1>3, <1>4, <1>5

\* A step that mints fee shares to the vault and books them, and whose tokens
\* stay behind what is booked, keeps the margins.
LEMMA FeeStepKeepsMargins ==
  ASSUME IInv, NEW f \in Nat, feeBalance' = feeBalance + f,
         share'.balance[Vault] \in Nat, share'.balance[Vault] >= share.balance[Vault] + f,
         UNCHANGED totalUtilised, token' \in Tokens, assetBalances' \in [Token -> Nat],
         \A t \in Token : token'[t][Vault] - assetBalances'[t]
                            >= token[t][Vault] - assetBalances[t]
  PROVE  MarginsKept
<1>1. TypeOK /\ Vault \in Account /\ Vault \notin Token /\ SoundLedger(share)
  BY Facts
<1>2. share.balance[Vault] \in Nat
  BY <1>1, HoldsAtMostSupply
<1>3. /\ totalUtilised[Vault] \in Nat /\ feeBalance \in Nat
      /\ \A t \in Token : /\ token[t][Vault] \in Nat /\ assetBalances[t] \in Nat
                          /\ token'[t][Vault] \in Nat /\ assetBalances'[t] \in Nat
                          /\ totalUtilised[t] \in Nat
  BY <1>1 DEF TypeOK, Tokens
<1>4. QED
  BY <1>1, <1>2, <1>3, MarginsFrom

\* A price needs a supply, and a supply an open gate.
LEMMA SupplyNeedsGate ==
  ASSUME IInv, share.supply > 0
  PROVE  initialized
  BY DEF IInv, NothingBeforeInit

LEMMA MintStep ==
  ASSUME IInv, NEW c \in Account, NEW n \in Nat, NEW to \in Account, Mint(c, n, to)
  PROVE  IInv' /\ MarginsKept
<1> DEFINE cost == PreviewMint(n)
           half == cost \div 2
           cash == config.usdc
           got  == [i \in Slots |-> Bought(Asset(i), half)]
           fee  == FeeOn(n)
           charged == Minted(share, Vault, fee)
           paid == Sent(cash, c, Vault, cost)
           kept == Debited(paid, cash, Vault, 2 * half)
<1>1. /\ c # Vault /\ CanPrice(share.supply)
      /\ Fits(cost) /\ Fits(share.supply + n) /\ HasSent(cash, c, cost)
      /\ \A i \in Slots : CanSwap(Asset(i), Asset(i), got[i])
      /\ n >= fee
      /\ token' = Gained(kept, got)
      /\ assetBalances' = Booked(got)
      /\ feeBalance' = feeBalance + fee
      /\ share' = Minted(charged, to, AfterFee(n))
      /\ UNCHANGED <<allowance, totalUtilised, roles, settings, approved, world>>
  BY DEF Mint
<1>2. /\ TypeOK /\ SoundLedger(share) /\ Vault \in Account /\ Vault \notin Token
      /\ cash \in Token /\ \A i \in Slots : Asset(i) \in Token
  BY Facts
<1>3. cost \in Nat /\ half \in Nat /\ 2 * half <= cost
  <2>1. cost \in Nat
    BY <1>1, FixedPointAssumption DEF Fits, Uint
  <2> HIDE DEF cost
  <2>2. QED
    BY <2>1
<1>4. got \in [Slots -> Nat]
  BY <1>2, <1>3, TradeType
<1>5. fee \in Nat
  BY <1>2, FeeType DEF TypeOK
<1> HIDE DEF cost, half, got, fee
<1>6. /\ SoundLedger(charged) /\ charged.supply = share.supply + fee
      /\ \A u \in Account : charged.balance[u]
                               = share.balance[u] + (IF u = Vault THEN fee ELSE 0)
  <2>1. CanMint(share, Vault, fee)
    BY <1>1, <1>2, <1>5, ERC20Assumption, FixedPointAssumption, HoldsAtMostSupply
       DEF CanMint, Fits, Uint
  <2>2. QED
    BY <1>2, <1>5, <2>1, MintedSound, MintedBalance DEF Minted
<1>7. /\ SoundLedger(share')
      /\ \A u \in Account : share'.balance[u] >= charged.balance[u]
  <2>1. AfterFee(n) \in Nat /\ charged.supply + AfterFee(n) = share.supply + n
    BY <1>1, <1>2, <1>5, <1>6, HoldsAtMostSupply DEF AfterFee, fee
  <2>2. CanMint(charged, to, AfterFee(n))
    BY <1>1, <2>1, ERC20Assumption DEF CanMint
  <2>3. QED
    BY <1>1, <1>6, <2>1, <2>2, MintedSound
<1> HIDE DEF charged
<1>8. /\ kept \in Accounts
      /\ \A v \in Token, w \in Account : kept[v][w]
           = (token[v][w] - At(cash, c, v, w, cost) + At(cash, Vault, v, w, cost))
                         - At(cash, Vault, v, w, 2 * half)
  <2>1. /\ paid \in Tokens
        /\ \A v \in Token, w \in Account : paid[v][w]
             = token[v][w] - At(cash, c, v, w, cost) + At(cash, Vault, v, w, cost)
    BY <1>1, <1>2, <1>3, SentEffect DEF TypeOK
  <2> HIDE DEF paid
  <2> DEFINE twice == 2 * half
  <2>2. paid \in Accounts /\ twice \in Int
    BY <1>3, <2>1, TokensAreAccounts
  <2> HIDE DEF twice
  <2>3. /\ Debited(paid, cash, Vault, twice) \in Accounts
        /\ \A v \in Token, w \in Account : Debited(paid, cash, Vault, twice)[v][w]
             = paid[v][w] - At(cash, Vault, v, w, twice)
    BY <1>2, <2>2, DebitedEffect
  <2>4. QED
    BY <2>1, <2>3 DEF twice
<1>9. /\ token' \in Accounts
      /\ \A v \in Token, w \in Account : token'[v][w] = kept[v][w]
           + At(Asset(1), Vault, v, w, got[1]) + At(Asset(2), Vault, v, w, got[2])
  BY <1>1, <1>2, <1>4, <1>8, GainedEffect
<1> HIDE DEF kept
<1>10. token' \in Tokens
  <2> SUFFICES ASSUME NEW v \in Token, NEW w \in Account PROVE token'[v][w] >= 0
    BY <1>9, TokensAreAccounts
  <2>1. kept[v][w] >= 0 /\ kept[v][w] \in Int
    BY <1>1, <1>2, <1>3, <1>8 DEF At, HasSent, TypeOK, Tokens, Accounts
  <2>2. got[1] \in Nat /\ got[2] \in Nat
    BY <1>4 DEF Slots
  <2>3. QED
    BY <1>9, <2>1, <2>2 DEF At
<1>11. /\ assetBalances' \in [Token -> Nat]
       /\ \A t \in Token : assetBalances'[t] = assetBalances[t]
              + (IF t = Asset(1) THEN got[1] ELSE 0) + (IF t = Asset(2) THEN got[2] ELSE 0)
  BY <1>1, <1>2, <1>4, BookedEffect
<1>12. ASSUME NEW t \in Token
       PROVE  token'[t][Vault] - assetBalances'[t] >= token[t][Vault] - assetBalances[t]
  <2>1. /\ kept[t][Vault] >= token[t][Vault] /\ kept[t][Vault] \in Int
        /\ token[t][Vault] \in Nat /\ assetBalances[t] \in Nat
    BY <1>1, <1>2, <1>3, <1>8 DEF At, TypeOK, Tokens, Accounts
  <2>2. got[1] \in Nat /\ got[2] \in Nat
    BY <1>4 DEF Slots
  <2>3. QED
    BY <1>2, <1>9, <1>11, <2>1, <2>2 DEF At
<1>13. share'.balance[Vault] \in Nat /\ share'.balance[Vault] >= share.balance[Vault] + fee
  BY <1>2, <1>5, <1>6, <1>7, HoldsAtMostSupply, FixedPointAssumption
     DEF SoundLedger, Ledger, Balances, Uint
<1>14. MarginsKept
  BY <1>1, <1>5, <1>10, <1>11, <1>12, <1>13, FeeStepKeepsMargins
<1>15. IInv'
  <2>1. initialized
    BY <1>1, SupplyNeedsGate DEF CanPrice
  <2>2. /\ allowance' \in Allowances /\ feeBalance' \in Nat
        /\ totalUtilised' \in [Token \cup {Vault} -> Nat]
    BY <1>1, <1>2, <1>5 DEF TypeOK
  <2>3. QED
    BY <1>1, <1>7, <1>10, <1>11, <2>1, <2>2, CallKeepsIInv
<1>16. QED
  BY <1>14, <1>15

\* What a redeemer is paid of each asset is a natural.
LEMMA ReturnType ==
  ASSUME NEW n, NEW supply, CanReturn(n, supply), NEW i \in Slots
  PROVE  ReturnValue(i, n, supply) \in Nat
<1>1. PerShare(i, supply) * n \in Nat
  BY FixedPointAssumption DEF CanReturn, Fits, Uint
<1>2. ShareUnit \in Nat \ {0}
  BY BethAssumption
<1>3. QED
  BY <1>1, <1>2, QuotientType DEF ReturnValue

\* The balances after a redeem: both assets are paid to the DEX and the cash it
\* gives goes to the receiver.
PaidOut(cash, to, x, y, z) ==
  Credited(Debited(Debited(token, Asset(1), Vault, x), Asset(2), Vault, y), cash, to, z)

LEMMA PaidOutEffect ==
  ASSUME TypeOK, NEW x \in Nat, NEW y \in Nat, NEW z \in Nat, NEW to \in Account,
         NEW cash \in Token
  PROVE  /\ PaidOut(cash, to, x, y, z) \in Accounts
         /\ \A v \in Token, w \in Account : PaidOut(cash, to, x, y, z)[v][w]
              = ((token[v][w] - At(Asset(1), Vault, v, w, x))
                   - At(Asset(2), Vault, v, w, y)) + At(cash, to, v, w, z)
<1> DEFINE first == Debited(token, Asset(1), Vault, x)
           second == Debited(first, Asset(2), Vault, y)
<1>1. /\ Asset(1) \in Token /\ Asset(2) \in Token /\ Vault \in Account
      /\ token \in Accounts
  BY BethAssumption, TokensAreAccounts DEF TypeOK, ConfigType, Asset, Slots
<1>2. /\ first \in Accounts
      /\ \A v \in Token, w \in Account :
           first[v][w] = token[v][w] - At(Asset(1), Vault, v, w, x)
  BY <1>1, DebitedEffect
<1> HIDE DEF first
<1>3. /\ second \in Accounts
      /\ \A v \in Token, w \in Account :
           second[v][w] = first[v][w] - At(Asset(2), Vault, v, w, y)
  <2>1. first \in Accounts /\ Asset(2) \in Token /\ Vault \in Account
    BY <1>1, <1>2
  <2>2. QED
    BY ONLY <2>1, y \in Nat, DebitedEffect
<1> HIDE DEF second
<1>4. /\ Credited(second, cash, to, z) \in Accounts
      /\ \A v \in Token, w \in Account :
           Credited(second, cash, to, z)[v][w] = second[v][w] + At(cash, to, v, w, z)
  BY <1>3, CreditedEffect
<1>5. QED
  BY <1>2, <1>3, <1>4 DEF first, second, PaidOut

LEMMA RedeemStep ==
  ASSUME IInv, NEW c \in Account, NEW n \in Nat, NEW to \in Account, Redeem(c, n, to)
  PROVE  IInv' /\ (c # Vault => MarginsKept)
<1> DEFINE fee == FeeOn(n)
           charged == Minted(share, Vault, fee)
           cash == config.usdc
           paid == [i \in Slots |-> ReturnValue(i, AfterFee(n), charged.supply)]
           got == [i \in Slots |-> Sold(Asset(i), paid[i])]
           given(t) == (IF t = Asset(1) THEN paid[1] ELSE 0)
                         + (IF t = Asset(2) THEN paid[2] ELSE 0)
<1>1. /\ n <= share.balance[c] /\ n >= fee /\ CanMint(share, Vault, fee)
      /\ CanReturn(AfterFee(n), charged.supply)
      /\ \A t \in Token : given(t) <= token[t][Vault] /\ given(t) <= assetBalances[t]
      /\ share' = Burned(charged, c, n)
      /\ feeBalance' = feeBalance + fee
      /\ token' = Credited(Debited(Debited(token, Asset(1), Vault, paid[1]),
                                   Asset(2), Vault, paid[2]),
                           cash, to, got[1] + got[2])
      /\ assetBalances' = [t \in Token |-> assetBalances[t] - given(t)]
      /\ UNCHANGED <<allowance, totalUtilised, roles, settings, approved, world>>
  BY DEF Redeem
<1>2. /\ TypeOK /\ SoundLedger(share) /\ Vault \in Account /\ Vault \notin Token
      /\ cash \in Token /\ \A i \in Slots : Asset(i) \in Token
  BY Facts
<1>3. fee \in Nat
  BY <1>2, FeeType DEF TypeOK
<1>4. paid \in [Slots -> Nat]
  BY <1>1, ReturnType
<1>5. got[1] + got[2] \in Nat
  <2>1. \A i \in Slots : paid[i] \in Nat
    BY <1>4
  <2> HIDE DEF paid
  <2>2. \A i \in Slots : got[i] \in Nat
    BY <1>2, <2>1, TradeType
  <2> HIDE DEF got
  <2>3. got[1] \in Nat /\ got[2] \in Nat
    BY <2>2 DEF Slots
  <2>4. QED
    BY <2>3
<1>6. /\ SoundLedger(charged) /\ charged.supply = share.supply + fee
      /\ \A u \in Account : charged.balance[u]
                               = share.balance[u] + (IF u = Vault THEN fee ELSE 0)
  BY <1>1, <1>2, <1>3, MintedSound, MintedBalance DEF Minted
<1>7. initialized
  <2>1. share.supply + fee > 0
    BY <1>1, <1>6 DEF CanReturn, CanPrice
  <2>2. share.supply > 0
    BY <1>1, <1>2, <1>3, <2>1, HoldsAtMostSupply
  <2>3. QED
    BY <2>2, SupplyNeedsGate
<1> HIDE DEF fee, charged, paid, got
<1>8. SoundLedger(share') /\ \A u \in Account \ {c} : share'.balance[u] = charged.balance[u]
  <2>1. CanBurn(charged, c, n)
    BY <1>1, <1>2, <1>3, <1>6, HoldsAtMostSupply DEF CanBurn
  <2>2. SoundLedger(share')
    BY <1>1, <1>6, <2>1, BurnedSound
  <2>3. QED
    BY <1>1, <1>6, <2>2 DEF Burned, SoundLedger, Ledger, Balances
<1> DEFINE x == paid[1]
           y == paid[2]
           z == got[1] + got[2]
<1>9. x \in Nat /\ y \in Nat /\ z \in Nat
  BY <1>4, <1>5 DEF Slots
<1>10. \A t : given(t) = (IF t = Asset(1) THEN x ELSE 0) + (IF t = Asset(2) THEN y ELSE 0)
  OBVIOUS
<1>11. token' = PaidOut(cash, to, x, y, z)
  BY <1>1 DEF PaidOut
<1> HIDE DEF given, x, y, z
<1>12. /\ token' \in Accounts
       /\ \A v \in Token, w \in Account : token'[v][w]
            = ((token[v][w] - At(Asset(1), Vault, v, w, x))
                 - At(Asset(2), Vault, v, w, y)) + At(cash, to, v, w, z)
  <2> HIDE DEF cash
  <2>1. /\ PaidOut(cash, to, x, y, z) \in Accounts
        /\ \A v \in Token, w \in Account : PaidOut(cash, to, x, y, z)[v][w]
             = ((token[v][w] - At(Asset(1), Vault, v, w, x))
                  - At(Asset(2), Vault, v, w, y)) + At(cash, to, v, w, z)
    BY <1>2, <1>9, PaidOutEffect
  <2>2. QED
    BY <1>11, <2>1
<1>13. ASSUME NEW t \in Token
       PROVE  /\ token[t][Vault] \in Nat /\ assetBalances[t] \in Nat
              /\ given(t) \in Nat /\ given(t) <= token[t][Vault]
              /\ given(t) <= assetBalances[t]
              /\ assetBalances'[t] = assetBalances[t] - given(t)
  BY <1>1, <1>2, <1>9, <1>10 DEF TypeOK, Tokens
<1>14. token' \in Tokens
  <2> SUFFICES ASSUME NEW v \in Token, NEW w \in Account PROVE token'[v][w] >= 0
    BY <1>12, TokensAreAccounts
  <2>1. token[v][w] \in Nat
    BY <1>2 DEF TypeOK, Tokens
  <2>2. CASE w = Vault
    BY <1>9, <1>10, <1>12, <1>13, <2>1, <2>2 DEF At
  <2>3. CASE w # Vault
    BY <1>9, <1>12, <2>1, <2>3 DEF At
  <2>4. QED
    BY <2>2, <2>3
<1>15. assetBalances' \in [Token -> Nat]
  <2>1. \A t \in Token : assetBalances[t] - given(t) \in Nat
    BY <1>13
  <2>2. QED
    BY <1>1, <2>1
<1>16. IInv'
  <2>1. /\ allowance' \in Allowances /\ feeBalance' \in Nat
        /\ totalUtilised' \in [Token \cup {Vault} -> Nat]
    BY <1>1, <1>2, <1>3 DEF TypeOK
  <2>2. QED
    BY <1>1, <1>7, <1>8, <1>14, <1>15, <2>1, CallKeepsIInv
<1>17. ASSUME c # Vault
       PROVE  MarginsKept
  <2>1. \A t \in Token : token'[t][Vault] - assetBalances'[t]
                            >= token[t][Vault] - assetBalances[t]
    <3> SUFFICES ASSUME NEW t \in Token
                 PROVE  token'[t][Vault] - assetBalances'[t]
                          >= token[t][Vault] - assetBalances[t]
      OBVIOUS
    <3>1. token'[t][Vault] >= token[t][Vault] - given(t) /\ token'[t][Vault] \in Int
      BY <1>2, <1>9, <1>10, <1>12, <1>13 DEF At
    <3>2. QED
      BY <1>13, <3>1
  <2>2. share'.balance[Vault] \in Nat /\ share'.balance[Vault] >= share.balance[Vault] + fee
    BY <1>2, <1>3, <1>6, <1>8, <1>17, HoldsAtMostSupply
  <2>3. QED
    BY <1>1, <1>3, <1>14, <1>15, <2>1, <2>2, FeeStepKeepsMargins
<1>18. QED
  BY <1>16, <1>17

LEMMA HolderCallStep ==
  ASSUME IInv, NEW c \in Account, HolderCall(c)
  PROVE  /\ IInv'
         /\ \/ c = Vault \/ MarginsKept
            \/ \E to \in Receivers, n \in ShareAmounts : TransferFrom(c, Vault, to, n)
<1>1. ShareAmounts \subseteq Nat /\ Receivers \subseteq Account
  BY Facts
<1>2. ASSUME NEW n \in ShareAmounts, NEW to \in Receivers,
             Mint(c, n, to) \/ Redeem(c, n, to) \/ Transfer(c, to, n)
      PROVE  IInv' /\ (c = Vault \/ MarginsKept)
  BY <1>1, <1>2, MintStep, RedeemStep, TransferStep
<1>3. ASSUME NEW n \in ShareAmounts, NEW to \in Receivers, NEW holder \in Account,
             TransferFrom(c, holder, to, n)
      PROVE  IInv' /\ (holder # Vault => MarginsKept)
  BY <1>1, <1>3, TransferFromStep
<1>4. ASSUME NEW n \in ApprovalAmounts, NEW to \in Spenders, Approve(c, to, n)
      PROVE  IInv' /\ (c = Vault \/ MarginsKept)
  <2>1. n \in Uint /\ to \in Account
    BY BethAssumption
  <2>2. QED
    BY <1>4, <2>1, ApproveStep
<1>5. QED
  BY <1>2, <1>3, <1>4 DEF HolderCall

-----------------------------------------------------------------------------
(* The operator, the owner and the rest of the world.                      *)

\* A step that moves tokens and counts, and leaves the shares alone.
LEMMA FundsStep ==
  ASSUME IInv, UNCHANGED <<share, allowance, feeBalance, roles, settings, approved, world>>,
         token' \in Tokens, assetBalances' \in [Token -> Nat],
         totalUtilised' \in [Token \cup {Vault} -> Nat],
         initialized \/ UNCHANGED <<assetBalances, totalUtilised>>
  PROVE  /\ IInv'
         /\ (/\ totalUtilised'[Vault] = totalUtilised[Vault]
             /\ \A t \in Token : token'[t][Vault] + totalUtilised'[t] - assetBalances'[t]
                  >= token[t][Vault] + totalUtilised[t] - assetBalances[t])
            => MarginsKept
<1>1. TypeOK /\ SoundLedger(share) /\ Vault \notin Token /\ Vault \in Account
  BY Facts
<1>2. /\ SoundLedger(share') /\ allowance' \in Allowances /\ feeBalance' \in Nat
      /\ share'.supply = share.supply /\ feeBalance' <= feeBalance
  BY <1>1 DEF TypeOK
<1>3. IInv'
  BY <1>2, CallKeepsIInv
<1>4. share.balance[Vault] \in Nat /\ feeBalance \in Nat /\ totalUtilised[Vault] \in Nat
  BY <1>1, HoldsAtMostSupply DEF TypeOK
<1>5. QED
  BY <1>1, <1>3, <1>4, MarginsFrom

\* Tokens that are sent, seen from the vault.
LEMMA SentVault ==
  ASSUME TypeOK, NEW t \in Token, NEW from \in Account, NEW to \in Account,
         NEW n \in Nat, HasSent(t, from, n), token' = Sent(t, from, to, n)
  PROVE  /\ token' \in Tokens
         /\ \A v \in Token : /\ token[v][Vault] \in Nat
                             /\ token'[v][Vault] = token[v][Vault]
                                  - (IF v = t /\ from = Vault THEN n ELSE 0)
                                  + (IF v = t /\ to = Vault THEN n ELSE 0)
<1>1. Vault \in Account /\ token \in Tokens
  BY BethAssumption DEF TypeOK
<1>2. /\ token' \in Tokens
      /\ \A v \in Token, w \in Account : token'[v][w]
           = token[v][w] - At(t, from, v, w, n) + At(t, to, v, w, n)
  BY <1>1, SentEffect
<1>3. QED
  BY <1>1, <1>2 DEF At, Tokens

LEMMA OpWithdrawAssetsStep ==
  ASSUME IInv, NEW c, NEW t \in Token, NEW n \in Nat, NEW to \in Account,
         OpWithdrawAssets(c, t, n, to)
  PROVE  IInv' /\ MarginsKept
<1>1. TypeOK /\ Vault \in Account /\ Vault \notin Token
  BY Facts
<1>2. /\ initialized /\ HasSent(t, Vault, n) /\ token' = Sent(t, Vault, to, n)
      /\ totalUtilised' = [totalUtilised EXCEPT ![t] = @ + n]
      /\ UNCHANGED <<share, allowance, feeBalance, assetBalances, roles, settings,
                     approved, world>>
  BY DEF OpWithdrawAssets, isInitialized
<1>3. /\ totalUtilised' \in [Token \cup {Vault} -> Nat]
      /\ totalUtilised'[Vault] = totalUtilised[Vault]
      /\ \A v \in Token : totalUtilised'[v] = totalUtilised[v] + (IF v = t THEN n ELSE 0)
      /\ \A v \in Token : totalUtilised[v] \in Nat /\ assetBalances[v] \in Nat
  BY <1>1, <1>2 DEF TypeOK
<1>4. /\ token' \in Tokens
      /\ \A v \in Token : /\ token[v][Vault] \in Nat
                          /\ token'[v][Vault] >= token[v][Vault] - (IF v = t THEN n ELSE 0)
                          /\ token'[v][Vault] \in Int
  <2>1. /\ token' \in Tokens
        /\ \A v \in Token : /\ token[v][Vault] \in Nat
                            /\ token'[v][Vault] = token[v][Vault]
                                 - (IF v = t /\ Vault = Vault THEN n ELSE 0)
                                 + (IF v = t /\ to = Vault THEN n ELSE 0)
    BY <1>1, <1>2, SentVault
  <2>2. QED
    BY <2>1
<1>5. assetBalances' \in [Token -> Nat]
  BY <1>1, <1>2 DEF TypeOK
<1>6. IInv'
  BY <1>2, <1>3, <1>4, <1>5, FundsStep
<1>7. \A v \in Token : token'[v][Vault] + totalUtilised'[v] - assetBalances'[v]
                          >= token[v][Vault] + totalUtilised[v] - assetBalances[v]
  BY <1>2, <1>3, <1>4
<1>8. QED
  BY <1>2, <1>3, <1>4, <1>5, <1>6, <1>7, FundsStep

\* The operator's calls on the vault's own shares.
LEMMA OpSharesStep ==
  ASSUME IInv, NEW c, NEW n \in Nat, NEW to \in Account,
         OpWithdrawShares(c, n, to) \/ WithdrawFee(c, n, to)
  PROVE  IInv' /\ MarginsKept
<1>1. TypeOK /\ SoundLedger(share) /\ Vault \in Account /\ Vault \notin Token
  BY Facts
<1>2. /\ CanMove(share, Vault, to, n) /\ share' = Moved(share, Vault, to, n)
      /\ UNCHANGED <<allowance, token, assetBalances, roles, settings, approved, world>>
      /\ \/ /\ initialized /\ totalUtilised' = [totalUtilised EXCEPT ![Vault] = @ + n]
            /\ feeBalance' = feeBalance
         \/ /\ totalUtilised' = totalUtilised
            /\ feeBalance >= n /\ feeBalance' = feeBalance - n
  BY DEF OpWithdrawShares, WithdrawFee, isInitialized, funds
<1>3. /\ SoundLedger(share') /\ share'.supply = share.supply
      /\ share'.balance[Vault] >= share.balance[Vault] - n
  BY <1>1, <1>2, MovedSound
<1>4. share.balance[Vault] \in Nat /\ share'.balance[Vault] \in Nat
  BY <1>1, <1>3, FixedPointAssumption DEF SoundLedger, Ledger, Balances, Uint
<1>5. /\ totalUtilised \in [Token \cup {Vault} -> Nat]
      /\ totalUtilised' \in [Token \cup {Vault} -> Nat]
      /\ \A t \in Token : totalUtilised'[t] = totalUtilised[t]
      /\ feeBalance \in Nat /\ feeBalance' \in Nat
      /\ totalUtilised'[Vault] - feeBalance' = totalUtilised[Vault] - feeBalance + n
  BY <1>1, <1>2 DEF TypeOK
<1>6. /\ token' \in Tokens /\ assetBalances' \in [Token -> Nat] /\ allowance' \in Allowances
      /\ \A t \in Token : token[t][Vault] \in Nat /\ assetBalances[t] \in Nat
  BY <1>1, <1>2 DEF TypeOK, Tokens
<1>7. \/ initialized
      \/ UNCHANGED <<assetBalances, totalUtilised>> /\ feeBalance' <= feeBalance
  BY <1>2, <1>5
<1>8. IInv'
  BY <1>2, <1>3, <1>5, <1>6, <1>7, CallKeepsIInv
<1>9. /\ totalUtilised[Vault] \in Nat /\ totalUtilised'[Vault] \in Nat
      /\ \A t \in Token : totalUtilised[t] \in Nat
  BY <1>5
<1>10. MarginsKept
  BY <1>1, <1>2, <1>3, <1>4, <1>5, <1>6, <1>9, MarginsFrom
<1>11. QED
  BY <1>8, <1>10

\* What the operator brings back was taken out before, or is new and booked.
LEMMA OpDepositStep ==
  ASSUME IInv, NEW c, NEW t \in Token, NEW n \in Nat, NEW from \in User,
         OpDepositAssets(c, t, n, from) \/ OpDepositYield(c, t, n, from)
  PROVE  IInv' /\ MarginsKept
<1>1. TypeOK /\ Vault \in Account /\ Vault \notin Token /\ from \in Account /\ from # Vault
  BY Facts
<1>2. /\ initialized /\ HasSent(t, from, n) /\ token' = Sent(t, from, Vault, n)
      /\ UNCHANGED <<share, allowance, feeBalance, roles, settings, approved, world>>
      /\ \/ /\ totalUtilised[t] >= n /\ totalUtilised' = [totalUtilised EXCEPT ![t] = @ - n]
            /\ assetBalances' = assetBalances
         \/ /\ totalUtilised' = totalUtilised
            /\ assetBalances' = [assetBalances EXCEPT ![t] = @ + n]
  BY DEF OpDepositAssets, OpDepositYield, isInitialized
<1>3. /\ totalUtilised' \in [Token \cup {Vault} -> Nat]
      /\ assetBalances' \in [Token -> Nat]
      /\ totalUtilised'[Vault] = totalUtilised[Vault]
      /\ \A v \in Token : /\ totalUtilised[v] \in Nat /\ assetBalances[v] \in Nat
                          /\ totalUtilised'[v] - assetBalances'[v]
                               = totalUtilised[v] - assetBalances[v] - (IF v = t THEN n ELSE 0)
  BY <1>1, <1>2 DEF TypeOK
<1>4. /\ token' \in Tokens
      /\ \A v \in Token : /\ token[v][Vault] \in Nat
                          /\ token'[v][Vault] = token[v][Vault] + (IF v = t THEN n ELSE 0)
  <2>1. /\ token' \in Tokens
        /\ \A v \in Token : /\ token[v][Vault] \in Nat
                            /\ token'[v][Vault] = token[v][Vault]
                                 - (IF v = t /\ from = Vault THEN n ELSE 0)
                                 + (IF v = t /\ Vault = Vault THEN n ELSE 0)
    BY <1>1, <1>2, SentVault
  <2>2. QED
    BY <1>1, <2>1
<1>5. \A v \in Token : token'[v][Vault] + totalUtilised'[v] - assetBalances'[v]
                          >= token[v][Vault] + totalUtilised[v] - assetBalances[v]
  <2> SUFFICES ASSUME NEW v \in Token
               PROVE  token'[v][Vault] + totalUtilised'[v] - assetBalances'[v]
                        >= token[v][Vault] + totalUtilised[v] - assetBalances[v]
    OBVIOUS
  <2>1. totalUtilised'[v] \in Nat /\ assetBalances'[v] \in Nat
    BY <1>3
  <2>2. QED
    BY <1>3, <1>4, <2>1
<1>6. QED
  BY <1>2, <1>3, <1>4, <1>5, FundsStep

LEMMA OpCallStep ==
  ASSUME IInv, NEW c \in User, OpCall(c)
  PROVE  IInv' /\ MarginsKept
<1>1. OpAmounts \subseteq Nat /\ OpShareAmounts \subseteq Nat /\ Receivers \subseteq Account
  BY Facts
<1>2. QED
  BY <1>1, OpWithdrawAssetsStep, OpSharesStep, OpDepositStep DEF OpCall

\* initialize books what it takes in, and mints for it.
LEMMA InitializeStep ==
  ASSUME IInv, NEW c \in User, NEW to \in Account, NEW n \in Nat,
         NEW seed \in [Slots -> Nat], Initialize(c, to, n, seed)
  PROVE  IInv' /\ MarginsKept
<1> DEFINE x == seed[1]
           y == seed[2]
           first == Debited(token, Asset(1), c, x)
           second == Debited(first, Asset(2), c, y)
<1>1. /\ TypeOK /\ SoundLedger(share) /\ Vault \in Account /\ Vault \notin Token
      /\ c \in Account /\ c # Vault /\ Asset(1) \in Token /\ Asset(2) \in Token
  BY Facts DEF Slots
<1>2. /\ IF Asset(1) = Asset(2) THEN HasSent(Asset(1), c, x + y)
         ELSE HasSent(Asset(1), c, x) /\ HasSent(Asset(2), c, y)
      /\ CanMint(share, to, n)
      /\ token' = Gained(second, seed)
      /\ assetBalances' = Booked(seed)
      /\ share' = Minted(share, to, n)
      /\ initialized' = TRUE
      /\ UNCHANGED <<allowance, feeBalance, totalUtilised, owner, operator, settings,
                     approved, world>>
  BY DEF Initialize, Slots
<1>3. x \in Nat /\ y \in Nat /\ token \in Accounts
  BY <1>1, TokensAreAccounts DEF Slots, TypeOK
<1>4. \A v, w : /\ At(Asset(1), Vault, v, w, seed[1]) = At(Asset(1), Vault, v, w, x)
                /\ At(Asset(2), Vault, v, w, seed[2]) = At(Asset(2), Vault, v, w, y)
  OBVIOUS
<1>5. /\ assetBalances' \in [Token -> Nat]
      /\ \A t \in Token : assetBalances'[t] = assetBalances[t]
             + (IF t = Asset(1) THEN x ELSE 0) + (IF t = Asset(2) THEN y ELSE 0)
  BY <1>1, <1>2, BookedEffect
<1> HIDE DEF x, y
<1>5a. /\ x \in Int /\ y \in Int /\ c \in Account /\ token \in Accounts
        /\ Asset(1) \in Token /\ Asset(2) \in Token
  BY <1>1, <1>3
<1>6. /\ first \in Accounts
      /\ \A v \in Token, w \in Account :
           first[v][w] = token[v][w] - At(Asset(1), c, v, w, x)
  BY <1>5a, DebitedEffect
<1> HIDE DEF first
<1>7. /\ second \in Accounts
      /\ \A v \in Token, w \in Account :
           second[v][w] = first[v][w] - At(Asset(2), c, v, w, y)
  <2>1. first \in Accounts
    BY <1>6
  <2>2. y \in Int /\ c \in Account /\ Asset(2) \in Token
    BY <1>5a
  <2>3. QED
    BY <2>1, <2>2, DebitedEffect
<1> HIDE DEF second
<1>8. /\ token' \in Accounts
      /\ \A v \in Token, w \in Account : token'[v][w] = second[v][w]
           + At(Asset(1), Vault, v, w, x) + At(Asset(2), Vault, v, w, y)
  BY <1>1, <1>2, <1>4, <1>7, GainedEffect
<1>9. token' \in Tokens
  <2> SUFFICES ASSUME NEW v \in Token, NEW w \in Account PROVE token'[v][w] >= 0
    BY <1>8, TokensAreAccounts
  <2>1. token[v][w] \in Nat
    BY <1>1 DEF TypeOK, Tokens
  <2>2. QED
    BY <1>1, <1>2, <1>3, <1>6, <1>7, <1>8, <2>1 DEF At, HasSent
<1>10. \A t \in Token : token'[t][Vault] - assetBalances'[t]
                           = token[t][Vault] - assetBalances[t]
  <2> SUFFICES ASSUME NEW t \in Token
               PROVE  token'[t][Vault] - assetBalances'[t] = token[t][Vault] - assetBalances[t]
    OBVIOUS
  <2>1. token[t][Vault] \in Nat /\ assetBalances[t] \in Nat
    BY <1>1 DEF TypeOK, Tokens
  <2>2. second[t][Vault] = token[t][Vault]
    BY <1>1, <1>3, <1>6, <1>7, <2>1 DEF At
  <2>3. QED
    BY <1>1, <1>3, <1>5, <1>8, <2>1, <2>2 DEF At
<1>11. SoundLedger(share') /\ share'.balance[Vault] >= share.balance[Vault]
  BY <1>1, <1>2, MintedSound
<1>12. MarginsKept
  <2>1. share.balance[Vault] \in Nat /\ share'.balance[Vault] \in Nat
    BY <1>1, <1>11, FixedPointAssumption DEF SoundLedger, Ledger, Balances, Uint
  <2>2. feeBalance \in Nat /\ feeBalance' = feeBalance + 0
    BY <1>1, <1>2 DEF TypeOK
  <2>3. share'.balance[Vault] >= share.balance[Vault] + 0
    BY <1>11, <2>1
  <2>4. \A t \in Token : token'[t][Vault] - assetBalances'[t]
                            >= token[t][Vault] - assetBalances[t]
    <3> SUFFICES ASSUME NEW t \in Token
                 PROVE  token'[t][Vault] - assetBalances'[t]
                          >= token[t][Vault] - assetBalances[t]
      OBVIOUS
    <3>1. token[t][Vault] \in Nat /\ assetBalances[t] \in Nat
      BY <1>1 DEF TypeOK, Tokens
    <3>2. QED
      BY <1>10, <3>1
  <2>5. QED
    BY <1>2, <1>5, <1>9, <2>1, <2>2, <2>3, <2>4, FeeStepKeepsMargins
<1>13. TypeOK'
  BY <1>1, <1>2, <1>5, <1>9, <1>11 DEF TypeOK, SoundLedger, settings, world
<1>14. QED
  BY <1>2, <1>11, <1>12, <1>13 DEF IInv, SupplyIsSum, SoundLedger, NothingBeforeInit

\* The owner's settings, the roles, the approvals and the market: no share, no
\* token and no booking moves.
LEMMA SettingStep ==
  ASSUME IInv, UNCHANGED <<share, allowance, feeBalance, funds, initialized>>, TypeOK',
         initialized \/ UNCHANGED approved
  PROVE  IInv' /\ MarginsKept
<1>1. TypeOK /\ SoundLedger(share) /\ Vault \in Account /\ Vault \notin Token
  BY Facts
<1>2. IInv'
  BY DEF IInv, SupplyIsSum, NothingBeforeInit, funds
<1>3. /\ share.balance[Vault] \in Nat /\ feeBalance \in Nat /\ totalUtilised[Vault] \in Nat
      /\ \A t \in Token : /\ token[t][Vault] \in Nat /\ assetBalances[t] \in Nat
                          /\ totalUtilised[t] \in Nat
  BY <1>1, HoldsAtMostSupply DEF TypeOK, Tokens
<1>4. MarginsKept
  BY <1>1, <1>3, MarginsFrom DEF funds
<1>5. QED
  BY <1>2, <1>4

\* A token of the vault sent away by nobody's books.
LEMMA SendTokenStep ==
  ASSUME IInv, NEW t \in Token, NEW to \in Account, NEW n \in Nat, SendToken(t, to, n)
  PROVE  IInv'
<1>1. TypeOK /\ Vault \in Account
  BY Facts
<1>2. token' \in Tokens
  BY <1>1, SentVault DEF SendToken
<1>3. assetBalances' \in [Token -> Nat] /\ totalUtilised' \in [Token \cup {Vault} -> Nat]
  BY <1>1 DEF SendToken, TypeOK
<1>4. /\ UNCHANGED <<share, allowance, feeBalance, roles, settings, approved, world>>
      /\ UNCHANGED <<assetBalances, totalUtilised>>
  BY DEF SendToken
<1>5. QED
  BY <1>2, <1>3, <1>4, FundsStep

LEMMA ExecuteStep ==
  ASSUME IInv, NEW c \in User, Execute(c)
  PROVE  IInv'
<1>1. /\ TypeOK /\ initialized /\ Vault \in Account /\ OpAmounts \subseteq Nat
      /\ ExecTargets \subseteq Account
  BY Facts DEF Execute, isInitialized
<1>2. ASSUME NEW t \in Token, NEW to \in ExecTargets,
             SetApproval(approved \cup {<<t, to>>}) \/ SetApproval(approved \ {<<t, to>>})
      PROVE  IInv'
  <2>1. approved' \subseteq Token \X Account
    BY <1>1, <1>2 DEF SetApproval, TypeOK
  <2>2. TypeOK'
    BY <1>1, <1>2, <2>1 DEF SetApproval, TypeOK, funds, roles, settings, world
  <2>3. QED
    BY <1>1, <1>2, <2>2, SettingStep DEF SetApproval, roles
<1>3. ASSUME NEW t \in Token, NEW to \in ExecTargets, NEW n \in OpAmounts,
             SendToken(t, to, n)
      PROVE  IInv'
  BY <1>1, <1>3, SendTokenStep
<1>4. ASSUME HolderCall(Vault)
      PROVE  IInv'
  BY <1>1, <1>4, HolderCallStep
<1>5. QED
  BY <1>2, <1>3, <1>4 DEF Execute

LEMMA OwnerCallStep ==
  ASSUME IInv, NEW c \in User, OwnerCall(c)
  PROVE  IInv' /\ (MarginsKept \/ Execute(c))
<1>1. /\ TypeOK /\ Receivers \subseteq Account /\ SeedShares \subseteq Nat
      /\ SeedAssets \subseteq [Slots -> Nat]
  BY Facts, BethAssumption, FixedPointAssumption DEF Uint
<1>2. ASSUME NEW to \in Receivers, NEW n \in SeedShares, NEW seed \in SeedAssets,
             Initialize(c, to, n, seed)
      PROVE  IInv' /\ MarginsKept
  BY <1>1, <1>2, InitializeStep
<1>3. ASSUME \/ \E cfg \in Configs : ChangeStates(c, cfg)
             \/ \E x \in Slippages : SetSlippage(c, x)
             \/ \E x \in Fees : SetFee(c, x)
             \/ \E to \in RoleTargets : SetOperator(c, to) \/ TransferOwnership(c, to)
             \/ RenounceOwnership(c)
      PROVE  IInv' /\ MarginsKept
  <2>1. UNCHANGED <<share, allowance, feeBalance, funds, initialized, approved, world>>
    BY <1>3 DEF ChangeStates, SetSlippage, SetFee, SetOperator, TransferOwnership,
                RenounceOwnership, roles, settings
  <2>2. /\ owner' \in Account \cup {Zero} /\ operator' \in Account \cup {Zero}
        /\ slippage' \in Nat /\ txFee' \in Nat /\ config' \in ConfigType
    BY <1>1, <1>3, BethAssumption
       DEF ChangeStates, SetSlippage, SetFee, SetOperator, TransferOwnership,
           RenounceOwnership, roles, settings, TypeOK, User
  <2>3. TypeOK'
    BY <1>1, <2>1, <2>2 DEF TypeOK, funds, world
  <2>4. QED
    BY <2>1, <2>3, SettingStep
<1>4. QED
  BY <1>2, <1>3, ExecuteStep DEF OwnerCall

LEMMA OutsideStep ==
  ASSUME IInv, Outside
  PROVE  /\ IInv'
         /\ \/ MarginsKept
            \/ \E pair \in approved, to \in User, n \in OpAmounts :
                 SpendToken(pair[2], pair[1], to, n)
<1>1. /\ TypeOK /\ OpAmounts \subseteq Nat /\ User \subseteq Account /\ Vault \in Account
      /\ Vault \notin User
  BY Facts
<1>2. ASSUME NEW pair \in approved, NEW to \in User, NEW n \in OpAmounts,
             SpendToken(pair[2], pair[1], to, n)
      PROVE  IInv'
  <2>1. pair[1] \in Token
    BY <1>1 DEF TypeOK
  <2>2. QED
    BY <1>1, <1>2, <2>1, SendTokenStep DEF SpendToken
<1>3. ASSUME NEW c \in User, NEW t \in Token, NEW n \in OpAmounts, Donate(c, t, n)
      PROVE  IInv' /\ MarginsKept
  <2>1. /\ HasSent(t, c, n) /\ token' = Sent(t, c, Vault, n)
        /\ UNCHANGED <<share, allowance, feeBalance, roles, settings, approved, world>>
        /\ UNCHANGED <<assetBalances, totalUtilised>>
    BY <1>3 DEF Donate
  <2>2. /\ token' \in Tokens
        /\ \A v \in Token : token[v][Vault] \in Nat /\ token'[v][Vault] \in Int
                            /\ token'[v][Vault] >= token[v][Vault]
    <3>1. /\ token' \in Tokens
          /\ \A v \in Token : /\ token[v][Vault] \in Nat
                              /\ token'[v][Vault] = token[v][Vault]
                                   - (IF v = t /\ c = Vault THEN n ELSE 0)
                                   + (IF v = t /\ Vault = Vault THEN n ELSE 0)
      BY <1>1, <2>1, SentVault
    <3>2. QED
      BY <1>1, <3>1
  <2>3. /\ assetBalances' \in [Token -> Nat]
        /\ totalUtilised' \in [Token \cup {Vault} -> Nat]
        /\ \A v \in Token : assetBalances[v] \in Nat /\ totalUtilised[v] \in Nat
    BY <1>1, <2>1 DEF TypeOK
  <2>4. \A v \in Token : token'[v][Vault] + totalUtilised'[v] - assetBalances'[v]
                            >= token[v][Vault] + totalUtilised[v] - assetBalances[v]
    BY <2>1, <2>2, <2>3
  <2>5. QED
    BY <2>1, <2>2, <2>3, <2>4, FundsStep
<1>4. ASSUME \/ \E o \in Oracle, price \in Quotes : Feed(o, price)
             \/ \E t \in Token, price \in Markets : Trade(t, price)
             \/ \E t \in DryPools : Drain(t)
      PROVE  IInv' /\ MarginsKept
  <2>1. UNCHANGED <<share, allowance, feeBalance, funds, roles, settings, approved>>
    BY <1>4 DEF Feed, Trade, Drain
  <2>2. /\ quote' \in [Oracle -> Int] /\ market' \in [Token -> Nat \ {0}]
        /\ dry' \subseteq Token
    BY <1>1, <1>4, BethAssumption DEF Feed, Trade, Drain, TypeOK
  <2>3. TypeOK' /\ UNCHANGED <<initialized, approved>>
    BY <1>1, <2>1, <2>2 DEF TypeOK, funds, roles, settings
  <2>4. QED
    BY <2>1, <2>3, SettingStep
<1>5. QED
  BY <1>2, <1>3, <1>4 DEF Outside

-----------------------------------------------------------------------------
(* The invariant and the books.                                            *)

LEMMA InitIInv == Init => IInv
<1> SUFFICES ASSUME Init PROVE IInv
  OBVIOUS
<1>1. SoundLedger(share)
  BY EmptySound DEF Init
<1>2. allowance \in Allowances
  BY FixedPointAssumption DEF Init, NoAllowances, Allowances, Uint
<1>3. Deployer \in Account
  BY BethAssumption DEF User
<1>4. TypeOK
  BY <1>1, <1>2, <1>3, BethAssumption DEF Init, TypeOK, SoundLedger
<1>5. QED
  BY <1>1, <1>4 DEF Init, IInv, SupplyIsSum, SoundLedger, NothingBeforeInit, EmptyLedger

LEMMA StepIInv ==
  ASSUME IInv, [Next]_vars
  PROVE  IInv' /\ (UNCHANGED vars \/ MarginsKept \/ OwnersDoing)
<1>1. CASE UNCHANGED vars
  BY <1>1 DEF IInv, TypeOK, SupplyIsSum, NothingBeforeInit,
              vars, funds, roles, settings, world
<1>2. User \subseteq Account /\ Vault \notin User
  BY Facts
<1>3. ASSUME NEW c \in User, HolderCall(c) \/ OpCall(c) \/ OwnerCall(c)
      PROVE  IInv' /\ (MarginsKept \/ OwnersDoing)
  BY <1>2, <1>3, HolderCallStep, OpCallStep, OwnerCallStep DEF OwnersDoing
<1>4. ASSUME Outside
      PROVE  IInv' /\ (MarginsKept \/ OwnersDoing)
  BY <1>4, OutsideStep DEF OwnersDoing
<1>5. QED
  BY <1>1, <1>3, <1>4 DEF Next

\* In every reachable state the state is well typed, the shares sum up, and
\* nothing was issued, booked or approved before initialize.
THEOREM Safety == Spec => []IInv
<1>1. IInv /\ [Next]_vars => IInv'
  BY StepIInv
<1>2. QED
  BY <1>1, InitIInv, PTL DEF Spec

\* Every share amount fits its Solidity type, and no token balance, booking or
\* count of the operator ever falls below zero.
THEOREM TypeCorrect == Spec => []TypeOK
<1>1. IInv => TypeOK
  BY DEF IInv
<1>2. QED
  BY <1>1, Safety, PTL

\* mint and redeem are not gated, and yet nothing is issued, booked or charged
\* before initialize.
THEOREM NothingIssuedBeforeInit == Spec => []NothingBeforeInit
<1>1. IInv => NothingBeforeInit
  BY DEF IInv
<1>2. QED
  BY <1>1, Safety, PTL

\* Whatever is booked stays covered by what the vault holds and what its operator
\* owes, in every step that is not the owner's execute or a spender's of his.
THEOREM BooksAreBacked == Spec => BackingKept
<1>1. IInv /\ [Next]_vars =>
        [(\A t \in Token \cup {Vault} : Margin(t)' >= Margin(t)) \/ OwnersDoing]_vars
  BY StepIInv DEF MarginsKept
<1>2. QED
  BY <1>1, Safety, PTL DEF Spec, BackingKept

-----------------------------------------------------------------------------
(* The price of a share.  A redeem of n shares after the fee pays p of an  *)
(* asset with price P and unit U, of which it holds a; X is the price per  *)
(* share at the supply S, W the worth of what is booked.                   *)

\* Twice what is paid of one asset is no more than n shares' price.
LEMMA HalfIsCovered ==
  ASSUME NEW X \in Nat, NEW P \in Nat \ {0}, NEW U \in Nat \ {0}, NEW scale \in Nat \ {0},
         NEW n \in Nat, NEW x \in Nat, 2 * x <= X, NEW half \in Nat, NEW q \in Nat,
         NEW p \in Nat, NEW unit, unit = U * scale, half * P <= x * unit, q * scale <= half,
         p * ShareUnit <= q * n
  PROVE  2 * ShareUnit * (p * P) <= X * U * n
<1>1. ShareUnit \in Nat \ {0}
  BY BethAssumption
<1>2. (q * scale) * P <= half * P
  BY MulMono
<1>3. (q * P) * scale <= (x * U) * scale
  BY <1>2
<1>4. q * P <= x * U
  <2> DEFINE l == q * P
             r == x * U
  <2>1. l \in Int /\ r \in Int /\ l * scale <= r * scale
    BY <1>3
  <2> HIDE DEF l, r
  <2>2. l <= r
    BY <2>1, MulCancel
  <2>3. QED
    BY <2>2 DEF l, r
<1>5. (2 * x) * U <= X * U
  BY MulMono
<1>6. 2 * (q * P) <= X * U
  BY <1>4, <1>5
<1>7. (2 * (q * P)) * n <= (X * U) * n
  BY <1>6, MulMono
<1>8. (p * ShareUnit) * (2 * P) <= (q * n) * (2 * P)
  <2> DEFINE l == p * ShareUnit
             r == q * n
             k == 2 * P
  <2>1. l \in Int /\ r \in Int /\ k \in Nat /\ l <= r
    BY <1>1
  <2> HIDE DEF l, r, k
  <2>2. l * k <= r * k
    BY <2>1, MulMono
  <2>3. QED
    BY <2>2 DEF l, r, k
<1>9. QED
  BY <1>1, <1>7, <1>8

\* Both halves together are no more than n shares' part of the whole.
LEMMA PayoutIsCovered ==
  ASSUME NEW X \in Nat, NEW n \in Nat, NEW S \in Nat,
         NEW U1 \in Nat, NEW U2 \in Nat, NEW d1 \in Nat, NEW d2 \in Nat,
         NEW w1 \in Nat, NEW w2 \in Nat, NEW v1 \in Nat, NEW v2 \in Nat,
         2 * ShareUnit * d1 <= X * U1 * n, 2 * ShareUnit * d2 <= X * U2 * n,
         X * S <= (v1 + v2) * ShareUnit, v1 * U1 <= w1, v2 * U2 <= w2
  PROVE  (d1 * U2 + d2 * U1) * S <= (w1 * U2 + w2 * U1) * n
<1> DEFINE D == d1 * U2 + d2 * U1
           W == w1 * U2 + w2 * U1
           TA == v1 + v2
           UU == U1 * U2
<1>1. ShareUnit \in Nat \ {0}
  BY BethAssumption
<1>2. D \in Nat /\ W \in Nat /\ TA \in Nat /\ UU \in Nat
  OBVIOUS
<1>3. ShareUnit * D <= X * UU * n
  <2>1. (2 * ShareUnit * d1) * U2 <= (X * U1 * n) * U2
    <3> DEFINE l == 2 * ShareUnit * d1
               r == X * U1 * n
    <3>1. l \in Int /\ r \in Int /\ l <= r
      BY <1>1
    <3> HIDE DEF l, r
    <3>2. QED
      BY <3>1, MulMono DEF l, r
  <2>2. (2 * ShareUnit * d2) * U1 <= (X * U2 * n) * U1
    <3> DEFINE l == 2 * ShareUnit * d2
               r == X * U2 * n
    <3>1. l \in Int /\ r \in Int /\ l <= r
      BY <1>1
    <3> HIDE DEF l, r
    <3>2. QED
      BY <3>1, MulMono DEF l, r
  <2>3. QED
    BY <1>1, <2>1, <2>2
<1>4. TA * UU <= W
  <2>1. (v1 * U1) * U2 <= w1 * U2
    BY MulMono
  <2>2. (v2 * U2) * U1 <= w2 * U1
    BY MulMono
  <2>3. QED
    BY <2>1, <2>2
<1>5. X * S <= TA * ShareUnit
  OBVIOUS
<1> HIDE DEF D, W, TA, UU
<1>6. (ShareUnit * D) * S <= (X * UU * n) * S
  <2> DEFINE l == ShareUnit * D
             r == X * UU * n
  <2>1. l \in Int /\ r \in Int /\ l <= r
    BY <1>1, <1>2, <1>3
  <2> HIDE DEF l, r
  <2>2. QED
    BY <2>1, MulMono DEF l, r
<1>7. (X * S) * (UU * n) <= (TA * ShareUnit) * (UU * n)
  <2> DEFINE l == X * S
             r == TA * ShareUnit
             k == UU * n
  <2>1. l \in Int /\ r \in Int /\ k \in Nat /\ l <= r
    BY <1>1, <1>2, <1>5
  <2> HIDE DEF l, r, k
  <2>2. QED
    BY <2>1, MulMono DEF l, r, k
<1>8. (TA * UU) * n <= W * n
  <2> DEFINE l == TA * UU
  <2>1. l \in Int
    BY <1>2
  <2>2. l <= W
    BY <1>4
  <2> HIDE DEF l
  <2>3. QED
    BY <1>2, <2>1, <2>2, MulMono DEF l
<1>9. ((TA * UU) * n) * ShareUnit <= (W * n) * ShareUnit
  <2> DEFINE l == (TA * UU) * n
             r == W * n
  <2>1. l \in Int /\ r \in Int /\ l <= r
    BY <1>2, <1>8
  <2> HIDE DEF l, r
  <2>2. QED
    BY <1>1, <2>1, MulMono DEF l, r
<1>10. (D * S) * ShareUnit <= (W * n) * ShareUnit
  BY <1>1, <1>2, <1>6, <1>7, <1>9
<1>11. D * S <= W * n
  <2> DEFINE l == D * S
             r == W * n
  <2>1. l \in Int /\ r \in Int /\ l * ShareUnit <= r * ShareUnit
    BY <1>2, <1>10
  <2> HIDE DEF l, r
  <2>2. l <= r
    BY <1>1, <2>1, MulCancel
  <2>3. QED
    BY <2>2 DEF l, r
<1>12. QED
  BY <1>11 DEF D, W

\* The price of a share, a value, a half and what of it is paid, as roundings.
LEMMA ValueBounds ==
  ASSUME TypeOK, CanValue, NEW i \in Slots
  PROVE  /\ ValueOf(i) \in Nat /\ Price(i) \in Nat
         /\ ValueOf(i) * config.units[i] <= Price(i) * assetBalances[Asset(i)]
<1> DEFINE w == Price(i) * assetBalances[Asset(i)]
           u == config.units[i]
<1>1. /\ w \in Nat /\ u \in Nat \ {0} /\ Price(i) \in Nat
  BY FixedPointAssumption DEF CanValue, Fits, Uint, TypeOK, ConfigType, Price
<1>2. ValueOf(i) = w \div u
  BY DEF ValueOf
<1> HIDE DEF w, u
<1>3. w \div u \in Nat /\ (w \div u) * u <= w
  BY <1>1, DivBounds
<1>4. QED
  BY <1>1, <1>2, <1>3 DEF w, u

LEMMA SharePriceBounds ==
  ASSUME TypeOK, CanValue, NEW S \in Nat \ {0}
  PROVE  /\ PricePerShare(S) \in Nat
         /\ PricePerShare(S) * S <= TotalAssets * ShareUnit
<1> DEFINE w == TotalAssets * ShareUnit
<1>1. w \in Nat
  BY FixedPointAssumption DEF CanValue, Fits, Uint
<1>2. PricePerShare(S) = w \div S
  BY DEF PricePerShare
<1> HIDE DEF w
<1>3. w \div S \in Nat /\ (w \div S) * S <= w
  BY <1>1, DivBounds
<1>4. QED
  BY <1>2, <1>3 DEF w

LEMMA PaidBounds ==
  ASSUME TypeOK, NEW n \in Nat, NEW S \in Nat \ {0}, CanReturn(n, S), NEW i \in Slots
  PROVE  /\ Half(i, S) \in Nat /\ PerShare(i, S) \in Nat /\ ReturnValue(i, n, S) \in Nat
         /\ Price(i) \in Nat \ {0}
         /\ Half(i, S) * Price(i) <= (PricePerShare(S) \div 2) * PriceUnit
         /\ PerShare(i, S) * (IF i = 1 THEN BtcScale ELSE 1) <= Half(i, S)
         /\ ReturnValue(i, n, S) * ShareUnit <= PerShare(i, S) * n
<1> DEFINE h == Half(i, S)
           v == (PricePerShare(S) \div 2) * PriceUnit
<1>1. /\ CanValue /\ Price(i) \in Nat \ {0} /\ v \in Nat /\ Slip(h) <= h
      /\ PerShare(i, S) * n \in Nat
  BY FixedPointAssumption
     DEF CanReturn, CanPrice, Fits, Uint, TypeOK, ConfigType, Price
<1>2. h = v \div Price(i)
  BY DEF Half
<1> HIDE DEF v, h
<1>3. h \in Nat /\ h * Price(i) <= v
  BY <1>1, <1>2, DivBounds
<1>4. Slip(h) \in Nat
  <2>1. h \div Permille \in Nat
    BY <1>3, QuotientType, BethAssumption
  <2>2. QED
    BY <2>1, ProductType DEF Slip, TypeOK
<1>5. PerShare(i, S) = IF i = 1 THEN (h - Slip(h)) \div BtcScale ELSE h - Slip(h)
  BY DEF PerShare, Scaled, h
<1>6. /\ PerShare(i, S) \in Nat
      /\ PerShare(i, S) * (IF i = 1 THEN BtcScale ELSE 1) <= h
  <2> DEFINE r == h - Slip(h)
  <2>1. r \in Nat /\ r <= h
    BY <1>1, <1>3, <1>4
  <2>2. PerShare(i, S) = IF i = 1 THEN r \div BtcScale ELSE r
    BY <1>5
  <2> HIDE DEF r
  <2>3. r \div BtcScale \in Nat /\ (r \div BtcScale) * BtcScale <= r
    BY <2>1, DivBounds, BethAssumption
  <2>4. QED
    BY <1>3, <2>1, <2>2, <2>3, BethAssumption
<1>7. /\ ReturnValue(i, n, S) \in Nat
      /\ ReturnValue(i, n, S) * ShareUnit <= PerShare(i, S) * n
  <2> DEFINE w == PerShare(i, S) * n
  <2>1. w \in Nat
    BY <1>1
  <2>2. ReturnValue(i, n, S) = w \div ShareUnit
    BY DEF ReturnValue
  <2> HIDE DEF w
  <2>3. w \div ShareUnit \in Nat /\ (w \div ShareUnit) * ShareUnit <= w
    BY <2>1, DivBounds, BethAssumption
  <2>4. QED
    BY <2>2, <2>3 DEF w
<1>8. QED
  BY <1>1, <1>3, <1>6, <1>7 DEF h, v

\* A redeem of n shares, after the fee, from a vault with S shares in all.
LEMMA PayoutBounds ==
  ASSUME TypeOK, WellConfigured, NEW n \in Nat, NEW S \in Nat \ {0}, CanReturn(n, S)
  PROVE  /\ ReturnValue(1, n, S) \in Nat /\ ReturnValue(2, n, S) \in Nat
         /\ Price(1) \in Nat /\ Price(2) \in Nat
         /\ (Price(1) * ReturnValue(1, n, S) * config.units[2]
               + Price(2) * ReturnValue(2, n, S) * config.units[1]) * S <= Worth * n
<1> DEFINE X == PricePerShare(S)
           x == X \div 2
           U1 == config.units[1]
           U2 == config.units[2]
           p1 == ReturnValue(1, n, S)
           p2 == ReturnValue(2, n, S)
           P1 == Price(1)
           P2 == Price(2)
           w1 == P1 * assetBalances[Asset(1)]
           w2 == P2 * assetBalances[Asset(2)]
<1>1. /\ CanValue /\ 1 \in Slots /\ 2 \in Slots
      /\ U1 \in Nat \ {0} /\ U2 \in Nat \ {0}
      /\ U1 * BtcScale = PriceUnit /\ U2 * 1 = PriceUnit
      /\ ShareUnit \in Nat \ {0} /\ BtcScale \in Nat \ {0} /\ PriceUnit \in Nat
      /\ assetBalances[Asset(1)] \in Nat /\ assetBalances[Asset(2)] \in Nat
  BY BethAssumption DEF CanReturn, CanPrice, WellConfigured, TypeOK, ConfigType, Slots, Asset
<1>2. X \in Nat /\ X * S <= TotalAssets * ShareUnit
  BY <1>1, SharePriceBounds
<1>3. x \in Nat /\ 2 * x <= X
  <2> HIDE DEF X
  <2>1. QED
    BY <1>2, HalfBounds
<1>4. /\ Half(1, S) \in Nat /\ PerShare(1, S) \in Nat /\ p1 \in Nat /\ P1 \in Nat \ {0}
      /\ Half(1, S) * P1 <= x * PriceUnit
      /\ PerShare(1, S) * BtcScale <= Half(1, S)
      /\ p1 * ShareUnit <= PerShare(1, S) * n
  BY <1>1, PaidBounds
<1>5. /\ Half(2, S) \in Nat /\ PerShare(2, S) \in Nat /\ p2 \in Nat /\ P2 \in Nat \ {0}
      /\ Half(2, S) * P2 <= x * PriceUnit
      /\ PerShare(2, S) * 1 <= Half(2, S)
      /\ p2 * ShareUnit <= PerShare(2, S) * n
  BY <1>1, PaidBounds
<1>6. /\ ValueOf(1) \in Nat /\ ValueOf(1) * U1 <= w1
      /\ ValueOf(2) \in Nat /\ ValueOf(2) * U2 <= w2
      /\ TotalAssets = ValueOf(1) + ValueOf(2)
  BY <1>1, ValueBounds DEF TotalAssets
<1>7. w1 \in Nat /\ w2 \in Nat
  BY <1>1, <1>4, <1>5
<1>8. Worth = w1 * U2 + w2 * U1
  BY DEF Worth
<1> HIDE DEF X, x, U1, U2, p1, p2, P1, P2, w1, w2
<1>9. 2 * ShareUnit * (p1 * P1) <= X * U1 * n
  <2> DEFINE h == Half(1, S)
             q == PerShare(1, S)
  <2>1. /\ PriceUnit = U1 * BtcScale
        /\ U1 \in Nat \ {0} /\ BtcScale \in Nat \ {0} /\ X \in Nat
    BY <1>1, <1>2
  <2>2. /\ h \in Nat /\ q \in Nat /\ h * P1 <= x * PriceUnit
        /\ q * BtcScale <= h /\ p1 * ShareUnit <= q * n
    BY <1>4
  <2> HIDE DEF h, q
  <2>3. QED
    BY <1>3, <1>4, <2>1, <2>2, HalfIsCovered
<1>10. 2 * ShareUnit * (p2 * P2) <= X * U2 * n
  <2>1. PriceUnit = U2 * 1 /\ 1 \in Nat \ {0}
    BY <1>1
  <2>2. QED
    BY <1>1, <1>2, <1>3, <1>5, <2>1, HalfIsCovered
<1>11. ((p1 * P1) * U2 + (p2 * P2) * U1) * S <= (w1 * U2 + w2 * U1) * n
  <2> DEFINE d1 == p1 * P1
             d2 == p2 * P2
  <2>1. d1 \in Nat /\ d2 \in Nat
    BY <1>4, <1>5
  <2>2. 2 * ShareUnit * d1 <= X * U1 * n /\ 2 * ShareUnit * d2 <= X * U2 * n
    BY <1>9, <1>10
  <2> HIDE DEF d1, d2
  <2>3. (d1 * U2 + d2 * U1) * S <= (w1 * U2 + w2 * U1) * n
    BY <1>1, <1>2, <1>6, <1>7, <2>1, <2>2, PayoutIsCovered
  <2>4. QED
    BY <2>3 DEF d1, d2
<1>12. P1 * p1 = p1 * P1 /\ P2 * p2 = p2 * P2
  BY <1>4, <1>5
<1>13. QED
  BY <1>4, <1>5, <1>8, <1>11, <1>12 DEF U1, U2, p1, p2, P1, P2

\* Giving D away with n of s shares, at a price taken with S of them.
LEMMA PriceArithmetic ==
  ASSUME NEW W \in Nat, NEW D \in Nat, NEW n \in Nat, NEW s \in Nat, NEW S \in Nat,
         s <= S, D * S <= W * n
  PROVE  (W - D) * s >= W * (s - n)
<1>1. s * D <= S * D
  BY MulMono
<1>2. D * s <= W * n
  BY <1>1
<1>3. (W - D) * s = W * s - D * s /\ W * (s - n) = W * s - W * n
  OBVIOUS
<1>4. QED
  BY <1>2, <1>3

LEMMA WorthFalls ==
  ASSUME NEW P \in Nat, NEW a \in Nat, NEW p \in Nat, NEW u \in Nat
  PROVE  P * (a - p) * u = P * a * u - P * p * u
<1>1. P * (a - p) = P * a - P * p
  OBVIOUS
<1> DEFINE l == P * a
           r == P * p
<1>2. l \in Int /\ r \in Int
  OBVIOUS
<1> HIDE DEF l, r
<1>3. (l - r) * u = l * u - r * u
  BY <1>2
<1>4. QED
  BY <1>1, <1>3 DEF l, r

\* A redeem never lowers the value booked per share, whatever is rounded.
LEMMA RedeemPrice ==
  ASSUME IInv, WellConfigured, NEW c \in Account, NEW n \in Nat, NEW to \in Account,
         Redeem(c, n, to)
  PROVE  ~ PriceFalls(0)
<1> DEFINE fee == FeeOn(n)
           m == AfterFee(n)
           charged == Minted(share, Vault, fee)
           S == charged.supply
           p1 == ReturnValue(1, m, S)
           p2 == ReturnValue(2, m, S)
           D == Price(1) * p1 * config.units[2] + Price(2) * p2 * config.units[1]
<1>1. /\ n <= share.balance[c] /\ n >= fee /\ CanMint(share, Vault, fee)
      /\ CanReturn(m, S)
      /\ share' = Burned(charged, c, n)
      /\ \A t \in Token : assetBalances'[t] = assetBalances[t]
           - ((IF t = Asset(1) THEN p1 ELSE 0) + (IF t = Asset(2) THEN p2 ELSE 0))
      /\ config' = config /\ quote' = quote
  BY DEF Redeem, Slots, settings, world
<1>2. /\ TypeOK /\ SoundLedger(share) /\ Vault \in Account
      /\ Asset(1) \in Token /\ Asset(2) \in Token
  BY Facts DEF Slots
<1>3. fee \in Nat /\ m \in Nat /\ m = n - fee
  <2>1. fee \in Nat
    BY <1>2, FeeType DEF TypeOK
  <2>2. m = n - fee
    BY DEF AfterFee
  <2> HIDE DEF m, fee
  <2>3. QED
    BY <1>1, <2>1, <2>2
<1>4. /\ SoundLedger(charged) /\ S = share.supply + fee
      /\ \A u \in Account : charged.balance[u]
                               = share.balance[u] + (IF u = Vault THEN fee ELSE 0)
  BY <1>1, <1>2, <1>3, MintedSound, MintedBalance DEF Minted
<1>5. share.supply \in Nat /\ share.balance[c] \in Nat
  BY <1>2, HoldsAtMostSupply
<1>6. S \in Nat \ {0}
  BY <1>1, <1>3, <1>4, <1>5 DEF CanReturn, CanPrice
<1> HIDE DEF fee, m
<1>7. share'.supply = S - n
  <2>1. CanBurn(charged, c, n)
    BY <1>1, <1>3, <1>4, <1>5 DEF CanBurn
  <2>2. QED
    BY <1>1, <1>4, <2>1, BurnedSound
<1> HIDE DEF charged, S
<1>8. p1 \in Nat /\ p2 \in Nat /\ Price(1) \in Nat /\ Price(2) \in Nat
      /\ D * S <= Worth * m
  BY <1>1, <1>2, <1>3, <1>6, PayoutBounds
<1> HIDE DEF p1, p2
<1>9. /\ config.units[1] \in Nat /\ config.units[2] \in Nat
      /\ assetBalances[Asset(1)] \in Nat /\ assetBalances[Asset(2)] \in Nat
  BY <1>2 DEF TypeOK, ConfigType, Slots
<1>10. D \in Nat /\ Worth \in Nat
  <2> DEFINE u1 == config.units[1]
             u2 == config.units[2]
             a1 == assetBalances[Asset(1)]
             a2 == assetBalances[Asset(2)]
  <2>1. /\ u1 \in Nat /\ u2 \in Nat /\ a1 \in Nat /\ a2 \in Nat
    BY <1>9
  <2>2. /\ D = Price(1) * p1 * u2 + Price(2) * p2 * u1
        /\ Worth = Price(1) * a1 * u2 + Price(2) * a2 * u1
    BY DEF Worth
  <2> HIDE DEF u1, u2, a1, a2, D
  <2>3. QED
    BY <1>8, <2>1, <2>2
<1>11. Worth' = Worth - D
  <2>1. /\ Asset(1)' = Asset(1) /\ Asset(2)' = Asset(2)
        /\ Price(1)' = Price(1) /\ Price(2)' = Price(2)
        /\ config'.units = config.units
    BY <1>1 DEF Asset, Price
  <2>2. Asset(1) # Asset(2)
    BY DEF WellConfigured
  <2> DEFINE u1 == config.units[1]
             u2 == config.units[2]
             a1 == assetBalances[Asset(1)]
             a2 == assetBalances[Asset(2)]
             P1 == Price(1)
             P2 == Price(2)
  <2>3. /\ assetBalances'[Asset(1)] = a1 - p1
        /\ assetBalances'[Asset(2)] = a2 - p2
    <3>1. \A t \in Token : assetBalances'[t] = assetBalances[t]
            - ((IF t = Asset(1) THEN p1 ELSE 0) + (IF t = Asset(2) THEN p2 ELSE 0))
      BY <1>1
    <3>2. /\ assetBalances'[Asset(1)] = a1 - (p1 + 0)
          /\ assetBalances'[Asset(2)] = a2 - (0 + p2)
      BY <1>2, <2>2, <3>1
    <3>3. a1 \in Nat /\ a2 \in Nat
      BY <1>9
    <3> HIDE DEF a1, a2
    <3>4. QED
      BY <1>8, <3>2, <3>3
  <2>4. Worth' = P1 * (a1 - p1) * u2 + P2 * (a2 - p2) * u1
    BY <2>1, <2>3 DEF Worth
  <2>5. /\ D = P1 * p1 * u2 + P2 * p2 * u1
        /\ Worth = P1 * a1 * u2 + P2 * a2 * u1
    BY DEF Worth
  <2>6. /\ u1 \in Nat /\ u2 \in Nat /\ a1 \in Nat /\ a2 \in Nat
        /\ P1 \in Nat /\ P2 \in Nat
    BY <1>8, <1>9
  <2> HIDE DEF u1, u2, a1, a2, P1, P2, D
  <2>7. /\ P1 * (a1 - p1) * u2 = P1 * a1 * u2 - P1 * p1 * u2
        /\ P2 * (a2 - p2) * u1 = P2 * a2 * u1 - P2 * p2 * u1
    BY <1>8, <2>6, WorthFalls
  <2> DEFINE x1 == P1 * a1 * u2
             y1 == P1 * p1 * u2
             x2 == P2 * a2 * u1
             y2 == P2 * p2 * u1
  <2>8. x1 \in Nat /\ y1 \in Nat /\ x2 \in Nat /\ y2 \in Nat
    <3>1. /\ P1 * a1 \in Nat /\ P1 * p1 \in Nat
          /\ P2 * a2 \in Nat /\ P2 * p2 \in Nat
      BY <1>8, <2>6, ProductType
    <3>2. QED
      BY <2>6, <3>1, ProductType
  <2>9. Worth' = (x1 - y1) + (x2 - y2) /\ D = y1 + y2 /\ Worth = x1 + x2
    BY <2>4, <2>5, <2>7
  <2> HIDE DEF x1, y1, x2, y2
  <2>10. QED
    BY <2>8, <2>9
<1> HIDE DEF D
<1>12. share.supply <= S
  BY <1>3, <1>4, <1>5, <1>6
<1>13. (Worth - D) * share.supply >= Worth * (share.supply - m)
  BY <1>3, <1>5, <1>6, <1>8, <1>10, <1>12, PriceArithmetic
<1>14. share'.supply = share.supply - m
  BY <1>3, <1>4, <1>5, <1>7
<1>15. PriceFalls(0) <=> (Worth - D + 0) * share.supply < Worth * (share.supply - m)
  BY <1>11, <1>14 DEF PriceFalls
<1> DEFINE l == (Worth - D) * share.supply
           r == Worth * (share.supply - m)
<1>16. l \in Int /\ r \in Int /\ Worth - D + 0 = Worth - D
  BY <1>3, <1>5, <1>10
<1>17. l >= r /\ (PriceFalls(0) <=> l < r)
  BY <1>13, <1>15, <1>16
<1> HIDE DEF l, r
<1>18. QED
  BY <1>16, <1>17

\* For those who stay, a redeem never lowers what is booked per share.
THEOREM RedeemKeepsValue == Spec => RedeemKeepsPrice
<1>1. IInv /\ [Next]_vars =>
        [PriceFalls(0) /\ WellConfigured
          => ~\E c \in User, n \in ShareAmounts, to \in Receivers : Redeem(c, n, to)]_vars
  <2> SUFFICES ASSUME IInv, PriceFalls(0), WellConfigured, NEW c \in User,
                      NEW n \in ShareAmounts, NEW to \in Receivers, Redeem(c, n, to)
               PROVE  FALSE
    OBVIOUS
  <2>1. c \in Account /\ n \in Nat /\ to \in Account /\ TypeOK /\ SoundLedger(share)
    BY Facts
  <2>2. QED
    BY <2>1, RedeemPrice
<1>2. QED
  BY <1>1, Safety, PTL DEF Spec, RedeemKeepsPrice

-----------------------------------------------------------------------------
(* What a mint brings in.  It spends half h of the cost on each asset, of  *)
(* which there is g then, at price P and unit U; X is the price per share  *)
(* at the supply S, q that price in USDC, T the counted assets, k the      *)
(* number of whole shares.                                                 *)

\* What h of USDC buy is worth all but a unit of the asset.
LEMMA BoughtIsWorth ==
  ASSUME NEW t \in Token, NEW h \in Nat, market[t] \in Nat \ {0}, AssetUnit[t] \in Nat
  PROVE  /\ Bought(t, h) \in Nat
         /\ market[t] * Bought(t, h) + market[t] >= h * CostUnit * AssetUnit[t]
<1> DEFINE x == h * CostUnit * AssetUnit[t]
           P == market[t]
<1>1. x \in Nat
  <2>1. h * CostUnit \in Nat
    BY BethAssumption, ProductType
  <2>2. QED
    BY <2>1, ProductType
<1>2. Bought(t, h) = x \div P
  BY DEF Bought
<1> HIDE DEF x, P
<1>3. P \in Nat \ {0}
  BY DEF P
<1>4. x \div P \in Nat /\ x < (x \div P) * P + P
  BY <1>1, <1>3, DivBounds
<1> DEFINE g == x \div P
<1>5. g \in Nat
  BY <1>4
<1> HIDE DEF g
<1>6. g * P = P * g /\ P * g \in Nat
  BY <1>3, <1>5
<1>7. P * g + P >= x
  BY <1>1, <1>3, <1>4, <1>6 DEF g
<1>8. QED
  BY <1>2, <1>5, <1>7 DEF g, x, P

Purchase(h, k, q, X, S, T, U1, U2, w1, w2, P1, P2) ==
  /\ h \in Nat /\ k \in Nat /\ q \in Nat /\ X \in Nat /\ S \in Nat /\ T \in Nat
  /\ U1 \in Nat /\ U2 \in Nat /\ w1 \in Nat /\ w2 \in Nat /\ P1 \in Nat /\ P2 \in Nat
  /\ q * k <= 2 * h + 1 /\ X + 1 <= (q + 1) * CostUnit /\ T * ShareUnit <= (X + 1) * S
  /\ h * CostUnit * U1 <= w1 + P1 /\ h * CostUnit * U2 <= w2 + P2

LEMMA PurchaseCovers ==
  ASSUME NEW h, NEW k, NEW q, NEW X, NEW S, NEW T, NEW U1, NEW U2, NEW w1, NEW w2, NEW P1,
         NEW P2, Purchase(h, k, q, X, S, T, U1, U2, w1, w2, P1, P2)
  PROVE  (T * U1 * U2) * (k * ShareUnit)
           <= ((w1 * U2 + w2 * U1)
                 + ((k + 1) * CostUnit * U1 * U2 + P1 * U2 + P2 * U1)) * S
<1>0. /\ h \in Nat /\ k \in Nat /\ q \in Nat /\ X \in Nat /\ S \in Nat /\ T \in Nat
      /\ U1 \in Nat /\ U2 \in Nat /\ w1 \in Nat /\ w2 \in Nat /\ P1 \in Nat /\ P2 \in Nat
      /\ q * k <= 2 * h + 1 /\ X + 1 <= (q + 1) * CostUnit /\ T * ShareUnit <= (X + 1) * S
      /\ h * CostUnit * U1 <= w1 + P1 /\ h * CostUnit * U2 <= w2 + P2
  BY DEF Purchase
<1> USE <1>0
<1>1. CostUnit \in Nat /\ ShareUnit \in Nat
  BY BethAssumption
<1> DEFINE U == U1 * U2
           c == CostUnit * U
           G == (w1 * U2 + w2 * U1) + ((k + 1) * CostUnit * U1 * U2 + P1 * U2 + P2 * U1)
<1>2. U \in Nat /\ c \in Nat
  BY <1>1, ProductType
<1>3. h * c <= w1 * U2 + P1 * U2
  <2>1. (h * CostUnit * U1) * U2 <= (w1 + P1) * U2
    <3> DEFINE l == h * CostUnit * U1
    <3>1. l \in Nat /\ l <= w1 + P1
      BY <1>1
    <3> HIDE DEF l
    <3>2. l * U2 <= (w1 + P1) * U2
      BY <3>1, MulMono
    <3>3. QED
      BY <3>2 DEF l
  <2>2. (h * CostUnit * U1) * U2 = h * c
    BY <1>1
  <2>3. (w1 + P1) * U2 = w1 * U2 + P1 * U2
    OBVIOUS
  <2>4. QED
    BY <2>1, <2>2, <2>3
<1>4. h * c <= w2 * U1 + P2 * U1
  <2>1. (h * CostUnit * U2) * U1 <= (w2 + P2) * U1
    <3> DEFINE l == h * CostUnit * U2
    <3>1. l \in Nat /\ l <= w2 + P2
      BY <1>1
    <3> HIDE DEF l
    <3>2. l * U1 <= (w2 + P2) * U1
      BY <3>1, MulMono
    <3>3. QED
      BY <3>2 DEF l
  <2>2. (h * CostUnit * U2) * U1 = h * c
    BY <1>1
  <2>3. (w2 + P2) * U1 = w2 * U1 + P2 * U1
    OBVIOUS
  <2>4. QED
    BY <2>1, <2>2, <2>3
<1>5. (k + 1) * CostUnit * U1 * U2 = (k + 1) * c
  BY <1>1
<1>6. G \in Nat /\ (2 * h + 1 + k) * c <= G
  <2> DEFINE a1 == w1 * U2
             b1 == P1 * U2
             a2 == w2 * U1
             b2 == P2 * U1
             e == (k + 1) * c
             f == h * c
  <2>1. /\ a1 \in Nat /\ b1 \in Nat /\ a2 \in Nat /\ b2 \in Nat /\ e \in Nat /\ f \in Nat
    BY <1>2, ProductType
  <2>2. f <= a1 + b1 /\ f <= a2 + b2
    BY <1>3, <1>4
  <2>3. G = (a1 + a2) + (e + b1 + b2)
    BY <1>5
  <2>4. (2 * h + 1 + k) * c = 2 * f + e
    <3> HIDE DEF c
    <3>1. QED
      BY <1>2
  <2> HIDE DEF a1, b1, a2, b2, e, f, G
  <2>5. QED
    BY <2>1, <2>2, <2>3, <2>4
<1> HIDE DEF G
<1>7. (q * k + k) * c <= G
  <2>1. q * k + k <= 2 * h + 1 + k /\ q * k + k \in Nat
    BY ProductType
  <2> DEFINE l == q * k + k
             r == 2 * h + 1 + k
  <2>2. l \in Nat /\ r \in Nat /\ l <= r
    BY <2>1
  <2> HIDE DEF l, r, c
  <2>3. l * c <= r * c
    BY <1>2, <2>2, MulMono
  <2>4. l * c \in Nat /\ r * c \in Nat /\ r * c <= G
    BY <1>2, <1>6, <2>2 DEF r
  <2>5. QED
    BY <1>6, <2>3, <2>4 DEF l
<1>8. (X + 1) * (k * U) <= G
  <2>1. ((q + 1) * CostUnit) * (k * U) = (q * k + k) * c
    <3> HIDE DEF U
    <3>1. QED
      BY <1>1, <1>2
  <2> DEFINE l == (q + 1) * CostUnit
             m == k * U
  <2>2. l \in Nat /\ m \in Nat /\ X + 1 <= l
    BY <1>1, <1>2
  <2> HIDE DEF l, m
  <2>3. (X + 1) * m <= l * m
    BY <2>2, MulMono
  <2>4. l * m <= G
    BY <1>7, <2>1 DEF l, m
  <2>5. (X + 1) * m \in Nat /\ l * m \in Nat
    BY <2>2
  <2>6. (X + 1) * m <= G
    BY <1>6, <2>3, <2>4, <2>5
  <2>7. QED
    BY <2>6 DEF m
<1>9. ((X + 1) * (k * U)) * S <= G * S
  <2> DEFINE l == (X + 1) * (k * U)
  <2>1. l \in Nat
    BY <1>2, ProductType
  <2> HIDE DEF l
  <2>2. l <= G
    BY <1>8 DEF l
  <2>3. l * S <= G * S
    BY <1>6, <2>1, <2>2, MulMono
  <2>4. QED
    BY <2>3 DEF l
<1>10. (T * ShareUnit) * (k * U) <= ((X + 1) * S) * (k * U)
  <2> DEFINE l == T * ShareUnit
             r == (X + 1) * S
             m == k * U
  <2>1. l \in Nat /\ r \in Nat /\ m \in Nat /\ l <= r
    BY <1>1, <1>2
  <2> HIDE DEF l, r, m
  <2>2. l * m <= r * m
    BY <2>1, MulMono
  <2>3. QED
    BY <2>2 DEF l, r, m
<1>11. (T * ShareUnit) * (k * U) = (T * U1 * U2) * (k * ShareUnit)
  BY <1>1
<1>12. ((X + 1) * S) * (k * U) = ((X + 1) * (k * U)) * S
  <2> DEFINE m == k * U
  <2>1. m \in Nat
    BY <1>2
  <2> HIDE DEF m
  <2>2. ((X + 1) * S) * m = ((X + 1) * m) * S
    BY <2>1
  <2>3. QED
    BY <2>2 DEF m
<1>13. (T * U1 * U2) * (k * ShareUnit) <= G * S
  <2> DEFINE x == (T * ShareUnit) * (k * U)
             y == ((X + 1) * S) * (k * U)
             z == G * S
  <2>1. x \in Nat /\ y \in Nat /\ z \in Nat /\ x <= y /\ y <= z
    <3>1. k * U \in Nat /\ T * ShareUnit \in Nat /\ (X + 1) * S \in Nat
      BY <1>1, <1>2, ProductType
    <3>2. x \in Nat /\ y \in Nat /\ z \in Nat
      BY <1>6, <3>1, ProductType
    <3>3. QED
      BY <1>9, <1>10, <1>12, <3>2
  <2> HIDE DEF x, y, z
  <2>2. x <= z
    BY <2>1
  <2>3. QED
    BY <1>11, <2>2 DEF x, z
<1>14. QED
  BY <1>13 DEF G

LEMMA PriceRoundsDown ==
  ASSUME TypeOK, CanValue, NEW S \in Nat \ {0}
  PROVE  /\ TotalAssets \in Nat
         /\ TotalAssets * ShareUnit <= (PricePerShare(S) + 1) * S
<1> DEFINE w == TotalAssets * ShareUnit
           X == PricePerShare(S)
<1>1. TotalAssets \in Nat
  <2>1. ValueOf(1) \in Nat /\ ValueOf(2) \in Nat
    BY ValueBounds DEF Slots
  <2>2. QED
    BY <2>1 DEF TotalAssets
<1>2. w \in Nat
  BY FixedPointAssumption DEF CanValue, Fits, Uint
<1>3. X = w \div S
  BY DEF PricePerShare
<1> HIDE DEF w, X
<1>4. X \in Nat /\ w < X * S + S
  BY <1>2, <1>3, DivBounds
<1>5. (X + 1) * S = X * S + S /\ X * S \in Nat
  BY <1>4
<1>6. w <= (X + 1) * S
  BY <1>2, <1>4, <1>5
<1>7. QED
  BY <1>1, <1>6 DEF w, X

\* The cost is the price of k whole shares, in USDC, and the slippage.
LEMMA CostCovers ==
  ASSUME TypeOK, CanValue, share.supply \in Nat \ {0}, NEW n \in Nat
  PROVE  LET X == PricePerShare(share.supply)
             k == n \div ShareUnit
             q == X \div CostUnit
         IN  /\ X \in Nat /\ k \in Nat /\ q \in Nat
             /\ PreviewMint(n) \in Nat /\ q * k <= PreviewMint(n)
             /\ X + 1 <= (q + 1) * CostUnit
<1> DEFINE X == PricePerShare(share.supply)
           k == n \div ShareUnit
           q == X \div CostUnit
           s == q * k
<1>1. /\ CostUnit \in Nat \ {0} /\ ShareUnit \in Nat \ {0} /\ Permille \in Nat \ {0}
      /\ slippage \in Nat
  BY BethAssumption DEF TypeOK
<1>2. X \in Nat
  BY SharePriceBounds
<1>3. PreviewMint(n) = s + (s \div Permille) * slippage
  BY DEF PreviewMint, Slip
<1> HIDE DEF X
<1>4. k \in Nat /\ q \in Nat /\ X < q * CostUnit + CostUnit
  BY <1>1, <1>2, DivBounds
<1> HIDE DEF k, q
<1>5. s \in Nat
  BY <1>4, ProductType
<1> HIDE DEF s
<1>6. (s \div Permille) * slippage \in Nat
  <2>1. s \div Permille \in Nat
    BY <1>1, <1>5, QuotientType
  <2>2. QED
    BY <1>1, <2>1, ProductType
<1>7. PreviewMint(n) \in Nat /\ s <= PreviewMint(n)
  BY <1>3, <1>5, <1>6
<1>8. (q + 1) * CostUnit = q * CostUnit + CostUnit /\ q * CostUnit \in Nat
  BY <1>1, <1>4
<1>9. X + 1 <= (q + 1) * CostUnit
  BY <1>1, <1>2, <1>4, <1>8
<1>10. QED
  BY <1>2, <1>4, <1>7, <1>9 DEF X, k, q, s

LEMMA WorthRises ==
  ASSUME NEW P \in Nat, NEW a \in Nat, NEW g \in Nat, NEW u \in Nat
  PROVE  P * (a + g) * u = P * a * u + P * g * u
<1>1. P * (a + g) = P * a + P * g
  OBVIOUS
<1> DEFINE l == P * a
           r == P * g
<1>2. l \in Int /\ r \in Int
  OBVIOUS
<1> HIDE DEF l, r
<1>3. (l + r) * u = l * u + r * u
  BY <1>2
<1>4. QED
  BY <1>1, <1>3 DEF l, r

\* What is booked is worth more by what was bought.
LEMMA BookedIsWorth ==
  ASSUME TypeOK, WellConfigured, NEW got \in [Slots -> Nat],
         assetBalances' = Booked(got), config' = config, quote' = quote,
         Price(1) \in Nat, Price(2) \in Nat
  PROVE  /\ Worth \in Nat
         /\ Worth' - Worth = (Price(1) * got[1]) * config.units[2]
                               + (Price(2) * got[2]) * config.units[1]
<1> DEFINE u1 == config.units[1]
           u2 == config.units[2]
           a1 == assetBalances[Asset(1)]
           a2 == assetBalances[Asset(2)]
           P1 == Price(1)
           P2 == Price(2)
           g1 == got[1]
           g2 == got[2]
<1>1. /\ u1 \in Nat /\ u2 \in Nat /\ a1 \in Nat /\ a2 \in Nat /\ P1 \in Nat /\ P2 \in Nat
      /\ g1 \in Nat /\ g2 \in Nat /\ Asset(1) \in Token /\ Asset(2) \in Token
  BY DEF TypeOK, ConfigType, Slots, Asset
<1>2. /\ Asset(1)' = Asset(1) /\ Asset(2)' = Asset(2)
      /\ Price(1)' = Price(1) /\ Price(2)' = Price(2) /\ config'.units = config.units
  BY DEF Asset, Price
<1>3. assetBalances'[Asset(1)] = a1 + g1 /\ assetBalances'[Asset(2)] = a2 + g2
  <2>1. \A t \in Token : assetBalances'[t] = assetBalances[t]
            + (IF t = Asset(1) THEN g1 ELSE 0) + (IF t = Asset(2) THEN g2 ELSE 0)
    BY BookedEffect
  <2>2. Asset(1) # Asset(2)
    BY DEF WellConfigured
  <2>3. /\ assetBalances'[Asset(1)] = (a1 + g1) + 0
        /\ assetBalances'[Asset(2)] = (a2 + 0) + g2
    BY <1>1, <2>1, <2>2
  <2> HIDE DEF a1, a2, g1, g2
  <2>4. QED
    BY <1>1, <2>3
<1>4. /\ Worth' = P1 * (a1 + g1) * u2 + P2 * (a2 + g2) * u1
      /\ Worth = P1 * a1 * u2 + P2 * a2 * u1
  BY <1>2, <1>3 DEF Worth
<1> HIDE DEF u1, u2, a1, a2, P1, P2, g1, g2
<1>5. /\ P1 * (a1 + g1) * u2 = P1 * a1 * u2 + P1 * g1 * u2
      /\ P2 * (a2 + g2) * u1 = P2 * a2 * u1 + P2 * g2 * u1
  BY <1>1, WorthRises
<1> DEFINE x1 == P1 * a1 * u2
           y1 == P1 * g1 * u2
           x2 == P2 * a2 * u1
           y2 == P2 * g2 * u1
<1>6. x1 \in Nat /\ y1 \in Nat /\ x2 \in Nat /\ y2 \in Nat
  <2>1. P1 * a1 \in Nat /\ P1 * g1 \in Nat /\ P2 * a2 \in Nat /\ P2 * g2 \in Nat
    BY <1>1, ProductType
  <2>2. QED
    BY <1>1, <2>1, ProductType
<1>7. Worth' = (x1 + y1) + (x2 + y2) /\ Worth = x1 + x2
  BY <1>4, <1>5
<1> DEFINE w == y1 + y2
<1>8. Worth \in Nat /\ Worth' - Worth = w
  <2> HIDE DEF x1, y1, x2, y2
  <2>1. QED
    BY <1>6, <1>7
<1>9. QED
  BY <1>8 DEF u1, u2, P1, P2, g1, g2

\* A mint of whole shares brings in what they are counted as, but for roundings.
LEMMA MintPays ==
  ASSUME IInv, WellConfigured, NEW c \in Account, NEW n \in Nat, NEW to \in Account,
         Mint(c, n, to), n % ShareUnit = 0,
         \A i \in Slots : market[Asset(i)] = Price(i) /\ AssetUnit[Asset(i)] = config.units[i]
  PROVE  ~ ((Worth' - Worth + Roundings(n)) * share.supply < Counted * n)
<1> DEFINE cost == PreviewMint(n)
           h == cost \div 2
           got == [i \in Slots |-> Bought(Asset(i), h)]
           X == PricePerShare(share.supply)
           k == n \div ShareUnit
           q == X \div CostUnit
           S == share.supply
           T == TotalAssets
           u1 == config.units[1]
           u2 == config.units[2]
           P1 == Price(1)
           P2 == Price(2)
           w1 == P1 * got[1]
           w2 == P2 * got[2]
<1>1. /\ CanValue /\ S > 0 /\ assetBalances' = Booked(got)
      /\ config' = config /\ quote' = quote
  BY DEF Mint, CanPrice, settings, world
<1>2. TypeOK /\ Asset(1) \in Token /\ Asset(2) \in Token /\ S \in Nat
  BY Facts, HoldsAtMostSupply DEF Slots
<1>3. /\ X \in Nat /\ k \in Nat /\ q \in Nat /\ cost \in Nat
      /\ q * k <= cost /\ X + 1 <= (q + 1) * CostUnit
  BY <1>1, <1>2, CostCovers
<1>4. T \in Nat /\ T * ShareUnit <= (X + 1) * S
  BY <1>1, <1>2, PriceRoundsDown
<1>5. h \in Nat /\ q * k <= 2 * h + 1
  <2> DEFINE r == q * k
  <2>1. r \in Nat /\ r <= cost
    BY <1>3, ProductType
  <2> HIDE DEF r, cost
  <2>2. h \in Nat /\ r <= 2 * h + 1
    BY <1>3, <2>1
  <2>3. QED
    BY <2>2 DEF r
<1>6. n = k * ShareUnit
  <2>1. ShareUnit \in Nat \ {0}
    BY BethAssumption
  <2>2. n = k * ShareUnit + 0
    BY <2>1, DivBounds
  <2>3. k * ShareUnit \in Nat
    BY <1>3, <2>1, ProductType
  <2> HIDE DEF k
  <2>4. QED
    BY <2>2, <2>3
<1>7. /\ u1 \in Nat /\ u2 \in Nat /\ P1 \in Nat /\ P2 \in Nat
      /\ market[Asset(1)] = P1 /\ market[Asset(2)] = P2
      /\ AssetUnit[Asset(1)] = u1 /\ AssetUnit[Asset(2)] = u2
      /\ market[Asset(1)] \in Nat \ {0} /\ market[Asset(2)] \in Nat \ {0}
  BY <1>2 DEF TypeOK, ConfigType, Slots
<1> HIDE DEF h, cost, X, k, q, T
<1>8. /\ got \in [Slots -> Nat] /\ got[1] = Bought(Asset(1), h) /\ got[2] = Bought(Asset(2), h)
  <2>1. Bought(Asset(1), h) \in Nat /\ Bought(Asset(2), h) \in Nat
    BY <1>2, <1>5, <1>7, BoughtIsWorth
  <2>2. QED
    BY <2>1 DEF Slots
<1>9. h * CostUnit * u1 <= w1 + P1 /\ h * CostUnit * u2 <= w2 + P2
  <2>1. /\ market[Asset(1)] * Bought(Asset(1), h) + market[Asset(1)]
              >= h * CostUnit * AssetUnit[Asset(1)]
        /\ market[Asset(2)] * Bought(Asset(2), h) + market[Asset(2)]
              >= h * CostUnit * AssetUnit[Asset(2)]
    BY <1>2, <1>5, <1>7, BoughtIsWorth
  <2>2. w1 + P1 >= h * CostUnit * u1 /\ w2 + P2 >= h * CostUnit * u2
    BY <1>7, <1>8, <2>1
  <2>3. w1 + P1 \in Nat /\ w2 + P2 \in Nat
    BY <1>7, <1>8, ProductType DEF Slots
  <2>4. h * CostUnit * u1 \in Nat /\ h * CostUnit * u2 \in Nat
    <3>1. h * CostUnit \in Nat
      BY <1>5, BethAssumption, ProductType
    <3>2. QED
      BY <1>7, <3>1, ProductType
  <2> DEFINE l1 == w1 + P1
             l2 == w2 + P2
             r1 == h * CostUnit * u1
             r2 == h * CostUnit * u2
  <2> HIDE DEF l1, l2, r1, r2
  <2>5. r1 <= l1 /\ r2 <= l2
    BY <2>2, <2>3, <2>4 DEF l1, l2, r1, r2
  <2>6. QED
    BY <2>5 DEF l1, l2, r1, r2
<1>10. w1 \in Nat /\ w2 \in Nat
  BY <1>7, <1>8, ProductType DEF Slots
<1>11. Worth' - Worth = w1 * u2 + w2 * u1
  BY <1>1, <1>2, <1>7, <1>8, BookedIsWorth
<1>12. Roundings(n) = (k + 1) * CostUnit * u1 * u2 + P1 * u2 + P2 * u1
  BY DEF Roundings, k
<1>13. Counted = T * u1 * u2
  BY DEF Counted, T
<1> HIDE DEF u1, u2, P1, P2, w1, w2, got, S
<1>14. (T * u1 * u2) * (k * ShareUnit)
          <= ((w1 * u2 + w2 * u1) + ((k + 1) * CostUnit * u1 * u2 + P1 * u2 + P2 * u1)) * S
  <2>1. /\ h \in Nat /\ k \in Nat /\ q \in Nat /\ X \in Nat /\ S \in Nat /\ T \in Nat
        /\ u1 \in Nat /\ u2 \in Nat /\ w1 \in Nat /\ w2 \in Nat /\ P1 \in Nat /\ P2 \in Nat
    BY <1>2, <1>3, <1>4, <1>5, <1>7, <1>10
  <2>2. Purchase(h, k, q, X, S, T, u1, u2, w1, w2, P1, P2)
    BY <1>3, <1>4, <1>5, <1>9, <2>1, Zenon DEF Purchase
  <2>3. QED
    BY <2>2, PurchaseCovers, Zenon
<1> DEFINE l == (Worth' - Worth + Roundings(n)) * S
           r == Counted * n
<1>15. r <= l
  BY <1>6, <1>11, <1>12, <1>13, <1>14
<1>16. l \in Int /\ r \in Int
  <2>1. CostUnit \in Nat
    BY BethAssumption
  <2>2. Worth' - Worth \in Nat /\ Counted \in Nat
    <3>1. w1 * u2 \in Nat /\ w2 * u1 \in Nat /\ T * u1 \in Nat
      BY <1>4, <1>7, <1>10, ProductType
    <3>2. T * u1 * u2 \in Nat
      BY <1>7, <3>1, ProductType
    <3>3. QED
      BY <1>11, <1>13, <3>1, <3>2
  <2>3. Roundings(n) \in Nat
    <3>1. (k + 1) * CostUnit \in Nat /\ P1 * u2 \in Nat /\ P2 * u1 \in Nat
      BY <1>3, <1>7, <2>1, ProductType
    <3>2. (k + 1) * CostUnit * u1 \in Nat
      BY <1>7, <3>1, ProductType
    <3>3. (k + 1) * CostUnit * u1 * u2 \in Nat
      BY <1>7, <3>2, ProductType
    <3>4. QED
      BY <1>12, <3>1, <3>3
  <2> DEFINE g == Worth' - Worth
             o == Roundings(n)
             z == Counted
  <2> HIDE DEF g, o, z
  <2>4. (g + o) * S \in Int /\ z * n \in Int
    BY <1>2, <2>2, <2>3 DEF g, o, z
  <2>5. QED
    BY <2>4 DEF g, o, z
<1> HIDE DEF l, r
<1>17. ~ (l < r)
  BY <1>15, <1>16
<1>18. QED
  BY <1>17 DEF l, r, S

\* Nobody mints whole shares below what the vault counts them as, but for the
\* roundings, while the DEX trades at the oracle's prices.
THEOREM WholeSharesArePaid == Spec => WholeSharesPayTheirWay
<1>1. IInv /\ [Next]_vars =>
        [\A n \in ShareAmounts :
           /\ WellConfigured /\ n % ShareUnit = 0
           /\ \A i \in Slots : market[Asset(i)] = Price(i) /\ AssetUnit[Asset(i)] = config.units[i]
           /\ (Worth' - Worth + Roundings(n)) * share.supply < Counted * n
          => ~\E c \in User, to \in Receivers : Mint(c, n, to)]_vars
  <2> SUFFICES ASSUME IInv, NEW n \in ShareAmounts, WellConfigured, n % ShareUnit = 0,
                      \A i \in Slots : market[Asset(i)] = Price(i)
                                         /\ AssetUnit[Asset(i)] = config.units[i],
                      (Worth' - Worth + Roundings(n)) * share.supply < Counted * n,
                      NEW c \in User, NEW to \in Receivers, Mint(c, n, to)
               PROVE  FALSE
    BY Zenon
  <2>1. c \in Account /\ n \in Nat /\ to \in Account /\ TypeOK /\ SoundLedger(share)
    BY Facts
  <2>2. QED
    BY <2>1, MintPays
<1>2. QED
  BY <1>1, Safety, PTL DEF Spec, WholeSharesPayTheirWay

-----------------------------------------------------------------------------
(* The oracle that answers the vault, on its own: for all accounts, prices *)
(* and dates.                                                              *)

LEMMA OracleInit ==
  ASSUME Feeder!Init
  PROVE  Feeder!TypeOK
  BY OracleAssumption DEF Feeder!OracleConstants, Feeder!Init, Feeder!TypeOK

LEMMA OracleStep ==
  ASSUME Feeder!TypeOK, [Feeder!Next]_(Feeder!vars)
  PROVE  Feeder!TypeOK'
<1> USE OracleAssumption DEF Feeder!OracleConstants, Feeder!TypeOK
<1>1. CASE UNCHANGED Feeder!vars
  BY <1>1 DEF Feeder!vars
<1>2. ASSUME NEW c \in Readers, NEW price \in Prices, Feeder!UpdatePrice(c, price)
      PROVE  Feeder!TypeOK'
  <2>1. now % StampRange \in 0 .. StampRange - 1
    OBVIOUS
  <2>2. QED
    BY <1>2, <2>1 DEF Feeder!UpdatePrice
<1>3. ASSUME NEW c \in Readers, Feeder!OwnerCall(c) PROVE Feeder!TypeOK'
  <2>1. ASSUME NEW a \in Readers, NEW status \in BOOLEAN, Feeder!SetAllowed(c, a, status)
        PROVE  Feeder!TypeOK'
    BY <2>1 DEF Feeder!SetAllowed
  <2>2. ASSUME NEW a \in Readers, NEW status \in BOOLEAN, NEW till \in Dates,
               Feeder!SetAccess(c, a, status, till)
        PROVE  Feeder!TypeOK'
    <3>1. [stat |-> status, activeTill |-> till] \in [stat : BOOLEAN, activeTill : Nat]
      OBVIOUS
    <3>2. access' \in [Readers -> [stat : BOOLEAN, activeTill : Nat]]
      BY <2>2, <3>1 DEF Feeder!SetAccess
    <3>3. QED
      BY <2>2, <3>2 DEF Feeder!SetAccess
  <2>3. CASE \E to \in Readers : Feeder!TransferOwnership(c, to)
    BY <2>3 DEF Feeder!TransferOwnership
  <2>4. CASE Feeder!RenounceOwnership(c)
    BY <2>4 DEF Feeder!RenounceOwnership
  <2>5. QED
    BY <1>3, <2>1, <2>2, <2>3, <2>4 DEF Feeder!OwnerCall
<1>4. CASE Feeder!Tick
  BY <1>4 DEF Feeder!Tick
<1>5. QED
  BY <1>1, <1>2, <1>3, <1>4 DEF Feeder!Next

\* A reader who is refused is answered again by a call of the owner in office only:
\* neither time nor an endpoint nor another reader revives his access.
THEOREM OnlyTheOwnerGivesAccess == Feeder!Spec => AccessOnlyByOwner
<1>1. Feeder!Init => Feeder!TypeOK
  BY OracleInit
<1>2. Feeder!TypeOK /\ [Feeder!Next]_(Feeder!vars) => Feeder!TypeOK'
  BY OracleStep
<1>3. Feeder!TypeOK /\ [Feeder!Next]_(Feeder!vars) =>
        [\A a \in Readers :
           ~Feeder!CanRead(a) /\ Feeder!CanRead(a)'
             => \E c \in Readers : c = oracleOwner /\ Feeder!OwnerCall(c)]_(Feeder!vars)
  <2> SUFFICES ASSUME Feeder!TypeOK, Feeder!Next, NEW a \in Readers,
                      ~Feeder!CanRead(a), Feeder!CanRead(a)'
               PROVE  \E c \in Readers : c = oracleOwner /\ Feeder!OwnerCall(c)
    BY Zenon
  <2>1. ASSUME NEW c \in Readers, Feeder!OwnerCall(c) PROVE c = oracleOwner
    BY <2>1 DEF Feeder!OwnerCall, Feeder!SetAllowed, Feeder!SetAccess,
                Feeder!TransferOwnership, Feeder!RenounceOwnership, Feeder!onlyOwner
  <2>2. ASSUME NEW c \in Readers, NEW price \in Prices, Feeder!UpdatePrice(c, price)
        PROVE  FALSE
    BY <2>2 DEF Feeder!UpdatePrice, Feeder!CanRead
  <2>3. ~ Feeder!Tick
    <3> SUFFICES ASSUME Feeder!Tick PROVE FALSE
      OBVIOUS
    <3>1. access' = access /\ now' = now + 1 /\ now \in Nat /\ access[a].activeTill \in Nat
      BY OracleAssumption DEF Feeder!Tick, Feeder!TypeOK, Feeder!OracleConstants
    <3>2. QED
      BY <3>1 DEF Feeder!CanRead
  <2>4. QED
    BY <2>1, <2>2, <2>3 DEF Feeder!Next
<1>4. QED
  BY <1>1, <1>2, <1>3, PTL DEF Feeder!Spec, AccessOnlyByOwner, Feeder!AccessOnlyByOwner

\* An oracle without an owner and without endpoints keeps its price and its readers.
THEOREM AbandonedOracleIsFrozen == Feeder!Spec => AbandonedIsFrozen
<1>1. [Feeder!Next]_(Feeder!vars) =>
        [oracleOwner = Zero /\ allowedEndpoints = {}
          => /\ oracleOwner' = Zero /\ allowedEndpoints' = {}
             /\ UNCHANGED <<currentPrice, lastUpdatedTimestamp, access>>]_(Feeder!vars)
  <2> SUFFICES ASSUME Feeder!Next, oracleOwner = Zero, allowedEndpoints = {}
               PROVE  /\ oracleOwner' = Zero /\ allowedEndpoints' = {}
                      /\ UNCHANGED <<currentPrice, lastUpdatedTimestamp, access>>
    BY Zenon
  <2>1. \A c \in Readers : c # oracleOwner
    BY OracleAssumption DEF Feeder!OracleConstants
  <2>2. \A c \in Readers : ~ Feeder!OwnerCall(c)
    BY <2>1 DEF Feeder!OwnerCall, Feeder!SetAllowed, Feeder!SetAccess,
                Feeder!TransferOwnership, Feeder!RenounceOwnership, Feeder!onlyOwner
  <2>3. \A c \in Readers, price \in Prices : ~ Feeder!UpdatePrice(c, price)
    BY DEF Feeder!UpdatePrice, Feeder!OnlyAllowed
  <2>4. QED
    BY <2>2, <2>3 DEF Feeder!Next, Feeder!Tick
<1>2. QED
  BY <1>1, PTL DEF Feeder!Spec, AbandonedIsFrozen, Feeder!AbandonedIsFrozen
=============================================================================
