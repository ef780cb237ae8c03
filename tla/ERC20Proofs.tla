----------------------------- MODULE ERC20Proofs ----------------------------
(***************************************************************************)
(* Lemmas about the share ledger: minting, burning and moving shares keep  *)
(* a sound ledger sound, so that the unchecked arithmetic of _update never *)
(* wraps.  A sum of balances is the number of share units, and a unit more *)
(* or less on one account is a unit more or less in that set.  First, what *)
(* the prices of both vaults need of products and quotients.               *)
(***************************************************************************)
EXTENDS ERC20, Integers, FiniteSetTheorems, TLAPS

(* Arithmetic of naturals and integers.                                    *)

\* Products of a natural keep an order, and give it back.
LEMMA MulMono ==
  ASSUME NEW a \in Int, NEW b \in Int, NEW c \in Nat, a <= b
  PROVE  a * c <= b * c
  OBVIOUS

LEMMA MulCancel ==
  ASSUME NEW a \in Int, NEW b \in Int, NEW c \in Nat \ {0}, a * c <= b * c
  PROVE  a <= b
<1> SUFFICES ASSUME a >= b + 1 PROVE FALSE
  OBVIOUS
<1>1. (b + 1) * c <= a * c
  BY MulMono
<1>2. QED
  BY <1>1

\* A quotient times its divisor is the dividend, rounded down.
LEMMA DivBounds ==
  ASSUME NEW p \in Nat, NEW d \in Nat \ {0}
  PROVE  /\ p \div d \in Nat
         /\ (p \div d) * d <= p
         /\ p < (p \div d) * d + d
         /\ p = (p \div d) * d + (p % d)
         /\ p % d \in 0 .. d - 1
<1>1. p = (p \div d) * d + (p % d)
  OBVIOUS
<1>2. p % d \in 0 .. d - 1
  OBVIOUS
<1>3. p \div d \in Nat
  OBVIOUS
<1>4. QED
  BY <1>1, <1>2, <1>3

\* mulDiv, rounded down and up.
LEMMA RoundsDown ==
  ASSUME NEW x \in Nat, NEW y \in Nat, NEW d \in Nat \ {0}
  PROVE  /\ MulDivDown(x, y, d) \in Nat
         /\ MulDivDown(x, y, d) * d <= x * y
         /\ x * y < MulDivDown(x, y, d) * d + d
<1> DEFINE p == x * y
<1>1. p \in Nat
  OBVIOUS
<1> HIDE DEF p
<1>2. QED
  BY <1>1, DivBounds DEF MulDivDown, p

LEMMA RoundsUp ==
  ASSUME NEW x \in Nat, NEW y \in Nat, NEW d \in Nat \ {0}
  PROVE  /\ MulDivUp(x, y, d) \in Nat
         /\ x * y <= MulDivUp(x, y, d) * d
         /\ (MulDivUp(x, y, d) - 1) * d < x * y
<1> DEFINE p == x * y
           q == p \div d
<1>1. p \in Nat
  OBVIOUS
<1> HIDE DEF p
<1>2. q \in Nat /\ q * d <= p /\ p < q * d + d /\ p = q * d + (p % d)
      /\ p % d \in 0 .. d - 1
  BY <1>1, DivBounds
<1>3. MulDivUp(x, y, d) = q + (IF p % d > 0 THEN 1 ELSE 0)
  BY DEF MulDivUp, p
<1> HIDE DEF q
<1>4. QED
  BY <1>1, <1>2, <1>3 DEF p

\* Half of a number, rounded down.
LEMMA HalfBounds ==
  ASSUME NEW f \in Nat
  PROVE  f \div 2 \in Nat /\ 2 * (f \div 2) <= f /\ f <= 2 * (f \div 2) + 1
  OBVIOUS

-----------------------------------------------------------------------------
(* The ledger.                                                             *)

\* The share units behind bounded balances are finitely many.
LEMMA UnitsFinite ==
  ASSUME NEW M \in Nat, NEW b \in [Account -> 0 .. M]
  PROVE  IsFiniteSet(Units(b)) /\ SumOf(b) \in Nat
<1>1. IsFiniteSet(1 .. M)
  BY FS_Interval
<1>2. IsFiniteSet(Account \X (1 .. M))
  BY <1>1, FS_Product, ERC20Assumption
<1>3. Units(b) \subseteq Account \X (1 .. M)
  BY DEF Units
<1>4. IsFiniteSet(Units(b))
  BY <1>2, <1>3, FS_Subset
<1>5. QED
  BY <1>4, FS_CardinalityType DEF SumOf

\* The units first .. last of one account are last - first + 1.
LEMMA ColumnSize ==
  ASSUME NEW u \in Account, NEW first \in Nat, NEW last \in Nat,
         first <= last + 1
  PROVE  /\ IsFiniteSet({u} \X (first .. last))
         /\ Cardinality({u} \X (first .. last)) = last - first + 1
<1>1. IsFiniteSet(first .. last)
      /\ Cardinality(first .. last) = last - first + 1
  BY FS_Interval
<1>2. IsFiniteSet({u}) /\ Cardinality({u}) = 1
  BY FS_Singleton
<1>3. /\ IsFiniteSet({u} \X (first .. last))
      /\ Cardinality({u} \X (first .. last))
           = Cardinality({u}) * Cardinality(first .. last)
  BY <1>1, <1>2, FS_Product
<1>4. QED
  BY <1>1, <1>2, <1>3

\* No balance exceeds the sum.
LEMMA BalanceAtMostSum ==
  ASSUME NEW M \in Nat, NEW b \in [Account -> 0 .. M], NEW u \in Account
  PROVE  b[u] <= SumOf(b)
<1>1. {u} \X (1 .. b[u]) \subseteq Units(b)
  BY DEF Units
<1>2. Cardinality({u} \X (1 .. b[u])) = b[u]
  <2>1. b[u] \in Nat /\ 1 <= b[u] + 1
    OBVIOUS
  <2>2. Cardinality({u} \X (1 .. b[u])) = b[u] - 1 + 1
    BY <2>1, ColumnSize
  <2>3. QED
    BY <2>1, <2>2
<1>3. QED
  BY <1>1, <1>2, UnitsFinite, FS_Subset DEF SumOf

\* A balance that is n higher makes the sum n higher.
LEMMA SumRaised ==
  ASSUME NEW M \in Nat, NEW b \in [Account -> 0 .. M],
         NEW c \in [Account -> 0 .. M], NEW u \in Account, NEW n \in Nat,
         c[u] = b[u] + n, \A v \in Account \ {u} : c[v] = b[v]
  PROVE  SumOf(c) = SumOf(b) + n
<1> DEFINE new == {u} \X (b[u] + 1 .. b[u] + n)
<1>1. Units(c) = Units(b) \cup new
  BY DEF Units
<1>2. Units(b) \cap new = {}
  BY DEF Units
<1>3. IsFiniteSet(Units(b)) /\ SumOf(b) \in Nat
  BY UnitsFinite
<1>4. IsFiniteSet(new) /\ Cardinality(new) = n
  <2>1. b[u] + 1 \in Nat /\ b[u] + n \in Nat /\ b[u] + 1 <= b[u] + n + 1
    OBVIOUS
  <2>2. /\ IsFiniteSet(new)
        /\ Cardinality(new) = (b[u] + n) - (b[u] + 1) + 1
    BY <2>1, ColumnSize
  <2>3. QED
    BY <2>1, <2>2
<1> HIDE DEF new
<1>5. Cardinality(Units(b) \cup new)
        = Cardinality(Units(b)) + Cardinality(new) - Cardinality(Units(b) \cap new)
  BY <1>3, <1>4, FS_Union
<1>6. Cardinality(Units(b) \cap new) = 0
  BY <1>2, FS_EmptySet
<1>7. QED
  BY <1>1, <1>3, <1>4, <1>5, <1>6 DEF SumOf

\* Below the limit, unchecked arithmetic is exact.
LEMMA WrapAddExact ==
  ASSUME NEW x \in Nat, NEW y \in Nat, x + y <= MaxUint
  PROVE  WrapAdd(x, y) = x + y
  BY FixedPointAssumption DEF WrapAdd

\* A mint that passes the supply check keeps the ledger sound and lowers no
\* balance.
LEMMA MintedSound ==
  ASSUME NEW t, SoundLedger(t), NEW to \in Account, NEW n \in Nat,
         CanMint(t, to, n)
  PROVE  /\ SoundLedger(Minted(t, to, n))
         /\ \A u \in Account : Minted(t, to, n).balance[u] >= t.balance[u]
<1> DEFINE b == t.balance
           c == Minted(t, to, n).balance
<1>1. /\ t = [balance |-> b, supply |-> t.supply]
      /\ b \in [Account -> 0 .. MaxUint]
      /\ t.supply \in 0 .. MaxUint
      /\ t.supply = SumOf(b)
      /\ t.supply + n \in 0 .. MaxUint
      /\ MaxUint \in Nat
  BY FixedPointAssumption DEF SoundLedger, Ledger, Balances, Uint, CanMint, Fits
<1>2. b[to] + n <= MaxUint
  <2>1. b[to] <= SumOf(b)
    BY <1>1, BalanceAtMostSum
  <2>2. QED
    BY <1>1, <2>1
<1>3. WrapAdd(b[to], n) = b[to] + n
  BY <1>1, <1>2, WrapAddExact
<1>4. c = [b EXCEPT ![to] = b[to] + n]
  BY <1>1, <1>3 DEF Minted
<1>5. /\ c \in [Account -> 0 .. MaxUint]
      /\ c[to] = b[to] + n
      /\ \A v \in Account \ {to} : c[v] = b[v]
  BY <1>1, <1>2, <1>4
<1>6. \A u \in Account : c[u] >= b[u]
  BY <1>1, <1>5
<1>7. Minted(t, to, n) = [balance |-> c, supply |-> t.supply + n]
  BY DEF Minted
<1> HIDE DEF b, c
<1>8. SumOf(c) = SumOf(b) + n
  BY <1>1, <1>5, SumRaised
<1>9. SoundLedger(Minted(t, to, n))
  BY <1>1, <1>5, <1>7, <1>8 DEF SoundLedger, Ledger, Balances, Uint
<1>10. QED
  BY <1>6, <1>9 DEF b, c

\* A burn that passes the balance check keeps the ledger sound.
LEMMA BurnedSound ==
  ASSUME NEW t, SoundLedger(t), NEW from \in Account, NEW n \in Nat,
         CanBurn(t, from, n)
  PROVE  /\ SoundLedger(Burned(t, from, n))
         /\ n <= t.supply
         /\ Burned(t, from, n).supply = t.supply - n
<1> DEFINE b == t.balance
           c == [b EXCEPT ![from] = @ - n]
<1>1. /\ b \in [Account -> 0 .. MaxUint]
      /\ t.supply \in 0 .. MaxUint
      /\ t.supply = SumOf(b)
      /\ n <= b[from]
      /\ MaxUint \in Nat
  BY FixedPointAssumption DEF SoundLedger, Ledger, Balances, Uint, CanBurn
<1>2. /\ c \in [Account -> 0 .. MaxUint]
      /\ b[from] = c[from] + n
      /\ \A v \in Account \ {from} : b[v] = c[v]
  BY <1>1
<1>3. b[from] <= SumOf(b)
  BY <1>1, BalanceAtMostSum
<1>4. n <= t.supply
  BY <1>1, <1>3
<1>5. Burned(t, from, n) = [balance |-> c, supply |-> t.supply - n]
  BY <1>1, <1>4 DEF Burned, WrapSub
<1> HIDE DEF b, c
<1>6. SumOf(b) = SumOf(c) + n /\ SumOf(c) \in Nat
  BY <1>1, <1>2, SumRaised, UnitsFinite
<1>7. QED
  BY <1>1, <1>2, <1>4, <1>5, <1>6 DEF SoundLedger, Ledger, Balances, Uint

\* A transfer, to oneself included, keeps the ledger sound.
LEMMA MovedSound ==
  ASSUME NEW t, SoundLedger(t), NEW from \in Account, NEW to \in Account,
         NEW n \in Nat, CanMove(t, from, to, n)
  PROVE  /\ SoundLedger(Moved(t, from, to, n))
         /\ Moved(t, from, to, n).supply = t.supply
         /\ \A u \in Account : Moved(t, from, to, n).balance[u]
              >= IF u = from THEN t.balance[u] - n ELSE t.balance[u]
<1> DEFINE b == t.balance
           d == [b EXCEPT ![from] = @ - n]
           c == [d EXCEPT ![to] = WrapAdd(d[to], n)]
<1>1. /\ t = [balance |-> b, supply |-> t.supply]
      /\ b \in [Account -> 0 .. MaxUint]
      /\ t.supply \in 0 .. MaxUint
      /\ t.supply = SumOf(b)
      /\ n <= b[from]
      /\ MaxUint \in Nat
  BY FixedPointAssumption DEF SoundLedger, Ledger, Balances, Uint, CanMove
<1>2. /\ d \in [Account -> 0 .. MaxUint]
      /\ b[from] = d[from] + n
      /\ \A v \in Account \ {from} : b[v] = d[v]
  BY <1>1
<1>3. Moved(t, from, to, n) = [balance |-> c, supply |-> t.supply]
  BY <1>1 DEF Moved
<1> HIDE DEF b, d
<1>4. SumOf(b) = SumOf(d) + n /\ SumOf(d) \in Nat
  BY <1>1, <1>2, SumRaised, UnitsFinite
<1>5. d[to] <= SumOf(d)
  BY <1>1, <1>2, BalanceAtMostSum
<1>6. d[to] \in Nat /\ d[to] + n <= MaxUint
  BY <1>1, <1>2, <1>4, <1>5
<1>7. WrapAdd(d[to], n) = d[to] + n
  BY <1>6, WrapAddExact
<1>8. /\ c \in [Account -> 0 .. MaxUint]
      /\ c[to] = d[to] + n
      /\ \A v \in Account \ {to} : c[v] = d[v]
  BY <1>1, <1>2, <1>6, <1>7
<1> HIDE DEF c
<1>9. SumOf(c) = SumOf(d) + n
  BY <1>1, <1>2, <1>8, SumRaised
<1>10. SoundLedger(Moved(t, from, to, n))
  BY <1>1, <1>3, <1>4, <1>8, <1>9 DEF SoundLedger, Ledger, Balances, Uint
<1>11. \A u \in Account : c[u] >= IF u = from THEN b[u] - n ELSE b[u]
  BY <1>1, <1>2, <1>8
<1>12. QED
  BY <1>3, <1>10, <1>11 DEF b

\* The ledger of the constructor is sound.
LEMMA EmptySound == SoundLedger(EmptyLedger)
<1>1. Units(EmptyLedger.balance) = {}
  BY DEF Units, EmptyLedger
<1>2. QED
  BY <1>1, FS_EmptySet, FixedPointAssumption
     DEF SoundLedger, Ledger, Balances, Uint, EmptyLedger, SumOf

\* Spending an allowance that suffices leaves well-typed allowances.
LEMMA SpentType ==
  ASSUME NEW al \in Allowances, NEW holder \in Account,
         NEW spender \in Account, NEW n \in Nat,
         CanSpend(al, holder, spender, n)
  PROVE  Spent(al, holder, spender, n) \in Allowances
  BY FixedPointAssumption DEF Allowances, Spent, CanSpend, Uint
=============================================================================
