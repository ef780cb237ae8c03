-------------------------------- MODULE ERC20 -------------------------------
(***************************************************************************)
(* The share token: OpenZeppelin's ERC20 as pure operators on a ledger     *)
(* record, so that a handler that mints twice (shares, then fee shares)    *)
(* threads one ledger through its steps.  Zero is address(0), which holds  *)
(* no balance: _update treats it as the source of a mint and the sink of a *)
(* burn.                                                                   *)
(***************************************************************************)
EXTENDS FixedPoint, FiniteSets

CONSTANTS Account, Zero

ASSUME ERC20Assumption == /\ IsFiniteSet(Account)
                          /\ Zero \notin Account

Balances == [Account -> Uint]
Ledger == [balance : Balances, supply : Uint]
Allowances == [Account -> [Account -> Uint]]

EmptyLedger == [balance |-> [u \in Account |-> 0], supply |-> 0]
NoAllowances == [u \in Account |-> [v \in Account |-> 0]]

\* The share units a balance function stands for, one pair per unit, and how
\* many there are: the sum of the balances.
Units(b) == UNION {{u} \X (1 .. b[u]) : u \in Account}
SumOf(b) == Cardinality(Units(b))

\* A ledger as the contract keeps it: well typed, and the supply is the sum.
SoundLedger(t) == t \in Ledger /\ t.supply = SumOf(t.balance)

\* _update with from = address(0): the supply is checked, the balance is not.
CanMint(t, to, n) == to # Zero /\ Fits(t.supply + n)
Minted(t, to, n) ==
  [balance |-> [t.balance EXCEPT ![to] = WrapAdd(@, n)],
   supply  |-> t.supply + n]

\* _update with to = address(0): the balance is checked, the supply is not.
CanBurn(t, from, n) == t.balance[from] >= n
\* Mutant: the supply is not reduced.
BurnedKeepingSupply(t, from, n) ==
  [t EXCEPT !.balance = [t.balance EXCEPT ![from] = @ - n]]
Burned(t, from, n) ==
  [balance |-> [t.balance EXCEPT ![from] = @ - n],
   supply  |-> WrapSub(t.supply, n)]

\* _update between two accounts, which may be the same one.
CanMove(t, from, to, n) == to # Zero /\ t.balance[from] >= n
Moved(t, from, to, n) ==
  LET sent == [t.balance EXCEPT ![from] = @ - n]
  IN [t EXCEPT !.balance = [sent EXCEPT ![to] = WrapAdd(sent[to], n)]]

\* _spendAllowance: an allowance of MaxUint is infinite and is left alone.
CanSpend(al, holder, spender, n) == al[holder][spender] >= n
Spent(al, holder, spender, n) ==
  IF al[holder][spender] = MaxUint THEN al
  ELSE [al EXCEPT ![holder][spender] = @ - n]
=============================================================================
