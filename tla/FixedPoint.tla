----------------------------- MODULE FixedPoint -----------------------------
(***************************************************************************)
(* Unsigned integer arithmetic as the contracts do it.  Solidity 0.8       *)
(* reverts on overflow outside `unchecked` blocks and wraps inside them;   *)
(* OpenZeppelin's Math.mulDiv computes floor(x*y/d) with a full-width      *)
(* intermediate product and reverts only when the quotient does not fit.   *)
(* MaxUint stands for type(uint256).max.                                   *)
(***************************************************************************)
EXTENDS Naturals

CONSTANT MaxUint

ASSUME FixedPointAssumption == MaxUint \in Nat \ {0}

Uint == 0 .. MaxUint

\* A checked operation reverts unless its result is a Uint.
Fits(x) == x \in Uint

\* `unchecked` arithmetic wraps modulo 2^256.
WrapAdd(x, y) == (x + y) % (MaxUint + 1)
WrapSub(x, y) == IF x >= y THEN x - y ELSE MaxUint + 1 - (y - x)

MulDivDown(x, y, d) == (x * y) \div d
MulDivUp(x, y, d) == (x * y) \div d + (IF (x * y) % d > 0 THEN 1 ELSE 0)
=============================================================================
