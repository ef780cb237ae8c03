------------------------------ MODULE SharePool -----------------------------
(***************************************************************************)
(* What a vault promises its holders, without accounts, fees or the pool   *)
(* behind it: a pot of assets, shares that claim it, and a gate.  The      *)
(* price of a share is (assets + 1) / (supply + VirtualShares); holders    *)
(* come and go and yield arrives without lowering it by more than the      *)
(* Slack shares that rounding may add.  Only the manager stands outside    *)
(* that promise: he seeds the vault at a price of his own, and, where it   *)
(* is custodial, takes assets out, of an open vault only.                  *)
(***************************************************************************)
EXTENDS Naturals

CONSTANTS
  VirtualShares, Slack,   \* naturals, Slack at most VirtualShares
  Seeds,                  \* what the manager may seed: pairs <<assets, shares>>
  Custodial               \* whether the manager can take assets out

VARIABLES assets, supply, open

vars == <<assets, supply, open>>

Init == assets = 0 /\ supply = 0 /\ open = FALSE

PriceKept == (assets' + 1) * (supply + VirtualShares)
               >= (assets + 1) * (supply' + VirtualShares - Slack)

\* The manager opens the vault, or seeds it again.
Seed ==
  \E seed \in Seeds :
    /\ open' = TRUE
    /\ assets' = assets + seed[1]
    /\ supply' = supply + seed[2]

\* Holders pay in and get shares; either may round to nothing.
Enter ==
  /\ open
  /\ assets' >= assets
  /\ supply' >= supply
  /\ PriceKept
  /\ UNCHANGED open

\* Holders give up shares for assets.  The fee may issue as many again.
Leave ==
  /\ open
  /\ assets' < assets
  /\ supply' <= supply
  /\ PriceKept
  /\ UNCHANGED open

\* A holder gives up shares for nothing.
Forfeit ==
  /\ open
  /\ supply' < supply
  /\ UNCHANGED <<assets, open>>

\* Yield and donations, before the vault is open as well.
Gain ==
  /\ assets' > assets
  /\ UNCHANGED <<supply, open>>

\* The manager, or an address he approved, takes assets out.
Take ==
  /\ Custodial
  /\ open
  /\ assets' < assets
  /\ UNCHANGED <<supply, open>>

Next == Seed \/ Enter \/ Leave \/ Forfeit \/ Gain \/ Take

Spec == Init /\ [][Next]_vars
=============================================================================
