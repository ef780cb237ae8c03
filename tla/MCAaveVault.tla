----------------------------- MODULE MCAaveVault ----------------------------
(***************************************************************************)
(* Small instances of AaveVault for TLC.  The fee is one half and one      *)
(* share is two virtual shares, so that on amounts of a few units the fee, *)
(* its half, the fee shares and every rounding take different values.      *)
(***************************************************************************)
EXTENDS AaveVault

CONSTANTS alice, bob, vault, Topics
VARIABLE topic

\* alice deploys the vault and seeds it with aTokens; bob has assets only.
MCUser == {alice, bob}
MCAccount == MCUser \cup {vault}
Holding(a, b) == [u \in MCAccount |-> CASE u = alice -> a
                                        [] u = bob -> b
                                        [] OTHER -> 0]
LeanAssetHolding == Holding(0, 3)
ATokenHolding == Holding(2, 0)

(* A run is about one topic.  Holders call the vault and managers seed it, *)
(* at any time, in each; beside that, yield accrues and the pool lends     *)
(* ("pool"), shares are approved ("consent"), or the manager and the owner *)
(* make any other call ("manager").                                        *)
Seeds(c) ==
  \E to \in Receivers, from \in User, n \in SeedAssets, s \in SeedShares :
    InitializeVault(c, to, from, n, s)
Calls == \E c \in User : HolderCall(c) \/ Seeds(c)
Managed ==
  \/ \E c \in User : RoleCall(c)
  \/ \E s \in aSpenders, to \in User, n \in AssetAmounts : SpendAToken(s, to, n)

MCInit == Init /\ topic \in Topics
PoolStep == topic = "pool" /\ (Calls \/ Outside) /\ UNCHANGED <<allowance, topic>>
ConsentStep == topic = "consent" /\ Calls /\ UNCHANGED topic
RoleStep == topic = "manager" /\ (Calls \/ Managed) /\ UNCHANGED <<allowance, topic>>

MCNext == PoolStep \/ ConsentStep \/ RoleStep
MCSpec == MCInit /\ [][MCNext]_<<vars, topic>>
=============================================================================
