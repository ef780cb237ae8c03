------------------------- MODULE MCRelayAdmission -------------------------
(***************************************************************************)
(* Small instances of the admission of requests.                           *)
(***************************************************************************)
EXTENDS RelayAdmission

CONSTANTS pm, vip, mallet, contract, relayUrl

MCLimits == [p \in {pm, vip, mallet} |->
               [budget |-> IF p = vip THEN 3 ELSE 1, pre |-> 1, post |-> 1]]

MCPolicy ==
  [maxMaxFee |-> 3, factor |-> 1, defaultPriority |-> 1, minValid |-> 1,
   hasUrl |-> FALSE, blackPaymasters |-> {mallet}, blackRecipients |-> {},
   whitePaymasters |-> {}, whiteRecipients |-> {contract},
   reserve |-> 1, overhead |-> 1, calldata |-> 1, maxBudget |-> 2, maxGas |-> 8]

LeanFees == {[base |-> 1, priority |-> 0]}

MCFees == LeanFees \cup {[base |-> 4, priority |-> 1]}

Good == [kind |-> "relay", paymaster |-> pm, recipient |-> contract,
         addressed |-> TRUE, maxFee |-> 2, priority |-> 1, fee |-> 1,
         validFor |-> 2, maxNonce |-> 3, calldata |-> 1, budget |-> 3, gas |-> 2]

\* One that expires while it is slowed down and whose nonce has passed once
\* another one is mined, for a paymaster the server trusts.
Hasty == [Good EXCEPT !.paymaster = vip, !.validFor = 1, !.maxNonce = 0]

Ping == [Good EXCEPT !.kind = "ping"]

MCRequests == {Good, Ping, Hasty}

VipRequests == {Good, Hasty}

=============================================================================
