---------------------------- MODULE MCRelayClient ----------------------------
(* Values of RelayClient's constants for TLC. *)
EXTENDS RelayClient

\* A relay content with the dapp's fees, one within the slack, one beyond it
\* and one that the ping filter throws for.
AllOffers ==
    {[minMax |-> 5, minPriority |-> 1, maxMax |-> 100],
     [minMax |-> 11, minPriority |-> 2, maxMax |-> 100],
     [minMax |-> 20, minPriority |-> 2, maxMax |-> 100],
     [minMax |-> 5, minPriority |-> 1, maxMax |-> 9]}

CONSTANTS a1, a2, r1, r2, r3

\* Up to renaming, the senders of two calls are these, and of two relays one is
\* good or none.  A third relay is preferred without being registered.
OneOrTwoSenders == {<<a1, a1>>, <<a1, a2>>}
NoneOrOneGood == {{}, {r1}}
=============================================================================
