---------------------------- MODULE MCPenalizer ----------------------------
(* A small instance of Penalizer for TLC. *)
EXTENDS Penalizer

\* A relayed call the worker may also have boosted or contradicted, and a call
\* that is no relay call; and requests that are nobody's offence.
MCRequests ==
    {[from |-> "worker", nonce |-> 0, call |-> "a", price |-> 1],
     [from |-> "worker", nonce |-> 1, call |-> "rogue", price |-> 1]}
=============================================================================
