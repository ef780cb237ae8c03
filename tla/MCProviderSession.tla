-------------------------- MODULE MCProviderSession --------------------------
(***************************************************************************)
(* Bounds for TLC: what the dapp asks, what the hub may emit, and the      *)
(* contracts.                                                              *)
(***************************************************************************)
EXTENDS ProviderSession, TLC

CONSTANTS c1, c2

Payload(method) ==
    [method |-> method, useGSN |-> TRUE, to |-> TRUE, fees |-> "both", id |-> 0,
     from |-> "node", chainOk |-> TRUE]

Receipt(r) == [Payload("receipt") EXCEPT !.id = r]

\* A dapp that sends a transaction and looks it up twice, one that looks up in two ways what it
\* sent before, and one that asks for other things.
MCDapps ==
    {(c1 :> {[Payload("send") EXCEPT !.fees = "none"], Receipt(1)})
        @@ (c2 :> {Receipt(1)}),
     (c1 :> {Receipt(1)}) @@ (c2 :> {[Payload("byHash") EXCEPT !.id = 1]}),
     (c1 :> {[Payload("send") EXCEPT !.to = FALSE],
             [Payload("signTransaction") EXCEPT !.from = "key", !.chainOk = FALSE],
             [Payload("signTyped") EXCEPT !.from = "key"]})
        @@ (c2 :> {Payload("accounts"), Receipt(0)})}

MCEvents ==
    {[id |-> r, name |-> "relayed", ok |-> ok] : r \in Requests, ok \in BOOLEAN}
        \cup {[id |-> r, name |-> "rejected", ok |-> FALSE] : r \in Requests}

=============================================================================
