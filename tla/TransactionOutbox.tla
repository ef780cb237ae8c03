-------------------------- MODULE TransactionOutbox --------------------------
(***************************************************************************)
(* What the relay server's transaction manager promises to its callers:    *)
(* an outbox.  Requests are accepted one after the other, never twice, and *)
(* executed once each, in the order of their acceptance, all of them.      *)
(***************************************************************************)
EXTENDS Naturals, Sequences

CONSTANT Requests

VARIABLES
    log,        \* the accepted requests, in order
    executed    \* how many of them have been executed

Init == log = <<>> /\ executed = 0

Accept(r) ==
    /\ \A i \in 1 .. Len(log) : log[i] # r
    /\ log' = Append(log, r)
    /\ UNCHANGED executed

Execute ==
    /\ executed < Len(log)
    /\ executed' = executed + 1
    /\ UNCHANGED log

Next == (\E r \in Requests : Accept(r)) \/ Execute

\* In order and once each; and all of them.
InOrder == Init /\ [][Next]_<<log, executed>>
Spec == InOrder /\ WF_<<log, executed>>(Execute)
=============================================================================
