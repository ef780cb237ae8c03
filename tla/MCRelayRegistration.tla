------------------------ MODULE MCRelayRegistration -------------------------
(* RelayRegistration for TLC, which needs no more than its constants. *)
EXTENDS RelayRegistration
=============================================================================
