------------------------------- MODULE FedVault ------------------------------
(***************************************************************************)
(* BethVault with the CustomOracle that prices both of its assets.         *)
(***************************************************************************)
EXTENDS BethVault

CONSTANTS Readers, StampRange, Prices, Dates, MaxTime
VARIABLES currentPrice, lastUpdatedTimestamp, allowedEndpoints, access, oracleOwner, now

Feeder == INSTANCE CustomOracle WITH Account <- Readers, owner <- oracleOwner
oracle == <<currentPrice, lastUpdatedTimestamp, allowedEndpoints, access, oracleOwner, now>>

ASSUME OracleAssumption == Feeder!OracleConstants

\* read() as the vault sees it: a refusal is a quote it cannot use.
Answer == IF Feeder!CanRead(Vault) THEN currentPrice ELSE -1

\* What the oracle promises its readers and its vault, see CustomOracle: access is the
\* owner's to give, and an oracle given up stays as it is.
AccessOnlyByOwner == Feeder!AccessOnlyByOwner
AbandonedIsFrozen == Feeder!AbandonedIsFrozen
=============================================================================
