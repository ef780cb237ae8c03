----------------------------- MODULE CustomOracle ---------------------------
(***************************************************************************)
(* CustomOracle (uniswapOracle.sol): a price pushed by allowed endpoints   *)
(* and read by accounts the owner has given access, each until a date of   *)
(* its own.  Calls are atomic and their callers arbitrary; block.timestamp *)
(* only grows.                                                             *)
(***************************************************************************)
EXTENDS Integers

CONSTANTS
  Account, Zero, Deployer,
  StampRange,          \* 2^32: timestamps are kept in a uint32
  Prices,              \* bound: the int224 prices that endpoints push
  Dates,               \* bound: the expiry dates the owner sets
  MaxTime              \* bound: block.timestamp stops here

(* The constants that make sense, for whoever instantiates this module.    *)
OracleConstants ==
  /\ Zero \notin Account /\ Deployer \in Account
  /\ StampRange \in Nat \ {0} /\ MaxTime \in Nat
  /\ Prices \subseteq Int /\ Dates \subseteq Nat

VARIABLES
  currentPrice, lastUpdatedTimestamp,
  allowedEndpoints,    \* the accounts _allowedEndpoints maps to true
  access,              \* per reader: whether it is on, and until when
  owner,
  now                  \* block.timestamp

vars == <<currentPrice, lastUpdatedTimestamp, allowedEndpoints, access, owner,
          now>>

onlyOwner(c) == c = owner
OnlyAllowed(c) == c \in allowedEndpoints

\* read() answers this reader.
\* Mutant: the comparison with the date is the wrong way round.
CanReadAfter(reader) ==
  access[reader].stat /\ access[reader].activeTill <= now
CanRead(reader) == access[reader].stat /\ access[reader].activeTill >= now

SetAllowed(c, endpoint, status) ==
  /\ onlyOwner(c)
  /\ allowedEndpoints' = IF status THEN allowedEndpoints \cup {endpoint}
                         ELSE allowedEndpoints \ {endpoint}
  /\ UNCHANGED <<currentPrice, lastUpdatedTimestamp, access, owner, now>>

SetAccess(c, reader, stat, till) ==
  /\ onlyOwner(c)
  /\ access' = [access EXCEPT ![reader] = [stat |-> stat, activeTill |-> till]]
  /\ UNCHANGED <<currentPrice, lastUpdatedTimestamp, allowedEndpoints, owner,
                 now>>

\* Mutant: an account with read access may push a price as well.
UpdatePriceByReader(c, price) ==
  /\ OnlyAllowed(c) \/ CanRead(c)
  /\ currentPrice' = price
  /\ lastUpdatedTimestamp' = now % StampRange
  /\ UNCHANGED <<allowedEndpoints, access, owner, now>>
UpdatePrice(c, price) ==
  /\ OnlyAllowed(c)
  /\ currentPrice' = price
  /\ lastUpdatedTimestamp' = now % StampRange
  /\ UNCHANGED <<allowedEndpoints, access, owner, now>>

TransferOwnership(c, to) ==
  /\ onlyOwner(c)
  /\ to # Zero
  /\ owner' = to
  /\ UNCHANGED <<currentPrice, lastUpdatedTimestamp, allowedEndpoints, access,
                 now>>

RenounceOwnership(c) ==
  /\ onlyOwner(c)
  /\ owner' = Zero
  /\ UNCHANGED <<currentPrice, lastUpdatedTimestamp, allowedEndpoints, access,
                 now>>

Tick ==
  /\ now < MaxTime
  /\ now' = now + 1
  /\ UNCHANGED <<currentPrice, lastUpdatedTimestamp, allowedEndpoints, access,
                 owner>>

Init ==
  /\ currentPrice = 0
  /\ lastUpdatedTimestamp = 0
  /\ allowedEndpoints = {}
  /\ access = [a \in Account |-> [stat |-> FALSE, activeTill |-> 0]]
  /\ owner = Deployer
  /\ now = 0

OwnerCall(c) ==
  \/ \E a \in Account, status \in BOOLEAN :
       \/ SetAllowed(c, a, status)
       \/ \E till \in Dates : SetAccess(c, a, status, till)
  \/ \E to \in Account : TransferOwnership(c, to)
  \/ RenounceOwnership(c)

Next ==
  \/ \E c \in Account : OwnerCall(c) \/ \E p \in Prices : UpdatePrice(c, p)
  \/ Tick

Spec == Init /\ [][Next]_vars

-----------------------------------------------------------------------------
(* Properties.                                                             *)

TypeOK ==
  /\ currentPrice \in Int
  /\ lastUpdatedTimestamp \in 0 .. StampRange - 1
  /\ allowedEndpoints \subseteq Account
  /\ access \in [Account -> [stat : BOOLEAN, activeTill : Nat]]
  /\ owner \in Account \cup {Zero}
  /\ now \in 0 .. MaxTime

\* A reader who is refused is answered again only after a call of the owner in
\* office: the passing of time, an endpoint or another reader never revive an
\* access that ran out or was switched off.
AccessOnlyByOwner ==
  [][\A a \in Account :
       ~CanRead(a) /\ CanRead(a)' => \E c \in Account : c = owner /\ OwnerCall(c)]_vars

\* Without an owner and without endpoints the price is frozen: nobody can take
\* the ownership or become an endpoint again, and readers whose access lasts keep
\* being answered with that price.
AbandonedIsFrozen ==
  [][owner = Zero /\ allowedEndpoints = {}
      => /\ owner' = Zero /\ allowedEndpoints' = {}
         /\ UNCHANGED <<currentPrice, lastUpdatedTimestamp, access>>]_vars
=============================================================================
