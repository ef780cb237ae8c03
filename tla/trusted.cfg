SPECIFICATION Spec
CONSTANTS
  Calls = {c1, c2}
  Requests <- VipRequests
  NetworkFees <- MCFees
  None = None
  pm = pm
  vip = vip
  mallet = mallet
  contract = contract
  relayUrl = relayUrl
  TypeTwo = TRUE
  Policy <- MCPolicy
  Limits <- MCLimits
  Trusted = {vip}
  InitialReputation = 2
  MaximumReputation = 2
  ThrottleReputation = 2
  BlockReputation = 0
  ThrottleDelay = 1
  AbuseChange = 1
  AbuseWindow = 1
  AbuseTimeout = 1
  AlertedDelay = 1
  RefreshTimeout = 1
  ScanBack = 1
  MaxLag = 2
  Deposit = 2
  MaxFaults = 1

CHECK_DEADLOCK FALSE
PROPERTIES TrustedIsServed
