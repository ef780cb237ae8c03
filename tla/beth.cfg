\* Holders of the two-asset vault while oracle prices move.
SPECIFICATION MCSpec
CONSTANTS
  Topics = {"prices", "oracle", "operator", "settings"}
  MaxOut = 4
  alice = alice
  bob = bob
  vault = vault
  Zero = Zero
  btc = btc
  eth = eth
  usdc = usdc
  Account <- MCAccount
  Vault = vault
  Deployer = alice
  MaxUint = 1000
  Token <- MCToken
  Oracle <- MCOracle
  AssetUnit <- MCAssetUnit
  ShareUnit = 4
  PriceUnit = 8
  CostUnit = 2
  BtcScale = 2
  Permille = 4
  FeeParts = 4
  InitSlippage = 1
  InitFee = 1
  InitConfig <- BtcEth
  InitTokens <- MCTokens
  InitQuote <- EvenPrices
  InitMarket <- EvenMarket
  Configs <- MCConfigs
  ShareAmounts = {4}
  OpAmounts = {4}
  OpShareAmounts = {1}
  SeedAssets <- Seed
  SeedShares = {8}
  ApprovalAmounts = {4}
  Spenders = {alice}
  Receivers = {bob}
  ExecTargets = {bob}
  RoleTargets = {bob}
  Slippages = {0}
  Fees = {0}
  Quotes <- MCQuotes
  Markets = {4}
  DryPools = {btc}
  MaxCount = 8
  Readers <- MCReaders
  StampRange = 2
  Prices = {8}
  Dates = {1}
  MaxTime = 2
PROPERTIES BackingKept RedeemKeepsPrice WholeSharesPayTheirWay AccessOnlyByOwner AbandonedIsFrozen
\* At the bounds every call may revert.
CHECK_DEADLOCK FALSE
