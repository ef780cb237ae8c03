\* Holders, the pool, the manager and the owner of the vault.
SPECIFICATION MCSpec
CONSTANTS
  Topics = {"pool", "consent", "manager"}
  alice = alice
  bob = bob
  vault = vault
  Zero = Zero
  Account <- MCAccount
  Vault = vault
  Deployer = alice
  MaxUint = 7
  VirtualShares = 1
  ShareUnit = 3
  FeeRate = 1
  BasisPoints = 2
  InitAsset <- LeanAssetHolding
  InitAToken <- ATokenHolding
  InitPoolCash = 2
  MaxPoolCash = 6
  AssetAmounts = {1, 2}
  ShareAmounts = {1}
  ApprovalAmounts = {2, 7}
  Spenders = {bob}
  SeedAssets = {2}
  SeedShares = {1}
  Receivers = {bob, vault}
  ExecTargets = {bob}
  RoleTargets = {bob}
  Yields = {1}
  Loans = {2}
INVARIANTS SupplyIsSum
PROPERTIES  RenouncedForGood PriceNeverFalls NoFreeProfit IsSharePool
\* At the bounds every call may revert.
CHECK_DEADLOCK FALSE
