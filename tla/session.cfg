SPECIFICATION FairSessionSpec
CONSTANTS
    c1 = c1
    c2 = c2
    Maker = 1
    Callers = {c1, c2}
    Dapps <- MCDapps
    Events <- MCEvents
    Requests = {1}
    SentBefore = {1}
    MaxBlocks = 3
    MaxPageSize = 2
    MaxPageCount = 2
    ResponseLimit = 1
    MaxAttempts = 1
    MaxSplit = 4
    MaxHeadReads = 2
    BlocksForLookup = 1
    InputProvider = "ProviderEthersV5"
    HasProvider = TRUE
    SignTypedOverride = TRUE
    Inits = {1, 2}
    Paymasters = {"pm"}
    Hubs = {"0x0", "hub"}
    Forwarders = {"0x0", "fwd"}
    Given = ""
    HasApiKey = TRUE
    FromServer = {"null"}
    Official = "null"
    SkipErc165 = FALSE
    EphemeralAccounts = {"key"}
INVARIANTS  EveryEventReturned
PROPERTIES CallsAreAnswered
CHECK_DEADLOCK FALSE
