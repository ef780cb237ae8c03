SPECIFICATION SdkSpec
CONSTANTS
    p1 = p1
    p2 = p2
    Callers = {p1, p2}
    None = None
    Latest = Latest
    Throwing = Throwing
    Txs <- MCTxs
    TxData <- MCTxData
    Bodies <- MCBodies
    InitChain <- MCInitChain
    Difficulty <- MCDifficulty
    InitRelays <- MCInitRelays
    Contents <- MCContents
    Jobs <- MCJobs
    Factors = {1, 2}
    Length = 3
    ProofLengths = {1, 2}
    InitHeights = {Latest, 3, 4}
    MaxHeight = 9
    MaxReorgs = 1
    MaxDepth = 2
    MaxChunkSize = 3
    Int32Max = 7
INVARIANTS   RevealSpendsItsCommit
CHECK_DEADLOCK FALSE
