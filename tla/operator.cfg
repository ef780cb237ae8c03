\* The operator's commands, and the deployments.
SPECIFICATION MCFairSpec
CONSTANTS
    own = own
    other = other
    tk = tk
    None = None
    Runs = {r1, r2}
    Starts <- MCStarts
    Operators = {own, other}
    Owner = own
    FirstToken = tk
    RegisterOptions <- MCRegisterOptions
    FundAmounts <- MCFundAmounts
    WithdrawOptions <- MCWithdrawOptions
    Funds = 1
    MinStake = 2
    MinDelay = 1
    SleepCount = 1
    Commands = {"deploy", "applyConfig", "cli"}
    Configs <- MCConfigs
    CliOptions <- MCCliOptions
    TestStake = 18
    Nothing = Nothing
    MaxContracts = 22
    MaxRuns = 3
    MaxCliRuns = 2
INVARIANTS RepeatedPaysOnce 
PROPERTIES RunsEnd
CHECK_DEADLOCK FALSE
