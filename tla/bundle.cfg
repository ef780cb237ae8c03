SPECIFICATION FairSpec
CONSTANTS
    s1 = s1
    s2 = s2
    t1 = t1
    t2 = t2
    t3 = t3
    None = None
    Signers = {s1, s2}
    Connecting = {s1}
    Txs = {t1, t2, t3}
    SignerOf <- MCSignerOf
    IndexOf <- MCIndexOf
    Modes = {"queue", "local", "rpc"}
    BundleSize = 2
    MaxHeight = 2
 
PROPERTIES WaitEnds
CHECK_DEADLOCK FALSE
