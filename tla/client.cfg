SPECIFICATION FairSpec
CONSTANTS
    a1 = a1
    a2 = a2
    r1 = r1
    r2 = r2
    r3 = r3
    GoodRelays <- NoneOrOneGood
    Senders <- OneOrTwoSenders
    Calls = {1, 2}
    Accounts = {a1, a2}
    Relays = {r1, r2, r3}
    Preferred = {r3}
    Registered = {r1, r2}
    Offers <- AllOffers
    MaxFee = 10
    MaxPriority = 2
    Slack = 20
    SliceSize = 2
    MaxNonceGap = 1
    ValidSeconds = 1000
    Now = 2000
    FaultKinds = {"timeout", "withhold", "garble", "dry", "reload", "expire"}
    MaxFaults = 1
INVARIANTS ExecutedOnce SignedBySender
PROPERTIES NeverSameRelay CallsSettle
CHECK_DEADLOCK FALSE
