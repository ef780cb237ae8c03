SPECIFICATION FairRegistrationSpec
CONSTANTS
    MaxMoves = 3
    MaxFailures = 1
 
PROPERTIES GetsReady FundsReturned
CHECK_DEADLOCK FALSE
