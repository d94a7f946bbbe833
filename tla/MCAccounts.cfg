SPECIFICATION FairAccountsSpec
CONSTANTS
    Ids = {1, 2, 3, 4, 5}
    BoxOf <- MCBoxOf
    Addresses <- MCAddresses
    adams = adams
    claras = claras
    new = new
    PoolSize = 1
    MaxRequests = 3
    MaxErrors = 1
INVARIANTS OneAccountPerMailbox AnsweredHadRight OwnerGetsIn AccessIsAudited
PROPERTIES EveryRequestAnswered
CHECK_DEADLOCK FALSE
