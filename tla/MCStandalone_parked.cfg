SPECIFICATION StandaloneSpec
CONSTANTS
    MaxAttempts = 5
    AttemptTimeout = 4
    BaseDelay = 1
    MaxDelay = 6
    HourLength = 3
    RatePerHour = 5
    Skew = 2
    LastMoment = 10
    NotYet = NotYet
    RentalCounts = {0, 3, 4, 5, 6, 10, 11, 20, 21, 25}
    ZoneLists <- MCZoneLists
    TripHours = {0, 2, 3, 6}
    Nobody = Nobody
    Replicas = {r1, r2}
    Operators = {o1}
    NoSession = NoSession
    MaxRuns = 7
    MaxCrashes = 1
    Cars = {1, 2}
    Stops = {1, 2}
    Home <- MCHome
    Hubs = {1, 2, 3, 4}
    HubOf <- MCHubOf
    BankOf <- MCBankOf
    NoHub = 0
    RefreshEvery = 2
    MaxTrips = 4
    MaxOutages = 1
    MaxWrites = 3
    Sites = {1, 2}
    Plates = {1, 2, 3, 4, 5}
    Accounts = {1, 2, 3}
    KeepActive = {2, 3}
    MaxSeedings = 5
    MaxStops = 2
INVARIANTS ParkedAtStation
CHECK_DEADLOCK FALSE
