SPECIFICATION FairErasureSpec
CONSTANTS
    Users = {u1}
    Purposes = {p1}
    MarketingEmail = p1
    OptionalAnalytics = p1
    Versions = {x1, x2}
    Current = x2
    Sessions = {s1, s2}
    AdminActs = FALSE
    MaxHistory = 2
    Writers = {w1}
    Dispatchers = {}
    Messages = {}
    Erasers = {e1}
    NONE = NONE
INVARIANTS LogIsEvidence GrantSurvivesRace
PROPERTIES EveryoneAnswered
CHECK_DEADLOCK FALSE
