SPECIFICATION ErasureSpec
CONSTANTS
    Users = {u1}
    Purposes = {email, analytics}
    MarketingEmail = email
    OptionalAnalytics = analytics
    Versions = {x2}
    Current = x2
    Sessions = {s1}
    AdminActs = FALSE
    MaxHistory = 2
    Writers = {w1}
    Dispatchers = {d1}
    Messages = {m1, m2}
    Erasers = {e1}
    NONE = NONE
INVARIANTS ErasureInv
PROPERTIES EraseMissesNothing RepeatIsNoOp ActedWithConsent ProcessedOnce ErasedSettles
CHECK_DEADLOCK FALSE
