SPECIFICATION ErasureSpec
CONSTANTS
    Users = {u1}
    Purposes = {email, analytics}
    MarketingEmail = email
    OptionalAnalytics = analytics
    Versions = {x2}
    Current = x2
    Sessions = {s1}
    AdminActs = FALSE
    MaxHistory = 2
    Writers = {w1}
    Dispatchers = {}
    Messages = {m1}
    Erasers = {e1}
    NONE = NONE
INVARIANTS ErasedStaysBare
CHECK_DEADLOCK FALSE
