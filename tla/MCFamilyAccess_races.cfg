SPECIFICATION Spec
CONSTANTS
    Emails = {e1, e2}
    Families = {f1}
    Handlers = {h1, h2}
    AnyFamily = AnyFamily
    MAX_LOGIN_ATTEMPTS = 1
    LOGIN_WINDOW = 0
    SESSION_TTL = 1
    PASSWORD_RESET_TTL = 1
    MaxTime = 1
    MaxPassword = 2
    MaxMemberships = 3
    MaxSessions = 1
    MaxTokens = 2
SYMMETRY AccessSymmetry
INVARIANTS TypeOK GuessesBounded ResetTakesOver
PROPERTIES OutForGood
CHECK_DEADLOCK FALSE
