SPECIFICATION Spec
CONSTANTS
    Families = {f1, f2}
    Installations = {n1}
    Keys = {k1, k2, k3}
    IdempotencyKeys = {ik1, ik2}
    NoKey = NoKey
    Handlers = {h1, h2}
    Second = 1
    Drift <- Ahead
    MAX_CLOCK_SKEW_SECONDS = 1
    MAX_PAIRING_ATTEMPTS = 1
    PAIRING_TTL = 2
    CREDENTIAL_TTL = 2
    ROTATION_GRACE = 1
    MaxHeartbeatAge = 1
    MaxTime = 2
    MaxChallenges = 2
    MaxDevices = 2
    MaxRequests = 2
SYMMETRY IdentitySymmetry
INVARIANTS TypeOK OneLiveChain PairedOnce AnswersAgree
PROPERTIES AcceptedOnce FrozenWhenRevoked
CHECK_DEADLOCK FALSE
