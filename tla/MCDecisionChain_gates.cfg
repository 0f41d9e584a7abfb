SPECIFICATION Spec
CONSTANTS
    Cohorts = {"pilot", "others"}
    Versions = {"LOCAL", "REMOTE", "FALLBACK", "RETIRED"}
    Every = Every
    Observations <- MCObservations
    RemoteAnswers <- MCAnswers
    Configurations <- MCConfigurations
    NoControls = NoControls
    Closed = Closed
    FAILURE_THRESHOLD = 3
    RECOVERY = 2
    MAX_ATTEMPTS = 2
    MaxTime = 2
INVARIANTS TypeOK BlockNeedsEveryGate BreakerHolds
PROPERTIES GatesOnlyLower
CHECK_DEADLOCK FALSE
