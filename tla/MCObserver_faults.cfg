SPECIFICATION Spec
CONSTANTS
    Cohorts = {"pilot"}
    Versions = {"v1"}
    Every = Every
    None = None
    Operators = {o1, o2}
    Activatable <- MCActivatable
    Switches <- MCSwitches
    MaxChanges = 2
    Screens = {0, 2}
    CHANGE_THRESHOLD = 1
    Category = "ADULT_CONTENT"
    Cohort = "pilot"
    Version = "v1"
    DefaultConfig <- Stopped
    MAXIMUM_ITEMS = 2
    FLUSH_LIMIT = 1
    MaxReports = 3
    MaxPairings = 2
SYMMETRY Symmetry
INVARIANTS TypeOK LogExplainsActive QueueDelivered
PROPERTY KillSwitchSurvives
CHECK_DEADLOCK FALSE
