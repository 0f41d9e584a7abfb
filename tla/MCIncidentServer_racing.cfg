SPECIFICATION Spec
CONSTANTS
    Devices = {d1, d2}
    DemoDevices = {d2}
    Keys = {k1}
    Incidents = {i1}
    ParentHandlers = {p1, p2}
    DeviceHandlers = {h1, h2}
    CommandTTL = 1
    MaxCommandAttempts = 1
    Backoff <- MCBackoff
    BatchLimit = 1
    MaxTime = 2
    MaxCommands = 2
SYMMETRY HandlerSymmetry
INVARIANTS UnlockedHasCommand 
PROPERTIES TerminalForGood
