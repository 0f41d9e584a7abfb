SPECIFICATION FlowSpec
CONSTANTS
    Devices = {d1}
    DemoDevices = {}
    Device = d1
    Keys = {k1}
    Apps = {app1}
    AppOf <- MCAppOf
    NoKey = NoKey
    NoHandler = NoHandler
    Incidents = {i1}
    ParentHandlers = {p1, p2}
    DeviceHandlers = {h1}
    Agents = {a1}
    CommandTTL = 1
    MaxCommandAttempts = 2
    Backoff <- MCBackoff
    BatchLimit = 2
    MaxTime = 2
    MaxCommands = 2
    Once = TRUE
    Wait = 1
    ClientTimeout = 1
    Faults = {"crash", "loss", "restart"}
SYMMETRY FlowSymmetry
INVARIANTS AcknowledgedMeansExecuted
