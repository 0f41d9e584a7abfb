SPECIFICATION FlowSpec
CONSTANTS
    Devices = {d1}
    DemoDevices = {}
    Device = d1
    Keys = {k1}
    Apps = {app1}
    AppOf <- MCAppOf
    NoKey = NoKey
    NoHandler = NoHandler
    Incidents = {i1, i2}
    ParentHandlers = {p1}
    DeviceHandlers = {h1, h2}
    Agents = {a1}
    CommandTTL = 1
    MaxCommandAttempts = 1
    Backoff <- MCBackoff
    BatchLimit = 2
    MaxTime = 2
    MaxCommands = 2
    Once = FALSE
    Wait = 0
    ClientTimeout = 1
    Faults = {"crash", "loss"}
SYMMETRY FlowSymmetry
INVARIANTS FlowTypeOK CursorNeverSkips AcknowledgedIsLifted
 
