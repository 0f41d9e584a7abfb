SPECIFICATION FairSpec
CONSTANTS
    Devices = {d1}
    DemoDevices = {}
    Keys = {k1}
    Incidents = {i1}
    ParentHandlers = {p1, p2}
    DeviceHandlers = {h1}
    CommandTTL = 1
    MaxCommandAttempts = 2
    Backoff <- MCBackoff
    BatchLimit = 1
    MaxTime = 2
    MaxCommands = 2
PROPERTIES EveryCommandSettles
