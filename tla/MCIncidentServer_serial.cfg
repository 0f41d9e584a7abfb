SPECIFICATION FairSpec
CONSTANTS
    Devices = {d1}
    DemoDevices = {}
    Keys = {k1}
    Incidents = {i1, i2}
    ParentHandlers = {p1}
    DeviceHandlers = {h1}
    CommandTTL = 2
    MaxCommandAttempts = 2
    Backoff <- MCBackoff
    BatchLimit = 1
    MaxTime = 3
    MaxCommands = 2
INVARIANTS TypeOK   ReplayAfterUnlock
   
