SPECIFICATION FairSpec

CONSTANTS
    core = core
    a = a
    b = b
    Core = core
    Requesters = {a, b}
    Requested = {"event", "poll", "other"}
    Faults = {"cmd", "mem", "kthread", "send", "hid", "flush"}
    Serial = TRUE
    MaxSwitches = 3

INVARIANTS OneLoop DriverAgrees FlowStopped CleanRemoval NothingDangles
PROPERTIES SwitchTakesEffect CallsReturn
CHECK_DEADLOCK FALSE
