SPECIFICATION Spec

CONSTANTS
    core = core
    a = a
    b = b
    Core = core
    Requesters = {a}
    Requested = {"event", "poll"}
    Faults = {}
    Serial = FALSE
    MaxSwitches = 2

INVARIANTS FlowStopped
CHECK_DEADLOCK FALSE
