SPECIFICATION Spec

CONSTANTS
    a = a
    b = b
    Tasks = {a, b}
    None = None
    NBuffers = 2
    Kinds = {"get", "set"}
    Faults = {"late", "send", "status", "size"}
    MaxRequests = 2
    MaxUnread = 2

SYMMETRY Symmetry
INVARIANTS LockHeldInside NoForeignAnswer GetsSucceed
CHECK_DEADLOCK FALSE
