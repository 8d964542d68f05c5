SPECIFICATION Spec

CONSTANTS
    NBuffers = 2
    DoorbellMod = 4
    Frames = {f1}
    NoFrame = NoFrame
    Modes = {"poll"}
    Faults = {}
    MaxSessions = 1
    MaxMail = 2

INVARIANTS StopStopsFlow
