SPECIFICATION ResponsiveSpec

CONSTANTS
    NBuffers = 2
    DoorbellMod = 4
    Frames = {f1, f2}
    NoFrame = NoFrame
    Modes = {"event", "poll"}
    Faults = {}
    MaxSessions = 3
    MaxMail = 2

INVARIANTS FlushedMeansQuiet
PROPERTIES NeverStalls
