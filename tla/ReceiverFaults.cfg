SPECIFICATION FairSpec

CONSTANTS
    NBuffers = 2
    DoorbellMod = 4
    Frames = {f1, f2}
    NoFrame = NoFrame
    Modes = {"event", "poll"}
    Faults = {"late", "send", "status"}
    MaxSessions = 1
    MaxMail = 2

INVARIANTS RingInv ReadIsStable
PROPERTIES ImplementsChannel EveryFrameIsRead StopTerminates
