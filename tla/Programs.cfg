SPECIFICATION FairSpec

CONSTANTS
    Fingers = {thumb, finger}
    Width = 3
    MoveTolerance = 1
    LongPress = 2
    Orientations = {"normal", "left", "inverted"}
    Allow = {"normal", "left"}
    Settle = 2
    Commands = {"toggle", "enable", "disable", "status"}
    Keyboards = TRUE
    RotateFaults = {"sensor", "monitor", "reload"}
    Readings = {1, 8, 12}
    Curve <- ThreePoints
    MinPercent = 5
    MaxPercent = 50
    Smoothing = 4
    JumpRatio = 3
    ResumeRatio = 2
    StepPercent = 4
    Deadband = 3
    MaxRaw = 24
    Hands = {2, 12}
    LightFaults = {"sensor", "backlight", "set"}
    MaxBroken = 1
    Versions = {"6.19.8.1", "6.19.8.2"}
    Faults = {"remove", "other", "kill"}
    FrameSizes = {1, 3000, 7475, 7476}
    NativeSizes = {6, 7000, 7488}
    DataSize = 7552

INVARIANTS FailedBuildKeepsOld DoneIsExact NothingStale
PROPERTIES ClickIsMeant HeldFingerClicks SettledBeforeTurn ScreenFollows HandWins Converges EveryReportArrives
