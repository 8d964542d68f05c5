SPECIFICATION Spec

CONSTANTS
    Startup = 10
    Debounce = 5
    Ignore = 10
    Rearm = 16
    Owner = 20
    HideOnBlur = TRUE
    MaxRare = 0
    MaxQueue = 2
    Commands = {"show"}
    Keys = {"printed", "silent"}
    World = {}

PROPERTIES TypingKeepsKeyboard
