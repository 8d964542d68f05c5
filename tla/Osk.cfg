SPECIFICATION Spec

CONSTANTS
    Startup = 2
    Debounce = 1
    Ignore = 2
    Rearm = 3
    Owner = 3
    HideOnBlur = TRUE
    MaxRare = 2
    MaxQueue = 1
    Commands = {"show", "hide", "toggle", "layout", "status"}
    Keys = {"printed"}
    World = {"field", "lock", "plug", "theme", "crash", "fcitx", "shell", "spawn", "late"}

INVARIANTS NeverKilled ShownIsVisible StaysArmed FocusTracked
