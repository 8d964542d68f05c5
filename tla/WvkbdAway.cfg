SPECIFICATION Spec
CHECK_DEADLOCK FALSE
CONSTANT Taps <- Daemon
INVARIANT NoneStuckWhenAway
