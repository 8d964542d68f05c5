SPECIFICATION FairSpec

CONSTANTS
    control = control
    thread = thread
    Receivers = {control, thread}
    Codes = {"QUIESCE_IO", "FEEDBACK"}
    CodeOf <- OwnCodes
    Late = {thread}
    MaxRequests = 3

INVARIANTS OnlyLateLeftovers NoLostWakeup
PROPERTIES ImplementsBox OwnAnswer AnswerReceived
