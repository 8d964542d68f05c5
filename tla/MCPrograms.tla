----------------------------- MODULE MCPrograms -----------------------------
(***************************************************************************)
(* Five programs that have nothing to do with each other, explored one at  *)
(* a time: the long-press plugin, the rotation daemon, the brightness      *)
(* daemon, the installer of the kernel module and the HID reports of the   *)
(* driver.  The ones that do not run stay in one of their initial states.  *)
(***************************************************************************)
EXTENDS DkmsInstall, IptsHid

CONSTANTS
    Fingers, Width, MoveTolerance, LongPress,
    Orientations, Allow, Settle, Commands, Keyboards, RotateFaults,
    Readings, Curve, MinPercent, MaxPercent, Smoothing, JumpRatio, ResumeRatio, StepPercent,
    Deadband, MaxRaw, Hands, LightFaults, MaxBroken

VARIABLES
    runs,           \* which program does
    down, pos, layer, still, since, origin, loaded, fingers, armed, downPos, left, clicks,
    uncounted,
    held, steady, seen, attached, screen, pending, phase, present, rotating, orientation,
    candidate, age, rotateState, blind, rotateBroken, deceived,
    light, raw, lighting, lux, applied, paused, lightState, moved, standing, lightBroken,
    lightFailed

L == INSTANCE LongPress

R == INSTANCE Rotate WITH
    still <- steady, enabled <- rotating, state <- rotateState, broken <- rotateBroken,
    Faults <- RotateFaults

B == INSTANCE Light WITH
    enabled <- lighting, state <- lightState, failed <- lightFailed,
    broken <- lightBroken, Faults <- LightFaults

\* A curve of two pieces.
ThreePoints == <<<<0, 5>>, <<4, 40>>, <<16, 100>>>>

ASSUME ProgramsAssumption ==
    /\ L!LongPressAssumption /\ R!RotateAssumption /\ B!LightAssumption

pressVars == <<down, pos, layer, still, since, origin, loaded, fingers, armed, downPos,
               left, clicks, uncounted>>
rotateVars == <<held, steady, seen, attached, screen, pending, phase, present, rotating,
                orientation, candidate, age, rotateState, blind, rotateBroken, deceived>>
lightVars == <<light, raw, lightBroken, lighting, lux, applied, paused, lightState, moved,
               standing, lightFailed>>
all == <<runs, pressVars, rotateVars, lightVars, installVars, dataVars>>

Init ==
    /\ runs \in {"longpress", "rotate", "light", "install", "hid"}
    /\ L!Init /\ R!Init /\ B!Init /\ InstallInit /\ DataInit
    /\ runs # "rotate" => attached = FALSE /\ screen = "normal" /\ rotateBroken = {}
    /\ runs # "light" => /\ light = CHOOSE l \in Readings : TRUE
                         /\ raw = CHOOSE r \in Hands : TRUE
                         /\ lightBroken = {}
    /\ runs # "install" => version = CHOOSE v \in Versions : TRUE
    /\ runs # "hid" => core = "safe" /\ eds = 1

Next ==
    \/ /\ runs = "longpress" /\ L!Next
       /\ UNCHANGED <<runs, rotateVars, lightVars, installVars, dataVars>>
    \/ /\ runs = "rotate" /\ R!Next
       /\ UNCHANGED <<runs, pressVars, lightVars, installVars, dataVars>>
    \/ /\ runs = "light" /\ B!Next
       /\ UNCHANGED <<runs, pressVars, rotateVars, installVars, dataVars>>
    \/ /\ runs = "install" /\ InstallNext
       /\ UNCHANGED <<runs, pressVars, rotateVars, lightVars, dataVars>>
    \/ /\ runs = "hid" /\ DataNext
       /\ UNCHANGED <<runs, pressVars, rotateVars, lightVars, installVars>>

\* The fairness of the program that runs: a timer that is due fires and time passes
\* (LongPress), the daemons start and poll.
Fairness ==
    /\ WF_pressVars(runs = "longpress" /\ L!Tick)
    /\ WF_pressVars(runs = "longpress" /\ L!OnTimer)
    /\ WF_rotateVars(runs = "rotate" /\ (R!Scan \/ R!Watch))
    /\ WF_rotateVars(runs = "rotate" /\ R!Poll)
    /\ WF_rotateVars(runs = "rotate" /\ R!Tick)
    /\ WF_lightVars(runs = "light" /\ B!Poll)

FairSpec == Init /\ [][Next]_all /\ Fairness

-----------------------------------------------------------------------------
(* The properties of the plugin and the two daemons, where they are stated *)

\* A click is sent for one finger that was held still, once (LongPress).
ClickIsMeant == L!ClickIsMeant

\* A finger that is held still gets its click (LongPress).
HeldFingerClicks == L!HeldFingerClicks

\* The screen follows only to an orientation it was held in for a while (Rotate).
SettledBeforeTurn == R!SettledBeforeTurn

\* The screen gets turned when the tablet is held in an allowed orientation (Rotate).
ScreenFollows == R!ScreenFollows

\* A brightness set by hand stands, and nothing else is taken for a hand (Light).
HandWins == B!HandWins

\* The brightness settles at what the curve asks for (Light).
Converges == B!Converges
=============================================================================
