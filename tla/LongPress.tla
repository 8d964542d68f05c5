------------------------------ MODULE LongPress ------------------------------
(***************************************************************************)
(* The Hyprland plugin that turns a long press on the touchscreen into a   *)
(* right click (longpress/src/main.cpp): the handlers of the touch events, *)
(* the timer, loading and unloading.                                       *)
(*                                                                         *)
(* The compositor calls one handler at a time.  Fingers touch the screen   *)
(* whether the plugin is loaded or not; what they really do (down, pos,    *)
(* still, since) is kept apart from what the plugin remembers of it        *)
(* (fingers, armed, downPos, left).  A position is a number on a line.     *)
(***************************************************************************)
EXTENDS Integers

CONSTANTS
    Fingers,        \* touch points
    Width,          \* positions are 0 .. Width
    MoveTolerance,  \* MOVE_TOLERANCE
    LongPress       \* LONG_PRESS_MS, in ticks of the clock

LongPressAssumption ==
    /\ Width \in Nat /\ MoveTolerance \in Nat
    /\ LongPress \in Nat \ {0}

Positions == 0 .. Width
Off == -1                       \* the timer is not set

VARIABLES
    \* the screen
    down,           \* the fingers on it
    pos,            \* the position each finger was last seen at
    layer,          \* the press is on a layer surface
    still,          \* one finger came down alone, no other since, and it has not travelled
    since,          \* for how long that has been so, at most LongPress
    origin,         \* where that finger came down
    \* the plugin
    loaded,
    fingers,        \* g_fingers
    armed,          \* g_armed
    downPos,        \* g_downPos
    left,           \* ticks until g_timer fires, or Off
    clicks,         \* right clicks sent since the screen was last free, at most 2
    \* history
    uncounted       \* the plugin was loaded after the screen was last free

screenVars == <<down, pos, layer, still, since, origin>>
pluginVars == <<loaded, fingers, armed, downPos, left, clicks>>
vars == <<screenVars, pluginVars, uncounted>>

Distance(p, q) == IF p < q THEN q - p ELSE p - q
Travelled(p, from) == Distance(p, from) > MoveTolerance

-----------------------------------------------------------------------------
(* The handlers *)

Disarm == armed' = FALSE /\ left' = Off

Lift == IF fingers > 0 THEN fingers - 1 ELSE 0

\* Mutant: the timer is not set.
OnDownUntimed(p) ==
    /\ fingers' = fingers + 1
    /\ IF fingers' # 1
       THEN Disarm /\ UNCHANGED downPos
       ELSE /\ downPos' = p
            /\ armed' = TRUE
            /\ UNCHANGED left

OnDown(p) ==
    /\ fingers' = fingers + 1
    /\ IF fingers' # 1
       THEN Disarm /\ UNCHANGED downPos
       ELSE /\ downPos' = p
            /\ armed' = TRUE
            /\ left' = LongPress

\* Mutant: the distance is taken from the last position.
OnMotionFromLast(f, p) ==
    /\ IF armed /\ Travelled(p, pos[f])
       THEN Disarm
       ELSE UNCHANGED <<armed, left>>
    /\ UNCHANGED <<fingers, downPos>>

OnMotion(f, p) ==
    /\ IF armed /\ Travelled(p, downPos)
       THEN Disarm
       ELSE UNCHANGED <<armed, left>>
    /\ UNCHANGED <<fingers, downPos>>

OnUp == fingers' = Lift /\ Disarm /\ UNCHANGED downPos

OnCancel == fingers' = Lift /\ Disarm /\ UNCHANGED downPos

Unseen == UNCHANGED <<fingers, armed, downPos, left>>

-----------------------------------------------------------------------------
(* What happens on the screen, and the handler that is told of it *)

TouchDown(f) ==
    /\ f \notin down
    /\ down' = down \cup {f}
    /\ still' = (down = {})
    /\ since' = 0
    /\ layer' \in IF down = {} THEN BOOLEAN ELSE {layer}
    /\ \E p \in Positions :
         /\ pos' = [pos EXCEPT ![f] = p]
         /\ origin' = IF down = {} THEN p ELSE origin
         /\ IF loaded THEN OnDown(p) ELSE Unseen
    /\ UNCHANGED <<loaded, clicks, uncounted>>

TouchMotion(f) ==
    /\ f \in down
    /\ \E p \in Positions :
         /\ pos' = [pos EXCEPT ![f] = p]
         /\ still' = (still /\ ~Travelled(p, origin))
         /\ IF loaded THEN OnMotion(f, p) ELSE Unseen
    /\ UNCHANGED <<down, layer, since, origin, loaded, clicks, uncounted>>

Raise(f) ==
    /\ f \in down
    /\ down' = down \ {f}
    /\ still' = FALSE
    /\ clicks' = IF down' = {} THEN 0 ELSE clicks
    /\ uncounted' = (uncounted /\ down' # {})
    /\ UNCHANGED <<pos, layer, since, origin, loaded>>

TouchUp(f) == Raise(f) /\ IF loaded THEN OnUp ELSE Unseen

TouchCancel(f) == Raise(f) /\ IF loaded THEN OnCancel ELSE Unseen

-----------------------------------------------------------------------------
(* The timer *)

\* rightClickAtFinger leaves layer surfaces alone.
RightClick == clicks' = IF layer \/ clicks = 2 THEN clicks ELSE clicks + 1

OnTimer ==
    /\ loaded
    /\ left = 0
    /\ left' = Off
    /\ IF armed /\ fingers = 1
       THEN armed' = FALSE /\ RightClick
       ELSE UNCHANGED <<armed, clicks>>
    /\ UNCHANGED <<screenVars, loaded, fingers, downPos, uncounted>>

\* Time passes; a timer that is due fires some time later.
Tick ==
    /\ left > 0 \/ since < LongPress
    /\ left' = IF left > 0 THEN left - 1 ELSE left
    /\ since' = IF since < LongPress THEN since + 1 ELSE since
    /\ UNCHANGED <<down, pos, layer, still, origin, loaded, fingers, armed, downPos,
                   clicks, uncounted>>

-----------------------------------------------------------------------------
(* PLUGIN_INIT and PLUGIN_EXIT *)

Load ==
    /\ ~loaded
    /\ loaded' = TRUE
    /\ fingers' = 0 /\ armed' = FALSE /\ left' = Off
    /\ uncounted' = (down # {})
    /\ UNCHANGED <<screenVars, downPos, clicks>>

Unload ==
    /\ loaded
    /\ loaded' = FALSE
    /\ left' = Off
    /\ UNCHANGED <<screenVars, fingers, armed, downPos, clicks, uncounted>>

Init ==
    /\ down = {} /\ pos = [f \in Fingers |-> 0]
    /\ layer = FALSE /\ still = FALSE /\ since = 0 /\ origin = 0
    /\ loaded = FALSE
    /\ fingers = 0 /\ armed = FALSE /\ downPos = 0 /\ left = Off /\ clicks = 0
    /\ uncounted = FALSE

Next ==
    \/ \E f \in Fingers :
         TouchDown(f) \/ TouchMotion(f) \/ TouchUp(f) \/ TouchCancel(f)
    \/ OnTimer \/ Tick
    \/ Load \/ Unload

Spec == Init /\ [][Next]_vars

\* Time passes, and the event loop runs a timer that is due.
Fairness == WF_vars(Tick) /\ WF_vars(OnTimer)
FairSpec == Spec /\ Fairness

-----------------------------------------------------------------------------
(* Properties *)

\* A right click is sent only for one finger that came down alone, was held for
\* LONG_PRESS_MS, never moved further than MOVE_TOLERANCE from where it came
\* down, and is still there (main.cpp:8-10), and once for each press (main.cpp:82).
\* A plugin that was loaded under a finger takes the next one for the first until
\* the screen has been free.
ClickIsMeant ==
    [][clicks' > clicks /\ ~uncounted =>
         still /\ since >= LongPress /\ clicks = 0 /\ \E f \in Fingers : down = {f}]_vars

\* A finger that is held still on no layer surface gets its click (main.cpp:79-83).
HeldFingerClicks ==
    loaded /\ armed /\ still /\ ~layer ~> clicks > 0 \/ ~still \/ ~loaded
=============================================================================
