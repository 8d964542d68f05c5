--------------------------------- MODULE Light ---------------------------------
(***************************************************************************)
(* The automatic brightness daemon (light/bin/omarchy-surface-light): the  *)
(* poll that follows the light sensor with the backlight, the commands,    *)
(* the published state, and somebody who sets the brightness by hand.      *)
(*                                                                         *)
(* Light and brightness are integers; the curve is interpolated on a       *)
(* linear scale here, on a logarithmic one in the code.  The smoothed      *)
(* light is rounded towards the reading.  What the daemon needs breaks and *)
(* works again at any time; what a poll does follows from what is broken   *)
(* when it comes, except for what a setting that fails still does.         *)
(***************************************************************************)
EXTENDS Integers, Sequences, FiniteSets, FiniteSetsExt

CONSTANTS
    Readings,               \* what the sensor may read
    Curve,                  \* config["curve"]: <<lux, percent>>, sorted
    MinPercent, MaxPercent, \* config["min_percent"], config["max_percent"]
    Smoothing,              \* 1 / config["smoothing"]
    JumpRatio, ResumeRatio, StepPercent, Deadband,
    MaxRaw,                 \* max_brightness of the backlight
    Hands,                  \* the raw brightness somebody sets
    Faults,                 \* a subset of FaultKinds
    MaxBroken               \* bound: of these, how many at a time

FaultKinds == {"sensor",    \* the light sensor cannot be read
               "backlight", \* the backlight cannot be read
               "set"}       \* brightnessctl fails, or does not end in time

LightAssumption ==
    /\ Readings \subseteq Nat /\ Readings # {}
    /\ Curve \in Seq(Nat \X Nat) /\ Curve # <<>>
    /\ MinPercent \in 0 .. 100 /\ MaxPercent \in MinPercent .. 100
    /\ {Smoothing, JumpRatio, ResumeRatio, StepPercent, Deadband, MaxRaw} \subseteq Nat \ {0}
    /\ Hands \subseteq 0 .. MaxRaw
    /\ Faults \subseteq FaultKinds /\ MaxBroken \in Nat

VARIABLES
    \* the world
    light,          \* what the sensor reads
    raw,            \* the backlight
    broken,         \* what does not work now: a subset of Faults
    \* the daemon
    enabled, lux, applied,
    paused,         \* self.paused_at; each of the three may be None
    state,          \* state.json
    \* history
    moved,          \* it was set by hand while the daemon followed, and not polled since
    standing,       \* the light at the poll that saw it, until the light has changed
    failed          \* the last brightness the daemon set may not be set

daemon == <<enabled, lux, applied, paused, state>>
history == <<moved, standing, failed>>
vars == <<light, raw, broken, daemon, history>>

None == -1
Distance(a, b) == IF a < b THEN b - a ELSE a - b
AtLeast(a, b) == IF a < b THEN b ELSE a
AtMost(a, b) == IF a < b THEN a ELSE b

Published == [enabled |-> enabled, paused |-> paused # None]
Publish == state' = Published'

-----------------------------------------------------------------------------
(* Light and brightness *)

\* round(n / d): a half goes to the even neighbour.
Round(n, d) ==
    IF 2 * (n % d) < d \/ (2 * (n % d) = d /\ (n \div d) % 2 = 0)
    THEN n \div d ELSE n \div d + 1

\* Backlight.percent.
PercentOf == [r \in 0 .. MaxRaw |-> Round(r * 100, MaxRaw)]
Percent(r) == PercentOf[r]

\* What brightnessctl makes of a percentage.
RawOf(percent) == Round(percent * MaxRaw, 100)

Clamp(percent) == AtMost(MaxPercent, AtLeast(MinPercent, percent))

\* brightness_for.
BrightnessFor(l) ==
    LET above == {i \in 1 .. Len(Curve) : l <= Curve[i][1]} IN
    Clamp(IF above = {} THEN Curve[Len(Curve)][2]
          ELSE LET b == Min(above) IN
               IF b = 1 THEN Curve[1][2]
               ELSE LET p == Curve[b - 1]
                        q == Curve[b]
                    IN  p[2] + Round((l - p[1]) * (q[2] - p[2]), q[1] - p[1]))

\* The first reading and big jumps are followed at once, the rest smoothly.
Smoothed(reading) ==
    IF lux = None \/ reading > lux * JumpRatio \/ reading * JumpRatio < lux THEN reading
    ELSE LET part == (Distance(reading, lux) + Smoothing - 1) \div Smoothing
         IN  IF reading > lux THEN lux + part ELSE lux - part

\* The light has changed by resume_ratio.
ReallyChanged(now, since) ==
    \/ AtLeast(now, 1) >= AtLeast(since, 1) * ResumeRatio
    \/ AtLeast(now, 1) * ResumeRatio <= AtLeast(since, 1)

-----------------------------------------------------------------------------
(* The poll *)

Nearer(current, target) ==
    current + AtLeast(-StepPercent, AtMost(StepPercent, target - current))

\* set_percent; the caller goes on with what it asked for when it fails.
SetPercent(percent) ==
    \/ /\ "set" \notin broken
       /\ raw' = RawOf(percent) /\ applied' = Percent(raw') /\ failed' = FALSE
    \/ /\ "set" \in broken
       /\ raw' \in {raw, RawOf(percent)} /\ applied' = percent /\ failed' = TRUE

\* Mutant: it is followed wherever it was moved.
ByHandNever(current) == FALSE

\* Somebody else moved the brightness.
ByHand(current) == applied # None /\ Distance(current, applied) > 1

Pause == paused' = lux' /\ applied' = None /\ UNCHANGED <<raw, failed>> /\ Publish

\* Mutant: a step away is near enough.
CloseEnoughToStep(current, target) == Distance(target, current) <= StepPercent

CloseEnough(current, target) == Distance(target, current) < Deadband

\* Follow the light; a state that is only no longer paused is not published.
Follow(current) ==
    LET target == BrightnessFor(lux') IN
    /\ paused' = None
    /\ IF CloseEnough(current, target)
       THEN /\ applied' = IF applied # None THEN applied ELSE current
            /\ UNCHANGED <<raw, state, failed>>
       ELSE SetPercent(Nearer(current, target)) /\ Publish

Adjust(current) ==
    CASE ByHand(current) -> Pause
      [] ~ByHand(current) /\ paused # None /\ ~ReallyChanged(lux', paused) ->
            UNCHANGED <<raw, applied, paused, state, failed>>
      [] OTHER -> Follow(current)

\* What was set by hand stands until the light has changed.
Remember ==
    /\ moved' = FALSE
    /\ standing' = IF moved
                   THEN IF paused' = None /\ ReallyChanged(lux', lux) THEN None ELSE lux'
                   ELSE IF standing # None /\ ReallyChanged(lux', standing) THEN None
                   ELSE standing

\* Without a reading of the light nothing is done; without one of the backlight, and
\* while the daemon is off, the light is followed and the brightness left alone.
Poll ==
    /\ "sensor" \notin broken
    /\ UNCHANGED <<light, broken, enabled>>
    /\ lux' = Smoothed(light)
    /\ IF enabled /\ "backlight" \notin broken
       THEN Adjust(Percent(raw)) /\ Remember
       ELSE UNCHANGED <<raw, applied, paused, state, history>>

-----------------------------------------------------------------------------
(* Commands *)

Command(c) ==
    /\ UNCHANGED <<light, raw, broken, lux>>
    /\ enabled' = CASE c = "toggle"  -> ~enabled
                    [] c = "enable"  -> TRUE
                    [] c = "disable" -> FALSE
                    [] c = "status"  -> enabled
    /\ IF c \in {"toggle", "enable"} /\ enabled'
       THEN /\ paused' = None /\ applied' = None
            /\ moved' = FALSE /\ standing' = None /\ failed' = FALSE
       ELSE UNCHANGED <<paused, applied, history>>
    /\ Publish

-----------------------------------------------------------------------------
(* The world *)

Following == enabled /\ paused = None /\ applied # None

\* Somebody sets the brightness, by more than the daemon's tolerance.  Bound: once
\* between two polls while the daemon follows; what it does not look at, it forgets.
SetByHand(r) ==
    /\ ~moved
    /\ Distance(Percent(r), Percent(raw)) > 1
    /\ Following => Distance(Percent(r), applied) > 1
    /\ raw' = r /\ moved' = Following
    /\ UNCHANGED <<light, broken, daemon, standing, failed>>

LightChanges(l) ==
    /\ l # light
    /\ light' = l
    /\ UNCHANGED <<raw, broken, daemon, history>>

\* The sensor, the backlight or brightnessctl stops working, or works again.
Break(f) ==
    /\ f \notin broken /\ Cardinality(broken) < MaxBroken
    /\ broken' = broken \cup {f}
    /\ UNCHANGED <<light, raw, daemon, history>>

Mend(f) ==
    /\ f \in broken
    /\ broken' = broken \ {f}
    /\ UNCHANGED <<light, raw, daemon, history>>

-----------------------------------------------------------------------------
(* The specification *)

Init ==
    /\ light \in Readings /\ raw \in Hands
    /\ broken \in {b \in SUBSET Faults : Cardinality(b) <= MaxBroken}
    /\ enabled = TRUE
    /\ lux = IF "sensor" \in broken THEN None ELSE light
    /\ applied = None /\ paused = None
    /\ state = Published
    /\ moved = FALSE /\ standing = None /\ failed = FALSE

Next ==
    \/ Poll
    \/ \E c \in {"toggle", "enable", "disable", "status"} : Command(c)
    \/ \E r \in Hands : SetByHand(r)
    \/ \E l \in Readings : LightChanges(l)
    \/ \E f \in Faults : Break(f) \/ Mend(f)

Spec == Init /\ [][Next]_vars

\* The daemon polls, every poll_ms.  Nothing has to break or to be mended.
FairSpec == Spec /\ WF_vars(Poll)

-----------------------------------------------------------------------------
(* Properties *)

\* A brightness set by hand while the daemon follows stands until the light has
\* changed by resume_ratio since, or the daemon is switched on again (README.md:196).
\* And the daemon gives way only to somebody: rounding on a backlight whose levels are
\* not percentages is never taken for a hand (omarchy-surface-light:248), except when
\* a brightness could not be set.
HandWins ==
    [][/\ raw' # raw /\ Poll =>
            /\ moved => ReallyChanged(lux', lux)
            /\ ~moved /\ standing # None => ReallyChanged(lux', standing)
       /\ paused = None /\ paused' # None => moved \/ failed]_vars

LeftAlone(l) == Following /\ light = l /\ broken = {}

\* Left alone in a light that stays as it is, with all that failed working again, the
\* brightness comes within the deadband of what the curve asks for and stays there: it
\* neither swings around it nor stalls before it, whatever the light, the hands and the
\* failures were before (omarchy-surface-light:261-270).
Converges ==
    \A l \in Readings :
        <>[]LeftAlone(l) => <>[](Distance(Percent(raw), BrightnessFor(l)) < Deadband)
=============================================================================
