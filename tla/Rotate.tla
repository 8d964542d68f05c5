-------------------------------- MODULE Rotate --------------------------------
(***************************************************************************)
(* The screen rotation daemon (rotate/bin/omarchy-surface-rotate): its     *)
(* start, the poll of the accelerometer, the keyboard events, the commands *)
(* and the state it publishes.                                             *)
(*                                                                         *)
(* One GLib main loop runs one callback at a time.  Around it the tablet   *)
(* is turned and keyboards come and go; the tablet moves slower than it is *)
(* polled.  How far it tilts and which axis carries the gravity is         *)
(* abstracted to the orientation it is held in, or flat.  What the daemon  *)
(* needs of the sensor and of Hyprland breaks and works again at any time; *)
(* what a poll does follows from what is broken when it comes.             *)
(***************************************************************************)
EXTENDS Integers, FiniteSets

CONSTANTS
    Orientations,   \* keys of TRANSFORMS
    Allow,          \* config["allow"]
    Settle,         \* config["settle_ms"], in ticks of the clock
    Commands,       \* the commands that are given, besides the orientations
    Keyboards,      \* whether keyboards come and go
    Faults,         \* a subset of FaultKinds
    MaxBroken       \* bound: of these, how many at a time

FaultKinds == {"sensor",    \* the accelerometer cannot be read
               "monitor",   \* Hyprland does not tell its monitors, or the rule cannot be written
               "reload",    \* Hyprland does not reload its configuration
               "early"}     \* a keyboard comes or goes while the daemon starts

RotateAssumption ==
    /\ "normal" \in Orientations /\ Allow \subseteq Orientations
    /\ {"flat", "none"} \cap Orientations = {}
    /\ Settle \in Nat \ {0}
    /\ Commands \subseteq {"toggle", "enable", "disable", "status"}
    /\ Keyboards \in BOOLEAN
    /\ Faults \subseteq FaultKinds /\ MaxBroken \in Nat

VARIABLES
    \* the world
    held,           \* how the tablet is held
    still,          \* for how long, at most Settle
    seen,           \* it has been polled since it was turned
    attached,       \* a physical keyboard is attached
    screen,         \* the transform Hyprland shows
    pending,        \* a udev event waits to be read
    broken,         \* what does not work now: a subset of Breakable
    \* the daemon
    phase,          \* "scan", "watch", "run": how far it has started
    present,        \* self.physical.present
    enabled,        \* self.enabled
    orientation,    \* self.orientation
    candidate,      \* self.candidate, or "none"
    age,            \* now minus self.candidate_since, at most Settle
    state,          \* state.json
    \* history
    blind,          \* since the candidate was new, a poll went by without a reading
    deceived        \* the daemon was not told that the screen is elsewhere: the last reload
                    \* failed, or the monitors could not be asked at the start

world == <<held, still, seen, attached, screen, pending, broken>>
daemon == <<phase, present, enabled, orientation, candidate, age, state>>
vars == <<world, daemon, blind, deceived>>

Breakable == Faults \ {"early"}

Published == [enabled |-> enabled, orientation |-> orientation, present |-> present]
Publish == state' = Published'

-----------------------------------------------------------------------------
(* Start: Daemon.__init__ and PhysicalKeyboards.__init__ *)

\* The keyboards are looked for ...
Scan ==
    /\ phase = "scan"
    /\ present' = attached
    /\ phase' = "watch"
    /\ UNCHANGED <<world, enabled, orientation, candidate, age, state, blind, deceived>>

\* ... and only then watched.
Watch ==
    /\ phase = "watch"
    /\ UNCHANGED <<world, present, orientation, candidate, age, blind, deceived>>
    /\ enabled' = ~present
    /\ phase' = "run"
    /\ Publish

-----------------------------------------------------------------------------
(* The poll *)

\* Screen.rotate: no monitor or no rule, no turn; a screen that is there already
\* needs no reload; a reload that fails goes unnoticed.
Turn(o) ==
    \/ /\ "monitor" \in broken
       /\ UNCHANGED <<orientation, screen, deceived>>
    \/ /\ "monitor" \notin broken
       /\ orientation' = o
       /\ deceived' = ("reload" \in broken /\ screen # o)
       /\ screen' = IF deceived' THEN screen ELSE o

\* Daemon.apply.
Apply(o) == Turn(o) /\ IF orientation' = o THEN Publish ELSE UNCHANGED state

\* Mutant: a tablet that lies flat is only passed over.
ForgetNot == UNCHANGED <<candidate, age, blind>>

Forget == candidate' = "none" /\ UNCHANGED <<age, blind>>

\* Mutant: the clock is started again by every poll.
WaitAgain == age' = 0 /\ UNCHANGED <<candidate, blind>>

Wait == UNCHANGED <<candidate, age, blind>>

\* What a reading that says o does: a new candidate starts its clock, and one that
\* has held long enough turns the screen.
Reading(o) ==
    IF o \notin Allow
    THEN Forget /\ UNCHANGED <<orientation, screen, state, deceived>>
    ELSE \/ /\ o # candidate
            /\ candidate' = o /\ age' = 0 /\ blind' = FALSE
            /\ UNCHANGED <<orientation, screen, state, deceived>>
         \/ /\ o = candidate
            /\ Wait
            /\ IF o # orientation /\ age >= Settle
               THEN Apply(o)
               ELSE UNCHANGED <<orientation, screen, state, deceived>>

Poll ==
    /\ phase = "run"
    /\ UNCHANGED <<held, still, attached, pending, broken, phase, present, enabled>>
    /\ seen' = TRUE
    /\ IF enabled /\ "sensor" \notin broken
       THEN Reading(held)
       ELSE /\ blind' = TRUE
            /\ UNCHANGED <<candidate, age, orientation, screen, state, deceived>>

-----------------------------------------------------------------------------
(* Keyboards *)

Rescan == attached

\* on_udev reads all events that wait, and looks again.
OnUdev ==
    /\ phase = "run"
    /\ pending
    /\ UNCHANGED <<held, still, seen, attached, screen, broken, phase, orientation,
                   candidate, age, blind, deceived>>
    /\ pending' = FALSE
    /\ present' = Rescan
    /\ IF present' # present
       THEN enabled' = ~present' /\ Publish
       ELSE UNCHANGED <<enabled, state>>

-----------------------------------------------------------------------------
(* Commands *)

Command(c) ==
    /\ phase = "run"
    /\ UNCHANGED <<world, phase, present, orientation, candidate, age, blind, deceived>>
    /\ enabled' = CASE c = "toggle"  -> ~enabled
                    [] c = "enable"  -> TRUE
                    [] c = "disable" -> FALSE
                    [] c = "status"  -> enabled
    /\ Publish

\* An orientation: turn there and lock.
TurnAndLock(o) ==
    /\ phase = "run"
    /\ UNCHANGED <<held, still, seen, attached, pending, broken, phase, present, age, blind>>
    /\ enabled' = FALSE
    /\ candidate' = "none"
    /\ Turn(o)
    /\ Publish

-----------------------------------------------------------------------------
(* The world *)

\* The tablet is turned.
Move(h) ==
    /\ h # held
    /\ seen
    /\ held' = h /\ still' = 0 /\ seen' = FALSE
    /\ UNCHANGED <<attached, screen, pending, broken, daemon, blind, deceived>>

Tick ==
    /\ still < Settle \/ age < Settle
    /\ still' = IF still < Settle THEN still + 1 ELSE still
    /\ age' = IF age < Settle THEN age + 1 ELSE age
    /\ UNCHANGED <<held, seen, attached, screen, pending, broken, phase, present, enabled,
                   orientation, candidate, state, blind, deceived>>

\* A keyboard is attached or detached; udev tells whoever watches.
Plug ==
    /\ Keyboards
    /\ phase = "run" \/ "early" \in Faults
    /\ attached' = ~attached
    /\ pending' = (phase = "run")
    /\ UNCHANGED <<held, still, seen, screen, broken, daemon, blind, deceived>>

\* The sensor or Hyprland stops working, or works again.
Break(f) ==
    /\ f \notin broken /\ Cardinality(broken) < MaxBroken
    /\ broken' = broken \cup {f}
    /\ UNCHANGED <<held, still, seen, attached, screen, pending, daemon, blind, deceived>>

Mend(f) ==
    /\ f \in broken
    /\ broken' = broken \ {f}
    /\ UNCHANGED <<held, still, seen, attached, screen, pending, daemon, blind, deceived>>

-----------------------------------------------------------------------------
(* The specification *)

Init ==
    /\ held = "flat" /\ still = 0 /\ seen = TRUE
    /\ attached \in IF Keyboards THEN BOOLEAN ELSE {FALSE}
    /\ screen \in Orientations
    /\ pending = FALSE
    /\ phase = "scan"
    /\ present = FALSE /\ enabled = FALSE
    /\ broken \in {b \in SUBSET Breakable : Cardinality(b) <= MaxBroken}
    /\ orientation = IF "monitor" \in broken THEN "normal" ELSE screen
    /\ candidate = "none" /\ age = 0
    /\ state = Published
    /\ blind = FALSE /\ deceived = (orientation # screen)

Next ==
    \/ Scan \/ Watch
    \/ Poll \/ OnUdev
    \/ \E c \in Commands : Command(c)
    \/ \E o \in Orientations : TurnAndLock(o)
    \/ \E h \in Orientations \cup {"flat"} : Move(h)
    \/ Tick \/ Plug
    \/ \E f \in Breakable : Break(f) \/ Mend(f)

Spec == Init /\ [][Next]_vars

\* The daemon starts, its main loop polls, and time passes.
Fairness == WF_vars(Scan \/ Watch) /\ WF_vars(Poll) /\ WF_vars(Tick)
FairSpec == Spec /\ Fairness

-----------------------------------------------------------------------------
(* Properties *)

\* The screen follows the tablet only to an orientation it has been held in for
\* settle_ms (omarchy-surface-rotate:67), as long as the tablet was looked at all
\* the time: the candidate outlives the polls that pass while rotation is off or
\* the sensor fails.  A turn by command disables.
SettledBeforeTurn ==
    [][orientation' # orientation /\ enabled' =>
         orientation' = held /\ (still >= Settle \/ blind)]_vars

\* A tablet that stays in an allowed orientation while rotation is on, and all that
\* failed works again, gets its screen turned and keeps it, whatever candidates,
\* clocks, commands and failed turns there were before (omarchy-surface-rotate:303-323).
\* Except where the daemon takes the screen to be there already: it does not notice
\* that a reload failed (:261), and takes a screen it could not ask for to be "normal"
\* when it starts (:284).
ScreenFollows ==
    \A o \in Allow :
        <>[](enabled /\ held = o /\ broken = {})
            => <>[](orientation = o /\ (screen = o \/ deceived))
=============================================================================
