---------------------------------- MODULE Osk ----------------------------------
(***************************************************************************)
(* The on-screen keyboard daemon (osk/bin/omarchy-surface-osk, class       *)
(* Daemon), fcitx5 on the other end of D-Bus, the wvkbd process, the user. *)
(*                                                                         *)
(* One GLib main loop runs one callback at a time.  fcitx5 reports that a  *)
(* text field gets or loses the focus only while it is in on-screen        *)
(* keyboard mode, and leaves that mode at every key; the daemon arms it    *)
(* again.  Time passes in ticks.  A callback is one step; one that blocks  *)
(* (session_locked up to 3 s, stop up to 2 s) is a main loop that is late: *)
(* time passes while messages wait and timers are due ("late"), and then   *)
(* the callback runs.                                                      *)
(*                                                                         *)
(* A message is a record: what it says, and what it is about: the focus of *)
(* a text field, or only the mode fcitx5 is in.  The daemon never looks at *)
(* "about"; the properties do.                                             *)
(***************************************************************************)
EXTENDS OskKeyboard, FiniteSets, Sequences

CONSTANTS
    Debounce,       \* FOCUS_DEBOUNCE_MS
    Ignore,         \* how long arm() has fcitx5 ignored
    Rearm,          \* REARM_AFTER_TYPING_MS
    Owner,          \* how long after fcitx5 came up it is armed
    HideOnBlur,     \* config["hide_on_blur"]
    Commands,       \* the commands that are given
    Keys,           \* the keys the user types: a subset of KeyKinds
    World,          \* what else happens: a subset of WorldKinds
    MaxRare,        \* bound: so many rare events
    MaxQueue        \* bound: nothing new happens while so many messages are on their way

KeyKinds == {"printed",     \* wvkbd prints a character for it
             "silent"}      \* a modifier, or a key pressed under one
WorldKinds == {"field",     \* the focus moves between text fields
               "lock",      \* the session is locked and unlocked
               "plug",      \* keyboards come and go
               "theme",     \* the theme changes
               "crash",     \* wvkbd ends
               "fcitx",     \* fcitx5 is restarted
               "shell",     \* the shell does not tell whether it is locked
               "spawn",     \* wvkbd cannot be started
               "late"}      \* the main loop or fcitx5 takes its time

ASSUME OskAssumption ==
    /\ Debounce \in Nat /\ Ignore \in Nat /\ Rearm \in Nat /\ Owner \in Nat
    /\ HideOnBlur \in BOOLEAN
    /\ Commands \subseteq {"show", "hide", "toggle", "layout", "status"}
    /\ Keys \subseteq KeyKinds /\ World \subseteq WorldKinds
    /\ MaxRare \in Nat /\ MaxQueue \in Nat

VARIABLES
    \* the world
    field,          \* a text field has the focus
    lock,           \* the session is locked
    attached,       \* a physical keyboard is attached
    pending,        \* a udev event waits to be read
    \* fcitx5
    ui,             \* its user interface: "vk" in on-screen keyboard mode, or "other"
    toFcitx,        \* calls on their way: "arm" (both calls of arm), "ask" (CurrentUI)
    fromFcitx,      \* "show" and "hide" calls; "vk", "other" and "error" answers to "ask",
                    \* "failed" to "arm"
    \* the daemon
    present,        \* self.physical.present
    focused, locked, armed,
    ignoring,       \* ignore_fcitx_until minus now
    focusTimer,     \* apply_focus: what is left of it, what it applies and is about
    rearmTimer,     \* what is left until rearm_after_typing
    ownerTimers,    \* what is left of each timer of on_fcitx_owner
    kb,             \* self.keyboard
    state,          \* state.json
    \* history
    misled,         \* since the focus was last reported, it moved without a report, the
                    \* report was dropped, or what is not about the focus was taken for it
    overtaken,      \* since fcitx5 was last asked whether a hide was about the focus, a
                    \* text field was found to have it
    rare            \* locks, plugs, themes, crashes, layouts, restarts of fcitx5, late ticks

world == <<field, lock, attached, pending>>
fcitx == <<ui, toFcitx, fromFcitx>>
arming == <<armed, ignoring, toFcitx>>
timers == <<focusTimer, rearmTimer, ownerTimers>>
history == <<misled, overtaken>>
vars == <<world, fcitx, present, focused, locked, armed, ignoring, timers, kb, state,
          history, rare>>

Message(call, about) == [call |-> call, about |-> about]

ReportsFocus(m) == m.about = "focus" /\ m.call \in {"show", "hide"}

\* A report of the focus is among the messages.
Reported(messages) == \E i \in DOMAIN messages : ReportsFocus(messages[i])

\* Bound: commands, plugs and restarts wait until few messages are on their way; the
\* focus and keys are reported whatever the daemon has called.
Room == Len(toFcitx) + Len(fromFcitx) < MaxQueue
RoomToReport == Len(fromFcitx) < MaxQueue /\ Len(toFcitx) <= MaxQueue

Rarely == rare < MaxRare /\ rare' = rare + 1
Miss(when) == misled' = (misled \/ when)

Off == -1       \* a timer that is not set
NoFocus == [left |-> Off, on |-> FALSE, about |-> "mode"]

Published ==
    [physicalKeyboard |-> present, focused |-> focused, locked |-> locked,
     visible |-> kb.visible]
Publish == state' = Published'

-----------------------------------------------------------------------------
(* Arming fcitx5 *)

CallFcitx ==
    /\ armed' = TRUE /\ ignoring' = Ignore
    /\ toFcitx' = Append(toFcitx, Message("arm", "mode"))

\* arm: nothing to report to while a keyboard is attached.
Arm == IF present THEN UNCHANGED arming ELSE CallFcitx

\* rearm_after_typing.
RearmFires ==
    /\ rearmTimer = 0
    /\ rearmTimer' = Off
    /\ Arm
    /\ UNCHANGED <<world, ui, fromFcitx, present, focused, locked, focusTimer, ownerTimers, kb,
                   state, history, rare>>

\* The timer on_fcitx_owner has set.
OwnerFires ==
    /\ 0 \in ownerTimers
    /\ ownerTimers' = ownerTimers \ {0}
    /\ Arm
    /\ UNCHANGED <<world, ui, fromFcitx, present, focused, locked, focusTimer, rearmTimer, kb,
                   state, history, rare>>

\* Mutant: typing does not arm.
ReadOutputOnly == kb' = [kb EXCEPT !.typed = FALSE] /\ UNCHANGED rearmTimer

\* on_output, on_key_typed.
ReadOutput == kb' = [kb EXCEPT !.typed = FALSE] /\ rearmTimer' = Rearm

OnOutput ==
    /\ kb.typed
    /\ ReadOutput
    /\ UNCHANGED <<world, fcitx, present, focused, locked, armed, ignoring,
                   focusTimer, ownerTimers, state, history, rare>>

-----------------------------------------------------------------------------
(* The focus *)

\* Mutant: the first report wins, not the last one.
DebounceFirst(m) ==
    focusTimer' = IF focusTimer = NoFocus
                  THEN [left |-> Debounce, on |-> m.call = "show", about |-> m.about]
                  ELSE focusTimer

\* on_fcitx_focus sets the timer anew.
DebounceFocus(m) ==
    focusTimer' = [left |-> Debounce, on |-> m.call = "show", about |-> m.about]

\* wvkbd can be started, or not.
Starts == {TRUE} \cup (IF "spawn" \in World THEN {FALSE} ELSE {})

\* The keyboard is shown, and state.json written unless that raises.
ShowAndPublish(k) ==
    \E ok \in Starts :
        /\ kb' = Show(k, ok)
        /\ IF ShowRaises(k, ok) THEN UNCHANGED state ELSE Publish

\* What set_focus does to the keyboard.
FollowFocus(on) ==
    IF on /\ locked' THEN ShowAndPublish(kb)
    ELSE /\ kb' = IF kb.visible /\ ((~on /\ HideOnBlur) \/ locked # locked')
                  THEN Hide(kb) ELSE kb
         /\ Publish

\* session_locked: no answer counts as not locked.
SessionLocked == {lock} \cup (IF "shell" \in World THEN {FALSE} ELSE {})

SetFocus(on) ==
    /\ focused' = on
    /\ IF present
       THEN UNCHANGED <<locked, kb>> /\ Publish
       ELSE locked' \in SessionLocked /\ FollowFocus(on)

\* apply_focus: a keyboard that is up is not hidden before fcitx5 is asked.
Asks == ~focusTimer.on /\ kb.visible

ApplyFocus ==
    IF Asks
    THEN /\ toFcitx' = Append(toFcitx, Message("ask", focusTimer.about))
         /\ UNCHANGED <<focused, locked, kb, state>>
    ELSE UNCHANGED toFcitx /\ SetFocus(focusTimer.on)

FocusFires ==
    /\ focusTimer.left = 0
    /\ UNCHANGED <<world, ui, fromFcitx, present, armed, ignoring, rearmTimer, ownerTimers, rare>>
    /\ focusTimer' = NoFocus
    /\ ApplyFocus
    /\ IF focusTimer.about = "focus"
       THEN UNCHANGED misled /\ overtaken' = (~Asks /\ (overtaken \/ focusTimer.on))
       ELSE UNCHANGED overtaken /\ Miss(focused' # focused)

\* ShowVirtualKeyboard and HideVirtualKeyboard.  A report is dropped when it is ignored,
\* or when one that follows it within the debounce is not about the focus.
OnFocus(m) ==
    /\ IF ignoring > 0 THEN UNCHANGED focusTimer ELSE DebounceFocus(m)
    /\ UNCHANGED <<arming, focused, locked, kb, state, overtaken>>
    /\ Miss(/\ ~Reported(fromFcitx')
            /\ IF ignoring > 0 THEN m.about = "focus"
                               ELSE m.about # "focus" /\ focusTimer.about = "focus")

\* The answer to CurrentUI, or an error: only in keyboard mode was the hide about focus.
OnCurrentUI(m) ==
    LET current == m.about = "focus" /\ ~overtaken IN
    /\ UNCHANGED <<focusTimer, overtaken>>
    /\ IF m.call = "vk"
       THEN UNCHANGED arming /\ SetFocus(FALSE) /\ Miss(~current /\ focused' # focused)
       ELSE Arm /\ UNCHANGED <<focused, locked, kb, state>> /\ Miss(current)

Receive ==
    /\ fromFcitx # <<>>
    /\ UNCHANGED <<world, ui, present, rearmTimer, ownerTimers, rare>>
    /\ fromFcitx' = Tail(fromFcitx)
    /\ LET m == Head(fromFcitx) IN
       \/ m.call \in {"show", "hide"} /\ OnFocus(m)
       \/ m.call \in {"vk", "other", "error"} /\ OnCurrentUI(m)
       \/ /\ m.call = "failed"
          /\ UNCHANGED <<arming, focusTimer, focused, locked, kb, state, history>>

-----------------------------------------------------------------------------
(* The keyboard, commands, physical keyboards *)

ShowFires ==
    /\ \E w \in kb.waiting :
          /\ w.left = 0
          /\ kb' = SendShow([kb EXCEPT !.waiting = @ \ {w}], w.own)
    /\ UNCHANGED <<world, fcitx, present, focused, locked, armed, ignoring, timers, state,
                   history, rare>>

HideAndArm == kb' = Hide(kb) /\ Arm /\ Publish

ShowOnly == ShowAndPublish(kb) /\ UNCHANGED arming

\* The keyboard is started anew, and shown if it was.
ChangeLayout ==
    /\ \E ok \in Starts :
          IF kb.visible THEN ShowAndPublish(Start(kb, ok))
                        ELSE kb' = Start(kb, ok) /\ Publish
    /\ UNCHANGED arming

Command(c) ==
    /\ Room
    /\ UNCHANGED <<world, ui, fromFcitx, present, focused, locked, timers, history>>
    /\ IF c = "layout" THEN Rarely ELSE UNCHANGED rare
    /\ \/ (c = "hide" \/ (c = "toggle" /\ kb.visible)) /\ HideAndArm
       \/ (c = "show" \/ (c = "toggle" /\ ~kb.visible)) /\ ShowOnly
       \/ c = "layout" /\ ChangeLayout
       \/ c = "status" /\ UNCHANGED <<kb, arming>> /\ Publish

\* on_physical_keyboard.
OnPhysicalKeyboard(there) ==
    IF there THEN kb' = Hide(kb) /\ UNCHANGED arming ELSE CallFcitx /\ UNCHANGED kb

OnUdev ==
    /\ pending
    /\ UNCHANGED <<field, lock, attached, ui, fromFcitx, focused, locked, timers, history, rare>>
    /\ pending' = FALSE
    /\ present' = attached
    /\ IF present' # present
       THEN OnPhysicalKeyboard(present') /\ Publish
       ELSE UNCHANGED <<arming, kb, state>>

-----------------------------------------------------------------------------
(* fcitx5 *)

\* What it calls in on-screen keyboard mode.
Report(calls) ==
    /\ RoomToReport
    /\ fromFcitx' = IF ui = "vk" THEN fromFcitx \o calls ELSE fromFcitx

FcitxHandles ==
    /\ toFcitx # <<>>
    /\ toFcitx' = Tail(toFcitx)
    /\ IF Head(toFcitx).call = "arm"
       THEN /\ ui' = "vk"
            /\ fromFcitx' = fromFcitx \o <<Message("show", "mode"), Message("hide", "mode")>>
       ELSE /\ fromFcitx' = Append(fromFcitx, Message(ui, Head(toFcitx).about))
            /\ UNCHANGED ui
    /\ UNCHANGED <<world, present, focused, locked, armed, ignoring, timers, kb, state,
                   history, rare>>

\* It is restarted: calls fail, and the daemon is told (on_fcitx_owner).
FcitxRestarts ==
    /\ "fcitx" \in World
    /\ Room /\ Rarely
    /\ ui' = "other"
    /\ toFcitx' = <<>>
    /\ fromFcitx' = fromFcitx \o
          [i \in DOMAIN toFcitx |->
              Message(IF toFcitx[i].call = "ask" THEN "error" ELSE "failed", toFcitx[i].about)]
    /\ ownerTimers' = ownerTimers \cup {Owner}
    /\ UNCHANGED <<world, present, focused, locked, armed, ignoring, focusTimer, rearmTimer, kb,
                   state, history>>

-----------------------------------------------------------------------------
(* The user and the world *)

daemon == <<present, focused, locked, armed, ignoring, timers, state, overtaken>>

\* A key of the on-screen keyboard: fcitx5 leaves its mode.
Type(key) ==
    /\ kb.shown
    /\ Report(<<Message("hide", "mode")>>)
    /\ ui' = "other"
    /\ kb' = [kb EXCEPT !.typed = @ \/ key = "printed"]
    /\ UNCHANGED <<world, toFcitx, daemon, misled, rare>>

\* The focus goes to a text field or away, which is reported in on-screen keyboard mode.
Refocus(on) ==
    LET calls == (IF field THEN <<Message("hide", "focus")>> ELSE <<>>)
                 \o (IF on THEN <<Message("show", "focus")>> ELSE <<>>)
    IN /\ field' = on
       /\ Report(calls)
       /\ misled' = IF calls = <<>> THEN misled ELSE ui # "vk"

MoveFocus(on) ==
    /\ "field" \in World
    /\ on \/ field
    /\ Refocus(on)
    /\ UNCHANGED <<lock, attached, pending, ui, toFcitx, kb, daemon, rare>>

\* The password field of the lock screen has the focus while it is locked.
Lock(on) ==
    /\ "lock" \in World
    /\ lock # on
    /\ lock' = on
    /\ \E f \in IF on THEN {TRUE} ELSE BOOLEAN : Refocus(f)
    /\ Rarely
    /\ UNCHANGED <<attached, pending, ui, toFcitx, kb, daemon>>

Plug ==
    /\ "plug" \in World
    /\ Room /\ Rarely
    /\ attached' = ~attached
    /\ pending' = TRUE
    /\ UNCHANGED <<field, lock, fcitx, kb, daemon, misled>>

\* It matters to a process that runs: another is started anew in any case.
ThemeChanges ==
    /\ "theme" \in World
    /\ Running(kb) /\ Rarely
    /\ kb' = [kb EXCEPT !.stale = TRUE]
    /\ UNCHANGED <<world, fcitx, daemon, misled>>

Crash ==
    /\ "crash" \in World
    /\ Running(kb) /\ Rarely
    /\ kb' = [kb EXCEPT !.proc = "gone", !.shown = FALSE]
    /\ UNCHANGED <<world, fcitx, daemon, misled>>

GetReady ==
    /\ Running(kb) /\ ~kb.ready
    /\ kb' = [kb EXCEPT !.ready = TRUE]
    /\ UNCHANGED <<world, fcitx, daemon, misled, rare>>

\* A timer of the main loop is due, or a message or an event waits.
Busy ==
    \/ fromFcitx # <<>> \/ kb.typed \/ pending
    \/ focusTimer.left = 0 \/ rearmTimer = 0 \/ 0 \in ownerTimers \/ Due(kb)

\* Time passes once the main loop and fcitx5 are idle, or one of them is late.
Tick ==
    /\ IF Busy \/ toFcitx # <<>> THEN "late" \in World /\ Rarely ELSE UNCHANGED rare
    /\ MayAge(kb)
    /\ kb' = Aged(kb)
    /\ focusTimer' = [focusTimer EXCEPT !.left = Left(@)]
    /\ rearmTimer' = Left(rearmTimer)
    /\ ownerTimers' = {Left(t) : t \in ownerTimers}
    /\ ignoring' = Left(ignoring)
    /\ UNCHANGED <<world, fcitx, present, focused, locked, armed, state, history>>

-----------------------------------------------------------------------------
(* The specification *)

\* Before wvkbd is started; started_at is 0.
Fresh ==
    [proc |-> "none", since |-> Startup, ready |-> FALSE, shown |-> FALSE, visible |-> FALSE,
     stale |-> FALSE, typed |-> FALSE, lost |-> FALSE, waiting |-> {}]

\* The daemon has started wvkbd, called arm and published, and fcitx5 is up; a text field
\* may have had the focus before.
Init ==
    /\ attached \in IF "plug" \in World THEN BOOLEAN ELSE {FALSE}
    /\ field \in BOOLEAN
    /\ lock = FALSE /\ pending = FALSE
    /\ ui = "other" /\ fromFcitx = <<>>
    /\ present = attached
    /\ focused = FALSE /\ locked = FALSE
    /\ armed = ~present
    /\ ignoring = IF present THEN 0 ELSE Ignore
    /\ toFcitx = IF present THEN <<>> ELSE <<Message("arm", "mode")>>
    /\ focusTimer = NoFocus /\ rearmTimer = Off /\ ownerTimers = {Owner}
    /\ kb \in {Start(Fresh, ok) : ok \in Starts}
    /\ state = Published
    /\ misled = field /\ overtaken = FALSE /\ rare = 0

Next ==
    \/ RearmFires \/ OwnerFires \/ FocusFires \/ ShowFires
    \/ OnOutput \/ OnUdev \/ Receive
    \/ \E c \in Commands : Command(c)
    \/ FcitxHandles \/ FcitxRestarts
    \/ \E key \in Keys : Type(key)
    \/ \E on \in BOOLEAN : MoveFocus(on) \/ Lock(on)
    \/ Plug \/ ThemeChanges \/ Crash \/ GetReady \/ Tick

Spec == Init /\ [][Next]_vars

-----------------------------------------------------------------------------
(* Properties *)

\* Nothing is under way: no message, no event, no timer.
Quiet ==
    /\ toFcitx = <<>> /\ fromFcitx = <<>> /\ ~pending
    /\ focusTimer = NoFocus /\ rearmTimer = Off /\ ownerTimers = {}
    /\ kb.waiting = {} /\ ~kb.typed

\* No signal reaches wvkbd before it can take one (omarchy-surface-osk:75).
NeverKilled == kb.proc # "killed"

\* Once no show is waiting, a keyboard that runs is on the screen exactly when
\* state.json tells the shell plugin so, whatever restarts, shows and hides came
\* before (omarchy-surface-osk:226-244 and :497).
ShownIsVisible ==
    Running(kb) /\ (\A w \in kb.waiting : ~w.own) => kb.shown = state.visible

\* When all has settled and no keyboard is attached, fcitx5 is in on-screen keyboard
\* mode, so that the next focus is reported (omarchy-surface-osk:341); except when
\* wvkbd was stopped before what it printed could be read, and only as long as every key
\* prints: a modifier that is the last key leaves fcitx5 in the other mode (:246).
StaysArmed == Quiet /\ ~present /\ ~kb.lost => ui = "vk"

\* When all has settled the daemon knows whether a text field has the focus, and
\* state.json says so unless wvkbd could not be started (omarchy-surface-osk:359-401).
\* What the daemon gets wrong until the focus is next reported, and nothing else:
\* a focus that moves while fcitx5 is not in keyboard mode, or had moved before the
\* start; a report in the half second after arm (:362), or followed within the debounce
\* by the hide of a key or of arm (:364-366); a hide of a key or of arm that is applied
\* (:374-377); a hide of the focus that is answered in the other mode (:374); and the
\* answer to such a hide that comes when a field has been found to have the focus since.
FocusTracked ==
    Quiet /\ ~misled =>
        focused = field /\ (state.focused = field \/ kb.proc = "none")

\* A keyboard somebody types on is hidden for the focus only when its text field has
\* lost it (omarchy-surface-osk:372).
TypingKeepsKeyboard ==
    [][(Receive \/ FocusFires) /\ kb.visible /\ ~kb'.visible /\ ~focused' => ~field]_vars
=============================================================================
