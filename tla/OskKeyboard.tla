------------------------------ MODULE OskKeyboard ------------------------------
(***************************************************************************)
(* The wvkbd process the on-screen keyboard daemon drives: class Keyboard  *)
(* of osk/bin/omarchy-surface-osk as operators on a record.                *)
(*                                                                         *)
(*   proc     "up", "gone" when it ended by itself, "killed" when a signal *)
(*            reached it before it could take one, "none" when it stopped  *)
(*   since    time since started_at, at most Startup                       *)
(*   ready    it blocks its signals, so that they no longer kill it        *)
(*   shown    what is on the screen                                        *)
(*   visible  what the daemon believes                                     *)
(*   stale    the theme has changed since it was started                   *)
(*   typed    it has printed characters nobody has read                    *)
(*   lost     history: it was stopped with characters nobody has read      *)
(*   waiting  the send_show timers: whether they are for this process, and *)
(*            what is left of them                                         *)
(***************************************************************************)
EXTENDS Integers

CONSTANT Startup    \* KEYBOARD_STARTUP_MS, in ticks of the clock

ASSUME StartupAssumption == Startup \in Nat \ {0}

Running(k) == k.proc = "up"

\* Mutant: a timer does not know which process it was set for.
StopForgetful(k) ==
    [k EXCEPT !.proc = "none", !.ready = FALSE, !.shown = FALSE, !.visible = FALSE,
              !.typed = FALSE, !.lost = @ \/ k.typed]

\* The timers that wait were set for the process that is stopped.
Stop(k) ==
    [k EXCEPT !.proc = "none", !.ready = FALSE, !.shown = FALSE, !.visible = FALSE,
              !.typed = FALSE, !.lost = @ \/ k.typed,
              !.waiting = {[w EXCEPT !.own = FALSE] : w \in @}]

\* It reads the theme, and started_at is the last start that went well.
Start(k, ok) ==
    IF ok THEN [Stop(k) EXCEPT !.stale = FALSE, !.proc = "up", !.since = 0]
          ELSE [Stop(k) EXCEPT !.stale = FALSE]

EnsureRunning(k, ok) == IF Running(k) /\ ~k.stale THEN k ELSE Start(k, ok)

\* SIGUSR2 shows it, SIGUSR1 hides it, and either kills it while it starts.
Signal(k, on) ==
    IF k.ready THEN [k EXCEPT !.shown = on]
               ELSE [k EXCEPT !.proc = "killed", !.shown = FALSE]

\* Mutant: it is shown even if it was hidden in the meantime.
SendShowAnyway(k, own) ==
    IF own /\ Running(k) THEN Signal(k, TRUE) ELSE k

SendShow(k, own) ==
    IF own /\ k.visible /\ Running(k) THEN Signal(k, TRUE) ELSE k

ShowWhenStarted(k) ==
    IF k.since < Startup
    THEN [k EXCEPT !.waiting = @ \cup {[own |-> TRUE, left |-> Startup - k.since]}]
    ELSE SendShow(k, TRUE)

Show(k, ok) == ShowWhenStarted([EnsureRunning(k, ok) EXCEPT !.visible = TRUE])

\* send_show cannot poll a process that is not there; a timer that finds none does nothing.
ShowRaises(k, ok) ==
    EnsureRunning(k, ok).proc = "none" /\ EnsureRunning(k, ok).since = Startup

\* Within the start no signal is sent; none was sent to show it either.
Hide(k) ==
    [IF k.visible /\ Running(k) /\ k.since = Startup THEN Signal(k, FALSE) ELSE k
     EXCEPT !.visible = FALSE]

\* A tick of the clock: a process is ready in time, and a timer may be late.
Due(k) == \E w \in k.waiting : w.left = 0
MayAge(k) == Running(k) /\ k.since = Startup - 1 => k.ready
Left(t) == IF t > 0 THEN t - 1 ELSE t
Aged(k) ==
    [k EXCEPT !.since = IF @ < Startup THEN @ + 1 ELSE @,
              !.waiting = {[w EXCEPT !.left = Left(@)] : w \in @}]
=============================================================================
