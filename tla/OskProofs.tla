------------------------------- MODULE OskProofs -------------------------------
(***************************************************************************)
(* Theorems about the on-screen keyboard daemon, for any times, commands,  *)
(* keys and worlds.  Of the wvkbd process: no signal is sent too early,    *)
(* and what is on the screen is what state.json says.  Of fcitx5: it stays *)
(* in on-screen keyboard mode.  Of the focus: the daemon knows it once the *)
(* reports, timers and questions under way are over.                       *)
(***************************************************************************)
EXTENDS Osk, FiniteSetTheorems, TLAPS

-----------------------------------------------------------------------------
(* The class Keyboard *)

Timer == [own : BOOLEAN, left : Nat]

Kbs ==
    [proc : {"up", "gone", "none"}, since : 0 .. Startup, ready : BOOLEAN,
     shown : BOOLEAN, visible : BOOLEAN, stale : BOOLEAN, typed : BOOLEAN,
     lost : BOOLEAN, waiting : SUBSET Timer]

\* A show timer of the process ends its wait when the start is over, when the process
\* no longer dies of a signal.  A process that is visible and not shown has one.
Sound(k) ==
    /\ k \in Kbs
    /\ Running(k) /\ k.since = Startup => k.ready
    /\ \A w \in k.waiting : w.own => w.left + k.since = Startup
    /\ Running(k) /\ k.shown => k.visible /\ k.since = Startup
    /\ Running(k) /\ k.visible /\ ~k.shown => \E w \in k.waiting : w.own

\* Stop and Start lead to a sound keyboard, hidden as far as anybody knows.
LEMMA StartIsSound ==
    ASSUME NEW k, Sound(k), NEW ok \in BOOLEAN
    PROVE  /\ Sound(Start(k, ok)) /\ ~Start(k, ok).visible
           /\ Start(k, ok).proc = "up" \/ Start(k, ok).proc = "none"
    <1> DEFINE s == Stop(k)
               j == [s EXCEPT !.stale = FALSE]
    <1>1. s \in Kbs
        <2>1. \A w \in k.waiting : [w EXCEPT !.own = FALSE] \in Timer
            BY DEF Sound, Kbs, Timer
        <2>2. {[w EXCEPT !.own = FALSE] : w \in k.waiting} \in SUBSET Timer
            BY <2>1
        <2> QED BY <2>2 DEF Stop, Sound, Kbs
    <1>2. /\ s.proc = "none" /\ ~s.shown /\ ~s.visible
          /\ \A w \in s.waiting : ~w.own
        BY DEF Stop, Sound, Kbs, Timer
    <1> HIDE DEF s
    <1>3. j \in Kbs /\ j.proc = "none" /\ ~j.shown /\ ~j.visible /\ j.waiting = s.waiting
        BY <1>1, <1>2 DEF Kbs
    <1>4. CASE ok
        <2> DEFINE u == [s EXCEPT !.stale = FALSE, !.proc = "up", !.since = 0]
        <2>1. Start(k, ok) = u
            BY <1>4 DEF Start, s
        <2>2. 0 \in 0 .. Startup /\ 0 # Startup
            BY StartupAssumption
        <2>3. /\ u \in Kbs /\ u.proc = "up" /\ u.since = 0 /\ ~u.shown /\ ~u.visible
              /\ u.waiting = s.waiting
            BY <1>1, <1>2, <2>2 DEF Kbs
        <2> QED BY <1>2, <2>1, <2>2, <2>3 DEF Sound, Running
    <1>5. CASE ~ok
        <2>1. Start(k, ok) = j
            BY <1>5 DEF Start, s
        <2> QED BY <1>2, <1>3, <2>1 DEF Sound, Running
    <1> QED BY <1>4, <1>5

\* The timer that ends now, and the hide that is asked for, find a process that is
\* ready.
LEMMA SendShowIsSound ==
    ASSUME NEW k, Sound(k), NEW w \in k.waiting, w.left = 0
    PROVE  LET j == SendShow([k EXCEPT !.waiting = @ \ {w}], w.own)
           IN Sound(j) /\ j.visible = k.visible /\ j.proc = k.proc
    <1> USE StartupAssumption DEF Sound, Kbs, Timer, Running
    <1> DEFINE rest == [k EXCEPT !.waiting = @ \ {w}]
    <1>1. CASE w.own /\ k.visible /\ Running(k)
        <2>1. k.since = Startup /\ k.ready
            BY <1>1
        <2> QED BY <1>1, <2>1 DEF SendShow, Signal
    <1>2. CASE ~(w.own /\ k.visible /\ Running(k))
        <2>1. SendShow(rest, w.own) = rest
            BY <1>2 DEF SendShow
        <2>2. \A v \in k.waiting : v.own /\ Running(k) /\ k.visible => v # w
            BY <1>2
        <2> QED BY <2>1, <2>2
    <1> QED BY <1>1, <1>2

LEMMA HideIsSound ==
    ASSUME NEW k, Sound(k)
    PROVE  Sound(Hide(k)) /\ ~Hide(k).visible /\ Hide(k).proc = k.proc
    <1> USE StartupAssumption DEF Sound, Kbs, Timer, Running
    <1>1. CASE k.visible /\ Running(k) /\ k.since = Startup
        BY <1>1 DEF Hide, Signal
    <1>2. CASE ~(k.visible /\ Running(k) /\ k.since = Startup)
        BY <1>2 DEF Hide
    <1> QED BY <1>1, <1>2

LEMMA ShowIsSound ==
    ASSUME NEW k, Sound(k), NEW ok \in BOOLEAN
    PROVE  /\ Sound(Show(k, ok)) /\ Show(k, ok).visible
           /\ ShowRaises(k, ok) => Show(k, ok).proc = "none"
    <1> DEFINE e == EnsureRunning(k, ok)
               v == [e EXCEPT !.visible = TRUE]
               timer == [own |-> TRUE, left |-> Startup - v.since]
    <1>1. Sound(e)
        BY StartIsSound DEF EnsureRunning
    <1>2. Show(k, ok) = ShowWhenStarted(v)
        BY DEF Show
    <1>0. ShowRaises(k, ok) => e.proc = "none"
        BY DEF ShowRaises
    <1> HIDE DEF e
    <1> USE StartupAssumption DEF Sound, Kbs, Running
    <1>3. /\ v \in Kbs /\ v.visible /\ v.proc = e.proc /\ v.since = e.since
          /\ v.ready = e.ready /\ v.shown = e.shown /\ v.waiting = e.waiting
        BY <1>1
    <1> HIDE DEF v
    <1>4. CASE v.since < Startup
        <2>1. Show(k, ok) = [v EXCEPT !.waiting = v.waiting \cup {timer}]
            BY <1>2, <1>4 DEF ShowWhenStarted
        <2>2. timer \in Timer /\ timer.own /\ timer.left + v.since = Startup
            BY <1>3, <1>4 DEF Timer
        <2> HIDE DEF timer
        <2> DEFINE j == [v EXCEPT !.waiting = v.waiting \cup {timer}]
        <2>3. j \in Kbs
            BY <1>3, <2>2
        <2>4. /\ j.waiting = v.waiting \cup {timer} /\ j.visible
              /\ j.proc = v.proc /\ j.since = v.since /\ j.ready = v.ready /\ j.shown = v.shown
            BY <1>3
        <2> HIDE DEF j
        <2>5. \A w \in j.waiting : w.own => w.left + j.since = Startup
            BY <1>1, <1>3, <2>2, <2>4
        <2>6. Sound(j)
            BY <1>1, <1>3, <1>4, <2>2, <2>3, <2>4, <2>5
        <2> QED BY <1>0, <1>3, <2>1, <2>4, <2>6 DEF j
    <1>5. CASE v.since = Startup /\ v.proc = "up"
        <2>1. ~(v.since < Startup)
            BY <1>5
        <2>2. v.ready /\ v.visible /\ Running(v)
            BY <1>1, <1>3, <1>5
        <2> DEFINE j == [v EXCEPT !.shown = TRUE]
        <2>3. Show(k, ok) = j
            BY <1>2, <2>1, <2>2 DEF ShowWhenStarted, SendShow, Signal
        <2>4. j \in Kbs
            BY <1>3
        <2>5. /\ j.waiting = v.waiting /\ j.visible /\ j.shown
              /\ j.since = v.since /\ j.ready /\ j.proc = v.proc
            BY <1>3, <2>2
        <2> HIDE DEF j
        <2>6. \A w \in j.waiting : w.own => w.left + j.since = Startup
            BY <1>1, <1>3, <2>5
        <2>7. Sound(j)
            BY <1>3, <1>5, <2>4, <2>5, <2>6
        <2> QED BY <1>0, <1>3, <2>3, <2>5, <2>7
    <1>6. CASE v.since = Startup /\ v.proc # "up"
        <2>1. ~(v.since < Startup) /\ ~Running(v)
            BY <1>6
        <2>2. Show(k, ok) = v
            BY <1>2, <2>1 DEF ShowWhenStarted, SendShow
        <2>3. Sound(v)
            BY <1>1, <1>3, <2>1
        <2> QED BY <1>0, <1>3, <2>2, <2>3
    <1>7. v.since < Startup \/ v.since = Startup
        BY <1>3
    <1> QED BY <1>4, <1>5, <1>6, <1>7

LEMMA AgedIsSound ==
    ASSUME NEW k, Sound(k), MayAge(k)
    PROVE  Sound(Aged(k)) /\ Aged(k).visible = k.visible /\ Aged(k).proc = k.proc
    <1> USE StartupAssumption DEF Sound, Kbs, Timer, Running, Left
    <1>1. \A w \in Aged(k).waiting : \E x \in k.waiting : w = [x EXCEPT !.left = Left(@)]
        BY DEF Aged
    <1>2. \A x \in k.waiting : [x EXCEPT !.left = Left(@)] \in Aged(k).waiting
        BY DEF Aged
    <1>3. Aged(k) \in Kbs
        <2>1. \A w \in k.waiting : [w EXCEPT !.left = Left(@)] \in Timer
            OBVIOUS
        <2>2. {[w EXCEPT !.left = Left(@)] : w \in k.waiting} \in SUBSET Timer
            BY <2>1
        <2>3. (IF k.since < Startup THEN k.since + 1 ELSE k.since) \in 0 .. Startup
            OBVIOUS
        <2> HIDE DEF Timer
        <2> QED BY <2>2, <2>3 DEF Aged
    <1>4. /\ Aged(k).proc = k.proc /\ Aged(k).shown = k.shown
          /\ Aged(k).visible = k.visible /\ Aged(k).ready = k.ready
          /\ Aged(k).since = IF k.since < Startup THEN k.since + 1 ELSE k.since
        BY DEF Aged
    <1>5. \A w \in Aged(k).waiting : w.own => w.left + Aged(k).since = Startup
        <2> SUFFICES ASSUME NEW w \in Aged(k).waiting, w.own PROVE w.left + Aged(k).since = Startup
            OBVIOUS
        <2>1. PICK x \in k.waiting : w = [x EXCEPT !.left = Left(@)]
            BY <1>1
        <2>2. x.own /\ w.left = Left(x.left) /\ x.left + k.since = Startup /\ x.left \in Nat
            BY <2>1
        <2> QED BY <1>4, <2>2
    <1>6. (\E x \in k.waiting : x.own) => \E w \in Aged(k).waiting : w.own
        BY <1>2
    <1>7. Running(k) /\ Aged(k).since = Startup => k.ready
        BY <1>4 DEF MayAge
    <1> QED BY <1>3, <1>4, <1>5, <1>6, <1>7

\* What happens to the process, and what is read from it.
LEMMA ChangeIsSound ==
    ASSUME NEW k, Sound(k)
    PROVE  /\ \A b \in BOOLEAN : Sound([k EXCEPT !.typed = b])
           /\ Sound([k EXCEPT !.stale = TRUE])
           /\ Sound([k EXCEPT !.ready = TRUE])
           /\ Sound([k EXCEPT !.proc = "gone", !.shown = FALSE])
    BY DEF Sound, Kbs, Running

-----------------------------------------------------------------------------
(* The daemon *)

\* Whenever wvkbd runs, state.json says what the daemon believes.
KbInv == Sound(kb) /\ (Running(kb) => state.visible = kb.visible)

LEMMA StartsType == Starts \subseteq BOOLEAN
    BY DEF Starts

LEMMA FreshIsSound == Sound(Fresh)
    BY StartupAssumption DEF Fresh, Sound, Kbs, Running

LEMMA KbInit == Init => KbInv
    <1> SUFFICES ASSUME Init PROVE KbInv
        OBVIOUS
    <1>1. PICK ok \in Starts : kb = Start(Fresh, ok)
        BY DEF Init
    <1>2. Sound(kb)
        BY <1>1, StartIsSound, StartsType, FreshIsSound
    <1>3. state.visible = kb.visible
        BY DEF Init, Published
    <1> QED BY <1>2, <1>3 DEF KbInv

LEMMA ShowStep ==
    ASSUME NEW k, Sound(k), ShowAndPublish(k)
    PROVE  KbInv' /\ (state'.focused = focused' \/ (state' = state /\ kb'.proc = "none"))
    <1>1. PICK ok \in Starts :
            /\ kb' = Show(k, ok)
            /\ IF ShowRaises(k, ok) THEN UNCHANGED state ELSE Publish
        BY DEF ShowAndPublish
    <1>2. Sound(kb') /\ (ShowRaises(k, ok) => kb'.proc = "none")
        BY <1>1, ShowIsSound, StartsType
    <1>3. ~ShowRaises(k, ok) => state'.visible = kb'.visible /\ state'.focused = focused'
        BY <1>1 DEF Publish, Published
    <1> QED BY <1>1, <1>2, <1>3 DEF KbInv, Running

LEMMA PublishStep ==
    ASSUME Publish
    PROVE  state'.focused = focused' /\ state'.visible = kb'.visible
    BY DEF Publish, Published

LEMMA FocusStep ==
    ASSUME KbInv, NEW on, SetFocus(on)
    PROVE  /\ KbInv'
           /\ focused' = on
           /\ state'.focused = focused' \/ (state' = state /\ kb'.proc = "none")
    <1>1. CASE present
        <2>1. kb' = kb /\ Publish
            BY <1>1 DEF SetFocus
        <2> QED BY <2>1, PublishStep DEF KbInv, SetFocus
    <1>2. CASE ~present /\ on /\ locked'
        <2>1. ShowAndPublish(kb)
            BY <1>2 DEF SetFocus, FollowFocus
        <2> QED BY <2>1, ShowStep DEF KbInv, SetFocus
    <1>3. CASE ~present /\ ~(on /\ locked')
        <2>1. (kb' = Hide(kb) \/ kb' = kb) /\ Publish
            BY <1>3 DEF SetFocus, FollowFocus
        <2> QED BY <2>1, HideIsSound, PublishStep DEF KbInv, SetFocus
    <1> QED BY <1>1, <1>2, <1>3

LEMMA CommandStep ==
    ASSUME KbInv, NEW c \in Commands, Command(c)
    PROVE  KbInv' /\ (state'.focused = focused' \/ (state' = state /\ kb'.proc = "none"))
    <1>1. CASE HideAndArm
        BY <1>1, HideIsSound, PublishStep DEF HideAndArm, KbInv
    <1>2. CASE ShowOnly
        BY <1>2, ShowStep DEF ShowOnly, KbInv
    <1>3. CASE ChangeLayout
        <2>1. PICK ok \in Starts : IF kb.visible THEN ShowAndPublish(Start(kb, ok))
                                                 ELSE kb' = Start(kb, ok) /\ Publish
            BY <1>3 DEF ChangeLayout
        <2>2. Sound(Start(kb, ok))
            BY StartIsSound, StartsType DEF KbInv
        <2> QED BY <2>1, <2>2, ShowStep, PublishStep DEF KbInv
    <1>4. CASE UNCHANGED kb /\ Publish
        BY <1>4, PublishStep DEF KbInv
    <1> QED BY <1>1, <1>2, <1>3, <1>4 DEF Command

LEMMA UdevStep ==
    ASSUME KbInv, OnUdev
    PROVE  KbInv' /\ (state'.focused = focused' \/ (state' = state /\ kb' = kb))
    <1>1. CASE present' = present
        BY <1>1 DEF OnUdev, KbInv
    <1>2. CASE present' # present
        <2>1. (kb' = Hide(kb) \/ kb' = kb) /\ Publish
            BY <1>2 DEF OnUdev, OnPhysicalKeyboard
        <2> QED BY <2>1, HideIsSound, PublishStep DEF KbInv
    <1> QED BY <1>1, <1>2

LEMMA KbStep == KbInv /\ [Next]_vars => KbInv'
    <1> SUFFICES ASSUME KbInv, [Next]_vars PROVE KbInv'
        OBVIOUS
    <1>1. CASE RearmFires \/ OwnerFires \/ FcitxHandles \/ FcitxRestarts \/ Plug
        BY <1>1 DEF RearmFires, OwnerFires, FcitxHandles, FcitxRestarts, Plug, daemon, KbInv
    <1>2. CASE FocusFires
        BY <1>2, FocusStep DEF FocusFires, ApplyFocus, KbInv
    <1>3. CASE ShowFires
        <2>1. PICK w \in kb.waiting :
                w.left = 0 /\ kb' = SendShow([kb EXCEPT !.waiting = @ \ {w}], w.own)
            BY <1>3 DEF ShowFires
        <2>2. Sound(kb') /\ kb'.visible = kb.visible /\ kb'.proc = kb.proc
            BY <2>1, SendShowIsSound DEF KbInv
        <2>3. state' = state
            BY <1>3 DEF ShowFires
        <2> QED BY <2>2, <2>3 DEF KbInv, Running
    <1>4. CASE OnOutput
        <2>1. kb' = [kb EXCEPT !.typed = FALSE] /\ state' = state
            BY <1>4 DEF OnOutput, ReadOutput
        <2>2. kb'.visible = kb.visible /\ kb'.proc = kb.proc
            BY <2>1 DEF KbInv, Sound, Kbs
        <2> QED BY <2>1, <2>2, ChangeIsSound DEF KbInv, Running
    <1>5. CASE OnUdev
        BY <1>5, UdevStep
    <1>6. CASE Receive
        BY <1>6, FocusStep DEF Receive, OnFocus, OnCurrentUI, KbInv
    <1>7. ASSUME NEW c \in Commands, Command(c) PROVE KbInv'
        BY <1>7, CommandStep
    <1>8. ASSUME NEW key \in Keys, Type(key) PROVE KbInv'
        <2>1. kb' = [kb EXCEPT !.typed = kb.typed \/ key = "printed"] /\ state' = state
            BY <1>8 DEF Type, daemon
        <2>2. /\ kb'.visible = kb.visible /\ kb'.proc = kb.proc
              /\ (kb.typed \/ key = "printed") \in BOOLEAN
            BY <2>1 DEF KbInv, Sound, Kbs
        <2> QED BY <2>1, <2>2, ChangeIsSound DEF KbInv, Running
    <1>9. ASSUME NEW on \in BOOLEAN, MoveFocus(on) \/ Lock(on) PROVE KbInv'
        BY <1>9 DEF MoveFocus, Lock, daemon, KbInv
    <1>10. CASE ThemeChanges \/ Crash \/ GetReady
        <2>1. state' = state
            BY <1>10 DEF ThemeChanges, Crash, GetReady, daemon
        <2>2. Sound(kb')
            BY <1>10, ChangeIsSound DEF ThemeChanges, Crash, GetReady, KbInv
        <2>3. kb'.visible = kb.visible /\ (kb'.proc = kb.proc \/ kb'.proc = "gone")
            BY <1>10 DEF ThemeChanges, Crash, GetReady, KbInv, Sound, Kbs
        <2> QED BY <2>1, <2>2, <2>3 DEF KbInv, Running
    <1>11. CASE Tick
        BY <1>11, AgedIsSound DEF Tick, KbInv, Running
    <1>12. CASE UNCHANGED vars
        BY <1>12 DEF vars, KbInv
    <1> QED BY <1>1, <1>2, <1>3, <1>4, <1>5, <1>6, <1>7, <1>8, <1>9, <1>10, <1>11, <1>12 DEF Next

\* No signal reaches wvkbd before it can take one: for any time it takes to start and
\* whatever commands, focus changes, crashes and restarts come meanwhile.
THEOREM NeverKilledCorrect == Spec => []NeverKilled
    <1>1. KbInv => NeverKilled
        BY DEF KbInv, Sound, Kbs, NeverKilled
    <1> QED BY KbInit, KbStep, <1>1, PTL DEF Spec

\* Once no show is waiting, what is on the screen is what state.json says.
THEOREM ShownCorrect == Spec => []ShownIsVisible
    <1>1. KbInv => ShownIsVisible
        BY DEF KbInv, Sound, Kbs, ShownIsVisible
    <1> QED BY KbInit, KbStep, <1>1, PTL DEF Spec

-----------------------------------------------------------------------------
(* What is on its way *)

About == {"focus", "mode"}
Calls == [call : {"arm", "ask"}, about : About]
Answers == [call : {"show", "hide", "vk", "other", "error", "failed"}, about : About]

FlowType ==
    /\ field \in BOOLEAN /\ focused \in BOOLEAN
    /\ misled \in BOOLEAN /\ overtaken \in BOOLEAN
    /\ ui \in {"vk", "other"}
    /\ toFcitx \in Seq(Calls) /\ fromFcitx \in Seq(Answers)
    /\ focusTimer \in [left : Int, on : BOOLEAN, about : About]
    /\ rearmTimer \in Nat \cup {Off}

LEMMA FlowInit == Init => FlowType
    <1> SUFFICES ASSUME Init PROVE FlowType
        OBVIOUS
    <1>1. field \in BOOLEAN /\ misled = field /\ ~focused /\ ~overtaken /\ ui = "other"
        BY DEF Init
    <1>2. Message("arm", "mode") \in Calls
        BY DEF Message, Calls, About
    <1>3. toFcitx \in Seq(Calls) /\ fromFcitx \in Seq(Answers)
        BY <1>2 DEF Init
    <1>4. NoFocus \in [left : Int, on : BOOLEAN, about : About]
        BY DEF NoFocus, Off, About
    <1> QED BY <1>1, <1>3, <1>4 DEF Init, FlowType

\* Once it is called and no keyboard is attached, the calls are on their way.
LEMMA CallType ==
    ASSUME toFcitx \in Seq(Calls), CallFcitx
    PROVE  /\ toFcitx' \in Seq(Calls) /\ Len(toFcitx') = Len(toFcitx) + 1
           /\ toFcitx'[Len(toFcitx) + 1] = Message("arm", "mode")
           /\ \A i \in DOMAIN toFcitx : toFcitx'[i] = toFcitx[i]
    <1>1. toFcitx' = Append(toFcitx, Message("arm", "mode"))
        BY DEF CallFcitx
    <1>2. Message("arm", "mode") \in Calls
        BY DEF Message, Calls, About
    <1> QED BY <1>1, <1>2

LEMMA FocusTimerType ==
    ASSUME FlowType, NEW m \in Answers, DebounceFocus(m)
    PROVE  /\ focusTimer' \in [left : Int, on : BOOLEAN, about : About]
           /\ focusTimer'.on = (m.call = "show") /\ focusTimer'.about = m.about
    <1> DEFINE on == m.call = "show"
    <1>1. on \in BOOLEAN /\ Debounce \in Int /\ m.about \in About
        BY OskAssumption DEF Answers
    <1>2. focusTimer' = [left |-> Debounce, on |-> on, about |-> m.about]
        BY DEF DebounceFocus
    <1> HIDE DEF on
    <1>3. /\ focusTimer' \in [left : Int, on : BOOLEAN, about : About]
          /\ focusTimer'.on = on /\ focusTimer'.about = m.about
        BY <1>1, <1>2
    <1> QED BY <1>3 DEF on

\* What fcitx5 calls when the focus moves.
LEMMA RefocusType ==
    ASSUME FlowType, NEW on \in BOOLEAN, Refocus(on)
    PROVE  /\ field' = on /\ fromFcitx' \in Seq(Answers) /\ misled' \in BOOLEAN
           /\ \/ /\ ~misled' /\ ui = "vk"
                 /\ Len(fromFcitx') > 0
                 /\ fromFcitx'[Len(fromFcitx')] = Message(IF on THEN "show" ELSE "hide", "focus")
              \/ misled'
              \/ field' = field /\ fromFcitx' = fromFcitx /\ misled' = misled
    <1> DEFINE show == Message("show", "focus")
               hide == Message("hide", "focus")
               calls == (IF field THEN <<hide>> ELSE <<>>) \o (IF on THEN <<show>> ELSE <<>>)
    <1>1. show \in Answers /\ hide \in Answers
        BY DEF Message, Answers, About
    <1>2. /\ field' = on
          /\ fromFcitx' = IF ui = "vk" THEN fromFcitx \o calls ELSE fromFcitx
          /\ misled' = IF calls = <<>> THEN misled ELSE ui # "vk"
        BY DEF Refocus, Report
    <1> HIDE DEF show, hide
    <1>3. field \in BOOLEAN /\ fromFcitx \in Seq(Answers) /\ misled \in BOOLEAN
        BY DEF FlowType
    <1>4. CASE ~field /\ ~on
        <2>1. calls = <<>>
            BY <1>4
        <2>2. fromFcitx \o calls = fromFcitx
            BY <1>3, <2>1
        <2> QED BY <1>2, <1>3, <1>4, <2>1, <2>2
    <1>5. CASE field \/ on
        <2>1. /\ calls \in Seq(Answers) /\ Len(calls) > 0
              /\ calls[Len(calls)] = IF on THEN show ELSE hide
            <3> DEFINE first == IF field THEN <<hide>> ELSE <<>>
                       second == IF on THEN <<show>> ELSE <<>>
            <3>1. first \in Seq(Answers) /\ second \in Seq(Answers)
                BY <1>1
            <3>2. /\ on => Len(second) = 1 /\ second[1] = show
                  /\ ~on => Len(second) = 0 /\ Len(first) = 1 /\ first[1] = hide
                BY <1>5
            <3>3. calls = first \o second
                OBVIOUS
            <3> HIDE DEF calls, first, second
            <3> QED BY <3>1, <3>2, <3>3
        <2>2. calls # <<>>
            BY <2>1
        <2> HIDE DEF calls
        <2>3. /\ fromFcitx \o calls \in Seq(Answers)
              /\ Len(fromFcitx \o calls) = Len(fromFcitx) + Len(calls)
              /\ (fromFcitx \o calls)[Len(fromFcitx) + Len(calls)] = calls[Len(calls)]
            BY <1>3, <2>1
        <2>4. misled' = (ui # "vk")
            BY <1>2, <2>2
        <2>5. CASE ui = "vk"
            <3>1. fromFcitx' = fromFcitx \o calls /\ ~misled'
                BY <1>2, <2>4, <2>5
            <3>2. /\ Len(fromFcitx') > 0
                  /\ fromFcitx'[Len(fromFcitx')] = IF on THEN show ELSE hide
                BY <1>3, <2>1, <2>3, <3>1
            <3>3. (IF on THEN show ELSE hide) = Message(IF on THEN "show" ELSE "hide", "focus")
                BY DEF show, hide
            <3> QED BY <1>2, <2>3, <2>4, <2>5, <3>1, <3>2, <3>3
        <2>6. CASE ui # "vk"
            BY <1>2, <1>3, <2>4, <2>6
        <2> QED BY <2>5, <2>6
    <1> QED BY <1>3, <1>4, <1>5

\* What a restart of fcitx5 answers.
Failed ==
    [i \in DOMAIN toFcitx |->
        Message(IF toFcitx[i].call = "ask" THEN "error" ELSE "failed", toFcitx[i].about)]

LEMMA FailedType ==
    ASSUME FlowType
    PROVE  /\ Failed \in Seq(Answers) /\ DOMAIN Failed = DOMAIN toFcitx
           /\ \A i \in DOMAIN Failed : Failed[i].call \in {"error", "failed"}
    <1>1. ASSUME NEW i \in DOMAIN toFcitx
          PROVE  Failed[i] \in Answers /\ Failed[i].call \in {"error", "failed"}
        <2>1. toFcitx[i] \in Calls
            BY DEF FlowType
        <2>2. Failed[i] = Message(IF toFcitx[i].call = "ask" THEN "error" ELSE "failed",
                                  toFcitx[i].about)
            BY DEF Failed
        <2>3. toFcitx[i].about \in About
            BY <2>1 DEF Calls
        <2> QED BY <2>2, <2>3 DEF Message, Answers
    <1>2. DOMAIN toFcitx = 1 .. Len(toFcitx) /\ Len(toFcitx) \in Nat
        BY DEF FlowType
    <1>3. Failed \in [1 .. Len(toFcitx) -> Answers]
        BY <1>1, <1>2 DEF Failed
    <1> QED BY <1>1, <1>2, <1>3 DEF Failed

LEMMA FlowStep == FlowType /\ [Next]_vars => FlowType'
    <1> SUFFICES ASSUME FlowType, [Next]_vars PROVE FlowType'
        OBVIOUS
    <1>0. NoFocus \in [left : Int, on : BOOLEAN, about : About]
        BY DEF NoFocus, Off, About
    <1> USE DEF FlowType
    <1>1. ASSUME Arm PROVE toFcitx' \in Seq(Calls)
        BY <1>1, CallType DEF Arm, arming
    <1>2. CASE RearmFires \/ OwnerFires
        BY <1>1, <1>2 DEF RearmFires, OwnerFires, world, history
    <1>3. CASE FocusFires
        <2>1. /\ UNCHANGED <<field, ui, fromFcitx, rearmTimer>> /\ focusTimer' = NoFocus
              /\ misled' \in BOOLEAN /\ overtaken' \in BOOLEAN
            BY <1>3 DEF FocusFires, world, Miss
        <2>2. CASE Asks
            <3>1. /\ toFcitx' = Append(toFcitx, Message("ask", focusTimer.about))
                  /\ focused' = focused
                BY <1>3, <2>2 DEF FocusFires, ApplyFocus
            <3>2. Message("ask", focusTimer.about) \in Calls
                BY DEF Message, Calls
            <3> QED BY <1>0, <2>1, <3>1, <3>2
        <2>3. CASE ~Asks
            <3>1. toFcitx' = toFcitx /\ focused' = focusTimer.on
                BY <1>3, <2>3 DEF FocusFires, ApplyFocus, SetFocus
            <3> QED BY <1>0, <2>1, <3>1
        <2> QED BY <2>2, <2>3
    <1>4. CASE ShowFires \/ Plug \/ ThemeChanges \/ Crash \/ GetReady \/ UNCHANGED vars
        <2>1. UNCHANGED <<field, focused, misled, overtaken, ui, toFcitx, fromFcitx, focusTimer,
                          rearmTimer>>
            BY <1>4 DEF ShowFires, Plug, ThemeChanges, Crash, GetReady, vars, world, fcitx, timers,
                        daemon, history
        <2> QED BY <2>1
    <1>5. CASE OnOutput
        <2>1. UNCHANGED <<field, focused, misled, overtaken, ui, toFcitx, fromFcitx, focusTimer>>
            BY <1>5 DEF OnOutput, world, fcitx, history
        <2>2. rearmTimer' \in Nat
            BY <1>5, OskAssumption DEF OnOutput, ReadOutput
        <2> QED BY <2>1, <2>2
    <1>6. CASE OnUdev
        <2>1. UNCHANGED <<field, focused, misled, overtaken, ui, fromFcitx, focusTimer, rearmTimer>>
            BY <1>6 DEF OnUdev, timers, history
        <2>2. CallFcitx \/ toFcitx' = toFcitx
            BY <1>6 DEF OnUdev, OnPhysicalKeyboard, arming
        <2> QED BY <2>1, <2>2, CallType
    <1>7. CASE Receive
        <2> DEFINE m == Head(fromFcitx)
        <2>1. /\ m \in Answers /\ fromFcitx' \in Seq(Answers)
              /\ UNCHANGED <<field, ui, rearmTimer>>
            BY <1>7 DEF Receive, world
        <2>2. CASE OnFocus(m)
            <3> HIDE DEF m
            <3>1. /\ UNCHANGED <<toFcitx, focused, overtaken>> /\ misled' \in BOOLEAN
                  /\ focusTimer' = focusTimer \/ DebounceFocus(m)
                BY <2>2 DEF OnFocus, arming, Miss
            <3> QED BY <2>1, <3>1, FocusTimerType
        <2>3. CASE OnCurrentUI(m)
            <3> HIDE DEF m
            <3>1. /\ UNCHANGED <<focusTimer, overtaken>> /\ misled' \in BOOLEAN
                  /\ \/ focused' = FALSE /\ toFcitx' = toFcitx
                     \/ focused' = focused /\ Arm
                BY <2>3 DEF OnCurrentUI, SetFocus, arming, Miss
            <3> QED BY <1>1, <2>1, <3>1
        <2>4. CASE UNCHANGED <<arming, focusTimer, focused, locked, kb, state, history>>
            BY <2>1, <2>4 DEF arming, history
        <2> QED BY <1>7, <2>2, <2>3, <2>4 DEF Receive
    <1>8. ASSUME NEW c \in Commands, Command(c) PROVE FlowType'
        <2>1. UNCHANGED <<field, focused, misled, overtaken, ui, fromFcitx, focusTimer, rearmTimer>>
            BY <1>8 DEF Command, world, timers, history
        <2>2. Arm \/ toFcitx' = toFcitx
            BY <1>8 DEF Command, HideAndArm, ShowOnly, ChangeLayout, arming
        <2> QED BY <1>1, <2>1, <2>2
    <1>9. CASE FcitxHandles
        <2>1. /\ UNCHANGED <<field, focused, misled, overtaken, focusTimer, rearmTimer>>
              /\ Head(toFcitx) \in Calls /\ toFcitx' \in Seq(Calls)
            BY <1>9 DEF FcitxHandles, world, timers, history
        <2>2. CASE Head(toFcitx).call = "arm"
            <3>1. Message("show", "mode") \in Answers /\ Message("hide", "mode") \in Answers
                BY DEF Message, Answers, About
            <3>2. /\ fromFcitx' = fromFcitx \o <<Message("show", "mode"), Message("hide", "mode")>>
                  /\ ui' = "vk"
                BY <1>9, <2>2 DEF FcitxHandles
            <3> QED BY <2>1, <3>1, <3>2
        <2>3. CASE Head(toFcitx).call # "arm"
            <3>1. Message(ui, Head(toFcitx).about) \in Answers
                BY <2>1 DEF Message, Answers, Calls
            <3>2. /\ fromFcitx' = Append(fromFcitx, Message(ui, Head(toFcitx).about)) /\ ui' = ui
                BY <1>9, <2>3 DEF FcitxHandles
            <3> QED BY <2>1, <3>1, <3>2
        <2> QED BY <2>2, <2>3
    <1>10. CASE FcitxRestarts
        <2>1. /\ UNCHANGED <<field, focused, misled, overtaken, focusTimer, rearmTimer>>
              /\ toFcitx' = <<>> /\ fromFcitx' = fromFcitx \o Failed /\ ui' = "other"
            BY <1>10 DEF FcitxRestarts, Failed, world, timers, history
        <2>2. Failed \in Seq(Answers)
            BY FailedType
        <2>3. fromFcitx' \in Seq(Answers)
            BY <2>1, <2>2
        <2> QED BY <2>1, <2>3
    <1>11. ASSUME NEW key \in Keys, Type(key) PROVE FlowType'
        <2>1. /\ UNCHANGED <<field, focused, misled, overtaken, toFcitx, focusTimer, rearmTimer>>
              /\ ui' = "other"
              /\ fromFcitx' = fromFcitx \/ fromFcitx' = fromFcitx \o <<Message("hide", "mode")>>
            BY <1>11 DEF Type, Report, world, timers, daemon
        <2>2. Message("hide", "mode") \in Answers
            BY DEF Message, Answers, About
        <2> QED BY <2>1, <2>2
    <1>12. ASSUME NEW on \in BOOLEAN, Refocus(on),
                  UNCHANGED <<focused, overtaken, ui, toFcitx, focusTimer, rearmTimer>>
           PROVE  FlowType'
        BY <1>12, RefocusType
    <1>13. ASSUME NEW on \in BOOLEAN, MoveFocus(on) \/ Lock(on) PROVE FlowType'
        BY <1>12, <1>13 DEF MoveFocus, Lock, daemon, timers
    <1>14. CASE Tick
        <2>1. UNCHANGED <<field, focused, misled, overtaken, ui, toFcitx, fromFcitx>>
            BY <1>14 DEF Tick, world, fcitx, history
        <2>2. /\ focusTimer' = [focusTimer EXCEPT !.left = Left(@)]
              /\ rearmTimer' = Left(rearmTimer)
            BY <1>14 DEF Tick
        <2> QED BY <2>1, <2>2 DEF Left, Off
    <1> QED BY <1>2, <1>3, <1>4, <1>5, <1>6, <1>7, <1>8, <1>9, <1>10, <1>11, <1>13, <1>14 DEF Next

-----------------------------------------------------------------------------
(* fcitx5 stays armed *)

\* The daemon learns of the keys wvkbd prints, and of no other (omarchy-surface-osk:246).
Printed == "silent" \notin Keys

\* Calls to arm fcitx5 are on their way.
Sent == \E i \in DOMAIN toFcitx : toFcitx[i].call = "arm"

\* Characters that were typed will have it armed, or nobody has read them.
Owed(k) == k.typed \/ k.lost

\* While fcitx5 is not in on-screen keyboard mode, and no keyboard is attached,
\* something is going to arm it.
ArmedInv ==
    ui # "vk" /\ ~present => Sent \/ rearmTimer # Off \/ ownerTimers # {} \/ Owed(kb)

LEMMA OwedStays ==
    ASSUME NEW k, Sound(k), Owed(k), NEW ok \in BOOLEAN
    PROVE  /\ Owed(Start(k, ok)) /\ Owed(Show(k, ok)) /\ Owed(Hide(k)) /\ Owed(Aged(k))
           /\ \A w \in k.waiting : Owed(SendShow([k EXCEPT !.waiting = @ \ {w}], w.own))
    <1> USE DEF Sound, Kbs, Owed
    <1>1. Owed(Start(k, ok))
        BY DEF Start, Stop
    <1>2. ASSUME NEW j \in Kbs, Owed(j)
          PROVE  Owed(Signal(j, TRUE)) /\ Owed(Signal(j, FALSE))
        BY <1>2 DEF Signal
    <1>3. Owed(Show(k, ok))
        <2> DEFINE v == [EnsureRunning(k, ok) EXCEPT !.visible = TRUE]
        <2>1. v \in Kbs /\ Owed(v)
            BY <1>1, StartIsSound DEF EnsureRunning
        <2>2. Show(k, ok) = ShowWhenStarted(v)
            BY DEF Show
        <2> HIDE DEF v
        <2> QED BY <1>2, <2>1, <2>2 DEF ShowWhenStarted, SendShow
    <1>4. Owed(Hide(k))
        BY DEF Hide, Signal
    <1>5. Owed(Aged(k))
        BY DEF Aged
    <1>6. ASSUME NEW w \in k.waiting
          PROVE  Owed(SendShow([k EXCEPT !.waiting = @ \ {w}], w.own))
        BY DEF SendShow, Signal
    <1> QED BY <1>1, <1>3, <1>4, <1>5, <1>6

\* The keyboard is told to do something, or something happens to it: what is owed stays.
LEMMA KeyboardOwes ==
    ASSUME KbInv, [Next]_vars, Owed(kb)
    PROVE  Owed(kb') \/ OnOutput
    <1> USE DEF KbInv
    <1>0. ASSUME NEW k, Sound(k), Owed(k), ShowAndPublish(k) PROVE Owed(kb')
        BY <1>0, OwedStays, StartsType DEF ShowAndPublish
    <1>1. CASE RearmFires \/ OwnerFires \/ FcitxHandles \/ FcitxRestarts \/ Plug
        BY <1>1 DEF RearmFires, OwnerFires, FcitxHandles, FcitxRestarts, Plug
    <1>2. ASSUME NEW on, SetFocus(on) PROVE Owed(kb')
        <2>1. kb' = kb \/ kb' = Hide(kb) \/ ShowAndPublish(kb)
            BY <1>2 DEF SetFocus, FollowFocus
        <2> QED BY <1>0, <2>1, OwedStays
    <1>3. CASE FocusFires
        BY <1>2, <1>3 DEF FocusFires, ApplyFocus
    <1>4. CASE ShowFires
        BY <1>4, OwedStays DEF ShowFires
    <1>5. CASE OnUdev
        BY <1>5, OwedStays DEF OnUdev, OnPhysicalKeyboard
    <1>6. CASE Receive
        BY <1>2, <1>6 DEF Receive, OnFocus, OnCurrentUI
    <1>7. ASSUME NEW c \in Commands, Command(c) PROVE Owed(kb')
        <2>1. CASE HideAndArm
            BY <2>1, OwedStays DEF HideAndArm
        <2>2. CASE ShowOnly
            BY <1>0, <2>2 DEF ShowOnly
        <2>3. CASE ChangeLayout
            <3>1. PICK ok \in Starts : IF kb.visible THEN ShowAndPublish(Start(kb, ok))
                                                     ELSE kb' = Start(kb, ok) /\ Publish
                BY <2>3 DEF ChangeLayout
            <3>2. Sound(Start(kb, ok)) /\ Owed(Start(kb, ok))
                BY StartIsSound, StartsType, OwedStays
            <3> QED BY <1>0, <3>1, <3>2
        <2>4. CASE UNCHANGED kb
            BY <2>4
        <2> QED BY <1>7, <2>1, <2>2, <2>3, <2>4 DEF Command
    <1>8. ASSUME NEW key \in Keys, Type(key) PROVE Owed(kb')
        BY <1>8 DEF Type, Owed, Sound, Kbs
    <1>9. ASSUME NEW on \in BOOLEAN, MoveFocus(on) \/ Lock(on) PROVE Owed(kb')
        BY <1>9 DEF MoveFocus, Lock
    <1>10. CASE ThemeChanges \/ Crash \/ GetReady
        BY <1>10 DEF ThemeChanges, Crash, GetReady, Owed, Sound, Kbs
    <1>11. CASE Tick
        BY <1>11, OwedStays DEF Tick
    <1>12. CASE UNCHANGED vars
        BY <1>12 DEF vars
    <1> QED BY <1>1, <1>3, <1>4, <1>5, <1>6, <1>7, <1>8, <1>9, <1>10, <1>11, <1>12 DEF Next

LEMMA ArmedInit == Init => ArmedInv
    BY DEF Init, ArmedInv

\* Once it is called, and a keyboard is not attached, the calls are on their way.
LEMMA ArmSends ==
    ASSUME FlowType, Arm
    PROVE  Sent \/ ~present => Sent'
    <1>1. CASE present
        BY <1>1 DEF Arm, arming, Sent
    <1>2. CASE ~present
        <2>1. CallFcitx /\ toFcitx \in Seq(Calls)
            BY <1>2 DEF Arm, FlowType
        <2>2. Len(toFcitx) + 1 \in DOMAIN toFcitx' /\ toFcitx'[Len(toFcitx) + 1].call = "arm"
            BY <2>1, CallType DEF Message
        <2> QED BY <2>2 DEF Sent
    <1> QED BY <1>1, <1>2

\* A step that leaves the timers and fcitx5 alone, and at most calls.
LEMMA ArmedKept ==
    ASSUME FlowType, ArmedInv, UNCHANGED <<rearmTimer, ownerTimers, ui>>, Owed(kb) => Owed(kb'),
           \/ toFcitx' = toFcitx /\ (present => present')
           \/ toFcitx' = Append(toFcitx, Message("ask", focusTimer.about)) /\ present' = present
           \/ CallFcitx
           \/ Arm /\ present' = present
    PROVE  ArmedInv'
    <1> USE DEF ArmedInv
    <1>1. CASE toFcitx' = toFcitx /\ (present => present')
        BY <1>1 DEF Sent
    <1>2. CASE toFcitx' = Append(toFcitx, Message("ask", focusTimer.about)) /\ present' = present
        <2>1. toFcitx \in Seq(Calls)
            BY DEF FlowType
        <2>2. Sent => Sent'
            <3> SUFFICES ASSUME NEW i \in DOMAIN toFcitx, toFcitx[i].call = "arm" PROVE Sent'
                BY DEF Sent
            <3>1. i \in DOMAIN toFcitx' /\ toFcitx'[i] = toFcitx[i]
                BY <1>2, <2>1
            <3> QED BY <3>1 DEF Sent
        <2> QED BY <1>2, <2>2
    <1>3. CASE CallFcitx
        <2>1. toFcitx \in Seq(Calls)
            BY DEF FlowType
        <2>2. Len(toFcitx) + 1 \in DOMAIN toFcitx' /\ toFcitx'[Len(toFcitx) + 1].call = "arm"
            BY <1>3, <2>1, CallType DEF Message
        <2>3. Sent'
            BY <2>2 DEF Sent
        <2> QED BY <2>3
    <1>4. CASE Arm /\ present' = present
        BY <1>4, ArmSends
    <1> QED BY <1>1, <1>2, <1>3, <1>4

LEMMA ArmedStep ==
    ASSUME Printed, KbInv, FlowType, ArmedInv, [Next]_vars
    PROVE  ArmedInv'
    <1> USE DEF ArmedInv
    <1>1. CASE OnOutput
        <2>1. rearmTimer' = Rearm /\ toFcitx' = toFcitx
            BY <1>1 DEF OnOutput, ReadOutput, fcitx
        <2> QED BY <2>1, OskAssumption DEF Off
    <1>2. CASE RearmFires \/ OwnerFires
        <2>1. present' = present /\ Arm
            BY <1>2 DEF RearmFires, OwnerFires
        <2> QED BY <2>1, ArmSends
    <1> USE KeyboardOwes
    <1>4. CASE FcitxHandles
        <2>1. /\ toFcitx # <<>> /\ toFcitx' = Tail(toFcitx) /\ toFcitx \in Seq(Calls)
              /\ rearmTimer' = rearmTimer /\ ownerTimers' = ownerTimers /\ present' = present
              /\ kb' = kb
            BY <1>4 DEF FcitxHandles, timers, FlowType
        <2>2. CASE Head(toFcitx).call = "arm"
            BY <1>4, <2>1, <2>2 DEF FcitxHandles
        <2>3. CASE Head(toFcitx).call # "arm"
            <3>1. ui' = ui
                BY <1>4, <2>3 DEF FcitxHandles
            <3>2. Sent => Sent'
                <4> SUFFICES ASSUME NEW i \in DOMAIN toFcitx, toFcitx[i].call = "arm" PROVE Sent'
                    BY DEF Sent
                <4>1. i # 1
                    BY <2>3
                <4>2. i - 1 \in DOMAIN toFcitx' /\ toFcitx'[i - 1].call = "arm"
                    BY <2>1, <4>1
                <4> QED BY <4>2 DEF Sent
            <3> QED BY <2>1, <3>1, <3>2
        <2> QED BY <2>2, <2>3
    <1>5. CASE FcitxRestarts
        <2>1. ownerTimers' = ownerTimers \cup {Owner}
            BY <1>5 DEF FcitxRestarts
        <2>2. ownerTimers' # {}
            BY <2>1
        <2> QED BY <2>2
    <1>6. CASE ~OnOutput /\ (FocusFires \/ ShowFires \/ Receive \/ OnUdev)
        <2>1. UNCHANGED <<rearmTimer, ownerTimers, ui>>
            BY <1>6 DEF FocusFires, ShowFires, Receive, OnUdev, fcitx, timers
        <2>2. CASE FocusFires
            BY <1>6, <2>1, <2>2, ArmedKept DEF FocusFires, ApplyFocus
        <2>3. CASE ShowFires
            BY <1>6, <2>1, <2>3, ArmedKept DEF ShowFires, fcitx
        <2>4. CASE Receive
            BY <1>6, <2>1, <2>4, ArmedKept DEF Receive, OnFocus, OnCurrentUI, arming
        <2>5. CASE OnUdev
            <3>1. CASE present' = present
                BY <1>6, <2>1, <2>5, <3>1, ArmedKept DEF OnUdev, arming
            <3>2. CASE present' # present
                BY <1>6, <2>1, <2>5, <3>2, ArmedKept DEF OnUdev, OnPhysicalKeyboard, arming
            <3> QED BY <3>1, <3>2
        <2> QED BY <1>6, <2>2, <2>3, <2>4, <2>5
    <1>7. ASSUME ~OnOutput, NEW c \in Commands, Command(c) PROVE ArmedInv'
        <2>1. UNCHANGED <<rearmTimer, ownerTimers, ui, present>>
            BY <1>7 DEF Command, timers
        <2>2. toFcitx' = toFcitx \/ Arm
            BY <1>7 DEF Command, HideAndArm, ShowOnly, ChangeLayout, arming
        <2> QED BY <1>7, <2>1, <2>2, ArmedKept
    <1>8. ASSUME NEW key \in Keys, Type(key) PROVE ArmedInv'
        <2>1. key = "printed"
            BY OskAssumption, Printed DEF Printed, KeyKinds
        <2>2. kb' = [kb EXCEPT !.typed = TRUE]
            BY <1>8, <2>1 DEF Type
        <2>3. Owed(kb')
            BY <2>2 DEF KbInv, Sound, Kbs, Owed
        <2> QED BY <2>3
    <1>9. ASSUME NEW on \in BOOLEAN, MoveFocus(on) \/ Lock(on) PROVE ArmedInv'
        <2>1. UNCHANGED <<rearmTimer, ownerTimers, ui, present, toFcitx, kb>>
            BY <1>9 DEF MoveFocus, Lock, daemon, timers
        <2> QED BY <2>1, ArmedKept
    <1>10. CASE ~OnOutput /\ (Plug \/ ThemeChanges \/ Crash \/ GetReady)
        <2>1. UNCHANGED <<rearmTimer, ownerTimers, ui, present, toFcitx>>
            BY <1>10 DEF Plug, ThemeChanges, Crash, GetReady, daemon, timers, fcitx
        <2> QED BY <1>10, <2>1, ArmedKept
    <1>11. CASE ~OnOutput /\ Tick
        <2>1. /\ toFcitx' = toFcitx /\ ui' = ui /\ present' = present
              /\ ownerTimers' = {Left(t) : t \in ownerTimers}
              /\ rearmTimer' = Left(rearmTimer)
            BY <1>11 DEF Tick, fcitx
        <2>2. ownerTimers # {} => ownerTimers' # {}
            BY <2>1
        <2>3. rearmTimer # Off => rearmTimer' # Off
            BY <2>1 DEF Left, Off, FlowType
        <2>4. Owed(kb) => Owed(kb')
            BY <1>11
        <2>5. Sent' = Sent
            BY <2>1 DEF Sent
        <2> QED BY <2>1, <2>2, <2>3, <2>4, <2>5
    <1>12. CASE UNCHANGED vars
        BY <1>12, ArmedKept DEF vars, timers, fcitx
    <1> QED BY <1>1, <1>2, <1>4, <1>5, <1>6, <1>7, <1>8, <1>9, <1>10, <1>11, <1>12 DEF Next

\* When nothing is under way and no keyboard is attached, fcitx5 is in on-screen
\* keyboard mode and reports the focus: whatever printing keys are typed, however fcitx5
\* is restarted and keyboards come and go, for any times and timers
\* (omarchy-surface-osk:341).
THEOREM ArmedCorrect == ASSUME Printed PROVE Spec => []StaysArmed
    <1>1. ArmedInv /\ KbInv => StaysArmed
        BY DEF ArmedInv, StaysArmed, Quiet, Sent, Owed, KbInv, Sound, Kbs
    <1>2. ArmedInv /\ FlowType /\ KbInv /\ [Next]_vars => ArmedInv'
        BY ArmedStep
    <1> QED BY KbInit, KbStep, FlowInit, FlowStep, ArmedInit, <1>1, <1>2, PTL DEF Spec

-----------------------------------------------------------------------------
(* The focus is tracked *)

\* What state.json says of the focus, unless wvkbd could not be started.
FocusSaid == state.focused = focused \/ kb.proc = "none"

LEMMA SaidStep == FocusSaid /\ KbInv /\ [Next]_vars => FocusSaid'
    <1> SUFFICES ASSUME FocusSaid, KbInv, [Next]_vars PROVE FocusSaid'
        OBVIOUS
    <1> USE DEF FocusSaid
    <1>1. ASSUME state' = state, focused' = focused, kb'.proc = kb.proc \/ kb.proc # "none"
          PROVE  FocusSaid'
        BY <1>1
    <1>2. ASSUME NEW on, SetFocus(on) PROVE FocusSaid'
        BY <1>2, FocusStep
    <1>3. CASE FocusFires
        BY <1>1, <1>2, <1>3 DEF FocusFires, ApplyFocus
    <1>4. CASE Receive
        BY <1>1, <1>2, <1>4 DEF Receive, OnFocus, OnCurrentUI
    <1>5. CASE OnUdev
        BY <1>5, UdevStep DEF OnUdev
    <1>6. ASSUME NEW c \in Commands, Command(c) PROVE FocusSaid'
        BY <1>6, CommandStep
    <1>7. CASE ShowFires
        <2>1. PICK w \in kb.waiting :
                w.left = 0 /\ kb' = SendShow([kb EXCEPT !.waiting = @ \ {w}], w.own)
            BY <1>7 DEF ShowFires
        <2>2. kb'.proc = kb.proc
            BY <2>1, SendShowIsSound DEF KbInv
        <2> QED BY <1>1, <1>7, <2>2 DEF ShowFires
    <1>8. CASE RearmFires \/ OwnerFires \/ FcitxHandles \/ FcitxRestarts \/ Plug \/ UNCHANGED vars
        BY <1>1, <1>8 DEF RearmFires, OwnerFires, FcitxHandles, FcitxRestarts, Plug, vars, daemon
    <1>9. ASSUME NEW on \in BOOLEAN, MoveFocus(on) \/ Lock(on) PROVE FocusSaid'
        BY <1>1, <1>9 DEF MoveFocus, Lock, daemon
    <1>10. CASE OnOutput \/ (\E key \in Keys : Type(key)) \/ ThemeChanges \/ Crash \/ GetReady
        <2>1. state' = state /\ focused' = focused
            BY <1>10 DEF OnOutput, Type, ThemeChanges, Crash, GetReady, daemon
        <2>2. kb'.proc = kb.proc \/ kb.proc = "up"
            BY <1>10
            DEF OnOutput, ReadOutput, Type, ThemeChanges, Crash, GetReady, Running, KbInv, Sound, Kbs
        <2> QED BY <1>1, <2>1, <2>2
    <1>11. CASE Tick
        BY <1>1, <1>11, AgedIsSound DEF Tick, KbInv
    <1> QED BY <1>3, <1>4, <1>5, <1>6, <1>7, <1>8, <1>9, <1>10, <1>11 DEF Next

\* The last report of the focus among the messages.
Latest(i) ==
    /\ ReportsFocus(fromFcitx[i])
    /\ \A j \in DOMAIN fromFcitx : j > i => ~ReportsFocus(fromFcitx[j])

\* A question about the focus, or its answer, is on its way and was not overtaken.
AsksFocus(m) == m.about = "focus" /\ m.call = "ask"
AnswersFocus(m) == m.about = "focus" /\ m.call \in {"vk", "other", "error"}
Asking == \E i \in DOMAIN toFcitx : AsksFocus(toFcitx[i])
Answered == \E i \in DOMAIN fromFcitx : AnswersFocus(fromFcitx[i])
Asked == ~overtaken /\ (Asking \/ Answered)

\* Whether a text field has the focus is what the last report says, or else the timer,
\* or else the question, or else the daemon.
ReportTrue == \A i \in DOMAIN fromFcitx : Latest(i) => (field <=> fromFcitx[i].call = "show")
Newest == ~Reported(fromFcitx)
TimerTrue == Newest /\ focusTimer.about = "focus" => (field <=> focusTimer.on)
QuestionTrue == Newest /\ focusTimer.about # "focus" /\ Asked => ~field
DaemonTrue == Newest /\ focusTimer.about # "focus" /\ ~Asked => (field <=> focused)

Tracked == ReportTrue /\ TimerTrue /\ QuestionTrue /\ DaemonTrue

FocusInv == ~misled => Tracked

LEMMA FocusInit == Init => FocusInv /\ FocusSaid
    <1> SUFFICES ASSUME Init PROVE FocusInv /\ FocusSaid
        OBVIOUS
    <1>1. /\ fromFcitx = <<>> /\ misled = field /\ focused = FALSE
          /\ focusTimer.about = "mode" /\ state.focused = focused
        BY DEF Init, NoFocus, Published
    <1>2. toFcitx = <<>> \/ toFcitx = <<Message("arm", "mode")>>
        BY DEF Init
    <1>3. ~Asking /\ ~Answered
        BY <1>1, <1>2 DEF Asking, Answered, AsksFocus, Message
    <1> QED BY <1>1, <1>3
            DEF FocusInv, FocusSaid, Tracked, ReportTrue, TimerTrue, QuestionTrue, DaemonTrue, Asked

\* What is on its way about the focus stays, and so does the focus.
LEMMA TrackedKept ==
    ASSUME Tracked, UNCHANGED <<field, focused, fromFcitx>>,
           Asked' <=> Asked,
           focusTimer'.on = focusTimer.on, focusTimer'.about = focusTimer.about
    PROVE  Tracked'
    <1>1. ReportTrue' /\ (Newest' <=> Newest)
        BY DEF Tracked, ReportTrue, Latest, Newest
    <1> QED BY <1>1 DEF Tracked, TimerTrue, QuestionTrue, DaemonTrue

\* A call that is not about the focus.
LEMMA CallKept ==
    ASSUME FlowType, CallFcitx
    PROVE  Asking' <=> Asking
    <1>1. toFcitx \in Seq(Calls)
        BY DEF FlowType
    <1>2. /\ toFcitx' \in Seq(Calls) /\ Len(toFcitx') = Len(toFcitx) + 1
          /\ toFcitx'[Len(toFcitx) + 1] = Message("arm", "mode")
          /\ \A i \in DOMAIN toFcitx : toFcitx'[i] = toFcitx[i]
        BY <1>1, CallType
    <1>3. ~AsksFocus(toFcitx'[Len(toFcitx) + 1])
        BY <1>2 DEF AsksFocus, Message
    <1>4. \A i \in DOMAIN toFcitx' : i \in DOMAIN toFcitx \/ i = Len(toFcitx) + 1
        BY <1>1, <1>2
    <1>5. \A i \in DOMAIN toFcitx : i \in DOMAIN toFcitx'
        BY <1>1, <1>2
    <1> QED BY <1>2, <1>3, <1>4, <1>5 DEF Asking

LEMMA ArmKept ==
    ASSUME FlowType, Arm \/ CallFcitx
    PROVE  Asking' <=> Asking
    BY CallKept DEF Arm, arming, Asking

\* A question is sent.
LEMMA AskSends ==
    ASSUME FlowType, toFcitx' = Append(toFcitx, Message("ask", focusTimer.about))
    PROVE  Asking' <=> (Asking \/ focusTimer.about = "focus")
    <1> DEFINE m == Message("ask", focusTimer.about)
    <1>1. toFcitx \in Seq(Calls) /\ m \in Calls
        BY DEF FlowType, Message, Calls
    <1>2. AsksFocus(m) <=> focusTimer.about = "focus"
        BY DEF AsksFocus, Message
    <1> HIDE DEF m
    <1>3. /\ Len(toFcitx') = Len(toFcitx) + 1 /\ toFcitx'[Len(toFcitx) + 1] = m
          /\ \A i \in DOMAIN toFcitx : i \in DOMAIN toFcitx' /\ toFcitx'[i] = toFcitx[i]
          /\ \A i \in DOMAIN toFcitx' : i \in DOMAIN toFcitx \/ i = Len(toFcitx) + 1
          /\ Len(toFcitx) + 1 \in DOMAIN toFcitx'
        BY <1>1 DEF m
    <1> QED BY <1>2, <1>3 DEF Asking

\* Messages that do not report the focus come behind the others.
LEMMA MessagesKept ==
    ASSUME FlowType, NEW r \in Seq(Answers), \A i \in DOMAIN r : ~ReportsFocus(r[i]),
           ReportTrue, field' = field, fromFcitx' = fromFcitx \o r
    PROVE  /\ ReportTrue' /\ (Newest' <=> Newest)
           /\ Answered' <=> (Answered \/ \E i \in DOMAIN r : AnswersFocus(r[i]))
    <1>1. fromFcitx \in Seq(Answers)
        BY DEF FlowType
    <1>2. /\ \A i \in DOMAIN fromFcitx : i \in DOMAIN fromFcitx' /\ fromFcitx'[i] = fromFcitx[i]
          /\ \A i \in DOMAIN r : /\ Len(fromFcitx) + i \in DOMAIN fromFcitx'
                                 /\ fromFcitx'[Len(fromFcitx) + i] = r[i]
          /\ \A i \in DOMAIN fromFcitx' : \/ i \in DOMAIN fromFcitx
                                          \/ i - Len(fromFcitx) \in DOMAIN r
                                             /\ fromFcitx'[i] = r[i - Len(fromFcitx)]
        BY <1>1
    <1>3. \A i \in DOMAIN fromFcitx' : ReportsFocus(fromFcitx'[i]) => i \in DOMAIN fromFcitx
        BY <1>2
    <1>4. Newest' <=> Newest
        BY <1>2, <1>3 DEF Newest, Reported
    <1>5. ReportTrue'
        <2> SUFFICES ASSUME NEW i \in DOMAIN fromFcitx', Latest(i)'
                     PROVE  field <=> fromFcitx'[i].call = "show"
            BY DEF ReportTrue
        <2>1. i \in DOMAIN fromFcitx /\ fromFcitx'[i] = fromFcitx[i]
            BY <1>2, <1>3 DEF Latest
        <2>2. Latest(i)
            BY <1>2, <2>1 DEF Latest
        <2> QED BY <2>1, <2>2 DEF ReportTrue
    <1>6. Answered' <=> (Answered \/ \E i \in DOMAIN r : AnswersFocus(r[i]))
        BY <1>2 DEF Answered
    <1> QED BY <1>4, <1>5, <1>6

\* The focus is applied, or fcitx5 is asked first.
LEMMA FiresTracked ==
    ASSUME FlowType, Tracked, FocusFires, ~misled'
    PROVE  Tracked'
    <1>1. UNCHANGED <<field, fromFcitx>> /\ focusTimer'.about = "mode"
        BY DEF FocusFires, world, NoFocus
    <1>2. ReportTrue' /\ (Newest' <=> Newest) /\ (Answered' <=> Answered)
        BY <1>1 DEF Tracked, ReportTrue, Latest, Newest, Answered
    <1>3. TimerTrue'
        BY <1>1 DEF TimerTrue
    <1>4. focusTimer.on \in BOOLEAN /\ overtaken \in BOOLEAN
        BY DEF FlowType
    <1>5. CASE focusTimer.about = "focus"
        <2>1. Newest => (field <=> focusTimer.on)
            BY <1>5 DEF Tracked, TimerTrue
        <2>2. overtaken' = (~Asks /\ (overtaken \/ focusTimer.on))
            BY <1>5 DEF FocusFires
        <2>3. CASE Asks
            <3>1. toFcitx' = Append(toFcitx, Message("ask", focusTimer.about))
                BY <2>3 DEF FocusFires, ApplyFocus
            <3>2. Asking' /\ ~overtaken' /\ ~focusTimer.on
                BY <1>5, <2>2, <2>3, <3>1, AskSends DEF Asks
            <3> QED BY <1>1, <1>2, <1>3, <2>1, <3>2
                    DEF Tracked, QuestionTrue, DaemonTrue, Asked
        <2>4. CASE ~Asks
            <3>1. focused' = focusTimer.on
                BY <2>4 DEF FocusFires, ApplyFocus, SetFocus
            <3>2. ~overtaken' => ~focusTimer.on
                BY <2>2, <2>4
            <3> QED BY <1>1, <1>2, <1>3, <2>1, <3>1, <3>2
                    DEF Tracked, QuestionTrue, DaemonTrue, Asked
        <2> QED BY <2>3, <2>4
    <1>6. CASE focusTimer.about # "focus"
        <2>1. overtaken' = overtaken /\ focused' = focused
            BY <1>6 DEF FocusFires, Miss
        <2>2. Asking' <=> Asking
            BY <1>6, AskSends DEF FocusFires, ApplyFocus, Asking
        <2> QED BY <1>1, <1>2, <1>3, <1>6, <2>1, <2>2
                DEF Tracked, QuestionTrue, DaemonTrue, Asked
    <1> QED BY <1>5, <1>6

\* What is left when the first message is received.
LEMMA TailKeeps ==
    ASSUME FlowType, fromFcitx # <<>>, fromFcitx' = Tail(fromFcitx), field' = field, ReportTrue
    PROVE  LET m == Head(fromFcitx) IN
           /\ m \in Answers
           /\ ReportTrue'
           /\ Newest <=> (~ReportsFocus(m) /\ Newest')
           /\ Answered <=> (AnswersFocus(m) \/ Answered')
           /\ ReportsFocus(m) /\ Newest' => (field <=> m.call = "show")
    <1> DEFINE m == Head(fromFcitx)
    <1>1. fromFcitx \in Seq(Answers)
        BY DEF FlowType
    <1>2. /\ m \in Answers /\ m = fromFcitx[1] /\ 1 \in DOMAIN fromFcitx
          /\ \A i \in DOMAIN fromFcitx' : /\ i + 1 \in DOMAIN fromFcitx
                                          /\ fromFcitx'[i] = fromFcitx[i + 1]
          /\ \A i \in DOMAIN fromFcitx : \/ i = 1
                                         \/ i - 1 \in DOMAIN fromFcitx'
                                            /\ fromFcitx'[i - 1] = fromFcitx[i]
          /\ DOMAIN fromFcitx \subseteq Int /\ DOMAIN fromFcitx' \subseteq Int
        BY <1>1
    <1> HIDE DEF m
    <1>3. ReportTrue'
        <2> SUFFICES ASSUME NEW i \in DOMAIN fromFcitx', Latest(i)'
                     PROVE  field <=> fromFcitx'[i].call = "show"
            BY DEF ReportTrue
        <2>1. i + 1 \in DOMAIN fromFcitx /\ fromFcitx'[i] = fromFcitx[i + 1]
            BY <1>2
        <2>2. ASSUME NEW j \in DOMAIN fromFcitx, j > i + 1 PROVE ~ReportsFocus(fromFcitx[j])
            <3>1. i \in Int /\ j \in Int /\ i >= 1
                BY <1>1, <1>2
            <3>2. j - 1 \in DOMAIN fromFcitx' /\ j - 1 > i /\ fromFcitx'[j - 1] = fromFcitx[j]
                BY <1>2, <2>2, <3>1
            <3> QED BY <3>2 DEF Latest
        <2>3. Latest(i + 1)
            BY <2>1, <2>2 DEF Latest
        <2> QED BY <2>1, <2>3 DEF ReportTrue
    <1>4. Newest <=> (~ReportsFocus(m) /\ Newest')
        BY <1>2 DEF Newest, Reported
    <1>5. Answered <=> (AnswersFocus(m) \/ Answered')
        BY <1>2 DEF Answered
    <1>6. ASSUME ReportsFocus(m), Newest' PROVE field <=> m.call = "show"
        <2>1. ASSUME NEW j \in DOMAIN fromFcitx, j > 1 PROVE ~ReportsFocus(fromFcitx[j])
            <3>1. j - 1 \in DOMAIN fromFcitx' /\ fromFcitx'[j - 1] = fromFcitx[j]
                BY <1>2, <2>1
            <3> QED BY <1>6, <3>1 DEF Newest, Reported
        <2>2. Latest(1)
            BY <1>2, <1>6, <2>1 DEF Latest
        <2> QED BY <1>2, <2>2 DEF ReportTrue
    <1> QED BY <1>2, <1>3, <1>4, <1>5, <1>6 DEF m

\* A report, an answer or a failed call is received.
LEMMA ReceiveTracked ==
    ASSUME FlowType, Tracked, Receive, ~misled'
    PROVE  Tracked'
    <1> DEFINE m == Head(fromFcitx)
    <1>1. fromFcitx # <<>> /\ fromFcitx' = Tail(fromFcitx) /\ field' = field
        BY DEF Receive, world
    <1>2. /\ m \in Answers
          /\ ReportTrue'
          /\ Newest <=> (~ReportsFocus(m) /\ Newest')
          /\ Answered <=> (AnswersFocus(m) \/ Answered')
          /\ ReportsFocus(m) /\ Newest' => (field <=> m.call = "show")
        BY <1>1, TailKeeps DEF Tracked
    <1>3. \/ m.call \in {"show", "hide"} /\ OnFocus(m)
          \/ m.call \in {"vk", "other", "error"} /\ OnCurrentUI(m)
          \/ /\ m.call = "failed"
             /\ UNCHANGED <<arming, focusTimer, focused, locked, kb, state, history>>
        BY DEF Receive
    <1> HIDE DEF m
    <1>4. CASE m.call \in {"show", "hide"} /\ OnFocus(m)
        <2>1. UNCHANGED <<toFcitx, focused, overtaken>>
            BY <1>4 DEF OnFocus, arming
        <2>2. (Asking' <=> Asking) /\ (Answered' <=> Answered)
            BY <1>2, <1>4, <2>1 DEF Asking, AnswersFocus
        <2>3. CASE ~Newest'
            BY <1>2, <2>3 DEF Tracked, TimerTrue, QuestionTrue, DaemonTrue
        <2>4. CASE Newest' /\ ignoring > 0
            <3>1. focusTimer' = focusTimer /\ m.about # "focus"
                BY <1>4, <2>4 DEF OnFocus, Miss, Newest
            <3>2. Newest
                BY <1>2, <2>4, <3>1 DEF ReportsFocus
            <3> QED BY <1>1, <1>2, <2>1, <2>2, <2>4, <3>1, <3>2
                    DEF Tracked, TimerTrue, QuestionTrue, DaemonTrue, Asked
        <2>5. CASE Newest' /\ ~(ignoring > 0)
            <3>1. DebounceFocus(m) /\ (m.about = "focus" \/ focusTimer.about # "focus")
                BY <1>4, <2>5 DEF OnFocus, Miss, Newest
            <3>2. focusTimer'.on = (m.call = "show") /\ focusTimer'.about = m.about
                BY <1>2, <3>1, FocusTimerType
            <3>3. CASE m.about = "focus"
                <4>1. field <=> m.call = "show"
                    BY <1>2, <1>4, <2>5, <3>3 DEF ReportsFocus
                <4> QED BY <1>1, <1>2, <3>2, <3>3, <4>1
                        DEF Tracked, TimerTrue, QuestionTrue, DaemonTrue
            <3>4. CASE m.about # "focus"
                <4>1. Newest /\ focusTimer.about # "focus"
                    BY <1>2, <2>5, <3>1, <3>4 DEF ReportsFocus
                <4> QED BY <1>1, <1>2, <2>1, <2>2, <3>2, <3>4, <4>1
                        DEF Tracked, TimerTrue, QuestionTrue, DaemonTrue, Asked
            <3> QED BY <3>3, <3>4
        <2> QED BY <2>3, <2>4, <2>5
    <1>5. CASE m.call \in {"vk", "other", "error"} /\ OnCurrentUI(m)
        <2>1. UNCHANGED <<focusTimer, overtaken>> /\ (Newest' <=> Newest)
            BY <1>2, <1>5 DEF OnCurrentUI, ReportsFocus
        <2>2. AnswersFocus(m) <=> m.about = "focus"
            BY <1>5 DEF AnswersFocus
        <2>3. TimerTrue'
            BY <1>1, <2>1 DEF Tracked, TimerTrue
        <2>4. CASE m.call = "vk"
            <3>1. /\ toFcitx' = toFcitx /\ focused' = FALSE
                  /\ (m.about = "focus" /\ ~overtaken) \/ focused' = focused
                BY <1>5, <2>4 DEF OnCurrentUI, SetFocus, arming, Miss
            <3>2. (Asking' <=> Asking) /\ (Answered' => Answered)
                BY <1>2, <3>1 DEF Asking
            <3>3. Asked' => Asked
                BY <2>1, <3>2 DEF Asked
            <3>4. m.about = "focus" /\ ~overtaken => Asked
                BY <1>2, <2>2 DEF Asked
            <3> QED BY <1>1, <1>2, <2>1, <2>3, <3>1, <3>3, <3>4
                    DEF Tracked, QuestionTrue, DaemonTrue
        <2>5. CASE m.call # "vk"
            <3>1. Arm /\ focused' = focused /\ ~(m.about = "focus" /\ ~overtaken)
                BY <1>5, <2>5 DEF OnCurrentUI, Miss
            <3>2. Asking' <=> Asking
                BY <3>1, ArmKept
            <3>3. Asked' <=> Asked
                BY <1>2, <2>1, <2>2, <3>1, <3>2 DEF Asked
            <3> QED BY <1>1, <1>2, <2>1, <2>3, <3>1, <3>3
                    DEF Tracked, QuestionTrue, DaemonTrue
        <2> QED BY <2>4, <2>5
    <1>6. CASE /\ m.call = "failed"
               /\ UNCHANGED <<arming, focusTimer, focused, locked, kb, state, history>>
        <2>1. UNCHANGED <<toFcitx, focusTimer, focused, overtaken>>
            BY <1>6 DEF arming, history
        <2>2. ~ReportsFocus(m) /\ ~AnswersFocus(m)
            BY <1>6 DEF ReportsFocus, AnswersFocus
        <2>3. (Newest' <=> Newest) /\ (Asked' <=> Asked)
            BY <1>2, <2>1, <2>2 DEF Asked, Asking
        <2> QED BY <1>1, <1>2, <2>1, <2>3 DEF Tracked, TimerTrue, QuestionTrue, DaemonTrue
    <1> QED BY <1>3, <1>4, <1>5, <1>6

\* fcitx5 answers: what it says of a question about the focus is about the focus.
LEMMA HandlesTracked ==
    ASSUME FlowType, Tracked, FcitxHandles
    PROVE  Tracked'
    <1> DEFINE h == Head(toFcitx)
    <1>1. /\ toFcitx # <<>> /\ toFcitx' = Tail(toFcitx) /\ toFcitx \in Seq(Calls)
          /\ UNCHANGED <<field, focused, focusTimer, overtaken>>
        BY DEF FcitxHandles, world, timers, history, FlowType
    <1>2. /\ h \in Calls /\ h = toFcitx[1] /\ 1 \in DOMAIN toFcitx
          /\ \A i \in DOMAIN toFcitx' : i + 1 \in DOMAIN toFcitx /\ toFcitx'[i] = toFcitx[i + 1]
          /\ \A i \in DOMAIN toFcitx : \/ i = 1
                                       \/ i - 1 \in DOMAIN toFcitx' /\ toFcitx'[i - 1] = toFcitx[i]
        BY <1>1
    <1>3. \/ /\ h.call = "arm"
             /\ fromFcitx' = fromFcitx \o <<Message("show", "mode"), Message("hide", "mode")>>
          \/ h.call # "arm" /\ fromFcitx' = Append(fromFcitx, Message(ui, h.about))
        BY DEF FcitxHandles
    <1> HIDE DEF h
    <1>4. Asking <=> (AsksFocus(h) \/ Asking')
        BY <1>2 DEF Asking
    <1>5. CASE /\ h.call = "arm"
               /\ fromFcitx' = fromFcitx \o <<Message("show", "mode"), Message("hide", "mode")>>
        <2> DEFINE r == <<Message("show", "mode"), Message("hide", "mode")>>
        <2>1. /\ r \in Seq(Answers)
              /\ \A i \in DOMAIN r : ~ReportsFocus(r[i]) /\ ~AnswersFocus(r[i])
            BY DEF Message, Answers, About, ReportsFocus, AnswersFocus
        <2>2. fromFcitx' = fromFcitx \o r
            BY <1>5
        <2> HIDE DEF r
        <2>3. ReportTrue' /\ (Newest' <=> Newest) /\ (Answered' <=> Answered)
            BY <1>1, <2>1, <2>2, MessagesKept DEF Tracked
        <2>4. Asking' <=> Asking
            BY <1>4, <1>5 DEF AsksFocus
        <2> QED BY <1>1, <2>3, <2>4 DEF Tracked, TimerTrue, QuestionTrue, DaemonTrue, Asked
    <1>6. CASE h.call # "arm" /\ fromFcitx' = Append(fromFcitx, Message(ui, h.about))
        <2> DEFINE r == <<Message(ui, h.about)>>
        <2>1. ui \in {"vk", "other"} /\ h.about \in About /\ h.call = "ask"
            BY <1>2, <1>6 DEF FlowType, Calls
        <2>2. /\ r \in Seq(Answers)
              /\ \A i \in DOMAIN r : ~ReportsFocus(r[i])
              /\ (\E i \in DOMAIN r : AnswersFocus(r[i])) <=> h.about = "focus"
            BY <2>1 DEF Message, Answers, ReportsFocus, AnswersFocus
        <2>3. fromFcitx' = fromFcitx \o r
            <3>1. fromFcitx \in Seq(Answers) /\ Message(ui, h.about) \in Answers
                BY <2>1 DEF FlowType, Message, Answers
            <3> QED BY <1>6, <3>1
        <2> HIDE DEF r
        <2>4. /\ ReportTrue' /\ (Newest' <=> Newest)
              /\ Answered' <=> (Answered \/ h.about = "focus")
            BY <1>1, <2>2, <2>3, MessagesKept DEF Tracked
        <2>5. AsksFocus(h) <=> h.about = "focus"
            BY <2>1 DEF AsksFocus
        <2>6. Asked' <=> Asked
            BY <1>1, <1>4, <2>4, <2>5 DEF Asked
        <2> QED BY <1>1, <2>4, <2>6 DEF Tracked, TimerTrue, QuestionTrue, DaemonTrue
    <1> QED BY <1>3, <1>5, <1>6

\* fcitx5 is restarted: every question is answered with an error.
LEMMA RestartsTracked ==
    ASSUME FlowType, Tracked, FcitxRestarts
    PROVE  Tracked'
    <1>1. /\ toFcitx' = <<>> /\ fromFcitx' = fromFcitx \o Failed
          /\ UNCHANGED <<field, focused, focusTimer, overtaken>>
        BY DEF FcitxRestarts, Failed, world, history
    <1>2. /\ Failed \in Seq(Answers) /\ DOMAIN Failed = DOMAIN toFcitx
          /\ \A i \in DOMAIN Failed : ~ReportsFocus(Failed[i])
        BY FailedType DEF ReportsFocus
    <1>3. \A i \in DOMAIN Failed : AnswersFocus(Failed[i]) <=> AsksFocus(toFcitx[i])
        <2> SUFFICES ASSUME NEW i \in DOMAIN toFcitx
                     PROVE  AnswersFocus(Failed[i]) <=> AsksFocus(toFcitx[i])
            BY <1>2
        <2>1. Failed[i] = Message(IF toFcitx[i].call = "ask" THEN "error" ELSE "failed",
                                  toFcitx[i].about)
            BY DEF Failed
        <2> QED BY <2>1 DEF Message, AnswersFocus, AsksFocus
    <1>4. ReportTrue' /\ (Newest' <=> Newest) /\ (Answered' <=> (Answered \/ Asking))
        <2>1. /\ ReportTrue' /\ (Newest' <=> Newest)
              /\ Answered' <=> (Answered \/ \E i \in DOMAIN Failed : AnswersFocus(Failed[i]))
            BY <1>1, <1>2, MessagesKept DEF Tracked
        <2>2. (\E i \in DOMAIN Failed : AnswersFocus(Failed[i])) <=> Asking
            BY <1>2, <1>3 DEF Asking
        <2> QED BY <2>1, <2>2
    <1>5. ~Asking'
        BY <1>1 DEF Asking
    <1>6. Asked' <=> Asked
        BY <1>1, <1>4, <1>5 DEF Asked
    <1> QED BY <1>1, <1>4, <1>6 DEF Tracked, TimerTrue, QuestionTrue, DaemonTrue

\* A key: the hide it causes is not about the focus.
LEMMA TypeTracked ==
    ASSUME FlowType, Tracked, NEW key \in Keys, Type(key)
    PROVE  Tracked'
    <1> DEFINE r == <<Message("hide", "mode")>>
    <1>1. /\ UNCHANGED <<field, focused, toFcitx, focusTimer, overtaken>>
          /\ fromFcitx' = fromFcitx \/ fromFcitx' = fromFcitx \o r
        BY DEF Type, Report, world, timers, daemon
    <1>2. /\ r \in Seq(Answers)
          /\ \A i \in DOMAIN r : ~ReportsFocus(r[i]) /\ ~AnswersFocus(r[i])
        BY DEF Message, Answers, About, ReportsFocus, AnswersFocus
    <1> HIDE DEF r
    <1>3. Asking' <=> Asking
        BY <1>1 DEF Asking
    <1>4. CASE fromFcitx' = fromFcitx
        <2>1. Asked' <=> Asked
            BY <1>1, <1>3, <1>4 DEF Asked, Answered
        <2> QED BY <1>1, <1>4, <2>1, TrackedKept
    <1>5. CASE fromFcitx' = fromFcitx \o r
        <2>1. ReportTrue' /\ (Newest' <=> Newest) /\ (Answered' <=> Answered)
            BY <1>1, <1>2, <1>5, MessagesKept DEF Tracked
        <2> QED BY <1>1, <1>3, <2>1 DEF Tracked, TimerTrue, QuestionTrue, DaemonTrue, Asked
    <1> QED BY <1>1, <1>4, <1>5

\* The focus moves: whatever was wrong before, a report sets it right.
LEMMA RefocusTracked ==
    ASSUME FlowType, FocusInv, NEW on \in BOOLEAN, Refocus(on),
           UNCHANGED <<focused, toFcitx, focusTimer, overtaken>>, ~misled'
    PROVE  Tracked'
    <1>1. CASE /\ ui = "vk" /\ Len(fromFcitx') > 0
               /\ fromFcitx'[Len(fromFcitx')] = Message(IF on THEN "show" ELSE "hide", "focus")
        <2> DEFINE n == Len(fromFcitx')
        <2>1. fromFcitx' \in Seq(Answers) /\ field' = on
            BY RefocusType
        <2>2. n \in DOMAIN fromFcitx' /\ \A i \in DOMAIN fromFcitx' : i \in Int /\ i <= n /\ n \in Int
            BY <1>1, <2>1
        <2>3. ReportsFocus(fromFcitx'[n]) /\ (fromFcitx'[n].call = "show" <=> on)
            BY <1>1 DEF ReportsFocus, Message
        <2> HIDE DEF n
        <2>4. ~Newest'
            BY <2>2, <2>3 DEF Newest, Reported
        <2>5. ReportTrue'
            <3> SUFFICES ASSUME NEW i \in DOMAIN fromFcitx', Latest(i)'
                         PROVE  field' <=> fromFcitx'[i].call = "show"
                BY DEF ReportTrue
            <3>1. i = n
                BY <2>2, <2>3 DEF Latest
            <3> QED BY <2>1, <2>3, <3>1
        <2> QED BY <2>4, <2>5 DEF Tracked, TimerTrue, QuestionTrue, DaemonTrue
    <1>2. CASE field' = field /\ fromFcitx' = fromFcitx /\ misled' = misled
        <2>1. Tracked /\ (Asked' <=> Asked)
            BY <1>2 DEF FocusInv, Asked, Asking, Answered
        <2> QED BY <1>2, <2>1, TrackedKept
    <1> QED BY <1>1, <1>2, RefocusType

LEMMA TrackedStep ==
    ASSUME FlowType, FocusInv, [Next]_vars, ~misled'
    PROVE  Tracked'
    <1>1. ASSUME misled' = misled \/ misled' = (misled \/ TRUE) \/ misled' = (misled \/ FALSE)
          PROVE  Tracked
        BY <1>1 DEF FocusInv
    <1>2. ASSUME misled' = misled, UNCHANGED <<field, focused, fromFcitx, focusTimer, overtaken>>,
                 toFcitx' = toFcitx \/ Arm \/ CallFcitx
          PROVE  Tracked'
        <2>1. Asking' <=> Asking
            BY <1>2, ArmKept DEF Asking
        <2>2. Asked' <=> Asked
            BY <1>2, <2>1 DEF Asked, Answered
        <2> QED BY <1>1, <1>2, <2>2, TrackedKept
    <1>3. CASE RearmFires \/ OwnerFires
        BY <1>2, <1>3 DEF RearmFires, OwnerFires, world, history
    <1>4. CASE FocusFires
        <2>1. Tracked
            BY <1>4 DEF FocusFires, Miss, FocusInv
        <2> QED BY <1>4, <2>1, FiresTracked
    <1>5. CASE ShowFires \/ OnOutput \/ Plug \/ ThemeChanges \/ Crash \/ GetReady \/ UNCHANGED vars
        <2>1. UNCHANGED <<field, focused, misled, overtaken, toFcitx, fromFcitx, focusTimer>>
            BY <1>5 DEF ShowFires, OnOutput, Plug, ThemeChanges, Crash, GetReady, vars, world,
                        fcitx, timers, daemon, history
        <2> QED BY <1>2, <2>1
    <1>6. CASE OnUdev
        <2>1. UNCHANGED <<field, focused, misled, overtaken, fromFcitx, focusTimer>>
            BY <1>6 DEF OnUdev, timers, history
        <2>2. CallFcitx \/ toFcitx' = toFcitx
            BY <1>6 DEF OnUdev, OnPhysicalKeyboard, arming
        <2> QED BY <1>2, <2>1, <2>2
    <1>7. CASE Receive
        <2>1. Tracked
            <3> DEFINE m == Head(fromFcitx)
            <3>1. OnFocus(m) \/ OnCurrentUI(m) \/ misled' = misled
                BY <1>7 DEF Receive, history
            <3> HIDE DEF m
            <3>2. CASE OnFocus(m)
                BY <3>2 DEF OnFocus, Miss, FocusInv
            <3>3. CASE OnCurrentUI(m)
                BY <3>3 DEF OnCurrentUI, Miss, FocusInv
            <3> QED BY <1>1, <3>1, <3>2, <3>3
        <2> QED BY <1>7, <2>1, ReceiveTracked
    <1>8. ASSUME NEW c \in Commands, Command(c) PROVE Tracked'
        <2>1. UNCHANGED <<field, focused, misled, overtaken, fromFcitx, focusTimer>>
            BY <1>8 DEF Command, world, timers, history
        <2>2. Arm \/ toFcitx' = toFcitx
            BY <1>8 DEF Command, HideAndArm, ShowOnly, ChangeLayout, arming
        <2> QED BY <1>2, <2>1, <2>2
    <1>9. CASE FcitxHandles
        <2>1. Tracked
            BY <1>9 DEF FcitxHandles, history, FocusInv
        <2> QED BY <1>9, <2>1, HandlesTracked
    <1>10. CASE FcitxRestarts
        <2>1. Tracked
            BY <1>10 DEF FcitxRestarts, history, FocusInv
        <2> QED BY <1>10, <2>1, RestartsTracked
    <1>11. ASSUME NEW key \in Keys, Type(key) PROVE Tracked'
        <2>1. Tracked
            BY <1>11 DEF Type, FocusInv
        <2> QED BY <1>11, <2>1, TypeTracked
    <1>12. ASSUME NEW on \in BOOLEAN, MoveFocus(on) \/ Lock(on) PROVE Tracked'
        <2>1. UNCHANGED <<focused, overtaken, toFcitx, focusTimer>>
            BY <1>12 DEF MoveFocus, Lock, daemon, timers
        <2>2. PICK f \in BOOLEAN : Refocus(f)
            BY <1>12 DEF MoveFocus, Lock
        <2> QED BY <2>1, <2>2, RefocusTracked
    <1>13. CASE Tick
        <2>1. /\ UNCHANGED <<field, focused, misled, overtaken, toFcitx, fromFcitx>>
              /\ focusTimer' = [focusTimer EXCEPT !.left = Left(@)]
            BY <1>13 DEF Tick, world, fcitx, history
        <2>2. focusTimer'.on = focusTimer.on /\ focusTimer'.about = focusTimer.about
            BY <2>1 DEF FlowType
        <2>3. Tracked /\ (Asked' <=> Asked)
            BY <1>1, <2>1 DEF Asked, Asking, Answered
        <2> QED BY <2>1, <2>2, <2>3, TrackedKept
    <1> QED BY <1>3, <1>4, <1>5, <1>6, <1>7, <1>8, <1>9, <1>10, <1>11, <1>12, <1>13 DEF Next

LEMMA FocusInvStep == FlowType /\ FocusInv /\ [Next]_vars => FocusInv'
    BY TrackedStep DEF FocusInv

\* When all has settled the daemon knows whether a text field has the focus, and
\* state.json says so, but for the reports FocusTracked excepts: for any debounce and
\* ignored time, however many messages are on their way, however late the main loop and
\* fcitx5 are, and in whatever order reports, timers, questions and answers come
\* (omarchy-surface-osk:359-401).
THEOREM FocusCorrect == Spec => []FocusTracked
    <1>1. FlowType /\ FocusInv /\ FocusSaid => FocusTracked
        <2> SUFFICES ASSUME FlowType, FocusInv, FocusSaid, Quiet, ~misled
                     PROVE  focused = field /\ (state.focused = field \/ kb.proc = "none")
            BY DEF FocusTracked
        <2>1. Newest /\ ~Asked /\ focusTimer.about # "focus"
            BY DEF Quiet, Newest, Reported, Asked, Asking, Answered, NoFocus
        <2>2. field <=> focused
            BY <2>1 DEF FocusInv, Tracked, DaemonTrue
        <2>3. field = focused
            BY <2>2 DEF FlowType
        <2> QED BY <2>3 DEF FocusSaid
    <1> QED BY KbInit, KbStep, FlowInit, FlowStep, FocusInit, FocusInvStep, SaidStep, <1>1,
               PTL DEF Spec

=============================================================================
