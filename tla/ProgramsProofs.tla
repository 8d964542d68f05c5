----------------------------- MODULE ProgramsProofs -----------------------------
(***************************************************************************)
(* Theorems about the five programs of MCPrograms, each by itself, for any *)
(* values of its constants: the installer of the kernel module             *)
(* (DkmsInstall), the HID reports of the driver (IptsHid), the rotation    *)
(* daemon (R, Rotate), the long-press plugin (L, LongPress) and the        *)
(* brightness daemon (B, Light).                                           *)
(***************************************************************************)
EXTENDS MCPrograms, RingArithmetic, FiniteSetTheorems, WellFoundedInduction, TLAPS

-----------------------------------------------------------------------------
(* The installer *)

Steps ==
    {"remove", "wipe", "copy", "add", "build", "old", "wipe old", "install", "hook", "drop",
     "wipe dropped"}

TypeInv ==
    /\ dkms \in [Versions -> {"none", "added", "built", "installed"}]
    /\ sources \in [Versions -> {"none", "part", "full"}]
    /\ hook \subseteq HookFiles
    /\ at \in Stopped \cup Steps
    /\ version \in Versions
    /\ olds \subseteq Versions
    /\ removing \in Versions
    /\ stuck \in BOOLEAN

LEMMA TypeStep == TypeInv /\ [InstallNext]_installVars => TypeInv'
    <1> SUFFICES ASSUME TypeInv, [InstallNext]_installVars PROVE TypeInv'
        OBVIOUS
    <1> USE DEF TypeInv, Stopped, Steps, HookFiles, Known, Installed, Goto, Set, Die, Wipe,
                system, script, installVars, ListOlds
    <1>1. ASSUME NEW v \in Versions, Begin(v) PROVE TypeInv'
        BY <1>1 DEF Begin
    <1>2. ASSUME NEW v \in Versions, DkmsRemove(v) 
          PROVE dkms' \in [Versions -> {"none", "added", "built", "installed"}] /\ stuck' \in BOOLEAN
        <2>1. stuck' \in BOOLEAN
            BY <1>2, Zenon DEF DkmsRemove
        <2> QED BY <1>2, <2>1 DEF DkmsRemove
    <1>3. CASE RemoveSame
        BY <1>2, <1>3 DEF RemoveSame
    <1>4. CASE WipeSame \/ Copy \/ Add \/ Build
        BY <1>4 DEF WipeSame, Copy, Add, Build
    <1>5. CASE RemoveOld
        <2>1. CASE olds \subseteq {version}
            BY <1>5, <2>1 DEF RemoveOld
        <2>2. CASE ~(olds \subseteq {version})
            BY <1>2, <1>5, <2>2 DEF RemoveOld
        <2> QED BY <2>1, <2>2
    <1>6. CASE WipeOld \/ Install \/ InstallHook
        BY <1>6 DEF WipeOld, Install, InstallHook
    <1>7. CASE Uninstall \/ WipeDropped \/ Killed
        BY <1>7 DEF Uninstall, WipeDropped, Killed
    <1>8. CASE Drop
        BY <1>2, <1>8 DEF Drop
    <1>9. CASE UNCHANGED installVars
        BY <1>9
    <1> QED BY <1>1, <1>3, <1>4, <1>5, <1>6, <1>7, <1>8, <1>9 DEF InstallNext

-----------------------------------------------------------------------------
(* The version that worked *)

\* Up to the build, nothing but the version itself has been touched; behind it the
\* version is built, and installed in the end.
KeepInv ==
    /\ at \in {"remove", "wipe", "copy", "add", "build"} => before \ {version} \subseteq Installed
    /\ at \in {"old", "wipe old", "install"} => dkms[version] = "built"
    /\ at \in {"hook", "done"} => dkms[version] = "installed"
    /\ FailedBuildKeepsOld

LEMMA KeepStep == TypeInv /\ KeepInv /\ [InstallNext]_installVars => KeepInv'
    <1> SUFFICES ASSUME TypeInv, KeepInv, [InstallNext]_installVars PROVE KeepInv'
        OBVIOUS
    <1> USE DEF TypeInv, KeepInv, FailedBuildKeepsOld, Stopped, Steps, HookFiles, Known,
                Installed, Goto, Set, Die, Wipe, system, script, installVars
    <1>1. ASSUME NEW v \in Versions, Begin(v) PROVE KeepInv'
        BY <1>1 DEF Begin
    <1>2. CASE RemoveSame
        BY <1>2 DEF RemoveSame, DkmsRemove
    <1>3. CASE WipeSame \/ Copy
        BY <1>3 DEF WipeSame, Copy
    <1>4. CASE Add \/ Build
        BY <1>4 DEF Add, Build
    <1>5. CASE RemoveOld
        BY <1>5 DEF RemoveOld, DkmsRemove
    <1>6. CASE WipeOld \/ Install \/ InstallHook
        BY <1>6 DEF WipeOld, Install, InstallHook
    <1>7. CASE Uninstall \/ WipeDropped
        BY <1>7 DEF Uninstall, WipeDropped
    <1>8. CASE Drop
        BY <1>8 DEF Drop, DkmsRemove
    <1>9. CASE Killed
        BY <1>9 DEF Killed
    <1>10. CASE UNCHANGED installVars
        BY <1>10
    <1> QED BY <1>1, <1>2, <1>3, <1>4, <1>5, <1>6, <1>7, <1>8, <1>9, <1>10 DEF InstallNext

\* An installation that ends before the new version is built leaves what worked in
\* place, the version itself apart: for any number of versions, whatever fails and
\* wherever this run or an earlier one was interrupted.
THEOREM FailedBuildIsSafe == Spec => []FailedBuildKeepsOld
    <1>1. InstallInit => TypeInv /\ KeepInv
        BY DEF InstallInit, TypeInv, KeepInv, FailedBuildKeepsOld, Stopped
    <1>2. TypeInv /\ KeepInv /\ [InstallNext]_installVars => (TypeInv /\ KeepInv)'
        BY TypeStep, KeepStep
    <1>3. KeepInv => FailedBuildKeepsOld
        BY DEF KeepInv
    <1> QED BY <1>1, <1>2, <1>3, PTL DEF Spec

-----------------------------------------------------------------------------
(* A complete installation *)

\* The commands between the start of an installation and its end.
Installing == {"remove", "wipe", "copy", "add", "build", "old", "wipe old", "install"}

\* Every other version that dkms knows is still to be removed.
ExactInv ==
    /\ at \in Installing /\ ~stuck => Known \subseteq olds \cup {version}
    /\ at = "wipe old" => removing # version
    /\ at \in {"add", "build", "old", "wipe old", "install", "hook", "done"} =>
         sources[version] = "full"
    /\ at = "install" => olds \subseteq {version}
    /\ at \in {"hook", "done"} /\ ~stuck => Known \subseteq {version}
    /\ at = "done" => hook = HookFiles

LEMMA ExactStep ==
    TypeInv /\ KeepInv /\ ExactInv /\ [InstallNext]_installVars => ExactInv'
    <1> SUFFICES ASSUME TypeInv, KeepInv, ExactInv, [InstallNext]_installVars PROVE ExactInv'
        OBVIOUS
    <1> USE DEF TypeInv, ExactInv, Installing, Stopped, Steps, Known, Installed,
                Goto, Set, Die, Wipe, system, script, installVars, ListOlds
    <1>1. ASSUME NEW v \in Versions, Begin(v) PROVE ExactInv'
        BY <1>1 DEF Begin
    <1>2. CASE RemoveSame
        BY <1>2 DEF RemoveSame, DkmsRemove
    <1>3. CASE WipeSame \/ Copy
        BY <1>3 DEF WipeSame, Copy
    <1>4. CASE Add \/ Build
        BY <1>4 DEF Add, Build
    <1>5. CASE RemoveOld
        BY <1>5 DEF RemoveOld, DkmsRemove
    <1>6. CASE WipeOld
        BY <1>6 DEF WipeOld
    <1>7. CASE Install
        BY <1>7 DEF Install
    <1>8. CASE InstallHook
        BY <1>8 DEF InstallHook, HookFiles
    <1>9. CASE Uninstall \/ WipeDropped \/ Killed
        BY <1>9 DEF Uninstall, WipeDropped, Killed
    <1>10. CASE Drop
        BY <1>10 DEF Drop, DkmsRemove
    <1>11. CASE UNCHANGED installVars
        BY <1>11
    <1> QED BY <1>1, <1>2, <1>3, <1>4, <1>5, <1>6, <1>7, <1>8, <1>9, <1>10, <1>11 DEF InstallNext

\* An installation that comes to its end leaves exactly its version, with its sources
\* and the hook: whatever versions there were and however earlier runs ended.
THEOREM DoneIsExactly == Spec => []DoneIsExact
    <1>1. InstallInit => TypeInv /\ KeepInv /\ ExactInv
        BY DEF InstallInit, TypeInv, KeepInv, ExactInv, FailedBuildKeepsOld, Stopped, Installing
    <1>2. TypeInv /\ KeepInv /\ ExactInv /\ [InstallNext]_installVars
            => (TypeInv /\ KeepInv /\ ExactInv)'
        BY TypeStep, KeepStep, ExactStep
    <1>3. TypeInv /\ KeepInv /\ ExactInv => DoneIsExact
        BY DEF TypeInv, KeepInv, ExactInv, DoneIsExact, Known, Installed
    <1> QED BY <1>1, <1>2, <1>3, PTL DEF Spec

-----------------------------------------------------------------------------
(* The HID reports *)

DataSpec == DataInit /\ [][DataNext]_dataVars

\* Sizes are numbers, and what is filled beyond the end of a report was never there.
ReportInv == buffer.size \in Nat /\ got.filled <= got.end

LEMMA ReportStep == ReportInv /\ [DataNext]_dataVars => ReportInv'
    <1> SUFFICES ASSUME ReportInv, [DataNext]_dataVars PROVE ReportInv'
        OBVIOUS
    <1> USE DEF ReportInv
    <1>1. ASSUME NEW report, NEW bufsize, Deliver(report, bufsize),
                 report.filled <= report.end, buffer'.size \in Nat
          PROVE  ReportInv'
        BY <1>1 DEF Deliver
    <1>2. CASE InputData
        <2>1. buffer'.size \in Nat
            BY <1>2 DEF InputData
        <2>2. CASE UNCHANGED got
            BY <2>1, <2>2
        <2>3. CASE InputNative
            <3> DEFINE report == [id |-> buffer.id, frame |-> buffer.frame, length |-> buffer.size,
                                  end |-> buffer.size, filled |-> buffer.size]
            <3>1. Deliver(report, DataSize - DataHeader)
                BY <2>3 DEF InputNative
            <3>2. report.filled <= report.end
                OBVIOUS
            <3> HIDE DEF report
            <3> QED BY <1>1, <2>1, <3>1, <3>2
        <2>4. CASE InputFrame /\ Fits(buffer.size)
            <3> DEFINE end == 3 + HidHeader + buffer.size
                       report == [id |-> IPTS_HID_REPORT_DATA, frame |-> buffer.frame,
                                  length |-> IPTS_HID_REPORT_DATA_SIZE, end |-> end,
                                  filled |-> filled']
            <3>1. filled' = Larger(Cleared, end) /\ Deliver(report, ReportBuffer)
                BY <2>4 DEF InputFrame
            <3>2. report.filled <= report.end
                BY <3>1 DEF Larger, Cleared, HidHeader
            <3> HIDE DEF report
            <3> QED BY <1>1, <2>1, <3>1, <3>2
        <2> QED BY <1>2, <2>2, <2>3, <2>4 DEF InputData, InputFeatures, InputFrame
    <1>3. CASE Fill
        <2>1. PICK b \in Reports \cup Others : buffer' = b
            BY <1>3 DEF Fill
        <2>2. b.size \in NativeSizes \cup FrameSizes \cup {0}
            BY DEF Reports, Others
        <2>3. b.size \in Nat
            BY <2>2, HidAssumption
        <2> QED BY <1>3, <2>1, <2>3 DEF Fill
    <1>4. CASE Disable \/ Free \/ Alloc \/ Enable \/ UNCHANGED dataVars
        BY <1>4 DEF Disable, Free, Alloc, Enable, dataVars
    <1> QED BY <1>2, <1>3, <1>4 DEF DataNext

\* A report holds nothing of an earlier frame behind its own, whatever frames and
\* reports came before, of whatever sizes, and however often the driver was restarted
\* (hid.c:147).
THEOREM NothingStaleCorrect == DataSpec => []NothingStale
    <1>1. DataInit => ReportInv
        BY DEF DataInit, ReportInv, NoReport
    <1>2. ReportInv => NothingStale
        BY DEF ReportInv, NothingStale
    <1> QED BY <1>1, <1>2, ReportStep, PTL DEF DataSpec

-----------------------------------------------------------------------------
(* The rotation daemon *)

\* A candidate that was looked at all the time is not older than the way the tablet
\* is held.  A tablet that was turned is polled before it is turned again.
CandidateInv ==
    /\ steady \in Nat /\ age \in Nat /\ steady <= Settle /\ age <= Settle
    /\ held # "none" /\ candidate \in Allow \cup {"none"}
    /\ ~blind /\ seen => candidate \in {held, "none"}
    /\ ~blind /\ ~seen => candidate # held
    /\ ~blind /\ candidate = held => age <= steady

LEMMA CandidateInit == R!Init => CandidateInv
    BY ProgramsAssumption DEF R!Init, CandidateInv, R!RotateAssumption

LEMMA CandidateStep == CandidateInv /\ [R!Next]_(R!vars) => CandidateInv'
    <1> SUFFICES ASSUME CandidateInv, [R!Next]_(R!vars) PROVE CandidateInv'
        OBVIOUS
    <1> USE ProgramsAssumption DEF CandidateInv, R!RotateAssumption, R!world, R!daemon
    <1>1. CASE R!Scan \/ R!Watch \/ R!OnUdev \/ R!Plug \/ (\E c \in Commands : R!Command(c))
                \/ (\E f \in R!Breakable : R!Break(f) \/ R!Mend(f))
        <2>1. UNCHANGED <<steady, age, held, candidate, blind, seen>>
            BY <1>1, Zenon DEF R!Scan, R!Watch, R!OnUdev, R!Plug, R!Command, R!Break, R!Mend
        <2> QED BY <2>1
    <1>2. CASE R!Poll
        BY <1>2 DEF R!Poll, R!Reading, R!Wait, R!Forget
    <1>3. ASSUME NEW o \in Orientations, R!TurnAndLock(o) PROVE CandidateInv'
        BY <1>3 DEF R!TurnAndLock
    <1>4. ASSUME NEW h \in Orientations \cup {"flat"}, R!Move(h) PROVE CandidateInv'
        BY <1>4 DEF R!Move
    <1>5. CASE R!Tick
        BY <1>5 DEF R!Tick
    <1>6. CASE UNCHANGED R!vars
        BY <1>6 DEF R!vars
    <1> QED BY <1>1, <1>2, <1>3, <1>4, <1>5, <1>6 DEF R!Next

\* The screen follows the tablet, as long as it was looked at all the time, only to an
\* orientation it has been held in for settle_ms: however it is turned, polled and
\* commanded, and for any wait (omarchy-surface-rotate:67).
THEOREM SettledCorrect == R!Spec => SettledBeforeTurn
    <1>1. CandidateInv /\ [R!Next]_(R!vars)
            => [orientation' # orientation /\ rotating' =>
                  orientation' = held /\ (steady >= Settle \/ blind)]_(R!vars)
        <2> SUFFICES ASSUME CandidateInv, R!Next, orientation' # orientation, rotating'
                     PROVE  orientation' = held /\ (steady >= Settle \/ blind)
            OBVIOUS
        <2> USE ProgramsAssumption DEF CandidateInv, R!RotateAssumption, R!world, R!daemon
        <2>1. CASE R!Scan \/ R!Watch \/ R!OnUdev \/ R!Plug \/ R!Tick
                   \/ (\E c \in Commands : R!Command(c))
                   \/ (\E h \in Orientations \cup {"flat"} : R!Move(h))
                   \/ (\E f \in R!Breakable : R!Break(f) \/ R!Mend(f))
            BY <2>1, Zenon DEF R!Scan, R!Watch, R!OnUdev, R!Plug, R!Tick, R!Command, R!Move,
                               R!Break, R!Mend
        <2>2. CASE R!Poll
            <3>1. R!Reading(held)
                BY <2>2 DEF R!Poll
            <3>2. held \in Allow /\ held = candidate /\ age >= Settle /\ R!Apply(held)
                BY <3>1 DEF R!Reading
            <3>3. orientation' = held
                BY <3>2 DEF R!Apply, R!Turn
            <3> QED BY <3>2, <3>3
        <2>3. CASE \E o \in Orientations : R!TurnAndLock(o)
            BY <2>3 DEF R!TurnAndLock
        <2> QED BY <2>1, <2>2, <2>3 DEF R!Next
    <1> QED BY <1>1, CandidateInit, CandidateStep, PTL DEF R!Spec, SettledBeforeTurn, R!SettledBeforeTurn

-----------------------------------------------------------------------------
(* The long-press plugin *)

\* What is on the screen.
ScreenInv ==
    /\ down \subseteq Fingers /\ IsFiniteSet(down)
    /\ since \in Nat /\ clicks \in 0 .. 2
    /\ down = {} => clicks = 0

\* The plugin counts no finger that is not there, and once the screen has been free it
\* counts them all.
CountInv ==
    /\ fingers \in Nat /\ left \in Int /\ left >= L!Off
    /\ loaded => fingers <= Cardinality(down)
    /\ loaded /\ ~uncounted => fingers = Cardinality(down)

\* It is armed for one finger that is held still, at the place where it came down, and
\* the timer is not ahead of it.
HoldInv ==
    loaded /\ armed /\ ~uncounted =>
        /\ still /\ downPos = origin /\ clicks = 0
        /\ left # L!Off => since + left >= LongPress

PressInv == ScreenInv /\ CountInv /\ HoldInv

LEMMA PressInit == L!Init => PressInv
    <1> SUFFICES ASSUME L!Init PROVE PressInv
        OBVIOUS
    <1>1. IsFiniteSet({})
        BY FS_EmptySet
    <1> QED BY <1>1 DEF L!Init, PressInv, ScreenInv, CountInv, HoldInv, L!Off

LEMMA DownPress ==
    ASSUME PressInv, NEW f \in Fingers, L!TouchDown(f)
    PROVE  PressInv'
    <1> USE ProgramsAssumption
        DEF PressInv, ScreenInv, CountInv, HoldInv, L!LongPressAssumption, L!Off
    <1>1. /\ f \notin down /\ down' = down \cup {f} /\ since' = 0
          /\ UNCHANGED <<loaded, clicks, uncounted>>
        BY DEF L!TouchDown
    <1>2. /\ IsFiniteSet(down') /\ Cardinality(down') = Cardinality(down) + 1
          /\ Cardinality(down) \in Nat /\ (down = {} <=> Cardinality(down) = 0)
        BY <1>1, FS_AddElement, FS_CardinalityType, FS_EmptySet
    <1>3. ScreenInv'
        BY <1>1, <1>2
    <1>4. CASE ~loaded
        BY <1>1, <1>2, <1>3, <1>4 DEF L!TouchDown, L!Unseen
    <1>5. CASE loaded
        <2>1. PICK p \in L!Positions :
                /\ origin' = IF down = {} THEN p ELSE origin
                /\ L!OnDown(p)
            BY <1>5 DEF L!TouchDown
        <2>2. CountInv'
            BY <1>1, <1>2, <2>1 DEF L!OnDown, L!Disarm
        <2>3. HoldInv'
            <3> SUFFICES ASSUME armed', ~uncounted PROVE HoldInv'
                BY <1>1
            <3>1. fingers' = 1 /\ downPos' = p /\ left' = LongPress
                BY <2>1 DEF L!OnDown, L!Disarm
            <3>2. down = {}
                BY <1>1, <1>2, <1>5, <2>1, <3>1 DEF L!OnDown
            <3>3. still'
                BY <3>2, Zenon DEF L!TouchDown
            <3> QED BY <1>1, <2>1, <3>1, <3>2, <3>3
        <2> QED BY <1>3, <2>2, <2>3
    <1> QED BY <1>4, <1>5

LEMMA MotionPress ==
    ASSUME PressInv, NEW f \in Fingers, L!TouchMotion(f)
    PROVE  PressInv'
    <1> USE DEF PressInv, ScreenInv, CountInv, HoldInv, L!Off
    <1>1. UNCHANGED <<down, since, origin, loaded, clicks, uncounted>>
        BY DEF L!TouchMotion
    <1>2. PICK p \in L!Positions :
            /\ still' = (still /\ ~L!Travelled(p, origin))
            /\ IF loaded THEN L!OnMotion(f, p) ELSE L!Unseen
        BY DEF L!TouchMotion
    <1>3. UNCHANGED <<fingers, downPos>>
        BY <1>2 DEF L!OnMotion, L!Unseen
    <1>4. CASE UNCHANGED <<armed, left>> /\ ~(loaded /\ armed /\ L!Travelled(p, downPos))
        <2>1. loaded /\ armed /\ ~uncounted => still'
            BY <1>2, <1>4
        <2> QED BY <1>1, <1>3, <1>4, <2>1
    <1>5. CASE ~armed' /\ left' = L!Off
        BY <1>1, <1>3, <1>5
    <1> QED BY <1>2, <1>4, <1>5 DEF L!OnMotion, L!Disarm, L!Unseen

LEMMA RaisePress ==
    ASSUME PressInv, NEW f \in Fingers, L!TouchUp(f) \/ L!TouchCancel(f)
    PROVE  PressInv'
    <1> USE DEF PressInv, ScreenInv, CountInv, HoldInv, L!Off
    <1>1. /\ f \in down /\ down' = down \ {f}
          /\ UNCHANGED <<since, loaded>>
          /\ clicks' = IF down' = {} THEN 0 ELSE clicks
        BY DEF L!TouchUp, L!TouchCancel, L!Raise
    <1>2. /\ IsFiniteSet(down') /\ Cardinality(down') = Cardinality(down) - 1
          /\ Cardinality(down) \in Nat /\ Cardinality(down') \in Nat
          /\ (down' = {} <=> Cardinality(down') = 0)
        BY <1>1, FS_RemoveElement, FS_CardinalityType, FS_EmptySet
    <1>3. uncounted' <=> uncounted /\ down' # {}
        BY DEF L!TouchUp, L!TouchCancel, L!Raise
    <1>4. ScreenInv'
        BY <1>1, <1>2
    <1>5. CASE ~loaded
        <2>1. L!Unseen
            BY <1>5 DEF L!TouchUp, L!TouchCancel
        <2> QED BY <1>1, <1>4, <1>5, <2>1 DEF L!Unseen
    <1>6. CASE loaded
        <2>1. fingers' = L!Lift /\ ~armed' /\ left' = L!Off
            BY <1>6 DEF L!TouchUp, L!TouchCancel, L!OnUp, L!OnCancel, L!Disarm
        <2>2. CountInv'
            BY <1>1, <1>2, <1>3, <1>6, <2>1 DEF L!Lift
        <2> QED BY <1>4, <2>1, <2>2
    <1> QED BY <1>5, <1>6

LEMMA PressStep == PressInv /\ [L!Next]_(L!vars) => PressInv'
    <1> SUFFICES ASSUME PressInv, [L!Next]_(L!vars) PROVE PressInv'
        OBVIOUS
    <1> USE DEF PressInv, ScreenInv, CountInv, HoldInv, L!Off, L!screenVars, L!pluginVars
    <1>1. CASE L!OnTimer
        <2>1. /\ UNCHANGED <<down, since, still, origin, loaded, fingers, downPos, uncounted>>
              /\ left = 0 /\ left' = L!Off
            BY <1>1 DEF L!OnTimer
        <2>2. CASE armed /\ fingers = 1
            <3>1. ~armed' /\ clicks' = IF layer \/ clicks = 2 THEN clicks ELSE clicks + 1
                BY <1>1, <2>2 DEF L!OnTimer, L!RightClick
            <3>2. clicks' \in 0 .. 2
                BY <3>1
            <3>3. down # {}
                BY <1>1, <2>2, FS_EmptySet DEF L!OnTimer
            <3> QED BY <2>1, <3>1, <3>2, <3>3
        <2>3. CASE ~(armed /\ fingers = 1)
            BY <1>1, <2>1, <2>3 DEF L!OnTimer
        <2> QED BY <2>2, <2>3
    <1>2. CASE L!Tick
        BY <1>2, ProgramsAssumption DEF L!Tick, L!LongPressAssumption
    <1>3. CASE L!Load
        <2>1. UNCHANGED <<down, since, clicks>> /\ fingers' = 0 /\ ~armed' /\ left' = L!Off
            BY <1>3 DEF L!Load
        <2>2. uncounted' <=> down # {}
            BY <1>3 DEF L!Load
        <2>3. Cardinality(down) \in Nat /\ (down = {} => Cardinality(down) = 0)
            BY FS_CardinalityType, FS_EmptySet
        <2> QED BY <2>1, <2>2, <2>3
    <1>4. CASE L!Unload
        BY <1>4 DEF L!Unload
    <1>5. CASE UNCHANGED L!vars
        BY <1>5 DEF L!vars
    <1> QED BY <1>1, <1>2, <1>3, <1>4, <1>5, DownPress, MotionPress, RaisePress DEF L!Next

\* A right click is sent only for one finger that came down alone, was held for
\* LONG_PRESS_MS, did not travel and is still there, and once for each press: for any
\* number of fingers, tolerance and time, wherever the plugin is loaded and unloaded
\* (main.cpp:8-10).
THEOREM ClickCorrect == L!Spec => ClickIsMeant
    <1>1. PressInv /\ [L!Next]_(L!vars)
            => [clicks' > clicks /\ ~uncounted =>
                  still /\ since >= LongPress /\ clicks = 0
                  /\ \E f \in Fingers : down = {f}]_(L!vars)
        <2> SUFFICES ASSUME PressInv, L!Next, clicks' > clicks, ~uncounted
                     PROVE  /\ still /\ since >= LongPress /\ clicks = 0
                            /\ \E f \in Fingers : down = {f}
            OBVIOUS
        <2> USE DEF PressInv, ScreenInv, CountInv, HoldInv
        <2>1. CASE L!OnTimer
            <3>1. loaded /\ armed /\ fingers = 1 /\ left = 0
                BY <2>1 DEF L!OnTimer, L!RightClick
            <3>2. still /\ since >= LongPress /\ clicks = 0 /\ Cardinality(down) = 1
                BY <3>1 DEF L!Off
            <3>3. \E f : down = {f}
                BY <3>2, FS_Singleton
            <3> QED BY <3>2, <3>3
        <2>2. CASE clicks' \in {clicks, 0}
            BY <2>2
        <2>3. L!OnTimer \/ clicks' \in {clicks, 0}
            BY DEF L!Next, L!TouchDown, L!TouchMotion, L!TouchUp, L!TouchCancel, L!Raise, L!Tick,
                   L!Load, L!Unload
        <2> QED BY <2>1, <2>2, <2>3
    <1> QED BY <1>1, PressInit, PressStep, PTL DEF L!Spec, ClickIsMeant, L!ClickIsMeant

-----------------------------------------------------------------------------
(* The brightness daemon: numbers *)

\* A set of numbers has a least.
LEMMA LeastThere ==
    ASSUME NEW S, S \subseteq Nat, S # {}
    PROVE  B!Min(S) \in S /\ \A y \in S : B!Min(S) <= y
    <1>1. PICK x \in S : \A y \in S : ~(<<y, x>> \in OpToRel(<, Nat))
        BY WFMin, NatLessThanWellFounded, Zenon
    <1>2. \A y \in S : ~(y < x)
        BY <1>1, Zenon DEF OpToRel
    <1>3. \E z \in S : \A y \in S : z <= y
        BY <1>2
    <1> QED BY <1>3 DEF B!Min

\* A part of a whole is rounded to no more than the whole.
LEMMA RoundWithin ==
    ASSUME NEW n \in Nat, NEW d \in Nat \ {0}, NEW k \in Nat, n <= d * k
    PROVE  B!Round(n, d) \in 0 .. k
    <1> DEFINE q == n \div d
               r == n % d
    <1>1. n = (d * q) + r /\ r \in 0 .. (d - 1) /\ q \in Int
        BY DivMod
    <1>2. B!Round(n, d) = IF 2 * r < d \/ (2 * r = d /\ q % 2 = 0) THEN q ELSE q + 1
        BY DEF B!Round
    <1> HIDE DEF q, r
    <1>3. q >= 0
        <2> SUFFICES ASSUME q <= -1 PROVE FALSE
            BY <1>1
        <2>1. d * q <= -d
            BY <1>1
        <2> QED BY <1>1, <2>1
    <1>4. q <= k
        <2> SUFFICES ASSUME q >= k + 1 PROVE FALSE
            BY <1>1
        <2>1. d * q >= d * (k + 1)
            BY <1>1
        <2>2. d * (k + 1) = (d * k) + d
            OBVIOUS
        <2> QED BY <1>1, <2>1, <2>2
    <1>5. q = k => r = 0
        BY <1>1
    <1> QED BY <1>1, <1>2, <1>3, <1>4, <1>5

LEMMA RoundIsInt ==
    ASSUME NEW n \in Int, NEW d \in Nat \ {0}
    PROVE  B!Round(n, d) \in Int
    BY DivMod DEF B!Round

\* What is assumed of the constants.
LEMMA LightConstants ==
    /\ Readings \subseteq Nat /\ Hands \subseteq 0 .. MaxRaw
    /\ Curve \in Seq(Nat \X Nat) /\ Curve # <<>>
    /\ MinPercent \in 0 .. 100 /\ MaxPercent \in MinPercent .. 100
    /\ Smoothing \in Nat \ {0} /\ StepPercent \in Nat \ {0} /\ MaxRaw \in Nat \ {0}
    BY ProgramsAssumption DEF B!LightAssumption

\* Between two points of the curve.
LEMMA BetweenIsInt ==
    ASSUME NEW l \in Nat, NEW a \in Nat, NEW b \in Nat, NEW c \in Nat, NEW d \in Nat,
           a < l, l <= c
    PROVE  b + B!Round((l - a) * (d - b), c - a) \in Int
    <1> DEFINE n == (l - a) * (d - b)
               m == c - a
    <1>1. n \in Int /\ m \in Nat \ {0}
        OBVIOUS
    <1> HIDE DEF n, m
    <1>2. B!Round(n, m) \in Int
        BY <1>1, RoundIsInt
    <1>3. b + B!Round(n, m) \in Int
        BY <1>2
    <1> QED BY <1>3 DEF n, m

LEMMA PercentType ==
    ASSUME NEW r \in 0 .. MaxRaw
    PROVE  B!Percent(r) \in 0 .. 100
    <1> USE LightConstants
    <1>1. B!Percent(r) = B!Round(r * 100, MaxRaw)
        BY DEF B!Percent, B!PercentOf
    <1>2. r * 100 \in Nat /\ r * 100 <= MaxRaw * 100 /\ MaxRaw \in Nat \ {0}
        OBVIOUS
    <1> QED BY <1>1, <1>2, RoundWithin

LEMMA RawType ==
    ASSUME NEW percent \in 0 .. 100
    PROVE  B!RawOf(percent) \in 0 .. MaxRaw
    <1> USE LightConstants
    <1>1. MaxRaw \in Nat
        OBVIOUS
    <1> DEFINE n == percent * MaxRaw
    <1>2. n \in Nat /\ n <= 100 * MaxRaw
        BY <1>1
    <1>3. B!RawOf(percent) = B!Round(n, 100)
        BY DEF B!RawOf
    <1> HIDE DEF n
    <1>4. 100 \in Nat \ {0}
        OBVIOUS
    <1> QED BY <1>1, <1>2, <1>3, <1>4, RoundWithin

\* What the curve asks for is a percentage.
LEMMA BrightnessType ==
    ASSUME NEW l \in Nat
    PROVE  B!BrightnessFor(l) \in 0 .. 100
    <1> DEFINE above == {i \in 1 .. Len(Curve) : l <= Curve[i][1]}
               b == B!Min(above)
               p == Curve[b - 1]
               q == Curve[b]
               asked == IF above = {} THEN Curve[Len(Curve)][2]
                        ELSE IF b = 1 THEN Curve[1][2]
                        ELSE p[2] + B!Round((l - p[1]) * (q[2] - p[2]), q[1] - p[1])
    <1> USE LightConstants
    <1>1. \A i \in 1 .. Len(Curve) : Curve[i][1] \in Nat /\ Curve[i][2] \in Nat
        <2> SUFFICES ASSUME NEW i \in 1 .. Len(Curve) PROVE Curve[i] \in Nat \X Nat
            OBVIOUS
        <2> QED OBVIOUS
    <1>2. Len(Curve) \in Nat /\ Len(Curve) > 0 /\ above \subseteq 1 .. Len(Curve)
        OBVIOUS
    <1>3. asked \in Int
        <2>1. CASE above = {}
            <3>1. asked = Curve[Len(Curve)][2]
                BY <2>1
            <3> QED BY <1>1, <1>2, <3>1
        <2>2. CASE above # {}
            <3>1. b \in above /\ \A y \in above : b <= y
                <4>1. above \subseteq Nat
                    BY <1>2
                <4> HIDE DEF above
                <4> QED BY <2>2, <4>1, LeastThere
            <3>2. b \in 1 .. Len(Curve) /\ l <= Curve[b][1]
                BY <3>1
            <3>3. \A y \in 1 .. Len(Curve) : l <= Curve[y][1] => b <= y
                BY <3>1
            <3>4. asked = IF b = 1 THEN Curve[1][2]
                          ELSE p[2] + B!Round((l - p[1]) * (q[2] - p[2]), q[1] - p[1])
                BY <2>2
            <3> HIDE DEF above, b, asked
            <3>5. CASE b = 1
                BY <1>1, <1>2, <3>4, <3>5
            <3>6. CASE b # 1
                <4>1. b - 1 \in 1 .. Len(Curve) /\ ~(l <= p[1])
                    <5>1. b \in Int /\ Len(Curve) \in Int
                        BY <1>2, <3>2
                    <5>2. b - 1 \in 1 .. Len(Curve) /\ ~(b <= b - 1)
                        BY <3>2, <3>6, <5>1
                    <5> QED BY <3>3, <5>2
                <4>2. p[1] \in Nat /\ p[2] \in Nat /\ q[1] \in Nat /\ q[2] \in Nat
                    BY <1>1, <3>2, <4>1
                <4>3. l <= q[1]
                    BY <3>2
                <4>4. asked = p[2] + B!Round((l - p[1]) * (q[2] - p[2]), q[1] - p[1])
                    BY <3>4, <3>6
                <4> HIDE DEF p, q
                <4>5. p[1] < l
                    BY <4>1, <4>2
                <4> QED BY <4>2, <4>3, <4>4, <4>5, BetweenIsInt
            <3> QED BY <3>5, <3>6
        <2> QED BY <2>1, <2>2
    <1>4. B!BrightnessFor(l) = B!Clamp(asked)
        BY DEF B!BrightnessFor
    <1> HIDE DEF asked
    <1> QED BY <1>3, <1>4 DEF B!Clamp, B!AtMost, B!AtLeast

\* The smoothed light lies between the light it was and the reading.
LEMMA SmoothedType ==
    ASSUME NEW reading \in Nat, lux \in Nat \cup {B!None}
    PROVE  B!Smoothed(reading) \in Nat
    <1> SUFFICES ASSUME lux \in Nat PROVE B!Smoothed(reading) \in Nat
        BY DEF B!Smoothed
    <1>0. lux # B!None
        BY DEF B!None
    <1> DEFINE d == B!Distance(reading, lux)
               part == (d + Smoothing - 1) \div Smoothing
    <1> USE LightConstants
    <1>1. d \in Nat /\ Smoothing \in Nat \ {0} /\ (reading <= lux => d = lux - reading)
        BY DEF B!Distance
    <1>2. part \in 0 .. d
        <2> DEFINE r == (d + Smoothing - 1) % Smoothing
        <2> HIDE DEF d
        <2>0. d + Smoothing - 1 \in Int
            BY <1>1
        <2>1. /\ d + Smoothing - 1 = (Smoothing * part) + r
              /\ r \in 0 .. (Smoothing - 1) /\ part \in Int
            BY <1>1, <2>0, DivMod
        <2> HIDE DEF part, r
        <2>2. part >= 0
            <3> SUFFICES ASSUME part <= -1 PROVE FALSE
                BY <2>1
            <3>1. Smoothing * part <= -Smoothing
                BY <1>1, <2>1
            <3> QED BY <1>1, <2>1, <3>1
        <2>3. part <= d
            <3> SUFFICES ASSUME part >= d + 1 PROVE FALSE
                BY <1>1, <2>1
            <3>1. Smoothing * part >= Smoothing * (d + 1)
                BY <1>1, <2>1
            <3>2. Smoothing * (d + 1) = (Smoothing * d) + Smoothing /\ Smoothing * d >= d
                BY <1>1
            <3> QED BY <1>1, <2>1, <3>1, <3>2
        <2> QED BY <1>1, <2>1, <2>2, <2>3
    <1>3. \/ B!Smoothed(reading) = reading
          \/ reading > lux /\ B!Smoothed(reading) = lux + part
          \/ reading <= lux /\ B!Smoothed(reading) = lux - part
        BY <1>0 DEF B!Smoothed
    <1> HIDE DEF d, part
    <1> QED BY <1>1, <1>2, <1>3

-----------------------------------------------------------------------------
(* The brightness daemon: a hand *)

LightTypes ==
    /\ light \in Nat /\ raw \in 0 .. MaxRaw /\ lux \in Nat \cup {B!None}
    /\ applied \in (0 .. 100) \cup {B!None}
    /\ paused \in Nat \cup {B!None} /\ standing \in Nat \cup {B!None}

\* The backlight is not where the daemon has set it.
Away == B!Distance(B!Percent(raw), applied) > 1

\* While it is paused the daemon has set nothing, and what a hand has set stands for as
\* long as that.  The backlight is away when a hand has moved it, and else only if
\* nobody looks or the daemon has failed.
HandInv ==
    /\ paused # B!None => applied = B!None
    /\ standing # B!None => paused = standing
    /\ moved => applied # B!None /\ Away
    /\ lighting /\ applied # B!None /\ ~moved /\ ~lightFailed => ~Away

LightInv == LightTypes /\ HandInv

LEMMA LightInit == B!Init => LightInv
    <1> SUFFICES ASSUME B!Init PROVE LightInv
        OBVIOUS
    <1>1. LightTypes
        BY LightConstants DEF B!Init, LightTypes
    <1>2. HandInv
        BY DEF B!Init, HandInv
    <1> QED BY <1>1, <1>2 DEF LightInv

\* What a poll does that looks at the backlight: it gives way to a hand, it goes on
\* waiting, it leaves the backlight where it is, or it moves it a step.
LEMMA PollSteps ==
    ASSUME LightInv, B!Poll, lighting, "backlight" \notin lightBroken
    PROVE  /\ lux' \in Nat /\ UNCHANGED <<light, lighting>> /\ moved' = FALSE
           /\ \/ /\ applied # B!None /\ Away
                 /\ paused' = lux' /\ applied' = B!None /\ UNCHANGED <<raw, lightFailed>>
              \/ /\ ~(applied # B!None /\ Away)
                 /\ paused # B!None /\ ~B!ReallyChanged(lux', paused)
                 /\ UNCHANGED <<raw, applied, paused, lightFailed>>
              \/ /\ ~(applied # B!None /\ Away)
                 /\ paused = B!None \/ B!ReallyChanged(lux', paused)
                 /\ paused' = B!None
                 /\ \/ /\ applied' = IF applied # B!None THEN applied ELSE B!Percent(raw)
                       /\ UNCHANGED <<raw, lightFailed>>
                    \/ /\ raw' \in 0 .. MaxRaw /\ applied' = B!Percent(raw')
                    \/ /\ raw' \in 0 .. MaxRaw /\ applied' \in 0 .. 100 /\ lightFailed'
    <1> DEFINE current == B!Percent(raw)
               target == B!BrightnessFor(lux')
               step == B!Nearer(current, target)
    <1>1. lux' \in Nat /\ UNCHANGED <<light, lighting>> /\ moved' = FALSE
        BY SmoothedType DEF B!Poll, B!Remember, LightInv, LightTypes
    <1>2. B!ByHand(current) <=> applied # B!None /\ Away
        BY DEF B!ByHand, Away
    <1>3. B!Adjust(current)
        BY DEF B!Poll
    <1>4. CASE B!ByHand(current)
        BY <1>1, <1>2, <1>3, <1>4 DEF B!Adjust, B!Pause
    <1>5. CASE ~B!ByHand(current) /\ paused # B!None /\ ~B!ReallyChanged(lux', paused)
        BY <1>1, <1>2, <1>3, <1>5 DEF B!Adjust
    <1>6. CASE ~B!ByHand(current) /\ (paused = B!None \/ B!ReallyChanged(lux', paused))
        <2>1. B!Follow(current)
            BY <1>3, <1>6 DEF B!Adjust
        <2>2. CASE B!CloseEnough(current, target)
            BY <1>1, <1>2, <1>6, <2>1, <2>2 DEF B!Follow
        <2>3. CASE ~B!CloseEnough(current, target)
            <3>1. paused' = B!None /\ B!SetPercent(step)
                BY <2>1, <2>3 DEF B!Follow
            <3>2. current \in 0 .. 100 /\ target \in 0 .. 100
                BY <1>1, PercentType, BrightnessType DEF LightInv, LightTypes
            <3> HIDE DEF current, target
            <3>3. step \in 0 .. 100
                BY <3>2, LightConstants DEF B!Nearer, B!AtLeast, B!AtMost
            <3> HIDE DEF step
            <3>4. B!RawOf(step) \in 0 .. MaxRaw /\ raw \in 0 .. MaxRaw
                BY <3>3, RawType DEF LightInv, LightTypes
            <3>5. \/ raw' \in 0 .. MaxRaw /\ applied' = B!Percent(raw')
                  \/ raw' \in 0 .. MaxRaw /\ applied' \in 0 .. 100 /\ lightFailed'
                BY <3>1, <3>3, <3>4 DEF B!SetPercent
            <3> QED BY <1>1, <1>2, <1>6, <3>1, <3>5
        <2> QED BY <2>2, <2>3
    <1> QED BY <1>4, <1>5, <1>6

\* What stands, and until when.
LEMMA PollRemembers ==
    ASSUME LightInv, B!Poll, lighting, "backlight" \notin lightBroken
    PROVE  standing' \in Nat \cup {B!None} /\ (standing' # B!None => paused' = standing')
    <1>1. /\ lux' \in Nat
          /\ moved => paused' = lux'
          /\ ~moved /\ standing # B!None =>
                paused' = standing \/ B!ReallyChanged(lux', standing)
        BY PollSteps DEF LightInv, HandInv
    <1>2. CASE moved
        BY <1>1, <1>2 DEF B!Poll, B!Remember, LightInv, LightTypes
    <1>3. CASE ~moved
        BY <1>1, <1>3 DEF B!Poll, B!Remember, LightInv, LightTypes
    <1> QED BY <1>2, <1>3

LEMMA PollHand ==
    ASSUME LightInv, B!Poll, lighting, "backlight" \notin lightBroken
    PROVE  LightInv'
    <1>1. LightTypes'
        <2>1. B!Percent(raw) \in 0 .. 100 /\ \A r \in 0 .. MaxRaw : B!Percent(r) \in 0 .. 100
            BY PercentType DEF LightInv, LightTypes
        <2> QED BY <2>1, PollSteps, PollRemembers DEF LightInv, LightTypes
    <1>2. ASSUME NEW r \in 0 .. MaxRaw
          PROVE  ~(B!Distance(B!Percent(r), B!Percent(r)) > 1)
        BY PercentType DEF B!Distance
    <1>3. paused' # B!None => applied' = B!None
        BY PollSteps DEF LightInv, HandInv
    <1>4. ASSUME lighting', applied' # B!None, ~lightFailed' PROVE ~Away'
        <2>1. CASE UNCHANGED <<raw, applied>>
            BY <1>4, <2>1, PollSteps DEF Away
        <2>2. CASE raw' = raw /\ applied' = B!Percent(raw)
            BY <1>2, <2>2 DEF Away, LightInv, LightTypes
        <2>3. CASE raw' \in 0 .. MaxRaw /\ applied' = B!Percent(raw')
            BY <1>2, <2>3 DEF Away
        <2> QED BY <1>4, <2>1, <2>2, <2>3, PollSteps
    <1>5. moved' = FALSE
        BY PollSteps
    <1>6. HandInv'
        BY <1>3, <1>4, <1>5, PollRemembers DEF HandInv
    <1> QED BY <1>1, <1>6 DEF LightInv

LEMMA LightStep == LightInv /\ [B!Next]_(B!vars) => LightInv'
    <1> SUFFICES ASSUME LightInv, [B!Next]_(B!vars) PROVE LightInv'
        OBVIOUS
    <1> USE DEF LightInv, LightTypes, HandInv, Away, B!daemon, B!history
    <1>1. CASE B!Poll /\ lighting /\ "backlight" \notin lightBroken
        BY <1>1, PollHand
    <1>2. CASE B!Poll /\ ~(lighting /\ "backlight" \notin lightBroken)
        BY <1>2, SmoothedType DEF B!Poll
    <1>3. CASE \E f \in LightFaults : B!Break(f) \/ B!Mend(f)
        <2>1. UNCHANGED <<light, raw, lighting, lux, applied, paused, moved, standing, lightFailed>>
            BY <1>3, Zenon DEF B!Break, B!Mend
        <2> QED BY <2>1
    <1>4. ASSUME NEW c \in {"toggle", "enable", "disable", "status"}, B!Command(c)
          PROVE  LightInv'
        <2>1. UNCHANGED <<light, raw, lux>>
            BY <1>4 DEF B!Command
        <2>2. \/ /\ paused' = B!None /\ applied' = B!None /\ moved' = FALSE
                 /\ standing' = B!None
              \/ /\ UNCHANGED <<paused, applied, moved, standing, lightFailed>>
                 /\ lighting' => lighting
            BY <1>4 DEF B!Command
        <2> QED BY <2>1, <2>2
    <1>5. ASSUME NEW r \in Hands, B!SetByHand(r) PROVE LightInv'
        <2>1. /\ raw' = r /\ UNCHANGED <<light, lighting, lux, applied, paused, standing, lightFailed>>
              /\ moved' = B!Following /\ ~moved
              /\ B!Following => B!Distance(B!Percent(r), applied) > 1
            BY <1>5 DEF B!SetByHand
        <2>2. r \in 0 .. MaxRaw
            BY LightConstants
        <2>3. moved' <=> lighting /\ paused = B!None /\ applied # B!None
            BY <2>1 DEF B!Following
        <2>4. moved' => Away'
            BY <2>1
        <2>5. lighting /\ applied # B!None => moved'
            BY <2>3
        <2> QED BY <2>1, <2>2, <2>3, <2>4, <2>5
    <1>6. ASSUME NEW l \in Readings, B!LightChanges(l) PROVE LightInv'
        BY <1>6, LightConstants DEF B!LightChanges
    <1>7. CASE UNCHANGED B!vars
        BY <1>7 DEF B!vars
    <1> QED BY <1>1, <1>2, <1>3, <1>4, <1>5, <1>6, <1>7 DEF B!Next

\* A brightness set by hand while the daemon follows stands until the light has
\* changed by resume_ratio since, or the daemon is switched on again; and the daemon
\* gives way only to a hand, never to the rounding of a backlight whose levels are not
\* percentages: for any curve, limits, steps and levels, and any failures
\* (README.md:196, omarchy-surface-light:248).
THEOREM HandCorrect == B!Spec => HandWins
    <1>1. LightInv /\ [B!Next]_(B!vars)
            => [/\ raw' # raw /\ B!Poll =>
                      /\ moved => B!ReallyChanged(lux', lux)
                      /\ ~moved /\ standing # B!None => B!ReallyChanged(lux', standing)
                /\ paused = B!None /\ paused' # B!None => moved \/ lightFailed]_(B!vars)
        <2> SUFFICES ASSUME LightInv, B!Next
                     PROVE  /\ raw' # raw /\ B!Poll =>
                                  /\ moved => B!ReallyChanged(lux', lux)
                                  /\ ~moved /\ standing # B!None
                                        => B!ReallyChanged(lux', standing)
                            /\ paused = B!None /\ paused' # B!None => moved \/ lightFailed
            OBVIOUS
        <2>1. CASE B!Poll /\ lighting /\ "backlight" \notin lightBroken
            <3>1. raw' # raw => ~moved /\ (standing # B!None => B!ReallyChanged(lux', standing))
                BY <2>1, PollSteps DEF LightInv, HandInv
            <3>2. paused = B!None /\ paused' # B!None => moved \/ lightFailed
                BY <2>1, PollSteps DEF LightInv, HandInv
            <3> QED BY <3>1, <3>2
        <2>2. CASE B!Poll /\ ~(lighting /\ "backlight" \notin lightBroken)
            BY <2>2 DEF B!Poll
        <2>3. CASE ~B!Poll
            BY <2>3 DEF B!Next, B!Break, B!Mend, B!Command, B!SetByHand, B!LightChanges, B!daemon
        <2> QED BY <2>1, <2>2, <2>3
    <1> QED BY <1>1, LightInit, LightStep, PTL DEF B!Spec, HandWins, B!HandWins
================================================================================
