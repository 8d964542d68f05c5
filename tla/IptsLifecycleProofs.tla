-------------------------- MODULE IptsLifecycleProofs --------------------------
(***************************************************************************)
(* Theorems about IptsLifecycle, for any tasks, modes, failures and bounds. *)
(***************************************************************************)
EXTENDS IptsLifecycle, FiniteSetTheorems, TLAPS

-----------------------------------------------------------------------------
(* Types *)

\* TypeOK in three parts, and what makes it inductive.
BoolInv ==
    /\ ctx \in BOOLEAN /\ flow \in BOOLEAN /\ bufs \in BOOLEAN /\ done \in BOOLEAN
    /\ shouldStop \in BOOLEAN /\ hidActive \in BOOLEAN /\ flushed \in BOOLEAN

\* A request that is in the driver has asked for one of the modes.
LabelInv ==
    /\ pc \in [Tasks -> Labels]
    /\ target \in [Requesters -> Requested \cup {"none"}]
    /\ \A r \in Requesters : pc[r] \in {"compare", "assign"} => target[r] \in Requested

ValueInv ==
    /\ bus \in {"probe", "bound", "remove", "failed", "removed"}
    /\ eds \in {1, 2}
    /\ mode \in Requested \cup {"event", "poll"}
    /\ devMode \in Requested \cup {"event", "poll", "none"}
    /\ spawned \in Nat
    /\ thr \in {ErrPtr, Null} \cup 1 .. spawned
    /\ running \subseteq 1 .. spawned
    /\ loop \in {"event", "poll", "none"}
    /\ ret \in {"ok", "error"}
    /\ hid \in {"null", "live", "err", "freed"}
    /\ switches \in Nat
    /\ failures \subseteq FaultKinds

LEMMA TypeInit == Init => BoolInv /\ LabelInv /\ ValueInv
    <1> USE LifecycleAssumption DEF Init, Tasks, Labels, Null, ErrPtr
    <1>1. Init => BoolInv
        BY Zenon DEF BoolInv
    <1>2. Init => LabelInv
        BY DEF LabelInv
    <1>3. Init => ValueInv
        BY DEF ValueInv
    <1> QED BY <1>1, <1>2, <1>3

LEMMA BoolStep == BoolInv /\ [Next]_vars => BoolInv'
    <1> SUFFICES ASSUME BoolInv, [Next]_vars PROVE BoolInv'
        OBVIOUS
    <1> USE LifecycleAssumption
        DEF BoolInv, Tasks, Labels, Null, ErrPtr, Go, Leave, Stay, Succeed, Fail,
            CommandFails, Known, Command, FaultKinds, thrVars, devVars, hidVars, reqVars
    <1>1. ASSUME NEW t \in Tasks, Start(t) PROVE BoolInv'
        BY <1>1, Zenon DEF Start, GetDeviceInfo, AllocBuffers, GetDescriptor, SetMode, SetMemWindow,
            StartReceiver, RequestData, EnableHid, AllocHid, AddHid
    <1>2. ASSUME NEW t \in Tasks, Stop(t) PROVE BoolInv'
        BY <1>2, Zenon DEF Stop, DisableHid, SignalThread, JoinThread, FreeBuffers, FreeHid, DropHid
    <1>3. ASSUME NEW r \in Requesters, Switch(r) PROVE BoolInv'
        BY <1>3, Zenon DEF Switch, CompareMode, AssignMode
    <1>4. ASSUME NEW r \in Requesters, NEW m \in Requested, Request(r, m) PROVE BoolInv'
        BY <1>4, Zenon DEF Request
    <1>5. ASSUME NEW i \in running, ThreadReturns(i) PROVE BoolInv'
        BY <1>5, Zenon DEF ThreadReturns, LoopEnds
    <1>6. CASE Remove
        BY <1>6, Zenon DEF Remove
    <1>7. CASE UNCHANGED vars
        BY <1>7, Zenon DEF vars
    <1> QED BY <1>1, <1>2, <1>3, <1>4, <1>5, <1>6, <1>7 DEF Next, Over

LEMMA LabelStep == LabelInv /\ [Next]_vars => LabelInv'
    <1> SUFFICES ASSUME LabelInv, [Next]_vars PROVE LabelInv'
        OBVIOUS
    <1> USE LifecycleAssumption
        DEF LabelInv, Tasks, Labels, Null, ErrPtr, Go, Leave, Stay, Succeed, Fail,
            CommandFails, Known, Command, FaultKinds, thrVars, devVars, hidVars, reqVars
    <1>1. ASSUME NEW t \in Tasks, Start(t) PROVE LabelInv'
        BY <1>1 DEF Start, GetDeviceInfo, AllocBuffers, GetDescriptor, SetMode, SetMemWindow,
            StartReceiver, RequestData, EnableHid, AllocHid, AddHid
    <1>2. ASSUME NEW t \in Tasks, Stop(t) PROVE LabelInv'
        BY <1>2 DEF Stop, DisableHid, SignalThread, JoinThread, FreeBuffers, FreeHid, DropHid
    <1>3. ASSUME NEW r \in Requesters, Switch(r) PROVE LabelInv'
        BY <1>3 DEF Switch, CompareMode, AssignMode
    <1>4. ASSUME NEW r \in Requesters, NEW m \in Requested, Request(r, m) PROVE LabelInv'
        BY <1>4 DEF Request
    <1>5. ASSUME NEW i \in running, ThreadReturns(i) PROVE LabelInv'
        BY <1>5 DEF ThreadReturns, LoopEnds
    <1>6. CASE Remove
        BY <1>6 DEF Remove
    <1>7. CASE UNCHANGED vars
        BY <1>7 DEF vars
    <1> QED BY <1>1, <1>2, <1>3, <1>4, <1>5, <1>6, <1>7 DEF Next, Over

LEMMA ValueStep == ValueInv /\ LabelInv /\ [Next]_vars => ValueInv'
    <1> SUFFICES ASSUME ValueInv, LabelInv, [Next]_vars PROVE ValueInv'
        OBVIOUS
    <1> USE LifecycleAssumption
        DEF ValueInv, Tasks, Labels, Null, ErrPtr, Go, Leave, Stay, Succeed, Fail,
            CommandFails, Known, Command, FaultKinds, thrVars, devVars, hidVars, reqVars
    <1>1. ASSUME NEW t \in Tasks, Start(t) PROVE ValueInv'
        BY <1>1 DEF Start, GetDeviceInfo, AllocBuffers, GetDescriptor, SetMode, SetMemWindow,
            StartReceiver, RequestData, EnableHid, AllocHid, AddHid
    <1>2. ASSUME NEW t \in Tasks, Stop(t) PROVE ValueInv'
        BY <1>2 DEF Stop, DisableHid, SignalThread, JoinThread, FreeBuffers, FreeHid, DropHid
    <1>3. ASSUME NEW r \in Requesters, Switch(r) PROVE ValueInv'
        <2>1. CASE CompareMode(r)
            BY <2>1 DEF CompareMode
        <2>2. CASE AssignMode(r)
            <3>1. target[r] \in Requested
                BY <2>2 DEF AssignMode, LabelInv
            <3> QED BY <2>2, <3>1 DEF AssignMode
        <2> QED BY <1>3, <2>1, <2>2 DEF Switch
    <1>4. ASSUME NEW r \in Requesters, NEW m \in Requested, Request(r, m) PROVE ValueInv'
        BY <1>4 DEF Request
    <1>5. ASSUME NEW i \in running, ThreadReturns(i) PROVE ValueInv'
        <2>1. ret' \in {"ok", "error"} /\ failures' \subseteq FaultKinds
            BY <1>5, Zenon DEF ThreadReturns, LoopEnds
        <2>2. running' \subseteq running
            BY <1>5 DEF ThreadReturns, LoopEnds
        <2>3. UNCHANGED <<bus, eds, mode, devMode, spawned, thr, loop, hid, switches>>
            BY <1>5 DEF ThreadReturns, LoopEnds
        <2> QED BY <2>1, <2>2, <2>3
    <1>6. CASE Remove
        BY <1>6 DEF Remove
    <1>7. CASE UNCHANGED vars
        BY <1>7 DEF vars
    <1> QED BY <1>1, <1>2, <1>3, <1>4, <1>5, <1>6, <1>7 DEF Next, Over

\* Every variable keeps its type, whatever fails and whoever interferes: the threads
\* that run were started, and the mode is one that somebody asked for.
THEOREM TypeCorrect == Spec => []TypeOK
    <1>1. Spec => [](BoolInv /\ LabelInv /\ ValueInv)
        BY TypeInit, BoolStep, LabelStep, ValueStep, PTL DEF Spec
    <1>2. BoolInv /\ LabelInv /\ ValueInv => TypeOK
        BY DEF BoolInv, LabelInv, ValueInv, TypeOK
    <1> QED BY <1>1, <1>2, PTL

-----------------------------------------------------------------------------
(* One loop *)

Aside == {"idle", "addhid"}

\* One task is in the driver.  Nobody adds a HID device while a SET_REPORT, which
\* needs one, is under way, so that a restart never comes to the addition.
AloneInv ==
    /\ \A r \in Requesters : pc[r] # "idle" => hid = "live"
    /\ \A r \in Requesters : pc[r] \notin {"addhid", "unhid"}
    /\ \A s, t \in Tasks : s # t => pc[s] \in Aside \/ pc[t] \in Aside

\* Behind the wait for the thread, and up to the start of the next one.
Threadless == {"free", "freehid", "info", "alloc", "descriptor", "setmode", "window", "spawn"}

\* The thread that runs is the one a stop would wait for, and it has buffers.
LoopInv ==
    /\ running \subseteq {thr}
    /\ running # {} => bufs
    /\ \A t \in Tasks : pc[t] \in Threadless => running = {}
    /\ \A t \in Tasks : pc[t] \in {"descriptor", "setmode", "window", "spawn"} => bufs

LEMMA AloneStep ==
    ASSUME Serial, LabelInv, AloneInv, [Next]_vars PROVE AloneInv'
    <1> USE LifecycleAssumption
        DEF LabelInv, Labels, AloneInv, Aside, Tasks, Null, ErrPtr, Go, Leave, Stay, Succeed, Fail,
            CommandFails, Command, thrVars, devVars, hidVars, reqVars
    <1>1. ASSUME NEW t \in Tasks, Start(t) PROVE AloneInv'
        <2>1. CASE GetDeviceInfo(t)
            BY <2>1 DEF GetDeviceInfo
        <2>2. CASE AllocBuffers(t)
            BY <2>2 DEF AllocBuffers
        <2>3. CASE GetDescriptor(t)
            BY <2>3 DEF GetDescriptor
        <2>4. CASE SetMode(t)
            BY <2>4 DEF SetMode
        <2>5. CASE SetMemWindow(t)
            BY <2>5 DEF SetMemWindow
        <2>6. CASE StartReceiver(t)
            BY <2>6 DEF StartReceiver
        <2>7. CASE RequestData(t)
            BY <2>7 DEF RequestData
        <2>8. CASE EnableHid(t)
            BY <2>8 DEF EnableHid
        <2>9. CASE AllocHid(t)
            BY <2>9 DEF AllocHid
        <2>10. CASE AddHid(t)
            BY <2>10 DEF AddHid
        <2> QED BY <1>1, <2>1, <2>2, <2>3, <2>4, <2>5, <2>6, <2>7, <2>8, <2>9, <2>10 DEF Start
    <1>2. ASSUME NEW t \in Tasks, Stop(t) PROVE AloneInv'
        <2>1. CASE DisableHid(t)
            BY <2>1 DEF DisableHid
        <2>2. CASE SignalThread(t)
            BY <2>2 DEF SignalThread
        <2>3. CASE JoinThread(t)
            BY <2>3 DEF JoinThread
        <2>4. CASE FreeBuffers(t)
            BY <2>4 DEF FreeBuffers
        <2>5. CASE FreeHid(t)
            BY <2>5 DEF FreeHid
        <2>6. CASE DropHid(t)
            BY <2>6 DEF DropHid
        <2> QED BY <1>2, <2>1, <2>2, <2>3, <2>4, <2>5, <2>6 DEF Stop
    <1>3. ASSUME NEW r \in Requesters, Switch(r) PROVE AloneInv'
        BY <1>3 DEF Switch, CompareMode, AssignMode
    <1>4. ASSUME NEW r \in Requesters, NEW m \in Requested, Request(r, m) PROVE AloneInv'
        BY <1>4 DEF Request, Alone
    <1>5. ASSUME NEW i \in running, ThreadReturns(i) PROVE AloneInv'
        BY <1>5 DEF ThreadReturns, LoopEnds
    <1>6. CASE Remove
        BY <1>6 DEF Remove, Alone
    <1>7. CASE UNCHANGED vars
        BY <1>7 DEF vars
    <1> QED BY <1>1, <1>2, <1>3, <1>4, <1>5, <1>6, <1>7 DEF Next, Over

LEMMA LoopStep ==
    ASSUME Serial, LabelInv, ValueInv, AloneInv, LoopInv, [Next]_vars PROVE LoopInv'
    <1> USE LifecycleAssumption
        DEF LabelInv, Labels, AloneInv, Aside, LoopInv, Threadless, Tasks, Null, ErrPtr, Go, Leave, Stay, Succeed, Fail,
            CommandFails, Command, thrVars, devVars, hidVars, reqVars
    <1>1. ASSUME NEW t \in Tasks, Start(t) PROVE LoopInv'
        <2>1. CASE GetDeviceInfo(t)
            BY <2>1 DEF GetDeviceInfo
        <2>2. CASE AllocBuffers(t)
            BY <2>2 DEF AllocBuffers
        <2>3. CASE GetDescriptor(t)
            BY <2>3 DEF GetDescriptor
        <2>4. CASE SetMode(t)
            BY <2>4 DEF SetMode
        <2>5. CASE SetMemWindow(t)
            BY <2>5 DEF SetMemWindow
        <2>6. CASE StartReceiver(t)
            BY <2>6 DEF StartReceiver
        <2>7. CASE RequestData(t)
            BY <2>7 DEF RequestData
        <2>8. CASE EnableHid(t)
            BY <2>8 DEF EnableHid
        <2>9. CASE AllocHid(t)
            BY <2>9 DEF AllocHid
        <2>10. CASE AddHid(t)
            BY <2>10 DEF AddHid
        <2> QED BY <1>1, <2>1, <2>2, <2>3, <2>4, <2>5, <2>6, <2>7, <2>8, <2>9, <2>10 DEF Start
    <1>2. ASSUME NEW t \in Tasks, Stop(t) PROVE LoopInv'
        <2>1. CASE DisableHid(t)
            BY <2>1 DEF DisableHid
        <2>2. CASE SignalThread(t)
            <3>1. thr = Null => running = {}
                BY DEF ValueInv
            <3> QED BY <2>2, <3>1 DEF SignalThread
        <2>3. CASE JoinThread(t)
            BY <2>3 DEF JoinThread
        <2>4. CASE FreeBuffers(t)
            BY <2>4 DEF FreeBuffers
        <2>5. CASE FreeHid(t)
            BY <2>5 DEF FreeHid
        <2>6. CASE DropHid(t)
            BY <2>6 DEF DropHid
        <2> QED BY <1>2, <2>1, <2>2, <2>3, <2>4, <2>5, <2>6 DEF Stop
    <1>3. ASSUME NEW r \in Requesters, Switch(r) PROVE LoopInv'
        BY <1>3 DEF Switch, CompareMode, AssignMode
    <1>4. ASSUME NEW r \in Requesters, NEW m \in Requested, Request(r, m) PROVE LoopInv'
        BY <1>4 DEF Request, Alone
    <1>5. ASSUME NEW i \in running, ThreadReturns(i) PROVE LoopInv'
        BY <1>5 DEF ThreadReturns, LoopEnds
    <1>6. CASE Remove
        BY <1>6 DEF Remove, Alone
    <1>7. CASE UNCHANGED vars
        BY <1>7 DEF vars
    <1> QED BY <1>1, <1>2, <1>3, <1>4, <1>5, <1>6, <1>7 DEF Next, Over

\* A set with at most one element has a cardinality of at most one.
LEMMA AtMostOne == \A S, x : S \subseteq {x} => Cardinality(S) <= 1
    <1> SUFFICES ASSUME NEW S, NEW x, S \subseteq {x} PROVE Cardinality(S) <= 1
        OBVIOUS
    <1>1. CASE S = {}
        BY <1>1, FS_EmptySet
    <1>2. CASE S = {x}
        BY <1>2, FS_Singleton
    <1> QED BY <1>1, <1>2

\* A restart never has two receiver loops, and no loop is ever without buffers, if
\* no two tasks are in the driver at a time: for any number of SET_REPORTs, and
\* whatever step of a start or a stop fails.
THEOREM OneLoopCorrect == ASSUME Serial PROVE Spec => []OneLoop
    <1> DEFINE Inv == BoolInv /\ LabelInv /\ ValueInv /\ AloneInv /\ LoopInv
    <1>1. Init => AloneInv /\ LoopInv
        BY LifecycleAssumption DEF Init, AloneInv, LoopInv, Aside, Threadless, Tasks
    <1>2. Init => Inv
        BY <1>1, TypeInit
    <1>3. Inv /\ [Next]_vars => Inv'
        BY BoolStep, LabelStep, ValueStep, AloneStep, LoopStep
    <1>4. Inv => OneLoop
        BY AtMostOne DEF LoopInv, OneLoop
    <1> HIDE DEF Inv
    <1> QED BY <1>2, <1>3, <1>4, PTL DEF Spec

-----------------------------------------------------------------------------
(* Removal *)

\* The driver core probes, then does nothing, then removes; what a removal leaves
\* behind is settled before FreeHid.
RemovalInv ==
    /\ bus = "probe" =>
         pc[Core] \in {"info", "alloc", "descriptor", "setmode", "window", "spawn",
                       "request", "enable", "allochid", "addhid", "unhid"}
    /\ bus = "remove" => pc[Core] \in {"disable", "signal", "join", "free", "freehid", "unhid"}
    /\ bus \in {"bound", "failed", "removed"} => pc[Core] = "idle"
    /\ pc[Core] = "freehid" => ~bufs
    /\ bus = "remove" /\ pc[Core] = "unhid" => running = {} /\ ~bufs
    /\ ret = "error" => "flush" \in failures
    /\ CleanRemoval

LEMMA RemovalStep ==
    ASSUME Serial, LabelInv, ValueInv, AloneInv, LoopInv, RemovalInv, [Next]_vars PROVE RemovalInv'
    <1> USE LifecycleAssumption
        DEF LabelInv, ValueInv, Labels, AloneInv, Aside, LoopInv, Threadless, RemovalInv, CleanRemoval, Tasks, Null, ErrPtr, Go, Leave, Stay, Succeed, Fail,
            CommandFails, Command, thrVars, devVars, hidVars, reqVars
    <1>1. ASSUME NEW t \in Tasks, Start(t) PROVE RemovalInv'
        <2>1. CASE GetDeviceInfo(t)
            BY <2>1 DEF GetDeviceInfo
        <2>2. CASE AllocBuffers(t)
            BY <2>2 DEF AllocBuffers
        <2>3. CASE GetDescriptor(t)
            BY <2>3 DEF GetDescriptor
        <2>4. CASE SetMode(t)
            BY <2>4 DEF SetMode
        <2>5. CASE SetMemWindow(t)
            BY <2>5 DEF SetMemWindow
        <2>6. CASE StartReceiver(t)
            BY <2>6 DEF StartReceiver
        <2>7. CASE RequestData(t)
            BY <2>7 DEF RequestData
        <2>8. CASE EnableHid(t)
            BY <2>8 DEF EnableHid
        <2>9. CASE AllocHid(t)
            BY <2>9 DEF AllocHid
        <2>10. CASE AddHid(t)
            BY <2>10 DEF AddHid
        <2> QED BY <1>1, <2>1, <2>2, <2>3, <2>4, <2>5, <2>6, <2>7, <2>8, <2>9, <2>10 DEF Start
    <1>2. ASSUME NEW t \in Tasks, Stop(t) PROVE RemovalInv'
        <2>1. CASE DisableHid(t)
            BY <2>1 DEF DisableHid
        <2>2. CASE SignalThread(t)
            BY <2>2 DEF SignalThread
        <2>3. CASE JoinThread(t)
            BY <2>3 DEF JoinThread
        <2>4. CASE FreeBuffers(t)
            BY <2>4 DEF FreeBuffers
        <2>5. CASE FreeHid(t)
            BY <2>5 DEF FreeHid
        <2>6. CASE DropHid(t)
            BY <2>6 DEF DropHid
        <2> QED BY <1>2, <2>1, <2>2, <2>3, <2>4, <2>5, <2>6 DEF Stop
    <1>3. ASSUME NEW r \in Requesters, Switch(r) PROVE RemovalInv'
        BY <1>3 DEF Switch, CompareMode, AssignMode
    <1>4. ASSUME NEW r \in Requesters, NEW m \in Requested, Request(r, m) PROVE RemovalInv'
        BY <1>4 DEF Request, Alone
    <1>5. ASSUME NEW i \in running, ThreadReturns(i) PROVE RemovalInv'
        BY <1>5 DEF ThreadReturns, LoopEnds
    <1>6. CASE Remove
        BY <1>6 DEF Remove, Alone
    <1>7. CASE UNCHANGED vars
        BY <1>7 DEF vars
    <1> QED BY <1>1, <1>2, <1>3, <1>4, <1>5, <1>6, <1>7 DEF Next, Over

\* A driver that is removed leaves no thread, no buffers and no HID device, however
\* many mode switches there were and whatever step of them failed, as long as no
\* loop ended with an error and no two tasks are in the driver at a time.
THEOREM RemovalCorrect == ASSUME Serial PROVE Spec => []CleanRemoval
    <1> DEFINE Inv == BoolInv /\ LabelInv /\ ValueInv /\ AloneInv /\ LoopInv /\ RemovalInv
    <1>1. Init => AloneInv /\ LoopInv
        BY LifecycleAssumption DEF Init, AloneInv, LoopInv, Aside, Threadless, Tasks
    <1>2. Init => RemovalInv
        BY DEF Init, RemovalInv, CleanRemoval, Tasks
    <1>3. Init => Inv
        BY <1>1, <1>2, TypeInit
    <1>4. Inv /\ [Next]_vars => Inv'
        BY BoolStep, LabelStep, ValueStep, AloneStep, LoopStep, RemovalStep
    <1>5. Inv => CleanRemoval
        BY DEF RemovalInv
    <1> HIDE DEF Inv
    <1> QED BY <1>3, <1>4, <1>5, PTL DEF Spec
-----------------------------------------------------------------------------
(* Nothing dangles *)

\* Where the context and the HID device are, in each phase of the driver.
DangleInv ==
    /\ ctx <=> bus \in {"probe", "bound", "remove"}
    /\ hid = "err" => bus = "failed"
    /\ hid = "freed" => pc[Core] = "unhid"
    /\ pc[Core] = "addhid" => hid = "live"
    /\ bus = "probe" /\ pc[Core] \notin {"addhid", "unhid"} => hid = "null"
    /\ bus = "probe" /\ pc[Core] = "unhid" => "hid" \in failures
    /\ bus = "bound" => hid = "live"
    /\ bus = "failed" => hid # "live" /\ (running # {} => failures \cap {"send", "hid"} # {})
    /\ bus \in {"remove", "removed"} => \A r \in Requesters : pc[r] = "idle"
    /\ bus = "remove" /\ pc[Core] # "disable" => ~hidActive
    /\ bus = "removed" => running = {} /\ ~hidActive

LEMMA DangleStep ==
    ASSUME Serial, LabelInv, ValueInv, AloneInv, LoopInv, RemovalInv, DangleInv,
           [Next]_vars PROVE DangleInv'
    <1> USE LifecycleAssumption
        DEF LabelInv, ValueInv, Labels, AloneInv, Aside, LoopInv, Threadless, RemovalInv, DangleInv, Tasks,
            Null, ErrPtr, Go, Leave, Stay, Succeed, Fail,
            CommandFails, Command, thrVars, devVars, hidVars, reqVars
    <1>1. ASSUME NEW t \in Tasks, Start(t) PROVE DangleInv'
        <2>1. CASE GetDeviceInfo(t)
            BY <2>1 DEF GetDeviceInfo
        <2>2. CASE AllocBuffers(t)
            BY <2>2 DEF AllocBuffers
        <2>3. CASE GetDescriptor(t)
            BY <2>3 DEF GetDescriptor
        <2>4. CASE SetMode(t)
            BY <2>4 DEF SetMode
        <2>5. CASE SetMemWindow(t)
            BY <2>5 DEF SetMemWindow
        <2>6. CASE StartReceiver(t)
            BY <2>6 DEF StartReceiver
        <2>7. CASE RequestData(t)
            BY <2>7 DEF RequestData
        <2>8. CASE EnableHid(t)
            BY <2>8 DEF EnableHid
        <2>9. CASE AllocHid(t)
            BY <2>9 DEF AllocHid
        <2>10. CASE AddHid(t)
            BY <2>10 DEF AddHid
        <2> QED BY <1>1, <2>1, <2>2, <2>3, <2>4, <2>5, <2>6, <2>7, <2>8, <2>9, <2>10 DEF Start
    <1>2. ASSUME NEW t \in Tasks, Stop(t) PROVE DangleInv'
        <2>1. CASE DisableHid(t)
            BY <2>1 DEF DisableHid
        <2>2. CASE SignalThread(t)
            BY <2>2 DEF SignalThread
        <2>3. CASE JoinThread(t)
            <3>1. running = {}
                BY <2>3 DEF JoinThread
            <3>2. CASE t = Core
                <4>1. bus = "remove" /\ ~hidActive /\ hid \notin {"err", "freed"}
                    BY <2>3, <3>2 DEF JoinThread
                <4>2. CASE ret = "ok"
                    BY <2>3, <3>1, <3>2, <4>1, <4>2 DEF JoinThread
                <4>3. CASE ret = "error"
                    <5>1. bus' = "removed" /\ ~ctx' /\ pc' = [pc EXCEPT ![Core] = "idle"]
                        BY <2>3, <3>2, <4>1, <4>3 DEF JoinThread
                    <5>2. UNCHANGED <<running, hid, hidActive, failures>>
                        BY <2>3 DEF JoinThread
                    <5> QED BY <3>1, <4>1, <5>1, <5>2
                <4> QED BY <4>2, <4>3
            <3>3. CASE t # Core
                BY <2>3, <3>1, <3>3 DEF JoinThread
            <3> QED BY <3>2, <3>3
        <2>4. CASE FreeBuffers(t)
            BY <2>4 DEF FreeBuffers
        <2>5. CASE FreeHid(t)
            BY <2>5 DEF FreeHid
        <2>6. CASE DropHid(t)
            BY <2>6 DEF DropHid
        <2> QED BY <1>2, <2>1, <2>2, <2>3, <2>4, <2>5, <2>6 DEF Stop
    <1>3. ASSUME NEW r \in Requesters, Switch(r) PROVE DangleInv'
        BY <1>3 DEF Switch, CompareMode, AssignMode
    <1>4. ASSUME NEW r \in Requesters, NEW m \in Requested, Request(r, m) PROVE DangleInv'
        BY <1>4 DEF Request, Alone
    <1>5. ASSUME NEW i \in running, ThreadReturns(i) PROVE DangleInv'
        BY <1>5 DEF ThreadReturns, LoopEnds
    <1>6. CASE Remove
        BY <1>6 DEF Remove, Alone
    <1>7. CASE UNCHANGED vars
        BY <1>7 DEF vars
    <1> QED BY <1>1, <1>2, <1>3, <1>4, <1>5, <1>6, <1>7 DEF Next, Over

\* No thread outlives its context, and none hands data to a HID device that is gone,
\* except when a probe fails behind the start of the receiver: whatever else fails,
\* and however many mode switches there are, one task at a time.
THEOREM DanglingCorrect == ASSUME Serial PROVE Spec => []NothingDangles
    <1> DEFINE Inv == BoolInv /\ LabelInv /\ ValueInv /\ AloneInv /\ LoopInv /\ RemovalInv /\ DangleInv
    <1>1. Init => AloneInv /\ LoopInv
        BY LifecycleAssumption DEF Init, AloneInv, LoopInv, Aside, Threadless, Tasks
    <1>2. Init => RemovalInv /\ DangleInv
        BY DEF Init, RemovalInv, CleanRemoval, DangleInv, Tasks
    <1>3. Init => Inv
        BY <1>1, <1>2, TypeInit
    <1>4. Inv /\ [Next]_vars => Inv'
        BY BoolStep, LabelStep, ValueStep, AloneStep, LoopStep, RemovalStep, DangleStep
    <1>5. Inv => NothingDangles
        BY DEF ValueInv, RemovalInv, DangleInv, NothingDangles
    <1> HIDE DEF Inv
    <1> QED BY <1>3, <1>4, <1>5, PTL DEF Spec

-----------------------------------------------------------------------------
(* One mode *)

Stopping == {"disable", "signal", "join", "free"}
Starting == {"info", "alloc", "descriptor", "setmode", "window", "spawn", "request", "enable"}

\* How far a start has come says what agrees already; a request is only left behind
\* in a mode that is not the one it asked for with hid_active unset.
AgreeInv ==
    /\ \A t \in Tasks : pc[t] \in {"window", "spawn", "request", "enable"} => devMode = mode
    /\ \A t \in Tasks : pc[t] \in {"request", "enable"} =>
         thr \in running /\ ~shouldStop /\ loop = mode
    /\ \A t \in Tasks : pc[t] = "enable" => flow
    /\ \A t \in Tasks : pc[t] \in (Stopping \ {"disable"}) \cup Starting \cup {"freehid"} => ~hidActive
    /\ hidActive => thr \in running /\ ~shouldStop /\ flow
    /\ hidActive /\ (\A t \in Tasks : pc[t] # "disable") => loop = mode /\ devMode = mode
    /\ eds = 1 \/ \A r \in Requesters : pc[r] = "idle"
    /\ \A r \in Requesters : pc[r] # "descriptor"
    /\ \A r \in Requesters : pc[r] \in Stopping \cup Starting \cup {"allochid"} => mode = target[r]

LEMMA AgreeStep ==
    ASSUME Serial, LabelInv, ValueInv, AloneInv, LoopInv, AgreeInv, [Next]_vars
    PROVE  AgreeInv'
    <1> USE LifecycleAssumption
        DEF LabelInv, ValueInv, Labels, AloneInv, Aside, LoopInv, Threadless, AgreeInv, Stopping, Starting, Tasks,
            Null, ErrPtr, Go, Leave, Stay, Succeed, Fail,
            CommandFails, Command, thrVars, devVars, hidVars, reqVars
    <1>1. ASSUME NEW t \in Tasks, Start(t) PROVE AgreeInv'
        <2>1. CASE GetDeviceInfo(t)
            BY <2>1 DEF GetDeviceInfo
        <2>2. CASE AllocBuffers(t)
            BY <2>2 DEF AllocBuffers
        <2>3. CASE GetDescriptor(t)
            BY <2>3 DEF GetDescriptor
        <2>4. CASE SetMode(t)
            BY <2>4 DEF SetMode
        <2>5. CASE SetMemWindow(t)
            BY <2>5 DEF SetMemWindow
        <2>6. CASE StartReceiver(t)
            BY <2>6 DEF StartReceiver
        <2>7. CASE RequestData(t)
            BY <2>7 DEF RequestData
        <2>8. CASE EnableHid(t)
            BY <2>8 DEF EnableHid
        <2>9. CASE AllocHid(t)
            BY <2>9 DEF AllocHid
        <2>10. CASE AddHid(t)
            BY <2>10 DEF AddHid
        <2> QED BY <1>1, <2>1, <2>2, <2>3, <2>4, <2>5, <2>6, <2>7, <2>8, <2>9, <2>10 DEF Start
    <1>2. ASSUME NEW t \in Tasks, Stop(t) PROVE AgreeInv'
        <2>1. CASE DisableHid(t)
            BY <2>1 DEF DisableHid
        <2>2. CASE SignalThread(t)
            BY <2>2 DEF SignalThread
        <2>3. CASE JoinThread(t)
            BY <2>3 DEF JoinThread
        <2>4. CASE FreeBuffers(t)
            BY <2>4 DEF FreeBuffers
        <2>5. CASE FreeHid(t)
            BY <2>5 DEF FreeHid
        <2>6. CASE DropHid(t)
            BY <2>6 DEF DropHid
        <2> QED BY <1>2, <2>1, <2>2, <2>3, <2>4, <2>5, <2>6 DEF Stop
    <1>3. ASSUME NEW r \in Requesters, Switch(r) PROVE AgreeInv'
        BY <1>3 DEF Switch, CompareMode, AssignMode
    <1>4. ASSUME NEW r \in Requesters, NEW m \in Requested, Request(r, m) PROVE AgreeInv'
        BY <1>4 DEF Request, Alone
    <1>5. ASSUME NEW i \in running, ThreadReturns(i) PROVE AgreeInv'
        BY <1>5 DEF ThreadReturns, LoopEnds
    <1>6. CASE Remove
        BY <1>6 DEF Remove, Alone
    <1>7. CASE UNCHANGED vars
        BY <1>7 DEF vars
    <1> QED BY <1>1, <1>2, <1>3, <1>4, <1>5, <1>6, <1>7 DEF Next, Over

\* A device that answers HID requests runs, and in one mode: whatever failed before,
\* for any number of mode switches, one task at a time.
THEOREM AgreeCorrect == ASSUME Serial PROVE Spec => []DriverAgrees
    <1> DEFINE Inv == BoolInv /\ LabelInv /\ ValueInv /\ AloneInv /\ LoopInv /\ AgreeInv
    <1>1. Init => AloneInv /\ LoopInv /\ AgreeInv
        BY LifecycleAssumption
        DEF Init, AloneInv, LoopInv, AgreeInv, Aside, Threadless, Stopping, Starting, Tasks
    <1>2. Init => Inv
        BY <1>1, TypeInit
    <1>3. Inv /\ [Next]_vars => Inv'
        BY BoolStep, LabelStep, ValueStep, AloneStep, LoopStep, AgreeStep
    <1>4. Inv => DriverAgrees
        BY DEF LoopInv, AgreeInv, DriverAgrees, Quiet
    <1> HIDE DEF Inv
    <1> QED BY <1>2, <1>3, <1>4, PTL DEF Spec

\* A request leaves the driver because it asked for the mode there is, or at the end
\* of a start; wherever else it leaves, hid_active is not set.
LEMMA EffectStep ==
    ASSUME LabelInv, AloneInv, AgreeInv, [Next]_vars,
           NEW r \in Requesters, pc[r] # "idle", pc'[r] = "idle", hidActive'
    PROVE  mode' = target[r]
    <1> USE LifecycleAssumption
        DEF LabelInv, Labels, AloneInv, Aside, AgreeInv, Stopping, Starting, Tasks, Go, Leave, Stay,
            Succeed, Fail, CommandFails, Command, thrVars, devVars, hidVars, reqVars
    <1>1. ASSUME NEW t \in Tasks, Start(t) PROVE mode' = target[r]
        <2>1. CASE GetDeviceInfo(t) \/ AllocBuffers(t)
            BY <2>1 DEF GetDeviceInfo, AllocBuffers
        <2>2. CASE GetDescriptor(t) \/ SetMode(t) \/ SetMemWindow(t)
            BY <2>2 DEF GetDescriptor, SetMode, SetMemWindow
        <2>3. CASE StartReceiver(t) \/ RequestData(t) \/ EnableHid(t)
            BY <2>3 DEF StartReceiver, RequestData, EnableHid
        <2>4. CASE AllocHid(t) \/ AddHid(t)
            BY <2>4 DEF AllocHid, AddHid
        <2> QED BY <1>1, <2>1, <2>2, <2>3, <2>4 DEF Start
    <1>2. ASSUME NEW t \in Tasks, Stop(t) PROVE mode' = target[r]
        <2>1. CASE DisableHid(t) \/ SignalThread(t) \/ JoinThread(t)
            BY <2>1 DEF DisableHid, SignalThread, JoinThread
        <2>2. CASE FreeBuffers(t) \/ FreeHid(t) \/ DropHid(t)
            BY <2>2 DEF FreeBuffers, FreeHid, DropHid
        <2> QED BY <1>2, <2>1, <2>2 DEF Stop
    <1>3. ASSUME NEW q \in Requesters, Switch(q) PROVE mode' = target[r]
        BY <1>3 DEF Switch, CompareMode, AssignMode
    <1>4. ASSUME NEW q \in Requesters, NEW m \in Requested, Request(q, m) PROVE mode' = target[r]
        BY <1>4 DEF Request
    <1>5. ASSUME NEW i \in running, ThreadReturns(i) PROVE mode' = target[r]
        BY <1>5 DEF ThreadReturns, LoopEnds
    <1>6. CASE Remove
        BY <1>6 DEF Remove
    <1>7. CASE UNCHANGED vars
        BY <1>7 DEF vars
    <1> QED BY <1>1, <1>2, <1>3, <1>4, <1>5, <1>6, <1>7 DEF Next, Over

\* A SET_REPORT that is through, on a device that still answers, has put its mode in
\* force.
THEOREM SwitchCorrect == ASSUME Serial PROVE Spec => SwitchTakesEffect
    <1> DEFINE Inv == BoolInv /\ LabelInv /\ ValueInv /\ AloneInv /\ LoopInv /\ AgreeInv
    <1>1. Init => AloneInv /\ LoopInv /\ AgreeInv
        BY LifecycleAssumption
        DEF Init, AloneInv, LoopInv, AgreeInv, Aside, Threadless, Stopping, Starting, Tasks
    <1>2. Init => Inv
        BY <1>1, TypeInit
    <1>3. Inv /\ [Next]_vars => Inv'
        BY BoolStep, LabelStep, ValueStep, AloneStep, LoopStep, AgreeStep
    <1>4. Inv /\ [Next]_vars =>
            [\A r \in Requesters :
               pc[r] # "idle" /\ pc'[r] = "idle" /\ hidActive' => mode' = target[r]]_vars
        BY EffectStep
    <1> HIDE DEF Inv
    <1> QED BY <1>2, <1>3, <1>4, PTL DEF Spec, SwitchTakesEffect

-----------------------------------------------------------------------------
(* The flow *)

\* An acknowledged flush ends the flow, and only a start with a thread of its own,
\* which has not ended yet, begins another.
FlowInv == flushed /\ running = {} => ~flow

LEMMA FlowStep == AgreeInv /\ FlowInv /\ [Next]_vars => FlowInv'
    <1> SUFFICES ASSUME AgreeInv, FlowInv, [Next]_vars PROVE FlowInv'
        OBVIOUS
    <1> USE LifecycleAssumption
        DEF FlowInv, Tasks, Go, Leave, Stay, Succeed, Fail, CommandFails, Command,
            thrVars, devVars, hidVars, reqVars
    <1>1. ASSUME NEW t \in Tasks, Start(t) PROVE FlowInv'
        <2>1. CASE RequestData(t)
            BY <2>1 DEF RequestData, AgreeInv
        <2>2. CASE StartReceiver(t)
            BY <2>2 DEF StartReceiver
        <2>3. CASE GetDeviceInfo(t) \/ AllocBuffers(t) \/ GetDescriptor(t)
            BY <2>3 DEF GetDeviceInfo, AllocBuffers, GetDescriptor
        <2>4. CASE SetMode(t) \/ SetMemWindow(t)
            BY <2>4 DEF SetMode, SetMemWindow
        <2>5. CASE EnableHid(t) \/ AllocHid(t) \/ AddHid(t)
            BY <2>5 DEF EnableHid, AllocHid, AddHid
        <2> QED BY <1>1, <2>1, <2>2, <2>3, <2>4, <2>5 DEF Start
    <1>2. ASSUME NEW t \in Tasks, Stop(t) PROVE FlowInv'
        BY <1>2 DEF Stop, DisableHid, SignalThread, JoinThread, FreeBuffers, FreeHid, DropHid
    <1>3. ASSUME NEW q \in Requesters, Switch(q) PROVE FlowInv'
        BY <1>3 DEF Switch, CompareMode, AssignMode
    <1>4. ASSUME NEW q \in Requesters, NEW m \in Requested, Request(q, m) PROVE FlowInv'
        BY <1>4 DEF Request
    <1>5. ASSUME NEW i \in running, ThreadReturns(i) PROVE FlowInv'
        BY <1>5 DEF ThreadReturns, LoopEnds
    <1>6. CASE Remove
        BY <1>6 DEF Remove
    <1>7. CASE UNCHANGED vars
        BY <1>7 DEF vars
    <1> QED BY <1>1, <1>2, <1>3, <1>4, <1>5, <1>6, <1>7 DEF Next, Over

\* One task at a time, nothing starts the data flow again behind an acknowledged flush:
\* a removal whose flush the device acknowledged leaves a device that does not write,
\* for any number of mode switches and whatever failed in the starts before.
THEOREM FlowCorrect == ASSUME Serial PROVE Spec => []FlowStopped
    <1> DEFINE Inv == /\ BoolInv /\ LabelInv /\ ValueInv /\ AloneInv /\ LoopInv /\ AgreeInv
                      /\ RemovalInv /\ DangleInv /\ FlowInv
    <1>1. Init => AloneInv /\ LoopInv /\ AgreeInv
        BY LifecycleAssumption
        DEF Init, AloneInv, LoopInv, AgreeInv, Aside, Threadless, Stopping, Starting, Tasks
    <1>2. Init => RemovalInv /\ DangleInv /\ FlowInv
        BY DEF Init, RemovalInv, CleanRemoval, DangleInv, FlowInv, Tasks
    <1>3. Init => Inv
        BY <1>1, <1>2, TypeInit
    <1>4. Inv /\ [Next]_vars => Inv'
        BY BoolStep, LabelStep, ValueStep, AloneStep, LoopStep, AgreeStep, RemovalStep,
           DangleStep, FlowStep
    <1>5. Inv => FlowStopped
        BY DEF DangleInv, FlowInv, FlowStopped
    <1> HIDE DEF Inv
    <1> QED BY <1>3, <1>4, <1>5, PTL DEF Spec
=============================================================================
