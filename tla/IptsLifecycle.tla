---------------------------- MODULE IptsLifecycle ----------------------------
(***************************************************************************)
(* From probe to remove: what the IPTS driver allocates, starts and frees, *)
(* in which order, and what is left when a step fails (main.c, control.c,  *)
(* thread.c, resources.c, hid.c, eds1.c).                                  *)
(*                                                                         *)
(* The driver core probes and removes the driver.  Once the HID device is  *)
(* there, any number of tasks may send it a SET_REPORT, which on an EDS1   *)
(* device stops and starts everything again in another mode; nothing in    *)
(* the driver keeps these tasks apart.  Each step below is one call of     *)
(* ipts_control_start or _ipts_control_stop; the receiver thread, whose    *)
(* loops IptsReceiver models, only runs and ends here.                     *)
(***************************************************************************)
EXTENDS Integers, FiniteSets

CONSTANTS
    Requesters,     \* tasks that send SET_REPORT
    Core,           \* the task that probes and removes the driver
    Requested,      \* the modes a SET_REPORT can ask for
    Faults,         \* which steps can fail: a subset of FaultKinds
    Serial,         \* no two of the tasks are in the driver at the same time
    MaxSwitches     \* bound: SET_REPORTs that change the mode

FaultKinds == {"cmd",       \* a command of the start fails
               "mem",       \* no memory for the buffers
               "kthread",   \* kthread_run fails
               "send",      \* READY_FOR_DATA cannot be sent
               "hid",       \* the HID device cannot be created
               "flush"}     \* QUIESCE_IO cannot be sent, or is not answered in time

ASSUME LifecycleAssumption ==
    /\ Core \notin Requesters
    /\ Faults \subseteq FaultKinds
    /\ Serial \in BOOLEAN
    /\ MaxSwitches \in Nat

Tasks == Requesters \cup {Core}
Null == 0
ErrPtr == -1

VARIABLES
    bus,            \* "probe", "bound", "remove", and the ends "failed", "removed"
    ctx,            \* struct ipts_context is allocated
    eds,            \* ipts->info.intf_eds: 1 is an older device; it never changes
    mode,           \* ipts->mode
    devMode,        \* the mode the device was set to
    flow,           \* the device may write to the buffers
    bufs,           \* ipts->resources hold buffers
    thr,            \* thread->thread: Null, ErrPtr or a thread
    running,        \* the threads whose function has not returned
    loop,           \* the mode the thread started last runs its loop for
    spawned,        \* number of threads started
    done,           \* the completion thread->done
    shouldStop,     \* thread->should_stop
    ret,            \* what the thread that ended last returned: "ok" or "error"
    flushed,        \* history: the device acknowledged that thread's QUIESCE_IO
    hid,            \* ipts->hid: "null", "live", an error pointer "err", or "freed"
    hidActive,      \* ipts->hid_active
    pc,             \* where each task is
    target,         \* the mode each SET_REPORT asks for
    switches,       \* SET_REPORTs so far
    failures        \* history: the kinds of failure there have been

thrVars == <<thr, running, loop, spawned, done, shouldStop, ret, flushed>>
devVars == <<devMode, flow>>
hidVars == <<hid, hidActive>>
reqVars == <<eds, target, switches>>
vars == <<bus, ctx, mode, devVars, bufs, thrVars, hidVars, pc, reqVars, failures>>

-----------------------------------------------------------------------------
(* Helpers *)

Go(t, label) == pc' = [pc EXCEPT ![t] = label]

\* A task leaves the driver.  When a probe fails, and when a remove is through,
\* the context goes with everything devm owns.
Leave(t, ok) ==
    /\ Go(t, "idle")
    /\ IF t = Core
       THEN /\ bus' = CASE bus = "probe" /\ ok  -> "bound"
                        [] bus = "probe" /\ ~ok -> "failed"
                        [] OTHER                -> "removed"
            /\ ctx' = (bus = "probe" /\ ok)
       ELSE UNCHANGED <<bus, ctx>>

Stay == UNCHANGED <<bus, ctx>>

\* A step succeeds, or fails in a way that is possible.
Succeed == UNCHANGED failures
Fail(kind) == kind \in Faults /\ failures' = failures \cup {kind}

\* The device may refuse SET_MODE and SET_MEM_WINDOW while data flows.
CommandFails == ("cmd" \in Faults \/ flow) /\ failures' = failures \cup {"cmd"}
Known(m) == m \in {"event", "poll"}

\* What follows a completed command of the start.
Command(t, at, next) ==
    /\ pc[t] = at
    /\ \/ Go(t, next) /\ Stay /\ Succeed
       \/ Fail("cmd") /\ Leave(t, FALSE)

-----------------------------------------------------------------------------
(* ipts_control_start *)

GetDeviceInfo(t) ==
    /\ Command(t, "info", "alloc")
    /\ UNCHANGED <<mode, devVars, bufs, thrVars, hidVars, reqVars>>

\* ipts_resources_init keeps buffers that are there, and frees all if one fails.
AllocBuffers(t) ==
    /\ pc[t] = "alloc"
    /\ \/ /\ bufs' = TRUE
          /\ Go(t, IF eds > 1 THEN "descriptor" ELSE "setmode")
          /\ Stay
          /\ Succeed
       \/ /\ Fail("mem")
          /\ bufs' = FALSE
          /\ Leave(t, FALSE)
    /\ UNCHANGED <<mode, devVars, thrVars, hidVars, reqVars>>

\* A newer device has a descriptor and is always run in poll mode.
GetDescriptor(t) ==
    /\ Command(t, "descriptor", "setmode")
    /\ mode' = IF pc'[t] = "setmode" THEN "poll" ELSE mode
    /\ UNCHANGED <<devVars, bufs, thrVars, hidVars, reqVars>>

\* Mutant: only the first start tells the device its mode.
SetModeOnce(t) ==
    /\ pc[t] = "setmode"
    /\ devMode' = IF t = Core THEN mode ELSE devMode
    /\ Go(t, "window")
    /\ Stay
    /\ UNCHANGED <<mode, flow, bufs, thrVars, hidVars, reqVars, failures>>

SetMode(t) ==
    /\ pc[t] = "setmode"
    /\ \/ /\ devMode' = mode
          /\ Go(t, "window")
          /\ Stay
          /\ Succeed
       \/ /\ CommandFails \/ (~Known(mode) /\ Succeed)
          /\ Leave(t, FALSE)
          /\ UNCHANGED devMode
    /\ UNCHANGED <<mode, flow, bufs, thrVars, hidVars, reqVars>>

SetMemWindow(t) ==
    /\ pc[t] = "window"
    /\ \/ Go(t, "spawn") /\ Stay /\ Succeed
       \/ CommandFails /\ Leave(t, FALSE)
    /\ UNCHANGED <<mode, devVars, bufs, thrVars, hidVars, reqVars>>

\* ipts_thread_start: the completion is new, the loop is chosen by ipts->mode.
\* A failure of kthread_run leaves its error pointer in thread->thread.
StartReceiver(t) ==
    /\ pc[t] = "spawn"
    /\ \/ /\ Known(mode)
          /\ spawned' = spawned + 1
          /\ thr' = spawned'
          /\ running' = running \cup {spawned'}
          /\ loop' = mode
          /\ done' = FALSE
          /\ shouldStop' = FALSE
          /\ Go(t, "request")
          /\ Stay
          /\ Succeed
       \/ /\ Known(mode)
          /\ Fail("kthread")
          /\ thr' = ErrPtr
          /\ done' = FALSE
          /\ shouldStop' = FALSE
          /\ Leave(t, FALSE)
          /\ UNCHANGED <<running, loop, spawned>>
       \/ /\ ~Known(mode)
          /\ Leave(t, FALSE)
          /\ Succeed
          /\ UNCHANGED <<thr, running, loop, spawned, done, shouldStop>>
    /\ UNCHANGED <<mode, devVars, bufs, ret, flushed, hidVars, reqVars>>

RequestData(t) ==
    /\ pc[t] = "request"
    /\ \/ flow' = TRUE /\ Go(t, "enable") /\ Stay /\ Succeed
       \/ Fail("send") /\ Leave(t, FALSE) /\ UNCHANGED flow
    /\ UNCHANGED <<mode, devMode, bufs, thrVars, hidVars, reqVars>>

EnableHid(t) ==
    /\ pc[t] = "enable"
    /\ hidActive' = TRUE
    /\ Go(t, "allochid")
    /\ Stay
    /\ UNCHANGED <<mode, devVars, bufs, thrVars, hid, reqVars, failures>>

\* ipts_hid_init keeps a HID device that is there.
AllocHid(t) ==
    /\ pc[t] = "allochid"
    /\ \/ hid # "null" /\ Leave(t, TRUE) /\ Succeed /\ UNCHANGED hid
       \/ hid = "null" /\ hid' = "live" /\ Go(t, "addhid") /\ Stay /\ Succeed
       \/ hid = "null" /\ Fail("hid") /\ hid' = "err" /\ Leave(t, FALSE)
    /\ UNCHANGED <<mode, devVars, bufs, thrVars, hidActive, reqVars>>

\* hid_add_device lets other tasks use the device, and the HID core does so
\* before it returns.  If it fails, ipts_hid_free destroys the device.
AddHid(t) ==
    /\ pc[t] = "addhid"
    /\ \/ /\ Serial => \A r \in Requesters : pc[r] = "idle"
          /\ Leave(t, TRUE)
          /\ Succeed
          /\ UNCHANGED hid
       \/ /\ Fail("hid")
          /\ \A r \in Requesters : pc[r] = "idle"
          /\ hid' = "freed"
          /\ Go(t, "unhid")
          /\ Stay
    /\ UNCHANGED <<mode, devVars, bufs, thrVars, hidActive, reqVars>>

-----------------------------------------------------------------------------
(* _ipts_control_stop *)

DisableHid(t) ==
    /\ pc[t] = "disable"
    /\ hidActive' = FALSE
    /\ Go(t, "signal")
    /\ Stay
    /\ UNCHANGED <<mode, devVars, bufs, thrVars, hid, reqVars, failures>>

\* Mutant: the buffers are freed before the thread is waited for.
SignalThreadFreed(t) ==
    /\ pc[t] = "signal"
    /\ bufs' = FALSE
    /\ IF thr = Null
       THEN Go(t, "free") /\ UNCHANGED shouldStop
       ELSE Go(t, "join") /\ shouldStop' = TRUE
    /\ Stay
    /\ UNCHANGED <<mode, devVars, thr, running, loop, spawned, done, ret, flushed,
                   hidVars, reqVars, failures>>

\* ipts_thread_stop has nothing to do if there is no thread ...
SignalThread(t) ==
    /\ pc[t] = "signal"
    /\ IF thr = Null
       THEN Go(t, "free") /\ UNCHANGED shouldStop
       ELSE Go(t, "join") /\ shouldStop' = TRUE
    /\ Stay
    /\ UNCHANGED <<mode, devVars, bufs, thr, running, loop, spawned, done, ret, flushed,
                   hidVars, reqVars, failures>>

\* Mutant: the completion is not waited for.
JoinThreadAtOnce(t) ==
    /\ pc[t] = "join"
    /\ thr' = Null
    /\ Go(t, "free")
    /\ Stay
    /\ UNCHANGED <<mode, devVars, bufs, running, loop, spawned, done, shouldStop, ret,
                   flushed, hidVars, reqVars, failures>>

\* Mutant: a stop that fails is tried again.
JoinThreadRetries(t) ==
    /\ pc[t] = "join"
    /\ done
    /\ thr \notin running
    /\ IF ret = "ok"
       THEN Go(t, "free") /\ thr' = Null
       ELSE Go(t, "signal") /\ UNCHANGED thr
    /\ Stay
    /\ UNCHANGED <<mode, devVars, bufs, running, loop, spawned, done, shouldStop, ret,
                   flushed, hidVars, reqVars, failures>>

\* ... and otherwise waits for the completion before kthread_stop.  An error of
\* the thread ends the stop, with the buffers and the HID device still there.
JoinThread(t) ==
    /\ pc[t] = "join"
    /\ done
    /\ thr \notin running
    /\ thr' = Null
    /\ IF ret = "ok"
       THEN Go(t, "free") /\ Stay
       ELSE Leave(t, FALSE)
    /\ UNCHANGED <<mode, devVars, bufs, running, loop, spawned, done, shouldStop, ret,
                   flushed, hidVars, reqVars, failures>>

\* A restart sleeps for a second and starts again; a stop frees the HID device.
FreeBuffers(t) ==
    /\ pc[t] = "free"
    /\ bufs' = FALSE
    /\ Go(t, IF t = Core THEN "freehid" ELSE "info")
    /\ Stay
    /\ UNCHANGED <<mode, devVars, thrVars, hidVars, reqVars, failures>>

\* ipts_hid_free: hid_destroy_device lets the requests that are under way finish.
FreeHid(t) ==
    /\ pc[t] = "freehid"
    /\ \A r \in Requesters : pc[r] = "idle"
    /\ hid' = "freed"
    /\ Go(t, "unhid")
    /\ Stay
    /\ UNCHANGED <<mode, devVars, bufs, thrVars, hidActive, reqVars, failures>>

\* ... and only then the pointer to it becomes NULL.
DropHid(t) ==
    /\ pc[t] = "unhid"
    /\ hid' = "null"
    /\ Leave(t, bus = "remove")
    /\ UNCHANGED <<mode, devVars, bufs, thrVars, hidActive, reqVars, failures>>

-----------------------------------------------------------------------------
(* The receiver thread *)

\* How its loop ends.  The poll loop looks at should_stop twice in a round: told to
\* stop in between, it leaves without QUIESCE_IO, and its waits for answers that
\* nobody sends time out, which is no error.
LoopEnds(i) ==
    \/ ret' = "ok" /\ flushed' = TRUE /\ flow' = FALSE /\ Succeed
    \/ /\ i = spawned => loop = "poll"
       /\ ret' = "ok" /\ flushed' = FALSE /\ UNCHANGED flow /\ Succeed
    \/ /\ Fail("flush")
       /\ ret' \in {"ok", "error"} /\ flushed' = FALSE /\ flow' \in {flow, FALSE}

\* It returns once it is told to, and completes thread->done.
ThreadReturns(i) ==
    /\ i \in running
    /\ shouldStop
    /\ running' = running \ {i}
    /\ done' = TRUE
    /\ LoopEnds(i)
    /\ UNCHANGED <<bus, ctx, mode, devMode, bufs, thr, loop, spawned, shouldStop,
                   hidVars, pc, reqVars>>

-----------------------------------------------------------------------------
(* SET_REPORT and remove *)

\* A request from within hid_add_device is not a second task.
Alone == Serial => \A t \in Tasks : pc[t] \in {"idle", "addhid"}

\* ipts_hid_raw_request and ipts_eds1_raw_request.
Request(t, m) ==
    /\ eds = 1
    /\ hid = "live"
    /\ hidActive
    /\ pc[t] = "idle"
    /\ Alone
    /\ switches < MaxSwitches
    /\ switches' = switches + 1
    /\ target' = [target EXCEPT ![t] = m]
    /\ Go(t, "compare")
    /\ Stay
    /\ UNCHANGED <<eds, mode, devVars, bufs, thrVars, hidVars, failures>>

\* ipts_eds1_switch_mode.
CompareMode(t) ==
    /\ pc[t] = "compare"
    /\ Go(t, IF mode = target[t] THEN "idle" ELSE "assign")
    /\ Stay
    /\ UNCHANGED <<mode, devVars, bufs, thrVars, hidVars, reqVars, failures>>

\* Mutant: the restart comes without the change of mode.
AssignModeNot(t) ==
    /\ pc[t] = "assign"
    /\ Go(t, "disable")
    /\ Stay
    /\ UNCHANGED <<mode, devVars, bufs, thrVars, hidVars, reqVars, failures>>

AssignMode(t) ==
    /\ pc[t] = "assign"
    /\ mode' = target[t]
    /\ Go(t, "disable")
    /\ Stay
    /\ UNCHANGED <<devVars, bufs, thrVars, hidVars, reqVars, failures>>

\* Mutant: ipts_remove frees the HID device without a stop.
RemoveHidOnly ==
    /\ bus = "bound"
    /\ pc[Core] = "idle"
    /\ Alone
    /\ bus' = "remove"
    /\ Go(Core, "freehid")
    /\ UNCHANGED <<ctx, mode, devVars, bufs, thrVars, hidVars, reqVars, failures>>

\* ipts_remove.
Remove ==
    /\ bus = "bound"
    /\ pc[Core] = "idle"
    /\ Alone
    /\ bus' = "remove"
    /\ Go(Core, "disable")
    /\ UNCHANGED <<ctx, mode, devVars, bufs, thrVars, hidVars, reqVars, failures>>

\* Nothing is left to do: the probe failed, or the driver is gone.
Over ==
    /\ bus \in {"failed", "removed"}
    /\ \A t \in Tasks : pc[t] = "idle"
    /\ UNCHANGED vars

-----------------------------------------------------------------------------
(* The specification *)

Init ==
    /\ bus = "probe"
    /\ ctx = TRUE
    /\ eds \in {1, 2}
    /\ mode = "event" /\ devMode = "none" /\ flow = FALSE
    /\ bufs = FALSE
    /\ thr = Null /\ running = {} /\ loop = "none" /\ spawned = 0
    /\ done = FALSE /\ shouldStop = FALSE /\ ret = "ok" /\ flushed = TRUE
    /\ hid = "null" /\ hidActive = FALSE
    /\ pc = [t \in Tasks |-> IF t = Core THEN "info" ELSE "idle"]
    /\ target = [r \in Requesters |-> "none"]
    /\ switches = 0
    /\ failures = {}

Start(t) ==
    \/ GetDeviceInfo(t) \/ AllocBuffers(t) \/ GetDescriptor(t) \/ SetMode(t)
    \/ SetMemWindow(t) \/ StartReceiver(t) \/ RequestData(t) \/ EnableHid(t)
    \/ AllocHid(t) \/ AddHid(t)

Stop(t) ==
    \/ DisableHid(t) \/ SignalThread(t) \/ JoinThread(t) \/ FreeBuffers(t)
    \/ FreeHid(t) \/ DropHid(t)

Switch(r) == CompareMode(r) \/ AssignMode(r)

Next ==
    \/ \E t \in Tasks : Start(t) \/ Stop(t)
    \/ \E r \in Requesters : Switch(r) \/ \E m \in Requested : Request(r, m)
    \/ \E i \in running : ThreadReturns(i)
    \/ Remove
    \/ Over

Spec == Init /\ [][Next]_vars

\* The scheduler runs every task that can go on, and a thread that was told to
\* stop.  Nobody has to send a request or to remove the driver.
Fairness ==
    /\ \A t \in Tasks : WF_vars(Start(t) \/ Stop(t))
    /\ \A r \in Requesters : WF_vars(Switch(r))
    /\ \A i \in 1 .. MaxSwitches + 1 : WF_vars(ThreadReturns(i))

FairSpec == Spec /\ Fairness

-----------------------------------------------------------------------------
(* Properties *)

Labels ==
    {"idle", "info", "alloc", "descriptor", "setmode", "window", "spawn", "request",
     "enable", "allochid", "addhid", "disable", "signal", "join", "free", "freehid",
     "unhid", "compare", "assign"}

Quiet == \A t \in Tasks : pc[t] = "idle"

\* Every variable keeps its type, and only threads that were started run.
TypeOK ==
    /\ bus \in {"probe", "bound", "remove", "failed", "removed"}
    /\ ctx \in BOOLEAN
    /\ eds \in {1, 2}
    /\ mode \in Requested \cup {"event", "poll"}
    /\ devMode \in Requested \cup {"event", "poll", "none"}
    /\ flow \in BOOLEAN
    /\ bufs \in BOOLEAN
    /\ spawned \in Nat
    /\ thr \in {ErrPtr, Null} \cup 1 .. spawned
    /\ running \subseteq 1 .. spawned
    /\ loop \in {"event", "poll", "none"}
    /\ done \in BOOLEAN
    /\ shouldStop \in BOOLEAN
    /\ ret \in {"ok", "error"}
    /\ flushed \in BOOLEAN
    /\ hid \in {"null", "live", "err", "freed"}
    /\ hidActive \in BOOLEAN
    /\ pc \in [Tasks -> Labels]
    /\ target \in [Requesters -> Requested \cup {"none"}]
    /\ switches \in Nat
    /\ failures \subseteq FaultKinds

\* There is never a second receiver thread next to one that still runs: a
\* restart waits for the old loop before it starts the new one (control.c:468).
\* And the loop has its buffers: _stop frees them only behind
\* ipts_receiver_stop (control.c:436-442).
OneLoop ==
    /\ Cardinality(running) <= 1
    /\ running # {} => bufs

\* A device that answers HID requests is a device that runs, whatever failed
\* before: hid_active implies a live thread, buffers and data flow (control.c:415).
\* And it runs in one mode: the receiver's loop, the mode the device was told and
\* the mode the driver reports agree (eds1.c:60, control.c:391, receiver.c:219).
DriverAgrees ==
    bus = "bound" /\ Quiet /\ hidActive =>
        /\ thr \in running /\ ~shouldStop
        /\ bufs /\ flow
        /\ loop = mode /\ devMode = mode

\* The mode last asked for is the mode in force once the request is through.
SwitchTakesEffect ==
    [][\A r \in Requesters :
         pc[r] # "idle" /\ pc'[r] = "idle" /\ hidActive' => mode' = target[r]]_vars

\* Nothing starts the data flow again behind a stop: if the device acknowledged the
\* last flush there has been, it does not write when ipts_remove is through
\* (control.h:111), whatever failed in the starts.  Without an acknowledged flush a
\* removal may leave the flow on: the flush failed, or the poll loop left between its
\* two looks at should_stop and never asked for one (receiver.c:183), with nothing
\* failed at all.
FlowStopped == bus = "removed" /\ flushed => ~flow

\* If no loop ended with an error, a driver that is removed leaves nothing behind,
\* whatever became of the starts (control.c:426-466).
CleanRemoval ==
    bus = "removed" /\ "flush" \notin failures => running = {} /\ ~bufs /\ hid = "null"

\* A receiver thread that runs has its context, and whenever it hands data to the
\* HID core, the HID device: nothing is freed under it.  Except when a probe fails
\* behind ipts_receiver_start, which control.c does not undo: the thread outlives
\* the context (control.c:410), or meets an error pointer or a destroyed device in
\* ipts->hid (hid.c:202 and :238).
NothingDangles ==
    running # {} =>
        \/ ctx /\ (hidActive => hid \in {"null", "live"})
        \/ bus \in {"probe", "failed"} /\ failures \cap {"send", "hid"} # {}

\* Whoever enters the driver leaves it again.  After kthread_run has failed its
\* error pointer is in thread->thread, and the next stop waits for it for good
\* (thread.c:55 and :66).
CallsReturn == \A t \in Tasks : pc[t] # "idle" ~> pc[t] = "idle" \/ "kthread" \in failures
=============================================================================
