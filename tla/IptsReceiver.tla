---------------------------- MODULE IptsReceiver ----------------------------
(***************************************************************************)
(* The data path of the IPTS kernel driver: the receiver thread            *)
(* (src/src/ipts/receiver.c), the commands it exchanges with the device    *)
(* (control.c), the thread object it is started and stopped through        *)
(* (thread.c), and the part of ipts_control_start, _stop and _restart that *)
(* orders them.                                                            *)
(*                                                                         *)
(* Three actors interleave: the receiver thread (tpc), the task that       *)
(* starts, stops and restarts the driver (ctl), and the device.  The       *)
(* device is modelled from the comments of spec-device.h and control.h:    *)
(* it fills the buffers round robin, never fills one that was not          *)
(* acknowledged, and completes QUIESCE_IO only when every buffer was.      *)
(* Buffer contents are members of Frames; responses carry only a status.   *)
(***************************************************************************)
EXTENDS Integers, Sequences

CONSTANTS
    NBuffers,       \* IPTS_BUFFERS
    DoorbellMod,    \* the doorbell counts modulo this (2^32 in the code)
    Frames,         \* the contents a filled buffer can have
    NoFrame,        \* an unfilled buffer
    Modes,          \* the modes devices are started in: a newer one only polls, an
                    \* older one starts in event mode and may be switched
    Faults,         \* which failures are possible: a subset of FaultKinds
    MaxSessions,    \* bound: starts and restarts
    MaxMail         \* bound: unread responses of one command

FaultKinds == {"late",      \* a response arrives after recv gave up (1000 ms)
               "send",      \* mei_cldev_send fails
               "status"}    \* the device answers with an error status

\* The modulus wraps on a multiple of the ring size, and a full ring can be
\* told from an empty one, also when the buffer just acknowledged has been
\* filled again before lastdb is stepped.  2^32 and 16 satisfy this.
ASSUME RingAssumption ==
    /\ NBuffers \in Nat \ {0}
    /\ DoorbellMod \in Nat
    /\ DoorbellMod > NBuffers + 1
    /\ DoorbellMod % NBuffers = 0

ASSUME ParameterAssumption ==
    /\ NoFrame \notin Frames
    /\ Modes \subseteq {"event", "poll"}
    /\ Modes # {}
    /\ Faults \subseteq FaultKinds
    /\ MaxSessions \in Nat
    /\ MaxMail \in Nat

Buffers == 0 .. (NBuffers - 1)
Codes == {"READY_FOR_DATA", "FEEDBACK", "QUIESCE_IO"}
Statuses == {"SUCCESS", "SENSOR_DISABLED", "TIMEOUT", "ERROR"}

\* The unread responses, by command.
Mailboxes == [Codes -> Seq(Statuses)]

VARIABLES
    \* the device
    flow,           \* data flow: "off", "on", "quiescing"
    cmds,           \* an unanswered READY_FOR_DATA, a QUIESCE_IO not yet seen
    owner,          \* who may touch each data buffer: "me" or "host"
    frame,          \* contents of each data buffer
    filled,         \* buffers filled so far, modulo DoorbellMod
    fbq,            \* buffers whose FEEDBACK command the device has not yet seen
    \* memory and queues both sides see
    doorbell,       \* ipts->resources.doorbell
    allocated,      \* ipts->resources hold buffers
    mail,           \* ipts->mei.messages: unread statuses by command, newest first
    \* the receiver thread
    tpc,            \* where the thread is
    lastdb,         \* local lastdb of the poll loop
    snapshot,       \* local doorbell of the poll loop
    round,          \* local i of the event loop
    buffer,         \* local buffer
    ret,            \* return value of the thread
    \* the task that starts and stops the driver
    ctl,            \* where that task is
    mode,           \* the mode SET_MODE gave the device and the loop was started for
    session,        \* number of starts
    shouldStop,     \* thread->should_stop
    hidActive,      \* ipts->hid_active and ipts->hid set
    out             \* the frame handed to the HID core last

devVars == <<flow, cmds, owner, frame, filled, fbq>>
thrVars == <<lastdb, snapshot, round, buffer>>
ctlVars == <<ctl, mode, session, shouldStop, hidActive>>
vars == <<devVars, doorbell, allocated, mail, tpc, thrVars, ret, ctlVars, out>>

-----------------------------------------------------------------------------
(* Helpers *)

\* u32 increment.
Inc(n) == (n + 1) % DoorbellMod

Slot(n) == n % NBuffers

\* How far one doorbell value is ahead of another.
Gap(from, to) == (to - from) % DoorbellMod

\* ipts_mei_incoming puts a response at the head of the list.  Beyond MaxMail
\* it is dropped, as the code drops one it cannot allocate an entry for.
Posted(box, code, status) ==
    IF Len(box[code]) < MaxMail
    THEN [box EXCEPT ![code] = <<status>> \o @]
    ELSE box

\* ipts_mei_search takes the newest response with the wanted code.
Has(code) == mail[code] # <<>>
Taken(code) == [mail EXCEPT ![code] = Tail(@)]

\* READY_FOR_DATA is answered once data is there, and at the end of the flow.
Outstanding == "READY_FOR_DATA" \in cmds

\* The device has all its buffers back and a flush to complete.
CanFlush == ("QUIESCE_IO" \in cmds \/ flow = "quiescing") /\ \A b \in Buffers : owner[b] = "me"

\* Whether the device is going to answer the command.
CanAnswer(code) ==
    CASE code = "FEEDBACK"       -> fbq # {}
      [] code = "READY_FOR_DATA" -> Outstanding /\ CanFlush
      [] code = "QUIESCE_IO"     -> CanFlush

\* ipts_mei_recv with a timeout gives up only if no response is there.
GivesUp(code) == ~Has(code) /\ ("late" \in Faults \/ ~CanAnswer(code))

\* mei_cldev_send can fail.
SendFails == "send" \in Faults

-----------------------------------------------------------------------------
(* The device *)

\* The device fills the next buffer.  In poll mode it rings the doorbell, in
\* event mode it answers READY_FOR_DATA.
Fill(f) ==
    LET b == Slot(filled) IN
    /\ flow = "on"
    /\ Outstanding
    /\ owner[b] = "me"
    /\ frame' = [frame EXCEPT ![b] = f]
    /\ owner' = [owner EXCEPT ![b] = "host"]
    /\ filled' = Inc(filled)
    /\ \/ /\ mode = "poll"
          /\ doorbell' = Inc(doorbell)
          /\ UNCHANGED <<cmds, mail>>
       \/ /\ mode = "event"
          /\ cmds' = cmds \ {"READY_FOR_DATA"}
          /\ mail' = Posted(mail, "READY_FOR_DATA", "SUCCESS")
          /\ UNCHANGED doorbell
    /\ UNCHANGED <<flow, fbq, allocated, tpc, thrVars, ret, ctlVars, out>>

\* FEEDBACK gives a buffer back to the device.
Acknowledge(b) ==
    /\ b \in fbq
    /\ fbq' = fbq \ {b}
    /\ owner' = [owner EXCEPT ![b] = "me"]
    /\ mail' = Posted(mail, "FEEDBACK", "SUCCESS")
    /\ UNCHANGED <<flow, cmds, frame, filled, doorbell, allocated,
                   tpc, thrVars, ret, ctlVars, out>>

\* QUIESCE_IO reaches the device: it fills no more buffers.
Quiesce ==
    /\ "QUIESCE_IO" \in cmds
    /\ cmds' = cmds \ {"QUIESCE_IO"}
    /\ flow' = "quiescing"
    /\ UNCHANGED <<owner, frame, filled, fbq, doorbell, allocated, mail,
                   tpc, thrVars, ret, ctlVars, out>>

\* Every buffer is acknowledged: the flow ends and the commands are answered.
FlushDone ==
    /\ flow = "quiescing"
    /\ \A b \in Buffers : owner[b] = "me"
    /\ flow' = "off"
    /\ cmds' = cmds \ {"READY_FOR_DATA"}
    /\ \E s \in {"SUCCESS", "SENSOR_DISABLED"} :
         mail' = Posted(IF Outstanding THEN Posted(mail, "READY_FOR_DATA", s) ELSE mail,
                        "QUIESCE_IO", "SUCCESS")
    /\ UNCHANGED <<owner, frame, filled, fbq, doorbell, allocated,
                   tpc, thrVars, ret, ctlVars, out>>

\* The device reports an error for an outstanding command.
DeviceError ==
    /\ "status" \in Faults
    /\ \E s \in {"TIMEOUT", "ERROR"} :
         \/ /\ Outstanding
            /\ cmds' = cmds \ {"READY_FOR_DATA"}
            /\ mail' = Posted(mail, "READY_FOR_DATA", s)
            /\ UNCHANGED flow
         \/ /\ flow = "quiescing"
            /\ flow' = "on"
            /\ mail' = Posted(mail, "QUIESCE_IO", s)
            /\ UNCHANGED cmds
    /\ UNCHANGED <<owner, frame, filled, fbq, doorbell, allocated,
                   tpc, thrVars, ret, ctlVars, out>>

Device ==
    \/ \E f \in Frames : Fill(f)
    \/ \E b \in Buffers : Acknowledge(b)
    \/ Quiesce \/ FlushDone \/ DeviceError

-----------------------------------------------------------------------------
(* The receiver thread, both loops *)

\* ipts_control_request_data.  The device refuses a second command of a kind
\* it has not answered yet.
SentReady ==
    IF Outstanding
    THEN /\ mail' = Posted(mail, "READY_FOR_DATA", "ERROR")
         /\ UNCHANGED <<cmds, flow>>
    ELSE /\ cmds' = cmds \cup {"READY_FOR_DATA"}
         /\ flow' = IF flow = "off" THEN "on" ELSE flow
         /\ UNCHANGED mail

Exit(r) == tpc' = "done" /\ ret' = r

\* ipts_hid_input_data up to the point where it decides to read the buffer.
InputStart ==
    /\ tpc = "input"
    /\ tpc' = IF hidActive THEN "reading" ELSE "feedback"
    /\ UNCHANGED <<devVars, doorbell, allocated, mail, thrVars, ret, ctlVars, out>>

\* ... and the hand-over of what is in the buffer by the time it has been read.
InputEnd ==
    /\ tpc = "reading"
    /\ out' = frame[buffer]
    /\ tpc' = "feedback"
    /\ UNCHANGED <<devVars, doorbell, allocated, mail, thrVars, ret, ctlVars>>

\* Mutant: the poll loop takes one buffer per doorbell change.
NextBufferSkips ==
    IF mode = "poll"
    THEN tpc' = "drain" /\ lastdb' = snapshot
    ELSE tpc' = "request" /\ UNCHANGED lastdb

\* What follows a buffer: the poll loop steps lastdb, the event loop asks for more.
NextBuffer ==
    IF mode = "poll"
    THEN tpc' = "drain" /\ lastdb' = Inc(lastdb)
    ELSE tpc' = "request" /\ UNCHANGED lastdb

\* ipts_control_refill_buffer sends FEEDBACK; a failure is only logged.
SendFeedback ==
    /\ tpc = "feedback"
    /\ fbq' = fbq \cup {buffer}
    /\ tpc' = "fbwait"
    /\ UNCHANGED <<flow, cmds, owner, frame, filled, doorbell,
                   allocated, mail, thrVars, ret, ctlVars, out>>

SendFeedbackFails ==
    /\ tpc = "feedback"
    /\ SendFails
    /\ NextBuffer
    /\ UNCHANGED <<devVars, doorbell, allocated, mail, snapshot, round, buffer,
                   ret, ctlVars, out>>

\* ... and waits for the response; giving up is only logged, too.
RecvFeedback ==
    /\ tpc = "fbwait"
    /\ \/ Has("FEEDBACK") /\ mail' = Taken("FEEDBACK")
       \/ GivesUp("FEEDBACK") /\ UNCHANGED mail
    /\ NextBuffer
    /\ UNCHANGED <<devVars, doorbell, allocated, snapshot, round, buffer,
                   ret, ctlVars, out>>

\* ipts_control_request_flush at the end of the event loop ("flush") or at the
\* head of a turn of the poll loop ("top").
RequestFlush ==
    /\ \/ tpc = "flush"
       \/ tpc = "top" /\ mode = "poll" /\ shouldStop
    /\ \/ /\ cmds' = cmds \cup {"QUIESCE_IO"}
          /\ tpc' = IF tpc = "flush" THEN "waitdata" ELSE "snap"
          /\ UNCHANGED ret
       \/ /\ SendFails
          /\ Exit("error")
          /\ UNCHANGED cmds
    /\ UNCHANGED <<flow, owner, frame, filled, fbq, doorbell, allocated,
                   mail, thrVars, ctlVars, out>>

\* The two waits that end both loops.  Giving up, or an answer that says
\* TIMEOUT, makes the thread return 0.
WaitData ==
    /\ tpc = "waitdata"
    /\ \/ /\ Has("READY_FOR_DATA")
          /\ mail' = Taken("READY_FOR_DATA")
          /\ CASE Head(mail["READY_FOR_DATA"]) \in {"SUCCESS", "SENSOR_DISABLED"} ->
                    tpc' = "waitflush" /\ UNCHANGED ret
               [] Head(mail["READY_FOR_DATA"]) = "TIMEOUT" -> Exit("ok")
               [] Head(mail["READY_FOR_DATA"]) = "ERROR"   -> Exit("error")
       \/ /\ GivesUp("READY_FOR_DATA")
          /\ Exit("ok")
          /\ UNCHANGED mail
    /\ UNCHANGED <<devVars, doorbell, allocated, thrVars, ctlVars, out>>

\* Mutant: giving up counts as success.
WaitFlushGivesUpOk ==
    /\ tpc = "waitflush"
    /\ \/ Has("QUIESCE_IO") /\ mail' = Taken("QUIESCE_IO") /\ Exit("flushed")
       \/ GivesUp("QUIESCE_IO") /\ Exit("flushed") /\ UNCHANGED mail
    /\ UNCHANGED <<devVars, doorbell, allocated, thrVars, ctlVars, out>>

WaitFlush ==
    /\ tpc = "waitflush"
    /\ \/ /\ Has("QUIESCE_IO")
          /\ mail' = Taken("QUIESCE_IO")
          /\ Exit(CASE Head(mail["QUIESCE_IO"]) = "SUCCESS" -> "flushed"
                    [] Head(mail["QUIESCE_IO"]) = "TIMEOUT" -> "ok"
                    [] OTHER                                -> "error")
       \/ /\ GivesUp("QUIESCE_IO")
          /\ Exit("ok")
          /\ UNCHANGED mail
    /\ UNCHANGED <<devVars, doorbell, allocated, thrVars, ctlVars, out>>

-----------------------------------------------------------------------------
(* ipts_receiver_poll_loop *)

PollTop ==
    /\ tpc = "top"
    /\ mode = "poll"
    /\ ~shouldStop
    /\ tpc' = "snap"
    /\ UNCHANGED <<devVars, doorbell, allocated, mail, thrVars, ret, ctlVars, out>>

PollSnapshot ==
    /\ tpc = "snap"
    /\ snapshot' = doorbell
    /\ tpc' = "drain"
    /\ UNCHANGED <<devVars, doorbell, allocated, mail, lastdb, round, buffer,
                   ret, ctlVars, out>>

\* Mutant: the buffer the doorbell stands for, the next one to be filled, is read.
PollDrainNext ==
    /\ tpc = "drain"
    /\ IF lastdb # snapshot
       THEN tpc' = "input" /\ buffer' = Slot(snapshot)
       ELSE tpc' = "check" /\ UNCHANGED buffer
    /\ UNCHANGED <<devVars, doorbell, allocated, mail, lastdb, snapshot, round,
                   ret, ctlVars, out>>

\* Mutant: < instead of !=, which a doorbell that has wrapped does not survive.
PollDrainLess ==
    /\ tpc = "drain"
    /\ IF lastdb < snapshot
       THEN tpc' = "input" /\ buffer' = Slot(lastdb)
       ELSE tpc' = "check" /\ UNCHANGED buffer
    /\ UNCHANGED <<devVars, doorbell, allocated, mail, lastdb, snapshot, round,
                   ret, ctlVars, out>>

PollDrain ==
    /\ tpc = "drain"
    /\ IF lastdb # snapshot
       THEN tpc' = "input" /\ buffer' = Slot(lastdb)
       ELSE tpc' = "check" /\ UNCHANGED buffer
    /\ UNCHANGED <<devVars, doorbell, allocated, mail, lastdb, snapshot, round,
                   ret, ctlVars, out>>

\* The second test of should_stop; otherwise back off and turn again.
PollCheck ==
    /\ tpc = "check"
    /\ tpc' = IF shouldStop THEN "waitdata" ELSE "top"
    /\ UNCHANGED <<devVars, doorbell, allocated, mail, thrVars, ret, ctlVars, out>>

-----------------------------------------------------------------------------
(* ipts_receiver_event_loop *)

EventTop ==
    /\ tpc = "top"
    /\ mode = "event"
    /\ tpc' = IF shouldStop THEN "flush" ELSE "take"
    /\ round' = 0
    /\ UNCHANGED <<devVars, doorbell, allocated, mail, lastdb, snapshot, buffer,
                   ret, ctlVars, out>>

\* Mutant: the doorbell is stepped before it is turned into a buffer.
EventTakeLate ==
    /\ tpc = "take"
    /\ IF round < NBuffers /\ Has("READY_FOR_DATA")
       THEN /\ mail' = Taken("READY_FOR_DATA")
            /\ doorbell' = Inc(doorbell)
            /\ buffer' = Slot(doorbell')
            /\ tpc' = "input"
            /\ UNCHANGED round
       ELSE tpc' = "top" /\ UNCHANGED <<mail, buffer, doorbell, round>>
    /\ UNCHANGED <<devVars, allocated, lastdb, snapshot, ret, ctlVars, out>>

\* Mutant: the response is looked at but the for loop never ends on a missing one.
EventTakeSpins ==
    /\ tpc = "take"
    /\ IF Has("READY_FOR_DATA")
       THEN /\ mail' = Taken("READY_FOR_DATA")
            /\ doorbell' = Inc(doorbell)
            /\ buffer' = Slot(doorbell)
            /\ tpc' = "input"
       ELSE UNCHANGED <<mail, buffer, doorbell, tpc>>
    /\ UNCHANGED <<devVars, allocated, lastdb, snapshot, round, ret, ctlVars, out>>

\* One turn of the for loop: no response, or one that says TIMEOUT, ends it; an
\* error skips to the next turn; anything else stands for a filled buffer.
EventTake ==
    /\ tpc = "take"
    /\ IF round < NBuffers /\ Has("READY_FOR_DATA")
       THEN /\ mail' = Taken("READY_FOR_DATA")
            /\ CASE Head(mail["READY_FOR_DATA"]) \in {"SUCCESS", "SENSOR_DISABLED"} ->
                      /\ buffer' = Slot(doorbell)
                      /\ doorbell' = Inc(doorbell)
                      /\ tpc' = "input"
                      /\ UNCHANGED round
                 [] Head(mail["READY_FOR_DATA"]) = "TIMEOUT" ->
                      tpc' = "top" /\ UNCHANGED <<buffer, doorbell, round>>
                 [] Head(mail["READY_FOR_DATA"]) = "ERROR" ->
                      round' = round + 1 /\ UNCHANGED <<tpc, buffer, doorbell>>
       ELSE tpc' = "top" /\ UNCHANGED <<mail, buffer, doorbell, round>>
    /\ UNCHANGED <<devVars, allocated, lastdb, snapshot, ret, ctlVars, out>>

\* Mutant: more data is requested once per turn of the outer loop only.
EventRequestOnce ==
    /\ tpc = "request"
    /\ tpc' = "take"
    /\ round' = round + 1
    /\ IF round = 0 THEN SentReady ELSE UNCHANGED <<cmds, flow, mail>>
    /\ UNCHANGED <<owner, frame, filled, fbq, doorbell, allocated,
                   lastdb, snapshot, buffer, ret, ctlVars, out>>

\* ipts_control_request_data after each buffer.
EventRequest ==
    /\ tpc = "request"
    /\ tpc' = "take"
    /\ round' = round + 1
    /\ \/ SentReady
       \/ SendFails /\ UNCHANGED <<cmds, flow, mail>>
    /\ UNCHANGED <<owner, frame, filled, fbq, doorbell, allocated,
                   lastdb, snapshot, buffer, ret, ctlVars, out>>

Thread ==
    \/ PollTop \/ PollSnapshot \/ PollDrain \/ PollCheck
    \/ EventTop \/ EventTake \/ EventRequest
    \/ InputStart \/ InputEnd
    \/ SendFeedback \/ SendFeedbackFails \/ RecvFeedback
    \/ RequestFlush \/ WaitData \/ WaitFlush

-----------------------------------------------------------------------------
(* The task that starts, stops and restarts the driver *)

\* ipts_control_start up to ipts_receiver_start: fresh zeroed buffers, the
\* memory window handed to the device, the thread created.  A device that has
\* not gone quiet refuses the commands this needs; one that answers them has
\* worked off everything it was sent before.
Start ==
    /\ ctl = "starting"
    /\ IF flow = "off"
       THEN /\ allocated' = TRUE
            /\ doorbell' = 0
            /\ owner' = [b \in Buffers |-> "me"]
            /\ frame' = [b \in Buffers |-> NoFrame]
            /\ filled' = 0
            /\ fbq' = {}
            /\ shouldStop' = FALSE
            /\ tpc' = "top"
            /\ lastdb' = 0
            /\ snapshot' = 0
            /\ round' = 0
            /\ buffer' = 0
            /\ mode' \in IF session = 1 THEN {mode} ELSE Modes \ {mode}
            /\ ctl' = "request"
       ELSE /\ ctl' = "failed"
            /\ UNCHANGED <<mode, allocated, doorbell, owner, frame, filled, fbq,
                           shouldStop, tpc, thrVars>>
    /\ UNCHANGED <<flow, cmds, mail, ret, session, hidActive, out>>

\* ... ipts_control_request_data.
StartRequest ==
    /\ ctl = "request"
    /\ \/ SentReady /\ ctl' = "enable"
       \/ SendFails /\ ctl' = "failed" /\ UNCHANGED <<cmds, flow, mail>>
    /\ UNCHANGED <<owner, frame, filled, fbq, doorbell, allocated, tpc, thrVars,
                   ret, mode, session, shouldStop, hidActive, out>>

\* ... ipts_hid_enable and ipts_hid_init.
StartEnable ==
    /\ ctl = "enable"
    /\ hidActive' = TRUE
    /\ ctl' = "running"
    /\ UNCHANGED <<devVars, doorbell, allocated, mail, tpc, thrVars, ret,
                   mode, session, shouldStop, out>>

\* ipts_control_stop or ipts_control_restart is called: ipts_hid_disable.
StopDisable ==
    /\ ctl = "running"
    /\ hidActive' = FALSE
    /\ ctl' = "signal"
    /\ UNCHANGED <<devVars, doorbell, allocated, mail, tpc, thrVars, ret,
                   mode, session, shouldStop, out>>

\* ipts_thread_stop sets should_stop ...
StopSignal ==
    /\ ctl = "signal"
    /\ shouldStop' = TRUE
    /\ ctl' = "join"
    /\ UNCHANGED <<devVars, doorbell, allocated, mail, tpc, thrVars, ret,
                   mode, session, hidActive, out>>

\* ... and waits for the thread; an error of the thread ends the stop early.
StopJoin ==
    /\ ctl = "join"
    /\ tpc = "done"
    /\ ctl' = IF ret = "error" THEN "failed" ELSE "free"
    /\ UNCHANGED <<devVars, doorbell, allocated, mail, tpc, thrVars, ret,
                   mode, session, shouldStop, hidActive, out>>

\* ipts_resources_free.
StopFree ==
    /\ ctl = "free"
    /\ allocated' = FALSE
    /\ ctl' = "stopped"
    /\ UNCHANGED <<devVars, doorbell, mail, tpc, thrVars, ret,
                   mode, session, shouldStop, hidActive, out>>

\* The second half of a restart, which an EDS1 device does to change its mode
\* (ipts_eds1_switch_mode); the first mode of such a device is the event mode.
Restart ==
    /\ ctl = "stopped"
    /\ session < MaxSessions
    /\ Modes # {mode}
    /\ session = 1 => mode = "event"
    /\ session' = session + 1
    /\ ctl' = "starting"
    /\ UNCHANGED <<devVars, doorbell, allocated, mail, tpc, thrVars, ret,
                   mode, shouldStop, hidActive, out>>

Control ==
    \/ Start \/ StartRequest \/ StartEnable
    \/ StopDisable \/ StopSignal \/ StopJoin \/ StopFree \/ Restart

\* The stop is complete, or start or stop gave up, or the thread has died.
Finished == ctl \in {"stopped", "failed"} /\ UNCHANGED vars

Init ==
    /\ flow = "off" /\ cmds = {}
    /\ owner = [b \in Buffers |-> "me"]
    /\ frame = [b \in Buffers |-> NoFrame]
    /\ filled = 0 /\ fbq = {}
    /\ doorbell = 0 /\ allocated = FALSE
    /\ mail = [c \in Codes |-> <<>>]
    /\ tpc = "none" /\ lastdb = 0 /\ snapshot = 0 /\ round = 0 /\ buffer = 0
    /\ ret = "ok"
    /\ ctl = "starting" /\ session = 1
    /\ mode \in Modes
    /\ shouldStop = FALSE /\ hidActive = FALSE
    /\ out = NoFrame

Next == Device \/ Thread \/ Control \/ Finished

\* The kernel schedules the receiver thread, and the task that started a start
\* or a stop carries it through.  Nothing obliges anyone to stop the driver.
Fairness ==
    /\ WF_vars(Thread)
    /\ WF_vars(Start \/ StartRequest \/ StartEnable)
    /\ WF_vars(StopSignal \/ StopJoin \/ StopFree)

\* The firmware works off the commands it was sent.
DeviceFairness ==
    /\ \A b \in Buffers : WF_vars(Acknowledge(b))
    /\ WF_vars(Quiesce)
    /\ WF_vars(FlushDone)

Spec == Init /\ [][Next]_vars
FairSpec == Spec /\ Fairness
ResponsiveSpec == FairSpec /\ DeviceFairness

-----------------------------------------------------------------------------
(* Properties *)

\* Every variable has its type.
TypeOK ==
    /\ flow \in {"off", "on", "quiescing"}
    /\ cmds \subseteq {"READY_FOR_DATA", "QUIESCE_IO"}
    /\ owner \in [Buffers -> {"me", "host"}]
    /\ frame \in [Buffers -> Frames \cup {NoFrame}]
    /\ filled \in 0 .. (DoorbellMod - 1)
    /\ fbq \subseteq Buffers
    /\ doorbell \in 0 .. (DoorbellMod - 1)
    /\ allocated \in BOOLEAN
    /\ mail \in Mailboxes
    /\ tpc \in {"none", "top", "snap", "drain", "check", "take", "request", "input",
                "reading", "feedback", "fbwait", "flush", "waitdata", "waitflush", "done"}
    /\ lastdb \in 0 .. (DoorbellMod - 1)
    /\ snapshot \in 0 .. (DoorbellMod - 1)
    /\ round \in 0 .. NBuffers
    /\ buffer \in Buffers
    /\ ret \in {"ok", "flushed", "error"}
    /\ ctl \in {"starting", "request", "enable", "running", "signal", "join", "free",
                "stopped", "failed"}
    /\ mode \in Modes
    /\ session \in Nat
    /\ shouldStop \in BOOLEAN /\ hidActive \in BOOLEAN
    /\ out \in Frames \cup {NoFrame}

\* While the thread reads a buffer (ipts_hid_input_data), the device may neither
\* be writing to it nor have been told that it may.
ReadIsStable == tpc = "reading" => owner[buffer] = "host" /\ buffer \notin fbq

\* The first frame the thread has not handed on.  The poll loop moves lastdb
\* only after the acknowledgement, the event loop the doorbell before the read.
Base ==
    IF mode = "poll"
    THEN IF tpc \in {"feedback", "fbwait"} THEN Inc(lastdb) ELSE lastdb
    ELSE IF tpc \in {"input", "reading"} THEN (doorbell - 1) % DoorbellMod ELSE doorbell

Pending == Gap(Base, filled)

\* Where the loop variables make sense: the inductive core of TypeOK.
LoopInv ==
    /\ tpc \in {"snap", "drain", "check"} => mode = "poll"
    /\ tpc \in {"take", "request"} => mode = "event"
    /\ mode = "poll" => round = 0
    /\ tpc \in {"input", "reading", "feedback", "fbwait", "request"} => round < NBuffers

\* Poll mode: how far lastdb is behind the device, and the part of that which
\* the thread has already acknowledged.
Lag == Gap(lastdb, filled)
Acked == IF tpc = "fbwait" THEN 1 ELSE 0

\* The ring under the poll loop, strong enough to be inductive: what lies between
\* lastdb and the device belongs to the host and is not promised back, the ring
\* is never overrun, and the snapshot lies inside it.
PollRing ==
    /\ doorbell = filled
    /\ \A b \in fbq : owner[b] = "host"
    /\ \A i \in Acked .. (Lag - 1) :
         owner[Slot(lastdb + i)] = "host" /\ Slot(lastdb + i) \notin fbq
    /\ Lag <= NBuffers + Acked
    /\ tpc \in {"drain", "input", "reading", "feedback", "fbwait"} =>
         Gap(lastdb, snapshot) <= Lag
    /\ tpc \in {"input", "reading", "feedback", "fbwait"} =>
         /\ buffer = Slot(lastdb)
         /\ snapshot # lastdb

\* lastdb never falls behind the doorbell by more than the ring, or passes it,
\* and every buffer in between is the host's: PollRing, whenever the loop polls
\* (ipts_receiver_poll_loop).
RingInv == mode = "poll" => PollRing

\* The frames waiting in the ring, oldest first: what the channel holds.
Waiting == [k \in 1 .. Pending |-> frame[Slot(Base + (k - 1))]]

\* What becomes of a frame the thread has: there are no buffers before the start and
\* after the stop, and ipts_hid_input_data looks at a frame only while HID is active.
Phase == IF ~allocated THEN "closed" ELSE IF hidActive THEN "live" ELSE "muted"

Channel == INSTANCE FrameChannel WITH
    Capacity <- NBuffers,
    chan <- Waiting,
    phase <- Phase

\* The receiver implements the channel: frames reach the HID layer in the order
\* the device wrote them, each once, none skipped while the HID side is enabled,
\* and the ring never holds more than NBuffers of them, across doorbell wraps.
ImplementsChannel == Channel!Spec

\* A buffer is acknowledged only when it is the host's, and only once per fill:
\* a second FEEDBACK would give away a buffer with unread data in it.
AcknowledgedOnce ==
    [][tpc = "feedback" /\ tpc' = "fbwait" => owner[buffer] = "host" /\ buffer \notin fbq]_vars

\* The buffers are not freed under the thread.
FreedAfterExit == ~allocated => tpc \in {"none", "done"}

\* ipts_control_wait_flush returning 0 means that the data flow has stopped and
\* that the device holds every buffer.
FlushedMeansQuiet ==
    tpc = "done" /\ ret = "flushed" => flow = "off" /\ \A b \in Buffers : owner[b] = "me"

\* Once ipts_control_stop has returned, the device does not write to the buffers.
StopStopsFlow == ctl = "stopped" => flow # "on"

\* A buffer the device filled is handed on, unless the thread ends first.
Unread(b) == owner[b] = "host" /\ \E k \in 1 .. Pending : Slot(Base + (k - 1)) = b
EveryFrameIsRead == \A b \in Buffers : Unread(b) ~> (~Unread(b) \/ tpc = "done")

\* A stop ends, whatever the device does or fails to do.
StopTerminates == ctl = "join" ~> ctl \in {"stopped", "failed"}

\* With a device that answers in time, data keeps flowing: it is always going
\* to be possible for the device to fill its next buffer.
CanFill == flow = "on" /\ Outstanding /\ owner[Slot(filled)] = "me"
NeverStalls == ctl = "running" ~> (CanFill \/ ctl # "running")
=============================================================================
