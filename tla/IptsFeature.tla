----------------------------- MODULE IptsFeature -----------------------------
(***************************************************************************)
(* HID feature reports of newer (EDS2) devices: tasks in a HID request     *)
(* write a request into the one hid2me buffer and send FEEDBACK for it     *)
(* (eds2.c, control.c); the answer to a GET_FEATURES comes back in a data  *)
(* buffer, which the receiver thread points out to the waiting task and    *)
(* then gives back to the device (hid.c, receiver.c).                      *)
(*                                                                         *)
(* The device works off FEEDBACK commands in order, fills the data buffers *)
(* round robin, and answers a GET_FEATURES in the next buffer it fills.    *)
(* Contents are a request's number (its answer) or 0 (any other report).   *)
(* The driver is running throughout; IptsReceiver and IptsLifecycle model  *)
(* what happens when it is stopped.                                        *)
(***************************************************************************)
EXTENDS Integers, Sequences, FiniteSets

CONSTANTS
    Tasks,          \* tasks that may be in a HID request
    None,           \* no task, no buffer
    NBuffers,       \* IPTS_BUFFERS
    Kinds,          \* the requests made: a subset of {"get", "set"}
    Faults,         \* which failures are possible: a subset of FaultKinds
    MaxRequests,    \* bound: requests
    MaxUnread       \* bound: unread responses to FEEDBACK

FaultKinds == {"late",      \* an answer comes after the time limit, or never
               "send",      \* mei_cldev_send fails
               "status",    \* the device answers FEEDBACK with an error
               "size"}      \* a request or an answer is too large for its buffer

ASSUME FeatureAssumption ==
    /\ NBuffers \in Nat \ {0}
    /\ None \notin Tasks /\ None \notin Nat
    /\ Kinds \subseteq {"get", "set"}
    /\ Faults \subseteq FaultKinds
    /\ MaxRequests \in Nat
    /\ MaxUnread \in Nat \ {0}

Buffers == 0 .. (NBuffers - 1)
Hid2me == NBuffers              \* IPTS_HID2ME_BUFFER
Report == 0                     \* a content that answers no request

VARIABLES
    \* the device
    queue,          \* FEEDBACK commands it has not seen: buffer numbers
    owner,          \* who may touch each data buffer: "me" or "host"
    content,        \* what is in each data buffer
    fill,           \* the buffer that is filled next
    gets,           \* GET_FEATURES requests not answered
    \* the driver
    hid2me,         \* ipts->resources.hid2me: a get's number; a set has no answer
    unread,         \* number of unread responses to FEEDBACK
    lock,           \* who holds ipts->feature_lock
    event,          \* ipts->feature_event is complete
    report,         \* ipts->feature_report.address: the data buffer it points into
    \* the receiver thread
    rpc,            \* where the thread is
    cur,            \* the buffer it reads next
    rung,           \* buffers filled but not read: the doorbell minus lastdb
    \* the tasks
    pc,             \* where each task is
    req,            \* the number of its request
    kind,           \* "get" or "set"
    res,            \* how its request ended: "none" (not yet), "ok" or "error"
    got,            \* what a get copied: a content, or None
    \* history
    smooth          \* so far nothing was late or failed, and there were only gets

devVars == <<queue, owner, content, fill, gets>>
sharedVars == <<hid2me, unread, lock, event, report>>
thrVars == <<rpc, cur, rung>>
taskVars == <<pc, req, kind, res, got>>
vars == <<devVars, sharedVars, thrVars, taskVars, smooth>>

-----------------------------------------------------------------------------
(* Helpers *)

Requests == 1 .. MaxRequests

\* Something goes wrong in a way that is possible, or it does not.
Trouble(what) == what \in Faults /\ smooth' = FALSE
Fine == UNCHANGED smooth

Posted == IF unread < MaxUnread THEN unread + 1 ELSE unread

\* A wait for the response to FEEDBACK runs out only if there is none.
GivesUp == unread = 0 /\ (Trouble("late") \/ (queue = <<>> /\ Fine))

\* An answer is still under way to the task that waits for it.
AnswerComing ==
    \/ gets # {}
    \/ \E k \in DOMAIN queue : queue[k] = Hid2me
    \/ \E b \in Buffers : owner[b] = "host" /\ content[b] # Report
    \/ rpc = "complete"

Go(t, label) == pc' = [pc EXCEPT ![t] = label]

\* A request ends; what follows is the return to the HID core.
End(t, r) ==
    /\ res' = [res EXCEPT ![t] = r]
    /\ Go(t, "out")

Fail(t) == End(t, "error") /\ UNCHANGED got

-----------------------------------------------------------------------------
(* The device *)

\* FEEDBACK for the hid2me buffer: it runs the request that is in it now.
RunRequest ==
    /\ queue # <<>> /\ Head(queue) = Hid2me
    /\ queue' = Tail(queue)
    /\ unread' = Posted
    /\ gets' = gets \cup ({hid2me} \ {Report})
    /\ UNCHANGED <<owner, content, fill, hid2me, lock, event, report, thrVars, taskVars,
                   smooth>>

\* FEEDBACK for a data buffer: the buffer may be filled again.
Refill ==
    /\ queue # <<>> /\ Head(queue) # Hid2me
    /\ queue' = Tail(queue)
    /\ unread' = Posted
    /\ owner' = [owner EXCEPT ![Head(queue)] = "me"]
    /\ UNCHANGED <<content, fill, gets, hid2me, lock, event, report,
                   thrVars, taskVars, smooth>>

\* The next buffer is filled with the answer to a request or with a report.
Fill(c) ==
    /\ owner[fill] = "me"
    /\ c \in gets \cup {Report}
    /\ owner' = [owner EXCEPT ![fill] = "host"]
    /\ content' = [content EXCEPT ![fill] = c]
    /\ fill' = (fill + 1) % NBuffers
    /\ rung' = rung + 1
    /\ gets' = gets \ {c}
    /\ UNCHANGED <<queue, sharedVars, rpc, cur, taskVars, smooth>>

Device == RunRequest \/ Refill \/ \E c \in Requests \cup {Report} : Fill(c)

-----------------------------------------------------------------------------
(* The receiver thread *)

\* ipts_hid_input_data: an answer is pointed out where it lies ...
Input ==
    /\ rpc = "poll"
    /\ rung > 0
    /\ IF content[cur] # Report
       THEN rpc' = "complete" /\ report' = cur
       ELSE rpc' = "refill" /\ UNCHANGED report
    /\ UNCHANGED <<devVars, hid2me, unread, lock, event, cur, rung, taskVars, smooth>>

\* ... and whoever waits for it is woken up.
Complete ==
    /\ rpc = "complete"
    /\ event' = TRUE
    /\ rpc' = "refill"
    /\ UNCHANGED <<devVars, hid2me, unread, lock, report, cur, rung, taskVars, smooth>>

\* lastdb++.
NextBuffer ==
    /\ rpc' = "poll"
    /\ cur' = (cur + 1) % NBuffers
    /\ rung' = rung - 1

\* ipts_control_refill_buffer: the buffer goes back to the device ...
SendRefill ==
    /\ rpc = "refill"
    /\ \/ queue' = Append(queue, cur) /\ rpc' = "ack" /\ Fine /\ UNCHANGED <<cur, rung>>
       \/ Trouble("send") /\ NextBuffer /\ UNCHANGED queue
    /\ UNCHANGED <<owner, content, fill, gets, sharedVars, taskVars>>

\* ... and the thread waits for the response, any response to a FEEDBACK, with any
\* status: whether it is an error, and whether it comes, is only logged.
RecvRefill ==
    /\ rpc = "ack"
    /\ \/ unread > 0 /\ unread' = unread - 1 /\ Fine
       \/ GivesUp /\ UNCHANGED unread
    /\ NextBuffer
    /\ UNCHANGED <<devVars, hid2me, lock, event, report, taskVars>>

Receiver == Input \/ Complete \/ SendRefill \/ RecvRefill

-----------------------------------------------------------------------------
(* A task in a HID request *)

\* ipts_eds2_raw_request: the type of the request decides what is called.
Request(t, k) ==
    /\ pc[t] = "idle"
    /\ \E n \in Requests :
         /\ \A u \in Tasks : req[u] < n
         /\ \A m \in Requests : m < n => \E u \in Tasks : m <= req[u]
         /\ req' = [req EXCEPT ![t] = n]
    /\ kind' = [kind EXCEPT ![t] = k]
    /\ Go(t, IF k = "get" THEN "lock" ELSE "write")
    /\ smooth' = (smooth /\ k = "get")
    /\ UNCHANGED <<devVars, sharedVars, thrVars, res, got>>

\* Mutant: ipts_eds2_get_feature without the mutex.
LockNot(t) ==
    /\ pc[t] = "lock"
    /\ report' = None
    /\ event' = FALSE
    /\ Go(t, "write")
    /\ UNCHANGED <<devVars, hid2me, unread, lock, thrVars, req, kind, res, got, smooth>>

\* Mutant: the completion is not reset.
LockEventStays(t) ==
    /\ pc[t] = "lock"
    /\ lock = None
    /\ lock' = t
    /\ report' = None
    /\ Go(t, "write")
    /\ UNCHANGED <<devVars, hid2me, unread, event, thrVars, req, kind, res, got, smooth>>

\* ipts_eds2_get_feature takes the mutex and forgets the last answer.
Lock(t) ==
    /\ pc[t] = "lock"
    /\ lock = None
    /\ lock' = t
    /\ report' = None
    /\ event' = FALSE
    /\ Go(t, "write")
    /\ UNCHANGED <<devVars, hid2me, unread, thrVars, req, kind, res, got, smooth>>

\* ipts_control_hid2me_feedback: the request goes into the buffer.  Its size is
\* looked at only after the header was written.
Write(t) ==
    /\ pc[t] = "write"
    /\ hid2me' = IF kind[t] = "get" THEN req[t] ELSE Report
    /\ \/ Go(t, "send") /\ Fine /\ UNCHANGED <<res, got>>
       \/ Trouble("size") /\ Fail(t)
    /\ UNCHANGED <<devVars, unread, lock, event, report, thrVars, req, kind>>

\* ipts_control_send_feedback: the command is sent ...
Send(t) ==
    /\ pc[t] = "send"
    /\ \/ queue' = Append(queue, Hid2me) /\ Go(t, "recv") /\ Fine /\ UNCHANGED <<res, got>>
       \/ Trouble("send") /\ Fail(t) /\ UNCHANGED queue
    /\ UNCHANGED <<owner, content, fill, gets, sharedVars, thrVars, req, kind>>

\* ... and its response is waited for.  INVALID_PARAMS counts as success, any other
\* error ends the request.  That is all a set does.
Recv(t) ==
    /\ pc[t] = "recv"
    /\ \/ /\ unread > 0
          /\ unread' = unread - 1
          /\ \/ Trouble("status") /\ Fail(t)
             \/ /\ Fine
                /\ IF kind[t] = "get"
                   THEN Go(t, "wait") /\ UNCHANGED <<res, got>>
                   ELSE End(t, "ok") /\ UNCHANGED got
       \/ GivesUp /\ Fail(t) /\ UNCHANGED unread
    /\ UNCHANGED <<devVars, hid2me, lock, event, report, thrVars, req, kind>>

\* A get waits for the completion, 5000 ms at most.
Wait(t) ==
    /\ pc[t] = "wait"
    /\ \/ event /\ Go(t, "copy") /\ Fine /\ UNCHANGED <<res, got>>
       \/ ~event /\ (Trouble("late") \/ (~AnswerComing /\ Fine)) /\ Fail(t)
    /\ UNCHANGED <<devVars, sharedVars, thrVars, req, kind>>

\* It copies the answer from where it lies.
Copy(t) ==
    /\ pc[t] = "copy"
    /\ \/ report = None /\ Fail(t) /\ Fine
       \/ report # None /\ Trouble("size") /\ Fail(t)
       \/ /\ report # None
          /\ Fine
          /\ got' = [got EXCEPT ![t] = content[report]]
          /\ End(t, "ok")
    /\ UNCHANGED <<devVars, sharedVars, thrVars, req, kind>>

\* Mutant: a get that failed returns without a mutex_unlock.
OutLocked(t) ==
    /\ pc[t] = "out"
    /\ lock' = IF lock = t /\ res[t] = "ok" THEN None ELSE lock
    /\ Go(t, "idle")
    /\ kind' = [kind EXCEPT ![t] = "none"]
    /\ res' = [res EXCEPT ![t] = "none"]
    /\ got' = [got EXCEPT ![t] = None]
    /\ UNCHANGED <<devVars, hid2me, unread, event, report, thrVars, req, smooth>>

\* The request is over; every way out of a get unlocks the mutex.
Out(t) ==
    /\ pc[t] = "out"
    /\ lock' = IF kind[t] = "get" THEN None ELSE lock
    /\ Go(t, "idle")
    /\ kind' = [kind EXCEPT ![t] = "none"]
    /\ res' = [res EXCEPT ![t] = "none"]
    /\ got' = [got EXCEPT ![t] = None]
    /\ UNCHANGED <<devVars, hid2me, unread, event, report, thrVars, req, smooth>>

Step(t) ==
    \/ Lock(t) \/ Write(t) \/ Send(t) \/ Recv(t)
    \/ Wait(t) \/ Copy(t) \/ Out(t)

-----------------------------------------------------------------------------
(* The specification *)

Init ==
    /\ queue = <<>>
    /\ owner = [b \in Buffers |-> "me"]
    /\ content = [b \in Buffers |-> Report]
    /\ fill = 0 /\ gets = {}
    /\ hid2me = Report /\ unread = 0
    /\ lock = None /\ event = FALSE /\ report = None
    /\ rpc = "poll" /\ cur = 0 /\ rung = 0
    /\ pc = [t \in Tasks |-> "idle"]
    /\ req = [t \in Tasks |-> 0]
    /\ kind = [t \in Tasks |-> "none"]
    /\ res = [t \in Tasks |-> "none"]
    /\ got = [t \in Tasks |-> None]
    /\ smooth = TRUE

Next ==
    \/ Device
    \/ Receiver
    \/ \E t \in Tasks : Step(t) \/ \E k \in Kinds : Request(t, k)

Spec == Init /\ [][Next]_vars

-----------------------------------------------------------------------------
(* Properties *)

\* Every variable keeps its type.
TypeOK ==
    /\ queue \in Seq(Buffers \cup {Hid2me})
    /\ owner \in [Buffers -> {"me", "host"}]
    /\ content \in [Buffers -> Requests \cup {Report}]
    /\ fill \in Buffers
    /\ gets \subseteq Requests
    /\ hid2me \in Requests \cup {0}
    /\ unread \in 0 .. MaxUnread
    /\ lock \in Tasks \cup {None}
    /\ event \in BOOLEAN
    /\ report \in Buffers \cup {None}
    /\ rpc \in {"poll", "complete", "refill", "ack"}
    /\ cur \in Buffers
    /\ rung \in 0 .. NBuffers + 1
    /\ pc \in [Tasks -> {"idle", "lock", "write", "send", "recv", "wait",
                         "copy", "out"}]
    /\ req \in [Tasks -> Requests \cup {0}]
    /\ kind \in [Tasks -> {"get", "set", "none"}]
    /\ res \in [Tasks -> {"none", "ok", "error"}]
    /\ got \in [Tasks -> Requests \cup {Report, None}]
    /\ smooth \in BOOLEAN

\* As long as nothing is late or fails and there are only gets, a get hands on the
\* answer to its own request and to no other (spec-data.h:73, eds2.c:94); the
\* buffer may have been filled with a report that answers nobody by then.
NoForeignAnswer == smooth => \A t \in Tasks : got[t] \in {None, Report, req[t]}

\* As long as nothing is late or fails and there are only gets, no get fails: the
\* completion a task waits for is neither lost nor taken for an older one
\* (eds2.c:67-76, hid.c:163-166).
GetsSucceed == smooth => \A t \in Tasks : res[t] # "error"

\* The mutex is held by a task between lock and unlock, whichever way it fails,
\* and by that task alone (eds2.c:62-97).
LockHeldInside ==
    \A t \in Tasks : lock = t <=> kind[t] = "get" /\ pc[t] \notin {"idle", "lock"}
=============================================================================
