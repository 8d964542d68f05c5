------------------------------- MODULE IptsMei -------------------------------
(***************************************************************************)
(* The list of responses of the IPTS driver (src/src/ipts/mei.c) at the    *)
(* level of its locks: ipts_mei_search looks for an entry under the read   *)
(* lock, lets the lock go, takes it again to unlink the entry, and then    *)
(* copies and frees it.  Any number of tasks receive: the receiver thread, *)
(* the task that starts or stops the driver, and tasks in a HID request.   *)
(*                                                                         *)
(* Requests and list entries are numbered in the order of their creation,  *)
(* so the list, which grows at its head, is a set of numbers whose largest *)
(* comes first.                                                            *)
(***************************************************************************)
EXTENDS Integers, Sequences, FiniteSets

CONSTANTS
    Receivers,      \* tasks that send commands and receive the responses
    Codes,          \* command codes
    CodeOf,         \* the command each task sends and waits for
    Late,           \* tasks whose response can take longer than the 1000 ms they wait
    MaxRequests     \* bound: commands sent

ASSUME MeiAssumption ==
    /\ CodeOf \in [Receivers -> Codes]
    /\ Late \subseteq Receivers
    /\ MaxRequests \in Nat

None == 0
Requests == 1 .. MaxRequests

VARIABLES
    asker,          \* the task that sent each request, in order
    pending,        \* requests the device has not answered
    answers,        \* the request each list entry answers, in order of arrival
    listed,         \* entries on mei->messages
    freed,          \* entries given back with devm_kfree
    pc,             \* where each task is
    want,           \* ghost: the request each task waits for
    last,           \* the wait of each task is over after this search
    woken,          \* wake_up_all since the task prepared to wait
    held,           \* local entry of ipts_mei_search
    got             \* the response each task received last

sendVars == <<asker, pending, want>>
listVars == <<answers, listed, freed>>
vars == <<sendVars, listVars, pc, last, woken, held, got>>

Entries == 1 .. Len(answers)
EntryCode(e) == CodeOf[asker[answers[e]]]

\* What list_for_each_entry stops at: the first entry, and so the newest, that
\* carries the code.
Matches(c) == {e \in listed : EntryCode(e) = c}
FirstOf(S) == {e \in S : \A d \in S : d <= e}

-----------------------------------------------------------------------------
(* ipts_mei_send, and the device *)

\* A task sends a command once it is done with its previous one.
Send(r) ==
    /\ pc[r] = "idle"
    /\ want[r] = None
    /\ Len(asker) < MaxRequests
    /\ asker' = Append(asker, r)
    /\ pending' = pending \cup {Len(asker')}
    /\ want' = [want EXCEPT ![r] = Len(asker')]
    /\ UNCHANGED <<listVars, pc, last, woken, held, got>>

\* Mutant: no one is woken.
IncomingSilent(q) ==
    /\ q \in pending
    /\ pending' = pending \ {q}
    /\ answers' = Append(answers, q)
    /\ listed' = listed \cup {Len(answers')}
    /\ UNCHANGED <<asker, want, freed, pc, last, woken, held, got>>

\* The device answers, commands in any order, and ipts_mei_incoming puts the
\* response at the head of the list and wakes everyone up.
Incoming(q) ==
    /\ q \in pending
    /\ pending' = pending \ {q}
    /\ answers' = Append(answers, q)
    /\ listed' = listed \cup {Len(answers')}
    /\ woken' = [r \in Receivers |-> TRUE]
    /\ UNCHANGED <<asker, want, freed, pc, last, held, got>>

-----------------------------------------------------------------------------
(* ipts_mei_recv *)

\* The wait is prepared before the first search.  A timeout of 0 searches once.
Begin(r) ==
    /\ pc[r] = "idle"
    /\ want[r] # None
    /\ pc' = [pc EXCEPT ![r] = "search"]
    /\ last' = [last EXCEPT ![r] = TRUE] \/ last' = [last EXCEPT ![r] = FALSE]
    /\ woken' = [woken EXCEPT ![r] = FALSE]
    /\ UNCHANGED <<sendVars, listVars, held, got>>

\* Mutant: the code of the entry is not compared.
SearchAny(r) ==
    /\ pc[r] = "search"
    /\ \/ \E e \in FirstOf(listed) :
            /\ held' = [held EXCEPT ![r] = e]
            /\ pc' = [pc EXCEPT ![r] = "found"]
            /\ UNCHANGED got
       \/ /\ listed = {}
          /\ pc' = [pc EXCEPT ![r] = IF last[r] THEN "idle" ELSE "asleep"]
          /\ got' = IF last[r] THEN [got EXCEPT ![r] = None] ELSE got
          /\ UNCHANGED held
    /\ UNCHANGED <<sendVars, listVars, last, woken>>

\* Mutant: the oldest entry is taken.
SearchOldest(r) ==
    /\ pc[r] = "search"
    /\ LET M == Matches(CodeOf[r]) IN
       \/ \E e \in M :
            /\ \A d \in M : e <= d
            /\ held' = [held EXCEPT ![r] = e]
            /\ pc' = [pc EXCEPT ![r] = "found"]
            /\ UNCHANGED got
       \/ /\ M = {}
          /\ pc' = [pc EXCEPT ![r] = IF last[r] THEN "idle" ELSE "asleep"]
          /\ got' = IF last[r] THEN [got EXCEPT ![r] = None] ELSE got
          /\ UNCHANGED held
    /\ UNCHANGED <<sendVars, listVars, last, woken>>

\* ipts_mei_search under the read lock.
Search(r) ==
    /\ pc[r] = "search"
    /\ \/ \E e \in FirstOf(Matches(CodeOf[r])) :
            /\ held' = [held EXCEPT ![r] = e]
            /\ pc' = [pc EXCEPT ![r] = "found"]
            /\ UNCHANGED got
       \/ /\ Matches(CodeOf[r]) = {}
          /\ pc' = [pc EXCEPT ![r] = IF last[r] THEN "idle" ELSE "asleep"]
          /\ got' = IF last[r] THEN [got EXCEPT ![r] = None] ELSE got
          /\ UNCHANGED held
    /\ UNCHANGED <<sendVars, listVars, last, woken>>

\* wake_up_all ends the sleep: the wait is prepared again, and the list searched.
Wake(r) ==
    /\ pc[r] = "asleep"
    /\ woken[r]
    /\ woken' = [woken EXCEPT ![r] = FALSE]
    /\ pc' = [pc EXCEPT ![r] = "search"]
    /\ UNCHANGED <<sendVars, listVars, last, held, got>>

\* The time is up: one more search.
Expire(r) ==
    /\ r \in Late
    /\ pc[r] = "asleep"
    /\ last' = [last EXCEPT ![r] = TRUE]
    /\ pc' = [pc EXCEPT ![r] = "search"]
    /\ UNCHANGED <<sendVars, listVars, woken, held, got>>

\* Mutant: the search starts over when the lock was let go.
UnlinkRetries(r) ==
    /\ pc[r] = "found"
    /\ pc' = [pc EXCEPT ![r] = "search"]
    /\ UNCHANGED <<sendVars, listVars, last, woken, held, got>>

\* locked_list_del, under the write lock.
Unlink(r) ==
    /\ pc[r] = "found"
    /\ listed' = listed \ {held[r]}
    /\ pc' = [pc EXCEPT ![r] = "unlinked"]
    /\ UNCHANGED <<sendVars, answers, freed, last, woken, held, got>>

\* The response is copied and the entry freed.
Deliver(r) ==
    /\ pc[r] = "unlinked"
    /\ got' = [got EXCEPT ![r] = answers[held[r]]]
    /\ freed' = freed \cup {held[r]}
    /\ held' = [held EXCEPT ![r] = None]
    /\ want' = [want EXCEPT ![r] = None]
    /\ pc' = [pc EXCEPT ![r] = "idle"]
    /\ UNCHANGED <<asker, pending, answers, listed, last, woken>>

\* The caller of a wait that ran out does not ask for that response again; one
\* that only looked (a timeout of 0) does.
Forget(r) ==
    /\ pc[r] = "idle"
    /\ last[r]
    /\ want[r] # None
    /\ r \in Late
    /\ want' = [want EXCEPT ![r] = None]
    /\ UNCHANGED <<asker, pending, listVars, pc, last, woken, held, got>>

\* Every command is answered and every answer received.
Done ==
    /\ Len(asker) = MaxRequests
    /\ pending = {}
    /\ \A r \in Receivers : pc[r] = "idle" /\ want[r] = None
    /\ UNCHANGED vars

Init ==
    /\ asker = <<>> /\ pending = {} /\ want = [r \in Receivers |-> None]
    /\ answers = <<>> /\ listed = {} /\ freed = {}
    /\ pc = [r \in Receivers |-> "idle"]
    /\ last = [r \in Receivers |-> FALSE]
    /\ woken = [r \in Receivers |-> FALSE]
    /\ held = [r \in Receivers |-> None]
    /\ got = [r \in Receivers |-> None]

Receive(r) == Begin(r) \/ Search(r) \/ Wake(r) \/ Unlink(r) \/ Deliver(r)

Next ==
    \/ \E r \in Receivers : Send(r) \/ Receive(r) \/ Expire(r) \/ Forget(r)
    \/ \E q \in Requests : Incoming(q)
    \/ Done

Spec == Init /\ [][Next]_vars

\* A task that sent a command goes on to receive the response.
FairSpec == Spec /\ \A r \in Receivers : WF_vars(Receive(r))

-----------------------------------------------------------------------------
(* Properties *)

\* Every variable has its type.
TypeOK ==
    /\ asker \in Seq(Receivers) /\ Len(asker) <= MaxRequests
    /\ answers \in Seq(1 .. Len(asker))
    /\ pending \subseteq 1 .. Len(asker)
    /\ listed \subseteq Entries
    /\ freed \subseteq Entries
    /\ pc \in [Receivers -> {"idle", "search", "asleep", "found", "unlinked"}]
    /\ want \in [Receivers -> 0 .. Len(asker)]
    /\ last \in [Receivers -> BOOLEAN]
    /\ woken \in [Receivers -> BOOLEAN]
    /\ held \in [Receivers -> 0 .. Len(answers)]
    /\ got \in [Receivers -> 0 .. Len(asker)]

Holds(r) == pc[r] \in {"found", "unlinked"}

\* Between the search and the copy an entry is in the hands of one task: it is
\* still on the list when it is unlinked, and not freed before it is copied.
HeldByOne ==
    \A r \in Receivers :
      /\ pc[r] = "found" => held[r] \in listed
      /\ Holds(r) => held[r] \notin freed
      /\ \A s \in Receivers : Holds(r) /\ Holds(s) /\ held[r] = held[s] => r = s

\* A response that arrived is on the list, in the hands of a task, or was
\* received: none is lost, and none is freed while it is on the list.
NoneLost ==
    /\ Entries = listed \cup freed \cup {held[r] : r \in {s \in Receivers : Holds(s)}}
    /\ listed \cap freed = {}

\* A response stays on the list only while its task waits for it, unless that task
\* has given up before it came: nothing else makes the list, which has no limit and is
\* not cleared by a restart, grow (mei.c:55).
OnlyLateLeftovers ==
    \A e \in listed :
      LET q == answers[e] IN asker[q] \in Late \/ want[asker[q]] = q

\* No task sleeps through the arrival of its response.
NoLostWakeup ==
    \A r \in Receivers : pc[r] = "asleep" /\ Matches(CodeOf[r]) # {} => woken[r]

\* What a task receives is the answer to what it sent, as long as no earlier
\* wait of its own has run out: waits of other tasks do no harm
\* (ipts_mei_search, which matches by command).
OwnAnswer ==
    [][\A r \in Receivers \ Late : pc[r] = "unlinked" /\ pc'[r] = "idle" => got'[r] = want[r]]_vars

\* A task whose command was answered in time receives the answer.
AnswerReceived ==
    \A r \in Receivers \ Late :
      want[r] # None /\ want[r] \notin pending ~> want[r] = None

-----------------------------------------------------------------------------
(* The promise *)

\* The unread responses of a command: the list without the entries found.
UnreadEntries(c) ==
    {e \in Matches(c) : \A r \in Receivers : ~(pc[r] = "found" /\ held[r] = e)}

\* A box per command, and each task's outcome from the moment it finds an entry.
Boxes == [c \in Codes |-> {[at |-> e, what |-> answers[e]] : e \in UnreadEntries(c)}]
Outcomes == [r \in Receivers |-> IF Holds(r) THEN answers[held[r]] ELSE got[r]]

Box == INSTANCE ResponseBox WITH
    Responses <- Requests, Stamps <- Requests, Nothing <- None,
    unread <- Boxes, outcome <- Outcomes

\* With one receiver per command, the list acts like a box per command that is
\* read in one step: letting the lock go in the middle (mei.c:88-106) cannot be noticed.
ImplementsBox == Box!Spec
=============================================================================
