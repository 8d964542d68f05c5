----------------------------- MODULE ResponseBox -----------------------------
(***************************************************************************)
(* What the MEI side of the IPTS driver promises to a receiver of          *)
(* responses: one box of unread responses per command, from which a        *)
(* receiver takes the newest in one step, or leaves empty-handed only when *)
(* the box is empty.  IptsReceiver treats the message list like this       *)
(* (Posted, Has, Taken); IptsMei implements it with a lock that is let go  *)
(* in the middle.                                                          *)
(***************************************************************************)
EXTENDS Integers

CONSTANTS
    Receivers,      \* the tasks that receive
    Codes,          \* command codes
    CodeOf,         \* the command each receiver waits for
    Responses,      \* what a response can be
    Stamps,         \* numbers that order the responses by their arrival
    Nothing         \* the outcome of leaving empty-handed

VARIABLES
    unread,         \* unread responses of each command, each with its stamp
    outcome         \* what each receiver got last

vars == <<unread, outcome>>

Init == unread = [c \in Codes |-> {}] /\ outcome = [r \in Receivers |-> Nothing]

\* A response arrives, after all that are in any box.
Post(c, q, n) ==
    /\ \A d \in Codes : \A m \in unread[d] : m.at < n
    /\ unread' = [unread EXCEPT ![c] = @ \cup {[at |-> n, what |-> q]}]
    /\ UNCHANGED outcome

Take(r) == \E m \in unread[CodeOf[r]] :
    /\ \A n \in unread[CodeOf[r]] : n.at <= m.at
    /\ outcome' = [outcome EXCEPT ![r] = m.what]
    /\ unread' = [unread EXCEPT ![CodeOf[r]] = @ \ {m}]

Leave(r) ==
    /\ unread[CodeOf[r]] = {}
    /\ outcome' = [outcome EXCEPT ![r] = Nothing]
    /\ UNCHANGED unread

Next ==
    \/ \E c \in Codes, q \in Responses, n \in Stamps : Post(c, q, n)
    \/ \E r \in Receivers : Take(r) \/ Leave(r)

Spec == Init /\ [][Next]_vars
=============================================================================
