---------------------------- MODULE IptsMeiProofs ----------------------------
(***************************************************************************)
(* What the message list of the IPTS driver guarantees for any number of   *)
(* tasks and responses, as long as no two tasks wait for the same command. *)
(***************************************************************************)
EXTENDS IptsMei, FiniteSetTheorems, TLAPS

\* A task that holds an entry holds one that arrived.
HeldType == \A r \in Receivers : Holds(r) => held[r] \in Entries

TypeInv == TypeOK /\ HeldType

LEMMA TypeInit == Init => TypeInv
    BY MeiAssumption DEF Init, TypeInv, TypeOK, HeldType, Holds, Entries, None

\* Appending to one of the logs.
LEMMA LogGrows ==
    ASSUME NEW S, NEW log \in Seq(S), NEW x \in S
    PROVE  /\ Append(log, x) \in Seq(S)
           /\ Len(log) \in Nat
           /\ Len(Append(log, x)) = Len(log) + 1
           /\ 0 .. Len(log) \subseteq 0 .. (Len(log) + 1)
           /\ 1 .. Len(log) \subseteq 1 .. (Len(log) + 1)
           /\ 1 .. Len(log) \subseteq 0 .. Len(log)
           /\ Len(log) + 1 \in 1 .. (Len(log) + 1)
           /\ Len(log) + 1 \in 0 .. (Len(log) + 1)
           /\ 0 \in 0 .. Len(log)
           /\ \A i \in 1 .. Len(log) : log[i] \in S /\ Append(log, x)[i] = log[i]
           /\ Append(log, x)[Len(log) + 1] = x
    <1>1. Append(log, x) \in Seq(S) /\ Len(log) \in Nat /\ Len(Append(log, x)) = Len(log) + 1
        OBVIOUS
    <1>2. \A i \in 1 .. Len(log) : log[i] \in S /\ Append(log, x)[i] = log[i]
        OBVIOUS
    <1>3. Append(log, x)[Len(log) + 1] = x
        BY <1>1
    <1> QED BY <1>1, <1>2, <1>3

LEMMA TypeStep == TypeInv /\ [Next]_vars => TypeInv'
    <1> SUFFICES ASSUME TypeInv, [Next]_vars PROVE TypeInv'
        OBVIOUS
    <1> USE MeiAssumption DEF TypeInv, HeldType, Holds
    <1>l. /\ Len(asker) \in Nat /\ Len(answers) \in Nat
          /\ 0 \in 0 .. Len(asker) /\ 0 \in 0 .. Len(answers)
        BY DEF TypeOK
    <1>n. 1 .. Len(asker) \subseteq 0 .. Len(asker) /\ Entries \subseteq 0 .. Len(answers)
        BY <1>l DEF Entries
    <1>1. ASSUME NEW r \in Receivers, Send(r) PROVE TypeInv'
        <2>1. /\ asker' = Append(asker, r)
              /\ pending' = pending \cup {Len(asker')}
              /\ want' = [want EXCEPT ![r] = Len(asker')]
              /\ UNCHANGED <<answers, listed, freed, pc, last, woken, held, got>>
              /\ Len(asker) < MaxRequests
            BY <1>1 DEF Send, listVars
        <2>2. /\ asker' \in Seq(Receivers)
              /\ Len(asker') = Len(asker) + 1
              /\ 0 .. Len(asker) \subseteq 0 .. Len(asker')
              /\ 1 .. Len(asker) \subseteq 1 .. Len(asker')
              /\ Len(asker') \in 1 .. Len(asker')
              /\ Len(asker') \in 0 .. Len(asker')
            <3>1. asker \in Seq(Receivers)
                BY DEF TypeOK
            <3> QED BY <2>1, <3>1, LogGrows
        <2>3. answers' \in Seq(1 .. Len(asker'))
            <3> DEFINE A == 1 .. Len(asker)
                       B == 1 .. Len(asker')
            <3>1. answers \in Seq(A) /\ A \subseteq B
                BY <2>2 DEF TypeOK
            <3> HIDE DEF A, B
            <3>2. answers \in Seq(B)
                BY <3>1
            <3> QED BY <2>1, <3>2 DEF B
        <2>4. pending' \subseteq 1 .. Len(asker')
            BY <2>1, <2>2 DEF TypeOK
        <2>5. want' \in [Receivers -> 0 .. Len(asker')]
            <3> DEFINE A == 0 .. Len(asker)
                       B == 0 .. Len(asker')
            <3>1. want \in [Receivers -> A] /\ A \subseteq B /\ Len(asker') \in B
                BY <2>2 DEF TypeOK
            <3> HIDE DEF A, B
            <3>2. want' \in [Receivers -> B]
                BY <2>1, <3>1
            <3> QED BY <3>2 DEF B
        <2>6. got' \in [Receivers -> 0 .. Len(asker')]
            <3> DEFINE A == 0 .. Len(asker)
                       B == 0 .. Len(asker')
            <3>1. got \in [Receivers -> A] /\ A \subseteq B
                BY <2>2 DEF TypeOK
            <3> HIDE DEF A, B
            <3>2. got' \in [Receivers -> B]
                BY <2>1, <3>1
            <3> QED BY <3>2 DEF B
        <2>7. Len(asker') <= MaxRequests
            BY <1>l, <2>1, <2>2
        <2> QED BY <2>1, <2>2, <2>3, <2>4, <2>5, <2>6, <2>7 DEF TypeOK, Entries
    <1>2. ASSUME NEW q \in Requests, Incoming(q) PROVE TypeInv'
        <2>1. /\ q \in pending
              /\ answers' = Append(answers, q)
              /\ pending' = pending \ {q}
              /\ listed' = listed \cup {Len(answers')}
              /\ woken' = [r \in Receivers |-> TRUE]
              /\ UNCHANGED <<asker, want, freed, pc, last, held, got>>
            BY <1>2 DEF Incoming
        <2>2. /\ answers' \in Seq(1 .. Len(asker))
              /\ Entries \subseteq Entries'
              /\ 0 .. Len(answers) \subseteq 0 .. Len(answers')
              /\ Len(answers') \in Entries'
            <3> DEFINE A == 1 .. Len(asker)
            <3>1. answers \in Seq(A) /\ q \in A
                BY <2>1 DEF TypeOK
            <3> HIDE DEF A
            <3>2. /\ answers' \in Seq(A)
                  /\ Len(answers') = Len(answers) + 1
                  /\ 1 .. Len(answers) \subseteq 1 .. (Len(answers) + 1)
                  /\ 0 .. Len(answers) \subseteq 0 .. (Len(answers) + 1)
                  /\ Len(answers) + 1 \in 1 .. (Len(answers) + 1)
                BY <2>1, <3>1, LogGrows
            <3> QED BY <3>2 DEF A, Entries
        <2>3. held' \in [Receivers -> 0 .. Len(answers')]
            <3> DEFINE A == 0 .. Len(answers)
                       B == 0 .. Len(answers')
            <3>1. held \in [Receivers -> A] /\ A \subseteq B
                BY <2>2 DEF TypeOK
            <3> HIDE DEF A, B
            <3>2. held' \in [Receivers -> B]
                BY <2>1, <3>1
            <3> QED BY <3>2 DEF B
        <2>4. woken' \in [Receivers -> BOOLEAN]
            BY <2>1, Zenon
        <2> QED BY <2>1, <2>2, <2>3, <2>4 DEF TypeOK
    <1>3. ASSUME NEW r \in Receivers, Begin(r) PROVE TypeInv'
        <2>1. last' \in [Receivers -> BOOLEAN] /\ woken' \in [Receivers -> BOOLEAN]
            BY <1>3, Zenon DEF Begin, TypeOK
        <2> QED BY <1>3, <2>1 DEF Begin, TypeOK, Entries, sendVars, listVars
    <1>4. ASSUME NEW r \in Receivers, Search(r) PROVE TypeInv'
        <2>1. UNCHANGED held \/ \E e \in Entries : held' = [held EXCEPT ![r] = e]
            BY <1>4 DEF Search, FirstOf, Matches, TypeOK
        <2>2. held' \in [Receivers -> 0 .. Len(answers)]
            <3> DEFINE A == 0 .. Len(answers)
            <3>1. held \in [Receivers -> A] /\ Entries \subseteq A
                BY <1>n DEF TypeOK
            <3> HIDE DEF A
            <3>2. held' \in [Receivers -> A]
                BY <2>1, <3>1
            <3> QED BY <3>2 DEF A
        <2>3. pc' \in [Receivers -> {"idle", "search", "asleep", "found", "unlinked"}]
            BY <1>4 DEF Search, TypeOK
        <2>4. got' \in [Receivers -> 0 .. Len(asker)]
            <3> DEFINE A == 0 .. Len(asker)
            <3>1. got \in [Receivers -> A] /\ None \in A
                BY <1>l DEF TypeOK, None
            <3> HIDE DEF A
            <3>2. got' \in [Receivers -> A]
                BY <1>4, <3>1 DEF Search
            <3> QED BY <3>2 DEF A
        <2>5. \A s \in Receivers : Holds(s)' => held'[s] \in Entries
            <3>1. CASE \E e \in FirstOf(Matches(CodeOf[r])) :
                         held' = [held EXCEPT ![r] = e] /\ pc' = [pc EXCEPT ![r] = "found"]
                BY <3>1 DEF FirstOf, Matches, TypeOK
            <3>2. CASE /\ pc' = [pc EXCEPT ![r] = IF last[r] THEN "idle" ELSE "asleep"]
                       /\ UNCHANGED held
                BY <3>2 DEF TypeOK
            <3> QED BY <1>4, <3>1, <3>2 DEF Search
        <2> QED BY <1>4, <2>2, <2>3, <2>4, <2>5 DEF Search, TypeOK, Entries, sendVars, listVars
    <1>5. ASSUME NEW r \in Receivers, Wake(r) PROVE TypeInv'
        <2>1. woken' \in [Receivers -> BOOLEAN]
            BY <1>5, Zenon DEF Wake, TypeOK
        <2> QED BY <1>5, <2>1 DEF Wake, TypeOK, Entries, sendVars, listVars
    <1>6. ASSUME NEW r \in Receivers, Expire(r) PROVE TypeInv'
        <2>1. last' \in [Receivers -> BOOLEAN]
            BY <1>6, Zenon DEF Expire, TypeOK
        <2> QED BY <1>6, <2>1 DEF Expire, TypeOK, Entries, sendVars, listVars
    <1>7. ASSUME NEW r \in Receivers, Unlink(r) PROVE TypeInv'
        BY <1>7 DEF Unlink, TypeOK, Entries, sendVars
    <1>8. ASSUME NEW r \in Receivers, Deliver(r) PROVE TypeInv'
        <2>1. held[r] \in Entries /\ held[r] \in 1 .. Len(answers)
            BY <1>8 DEF Deliver, Entries
        <2>2. answers[held[r]] \in 1 .. Len(asker)
            <3> DEFINE A == 1 .. Len(asker)
            <3>1. answers \in Seq(A)
                BY DEF TypeOK
            <3> HIDE DEF A
            <3>2. answers[held[r]] \in A
                BY <2>1, <3>1
            <3> QED BY <3>2 DEF A
        <2>3. got' \in [Receivers -> 0 .. Len(asker)] /\ want' \in [Receivers -> 0 .. Len(asker)]
            <3> DEFINE A == 0 .. Len(asker)
            <3>1. /\ got \in [Receivers -> A] /\ want \in [Receivers -> A]
                  /\ None \in A /\ answers[held[r]] \in A
                BY <1>l, <1>n, <2>2 DEF TypeOK, None
            <3> HIDE DEF A
            <3>2. got' \in [Receivers -> A] /\ want' \in [Receivers -> A]
                BY <1>8, <3>1 DEF Deliver
            <3> QED BY <3>2 DEF A
        <2>4. held' \in [Receivers -> 0 .. Len(answers)]
            <3> DEFINE A == 0 .. Len(answers)
            <3>1. held \in [Receivers -> A] /\ None \in A
                BY <1>l DEF TypeOK, None
            <3> HIDE DEF A
            <3>2. held' \in [Receivers -> A]
                BY <1>8, <3>1 DEF Deliver
            <3> QED BY <3>2 DEF A
        <2>5. \A s \in Receivers : Holds(s)' => held'[s] \in Entries
            BY <1>8 DEF Deliver, TypeOK
        <2> QED BY <1>8, <2>1, <2>3, <2>4, <2>5 DEF Deliver, TypeOK, Entries
    <1>9. ASSUME NEW r \in Receivers, Forget(r) PROVE TypeInv'
        <2>1. want' \in [Receivers -> 0 .. Len(asker)]
            <3> DEFINE A == 0 .. Len(asker)
            <3>1. want \in [Receivers -> A] /\ None \in A
                BY <1>l DEF TypeOK, None
            <3> HIDE DEF A
            <3>2. want' \in [Receivers -> A]
                BY <1>9, <3>1 DEF Forget
            <3> QED BY <3>2 DEF A
        <2> QED BY <1>9, <2>1 DEF Forget, TypeOK, Entries, listVars
    <1>10. CASE UNCHANGED vars \/ Done
        BY <1>10 DEF vars, Done, TypeOK, Entries, sendVars, listVars
    <1> QED
        BY <1>1, <1>2, <1>3, <1>4, <1>5, <1>6, <1>7, <1>8, <1>9, <1>10 DEF Next, Receive

\* Every variable has its type in every reachable state: no task holds, and no
\* response answers, anything that does not exist.
THEOREM TypeCorrect == Spec => []TypeOK
    <1>1. Spec => []TypeInv
        BY TypeInit, TypeStep, PTL DEF Spec
    <1> QED BY <1>1, PTL DEF TypeInv

-----------------------------------------------------------------------------
(* Entries in the hands of one task *)

\* No two tasks wait for the same command.
OneReceiver == \A r, s \in Receivers : CodeOf[r] = CodeOf[s] => r = s

ListInv ==
    /\ HeldByOne
    /\ \A r \in Receivers : Holds(r) => EntryCode(held[r]) = CodeOf[r]
    /\ \A r \in Receivers : pc[r] = "unlinked" => held[r] \notin listed
    /\ NoneLost

\* The logs only grow: what an entry answers does not change.
LEMMA CodesKept ==
    ASSUME TypeInv, [Next]_vars
    PROVE  \A e \in Entries : e \in Entries' /\ EntryCode(e)' = EntryCode(e)
    <1>t. asker \in Seq(Receivers) /\ answers \in Seq(1 .. Len(asker))
        BY DEF TypeInv, TypeOK
    <1>0. ASSUME NEW e \in Entries
          PROVE  e \in 1 .. Len(answers) /\ answers[e] \in 1 .. Len(asker)
        <2> DEFINE A == 1 .. Len(asker)
        <2>1. answers \in Seq(A)
            BY <1>t
        <2> HIDE DEF A
        <2>2. e \in 1 .. Len(answers) /\ answers[e] \in A
            BY <2>1 DEF Entries
        <2> QED BY <2>2 DEF A
    <1>1. ASSUME NEW r \in Receivers, Send(r), NEW e \in Entries
          PROVE  e \in Entries' /\ EntryCode(e)' = EntryCode(e)
        <2>1. asker' = Append(asker, r) /\ answers' = answers
            BY <1>1 DEF Send, listVars
        <2>2. asker'[answers[e]] = asker[answers[e]]
            BY <1>0, <1>1, <1>t, <2>1, LogGrows
        <2> QED BY <1>1, <2>1, <2>2 DEF EntryCode, Entries
    <1>2. ASSUME NEW q \in Requests, Incoming(q), NEW e \in Entries
          PROVE  e \in Entries' /\ EntryCode(e)' = EntryCode(e)
        <2> DEFINE A == 1 .. Len(asker)
        <2>1. answers' = Append(answers, q) /\ asker' = asker /\ q \in A
            BY <1>2 DEF Incoming, TypeInv, TypeOK
        <2>2. answers \in Seq(A) /\ e \in 1 .. Len(answers)
            BY <1>0, <1>2, <1>t
        <2> HIDE DEF A
        <2>3. answers'[e] = answers[e] /\ e \in 1 .. Len(answers')
            BY <2>1, <2>2, LogGrows
        <2> QED BY <2>1, <2>3 DEF EntryCode, Entries
    <1>3. ASSUME UNCHANGED <<asker, answers>>
          PROVE  \A e \in Entries : e \in Entries' /\ EntryCode(e)' = EntryCode(e)
        BY <1>3 DEF EntryCode, Entries
    <1>4. \/ \E r \in Receivers : Send(r)
          \/ \E q \in Requests : Incoming(q)
          \/ UNCHANGED <<asker, answers>>
        BY DEF Next, Receive, Begin, Search, Wake, Expire, Unlink, Deliver, Forget, Done, vars,
               sendVars, listVars
    <1> QED BY <1>1, <1>2, <1>3, <1>4

LEMMA ListInit == Init => ListInv
    <1> SUFFICES ASSUME Init PROVE ListInv
        OBVIOUS
    <1>1. Entries = {}
        BY DEF Init, Entries
    <1>2. \A r \in Receivers : pc[r] = "idle"
        BY DEF Init
    <1>3. NoneLost
        BY <1>1, <1>2 DEF NoneLost, Holds, Init
    <1> QED BY <1>2, <1>3 DEF ListInv, HeldByOne, Holds

LEMMA ListStep ==
    ASSUME OneReceiver, TypeInv, ListInv, [Next]_vars
    PROVE  ListInv'
    <1> USE DEF HeldByOne, Holds
    <1>k. \A e \in Entries : e \in Entries' /\ EntryCode(e)' = EntryCode(e)
        BY CodesKept
    <1>h. \A r \in Receivers : Holds(r) => held[r] \in Entries
        BY DEF TypeInv, HeldType
    <1>p. /\ pc \in [Receivers -> {"idle", "search", "asleep", "found", "unlinked"}]
          /\ held \in [Receivers -> 0 .. Len(answers)]
          /\ listed \subseteq Entries /\ freed \subseteq Entries
        BY DEF TypeInv, TypeOK
    <1>1. ASSUME UNCHANGED <<listed, freed, answers, held>>,
                 \A r \in Receivers : pc[r] # pc'[r] => ~Holds(r) /\ ~Holds(r)'
          PROVE  ListInv'
        <2>1. \A r \in Receivers : Holds(r)' <=> Holds(r)
            BY <1>1
        <2>2. {r \in Receivers : Holds(r)'} = {r \in Receivers : Holds(r)}
            BY <2>1
        <2>3. NoneLost'
            BY <1>1, <2>2 DEF ListInv, NoneLost, Entries
        <2> QED BY <1>1, <1>h, <1>k, <2>1, <2>3 DEF ListInv
    <1>2. ASSUME NEW q \in Requests, Incoming(q) PROVE ListInv'
        <2>1. /\ UNCHANGED <<freed, pc, held>>
              /\ listed' = listed \cup {Len(answers')}
            BY <1>2 DEF Incoming
        <2>2. Len(answers') = Len(answers) + 1 /\ Len(answers) \in Nat
            <3> DEFINE A == 1 .. Len(asker)
            <3>1. answers \in Seq(A) /\ q \in A /\ answers' = Append(answers, q)
                BY <1>2 DEF Incoming, TypeInv, TypeOK
            <3> HIDE DEF A
            <3> QED BY <3>1
        <2>3. Len(answers') \notin Entries /\ Entries' = Entries \cup {Len(answers')}
            BY <2>2 DEF Entries
        <2>4. NoneLost'
            BY <1>p, <2>1, <2>3 DEF ListInv, NoneLost
        <2> QED BY <1>h, <1>k, <2>1, <2>3, <2>4 DEF ListInv
    <1>3. ASSUME NEW r \in Receivers, Search(r) PROVE ListInv'
        <2>1. CASE \E e \in FirstOf(Matches(CodeOf[r])) :
                     held' = [held EXCEPT ![r] = e] /\ pc' = [pc EXCEPT ![r] = "found"]
            <3>1. PICK e \in listed :
                    /\ EntryCode(e) = CodeOf[r]
                    /\ held' = [held EXCEPT ![r] = e]
                    /\ pc' = [pc EXCEPT ![r] = "found"]
                BY <2>1 DEF FirstOf, Matches
            <3>2. /\ UNCHANGED <<listed, freed, answers>>
                  /\ pc[r] = "search"
                  /\ e \notin freed /\ e \in Entries
                BY <1>3, <1>p DEF Search, listVars, ListInv, NoneLost
            <3>3. \A s \in Receivers : s # r =>
                    held'[s] = held[s] /\ pc'[s] = pc[s] /\ (Holds(s) => held[s] # e)
                BY <1>p, <3>1 DEF ListInv, OneReceiver
            <3>4. pc'[r] = "found" /\ held'[r] = e
                BY <1>p, <3>1
            <3>5. HeldByOne'
                BY <3>2, <3>3, <3>4 DEF ListInv
            <3>6. {held'[s] : s \in {t \in Receivers : Holds(t)'}}
                    = {held[s] : s \in {t \in Receivers : Holds(t)}} \cup {e}
                BY <3>2, <3>3, <3>4
            <3>7. NoneLost'
                BY <3>1, <3>2, <3>6 DEF ListInv, NoneLost, Entries
            <3> QED BY <1>h, <1>k, <3>1, <3>2, <3>3, <3>4, <3>5, <3>7 DEF ListInv
        <2>2. CASE pc' = [pc EXCEPT ![r] = IF last[r] THEN "idle" ELSE "asleep"] /\ UNCHANGED held
            BY <1>1, <1>3, <1>p, <2>2 DEF Search, listVars
        <2> QED BY <1>3, <2>1, <2>2 DEF Search
    <1>4. ASSUME NEW r \in Receivers, Unlink(r) PROVE ListInv'
        <2>1. /\ pc[r] = "found" /\ pc' = [pc EXCEPT ![r] = "unlinked"]
              /\ listed' = listed \ {held[r]}
              /\ UNCHANGED <<answers, freed, held>>
            BY <1>4 DEF Unlink
        <2>2. \A s \in Receivers : (Holds(s)' <=> Holds(s)) /\ (s # r => pc'[s] = pc[s])
            BY <1>p, <2>1
        <2>3. HeldByOne'
            BY <1>p, <2>1, <2>2 DEF ListInv
        <2>4. {s \in Receivers : Holds(s)'} = {s \in Receivers : Holds(s)}
            BY <2>2
        <2>5. NoneLost'
            BY <2>1, <2>4 DEF ListInv, NoneLost, Entries
        <2> QED BY <1>h, <1>k, <1>p, <2>1, <2>2, <2>3, <2>5 DEF ListInv
    <1>5. ASSUME NEW r \in Receivers, Deliver(r) PROVE ListInv'
        <2>1. /\ pc[r] = "unlinked" /\ pc' = [pc EXCEPT ![r] = "idle"]
              /\ freed' = freed \cup {held[r]}
              /\ held' = [held EXCEPT ![r] = None]
              /\ UNCHANGED <<answers, listed>>
            BY <1>5 DEF Deliver
        <2>2. /\ ~Holds(r)'
              /\ \A s \in Receivers : s # r =>
                   /\ pc'[s] = pc[s]
                   /\ held'[s] = held[s]
                   /\ Holds(s) => held[s] # held[r]
            BY <1>p, <2>1 DEF ListInv
        <2>3. HeldByOne'
            BY <2>1, <2>2 DEF ListInv
        <2>4. {held[s] : s \in {t \in Receivers : Holds(t)}}
                = {held'[s] : s \in {t \in Receivers : Holds(t)'}} \cup {held[r]}
            BY <2>1, <2>2
        <2>5. NoneLost'
            BY <2>1, <2>4 DEF ListInv, NoneLost, Entries
        <2> QED BY <1>h, <1>k, <2>1, <2>2, <2>3, <2>5 DEF ListInv
    <1>6. CASE \E r \in Receivers : Send(r) \/ Begin(r) \/ Wake(r) \/ Expire(r) \/ Forget(r)
        BY <1>1, <1>6, <1>p DEF Send, Begin, Wake, Expire, Forget, listVars
    <1>7. CASE UNCHANGED vars \/ Done
        BY <1>1, <1>7 DEF vars, listVars, Done
    <1> QED BY <1>2, <1>3, <1>4, <1>5, <1>6, <1>7 DEF Next, Receive

\* As long as no two tasks wait for the same command, an entry that a task has
\* found is still there when the task unlinks, copies and frees it, and no
\* response is lost, although ipts_mei_search lets the lock go in the middle.
THEOREM SearchSafe == ASSUME OneReceiver PROVE Spec => [](HeldByOne /\ NoneLost)
    <1>1. TypeInv /\ ListInv /\ [Next]_vars => TypeInv' /\ ListInv'
        BY TypeStep, ListStep
    <1>2. Init => TypeInv /\ ListInv
        BY TypeInit, ListInit
    <1>3. ListInv => HeldByOne /\ NoneLost
        BY DEF ListInv
    <1> QED BY <1>1, <1>2, <1>3, PTL DEF Spec

-----------------------------------------------------------------------------
(* Wake-ups *)

LEMMA WakeStep ==
    ASSUME TypeInv, NoLostWakeup, [Next]_vars
    PROVE  NoLostWakeup'
    <1> USE DEF NoLostWakeup
    <1>k. \A e \in Entries : e \in Entries' /\ EntryCode(e)' = EntryCode(e)
        BY CodesKept
    <1>p. /\ pc \in [Receivers -> {"idle", "search", "asleep", "found", "unlinked"}]
          /\ woken \in [Receivers -> BOOLEAN]
          /\ listed \subseteq Entries
        BY DEF TypeInv, TypeOK
    <1>m. listed' \subseteq listed => \A c : Matches(c)' \subseteq Matches(c)
        BY <1>k, <1>p DEF Matches
    <1>1. ASSUME listed' \subseteq listed,
                 \A r \in Receivers : pc'[r] = "asleep" =>
                   \/ pc[r] = "asleep" /\ woken'[r] = woken[r]
                   \/ Matches(CodeOf[r]) = {}
          PROVE  NoLostWakeup'
        BY <1>1, <1>m
    <1>2. ASSUME NEW q \in Requests, Incoming(q) PROVE NoLostWakeup'
        BY <1>2 DEF Incoming
    <1>3. ASSUME NEW r \in Receivers, Search(r) PROVE NoLostWakeup'
        BY <1>1, <1>3, <1>p DEF Search, listVars
    <1>4. ASSUME NEW r \in Receivers, Wake(r) \/ Begin(r) PROVE NoLostWakeup'
        BY <1>1, <1>4, <1>p DEF Wake, Begin, listVars
    <1>5. ASSUME NEW r \in Receivers, Unlink(r) PROVE NoLostWakeup'
        BY <1>1, <1>5, <1>p DEF Unlink
    <1>6. ASSUME NEW r \in Receivers, Deliver(r) PROVE NoLostWakeup'
        BY <1>1, <1>6, <1>p DEF Deliver
    <1>7. ASSUME NEW r \in Receivers, Send(r) \/ Expire(r) \/ Forget(r) PROVE NoLostWakeup'
        BY <1>1, <1>7, <1>p DEF Send, Expire, Forget, listVars
    <1>8. CASE UNCHANGED vars \/ Done
        BY <1>1, <1>8 DEF vars, listVars, Done
    <1> QED BY <1>2, <1>3, <1>4, <1>5, <1>6, <1>7, <1>8 DEF Next, Receive

\* No task sleeps on after its response has arrived, however many tasks wait
\* for whatever commands: ipts_mei_recv prepares the wait before it searches.
THEOREM WakeSafe == Spec => []NoLostWakeup
    <1>1. TypeInv /\ NoLostWakeup /\ [Next]_vars => TypeInv' /\ NoLostWakeup'
        BY TypeStep, WakeStep
    <1>2. Init => TypeInv /\ NoLostWakeup
        BY TypeInit DEF Init, NoLostWakeup
    <1> QED BY <1>1, <1>2, PTL DEF Spec

-----------------------------------------------------------------------------
(* Requests and answers *)

\* A request whose task keeps its time is the one its task waits for.
Wanted(q) == asker[q] \in Late \/ want[asker[q]] = q

\* A request is answered once, and until its answer was received its task waits
\* for it and for no other.
OwnInv ==
    /\ \A e \in Entries : answers[e] \notin pending
    /\ \A d, e \in Entries : answers[d] = answers[e] => d = e
    /\ \A q \in pending : Wanted(q)
    /\ OnlyLateLeftovers
    /\ \A r \in Receivers : Holds(r) => Wanted(answers[held[r]])

\* The logs only grow: neither who sent a request nor what an entry answers changes.
LEMMA LogsKept ==
    ASSUME TypeInv, [Next]_vars
    PROVE  /\ \A q \in 1 .. Len(asker) : asker[q] \in Receivers /\ asker'[q] = asker[q]
           /\ \A e \in Entries : answers[e] \in 1 .. Len(asker) /\ answers'[e] = answers[e]
    <1>t. asker \in Seq(Receivers) /\ answers \in Seq(1 .. Len(asker))
        BY DEF TypeInv, TypeOK
    <1>0. \A e \in Entries : answers[e] \in 1 .. Len(asker)
        <2> DEFINE A == 1 .. Len(asker)
        <2>1. answers \in Seq(A)
            BY <1>t
        <2> HIDE DEF A
        <2>2. \A e \in Entries : answers[e] \in A
            BY <2>1 DEF Entries
        <2> QED BY <2>2 DEF A
    <1>1. ASSUME NEW r \in Receivers, Send(r) PROVE
              /\ \A q \in 1 .. Len(asker) : asker'[q] = asker[q]
              /\ answers' = answers
        BY <1>1, <1>t, LogGrows DEF Send, listVars
    <1>2. ASSUME NEW q \in Requests, Incoming(q) PROVE
              /\ asker' = asker
              /\ \A e \in Entries : answers'[e] = answers[e]
        <2> DEFINE A == 1 .. Len(asker)
        <2>1. answers' = Append(answers, q) /\ asker' = asker /\ q \in A /\ answers \in Seq(A)
            BY <1>2, <1>t DEF Incoming, TypeInv, TypeOK
        <2> HIDE DEF A
        <2> QED BY <2>1, LogGrows DEF Entries
    <1>3. \/ \E r \in Receivers : Send(r)
          \/ \E q \in Requests : Incoming(q)
          \/ UNCHANGED <<asker, answers>>
        BY DEF Next, Receive, Begin, Search, Wake, Expire, Unlink, Deliver, Forget, Done, vars,
               sendVars, listVars
    <1>4. \A q \in 1 .. Len(asker) : asker[q] \in Receivers
        BY <1>t
    <1> QED BY <1>0, <1>1, <1>2, <1>3, <1>4

\* With one receiver for each command, the entry a task holds answers a request
\* of its own.
LEMMA HeldIsOwn ==
    ASSUME OneReceiver, TypeInv, ListInv, NEW r \in Receivers, Holds(r)
    PROVE  asker[answers[held[r]]] = r
    <1>1. held[r] \in Entries /\ CodeOf[asker[answers[held[r]]]] = CodeOf[r]
        BY DEF TypeInv, HeldType, ListInv, EntryCode
    <1>2. answers[held[r]] \in 1 .. Len(asker) /\ asker \in Seq(Receivers)
        <2> DEFINE A == 1 .. Len(asker)
        <2>1. answers \in Seq(A) /\ asker \in Seq(Receivers)
            BY DEF TypeInv, TypeOK
        <2> HIDE DEF A
        <2>2. answers[held[r]] \in A
            BY <1>1, <2>1 DEF Entries
        <2> QED BY <2>1, <2>2 DEF A
    <1>3. asker[answers[held[r]]] \in Receivers
        BY <1>2
    <1> QED BY <1>1, <1>3 DEF OneReceiver

LEMMA OwnInit == Init => OwnInv
    BY DEF Init, OwnInv, OnlyLateLeftovers, Entries, Holds

LEMMA OwnStep ==
    ASSUME OneReceiver, TypeInv, ListInv, OwnInv, [Next]_vars
    PROVE  OwnInv'
    <1> USE DEF OwnInv, OnlyLateLeftovers, Wanted
    <1>k. /\ \A q \in 1 .. Len(asker) : asker[q] \in Receivers /\ asker'[q] = asker[q]
          /\ \A e \in Entries : answers[e] \in 1 .. Len(asker) /\ answers'[e] = answers[e]
        BY LogsKept
    <1>h. \A r \in Receivers : Holds(r) => held[r] \in Entries
        BY DEF TypeInv, HeldType
    <1>p. /\ pc \in [Receivers -> {"idle", "search", "asleep", "found", "unlinked"}]
          /\ held \in [Receivers -> 0 .. Len(answers)]
          /\ listed \subseteq Entries
          /\ pending \subseteq 1 .. Len(asker)
          /\ Len(asker) \in Nat /\ Len(answers) \in Nat
        BY DEF TypeInv, TypeOK
    <1>w. want \in [Receivers -> 0 .. Len(asker)]
        BY DEF TypeInv, TypeOK
    <1>1. ASSUME UNCHANGED <<asker, answers, pending, want>>,
                 listed' \subseteq listed,
                 \A r \in Receivers : Holds(r)' =>
                   \/ Holds(r) /\ held'[r] = held[r]
                   \/ held'[r] \in listed
          PROVE  OwnInv'
        BY <1>1, <1>p DEF Entries
    <1>2. ASSUME NEW r \in Receivers, Send(r) PROVE OwnInv'
        <2> DEFINE n == Len(asker) + 1
        <2>1. /\ asker' = Append(asker, r) /\ want[r] = None
              /\ pending' = pending \cup {n}
              /\ want' = [want EXCEPT ![r] = n]
              /\ UNCHANGED <<answers, listed, pc, held>>
            <3>1. Len(Append(asker, r)) = n
                BY DEF TypeInv, TypeOK
            <3> QED BY <1>2, <3>1 DEF Send, listVars
        <2>2. asker'[n] = r
            <3>1. asker \in Seq(Receivers)
                BY DEF TypeInv, TypeOK
            <3> QED BY <2>1, <3>1, LogGrows
        <2>3. \A q \in 1 .. Len(asker) : q # n /\ q # None
            BY <1>p DEF None
        <2>4. \A q \in 1 .. Len(asker) : Wanted(q) => Wanted(q)'
            BY <1>k, <1>w, <2>1, <2>3
        <2>5. asker'[n] \in Late \/ want'[asker'[n]] = n
            BY <1>w, <2>1, <2>2
        <2>6. Entries' = Entries /\ \A s \in Receivers : Holds(s)' = Holds(s)
            BY <2>1 DEF Entries, Holds
        <2> HIDE DEF n
        <2>7. \A q \in pending' : Wanted(q)'
            BY <1>p, <2>1, <2>4, <2>5
        <2>8. \A e \in Entries : Wanted(answers[e]) => Wanted(answers[e])'
            BY <1>k, <2>1, <2>4
        <2>9. OnlyLateLeftovers'
            BY <1>p, <2>1, <2>8
        <2>10. \A s \in Receivers : Holds(s)' => Wanted(answers[held[s]])'
            BY <1>h, <2>1, <2>6, <2>8
        <2>11. \A e \in Entries' : answers'[e] \notin pending'
            BY <1>k, <2>1, <2>3, <2>6
        <2> QED BY <2>1, <2>6, <2>7, <2>9, <2>10, <2>11
    <1>3. ASSUME NEW q \in Requests, Incoming(q) PROVE OwnInv'
        <2> DEFINE n == Len(answers) + 1
        <2>1. /\ q \in pending /\ pending' = pending \ {q}
              /\ listed' = listed \cup {n} /\ answers'[n] = q
              /\ Entries' = Entries \cup {n} /\ n \notin Entries
              /\ UNCHANGED <<asker, want, pc, held>>
            <3> DEFINE A == 1 .. Len(asker)
            <3>1. answers \in Seq(A) /\ q \in A /\ answers' = Append(answers, q)
                BY <1>3 DEF Incoming, TypeInv, TypeOK
            <3> HIDE DEF A
            <3>2. Len(answers') = n /\ answers'[n] = q
                BY <3>1
            <3> QED BY <1>3, <1>p, <3>2 DEF Incoming, Entries
        <2>2. \A s \in Receivers : Holds(s)' = Holds(s)
            BY <2>1 DEF Holds
        <2> HIDE DEF n
        <2>4. \A e \in Entries : Wanted(answers[e]) => Wanted(answers[e])'
            BY <1>k, <2>1
        <2>5. OnlyLateLeftovers'
            BY <1>p, <2>1, <2>4
        <2>6. \A s \in Receivers : Holds(s)' => Wanted(answers[held[s]])'
            BY <1>h, <2>1, <2>2, <2>4
        <2>7. /\ \A e \in Entries' : answers'[e] \notin pending'
              /\ \A d, e \in Entries' : answers'[d] = answers'[e] => d = e
            BY <1>k, <2>1
        <2>8. \A p \in pending' : Wanted(p)'
            BY <1>p, <2>1
        <2> QED BY <2>5, <2>6, <2>7, <2>8
    <1>4. ASSUME NEW r \in Receivers, Search(r) PROVE OwnInv'
        BY <1>1, <1>4, <1>p DEF Search, FirstOf, Matches, Holds, sendVars, listVars
    <1>5. ASSUME NEW r \in Receivers, Unlink(r) PROVE OwnInv'
        BY <1>1, <1>5, <1>p DEF Unlink, Holds, sendVars
    <1>6. ASSUME NEW r \in Receivers, Deliver(r) PROVE OwnInv'
        <2>1. /\ pc[r] = "unlinked" /\ pc' = [pc EXCEPT ![r] = "idle"]
              /\ held' = [held EXCEPT ![r] = None]
              /\ want' = [want EXCEPT ![r] = None]
              /\ UNCHANGED <<asker, pending, answers, listed>>
            BY <1>6 DEF Deliver
        <2> DEFINE own == answers[held[r]]
        <2>2. Holds(r) /\ held[r] \in Entries /\ asker[own] = r /\ Wanted(own)
            BY <1>h, <2>1, HeldIsOwn DEF Holds
        <2>3. \A q \in 1 .. Len(asker) : q # own /\ Wanted(q) => Wanted(q)'
            BY <1>k, <1>w, <2>1, <2>2
        <2>4. own \notin pending /\ \A e \in listed : answers[e] # own
            BY <1>p, <2>1, <2>2 DEF ListInv
        <2>5. \A s \in Receivers : Holds(s)' =>
                Holds(s) /\ held'[s] = held[s] /\ answers[held[s]] # own
            BY <1>h, <1>p, <2>1, <2>2 DEF ListInv, HeldByOne, Holds
        <2> HIDE DEF own
        <2>6. \A q \in pending' : Wanted(q)'
            BY <1>p, <2>1, <2>3, <2>4
        <2>7. \A e \in Entries : Wanted(answers[e]) /\ answers[e] # own => Wanted(answers[e])'
            BY <1>k, <2>1, <2>3
        <2>8. OnlyLateLeftovers'
            BY <1>p, <2>1, <2>4, <2>7
        <2>9. \A s \in Receivers : Holds(s)' => Wanted(answers[held[s]])'
            BY <1>h, <2>1, <2>5, <2>7
        <2> QED BY <2>1, <2>6, <2>8, <2>9 DEF Entries
    <1>7. ASSUME NEW r \in Receivers, Forget(r) PROVE OwnInv'
        <2>1. /\ r \in Late /\ want' = [want EXCEPT ![r] = None]
              /\ UNCHANGED <<asker, pending, answers, listed, pc, held>>
            BY <1>7 DEF Forget, listVars
        <2>2. \A q \in 1 .. Len(asker) : Wanted(q) => Wanted(q)'
            BY <1>k, <1>w, <2>1
        <2>3. Entries' = Entries /\ \A s \in Receivers : Holds(s)' = Holds(s)
            BY <2>1 DEF Entries, Holds
        <2> QED BY <1>h, <1>k, <1>p, <2>1, <2>2, <2>3
    <1>8. ASSUME NEW r \in Receivers, Begin(r) \/ Wake(r) \/ Expire(r) PROVE OwnInv'
        BY <1>1, <1>8, <1>p DEF Begin, Wake, Expire, Holds, sendVars, listVars
    <1>9. CASE UNCHANGED vars \/ Done
        BY <1>1, <1>9 DEF vars, Done, Holds, sendVars, listVars
    <1> QED BY <1>2, <1>3, <1>4, <1>5, <1>6, <1>7, <1>8, <1>9 DEF Next, Receive

\* Everything known of the list, in one formula, so that it is carried along once.
LEMMA AllInv ==
    ASSUME OneReceiver
    PROVE  Spec => [](TypeInv /\ ListInv /\ OwnInv)
    <1>1. Init => TypeInv /\ ListInv /\ OwnInv
        BY TypeInit, ListInit, OwnInit
    <1>2. TypeInv /\ ListInv /\ OwnInv /\ [Next]_vars => (TypeInv /\ ListInv /\ OwnInv)'
        BY TypeStep, ListStep, OwnStep
    <1> QED BY <1>1, <1>2, PTL DEF Spec

\* As long as no two tasks wait for the same command, only the answers to requests
\* that were given up pile up on mei->messages: every other entry is the one its
\* task still waits for, whichever task is in the middle of ipts_mei_search.
THEOREM LeftoversCorrect == ASSUME OneReceiver PROVE Spec => []OnlyLateLeftovers
    <1>1. TypeInv /\ ListInv /\ OwnInv => OnlyLateLeftovers
        BY DEF OwnInv
    <1> QED BY <1>1, AllInv, PTL

\* As long as no two tasks wait for the same command, ipts_mei_recv hands a task
\* the answer to its own request and to no older one, in any order of answers and
\* whatever waits of other tasks ran out.
THEOREM AnswerCorrect == ASSUME OneReceiver PROVE Spec => OwnAnswer
    <1>1. ASSUME TypeInv, ListInv, OwnInv, [Next]_vars,
                 NEW r \in Receivers \ Late, pc[r] = "unlinked", pc'[r] = "idle"
          PROVE  got'[r] = want[r]
        <2>1. pc \in [Receivers -> {"idle", "search", "asleep", "found", "unlinked"}]
            BY <1>1 DEF TypeInv, TypeOK
        <2>2. Deliver(r)
            BY <1>1, <2>1 DEF Next, Receive, Send, Incoming, Begin, Search, Wake, Expire, Unlink,
                              Deliver, Forget, Done, vars
        <2>3. Holds(r) /\ asker[answers[held[r]]] = r
            BY <1>1, HeldIsOwn DEF Holds
        <2>4. want[r] = answers[held[r]]
            BY <1>1, <2>3 DEF OwnInv, Wanted
        <2>5. got \in [Receivers -> 0 .. Len(asker)]
            BY <1>1 DEF TypeInv, TypeOK
        <2> QED BY <2>2, <2>4, <2>5 DEF Deliver
    <1>2. TypeInv /\ ListInv /\ OwnInv /\ [Next]_vars =>
            [\A r \in Receivers \ Late :
               pc[r] = "unlinked" /\ pc'[r] = "idle" => got'[r] = want[r]]_vars
        BY <1>1
    <1> QED BY <1>2, AllInv, PTL DEF Spec, OwnAnswer

-----------------------------------------------------------------------------
(* The box of responses *)

\* A request is either under way or answered once.
Balance == IsFiniteSet(pending) /\ Len(answers) + Cardinality(pending) = Len(asker)

LEMMA BalanceInit == Init => Balance
    BY FS_EmptySet DEF Init, Balance

LEMMA BalanceStep ==
    ASSUME TypeInv, Balance, [Next]_vars
    PROVE  Balance'
    <1>t. /\ asker \in Seq(Receivers) /\ Len(asker) \in Nat /\ Len(answers) \in Nat
          /\ pending \subseteq 1 .. Len(asker)
        BY DEF TypeInv, TypeOK
    <1>c. IsFiniteSet(pending) /\ Cardinality(pending) \in Nat
        BY FS_CardinalityType DEF Balance
    <1>1. ASSUME NEW r \in Receivers, Send(r) PROVE Balance'
        <2>1. /\ Len(asker') = Len(asker) + 1
              /\ pending' = pending \cup {Len(asker) + 1}
              /\ answers' = answers
            BY <1>1, <1>t DEF Send, listVars
        <2>2. Len(asker) + 1 \notin pending
            BY <1>t
        <2>3. IsFiniteSet(pending') /\ Cardinality(pending') = Cardinality(pending) + 1
            BY <1>c, <2>1, <2>2, FS_AddElement
        <2> QED BY <1>c, <1>t, <2>1, <2>3 DEF Balance
    <1>2. ASSUME NEW q \in Requests, Incoming(q) PROVE Balance'
        <2>1. q \in pending /\ pending' = pending \ {q} /\ asker' = asker
            BY <1>2 DEF Incoming
        <2>2. Len(answers') = Len(answers) + 1
            <3> DEFINE A == 1 .. Len(asker)
            <3>1. answers \in Seq(A) /\ q \in A /\ answers' = Append(answers, q)
                BY <1>2 DEF Incoming, TypeInv, TypeOK
            <3> HIDE DEF A
            <3> QED BY <3>1
        <2>3. IsFiniteSet(pending') /\ Cardinality(pending') = Cardinality(pending) - 1
            BY <1>c, <2>1, FS_RemoveElement
        <2> QED BY <1>c, <1>t, <2>1, <2>2, <2>3 DEF Balance
    <1>3. ASSUME UNCHANGED <<asker, answers, pending>> PROVE Balance'
        BY <1>3 DEF Balance
    <1>4. \/ \E r \in Receivers : Send(r)
          \/ \E q \in Requests : Incoming(q)
          \/ UNCHANGED <<asker, answers, pending>>
        BY DEF Next, Receive, Begin, Search, Wake, Expire, Unlink, Deliver, Forget, Done, vars,
               sendVars, listVars
    <1> QED BY <1>1, <1>2, <1>3, <1>4

\* What is in the boxes depends on which entries are unread only.
LEMMA BoxesKept ==
    ASSUME TypeInv, [Next]_vars, \A c \in Codes : UnreadEntries(c)' = UnreadEntries(c)
    PROVE  Boxes' = Boxes
    <1>1. \A c \in Codes : UnreadEntries(c) \subseteq Entries
        BY DEF UnreadEntries, Matches, TypeInv, TypeOK
    <1>2. \A e \in Entries : answers'[e] = answers[e]
        BY LogsKept
    <1>3. \A c \in Codes :
            {[at |-> e, what |-> answers'[e]] : e \in UnreadEntries(c)'}
              = {[at |-> e, what |-> answers[e]] : e \in UnreadEntries(c)}
        BY <1>1, <1>2
    <1> QED BY <1>3 DEF Boxes

\* As long as the list does not change, nor which of its entries are found, nothing
\* happens to the boxes.
LEMMA ListKept ==
    ASSUME TypeInv, [Next]_vars, listed' = listed,
           \A r \in Receivers : Holds(r)' = Holds(r)
                             /\ (pc'[r] = "found") = (pc[r] = "found")
                             /\ (Holds(r) => held'[r] = held[r])
    PROVE  Boxes' = Boxes
    <1>1. \A e \in listed : EntryCode(e)' = EntryCode(e)
        BY CodesKept DEF TypeInv, TypeOK
    <1>2. \A c \in Codes : Matches(c)' = Matches(c)
        BY <1>1 DEF Matches
    <1>3. \A c \in Codes : UnreadEntries(c)' = UnreadEntries(c)
        BY <1>2 DEF UnreadEntries, Holds
    <1> QED BY <1>3, BoxesKept

LEMMA BoxInit == Init => Box!Init
    <1> SUFFICES ASSUME Init PROVE Box!Init
        OBVIOUS
    <1>1. \A c \in Codes : UnreadEntries(c) = {}
        BY DEF Init, UnreadEntries, Matches
    <1>2. Boxes = [c \in Codes |-> {}]
        BY <1>1 DEF Boxes
    <1>3. Outcomes = [r \in Receivers |-> None]
        BY DEF Init, Outcomes, Holds
    <1> QED BY <1>2, <1>3 DEF Box!Init

LEMMA BoxStep ==
    ASSUME OneReceiver, TypeInv, ListInv, Balance, [Next]_vars
    PROVE  [Box!Next]_(Box!vars)
    <1>k. /\ \A e \in Entries : e \in Entries' /\ EntryCode(e)' = EntryCode(e)
          /\ \A e \in Entries : answers'[e] = answers[e]
        BY CodesKept, LogsKept
    <1>h. \A r \in Receivers : Holds(r) => held[r] \in Entries /\ EntryCode(held[r]) = CodeOf[r]
        BY DEF TypeInv, HeldType, ListInv
    <1>p. /\ pc \in [Receivers -> {"idle", "search", "asleep", "found", "unlinked"}]
          /\ held \in [Receivers -> 0 .. Len(answers)]
          /\ listed \subseteq Entries
          /\ got \in [Receivers -> 0 .. Len(asker)]
        BY DEF TypeInv, TypeOK
    <1>c. \A r \in Receivers : CodeOf[r] \in Codes
        BY MeiAssumption
    <1>1. ASSUME listed' = listed, got' = got,
                 \A r \in Receivers : Holds(r)' = Holds(r)
                                   /\ (pc'[r] = "found") = (pc[r] = "found")
                                   /\ (Holds(r) => held'[r] = held[r])
          PROVE  UNCHANGED Box!vars
        <2>1. Boxes' = Boxes
            BY <1>1, ListKept
        <2>2. Outcomes' = Outcomes
            BY <1>1, <1>h, <1>k DEF Outcomes
        <2> QED BY <2>1, <2>2 DEF Box!vars
    <1>2. ASSUME NEW q \in Requests, Incoming(q) PROVE Box!Next
        <2> DEFINE n == Len(answers) + 1
                   c == CodeOf[asker[q]]
        <2>1. /\ answers' = Append(answers, q) /\ asker' = asker
              /\ answers'[n] = q /\ q \in 1 .. Len(asker)
              /\ listed' = listed \cup {n} /\ n \notin Entries
              /\ UNCHANGED <<pc, held, got>>
            <3> DEFINE A == 1 .. Len(asker)
            <3>1. answers \in Seq(A) /\ q \in A /\ answers' = Append(answers, q)
                BY <1>2 DEF Incoming, TypeInv, TypeOK
            <3>2. n \notin Entries
                BY DEF Entries, TypeInv, TypeOK
            <3> HIDE DEF A
            <3>3. Len(answers') = n /\ answers'[n] = q
                BY <3>1
            <3>4. q \in 1 .. Len(asker)
                BY <3>1 DEF A
            <3> QED BY <1>2, <3>1, <3>2, <3>3, <3>4 DEF Incoming
        <2>2. n \in Requests /\ \A e \in Entries : e < n
            <3>1. q \in pending /\ IsFiniteSet(pending) /\ pending # {}
                BY <1>2 DEF Incoming, Balance
            <3>2. Cardinality(pending) \in Nat /\ Cardinality(pending) # 0
                BY <3>1, FS_CardinalityType, FS_EmptySet
            <3>3. Len(answers) \in Nat /\ Len(asker) \in Nat /\ Len(asker) <= MaxRequests
                BY DEF TypeInv, TypeOK
            <3> QED BY <3>2, <3>3, MeiAssumption DEF Balance, Entries, Requests
        <2>3. c \in Codes
            <3>1. asker[q] \in Receivers
                BY <2>1, LogsKept
            <3> QED BY <1>c, <3>1
        <2>4. /\ CodeOf[asker'[answers'[n]]] = c
              /\ \A s \in Receivers : Holds(s) => held[s] # n
            BY <1>h, <2>1
        <2> HIDE DEF n, c
        <2>5. \A d \in Codes : Matches(d)' = IF d = c THEN Matches(d) \cup {n} ELSE Matches(d)
            <3>1. \A e \in listed : CodeOf[asker'[answers'[e]]] = EntryCode(e)
                BY <1>k, <1>p DEF EntryCode
            <3> QED BY <2>1, <2>4, <3>1 DEF Matches, EntryCode
        <2>6. \A d \in Codes :
                UnreadEntries(d)' = IF d = c THEN UnreadEntries(d) \cup {n} ELSE UnreadEntries(d)
            BY <2>1, <2>4, <2>5 DEF UnreadEntries, Holds
        <2>7. \A d \in Codes : UnreadEntries(d) \subseteq Entries
            BY <1>p DEF UnreadEntries, Matches
        <2>8. \A d \in Codes :
                {[at |-> e, what |-> answers'[e]] : e \in UnreadEntries(d)'}
                  = {[at |-> e, what |-> answers[e]] : e \in UnreadEntries(d)}
                      \cup (IF d = c THEN {[at |-> n, what |-> q]} ELSE {})
            <3>1. \A d \in Codes : \A e \in UnreadEntries(d) : answers'[e] = answers[e]
                BY <1>k, <2>7
            <3>2. ASSUME NEW d \in Codes
                  PROVE  {[at |-> e, what |-> answers'[e]] : e \in UnreadEntries(d)}
                           = {[at |-> e, what |-> answers[e]] : e \in UnreadEntries(d)}
                BY <3>1
            <3> DEFINE At(e) == [at |-> e, what |-> answers'[e]]
            <3>3. \A S : {At(e) : e \in S \cup {n}} = {At(e) : e \in S} \cup {At(n)}
                OBVIOUS
            <3>4. At(n) = [at |-> n, what |-> q]
                BY <2>1
            <3>5. \A d \in Codes :
                    {At(e) : e \in UnreadEntries(d)'}
                      = {At(e) : e \in UnreadEntries(d)} \cup (IF d = c THEN {At(n)} ELSE {})
                BY <2>6, <3>3
            <3> QED BY <3>2, <3>4, <3>5
        <2>9. Boxes' = [Boxes EXCEPT ![c] = @ \cup {[at |-> n, what |-> q]}]
            BY <2>3, <2>8 DEF Boxes
        <2>10. \A d \in Codes : \A m \in Boxes[d] : m.at < n
            BY <2>2, <2>7 DEF Boxes
        <2>11. Outcomes' = Outcomes
            BY <1>h, <1>k, <2>1 DEF Outcomes, Holds
        <2>12. Box!Post(c, q, n)
            BY <2>9, <2>10, <2>11 DEF Box!Post
        <2> QED BY <2>2, <2>3, <2>12 DEF Box!Next
    <1>3. ASSUME NEW r \in Receivers, Search(r),
                 NEW e \in FirstOf(Matches(CodeOf[r])),
                 held' = [held EXCEPT ![r] = e], pc' = [pc EXCEPT ![r] = "found"]
          PROVE  Box!Next
        <2>1. /\ UNCHANGED <<asker, answers, listed>> /\ pc[r] = "search"
              /\ e \in listed /\ EntryCode(e) = CodeOf[r] /\ e \in Entries
            BY <1>3, <1>p DEF Search, FirstOf, Matches, sendVars, listVars
        <2>2. got' = got
            BY <1>3, <1>p DEF Search
        <2>3. /\ pc'[r] = "found" /\ held'[r] = e
              /\ \A s \in Receivers : s # r => pc'[s] = pc[s] /\ held'[s] = held[s]
              /\ \A s \in Receivers : Holds(s) => held[s] # e
            BY <1>3, <1>h, <1>p, <2>1 DEF OneReceiver, Holds
        <2>4. \A d \in Codes : Matches(d)' = Matches(d)
            BY <1>k, <1>p, <2>1 DEF Matches
        <2>5. \A d \in Codes : UnreadEntries(d)' = UnreadEntries(d) \ {e}
            BY <2>1, <2>3, <2>4 DEF UnreadEntries, Holds
        <2>6. e \in UnreadEntries(CodeOf[r])
            BY <2>1, <2>3 DEF UnreadEntries, Matches, Holds
        <2>7. \A d \in Codes : d # CodeOf[r] => e \notin UnreadEntries(d)
            BY <2>1 DEF UnreadEntries, Matches
        <2> DEFINE m == [at |-> e, what |-> answers[e]]
        <2>8. \A d \in Codes :
                {[at |-> f, what |-> answers'[f]] : f \in UnreadEntries(d)'}
                  = {[at |-> f, what |-> answers[f]] : f \in UnreadEntries(d)} \ {m}
            BY <2>1, <2>5
        <2>9. m \in Boxes[CodeOf[r]] /\ \A d \in Codes : d # CodeOf[r] => m \notin Boxes[d]
            BY <1>c, <2>6, <2>7 DEF Boxes
        <2>10. Boxes' = [Boxes EXCEPT ![CodeOf[r]] = @ \ {m}]
            BY <1>c, <2>8, <2>9 DEF Boxes
        <2>11. \A n \in Boxes[CodeOf[r]] : n.at <= m.at
            BY <1>3, <1>c DEF Boxes, UnreadEntries, FirstOf
        <2>12. Outcomes' = [Outcomes EXCEPT ![r] = m.what]
            BY <1>h, <1>k, <2>1, <2>2, <2>3 DEF Outcomes, Holds
        <2> HIDE DEF m
        <2>13. Box!Take(r)
            BY <2>9, <2>10, <2>11, <2>12 DEF Box!Take
        <2> QED BY <2>13 DEF Box!Next
    <1>4. ASSUME NEW r \in Receivers, Search(r), Matches(CodeOf[r]) = {},
                 pc' = [pc EXCEPT ![r] = IF last[r] THEN "idle" ELSE "asleep"],
                 got' = IF last[r] THEN [got EXCEPT ![r] = None] ELSE got,
                 UNCHANGED held
          PROVE  [Box!Next]_(Box!vars)
        <2>1. /\ UNCHANGED <<asker, answers, listed>> /\ pc[r] = "search"
              /\ pc'[r] \in {"idle", "asleep"}
              /\ \A s \in Receivers : s # r => pc'[s] = pc[s]
            BY <1>4, <1>p DEF Search, sendVars, listVars
        <2>2. \A s \in Receivers : Holds(s)' = Holds(s) /\ (pc'[s] = "found") = (pc[s] = "found")
            BY <2>1 DEF Holds
        <2>3. CASE last[r]
            <3>1. Boxes' = Boxes
                BY <1>4, <2>1, <2>2, ListKept
            <3>2. Boxes[CodeOf[r]] = {}
                BY <1>4, <1>c DEF Boxes, UnreadEntries
            <3>3. Outcomes' = [Outcomes EXCEPT ![r] = None]
                BY <1>4, <1>h, <1>p, <2>1, <2>2, <2>3 DEF Outcomes, Holds
            <3>4. Box!Leave(r)
                BY <3>1, <3>2, <3>3 DEF Box!Leave
            <3> QED BY <3>4 DEF Box!Next
        <2>4. CASE ~last[r]
            BY <1>1, <1>4, <2>1, <2>2, <2>4
        <2> QED BY <2>3, <2>4
    <1>5. ASSUME NEW r \in Receivers, Unlink(r) PROVE UNCHANGED Box!vars
        <2>1. /\ pc[r] = "found" /\ pc' = [pc EXCEPT ![r] = "unlinked"]
              /\ listed' = listed \ {held[r]}
              /\ UNCHANGED <<asker, answers, held, got>>
            BY <1>5 DEF Unlink, sendVars
        <2>2. pc'[r] = "unlinked" /\ \A s \in Receivers : s # r => pc'[s] = pc[s]
            BY <1>p, <2>1
        <2>3. \A d \in Codes : Matches(d)' = Matches(d) \ {held[r]}
            BY <1>k, <1>p, <2>1 DEF Matches
        <2>4. \A d \in Codes : UnreadEntries(d)' = UnreadEntries(d)
            BY <2>1, <2>2, <2>3 DEF UnreadEntries
        <2>5. Outcomes' = Outcomes
            BY <2>1, <2>2 DEF Outcomes, Holds
        <2> QED BY <2>4, <2>5, BoxesKept DEF Box!vars
    <1>6. ASSUME NEW r \in Receivers, Deliver(r) PROVE UNCHANGED Box!vars
        <2>1. /\ pc[r] = "unlinked" /\ pc' = [pc EXCEPT ![r] = "idle"]
              /\ got' = [got EXCEPT ![r] = answers[held[r]]]
              /\ held' = [held EXCEPT ![r] = None]
              /\ UNCHANGED <<asker, answers, listed>>
            BY <1>6 DEF Deliver
        <2>2. /\ pc'[r] = "idle" /\ got'[r] = answers[held[r]]
              /\ \A s \in Receivers : s # r =>
                   pc'[s] = pc[s] /\ held'[s] = held[s] /\ got'[s] = got[s]
            BY <1>p, <2>1
        <2>3. \A d \in Codes : Matches(d)' = Matches(d)
            BY <1>k, <1>p, <2>1 DEF Matches
        <2>4. \A d \in Codes : UnreadEntries(d)' = UnreadEntries(d)
            BY <2>1, <2>2, <2>3 DEF UnreadEntries
        <2>5. Outcomes' = Outcomes
            BY <2>1, <2>2 DEF Outcomes, Holds
        <2> QED BY <2>4, <2>5, BoxesKept DEF Box!vars
    <1>7. ASSUME NEW r \in Receivers, Send(r) \/ Begin(r) \/ Wake(r) \/ Expire(r) \/ Forget(r)
          PROVE  UNCHANGED Box!vars
        BY <1>1, <1>7, <1>p DEF Send, Begin, Wake, Expire, Forget, Holds, listVars
    <1>8. CASE UNCHANGED vars \/ Done
        BY <1>1, <1>8 DEF vars, Done, Holds, sendVars, listVars
    <1>9. ASSUME NEW r \in Receivers, Search(r) PROVE [Box!Next]_(Box!vars)
        BY <1>3, <1>4, <1>9 DEF Search
    <1> QED BY <1>2, <1>5, <1>6, <1>7, <1>8, <1>9 DEF Next, Receive

\* With one receiver per command the list, whose lock ipts_mei_search lets go
\* between finding and unlinking, is a box from which a response is taken in one
\* step: what IptsReceiver assumes of the receipt of responses.
THEOREM BoxCorrect == ASSUME OneReceiver PROVE Spec => ImplementsBox
    <1>1. Init => TypeInv /\ ListInv /\ Balance
        BY TypeInit, ListInit, BalanceInit
    <1>2. TypeInv /\ ListInv /\ Balance /\ [Next]_vars => (TypeInv /\ ListInv /\ Balance)'
        BY TypeStep, ListStep, BalanceStep
    <1>3. TypeInv /\ ListInv /\ Balance /\ [Next]_vars => [Box!Next]_(Box!vars)
        BY BoxStep
    <1> QED BY <1>1, <1>2, <1>3, BoxInit, PTL DEF Spec, ImplementsBox, Box!Spec
=============================================================================
