--------------------------- MODULE IptsFeatureProofs ---------------------------
(***************************************************************************)
(* Theorems about IptsFeature, for any tasks, buffers, failures and bounds. *)
(***************************************************************************)
EXTENDS IptsFeature, RingArithmetic

Labels == {"idle", "lock", "write", "send", "recv", "wait", "copy", "out"}

\* Only a get comes to the mutex; that it holds it from there on follows.
LockInv ==
    /\ pc \in [Tasks -> Labels]
    /\ kind \in [Tasks -> {"get", "set", "none"}]
    /\ \A t \in Tasks : pc[t] = "lock" => kind[t] = "get"
    /\ LockHeldInside

LEMMA LockStep == LockInv /\ [Next]_vars => LockInv'
    <1> SUFFICES ASSUME LockInv, [Next]_vars PROVE LockInv'
        OBVIOUS
    <1> USE FeatureAssumption DEF LockInv, LockHeldInside, Labels, Go, End, Fail
    <1>1. ASSUME UNCHANGED <<pc, kind, lock>> PROVE LockInv'
        BY <1>1
    <1>2. ASSUME NEW t \in Tasks, Step(t) PROVE LockInv'
        <2>1. CASE Lock(t)
            BY <2>1 DEF Lock
        <2>2. CASE Write(t)
            BY <2>2 DEF Write
        <2>3. CASE Send(t)
            BY <2>3 DEF Send, sharedVars
        <2>4. CASE Recv(t)
            BY <2>4 DEF Recv
        <2>5. CASE Wait(t)
            BY <2>5 DEF Wait, sharedVars
        <2>6. CASE Copy(t)
            BY <2>6 DEF Copy, sharedVars
        <2>7. CASE Out(t)
            BY <2>7 DEF Out
        <2> QED BY <1>2, <2>1, <2>2, <2>3, <2>4, <2>5, <2>6, <2>7 DEF Step
    <1>3. ASSUME NEW t \in Tasks, NEW k \in Kinds, Request(t, k) PROVE LockInv'
        BY <1>3 DEF Request, sharedVars
    <1>4. CASE Device
        BY <1>4, <1>1 DEF Device, RunRequest, Refill, Fill, sharedVars, taskVars
    <1>5. CASE Receiver
        BY <1>5, <1>1 DEF Receiver, Input, Complete, SendRefill, RecvRefill, sharedVars, taskVars
    <1>6. CASE UNCHANGED vars
        BY <1>6, <1>1 DEF vars, sharedVars, taskVars
    <1> QED BY <1>2, <1>3, <1>4, <1>5, <1>6 DEF Next

\* The mutex is held exactly by the get that is between lock and unlock, so that
\* no two gets share the completion, however many tasks there are and whichever
\* way a request fails.
THEOREM LockCorrect == Spec => []LockHeldInside
    <1>1. Init => LockInv
        BY FeatureAssumption DEF Init, LockInv, LockHeldInside, Labels
    <1>2. LockInv => LockHeldInside
        BY DEF LockInv
    <1> QED BY <1>1, <1>2, LockStep, PTL DEF Spec

-----------------------------------------------------------------------------
(* The ring of data buffers *)

Slot(n) == n % NBuffers

\* rung counts the buffer the thread is reading until that is given back.
Lo == IF rpc = "poll" THEN 0 ELSE 1
Reading == rpc \in {"complete", "refill"}

\* The buffers that were filled and that the thread has not looked at.
Unseen == {Slot(cur + i) : i \in Lo .. (rung - 1)}

\* The buffers for which a FEEDBACK command is on its way to the device.
Sent == {queue[k] : k \in 1 .. Len(queue)}
Unique(x) == \A j, k \in 1 .. Len(queue) : queue[j] = x /\ queue[k] = x => j = k

\* A buffer the thread has not looked at, or is looking at, is not the device's and
\* has not been promised to it; a buffer is given back once.
RingInv ==
    /\ fill = Slot(cur + rung)
    /\ Lo <= rung /\ rung <= NBuffers + Lo
    /\ \A c \in Unseen : owner[c] = "host" /\ c \notin Sent
    /\ Reading => owner[cur] = "host" /\ cur \notin Sent /\ cur \notin Unseen
    /\ \A c \in Sent \ {Hid2me} : owner[c] = "host" /\ Unique(c)

LEMMA SlotFacts ==
    ASSUME NEW b \in Buffers
    PROVE  /\ Slot(b + 0) = b
           /\ b # Hid2me
           /\ \A i \in Int : Slot(b + i) \in Buffers /\ Slot(Slot(b + 1) + i) = Slot(b + (i + 1))
           /\ \A i \in Int : 0 < i /\ i < NBuffers => Slot(b + i) # b
           /\ \A i \in Int : Slot(b + (i + NBuffers)) = Slot(b + i)
           /\ \A i \in Int : Slot(Slot(b + i) + 1) = Slot(b + (i + 1))
    <1>1. /\ NBuffers \in Nat \ {0} /\ b \in Int /\ 0 <= b /\ b < NBuffers
          /\ NBuffers % NBuffers = 0 /\ b % NBuffers = b
        <2>1. NBuffers \in Nat \ {0} /\ b \in 0 .. (NBuffers - 1)
            BY FeatureAssumption DEF Buffers
        <2>2. NBuffers = (NBuffers * 1) + 0 /\ b = (NBuffers * 0) + b /\ 0 \in 0 .. (NBuffers - 1)
            BY <2>1
        <2>3. NBuffers % NBuffers = 0
            BY <2>1, <2>2, ModUnique
        <2>4. b % NBuffers = b
            BY <2>1, <2>2, ModUnique
        <2> QED BY <2>1, <2>3, <2>4
    <1>2. Slot(b + 0) = b /\ b # Hid2me
        <2>1. b + 0 = b
            BY <1>1
        <2> QED BY <1>1, <2>1 DEF Slot, Hid2me
    <1>3. ASSUME NEW i \in Int
          PROVE  /\ Slot(b + i) \in Buffers
                 /\ Slot(Slot(b + 1) + i) = Slot(b + (i + 1))
                 /\ 0 < i /\ i < NBuffers => Slot(b + i) # b
                 /\ Slot(b + (i + NBuffers)) = Slot(b + i)
        <2>1. b + i \in Int
            BY <1>1
        <2>2. (b + i) % NBuffers \in 0 .. (NBuffers - 1)
            BY <1>1, <2>1, DivMod
        <2>3. (((b + 1) % NBuffers) + i) % NBuffers = (b + (i + 1)) % NBuffers
            BY <1>1, StepSlot
        <2>4. 0 < i /\ i < NBuffers => (b + i) % NBuffers # b % NBuffers
            BY <1>1, ModDistinct
        <2>5. ((b + i) + NBuffers) % NBuffers = (b + i) % NBuffers
            BY <1>1, <2>1, Wrap
        <2>6. (b + i) + NBuffers = b + (i + NBuffers)
            BY <1>1
        <2> QED BY <1>1, <2>2, <2>3, <2>4, <2>5, <2>6 DEF Slot, Buffers
    <1>4. ASSUME NEW i \in Int PROVE Slot(Slot(b + i) + 1) = Slot(b + (i + 1))
        <2> DEFINE a == b + i
                   q == a \div NBuffers
                   r == a % NBuffers
        <2>1. a = (NBuffers * q) + r /\ r \in Int /\ q \in Int /\ a \in Int
            BY <1>1, DivMod
        <2>2. (b + (i + 1)) = (r + 1) + (NBuffers * q)
            <3>1. b + (i + 1) = a + 1
                BY <1>1
            <3>2. NBuffers * q \in Int
                BY <1>1, <2>1
            <3> HIDE DEF a, q, r
            <3> QED BY <2>1, <3>1, <3>2
        <2>3. ((r + 1) + (NBuffers * q)) % NBuffers = (r + 1) % NBuffers
            <3>1. r + 1 \in Int
                BY <2>1
            <3> HIDE DEF a, q, r
            <3> QED BY <1>1, <2>1, <3>1, ModPeriod
        <2> QED BY <2>2, <2>3 DEF Slot
    <1> QED BY <1>2, <1>3, <1>4

\* A command is sent.
LEMMA QueueGrows ==
    ASSUME NEW S, queue \in Seq(S), NEW x \in S, queue' = Append(queue, x)
    PROVE  /\ Sent' = Sent \cup {x}
           /\ \A c : c # x /\ Unique(c) => Unique(c)'
           /\ x \notin Sent => Unique(x)'
           /\ queue' \in Seq(S) /\ Len(queue') = Len(queue) + 1
    <1>1. /\ queue' \in Seq(S)
          /\ Len(queue) \in Nat /\ Len(queue') = Len(queue) + 1
          /\ \A k \in 1 .. Len(queue) : queue'[k] = queue[k]
          /\ queue'[Len(queue) + 1] = x
        OBVIOUS
    <1>2. 1 .. Len(queue') = (1 .. Len(queue)) \cup {Len(queue) + 1}
        BY <1>1
    <1>3. Sent' = Sent \cup {x}
        BY <1>1, <1>2 DEF Sent
    <1> QED BY <1>1, <1>2, <1>3 DEF Sent, Unique

\* The device sees the oldest command.
LEMMA QueueShrinks ==
    ASSUME NEW S, queue \in Seq(S), queue # <<>>, queue' = Tail(queue)
    PROVE  /\ Head(queue) \in S /\ Head(queue) \in Sent
           /\ Sent' \subseteq Sent
           /\ Sent \subseteq Sent' \cup {Head(queue)}
           /\ \A c : Unique(c) => Unique(c)'
           /\ Unique(Head(queue)) => Head(queue) \notin Sent'
           /\ queue' \in Seq(S) /\ Len(queue') = Len(queue) - 1
    <1>1. /\ queue' \in Seq(S)
          /\ Len(queue) \in Nat \ {0} /\ Len(queue') = Len(queue) - 1
          /\ \A k \in 1 .. Len(queue) - 1 : queue'[k] = queue[k + 1]
          /\ queue[1] = Head(queue) /\ Head(queue) \in S
        OBVIOUS
    <1>2. \A k \in 1 .. Len(queue) - 1 : k + 1 \in 1 .. Len(queue) /\ k + 1 # 1
        BY <1>1
    <1>3. \A k \in 1 .. Len(queue) : k # 1 => k - 1 \in 1 .. Len(queue) - 1 /\ queue'[k - 1] = queue[k]
        BY <1>1
    <1>4. 1 \in 1 .. Len(queue)
        BY <1>1
    <1>5. Sent' \subseteq Sent /\ Head(queue) \in Sent /\ Sent \subseteq Sent' \cup {Head(queue)}
        BY <1>1, <1>2, <1>3, <1>4 DEF Sent
    <1>6. ASSUME NEW c, Unique(c) PROVE Unique(c)'
        <2>1. \A j, k \in 1 .. Len(queue) - 1 : queue'[j] = c /\ queue'[k] = c => j + 1 = k + 1
            BY <1>1, <1>2, <1>6 DEF Unique
        <2> QED BY <1>1, <2>1 DEF Unique
    <1>7. Unique(Head(queue)) => Head(queue) \notin Sent'
        BY <1>1, <1>2, <1>4 DEF Unique, Sent
    <1> QED BY <1>1, <1>5, <1>6, <1>7

\* The buffers ahead of the thread: one more when the device fills the next, one
\* less when the thread takes the next, the same when the thread moves on.
LEMMA AheadFill ==
    ASSUME TypeOK, RingInv, UNCHANGED <<cur, rpc>>, rung' = rung + 1
    PROVE  Unseen' = Unseen \cup {fill}
    <1>1. Lo \in Int /\ rung \in Int /\ Lo <= rung /\ Lo' = Lo
        BY DEF TypeOK, RingInv, Lo
    <1>2. Lo' .. (rung' - 1) = (Lo .. (rung - 1)) \cup {rung}
        BY <1>1
    <1> QED BY <1>2 DEF Unseen, RingInv

LEMMA AheadTake ==
    ASSUME TypeOK, RingInv, rpc = "poll", rpc' # "poll", rung > 0, UNCHANGED <<cur, rung>>
    PROVE  Unseen = Unseen' \cup {cur} /\ cur \notin Unseen'
    <1>1. Lo = 0 /\ Lo' = 1 /\ rung \in Int /\ rung <= NBuffers /\ cur \in Buffers /\ NBuffers \in Nat
        BY FeatureAssumption DEF TypeOK, RingInv, Lo
    <1>2. Lo .. (rung - 1) = (Lo' .. (rung' - 1)) \cup {0}
        BY <1>1
    <1>3. Slot(cur + 0) = cur
        BY <1>1, SlotFacts
    <1>4. ASSUME NEW i \in Lo' .. (rung' - 1) PROVE Slot(cur + i) # cur
        <2>1. i \in Int /\ 0 < i /\ i < NBuffers
            BY <1>1
        <2> QED BY <1>1, <2>1, SlotFacts
    <1> QED BY <1>2, <1>3, <1>4 DEF Unseen

LEMMA AheadMove ==
    ASSUME TypeOK, rpc # "poll", NextBuffer
    PROVE  Unseen' = Unseen
    <1>1. /\ Lo = 1 /\ Lo' = 0 /\ rung \in Int /\ rung' = rung - 1 /\ cur \in Buffers
          /\ cur' = Slot(cur + 1)
        BY DEF NextBuffer, TypeOK, Lo, Slot
    <1>2. \A i \in Int : Slot(cur' + i) = Slot(cur + (i + 1))
        BY <1>1, SlotFacts
    <1>3. ASSUME NEW c \in Unseen PROVE c \in Unseen'
        <2>1. PICK i \in 1 .. (rung - 1) : c = Slot(cur + i)
            BY <1>1 DEF Unseen
        <2>2. i - 1 \in Lo' .. (rung' - 1) /\ (i - 1) + 1 = i /\ i - 1 \in Int
            BY <1>1
        <2>3. c = Slot(cur' + (i - 1))
            BY <1>2, <2>1, <2>2
        <2> QED BY <2>2, <2>3 DEF Unseen
    <1>4. ASSUME NEW c \in Unseen' PROVE c \in Unseen
        <2>1. PICK i \in 0 .. (rung' - 1) : c = Slot(cur' + i)
            BY <1>1 DEF Unseen
        <2>2. i + 1 \in Lo .. (rung - 1) /\ i \in Int
            BY <1>1
        <2>3. c = Slot(cur + (i + 1))
            BY <1>2, <2>1, <2>2
        <2> QED BY <2>2, <2>3 DEF Unseen
    <1> QED BY <1>3, <1>4

LEMMA AllBuffers ==
    ASSUME TypeOK
    PROVE  Unseen \subseteq Buffers /\ Sent \subseteq Buffers \cup {Hid2me} /\ Hid2me \notin Buffers
    <1>1. cur \in Buffers /\ Lo \in Int /\ rung \in Int
        BY DEF TypeOK, Lo
    <1>2. \A i \in Lo .. (rung - 1) : Slot(cur + i) \in Buffers
        BY <1>1, SlotFacts
    <1>3. \A k \in 1 .. Len(queue) : queue[k] \in Buffers \cup {Hid2me}
        BY DEF TypeOK
    <1> QED BY <1>2, <1>3, SlotFacts DEF Unseen, Sent

\* Steps that give no buffer to either side.
LEMMA RingKeep ==
    ASSUME RingInv, UNCHANGED <<queue, owner, fill, cur, rung>>, Lo' = Lo, Reading' => Reading
    PROVE  RingInv'
    BY DEF RingInv, Unseen, Sent, Unique

LEMMA RingFill ==
    ASSUME TypeOK, RingInv, NEW c, Fill(c)
    PROVE  /\ RingInv' /\ fill \notin Unseen /\ Unseen' = Unseen \cup {fill}
           /\ Reading => fill # cur
    <1>1. /\ owner[fill] = "me" /\ owner' = [owner EXCEPT ![fill] = "host"]
          /\ fill' = Slot(fill + 1) /\ rung' = rung + 1
          /\ UNCHANGED <<cur, rpc, queue>>
        BY DEF Fill, Slot
    <1>2. Unseen' = Unseen \cup {fill} /\ Lo' = Lo /\ Reading' = Reading
        BY <1>1, AheadFill DEF Lo, Reading
    <1>3. /\ fill \in Buffers /\ cur \in Buffers /\ rung \in Int /\ Lo \in {0, 1}
          /\ NBuffers \in Nat \ {0}
          /\ owner \in [Buffers -> {"me", "host"}]
        BY FeatureAssumption DEF TypeOK, Lo
    <1>4. fill \notin Unseen /\ fill \notin Sent /\ (Reading => fill # cur)
        <2>1. fill # Hid2me
            BY <1>3, SlotFacts
        <2> QED BY <1>1, <2>1 DEF RingInv
    <1>5. rung # NBuffers + Lo
        <2> SUFFICES ASSUME rung = NBuffers + Lo PROVE FALSE
            OBVIOUS
        <2>1. Lo \in Lo .. (rung - 1)
            BY <1>3
        <2>2. Slot(cur + (Lo + NBuffers)) = Slot(cur + Lo)
            BY <1>3, SlotFacts
        <2>3. Lo + NBuffers = rung
            BY <1>3
        <2>4. fill = Slot(cur + Lo)
            BY <2>2, <2>3 DEF RingInv
        <2> QED BY <1>4, <2>1, <2>4 DEF Unseen
    <1>6. fill' = Slot(cur' + rung')
        <2>1. Slot(Slot(cur + rung) + 1) = Slot(cur + (rung + 1))
            BY <1>3, SlotFacts
        <2> QED BY <1>1, <2>1 DEF RingInv
    <1>7. Lo' <= rung' /\ rung' <= NBuffers + Lo'
        <2>1. Lo <= rung /\ rung <= NBuffers + Lo
            BY DEF RingInv
        <2> QED BY <1>1, <1>2, <1>3, <1>5, <2>1
    <1>8. Sent' = Sent /\ \A b : Unique(b)' = Unique(b)
        BY <1>1 DEF Sent, Unique
    <1>9. \A b \in Buffers : b # fill => owner'[b] = owner[b]
        BY <1>1, <1>3
    <1>10. owner'[fill] = "host"
        BY <1>1, <1>3
    <1>11. /\ \A b \in Unseen' : owner'[b] = "host" /\ b \notin Sent'
           /\ Reading' => owner'[cur'] = "host" /\ cur' \notin Sent' /\ cur' \notin Unseen'
           /\ \A b \in Sent' \ {Hid2me} : owner'[b] = "host" /\ Unique(b)'
        <2>1. \A b \in Sent' \ {Hid2me} : owner'[b] = "host" /\ Unique(b)'
            BY <1>4, <1>8, <1>9, AllBuffers DEF RingInv
        <2>2. \A b \in Unseen' : owner'[b] = "host" /\ b \notin Sent'
            BY <1>2, <1>4, <1>8, <1>9, <1>10, AllBuffers DEF RingInv
        <2>3. Reading' => owner'[cur'] = "host" /\ cur' \notin Sent' /\ cur' \notin Unseen'
            BY <1>1, <1>2, <1>3, <1>4, <1>8, <1>9 DEF RingInv
        <2> QED BY <2>1, <2>2, <2>3
    <1> QED BY <1>2, <1>4, <1>6, <1>7, <1>11 DEF RingInv

\* The device has seen a command.
LEMMA RingShrinks ==
    ASSUME TypeOK, RingInv, RunRequest \/ Refill
    PROVE  RingInv' /\ Unseen' = Unseen
    <1>1. /\ queue # <<>> /\ queue' = Tail(queue) /\ UNCHANGED <<fill, cur, rung, rpc>>
          /\ \/ Head(queue) = Hid2me /\ owner' = owner
             \/ Head(queue) # Hid2me /\ owner' = [owner EXCEPT ![Head(queue)] = "me"]
        BY DEF RunRequest, Refill, thrVars
    <1>2. /\ Head(queue) \in Sent /\ Sent' \subseteq Sent /\ \A c : Unique(c) => Unique(c)'
          /\ Unique(Head(queue)) => Head(queue) \notin Sent'
        BY <1>1, QueueShrinks DEF TypeOK
    <1>3. Unseen' = Unseen /\ Lo' = Lo /\ Reading' = Reading
        BY <1>1 DEF Unseen, Lo, Reading
    <1>4. /\ \A b \in Buffers : b # Head(queue) \/ Head(queue) = Hid2me => owner'[b] = owner[b]
          /\ cur \in Buffers
        BY <1>1 DEF TypeOK
    <1>5. Head(queue) # Hid2me => Head(queue) \notin Sent' /\ Head(queue) \notin Unseen
                                   /\ (Reading => cur # Head(queue))
        BY <1>2 DEF RingInv
    <1>6. \A c \in Sent' \ {Hid2me} : owner'[c] = "host" /\ Unique(c)'
        BY <1>2, <1>4, <1>5, AllBuffers DEF RingInv
    <1>7. \A c \in Unseen' : owner'[c] = "host" /\ c \notin Sent'
        BY <1>2, <1>3, <1>4, <1>5, AllBuffers DEF RingInv
    <1>8. Reading' => owner'[cur'] = "host" /\ cur' \notin Sent' /\ cur' \notin Unseen'
        BY <1>1, <1>2, <1>3, <1>4, <1>5 DEF RingInv
    <1> QED BY <1>1, <1>3, <1>6, <1>7, <1>8 DEF RingInv

\* A command is sent: for the request buffer, or for the buffer the thread has read.
LEMMA RingGrows ==
    ASSUME TypeOK, RingInv, NEW x \in Buffers \cup {Hid2me}, queue' = Append(queue, x),
           UNCHANGED <<owner, fill, cur, rung>>, Lo' = Lo,
           \/ x = Hid2me /\ rpc' = rpc
           \/ x = cur /\ Reading /\ ~Reading'
    PROVE  RingInv' /\ Unseen' = Unseen
    <1>1. /\ Sent' = Sent \cup {x} /\ (\A c : c # x /\ Unique(c) => Unique(c)')
          /\ x \notin Sent => Unique(x)'
        BY QueueGrows DEF TypeOK
    <1>2. Unseen' = Unseen
        BY DEF Unseen
    <1>3. Hid2me \notin Buffers /\ cur \in Buffers /\ Unseen \subseteq Buffers
        BY AllBuffers DEF TypeOK
    <1>4. CASE x = Hid2me /\ rpc' = rpc
        <2>1. Reading' = Reading
            BY <1>4 DEF Reading
        <2> QED BY <1>1, <1>2, <1>3, <1>4, <2>1 DEF RingInv
    <1>5. CASE x = cur /\ Reading /\ ~Reading'
        BY <1>1, <1>2, <1>3, <1>5 DEF RingInv
    <1> QED BY <1>4, <1>5

\* The thread takes the next buffer, and is done with it.
LEMMA RingTake ==
    ASSUME TypeOK, RingInv, Input
    PROVE  RingInv' /\ Unseen = Unseen' \cup {cur} /\ cur \notin Unseen'
    <1>1. /\ rpc = "poll" /\ rpc' # "poll" /\ rung > 0
          /\ UNCHANGED <<queue, owner, fill, cur, rung>>
        BY DEF Input, devVars
    <1>2. Unseen = Unseen' \cup {cur} /\ cur \notin Unseen'
        BY <1>1, AheadTake
    <1>3. Lo = 0 /\ Lo' = 1 /\ rung \in Int /\ NBuffers \in Int
        BY <1>1, FeatureAssumption DEF Lo, TypeOK
    <1>4. Sent' = Sent /\ \A b : Unique(b)' = Unique(b)
        BY <1>1 DEF Sent, Unique
    <1>5. Lo' <= rung' /\ rung' <= NBuffers + Lo'
        BY <1>1, <1>3 DEF RingInv
    <1> QED BY <1>1, <1>2, <1>4, <1>5 DEF RingInv

LEMMA RingMove ==
    ASSUME TypeOK, RingInv, rpc # "poll", NextBuffer, UNCHANGED <<queue, owner, fill>>
    PROVE  RingInv' /\ Unseen' = Unseen
    <1>1. Unseen' = Unseen
        BY AheadMove
    <1>2. Lo = 1 /\ Lo' = 0 /\ rung \in Int /\ rung' = rung - 1 /\ NBuffers \in Int /\ ~Reading'
          /\ cur \in Buffers /\ cur' = Slot(cur + 1)
        BY FeatureAssumption DEF Lo, TypeOK, NextBuffer, Reading, Slot
    <1>3. Sent' = Sent /\ \A b : Unique(b)' = Unique(b)
        BY DEF Sent, Unique
    <1>4. fill' = Slot(cur' + rung')
        <2>1. Slot(Slot(cur + 1) + (rung - 1)) = Slot(cur + ((rung - 1) + 1))
            BY <1>2, SlotFacts
        <2>2. (rung - 1) + 1 = rung
            BY <1>2
        <2> QED BY <1>2, <2>1, <2>2 DEF RingInv
    <1>5. Lo' <= rung' /\ rung' <= NBuffers + Lo'
        BY <1>2 DEF RingInv
    <1> QED BY <1>1, <1>2, <1>3, <1>4, <1>5 DEF RingInv

LEMMA RingStep ==
    ASSUME TypeOK, RingInv, [Next]_vars
    PROVE  RingInv'
    <1>1. CASE Device
        BY <1>1, RingFill, RingShrinks DEF Device
    <1>2. CASE Input
        BY <1>2, RingTake
    <1>3. CASE Complete
        BY <1>3, RingKeep DEF Complete, devVars, Lo, Reading
    <1>4. CASE SendRefill
        <2>1. CASE queue' = Append(queue, cur) /\ rpc' = "ack" /\ UNCHANGED <<cur, rung>>
            <3>1. UNCHANGED <<owner, fill>> /\ Lo' = Lo /\ Reading /\ ~Reading' /\ cur \in Buffers
                BY <1>4, <2>1 DEF SendRefill, Lo, Reading, TypeOK
            <3> QED BY <2>1, <3>1, RingGrows
        <2>2. CASE NextBuffer /\ UNCHANGED queue
            <3>1. UNCHANGED <<owner, fill>> /\ rpc # "poll"
                BY <1>4 DEF SendRefill
            <3> QED BY <2>2, <3>1, RingMove
        <2> QED BY <1>4, <2>1, <2>2 DEF SendRefill
    <1>5. CASE RecvRefill
        <2>1. NextBuffer /\ rpc # "poll" /\ UNCHANGED <<queue, owner, fill>>
            BY <1>5 DEF RecvRefill, devVars
        <2> QED BY <2>1, RingMove
    <1>6. ASSUME NEW t \in Tasks, Send(t) PROVE RingInv'
        <2>1. UNCHANGED <<owner, fill, cur, rung, rpc>> /\ queue' \in {queue, Append(queue, Hid2me)}
            BY <1>6 DEF Send, thrVars
        <2>2. Lo' = Lo /\ Reading' = Reading
            BY <2>1 DEF Lo, Reading
        <2> QED BY <2>1, <2>2, RingKeep, RingGrows
    <1>7. ASSUME NEW t \in Tasks,
                 \/ Lock(t) \/ Write(t) \/ Recv(t) \/ Wait(t) \/ Copy(t) \/ Out(t)
                 \/ \E k \in Kinds : Request(t, k)
          PROVE  RingInv'
        <2>1. UNCHANGED <<queue, owner, fill, cur, rung, rpc>>
            BY <1>7 DEF Lock, Write, Recv, Wait, Copy, Out, Request, devVars, thrVars
        <2> QED BY <2>1, RingKeep DEF Lo, Reading
    <1>8. CASE UNCHANGED vars
        BY <1>8, RingKeep DEF vars, devVars, thrVars, Lo, Reading
    <1> QED BY <1>1, <1>2, <1>3, <1>4, <1>5, <1>6, <1>7, <1>8 DEF Next, Receiver, Step

-----------------------------------------------------------------------------
(* Types *)

LEMMA TypeStep ==
    ASSUME TypeOK, RingInv, RingInv', [Next]_vars
    PROVE  TypeOK'
    <1>c. /\ Report = 0 /\ Report \notin Requests
          /\ MaxUnread \in Nat \ {0} /\ Kinds \subseteq {"get", "set"}
          /\ Posted \in 0 .. MaxUnread
        BY FeatureAssumption DEF TypeOK, Report, Requests, Posted
    <1>1. ASSUME UNCHANGED <<pc, req, kind, res, got, smooth, lock, report, event, hid2me>>,
                 queue' \in Seq(Buffers \cup {Hid2me}), owner' \in [Buffers -> {"me", "host"}],
                 content' \in [Buffers -> Requests \cup {Report}], fill' \in Buffers,
                 gets' \subseteq Requests, unread' \in 0 .. MaxUnread,
                 UNCHANGED <<rpc, cur>>, rung' \in 0 .. NBuffers + 1
          PROVE  TypeOK'
        BY <1>1 DEF TypeOK
    <1>2. CASE RunRequest \/ Refill
        <2>1. queue' \in Seq(Buffers \cup {Hid2me}) /\ Head(queue) \in Buffers \cup {Hid2me}
            BY <1>2, QueueShrinks DEF RunRequest, Refill, TypeOK
        <2>2. owner' \in [Buffers -> {"me", "host"}]
            BY <1>2, <2>1 DEF RunRequest, Refill, TypeOK
        <2>3. gets' \subseteq Requests
            BY <1>2, <1>c DEF RunRequest, Refill, TypeOK
        <2> QED BY <1>1, <1>2, <1>c, <2>1, <2>2, <2>3
                DEF RunRequest, Refill, thrVars, taskVars, TypeOK
    <1>3. ASSUME NEW c \in Requests \cup {Report}, Fill(c) PROVE TypeOK'
        <2>1. fill' \in Buffers
            <3>1. Slot(fill + 1) \in Buffers
                BY SlotFacts DEF TypeOK
            <3> QED BY <1>3, <3>1 DEF Fill, Slot
        <2>2. rung' \in 0 .. NBuffers + 1
            <3>1. rung' \in Int /\ NBuffers \in Nat
                BY <1>3, FeatureAssumption DEF Fill, TypeOK
            <3>2. Lo' = 0 \/ Lo' = 1
                BY DEF Lo
            <3>3. Lo' <= rung' /\ rung' <= NBuffers + Lo'
                BY DEF RingInv
            <3> QED BY <3>1, <3>2, <3>3
        <2>3. owner' \in [Buffers -> {"me", "host"}] /\ content' \in [Buffers -> Requests \cup {Report}]
              /\ gets' \subseteq Requests
            BY <1>3 DEF Fill, TypeOK
        <2> QED BY <1>1, <1>3, <2>1, <2>2, <2>3 DEF Fill, sharedVars, taskVars, TypeOK
    <1>4. CASE Receiver
        <2>1. rpc # "poll" /\ NextBuffer =>
                cur' \in Buffers /\ rung' \in 0 .. NBuffers + 1 /\ rpc' = "poll"
            <3>1. Slot(cur + 1) \in Buffers
                BY SlotFacts DEF TypeOK
            <3>2. rpc # "poll" => 1 <= rung /\ rung \in 0 .. NBuffers + 1 /\ NBuffers \in Nat
                BY FeatureAssumption DEF RingInv, TypeOK, Lo
            <3> QED BY <3>1, <3>2 DEF NextBuffer, Slot
        <2>2. CASE Input \/ Complete
            BY <2>2 DEF Input, Complete, devVars, taskVars, TypeOK
        <2>3. CASE SendRefill
            <3>1. UNCHANGED <<owner, content, fill, gets, sharedVars, taskVars>> /\ rpc # "poll"
                BY <2>3 DEF SendRefill
            <3>2. CASE queue' = Append(queue, cur) /\ rpc' = "ack" /\ Fine /\ UNCHANGED <<cur, rung>>
                BY <3>1, <3>2 DEF TypeOK, sharedVars, taskVars, Fine
            <3>3. CASE Trouble("send") /\ NextBuffer /\ UNCHANGED queue
                BY <2>1, <3>1, <3>3 DEF TypeOK, sharedVars, taskVars, Trouble
            <3> QED BY <2>3, <3>2, <3>3 DEF SendRefill
        <2>4. CASE RecvRefill
            <3>1. /\ rpc # "poll" /\ NextBuffer
                  /\ UNCHANGED <<devVars, hid2me, lock, event, report, taskVars>>
                  /\ unread' = unread \/ (unread > 0 /\ unread' = unread - 1)
                  /\ smooth' = smooth \/ smooth' = FALSE
                BY <2>4, Zenon DEF RecvRefill, GivesUp, Trouble, Fine
            <3>2. unread' \in 0 .. MaxUnread /\ smooth' \in BOOLEAN
                <4>1. smooth' \in BOOLEAN
                    BY <3>1, Zenon DEF TypeOK
                <4>2. unread \in Int /\ 0 <= unread /\ unread <= MaxUnread
                    BY <1>c DEF TypeOK
                <4> QED BY <1>c, <3>1, <4>1, <4>2
            <3> QED BY <2>1, <3>1, <3>2 DEF devVars, taskVars, TypeOK
        <2> QED BY <1>4, <2>2, <2>3, <2>4 DEF Receiver
    <1>5. ASSUME NEW t \in Tasks, NEW k \in Kinds, Request(t, k) PROVE TypeOK'
        <2>1. req' \in [Tasks -> Requests \cup {0}]
            BY <1>5 DEF Request, TypeOK
        <2>2. kind' \in [Tasks -> {"get", "set", "none"}] /\ smooth' \in BOOLEAN
            BY <1>5, <1>c DEF Request, TypeOK
        <2>3. pc' \in [Tasks -> {"idle", "lock", "write", "send", "recv", "wait", "copy", "out"}]
            BY <1>5 DEF Request, Go, TypeOK
        <2>4. UNCHANGED <<devVars, sharedVars, thrVars, res, got>>
            BY <1>5 DEF Request
        <2> QED BY <2>1, <2>2, <2>3, <2>4 DEF devVars, sharedVars, thrVars, TypeOK
    <1>6. ASSUME NEW t \in Tasks, Step(t) PROVE TypeOK'
        <2> USE <1>c DEF TypeOK, Go, End, Fail, Trouble, Fine, GivesUp
        <2>1. CASE Lock(t)
            BY <2>1 DEF Lock, devVars, thrVars
        <2>2. CASE Write(t)
            BY <2>2 DEF Write, devVars, thrVars
        <2>3. CASE Send(t)
            <3>1. queue' \in Seq(Buffers \cup {Hid2me})
                BY <2>3 DEF Send
            <3> QED BY <2>3, <3>1 DEF Send, sharedVars, thrVars
        <2>4. CASE Recv(t)
            <3>1. /\ unread' = unread \/ (unread > 0 /\ unread' = unread - 1)
                  /\ smooth' = smooth \/ smooth' = FALSE
                  /\ UNCHANGED <<devVars, hid2me, lock, event, report, thrVars, req, kind>>
                BY <2>4, Zenon DEF Recv
            <3>2. unread' \in 0 .. MaxUnread /\ smooth' \in BOOLEAN
                <4>1. smooth' \in BOOLEAN
                    BY <3>1, Zenon
                <4>2. unread \in Int /\ 0 <= unread /\ unread <= MaxUnread
                    OBVIOUS
                <4> QED BY <3>1, <4>1, <4>2
            <3>3. /\ pc' \in [Tasks -> {"idle", "lock", "write", "send", "recv", "wait", "copy", "out"}]
                  /\ res' \in [Tasks -> {"none", "ok", "error"}] /\ got' = got
                BY <2>4 DEF Recv
            <3> QED BY <3>1, <3>2, <3>3 DEF devVars, thrVars
        <2>5. CASE Wait(t)
            BY <2>5 DEF Wait, devVars, sharedVars, thrVars
        <2>6. CASE Copy(t)
            <3>1. UNCHANGED <<devVars, sharedVars, thrVars, req, kind>>
                BY <2>6 DEF Copy
            <3>2. got' = got \/ (report # None /\ got' = [got EXCEPT ![t] = content[report]])
                BY <2>6 DEF Copy
            <3>3. got' \in [Tasks -> Requests \cup {Report, None}]
                BY <3>2
            <3>4. /\ pc' \in [Tasks -> {"idle", "lock", "write", "send", "recv", "wait", "copy", "out"}]
                  /\ res' \in [Tasks -> {"none", "ok", "error"}]
                BY <2>6 DEF Copy
            <3>5. smooth' \in BOOLEAN
                BY <2>6 DEF Copy
            <3> QED BY <3>1, <3>3, <3>4, <3>5 DEF devVars, sharedVars, thrVars
        <2>7. CASE Out(t)
            BY <2>7 DEF Out, devVars, thrVars
        <2> QED BY <1>6, <2>1, <2>2, <2>3, <2>4, <2>5, <2>6, <2>7 DEF Step
    <1>7. CASE UNCHANGED vars
        BY <1>7 DEF vars, devVars, sharedVars, thrVars, taskVars, TypeOK
    <1> QED BY <1>2, <1>3, <1>4, <1>5, <1>6, <1>7 DEF Next, Device

LEMMA RingInit == Init => TypeOK /\ RingInv
    <1> SUFFICES ASSUME Init PROVE TypeOK /\ RingInv
        OBVIOUS
    <1>1. NBuffers \in Nat \ {0} /\ 0 \in Buffers /\ MaxUnread \in Nat
        BY FeatureAssumption DEF Buffers
    <1>2. TypeOK
        BY <1>1 DEF Init, TypeOK, Report
    <1>3. Slot(0 + 0) = 0
        BY <1>1, SlotFacts
    <1>4. Lo = 0 /\ Unseen = {} /\ Sent = {} /\ ~Reading
        BY DEF Init, Lo, Unseen, Sent, Reading
    <1> QED BY <1>1, <1>2, <1>3, <1>4 DEF Init, RingInv

\* Every variable has its type in every reachable state: ipts->feature_report
\* points into a data buffer or is NULL, and the thread is never more than the
\* ring behind the doorbell.
THEOREM TypeCorrect == Spec => []TypeOK
    <1>1. TypeOK /\ RingInv /\ [Next]_vars => TypeOK' /\ RingInv'
        BY RingStep, TypeStep
    <1> QED BY <1>1, RingInit, PTL DEF Spec

-----------------------------------------------------------------------------
(* One request at a time, as long as nothing is late or fails *)

\* There is room for the responses to the two commands that can be unanswered then:
\* one of the thread and one of the task that holds the mutex.
Roomy == MaxUnread >= 2

TaskInv == \A t \in Tasks :
    /\ kind[t] \in {"get", "none"} /\ (kind[t] = "none" <=> pc[t] = "idle")
    /\ pc[t] # "idle" => req[t] \in Requests
    /\ res[t] # "error" /\ got[t] \in {None, Report, req[t]}
    /\ pc[t] # "out" => got[t] = None

\* For every wait for a response there is a command or a response.
Acking == IF rpc = "ack" THEN 1 ELSE 0
Recving == IF lock # None /\ pc[lock] = "recv" THEN 1 ELSE 0
FlowInv == Len(queue) + unread = Acking + Recving

\* Where the answer to the one request is: not asked for, in the queue, asked for
\* in the device, in a buffer, pointed out, or known to the task.
AnswersAhead == {c \in Unseen : content[c] # Report}
NoneAhead == gets = {} /\ AnswersAhead = {}
NoAnswer == Hid2me \notin Sent /\ NoneAhead /\ rpc # "complete"

Unasked ==
    /\ NoAnswer
    /\ lock # None =>
         /\ pc[lock] \in {"write", "send"} /\ ~event /\ report = None
         /\ pc[lock] = "send" => hid2me = req[lock]

Waits == lock # None /\ pc[lock] \in {"recv", "wait"} /\ ~event

Queued ==
    /\ Waits /\ report = None
    /\ Hid2me \in Sent /\ Unique(Hid2me) /\ hid2me = req[lock]
    /\ NoneAhead /\ rpc # "complete"

Running ==
    /\ Waits /\ report = None
    /\ Hid2me \notin Sent /\ gets = {req[lock]} /\ AnswersAhead = {} /\ rpc # "complete"

Filled ==
    /\ Waits /\ report = None
    /\ Hid2me \notin Sent /\ gets = {} /\ rpc # "complete"
    /\ \E c \in Buffers : AnswersAhead = {c} /\ content[c] = req[lock]

Shown ==
    /\ Waits /\ report = cur
    /\ Hid2me \notin Sent /\ NoneAhead /\ rpc = "complete"
    /\ content[cur] = req[lock]

Answered ==
    /\ lock # None /\ pc[lock] \in {"recv", "wait", "copy", "out"}
    /\ NoAnswer
    /\ event /\ report # None /\ content[report] \in {Report, req[lock]}

Token == Unasked \/ Queued \/ Running \/ Filled \/ Shown \/ Answered

Calm == TaskInv /\ FlowInv /\ Token
SmoothInv == smooth => Calm

\* What the task with the mutex knows does not change.
holderVars == <<lock, pc, req, event, report, hid2me>>

\* Steps that leave the answer where it is.
LEMMA TokenKeep ==
    ASSUME Token, UNCHANGED <<holderVars, gets, AnswersAhead>>,
           Hid2me \in Sent' <=> Hid2me \in Sent, Unique(Hid2me) => Unique(Hid2me)',
           rpc' = "complete" <=> rpc = "complete",
           UNCHANGED <<cur, content>> \/ (cur' # cur /\ rpc # "complete" /\ UNCHANGED content)
    PROVE  Token'
    BY DEF Token, Unasked, Queued, Running, Filled, Shown, Answered, Waits, NoAnswer, NoneAhead,
           holderVars

LEMMA TaskKeep ==
    ASSUME TaskInv, UNCHANGED taskVars
    PROVE  TaskInv'
    BY DEF TaskInv, taskVars

\* A response for every command the device has seen.
LEMMA FlowDevice ==
    ASSUME Roomy, TypeOK, FlowInv, RunRequest \/ Refill
    PROVE  FlowInv'
    <1>1. /\ queue # <<>> /\ queue' = Tail(queue) /\ unread' = Posted
          /\ UNCHANGED <<rpc, lock, pc>>
        BY DEF RunRequest, Refill, thrVars, taskVars
    <1>2. Len(queue') = Len(queue) - 1 /\ Len(queue) \in Nat /\ Len(queue) >= 1
        <2>1. Len(queue') = Len(queue) - 1
            BY <1>1, QueueShrinks DEF TypeOK
        <2> QED BY <1>1, <2>1 DEF TypeOK
    <1>3. Acking \in {0, 1} /\ Recving \in {0, 1} /\ Acking' = Acking /\ Recving' = Recving
        BY <1>1 DEF Acking, Recving
    <1>4. unread \in Int /\ MaxUnread \in Int /\ MaxUnread >= 2
        BY FeatureAssumption DEF TypeOK, Roomy
    <1>5. unread' = unread + 1
        BY <1>1, <1>2, <1>3, <1>4 DEF Posted, FlowInv
    <1> QED BY <1>2, <1>3, <1>4, <1>5 DEF FlowInv

LEMMA CalmRunRequest ==
    ASSUME Roomy, TypeOK, RingInv, Calm, RunRequest
    PROVE  Calm'
    <1>1. /\ queue # <<>> /\ Head(queue) = Hid2me /\ queue' = Tail(queue)
          /\ gets' = gets \cup ({hid2me} \ {Report})
          /\ UNCHANGED <<content, cur, rpc, holderVars, taskVars>>
        BY DEF RunRequest, thrVars, taskVars, holderVars
    <1>2. Hid2me \in Sent /\ (Unique(Hid2me) => Hid2me \notin Sent')
        BY <1>1, QueueShrinks DEF TypeOK
    <1>3. Queued
        BY <1>2 DEF Calm, Token, Unasked, Running, Filled, Shown, Answered, NoAnswer
    <1>4. AnswersAhead' = AnswersAhead
        BY <1>1, RingShrinks DEF AnswersAhead
    <1>5. req[lock] \in Requests /\ Report \notin Requests
        BY <1>3 DEF Queued, Waits, Calm, TaskInv, TypeOK, Report, Requests
    <1>6. Running'
        BY <1>1, <1>2, <1>3, <1>4, <1>5 DEF Queued, Running, Waits, NoneAhead, holderVars
    <1> QED BY <1>1, <1>6, FlowDevice, TaskKeep DEF Calm, Token

LEMMA CalmRefill ==
    ASSUME Roomy, TypeOK, RingInv, Calm, Refill
    PROVE  Calm'
    <1>1. /\ queue # <<>> /\ Head(queue) # Hid2me /\ queue' = Tail(queue)
          /\ UNCHANGED <<content, cur, rpc, gets, holderVars, taskVars>>
        BY DEF Refill, thrVars, taskVars, holderVars
    <1>2. (Hid2me \in Sent' <=> Hid2me \in Sent) /\ (Unique(Hid2me) => Unique(Hid2me)')
        BY <1>1, QueueShrinks DEF TypeOK
    <1>3. AnswersAhead' = AnswersAhead
        BY <1>1, RingShrinks DEF AnswersAhead
    <1>4. Token'
        BY <1>1, <1>2, <1>3, TokenKeep DEF Calm
    <1> QED BY <1>1, <1>4, FlowDevice, TaskKeep DEF Calm

LEMMA CalmFill ==
    ASSUME TypeOK, RingInv, Calm, NEW c, Fill(c)
    PROVE  Calm'
    <1>1. /\ content' = [content EXCEPT ![fill] = c] /\ gets' = gets \ {c}
          /\ c \in gets \cup {Report}
          /\ UNCHANGED <<queue, cur, rpc, unread, holderVars, taskVars>>
        BY DEF Fill, sharedVars, taskVars, holderVars
    <1>2. /\ fill \notin Unseen /\ Unseen' = Unseen \cup {fill} /\ (Reading => fill # cur)
          /\ Unseen \subseteq Buffers /\ fill \in Buffers /\ cur \in Buffers
        BY RingFill, AllBuffers DEF TypeOK
    <1>3. content'[fill] = c /\ \A b \in Buffers : b # fill => content'[b] = content[b]
        BY <1>1, <1>2 DEF TypeOK
    <1>4. Sent' = Sent /\ Unique(Hid2me)' = Unique(Hid2me)
        BY <1>1 DEF Sent, Unique
    <1>5. TaskInv' /\ FlowInv'
        BY <1>1, TaskKeep DEF Calm, FlowInv, Acking, Recving, holderVars
    <1>6. Report \notin gets /\ Report \notin Requests
        BY DEF TypeOK, Report, Requests
    <1>7. CASE c = Report
        <2>1. gets' = gets /\ AnswersAhead' = AnswersAhead
            BY <1>1, <1>2, <1>3, <1>6, <1>7 DEF AnswersAhead
        <2>2. Unasked \/ Queued \/ Running => Token'
            BY <1>1, <1>4, <2>1 DEF Token, Unasked, Queued, Running, Waits, NoAnswer, NoneAhead, holderVars
        <2>3. Filled => Filled'
            BY <1>1, <1>2, <1>3, <1>4, <2>1 DEF Filled, Waits, AnswersAhead, holderVars
        <2>4. Shown => Shown'
            BY <1>1, <1>2, <1>3, <1>4, <2>1 DEF Shown, Waits, NoneAhead, holderVars, Reading
        <2>5. Answered => Answered'
            <3>1. report # None => report \in Buffers
                BY DEF TypeOK
            <3> QED BY <1>1, <1>3, <1>4, <1>7, <2>1, <3>1 DEF Answered, NoAnswer, NoneAhead, holderVars
        <2> QED BY <1>5, <2>2, <2>3, <2>4, <2>5 DEF Calm, Token
    <1>8. CASE c # Report
        <2>1. c \in gets
            BY <1>1, <1>8
        <2>2. Running /\ c = req[lock]
            BY <2>1 DEF Calm, Token, Unasked, Queued, Running, Filled, Shown, Answered, NoAnswer, NoneAhead
        <2>3. gets' = {} /\ AnswersAhead' = {fill}
            BY <1>1, <1>2, <1>3, <1>8, <2>2 DEF Running, AnswersAhead
        <2>4. Filled'
            BY <1>1, <1>2, <1>3, <1>4, <2>2, <2>3 DEF Running, Filled, Waits, holderVars
        <2> QED BY <1>5, <2>4 DEF Calm, Token
    <1> QED BY <1>7, <1>8

LEMMA CalmInput ==
    ASSUME TypeOK, RingInv, Calm, Input
    PROVE  Calm'
    <1>1. /\ rpc = "poll" /\ UNCHANGED <<queue, gets, content, cur, unread, lock, pc, req, event, hid2me,
                                         taskVars>>
          /\ IF content[cur] # Report
             THEN rpc' = "complete" /\ report' = cur
             ELSE rpc' = "refill" /\ UNCHANGED report
        BY DEF Input, devVars, taskVars
    <1>2. Unseen = Unseen' \cup {cur} /\ cur \notin Unseen'
        BY RingTake
    <1>3. Sent' = Sent /\ Unique(Hid2me)' = Unique(Hid2me)
        BY <1>1 DEF Sent, Unique
    <1>4. TaskInv' /\ FlowInv'
        BY <1>1, TaskKeep DEF Calm, FlowInv, Acking, Recving
    <1>5. CASE content[cur] # Report
        <2>1. cur \in AnswersAhead
            BY <1>2, <1>5 DEF AnswersAhead
        <2>2. Filled /\ AnswersAhead = {cur} /\ content[cur] = req[lock]
            BY <2>1 DEF Calm, Token, Unasked, Queued, Running, Filled, Shown, Answered, NoAnswer, NoneAhead
        <2>3. AnswersAhead' = {}
            BY <1>1, <1>2, <2>2 DEF AnswersAhead
        <2>4. Shown'
            BY <1>1, <1>3, <1>5, <2>2, <2>3 DEF Filled, Shown, Waits, NoneAhead
        <2> QED BY <1>4, <2>4 DEF Calm, Token
    <1>6. CASE content[cur] = Report
        <2>1. AnswersAhead' = AnswersAhead /\ rpc' # "complete"
            BY <1>1, <1>2, <1>6 DEF AnswersAhead
        <2>2. Token'
            BY <1>1, <1>3, <1>6, <2>1, TokenKeep DEF Calm, holderVars
        <2> QED BY <1>4, <2>2 DEF Calm
    <1> QED BY <1>5, <1>6

LEMMA CalmComplete ==
    ASSUME TypeOK, Calm, Complete
    PROVE  Calm'
    <1>1. /\ rpc = "complete" /\ rpc' = "refill" /\ event'
          /\ UNCHANGED <<queue, gets, content, cur, rung, unread, lock, pc, req, report, hid2me, taskVars>>
        BY DEF Complete, devVars, taskVars
    <1>2. Shown
        BY <1>1 DEF Calm, Token, Unasked, Queued, Running, Filled, Answered, NoAnswer
    <1>3. Unseen' = Unseen /\ Sent' = Sent
        BY <1>1 DEF Unseen, Sent, Lo
    <1>4. TaskInv' /\ FlowInv'
        BY <1>1, TaskKeep DEF Calm, FlowInv, Acking, Recving
    <1>5. cur # None
        BY FeatureAssumption DEF TypeOK, Buffers
    <1>6. Answered'
        BY <1>1, <1>2, <1>3, <1>5 DEF Shown, Waits, Answered, NoAnswer, NoneAhead, AnswersAhead
    <1> QED BY <1>4, <1>6 DEF Calm, Token

LEMMA CalmSendRefill ==
    ASSUME TypeOK, RingInv, Calm, SendRefill, smooth'
    PROVE  Calm'
    <1>1. /\ queue' = Append(queue, cur) /\ rpc = "refill" /\ rpc' = "ack"
          /\ UNCHANGED <<owner, content, fill, cur, rung, gets, unread, holderVars, taskVars>>
        BY DEF SendRefill, Trouble, sharedVars, taskVars, holderVars
    <1>2. /\ Hid2me \in Sent' <=> Hid2me \in Sent
          /\ Unique(Hid2me) => Unique(Hid2me)'
          /\ Len(queue') = Len(queue) + 1 /\ Len(queue) \in Int /\ unread \in Int
        <2>1. cur \in Buffers \cup {Hid2me} /\ cur # Hid2me
            BY AllBuffers DEF TypeOK
        <2>2. Len(queue') = Len(queue) + 1 /\ Sent' = Sent \cup {cur}
              /\ (Unique(Hid2me) => Unique(Hid2me)')
            BY <1>1, <2>1, QueueGrows DEF TypeOK
        <2>3. Len(queue) \in Int /\ unread \in Int
            BY DEF TypeOK
        <2> QED BY <2>1, <2>2, <2>3
    <1>3. AnswersAhead' = AnswersAhead
        BY <1>1 DEF AnswersAhead, Unseen, Lo
    <1>4. FlowInv'
        <2>1. Acking = 0 /\ Acking' = 1 /\ Recving' = Recving /\ Recving \in {0, 1}
            BY <1>1 DEF Acking, Recving, holderVars
        <2> QED BY <1>1, <1>2, <2>1 DEF Calm, FlowInv
    <1>5. Token'
        BY <1>1, <1>2, <1>3, TokenKeep DEF Calm
    <1> QED BY <1>1, <1>4, <1>5, TaskKeep DEF Calm

LEMMA CalmRecvRefill ==
    ASSUME TypeOK, RingInv, Calm, RecvRefill, smooth'
    PROVE  Calm'
    <1>1. /\ rpc = "ack" /\ NextBuffer
          /\ UNCHANGED <<queue, owner, content, fill, gets, holderVars, taskVars>>
          /\ \/ unread > 0 /\ unread' = unread - 1
             \/ unread = 0 /\ queue = <<>>
        BY DEF RecvRefill, GivesUp, Trouble, devVars, taskVars, holderVars
    <1>2. unread > 0 /\ unread' = unread - 1
        <2>1. Acking = 1 /\ Recving \in {0, 1}
            BY <1>1 DEF Acking, Recving
        <2> SUFFICES ASSUME unread = 0, queue = <<>> PROVE FALSE
            BY <1>1
        <2>2. Len(queue) = 0
            OBVIOUS
        <2> QED BY <2>1, <2>2 DEF Calm, FlowInv
    <1>3. FlowInv'
        <2>1. Acking = 1 /\ Acking' = 0 /\ Recving' = Recving /\ Recving \in {0, 1}
            BY <1>1 DEF Acking, Recving, holderVars, NextBuffer
        <2>2. Len(queue) \in Int /\ unread \in Int
            BY DEF TypeOK
        <2> QED BY <1>1, <1>2, <2>1, <2>2 DEF Calm, FlowInv
    <1>4. AnswersAhead' = AnswersAhead
        <2>1. Unseen' = Unseen
            BY <1>1, RingMove
        <2> QED BY <1>1, <2>1 DEF AnswersAhead
    <1>5. Token'
        <2>1. rpc # "complete" /\ rpc' # "complete" /\ Sent' = Sent /\ Unique(Hid2me)' = Unique(Hid2me)
            BY <1>1 DEF NextBuffer, Sent, Unique
        <2> QED BY <1>1, <1>4, <2>1, TokenKeep DEF Calm
    <1> QED BY <1>1, <1>3, <1>5, TaskKeep DEF Calm

\* A task begins a request: it is not the one with the mutex.
LEMMA CalmRequest ==
    ASSUME TypeOK, LockInv, Calm, NEW t \in Tasks, NEW k \in Kinds, Request(t, k), smooth'
    PROVE  Calm'
    <1>1. /\ pc[t] = "idle" /\ pc' = [pc EXCEPT ![t] = "lock"] /\ kind' = [kind EXCEPT ![t] = "get"]
          /\ k = "get"
          /\ UNCHANGED <<devVars, sharedVars, thrVars, res, got>>
        BY DEF Request, Go
    <1>2. PICK n \in Requests : req' = [req EXCEPT ![t] = n]
        BY DEF Request
    <1>3. lock # t /\ (lock # None => lock \in Tasks)
        BY <1>1 DEF LockInv, LockHeldInside, TypeOK
    <1>4. lock # None => pc'[lock] = pc[lock] /\ req'[lock] = req[lock]
        BY <1>1, <1>2, <1>3 DEF TypeOK
    <1>5. TaskInv'
        <2> SUFFICES ASSUME NEW u \in Tasks
                     PROVE  /\ kind'[u] \in {"get", "none"} /\ (kind'[u] = "none" <=> pc'[u] = "idle")
                            /\ pc'[u] # "idle" => req'[u] \in Requests
                            /\ res'[u] # "error" /\ got'[u] \in {None, Report, req'[u]}
                            /\ pc'[u] # "out" => got'[u] = None
            BY DEF TaskInv
        <2>1. CASE u = t
            BY <1>1, <1>2, <2>1 DEF Calm, TaskInv, TypeOK
        <2>2. CASE u # t
            BY <1>1, <1>2, <2>2 DEF Calm, TaskInv, TypeOK
        <2> QED BY <2>1, <2>2
    <1>6. FlowInv'
        BY <1>1, <1>4 DEF Calm, FlowInv, Acking, Recving, devVars, sharedVars, thrVars
    <1>7. Token'
        <2>1. /\ AnswersAhead' = AnswersAhead /\ Sent' = Sent /\ Unique(Hid2me)' = Unique(Hid2me)
              /\ UNCHANGED <<gets, rpc, cur, content, lock, event, report, hid2me>>
            BY <1>1 DEF AnswersAhead, Unseen, Lo, Sent, Unique, devVars, sharedVars, thrVars
        <2> QED BY <1>4, <2>1 DEF Calm, Token, Unasked, Queued, Running, Filled, Shown, Answered,
                                  Waits, NoAnswer, NoneAhead
    <1> QED BY <1>5, <1>6, <1>7 DEF Calm

\* What the other tasks know of themselves does not change.
LEMMA TaskOwn ==
    ASSUME TypeOK, TaskInv, NEW t \in Tasks, NEW l, l # "idle",
           pc[t] # "idle", pc' = [pc EXCEPT ![t] = l], UNCHANGED <<req, kind>>,
           res'[t] # "error", got'[t] \in {None, Report, req[t]}, l # "out" => got'[t] = None,
           \A u \in Tasks : u # t => res'[u] = res[u] /\ got'[u] = got[u]
    PROVE  TaskInv'
    <1> SUFFICES ASSUME NEW u \in Tasks
                 PROVE  /\ kind'[u] \in {"get", "none"} /\ (kind'[u] = "none" <=> pc'[u] = "idle")
                        /\ pc'[u] # "idle" => req'[u] \in Requests
                        /\ res'[u] # "error" /\ got'[u] \in {None, Report, req'[u]}
                        /\ pc'[u] # "out" => got'[u] = None
        BY DEF TaskInv
    <1>1. CASE u = t
        BY <1>1 DEF TaskInv, TypeOK
    <1>2. CASE u # t
        BY <1>2 DEF TaskInv, TypeOK
    <1> QED BY <1>1, <1>2

\* While all is calm a task between lock and unlock holds the mutex.
LEMMA Holder ==
    ASSUME TypeOK, LockInv, TaskInv, NEW t \in Tasks
    PROVE  /\ pc[t] \notin {"idle", "lock"} => lock = t /\ kind[t] = "get"
           /\ t # None
    BY FeatureAssumption DEF LockInv, LockHeldInside, TaskInv

LEMMA CalmLock ==
    ASSUME TypeOK, LockInv, Calm, NEW t \in Tasks, Lock(t)
    PROVE  Calm'
    <1>1. /\ pc[t] = "lock" /\ lock = None /\ lock' = t /\ report' = None /\ ~event'
          /\ pc' = [pc EXCEPT ![t] = "write"]
          /\ UNCHANGED <<devVars, hid2me, unread, thrVars, req, kind, res, got>>
        BY DEF Lock, Go
    <1>2. TaskInv'
        BY <1>1, TaskOwn DEF Calm, TaskInv
    <1>3. pc'[lock'] = "write" /\ t # None
        BY <1>1, FeatureAssumption DEF TypeOK
    <1>4. FlowInv'
        BY <1>1, <1>3 DEF Calm, FlowInv, Acking, Recving, devVars, thrVars
    <1>5. NoAnswer
        BY <1>1 DEF Calm, Token, Unasked, Queued, Running, Filled, Shown, Answered, Waits
    <1>6. NoAnswer'
        BY <1>1, <1>5 DEF NoAnswer, NoneAhead, AnswersAhead, Unseen, Sent, Lo, devVars, thrVars
    <1>7. Unasked'
        BY <1>1, <1>3, <1>6 DEF Unasked
    <1> QED BY <1>2, <1>4, <1>7 DEF Calm, Token

LEMMA CalmWrite ==
    ASSUME TypeOK, LockInv, Calm, NEW t \in Tasks, Write(t), smooth'
    PROVE  Calm'
    <1>0. pc[t] = "write" /\ lock = t /\ kind[t] = "get" /\ t # None
        BY Holder DEF Calm, Write
    <1>1. /\ pc' = [pc EXCEPT ![t] = "send"] /\ hid2me' = req[t]
          /\ UNCHANGED <<devVars, unread, lock, event, report, thrVars, req, kind, res, got>>
        BY <1>0 DEF Write, Go, Trouble
    <1>2. TaskInv'
        BY <1>0, <1>1, TaskOwn DEF Calm, TaskInv
    <1>3. pc'[t] = "send"
        BY <1>1 DEF TypeOK
    <1>4. FlowInv'
        BY <1>0, <1>1, <1>3 DEF Calm, FlowInv, Acking, Recving, devVars, thrVars
    <1>5. Unasked
        BY <1>0 DEF Calm, Token, Queued, Running, Filled, Shown, Answered, Waits
    <1>6. NoAnswer'
        BY <1>1, <1>5 DEF Unasked, NoAnswer, NoneAhead, AnswersAhead, Unseen, Sent, Lo, devVars, thrVars
    <1>7. Unasked'
        BY <1>0, <1>1, <1>3, <1>5, <1>6 DEF Unasked
    <1> QED BY <1>2, <1>4, <1>7 DEF Calm, Token

LEMMA CalmSend ==
    ASSUME TypeOK, LockInv, Calm, NEW t \in Tasks, Send(t), smooth'
    PROVE  Calm'
    <1>0. pc[t] = "send" /\ lock = t /\ kind[t] = "get" /\ t # None
        BY Holder DEF Calm, Send
    <1>1. /\ pc' = [pc EXCEPT ![t] = "recv"] /\ queue' = Append(queue, Hid2me)
          /\ UNCHANGED <<owner, content, fill, gets, sharedVars, thrVars, req, kind, res, got>>
        BY <1>0 DEF Send, Go, Trouble
    <1>2. TaskInv'
        BY <1>0, <1>1, TaskOwn DEF Calm, TaskInv
    <1>3. pc'[t] = "recv"
        BY <1>1 DEF TypeOK
    <1>4. Sent' = Sent \cup {Hid2me} /\ Len(queue') = Len(queue) + 1
          /\ (Hid2me \notin Sent => Unique(Hid2me)')
        BY <1>1, QueueGrows DEF TypeOK
    <1>5. FlowInv'
        <2>1. Len(queue) \in Int /\ unread \in Int /\ unread' = unread
            BY <1>1 DEF TypeOK, sharedVars
        <2>2. Recving = 0 /\ Recving' = 1 /\ Acking' = Acking /\ Acking \in {0, 1}
            BY <1>0, <1>1, <1>3 DEF Recving, Acking, sharedVars, thrVars
        <2> QED BY <1>4, <2>1, <2>2 DEF Calm, FlowInv
    <1>6. Unasked
        BY <1>0 DEF Calm, Token, Queued, Running, Filled, Shown, Answered, Waits
    <1>7. AnswersAhead' = AnswersAhead
        BY <1>1 DEF AnswersAhead, Unseen, Lo, thrVars
    <1>8. Queued'
        BY <1>0, <1>1, <1>3, <1>4, <1>6, <1>7
        DEF Unasked, NoAnswer, NoneAhead, Queued, Waits, sharedVars, thrVars
    <1> QED BY <1>2, <1>5, <1>8 DEF Calm, Token

LEMMA CalmRecv ==
    ASSUME TypeOK, LockInv, Calm, NEW t \in Tasks, Recv(t), smooth'
    PROVE  Calm'
    <1>0. pc[t] = "recv" /\ lock = t /\ kind[t] = "get" /\ t # None
        BY Holder DEF Calm, Recv
    <1>t. Len(queue) \in Int /\ unread \in Int /\ Acking \in {0, 1} /\ Recving = 1
        BY <1>0 DEF TypeOK, Acking, Recving
    <1>1. unread > 0
        <2> SUFFICES ASSUME ~(unread > 0) PROVE FALSE
            OBVIOUS
        <2>1. unread = 0 /\ queue = <<>>
            BY DEF Recv, GivesUp, Trouble
        <2>2. Len(queue) = 0
            BY <2>1
        <2> QED BY <1>t, <2>1, <2>2 DEF Calm, FlowInv
    <1>2. /\ pc' = [pc EXCEPT ![t] = "wait"] /\ unread' = unread - 1
          /\ UNCHANGED <<devVars, hid2me, lock, event, report, thrVars, req, kind, res, got>>
        BY <1>0, <1>1 DEF Recv, GivesUp, Trouble, Go
    <1>3. TaskInv'
        BY <1>0, <1>2, TaskOwn DEF Calm, TaskInv
    <1>4. pc'[t] = "wait"
        BY <1>2 DEF TypeOK
    <1>5. FlowInv'
        <2>1. Recving' = 0 /\ Acking' = Acking /\ queue' = queue
            BY <1>0, <1>2, <1>4 DEF Recving, Acking, devVars, thrVars
        <2> QED BY <1>t, <1>2, <2>1 DEF Calm, FlowInv
    <1>6. /\ AnswersAhead' = AnswersAhead /\ Sent' = Sent /\ Unique(Hid2me)' = Unique(Hid2me)
          /\ UNCHANGED <<gets, rpc, cur, content, lock, req, event, report, hid2me>>
        BY <1>2 DEF AnswersAhead, Unseen, Lo, Sent, Unique, devVars, thrVars
    <1>7. Token'
        BY <1>0, <1>4, <1>6 DEF Calm, Token, Unasked, Queued, Running, Filled, Shown, Answered,
                                Waits, NoAnswer, NoneAhead
    <1> QED BY <1>3, <1>5, <1>7 DEF Calm

LEMMA CalmWait ==
    ASSUME TypeOK, RingInv, LockInv, Calm, NEW t \in Tasks, Wait(t), smooth'
    PROVE  Calm'
    <1>0. pc[t] = "wait" /\ lock = t /\ kind[t] = "get" /\ t # None
        BY Holder DEF Calm, Wait
    <1>1. ~event => AnswerComing
        <2> SUFFICES ASSUME ~event PROVE AnswerComing
            OBVIOUS
        <2>1. Queued \/ Running \/ Filled \/ Shown
            BY <1>0 DEF Calm, Token, Unasked, Answered
        <2>2. CASE Queued
            <3>1. \E k \in 1 .. Len(queue) : queue[k] = Hid2me
                BY <2>2 DEF Queued, Sent
            <3>2. DOMAIN queue = 1 .. Len(queue)
                BY DEF TypeOK
            <3> QED BY <3>1, <3>2 DEF AnswerComing
        <2>3. CASE Running
            BY <2>3 DEF Running, AnswerComing
        <2>4. CASE Filled
            <3>1. PICK c \in Buffers : AnswersAhead = {c}
                BY <2>4 DEF Filled
            <3>2. c \in Unseen /\ content[c] # Report
                BY <3>1 DEF AnswersAhead
            <3>3. owner[c] = "host"
                BY <3>2 DEF RingInv
            <3> QED BY <3>2, <3>3 DEF AnswerComing
        <2>5. CASE Shown
            BY <2>5 DEF Shown, AnswerComing
        <2> QED BY <2>1, <2>2, <2>3, <2>4, <2>5
    <1>2. event /\ pc' = [pc EXCEPT ![t] = "copy"] /\ UNCHANGED <<res, got>>
        BY <1>1 DEF Wait, Trouble, Go
    <1>3. UNCHANGED <<devVars, sharedVars, thrVars, req, kind>>
        BY DEF Wait
    <1>4. TaskInv'
        BY <1>0, <1>2, <1>3, TaskOwn DEF Calm, TaskInv
    <1>5. pc'[t] = "copy"
        BY <1>2 DEF TypeOK
    <1>6. FlowInv'
        BY <1>0, <1>3, <1>5 DEF Calm, FlowInv, Acking, Recving, devVars, sharedVars, thrVars
    <1>7. Answered
        BY <1>0, <1>2 DEF Calm, Token, Unasked, Queued, Running, Filled, Shown, Waits
    <1>8. Answered'
        BY <1>0, <1>3, <1>5, <1>7 DEF Answered, NoAnswer, NoneAhead, AnswersAhead, Unseen, Lo, Sent,
                                     devVars, sharedVars, thrVars
    <1> QED BY <1>4, <1>6, <1>8 DEF Calm, Token

LEMMA CalmCopy ==
    ASSUME TypeOK, LockInv, Calm, NEW t \in Tasks, Copy(t), smooth'
    PROVE  Calm'
    <1>0. pc[t] = "copy" /\ lock = t /\ kind[t] = "get" /\ t # None
        BY Holder DEF Calm, Copy
    <1>1. Answered
        BY <1>0 DEF Calm, Token, Unasked, Queued, Running, Filled, Shown, Waits
    <1>2. /\ got' = [got EXCEPT ![t] = content[report]] /\ res' = [res EXCEPT ![t] = "ok"]
          /\ pc' = [pc EXCEPT ![t] = "out"]
          /\ UNCHANGED <<devVars, sharedVars, thrVars, req, kind>>
        BY <1>1 DEF Copy, Answered, Trouble, End, Go
    <1>3. TaskInv'
        <2>1. got'[t] \in {None, Report, req[t]} /\ res'[t] # "error"
            BY <1>0, <1>1, <1>2 DEF Answered, TypeOK
        <2>2. \A u \in Tasks : u # t => res'[u] = res[u] /\ got'[u] = got[u]
            BY <1>2 DEF TypeOK
        <2> QED BY <1>0, <1>2, <2>1, <2>2, TaskOwn DEF Calm
    <1>4. pc'[t] = "out"
        BY <1>2 DEF TypeOK
    <1>5. FlowInv'
        BY <1>0, <1>2, <1>4 DEF Calm, FlowInv, Acking, Recving, devVars, sharedVars, thrVars
    <1>6. Answered'
        BY <1>0, <1>1, <1>2, <1>4 DEF Answered, NoAnswer, NoneAhead, AnswersAhead, Unseen, Lo, Sent,
                                     devVars, sharedVars, thrVars
    <1> QED BY <1>3, <1>5, <1>6 DEF Calm, Token

LEMMA CalmOut ==
    ASSUME TypeOK, LockInv, Calm, NEW t \in Tasks, Out(t)
    PROVE  Calm'
    <1>0. pc[t] = "out" /\ lock = t /\ kind[t] = "get" /\ t # None
        BY Holder DEF Calm, Out
    <1>1. /\ lock' = None /\ pc' = [pc EXCEPT ![t] = "idle"] /\ kind' = [kind EXCEPT ![t] = "none"]
          /\ res' = [res EXCEPT ![t] = "none"] /\ got' = [got EXCEPT ![t] = None]
          /\ UNCHANGED <<devVars, hid2me, unread, event, report, thrVars, req>>
        BY <1>0 DEF Out, Go
    <1>2. TaskInv'
        <2> SUFFICES ASSUME NEW u \in Tasks
                     PROVE  /\ kind'[u] \in {"get", "none"} /\ (kind'[u] = "none" <=> pc'[u] = "idle")
                            /\ pc'[u] # "idle" => req'[u] \in Requests
                            /\ res'[u] # "error" /\ got'[u] \in {None, Report, req'[u]}
                            /\ pc'[u] # "out" => got'[u] = None
            BY DEF TaskInv
        <2>1. CASE u = t
            BY <1>1, <2>1 DEF TypeOK
        <2>2. CASE u # t
            BY <1>1, <2>2 DEF Calm, TaskInv, TypeOK
        <2> QED BY <2>1, <2>2
    <1>3. FlowInv'
        BY <1>0, <1>1 DEF Calm, FlowInv, Acking, Recving, devVars, thrVars
    <1>4. NoAnswer
        BY <1>0 DEF Calm, Token, Unasked, Queued, Running, Filled, Shown, Answered, Waits
    <1>5. Unasked'
        BY <1>1, <1>4 DEF Unasked, NoAnswer, NoneAhead, AnswersAhead, Unseen, Sent, Lo, devVars, thrVars
    <1> QED BY <1>2, <1>3, <1>5 DEF Calm, Token

\* Once something was late or failed, that is remembered.
LEMMA SmoothKept ==
    ASSUME TypeOK, [Next]_vars, smooth'
    PROVE  smooth
    <1>1. CASE Device
        BY <1>1 DEF Device, RunRequest, Refill, Fill
    <1>2. CASE Receiver
        BY <1>2 DEF Receiver, Input, Complete, SendRefill, RecvRefill, GivesUp, Trouble, Fine
    <1>3. ASSUME NEW t \in Tasks, Step(t) PROVE smooth
        BY <1>3 DEF Step, Lock, Write, Send, Recv, Wait, Copy, Out, GivesUp, Trouble, Fine
    <1>4. ASSUME NEW t \in Tasks, NEW k \in Kinds, Request(t, k) PROVE smooth
        BY <1>4 DEF Request
    <1>5. CASE UNCHANGED vars
        BY <1>5 DEF vars
    <1> QED BY <1>1, <1>2, <1>3, <1>4, <1>5 DEF Next

LEMMA SmoothStep ==
    ASSUME Roomy, TypeOK, RingInv, LockInv, SmoothInv, [Next]_vars
    PROVE  SmoothInv'
    <1> SUFFICES ASSUME smooth' PROVE Calm'
        BY DEF SmoothInv
    <1>c. Calm
        BY SmoothKept DEF SmoothInv
    <1>1. CASE Device
        BY <1>1, <1>c, CalmRunRequest, CalmRefill, CalmFill DEF Device
    <1>2. CASE Receiver
        BY <1>2, <1>c, CalmInput, CalmComplete, CalmSendRefill, CalmRecvRefill DEF Receiver
    <1>3. ASSUME NEW t \in Tasks, Step(t) PROVE Calm'
        BY <1>3, <1>c, CalmLock, CalmWrite, CalmSend, CalmRecv, CalmWait, CalmCopy, CalmOut DEF Step
    <1>4. ASSUME NEW t \in Tasks, NEW k \in Kinds, Request(t, k) PROVE Calm'
        BY <1>4, <1>c, CalmRequest
    <1>5. CASE UNCHANGED vars
        BY <1>5, <1>c
        DEF vars, devVars, sharedVars, thrVars, taskVars, Calm, TaskInv, FlowInv, Acking, Recving, Token,
            Unasked, Queued, Running, Filled, Shown, Answered, Waits, NoAnswer, NoneAhead, AnswersAhead,
            Unseen, Lo, Sent, Unique
    <1> QED BY <1>1, <1>2, <1>3, <1>4, <1>5 DEF Next

LEMMA SmoothInit == Init => SmoothInv
    <1> SUFFICES ASSUME Init PROVE Calm
        BY DEF SmoothInv
    <1>1. Unseen = {} /\ Sent = {}
        BY DEF Init, Unseen, Sent, Lo
    <1>2. TaskInv
        BY DEF Init, TaskInv
    <1>3. FlowInv
        BY DEF Init, FlowInv, Acking, Recving
    <1>4. Unasked
        BY <1>1 DEF Init, Unasked, NoAnswer, NoneAhead, AnswersAhead
    <1> QED BY <1>2, <1>3, <1>4 DEF Calm, Token

LEMMA SmoothAlways == ASSUME Roomy PROVE Spec => []SmoothInv
    <1>1. Init => LockInv
        BY FeatureAssumption DEF Init, LockInv, LockHeldInside, Labels
    <1>2. TypeOK /\ RingInv /\ LockInv /\ SmoothInv /\ [Next]_vars
            => TypeOK' /\ RingInv' /\ LockInv' /\ SmoothInv'
        BY RingStep, TypeStep, LockStep, SmoothStep
    <1> QED BY <1>1, <1>2, RingInit, SmoothInit, PTL DEF Spec

\* As long as nothing is late or fails and there are only gets, the feature that
\* ipts_eds2_get_feature copies answers its own request, or the buffer has been
\* filled again with an ordinary report by then; it is never an older answer.
THEOREM AnswerCorrect == ASSUME Roomy PROVE Spec => []NoForeignAnswer
    <1>1. SmoothInv => NoForeignAnswer
        BY DEF SmoothInv, Calm, TaskInv, NoForeignAnswer
    <1> QED BY <1>1, SmoothAlways, PTL

\* ... and no get fails: the completion is neither lost nor taken for an older one.
THEOREM GetsCorrect == ASSUME Roomy PROVE Spec => []GetsSucceed
    <1>1. SmoothInv => GetsSucceed
        BY DEF SmoothInv, Calm, TaskInv, GetsSucceed
    <1> QED BY <1>1, SmoothAlways, PTL
=============================================================================
