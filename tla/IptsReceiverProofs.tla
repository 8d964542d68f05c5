------------------------- MODULE IptsReceiverProofs -------------------------
(***************************************************************************)
(* What IptsReceiver guarantees for every ring size, doorbell width, set   *)
(* of failures and number of restarts.                                     *)
(***************************************************************************)
EXTENDS IptsReceiver, RingArithmetic

\* ipts_mei_incoming and ipts_mei_search keep the mailbox a mailbox.
LEMMA PostedType ==
    ASSUME NEW box \in Mailboxes, NEW code \in Codes, NEW s \in Statuses
    PROVE  Posted(box, code, s) \in Mailboxes
    <1>1. <<s>> \o box[code] \in Seq(Statuses)
        BY DEF Mailboxes
    <1> QED BY <1>1 DEF Posted, Mailboxes

LEMMA TakenType ==
    ASSUME mail \in Mailboxes, NEW code \in Codes, Has(code)
    PROVE  /\ Taken(code) \in Mailboxes
           /\ Head(mail[code]) \in Statuses
    <1>1. mail[code] \in Seq(Statuses) /\ mail[code] # <<>>
        BY DEF Has, Mailboxes
    <1>2. Tail(mail[code]) \in Seq(Statuses) /\ Head(mail[code]) \in Statuses
        BY <1>1
    <1> QED BY <1>2 DEF Taken, Mailboxes

\* The counters stay in range.
LEMMA CounterType ==
    ASSUME NEW n \in Int
    PROVE  Inc(n) \in 0 .. (DoorbellMod - 1) /\ Slot(n) \in Buffers
    <1>1. n + 1 \in Int /\ DoorbellMod \in Nat \ {0} /\ NBuffers \in Nat \ {0}
        BY RingAssumption
    <1> QED BY <1>1, DivMod DEF Inc, Slot, Buffers

TypeInv == TypeOK /\ LoopInv

LEMMA TypeInit == Init => TypeInv
    <1> SUFFICES ASSUME Init PROVE TypeInv
        OBVIOUS
    <1> USE RingAssumption, ParameterAssumption
    <1>1. mail \in Mailboxes
        BY DEF Init, Mailboxes
    <1>2. TypeOK
        BY <1>1 DEF Init, TypeOK, Buffers
    <1> QED BY <1>2 DEF TypeInv, LoopInv, Init

LEMMA TypeStep == TypeInv /\ [Next]_vars => TypeInv'
    <1> SUFFICES ASSUME TypeInv, [Next]_vars PROVE TypeInv'
        OBVIOUS
    <1> USE RingAssumption, ParameterAssumption DEF TypeInv
    <1>v. 0 \in Buffers /\ 0 \in 0 .. (DoorbellMod - 1) /\ 0 \in 0 .. NBuffers
        BY DEF Buffers
    <1>c. Codes = {"READY_FOR_DATA", "FEEDBACK", "QUIESCE_IO"}
          /\ Statuses = {"SUCCESS", "SENSOR_DISABLED", "TIMEOUT", "ERROR"}
        BY DEF Codes, Statuses
    <1>m. /\ mail \in Mailboxes
          /\ \A code \in Codes : \A s \in Statuses :
               Posted(mail, code, s) \in Mailboxes
          /\ \A code \in Codes : Has(code) =>
               Taken(code) \in Mailboxes /\ Head(mail[code]) \in Statuses
        <2>1. mail \in Mailboxes
            BY DEF TypeOK
        <2> QED BY <2>1, PostedType, TakenType, Zenon
    <1>n. /\ filled \in Int /\ doorbell \in Int /\ lastdb \in Int
          /\ \A n \in Int : Inc(n) \in 0 .. (DoorbellMod - 1) /\ Slot(n) \in Buffers
        <2>1. filled \in Int /\ doorbell \in Int /\ lastdb \in Int
            BY DEF TypeOK
        <2> QED BY <2>1, CounterType, Zenon
    <1>1. ASSUME NEW f \in Frames, Fill(f) PROVE TypeInv'
        <2>1. filled' \in 0 .. (DoorbellMod - 1) /\ doorbell' \in 0 .. (DoorbellMod - 1)
            BY <1>1, <1>n DEF Fill, TypeOK
        <2>2. mail' \in Mailboxes /\ cmds' \subseteq {"READY_FOR_DATA", "QUIESCE_IO"}
            BY <1>1, <1>c, <1>m DEF Fill, TypeOK
        <2>3. frame' \in [Buffers -> Frames \cup {NoFrame}] /\ owner' \in [Buffers -> {"me", "host"}]
            BY <1>1 DEF Fill, TypeOK
        <2> QED BY <1>1, <2>1, <2>2, <2>3 DEF Fill, TypeOK, LoopInv, thrVars, ctlVars
    <1>2. ASSUME NEW b \in Buffers, Acknowledge(b) PROVE TypeInv'
        <2>1. mail' \in Mailboxes
            BY <1>2, <1>c, <1>m DEF Acknowledge, TypeOK
        <2> QED BY <1>2, <2>1 DEF Acknowledge, TypeOK, LoopInv, thrVars, ctlVars
    <1>3. CASE Quiesce
        BY <1>3 DEF Quiesce, TypeOK, LoopInv, thrVars, ctlVars
    <1>4. CASE FlushDone
        <2>1. PICK s \in {"SUCCESS", "SENSOR_DISABLED"} :
                mail' = Posted(IF Outstanding THEN Posted(mail, "READY_FOR_DATA", s) ELSE mail,
                               "QUIESCE_IO", "SUCCESS")
            BY <1>4 DEF FlushDone
        <2>2. Posted(mail, "READY_FOR_DATA", s) \in Mailboxes
            BY <1>c, <1>m
        <2>3. Posted(Posted(mail, "READY_FOR_DATA", s), "QUIESCE_IO", "SUCCESS")
                \in Mailboxes
            BY <1>c, <2>2, PostedType
        <2>4. mail' \in Mailboxes
            BY <1>c, <1>m, <2>1, <2>3
        <2> QED BY <1>4, <2>4 DEF FlushDone, TypeOK, LoopInv, thrVars, ctlVars
    <1>5. CASE DeviceError
        <2>1. mail' \in Mailboxes
            BY <1>5, <1>c, <1>m DEF DeviceError
        <2>2. cmds' \subseteq {"READY_FOR_DATA", "QUIESCE_IO"} /\ flow' \in {"off", "on", "quiescing"}
            BY <1>5 DEF DeviceError, TypeOK
        <2> QED BY <1>5, <2>1, <2>2 DEF DeviceError, TypeOK, LoopInv, thrVars, ctlVars
    <1>6. CASE PollTop
        BY <1>6 DEF PollTop, TypeOK, LoopInv, devVars, thrVars, ctlVars
    <1>7. CASE PollSnapshot
        BY <1>7 DEF PollSnapshot, TypeOK, LoopInv, devVars, ctlVars
    <1>8. CASE PollDrain
        <2>1. buffer' \in Buffers
            BY <1>8, <1>n DEF PollDrain, TypeOK
        <2> QED BY <1>8, <2>1 DEF PollDrain, TypeOK, LoopInv, devVars, ctlVars
    <1>9. CASE PollCheck
        BY <1>9 DEF PollCheck, TypeOK, LoopInv, devVars, thrVars, ctlVars
    <1>10. CASE EventTop
        BY <1>10, <1>v DEF EventTop, TypeOK, LoopInv, devVars, ctlVars
    <1>11. CASE EventTake
        <2>1. buffer' \in Buffers /\ doorbell' \in 0 .. (DoorbellMod - 1)
            BY <1>11, <1>c, <1>m, <1>n DEF EventTake, TypeOK
        <2>2. mail' \in Mailboxes
            BY <1>11, <1>c, <1>m DEF EventTake
        <2>3. UNCHANGED round \/ (round' = round + 1 /\ round < NBuffers)
            BY <1>11, <1>c, <1>m DEF EventTake
        <2>4. round' \in 0 .. NBuffers
            BY <2>3 DEF TypeOK
        <2>5. tpc' \in {"take", "input", "top"} /\ mode = "event"
            BY <1>11, <1>c, <1>m DEF EventTake, LoopInv
        <2>6. tpc' = "input" => round' < NBuffers
            BY <1>11, <1>c, <1>m DEF EventTake
        <2> QED BY <1>11, <2>1, <2>2, <2>4, <2>5, <2>6 DEF EventTake, TypeOK, LoopInv, devVars, ctlVars
    <1>12. CASE EventRequest
        <2>1. mail' \in Mailboxes
            BY <1>12, <1>c, <1>m DEF EventRequest, SentReady, TypeOK
        <2>2. cmds' \subseteq {"READY_FOR_DATA", "QUIESCE_IO"} /\ flow' \in {"off", "on", "quiescing"}
            BY <1>12 DEF EventRequest, SentReady, TypeOK
        <2>3. round' \in 0 .. NBuffers
            BY <1>12 DEF EventRequest, TypeOK, LoopInv
        <2> QED BY <1>12, <2>1, <2>2, <2>3 DEF EventRequest, SentReady, TypeOK, LoopInv, ctlVars
    <1>13. CASE InputStart
        BY <1>13 DEF InputStart, TypeOK, LoopInv, devVars, thrVars, ctlVars
    <1>14. CASE InputEnd
        BY <1>14 DEF InputEnd, TypeOK, LoopInv, devVars, thrVars, ctlVars
    <1>15. CASE SendFeedback
        BY <1>15 DEF SendFeedback, TypeOK, LoopInv, thrVars, ctlVars
    <1>16. CASE SendFeedbackFails
        <2>1. lastdb' \in 0 .. (DoorbellMod - 1)
            BY <1>16, <1>n DEF SendFeedbackFails, NextBuffer, TypeOK
        <2> QED BY <1>16, <2>1
                DEF SendFeedbackFails, NextBuffer, TypeOK, LoopInv, devVars, ctlVars
    <1>17. CASE RecvFeedback
        <2>1. lastdb' \in 0 .. (DoorbellMod - 1)
            BY <1>17, <1>n DEF RecvFeedback, NextBuffer, TypeOK
        <2>2. mail' \in Mailboxes
            BY <1>17, <1>c, <1>m DEF RecvFeedback, TypeOK
        <2> QED BY <1>17, <2>1, <2>2
                DEF RecvFeedback, NextBuffer, TypeOK, LoopInv, devVars, ctlVars
    <1>18. CASE RequestFlush
        <2>1. cmds' \subseteq {"READY_FOR_DATA", "QUIESCE_IO"}
            BY <1>18 DEF RequestFlush, TypeOK
        <2>2. /\ tpc' \in {"waitdata", "snap", "done"}
              /\ ret' \in {"ok", "flushed", "error"}
              /\ tpc' = "snap" => mode = "poll"
            BY <1>18 DEF RequestFlush, Exit, TypeOK
        <2> QED BY <1>18, <2>1, <2>2 DEF RequestFlush, TypeOK, LoopInv, thrVars, ctlVars
    <1>19. CASE WaitData
        <2>1. mail' \in Mailboxes
            BY <1>19, <1>c, <1>m DEF WaitData, TypeOK
        <2>2. tpc' \in {"waitflush", "done"} /\ ret' \in {"ok", "flushed", "error"}
            BY <1>19, <1>c, <1>m DEF WaitData, Exit, TypeOK
        <2> QED BY <1>19, <2>1, <2>2 DEF WaitData, TypeOK, LoopInv, devVars, thrVars, ctlVars
    <1>20. CASE WaitFlush
        <2>1. mail' \in Mailboxes
            BY <1>20, <1>c, <1>m DEF WaitFlush, TypeOK
        <2>2. tpc' = "done" /\ ret' \in {"ok", "flushed", "error"}
            BY <1>20 DEF WaitFlush, Exit, TypeOK
        <2> QED BY <1>20, <2>1, <2>2 DEF WaitFlush, TypeOK, LoopInv, devVars, thrVars, ctlVars
    <1>21. CASE Start
        <2>1. mode' \in Modes
            BY <1>21 DEF Start, TypeOK
        <2>2. shouldStop' \in BOOLEAN
            BY <1>21, Zenon DEF Start, TypeOK
        <2>3. owner' \in [Buffers -> {"me", "host"}] /\ frame' \in [Buffers -> Frames \cup {NoFrame}]
            BY <1>21 DEF Start, TypeOK
        <2>4. CASE flow = "off"
            BY <1>21, <1>v, <2>1, <2>2, <2>3, <2>4 DEF Start, TypeOK, LoopInv
        <2>5. CASE flow # "off"
            BY <1>21, <2>1, <2>2, <2>3, <2>5 DEF Start, TypeOK, LoopInv, thrVars
        <2> QED BY <2>4, <2>5
    <1>22. CASE StartRequest
        <2>1. mail' \in Mailboxes
            BY <1>22, <1>c, <1>m DEF StartRequest, SentReady, TypeOK
        <2>2. cmds' \subseteq {"READY_FOR_DATA", "QUIESCE_IO"} /\ flow' \in {"off", "on", "quiescing"}
            BY <1>22 DEF StartRequest, SentReady, TypeOK
        <2> QED BY <1>22, <2>1, <2>2 DEF StartRequest, SentReady, TypeOK, LoopInv, thrVars
    <1>23. CASE StartEnable
        BY <1>23 DEF StartEnable, TypeOK, LoopInv, devVars, thrVars
    <1>24. CASE StopDisable
        <2>1. hidActive' \in BOOLEAN
            BY <1>24, Zenon DEF StopDisable
        <2> QED BY <1>24, <2>1 DEF StopDisable, TypeOK, LoopInv, devVars, thrVars
    <1>25. CASE StopSignal
        BY <1>25 DEF StopSignal, TypeOK, LoopInv, devVars, thrVars
    <1>26. CASE StopJoin
        BY <1>26 DEF StopJoin, TypeOK, LoopInv, devVars, thrVars
    <1>27. CASE StopFree
        <2>1. allocated' \in BOOLEAN
            BY <1>27, Zenon DEF StopFree
        <2> QED BY <1>27, <2>1 DEF StopFree, TypeOK, LoopInv, devVars, thrVars
    <1>28. CASE Restart
        BY <1>28 DEF Restart, TypeOK, LoopInv, devVars, thrVars
    <1>29. CASE UNCHANGED vars
        BY <1>29 DEF vars, devVars, thrVars, ctlVars, TypeOK, LoopInv
    <1>30. CASE Finished
        BY <1>29, <1>30 DEF Finished
    <1> QED
        BY <1>1, <1>2, <1>3, <1>4, <1>5, <1>6, <1>7, <1>8, <1>9, <1>10, <1>11, <1>12, <1>13,
           <1>14, <1>15, <1>16, <1>17, <1>18, <1>19, <1>20, <1>21, <1>22, <1>23, <1>24,
           <1>25, <1>26, <1>27, <1>28, <1>29, <1>30
        DEF Next, Device, Thread, Control

\* Every variable has its type in every reachable state, and the loop variables
\* are where the loops expect them: no lookup of a buffer is out of bounds.
THEOREM TypeCorrect == Spec => [](TypeOK /\ LoopInv)
    <1> QED BY TypeInit, TypeStep, PTL DEF Spec, TypeInv

-----------------------------------------------------------------------------
(* Doorbell arithmetic in the terms of the module *)

Doorbells == 0 .. (DoorbellMod - 1)

LEMMA SizesOK == /\ NBuffers \in Nat \ {0} /\ DoorbellMod \in Nat \ {0}
                 /\ DoorbellMod > NBuffers + 1 /\ DoorbellMod % NBuffers = 0
    BY RingAssumption

LEMMA IncStep ==
    ASSUME NEW b \in Doorbells
    PROVE  Inc(b) = IF b = DoorbellMod - 1 THEN 0 ELSE b + 1
    BY SizesOK, ModStep DEF Inc, Doorbells

LEMMA GapStep ==
    ASSUME NEW b \in Doorbells, NEW d \in Doorbells
    PROVE  Gap(b, d) = IF d >= b THEN d - b ELSE (d - b) + DoorbellMod
    <1>1. /\ b \in Int /\ 0 <= b /\ b < DoorbellMod /\ DoorbellMod \in Nat \ {0}
          /\ d \in Int /\ 0 <= d /\ d < DoorbellMod
        BY SizesOK DEF Doorbells
    <1>2. (d - b) % DoorbellMod = IF d >= b THEN d - b ELSE (d - b) + DoorbellMod
        BY <1>1, ModAhead
    <1> QED BY <1>2 DEF Gap

LEMMA GapFacts ==
    ASSUME NEW b \in Doorbells, NEW d \in Doorbells
    PROVE  /\ Inc(b) \in Doorbells
           /\ Inc(d) \in Doorbells
           /\ Gap(b, d) \in Doorbells
           /\ Gap(b, b) = 0
           /\ Gap(b, d) = 0 => b = d
           /\ Gap(b, d) < DoorbellMod - 1 => Gap(b, Inc(d)) = Gap(b, d) + 1
           /\ Gap(b, d) >= 1 => Gap(Inc(b), d) = Gap(b, d) - 1
    <1>1. Inc(b) \in Doorbells /\ Inc(d) \in Doorbells
        BY IncStep, SizesOK DEF Doorbells
    <1>2. /\ Gap(b, d) = IF d >= b THEN d - b ELSE (d - b) + DoorbellMod
          /\ Gap(b, b) = 0
          /\ Gap(b, Inc(d)) = IF Inc(d) >= b THEN Inc(d) - b ELSE (Inc(d) - b) + DoorbellMod
          /\ Gap(Inc(b), d) = IF d >= Inc(b) THEN d - Inc(b) ELSE (d - Inc(b)) + DoorbellMod
        <2>1. b - b = 0 /\ b >= b
            BY DEF Doorbells
        <2> QED BY <1>1, <2>1, GapStep
    <1>3. /\ Inc(b) = IF b = DoorbellMod - 1 THEN 0 ELSE b + 1
          /\ Inc(d) = IF d = DoorbellMod - 1 THEN 0 ELSE d + 1
        BY IncStep
    <1> QED BY <1>1, <1>2, <1>3, SizesOK DEF Doorbells

LEMMA SlotFacts ==
    ASSUME NEW b \in Doorbells, NEW d \in Doorbells
    PROVE  /\ Slot(b + 0) = Slot(b)
           /\ Slot(b + Gap(b, d)) = Slot(d)
           /\ \A i \in Int : Slot(Inc(b) + i) = Slot(b + (i + 1))
           /\ \A i \in Int : 0 < i /\ i < NBuffers => Slot(b + i) # Slot(b)
           /\ \A i \in Int : Slot(b + (i + NBuffers)) = Slot(b + i)
    <1>1. b \in Int /\ b + 0 = b
        BY DEF Doorbells
    <1>r. /\ b \in Int /\ 0 <= b /\ b < DoorbellMod
          /\ d \in Int /\ 0 <= d /\ d < DoorbellMod
          /\ NBuffers \in Nat \ {0} /\ DoorbellMod \in Nat \ {0}
          /\ DoorbellMod % NBuffers = 0
        BY SizesOK DEF Doorbells
    <1>2. Slot(b + Gap(b, d)) = Slot(d)
        <2>1. (b + ((d - b) % DoorbellMod)) % NBuffers = d % NBuffers
            BY <1>r, AheadSlot
        <2> QED BY <2>1 DEF Slot, Gap
    <1>3. ASSUME NEW i \in Int PROVE Slot(Inc(b) + i) = Slot(b + (i + 1))
        <2>1. (((b + 1) % DoorbellMod) + i) % NBuffers = (b + (i + 1)) % NBuffers
            BY <1>r, StepSlot
        <2> QED BY <2>1 DEF Slot, Inc
    <1>4. ASSUME NEW i \in Int, 0 < i, i < NBuffers PROVE Slot(b + i) # Slot(b)
        BY <1>1, <1>4, SizesOK, ModDistinct DEF Slot
    <1>5. ASSUME NEW i \in Int PROVE Slot(b + (i + NBuffers)) = Slot(b + i)
        <2>1. b + i \in Int
            BY <1>1
        <2>2. ((b + i) + (NBuffers * 1)) % NBuffers = (b + i) % NBuffers
            <3>1. 1 \in Int
                OBVIOUS
            <3> QED BY <2>1, <3>1, <1>r, ModPeriod
        <2>3. b + (i + NBuffers) = (b + i) + (NBuffers * 1)
            BY <1>1, SizesOK
        <2> QED BY <2>2, <2>3 DEF Slot
    <1> QED BY <1>1, <1>2, <1>3, <1>4, <1>5

-----------------------------------------------------------------------------
(* The ring in poll mode.  What PollRing says at the top level, per buffer of
   the window between lastdb and the device.                               *)

InWindow == {"drain", "input", "reading", "feedback", "fbwait"}
InBuffer == {"input", "reading", "feedback", "fbwait"}

\* Steps that leave the ring alone and do not move into its critical sections.
LEMMA RingKeep ==
    ASSUME PollRing,
           UNCHANGED <<owner, fbq, filled, doorbell, lastdb, snapshot, buffer>>,
           tpc' = "fbwait" <=> tpc = "fbwait",
           tpc' \in InWindow => tpc \in InWindow,
           tpc' \in InBuffer => tpc \in InBuffer
    PROVE  PollRing'
    BY DEF PollRing, Lag, Acked, InWindow, InBuffer

\* The device fills a buffer: there was room for it.
LEMMA RingRoom ==
    ASSUME TypeOK, PollRing, NEW f \in Frames, Fill(f)
    PROVE  Lag < NBuffers + Acked
    <1>t. /\ lastdb \in Doorbells /\ filled \in Doorbells
          /\ NBuffers \in Nat \ {0}
        BY SizesOK DEF TypeOK, Doorbells
    <1>a. Acked \in {0, 1}
        BY DEF Acked
    <1>b. Lag \in Doorbells /\ Lag <= NBuffers + Acked
        BY <1>t, GapFacts DEF PollRing, Lag
    <1>c. Slot(lastdb + Lag) = Slot(filled)
        BY <1>t, SlotFacts DEF Lag
    <1>d. owner[Slot(filled)] = "me"
        BY DEF Fill
    <1>1. Lag # NBuffers + Acked
        <2> SUFFICES ASSUME Lag = NBuffers + Acked PROVE FALSE
            OBVIOUS
        <2>1. Acked \in Acked .. (Lag - 1)
            BY <1>t, <1>a, <1>b
        <2>2. owner[Slot(lastdb + Acked)] = "host"
            BY <2>1 DEF PollRing
        <2>3. Slot(lastdb + (Acked + NBuffers)) = Slot(lastdb + Acked)
            <3>1. Acked \in Int
                BY <1>a
            <3> QED BY <1>t, <3>1, SlotFacts
        <2>4. Acked + NBuffers = Lag
            BY <1>t, <1>a
        <2> QED BY <1>c, <1>d, <2>2, <2>3, <2>4
    <1> QED BY <1>t, <1>a, <1>b, <1>1 DEF Doorbells

LEMMA RingFill ==
    ASSUME TypeOK, PollRing, mode = "poll", NEW f \in Frames, Fill(f)
    PROVE  PollRing'
    <1>t. /\ lastdb \in Doorbells /\ filled \in Doorbells /\ snapshot \in Doorbells
          /\ NBuffers \in Nat \ {0} /\ DoorbellMod \in Nat /\ DoorbellMod > NBuffers + 1
          /\ owner \in [Buffers -> {"me", "host"}]
        BY SizesOK DEF TypeOK, Doorbells
    <1>a. Acked \in {0, 1} /\ Acked' = Acked
        BY DEF Acked, Fill
    <1>b. Lag \in Doorbells /\ Lag <= NBuffers + Acked
        BY <1>t, GapFacts DEF PollRing, Lag
    <1>c. Slot(lastdb + Lag) = Slot(filled) /\ Slot(filled) \in Buffers
        <2>1. filled \in Int
            BY <1>t DEF Doorbells
        <2> QED BY <1>t, <2>1, SlotFacts, CounterType DEF Lag
    <1>d. owner[Slot(filled)] = "me" /\ Slot(filled) \notin fbq
        BY DEF Fill, PollRing
    <1>1. Lag # NBuffers + Acked
        BY <1>t, <1>a, <1>b, RingRoom DEF Doorbells
    <1>2. Lag' = Lag + 1
        <2>1. Gap(lastdb, filled) < DoorbellMod - 1
            BY <1>t, <1>a, <1>b, <1>1 DEF Lag, Doorbells
        <2>2. Gap(lastdb, Inc(filled)) = Gap(lastdb, filled) + 1
            BY <1>t, <2>1, GapFacts
        <2> QED BY <2>2 DEF Lag, Fill, thrVars
    <1>3. owner' = [owner EXCEPT ![Slot(filled)] = "host"] /\ fbq' = fbq
        BY DEF Fill
    <1>4. ASSUME NEW i \in Acked .. Lag
          PROVE  owner'[Slot(lastdb + i)] = "host" /\ Slot(lastdb + i) \notin fbq
        <2>1. CASE i = Lag
            BY <1>t, <1>c, <1>d, <1>3, <2>1
        <2>2. CASE i # Lag
            <3>1. i \in Acked .. (Lag - 1)
                BY <1>a, <1>b, <2>2 DEF Doorbells
            <3>2. owner[Slot(lastdb + i)] = "host" /\ Slot(lastdb + i) \notin fbq
                BY <3>1 DEF PollRing
            <3>3. Slot(lastdb + i) \in Buffers
                <4>1. lastdb + i \in Int
                    BY <1>t, <1>a, <1>b DEF Doorbells
                <4> QED BY <4>1, CounterType
            <3> QED BY <1>t, <1>3, <3>2, <3>3
        <2> QED BY <2>1, <2>2
    <1>5. doorbell' = filled'
        BY DEF Fill, PollRing
    <1>6. \A b \in fbq' : owner'[b] = "host"
        BY <1>t, <1>3, <1>d DEF PollRing, TypeOK
    <1>7. /\ \A i \in Acked' .. (Lag' - 1) :
               owner'[Slot(lastdb' + i)] = "host" /\ Slot(lastdb' + i) \notin fbq'
          /\ Lag' <= NBuffers + Acked'
        <2>1. Acked' .. (Lag' - 1) = Acked .. Lag /\ lastdb' = lastdb
            BY <1>a, <1>b, <1>2 DEF Fill, thrVars, Doorbells
        <2>2. Lag' <= NBuffers + Acked'
            BY <1>t, <1>a, <1>b, <1>1, <1>2 DEF Doorbells
        <2> QED BY <1>3, <1>4, <2>1, <2>2
    <1>8. /\ tpc' \in InWindow => Gap(lastdb', snapshot') <= Lag'
          /\ tpc' \in InBuffer => buffer' = Slot(lastdb') /\ snapshot' # lastdb'
        <2>1. /\ tpc' = tpc /\ lastdb' = lastdb /\ snapshot' = snapshot /\ buffer' = buffer
              /\ Gap(lastdb, snapshot) \in Doorbells
            BY <1>t, GapFacts DEF Fill, thrVars
        <2> QED BY <1>b, <1>2, <2>1 DEF PollRing, InWindow, InBuffer, Doorbells
    <1> QED BY <1>5, <1>6, <1>7, <1>8 DEF PollRing, InWindow, InBuffer

\* The device takes an acknowledged buffer back: none of those is in the window.
LEMMA RingAcknowledge ==
    ASSUME TypeOK, PollRing, NEW b \in Buffers, Acknowledge(b)
    PROVE  PollRing'
    <1>1. /\ b \in fbq /\ fbq' = fbq \ {b} /\ owner' = [owner EXCEPT ![b] = "me"]
          /\ UNCHANGED <<filled, doorbell, lastdb, snapshot, buffer, tpc>>
        BY DEF Acknowledge, thrVars
    <1>2. Lag' = Lag /\ Acked' = Acked
        BY <1>1 DEF Lag, Acked
    <1>3. owner \in [Buffers -> {"me", "host"}] /\ fbq \subseteq Buffers
          /\ lastdb \in Int /\ Lag \in Int /\ Acked \in Int
        <2>1. lastdb \in Doorbells /\ filled \in Doorbells
            BY DEF TypeOK, Doorbells
        <2>2. Lag \in Doorbells
            BY <2>1, GapFacts DEF Lag
        <2>3. Lag \in Int /\ lastdb \in Int /\ Acked \in Int
            BY <2>1, <2>2 DEF Doorbells, Acked
        <2> QED BY <2>3 DEF TypeOK
    <1>4. ASSUME NEW i \in Acked .. (Lag - 1)
          PROVE  owner'[Slot(lastdb + i)] = "host" /\ Slot(lastdb + i) \notin fbq'
        <2>1. owner[Slot(lastdb + i)] = "host" /\ Slot(lastdb + i) \notin fbq
            BY DEF PollRing
        <2>2. Slot(lastdb + i) \in Buffers
            <3>1. lastdb + i \in Int
                BY <1>3
            <3> QED BY <3>1, CounterType
        <2> QED BY <1>1, <1>3, <2>1, <2>2
    <1>5. \A c \in fbq' : owner'[c] = "host"
        BY <1>1, <1>3 DEF PollRing
    <1> QED BY <1>1, <1>2, <1>4, <1>5 DEF PollRing

\* The thread announces that a buffer may be refilled: the other buffers of the
\* window are different ones.
LEMMA RingSendFeedback ==
    ASSUME TypeOK, PollRing, SendFeedback
    PROVE  PollRing'
    <1>1. /\ tpc = "feedback" /\ tpc' = "fbwait" /\ fbq' = fbq \cup {buffer}
          /\ UNCHANGED <<owner, filled, doorbell, lastdb, snapshot, buffer>>
        BY DEF SendFeedback, thrVars
    <1>2. Lag' = Lag /\ Acked = 0 /\ Acked' = 1
        BY <1>1 DEF Lag, Acked
    <1>3. /\ lastdb \in Doorbells /\ filled \in Doorbells /\ snapshot \in Doorbells
          /\ lastdb \in Int /\ NBuffers \in Nat \ {0}
        BY SizesOK DEF TypeOK, Doorbells
    <1>4. /\ buffer = Slot(lastdb) /\ snapshot # lastdb
          /\ Gap(lastdb, snapshot) <= Lag /\ Lag <= NBuffers
        BY <1>1, <1>2, <1>3 DEF PollRing
    <1>5. Lag \in Int /\ Lag >= 1
        <2>1. Gap(lastdb, snapshot) \in Doorbells /\ Gap(lastdb, snapshot) # 0
            BY <1>3, <1>4, GapFacts
        <2>2. Lag \in Doorbells
            BY <1>3, GapFacts DEF Lag
        <2> QED BY <1>4, <2>1, <2>2 DEF Doorbells
    <1>6. owner[buffer] = "host"
        <2>1. 0 \in Acked .. (Lag - 1)
            BY <1>2, <1>5
        <2>2. Slot(lastdb + 0) = Slot(lastdb)
            BY <1>3, SlotFacts
        <2> QED BY <1>4, <2>1, <2>2 DEF PollRing
    <1>7. ASSUME NEW i \in 1 .. (Lag - 1)
          PROVE  owner[Slot(lastdb + i)] = "host" /\ Slot(lastdb + i) \notin fbq'
        <2>1. i \in Acked .. (Lag - 1) /\ i \in Int /\ 0 < i /\ i < NBuffers
            BY <1>2, <1>3, <1>4, <1>5
        <2>2. Slot(lastdb + i) # Slot(lastdb)
            BY <1>3, <2>1, SlotFacts
        <2>3. owner[Slot(lastdb + i)] = "host" /\ Slot(lastdb + i) \notin fbq
            BY <2>1 DEF PollRing
        <2> QED BY <1>1, <1>4, <2>2, <2>3
    <1>8. Lag <= NBuffers + 1
        BY <1>3, <1>4, <1>5
    <1> QED BY <1>1, <1>2, <1>4, <1>6, <1>7, <1>8 DEF PollRing

\* lastdb is stepped: the window loses its first buffer.
LEMMA RingNextBuffer ==
    ASSUME TypeOK, PollRing, tpc \in {"feedback", "fbwait"}, tpc' = "drain",
           lastdb' = Inc(lastdb),
           UNCHANGED <<owner, fbq, filled, doorbell, snapshot>>
    PROVE  PollRing'
    <1>1. /\ lastdb \in Doorbells /\ filled \in Doorbells /\ snapshot \in Doorbells
          /\ NBuffers \in Nat \ {0} /\ Acked \in {0, 1} /\ Acked' = 0
        BY SizesOK DEF TypeOK, Doorbells, Acked
    <1>2. /\ Gap(lastdb, snapshot) <= Lag /\ snapshot # lastdb /\ Lag <= NBuffers + Acked
        BY DEF PollRing
    <1>3. /\ Gap(lastdb, snapshot) \in Doorbells /\ Lag \in Doorbells
          /\ Gap(lastdb, snapshot) # 0
        BY <1>1, <1>2, GapFacts DEF Lag
    <1>4. Lag >= 1 /\ Gap(lastdb, snapshot) >= 1
        BY <1>2, <1>3 DEF Doorbells
    <1>5. Lag' = Lag - 1 /\ Gap(lastdb', snapshot') = Gap(lastdb, snapshot) - 1
        <2>1. Gap(Inc(lastdb), filled) = Gap(lastdb, filled) - 1
            BY <1>1, <1>4, GapFacts DEF Lag
        <2>2. Gap(Inc(lastdb), snapshot) = Gap(lastdb, snapshot) - 1
            BY <1>1, <1>4, GapFacts
        <2> QED BY <2>1, <2>2 DEF Lag
    <1>6. ASSUME NEW i \in 0 .. (Lag - 2)
          PROVE  owner[Slot(lastdb' + i)] = "host" /\ Slot(lastdb' + i) \notin fbq
        <2>1. i \in Int /\ i + 1 \in Acked .. (Lag - 1)
            BY <1>1, <1>3 DEF Doorbells
        <2>2. Slot(Inc(lastdb) + i) = Slot(lastdb + (i + 1))
            BY <1>1, <2>1, SlotFacts
        <2>3. owner[Slot(lastdb + (i + 1))] = "host" /\ Slot(lastdb + (i + 1)) \notin fbq
            BY <2>1 DEF PollRing
        <2> QED BY <2>2, <2>3
    <1>7. Lag' - 1 = Lag - 2 /\ Lag' <= NBuffers + Acked' /\ Gap(lastdb', snapshot') <= Lag'
        BY <1>1, <1>2, <1>3, <1>5 DEF Doorbells
    <1> QED BY <1>1, <1>6, <1>7 DEF PollRing

\* The poll loop looks at the doorbell: everything rung for lies ahead of lastdb.
LEMMA RingSnapshot ==
    ASSUME TypeOK, PollRing, PollSnapshot
    PROVE  PollRing'
    <1>1. /\ snapshot' = doorbell /\ doorbell = filled /\ tpc = "snap" /\ tpc' = "drain"
          /\ UNCHANGED <<owner, fbq, filled, doorbell, lastdb, buffer>>
        BY DEF PollSnapshot, PollRing, devVars
    <1>2. Lag' = Lag /\ Acked' = Acked
        BY <1>1 DEF Lag, Acked
    <1>3. Gap(lastdb', snapshot') = Lag' /\ Lag' <= Lag'
        <2>1. lastdb \in Doorbells /\ filled \in Doorbells
            BY DEF TypeOK, Doorbells
        <2>2. Lag \in Doorbells
            BY <2>1, GapFacts DEF Lag
        <2> QED BY <1>1, <1>2, <2>2 DEF Lag, Doorbells
    <1> QED BY <1>1, <1>2, <1>3 DEF PollRing

\* A turn of the drain loop picks the oldest buffer of the window.
LEMMA RingDrain ==
    ASSUME PollRing, PollDrain
    PROVE  PollRing'
    BY DEF PollRing, PollDrain, Lag, Acked, devVars

LEMMA RingInit == ASSUME Init PROVE PollRing
    <1>1. 0 \in Doorbells /\ NBuffers \in Nat \ {0}
        BY SizesOK DEF Doorbells
    <1>2. Lag = 0 /\ Acked = 0
        BY <1>1, GapFacts DEF Init, Lag, Acked
    <1> QED BY <1>1, <1>2 DEF Init, PollRing

\* ipts_resources_init hands out fresh buffers and a doorbell of zero, and the
\* thread starts from a lastdb of zero.
LEMMA RingStart ==
    ASSUME flow # "off" => PollRing, Start
    PROVE  PollRing'
    <1>1. CASE flow = "off"
        <2>1. 0 \in Doorbells /\ NBuffers \in Nat \ {0}
            BY SizesOK DEF Doorbells
        <2>2. /\ lastdb' = 0 /\ filled' = 0 /\ doorbell' = 0 /\ fbq' = {} /\ tpc' = "top"
              /\ snapshot' = 0
            BY <1>1 DEF Start
        <2>3. Lag' = 0 /\ Acked' = 0
            BY <2>1, <2>2, GapFacts DEF Lag, Acked
        <2> QED BY <2>1, <2>2, <2>3 DEF PollRing
    <1>2. CASE flow # "off"
        BY <1>2, RingKeep DEF Start, thrVars
    <1> QED BY <1>1, <1>2

LEMMA RingStep ==
    ASSUME TypeOK, LoopInv, mode = "poll", PollRing, [Next]_vars
    PROVE  PollRing'
    <1> USE DEF InWindow, InBuffer
    <1>l. tpc \notin {"take", "request"}
        BY DEF LoopInv
    <1>1. ASSUME NEW f \in Frames, Fill(f) PROVE PollRing'
        BY <1>1, RingFill
    <1>2. ASSUME NEW b \in Buffers, Acknowledge(b) PROVE PollRing'
        BY <1>2, RingAcknowledge
    <1>3. CASE Quiesce \/ FlushDone \/ DeviceError
        BY <1>3, RingKeep DEF Quiesce, FlushDone, DeviceError, thrVars
    <1>4. CASE PollTop \/ PollCheck \/ InputStart \/ InputEnd
        BY <1>4, RingKeep DEF PollTop, PollCheck, InputStart, InputEnd, devVars, thrVars
    <1>5. CASE PollSnapshot
        BY <1>5, RingSnapshot
    <1>6. CASE PollDrain
        BY <1>6, RingDrain
    <1>7. CASE EventTop \/ EventTake \/ EventRequest
        BY <1>7, <1>l DEF EventTop, EventTake, EventRequest
    <1>8. CASE SendFeedback
        BY <1>8, RingSendFeedback
    <1>9. CASE SendFeedbackFails \/ RecvFeedback
        <2>1. /\ tpc \in {"feedback", "fbwait"} /\ tpc' = "drain" /\ lastdb' = Inc(lastdb)
              /\ UNCHANGED <<owner, fbq, filled, doorbell, snapshot>>
            BY <1>9 DEF SendFeedbackFails, RecvFeedback, NextBuffer, devVars
        <2> QED BY <2>1, RingNextBuffer
    <1>10. CASE RequestFlush
        BY <1>10, RingKeep DEF RequestFlush, Exit, thrVars
    <1>11. CASE WaitData
        <2>1. /\ tpc = "waitdata" /\ tpc' \in {"waitflush", "done"}
              /\ UNCHANGED <<owner, fbq, filled, doorbell, lastdb, snapshot, buffer>>
            <3>1. tpc' \in {"waitflush", "done"}
                <4>1. Has("READY_FOR_DATA") => Head(mail["READY_FOR_DATA"]) \in Statuses
                    <5>1. mail \in Mailboxes /\ "READY_FOR_DATA" \in Codes
                        BY DEF TypeOK, Codes
                    <5> QED BY <5>1, TakenType
                <4> QED BY <1>11, <4>1 DEF WaitData, Exit, Statuses
            <3> QED BY <1>11, <3>1 DEF WaitData, devVars, thrVars
        <2> QED BY <2>1, RingKeep
    <1>12. CASE WaitFlush
        BY <1>12, RingKeep DEF WaitFlush, Exit, devVars, thrVars
    <1>13. CASE Start
        BY <1>13, RingStart
    <1>14. CASE StartRequest \/ StartEnable
        BY <1>14, RingKeep DEF StartRequest, StartEnable, devVars, thrVars
    <1>15. CASE StopDisable \/ StopSignal \/ StopJoin \/ StopFree \/ Restart
        BY <1>15, RingKeep
        DEF StopDisable, StopSignal, StopJoin, StopFree, Restart, devVars, thrVars
    <1>16. CASE UNCHANGED vars
        BY <1>16, RingKeep DEF vars, devVars, thrVars
    <1>17. CASE Finished
        BY <1>16, <1>17 DEF Finished
    <1> QED
        BY <1>1, <1>2, <1>3, <1>4, <1>5, <1>6, <1>7, <1>8, <1>9, <1>10, <1>11, <1>12,
           <1>13, <1>14, <1>15, <1>16, <1>17
        DEF Next, Device, Thread, Control

\* Only a start that comes through changes the loop.
LEMMA ModeKept ==
    ASSUME [Next]_vars, ~(Start /\ flow = "off")
    PROVE  mode' = mode
    <1>1. CASE Device
        BY <1>1 DEF Device, Fill, Acknowledge, Quiesce, FlushDone, DeviceError, ctlVars
    <1>2. CASE Thread
        BY <1>2
        DEF Thread, PollTop, PollSnapshot, PollDrain, PollCheck, EventTop, EventTake,
            EventRequest, InputStart, InputEnd, SendFeedback, SendFeedbackFails,
            RecvFeedback, RequestFlush, WaitData, WaitFlush, ctlVars
    <1>3. CASE Control
        BY <1>3
        DEF Control, Start, StartRequest, StartEnable, StopDisable, StopSignal, StopJoin,
            StopFree, Restart, ctlVars
    <1>4. CASE Finished \/ UNCHANGED vars
        BY <1>4 DEF Finished, vars, ctlVars
    <1> QED BY <1>1, <1>2, <1>3, <1>4 DEF Next

\* While the driver polls, lastdb never falls behind or overtakes the doorbell
\* by more than the ring: every doorbell between them stands for a buffer that
\* is the host's and is not promised back.  On a device that is switched
\* between the loops, this holds from each start of the poll loop on.
THEOREM RingCorrect == Spec => []RingInv
    <1>1. Init => RingInv
        BY RingInit DEF RingInv
    <1>2. (TypeOK /\ LoopInv) /\ RingInv /\ [Next]_vars => RingInv'
        <2> SUFFICES ASSUME TypeOK, LoopInv, RingInv, [Next]_vars, mode' = "poll"
                     PROVE  PollRing'
            BY DEF RingInv
        <2>1. CASE Start /\ flow = "off"
            BY <2>1, RingStart
        <2>2. CASE ~(Start /\ flow = "off")
            <3>1. mode' = mode
                BY <2>2, ModeKept
            <3> QED BY <3>1, RingStep DEF RingInv
        <2> QED BY <2>1, <2>2
    <1> QED BY <1>1, <1>2, TypeCorrect, PTL DEF Spec

\* The buffer the poll loop reads or acknowledges is in the window.
LEMMA BufferHeld ==
    ASSUME TypeOK, PollRing, tpc \in {"input", "reading", "feedback"}
    PROVE  owner[buffer] = "host" /\ buffer \notin fbq
    <1>1. lastdb \in Doorbells /\ filled \in Doorbells /\ snapshot \in Doorbells
        BY DEF TypeOK, Doorbells
    <1>2. buffer = Slot(lastdb) /\ snapshot # lastdb /\ Gap(lastdb, snapshot) <= Lag /\ Acked = 0
        BY DEF PollRing, Acked
    <1>3. Lag \in Int /\ Lag >= 1
        <2>1. Gap(lastdb, snapshot) \in Doorbells /\ Gap(lastdb, snapshot) # 0
            BY <1>1, <1>2, GapFacts
        <2>2. Lag \in Doorbells
            BY <1>1, GapFacts DEF Lag
        <2> QED BY <1>2, <2>1, <2>2 DEF Doorbells
    <1>4. 0 \in Acked .. (Lag - 1)
        BY <1>2, <1>3
    <1>5. Slot(lastdb + 0) = Slot(lastdb)
        BY <1>1, SlotFacts
    <1> QED BY <1>2, <1>4, <1>5 DEF PollRing

-----------------------------------------------------------------------------
(* Memory: ipts_thread_stop returns before ipts_resources_free is called *)

\* The task that stops the driver is past the completion only when the thread is.
FreeInv ==
    /\ FreedAfterExit
    /\ ctl \in {"free", "stopped", "starting"} => tpc \in {"none", "done"}

LEMMA FreeStep ==
    ASSUME FreeInv, [Next]_vars
    PROVE  FreeInv'
    <1> USE DEF FreeInv, FreedAfterExit
    <1>1. CASE Device
        BY <1>1 DEF Device, Fill, Acknowledge, Quiesce, FlushDone, DeviceError, ctlVars
    <1>2. CASE Thread
        <2>1. /\ tpc \notin {"none", "done"}
              /\ UNCHANGED <<allocated, ctl>>
            BY <1>2
            DEF Thread, PollTop, PollSnapshot, PollDrain, PollCheck, EventTop, EventTake,
                EventRequest, InputStart, InputEnd, SendFeedback, SendFeedbackFails,
                RecvFeedback, RequestFlush, WaitData, WaitFlush, ctlVars
        <2> QED BY <2>1
    <1>3. CASE Start
        BY <1>3 DEF Start
    <1>4. CASE StartRequest \/ StartEnable \/ StopDisable \/ StopSignal
        BY <1>4 DEF StartRequest, StartEnable, StopDisable, StopSignal
    <1>5. CASE StopJoin \/ StopFree \/ Restart
        BY <1>5 DEF StopJoin, StopFree, Restart
    <1>6. CASE UNCHANGED vars \/ Finished
        BY <1>6 DEF Finished, vars, ctlVars
    <1> QED BY <1>1, <1>2, <1>3, <1>4, <1>5, <1>6 DEF Next, Control

\* The buffers are never freed under the receiver thread, in either mode and
\* whatever fails: the free comes after the completion of the thread.
THEOREM FreeSafe == Spec => []FreedAfterExit
    <1>1. Init => FreeInv
        BY DEF Init, FreeInv, FreedAfterExit
    <1>2. FreeInv /\ [Next]_vars => FreeInv'
        BY FreeStep
    <1>3. FreeInv => FreedAfterExit
        BY DEF FreeInv
    <1> QED BY <1>1, <1>2, <1>3, PTL DEF Spec
-----------------------------------------------------------------------------
(* One start and one stop *)

\* The driver is started once: there is one mode, or no second session.
OneStart == MaxSessions <= 1 \/ \E m \in {"event", "poll"} : Modes = {m}

\* What the task that starts and stops the driver has done by the place it is at.
LifeInv ==
    /\ session = 1
    /\ hidActive <=> ctl = "running"
    /\ ctl \in {"starting", "stopped"} => ~allocated
    /\ ctl \in {"request", "enable", "running", "signal", "join", "free"} => allocated
    /\ ctl = "starting" => tpc = "none"
    /\ shouldStop => ctl \in {"join", "free", "stopped", "failed"}

LEMMA DeviceThreadKeep ==
    /\ Device => UNCHANGED <<ctlVars, allocated, tpc, ret, thrVars, out>>
    /\ Thread => UNCHANGED <<ctlVars, allocated>>
    <1>1. Device => UNCHANGED <<ctlVars, allocated, tpc, ret, thrVars, out>>
        BY DEF Device, Fill, Acknowledge, Quiesce, FlushDone, DeviceError
    <1>2. Thread => UNCHANGED <<ctlVars, allocated>>
        BY DEF Thread, PollTop, PollSnapshot, PollDrain, PollCheck, EventTop, EventTake,
               EventRequest, InputStart, InputEnd, SendFeedback, SendFeedbackFails,
               RecvFeedback, RequestFlush, WaitData, WaitFlush
    <1> QED BY <1>1, <1>2

LEMMA NoRestart ==
    ASSUME OneStart, TypeOK, session = 1
    PROVE  ~Restart
    <1> SUFFICES ASSUME Restart PROVE FALSE
        OBVIOUS
    <1>1. mode \in Modes /\ Modes # {mode} /\ 1 < MaxSessions
        BY DEF Restart, TypeOK
    <1> QED BY <1>1, ParameterAssumption DEF OneStart

LEMMA LifeStep ==
    ASSUME OneStart, TypeOK, LifeInv, [Next]_vars
    PROVE  LifeInv' /\ mode' = mode
    <1> USE DEF LifeInv
    <1>1. CASE Device \/ Thread \/ Finished \/ UNCHANGED vars
        <2>1. Thread => tpc # "none"
            BY DEF Thread, PollTop, PollSnapshot, PollDrain, PollCheck, EventTop, EventTake,
                   EventRequest, InputStart, InputEnd, SendFeedback, SendFeedbackFails,
                   RecvFeedback, RequestFlush, WaitData, WaitFlush
        <2> QED BY <1>1, <2>1, DeviceThreadKeep DEF ctlVars, Finished, vars
    <1>2. CASE Start
        <2>1. mode' = mode /\ session' = session /\ hidActive' = hidActive
            BY <1>2 DEF Start
        <2>2. CASE flow = "off"
            BY <1>2, <2>1, <2>2 DEF Start
        <2>3. CASE flow # "off"
            BY <1>2, <2>1, <2>3 DEF Start
        <2> QED BY <2>1, <2>2, <2>3
    <1>3. CASE StartRequest
        BY <1>3 DEF StartRequest
    <1>4. CASE StartEnable \/ StopDisable \/ StopSignal
        BY <1>4 DEF StartEnable, StopDisable, StopSignal
    <1>5. CASE StopJoin \/ StopFree
        BY <1>5 DEF StopJoin, StopFree
    <1> QED BY <1>1, <1>2, <1>3, <1>4, <1>5, NoRestart DEF Next, Control

LEMMA LifeInit == Init => LifeInv
    BY DEF Init, LifeInv

-----------------------------------------------------------------------------
(* The mailbox *)

\* A response is put in front of the unread ones of its command, or dropped.
LEMMA PostedAt ==
    ASSUME NEW box \in Mailboxes, NEW code \in Codes, NEW s \in Statuses
    PROVE  /\ Posted(box, code, s)[code] \in {box[code], <<s>> \o box[code]}
           /\ \A c \in Codes : c # code => Posted(box, code, s)[c] = box[c]
    BY DEF Posted, Mailboxes

\* No response, or one.
Answers == {<<>>} \cup {<<s>> : s \in Statuses}

LEMMA PostedFirst ==
    ASSUME NEW box \in Mailboxes, NEW code \in Codes, NEW s \in Statuses, box[code] = <<>>
    PROVE  LET new == Posted(box, code, s)[code]
           IN  new \in Answers /\ (new # <<>> => Head(new) = s)
    <1>1. <<s>> \o <<>> = <<s>> /\ Head(<<s>>) = s
        OBVIOUS
    <1>2. Posted(box, code, s)[code] \in {<<>>, <<s>>}
        BY <1>1, PostedAt
    <1> QED BY <1>1, <1>2 DEF Answers

LEMMA TakenAt ==
    ASSUME mail \in Mailboxes, NEW code \in Codes
    PROVE  /\ Taken(code)[code] = Tail(mail[code])
           /\ \A c \in Codes : c # code => Taken(code)[c] = mail[c]
    BY DEF Taken, Mailboxes

-----------------------------------------------------------------------------
(* The ring in event mode *)

Ready == mail["READY_FOR_DATA"]
Early == ctl \in {"starting", "request"}
Handling == tpc \in {"input", "reading", "feedback", "fbwait", "request"}
Ending == tpc \in {"waitdata", "waitflush", "done"}
Before(n) == (n - 1) % DoorbellMod
Filling == {"SUCCESS", "SENSOR_DISABLED"}

\* There is one READY_FOR_DATA at most: not sent yet, with the device, answered, or
\* turned into the buffer the thread is handling.
OneAnswer ==
    /\ Ready \in Answers
    /\ Early => ~Outstanding /\ Ready = <<>> /\ ~Handling
    /\ Outstanding => Ready = <<>> /\ ~Handling
    /\ Handling => Ready = <<>>

\* So the device is ahead by one buffer at most, and an answer says that it is,
\* as long as no flush was requested.
EventRing ==
    /\ OneAnswer
    /\ ~Ending => "QUIESCE_IO" \notin cmds /\ flow # "quiescing"
    /\ filled \in {doorbell, Inc(doorbell)}
    /\ Outstanding \/ Handling \/ Early => filled = doorbell
    /\ ~Ending /\ Ready # <<>> /\ Head(Ready) \in Filling => filled = Inc(doorbell)
    /\ filled # doorbell => owner[Slot(doorbell)] = "host" /\ Slot(doorbell) \notin fbq
    /\ tpc \in {"input", "reading", "feedback"} =>
         buffer = Slot(Before(doorbell)) /\ owner[buffer] = "host" /\ buffer \notin fbq
    /\ \A b \in fbq : owner[b] = "host"

LEMMA BeforeFacts ==
    ASSUME NEW d \in Doorbells
    PROVE  /\ Before(d) \in Doorbells /\ Inc(Before(d)) = d /\ Before(Inc(d)) = d
           /\ Inc(d) # d /\ Gap(Before(d), d) = 1 /\ Gap(d, Inc(d)) = 1
    <1>1. /\ d \in Int /\ 0 <= d /\ d < DoorbellMod /\ DoorbellMod \in Nat \ {0}
          /\ DoorbellMod > 1 /\ 1 \in Doorbells
        BY SizesOK DEF Doorbells
    <1>2. \A c \in Doorbells : Before(c) = IF c >= 1 THEN c - 1 ELSE (c - 1) + DoorbellMod
        BY <1>1, GapStep DEF Before, Gap
    <1>3. \A c \in Doorbells : Before(c) \in Doorbells /\ Inc(Before(c)) = c
        <2> TAKE c \in Doorbells
        <2>1. Before(c) \in Doorbells
            BY <1>1, <1>2 DEF Doorbells
        <2> QED BY <1>1, <1>2, <2>1, IncStep DEF Doorbells
    <1>4. Inc(d) \in Doorbells /\ Inc(d) # d /\ Before(Inc(d)) = d
        <2>1. Inc(d) \in Doorbells /\ Inc(d) = IF d = DoorbellMod - 1 THEN 0 ELSE d + 1
            BY IncStep, GapFacts
        <2> QED BY <1>1, <1>2, <2>1 DEF Doorbells
    <1>5. \A c \in Doorbells : Gap(c, Inc(c)) = 1
        <2> TAKE c \in Doorbells
        <2>1. Gap(c, c) = 0 /\ 0 < DoorbellMod - 1
            BY <1>1, GapFacts
        <2> QED BY <2>1, GapFacts
    <1> QED BY <1>3, <1>4, <1>5

\* Steps that leave the ring alone and ask for no data.
LEMMA EventKeep ==
    ASSUME EventRing,
           UNCHANGED <<owner, fbq, filled, doorbell, cmds, buffer, Ready>>,
           Early' => Early,
           Handling' => Handling,
           ~Ending' => ~Ending,
           ~Ending' => flow' = flow,
           tpc' \in {"input", "reading", "feedback"} => tpc \in {"input", "reading", "feedback"}
    PROVE  EventRing'
    BY DEF EventRing, OneAnswer, Outstanding

LEMMA EventFill ==
    ASSUME TypeOK, EventRing, mode = "event", NEW f \in Frames, Fill(f)
    PROVE  EventRing'
    <1>1. /\ owner[Slot(filled)] = "me" /\ owner' = [owner EXCEPT ![Slot(filled)] = "host"]
          /\ filled' = Inc(filled) /\ Outstanding /\ ~Outstanding'
          /\ mail' = Posted(mail, "READY_FOR_DATA", "SUCCESS")
          /\ cmds' \subseteq cmds
          /\ UNCHANGED <<doorbell, flow, fbq, tpc, buffer, ctl>>
        BY DEF Fill, Outstanding, thrVars, ctlVars
    <1>2. filled = doorbell /\ Ready = <<>> /\ ~Handling /\ ~Early
        BY <1>1 DEF EventRing, OneAnswer
    <1>3. Ready' \in Answers
        <2>1. mail \in Mailboxes /\ "READY_FOR_DATA" \in Codes /\ "SUCCESS" \in Statuses
            BY DEF TypeOK, Codes, Statuses
        <2> QED BY <1>1, <1>2, <2>1, PostedFirst DEF Ready
    <1>5. doorbell \in Doorbells /\ Inc(doorbell) # doorbell /\ Slot(doorbell) \in Buffers
        <2>1. doorbell \in Doorbells /\ doorbell \in Int
            BY DEF TypeOK, Doorbells
        <2> QED BY <2>1, BeforeFacts, CounterType
    <1>6. Slot(doorbell) \notin fbq /\ owner'[Slot(doorbell)] = "host"
        BY <1>1, <1>2, <1>5 DEF EventRing, TypeOK
    <1>7. \A b \in fbq : owner'[b] = "host"
        BY <1>1 DEF EventRing, TypeOK
    <1>8. ~Handling' /\ ~Early' /\ (~Ending' => ~Ending)
        BY <1>1, <1>2 DEF Handling, Early, Ending
    <1>9. tpc' \notin {"input", "reading", "feedback"}
        BY <1>8 DEF Handling
    <1> QED BY <1>1, <1>2, <1>3, <1>6, <1>7, <1>8, <1>9 DEF EventRing, OneAnswer

LEMMA EventAcknowledge ==
    ASSUME TypeOK, EventRing, NEW b \in Buffers, Acknowledge(b)
    PROVE  EventRing'
    <1>1. /\ b \in fbq /\ fbq' = fbq \ {b} /\ owner' = [owner EXCEPT ![b] = "me"]
          /\ mail' = Posted(mail, "FEEDBACK", "SUCCESS")
          /\ UNCHANGED <<flow, cmds, filled, doorbell, tpc, buffer, ctl>>
        BY DEF Acknowledge, thrVars, ctlVars
    <1>2. Ready' = Ready
        <2>1. mail \in Mailboxes /\ "FEEDBACK" \in Codes /\ "READY_FOR_DATA" \in Codes
              /\ "SUCCESS" \in Statuses
            BY DEF TypeOK, Codes, Statuses
        <2> QED BY <1>1, <2>1, PostedAt DEF Ready
    <1>3. owner \in [Buffers -> {"me", "host"}] /\ Slot(doorbell) \in Buffers /\ buffer \in Buffers
        <2>1. doorbell \in Int
            BY DEF TypeOK
        <2> QED BY <2>1, CounterType DEF TypeOK
    <1> QED BY <1>1, <1>2, <1>3 DEF EventRing, OneAnswer, Outstanding, Early, Handling, Ending

\* The device answers READY_FOR_DATA without a buffer: with an error, or at the end.
LEMMA EventDeviceRest ==
    ASSUME TypeOK, EventRing, Quiesce \/ FlushDone \/ DeviceError
    PROVE  EventRing'
    <1>t. /\ mail \in Mailboxes /\ "READY_FOR_DATA" \in Codes /\ "QUIESCE_IO" \in Codes
          /\ {"SUCCESS", "SENSOR_DISABLED", "TIMEOUT", "ERROR"} \subseteq Statuses
        BY DEF TypeOK, Codes, Statuses
    <1>k. UNCHANGED <<owner, fbq, filled, doorbell, buffer, tpc, ctl>>
        BY DEF Quiesce, FlushDone, DeviceError, thrVars, ctlVars
    <1>p. Early' = Early /\ Handling' = Handling /\ Ending' = Ending
        BY <1>k DEF Early, Handling, Ending
    <1>1. CASE Quiesce
        <2>1. Ending /\ mail' = mail /\ Outstanding' = Outstanding
            BY <1>1 DEF Quiesce, EventRing, Outstanding
        <2> QED BY <1>k, <1>p, <2>1 DEF EventRing, OneAnswer, Ready
    <1>2. CASE FlushDone
        <2>1. Ending /\ ~Outstanding'
            BY <1>2 DEF FlushDone, EventRing, Outstanding
        <2>2. /\ Ready' \in Answers
              /\ Ready' # <<>> => Ready # <<>> \/ Outstanding
            <3>1. PICK s \in {"SUCCESS", "SENSOR_DISABLED"} :
                    mail' = Posted(IF Outstanding THEN Posted(mail, "READY_FOR_DATA", s) ELSE mail,
                                   "QUIESCE_IO", "SUCCESS")
                BY <1>2 DEF FlushDone
            <3> DEFINE box == IF Outstanding THEN Posted(mail, "READY_FOR_DATA", s) ELSE mail
            <3>2. box \in Mailboxes /\ s \in Statuses /\ "SUCCESS" \in Statuses
                BY <1>t, PostedType
            <3>3. Ready' = box["READY_FOR_DATA"]
                <4>1. mail' = Posted(box, "QUIESCE_IO", "SUCCESS")
                    BY <3>1
                <4> HIDE DEF box
                <4>2. "QUIESCE_IO" # "READY_FOR_DATA"
                    OBVIOUS
                <4>3. Posted(box, "QUIESCE_IO", "SUCCESS")["READY_FOR_DATA"] = box["READY_FOR_DATA"]
                    BY <3>2, <4>2 DEF Posted, Mailboxes, Codes
                <4> QED BY <4>1, <4>3 DEF Ready
            <3>4. CASE Outstanding
                <4>1. Ready = <<>> /\ box = Posted(mail, "READY_FOR_DATA", s)
                    BY <3>4 DEF EventRing, OneAnswer
                <4> HIDE DEF box
                <4>2. Ready' \in Answers
                    BY <1>t, <3>2, <3>3, <4>1, PostedFirst DEF Ready
                <4> QED BY <3>4, <4>2
            <3>5. CASE ~Outstanding
                <4>1. box = mail
                    BY <3>5
                <4> HIDE DEF box
                <4> QED BY <3>3, <4>1 DEF EventRing, OneAnswer, Ready
            <3> QED BY <3>4, <3>5
        <2> QED BY <1>k, <1>p, <2>1, <2>2 DEF EventRing, OneAnswer
    <1>3. CASE DeviceError
        <2>1. PICK s \in {"TIMEOUT", "ERROR"} :
                \/ /\ Outstanding
                   /\ cmds' = cmds \ {"READY_FOR_DATA"}
                   /\ mail' = Posted(mail, "READY_FOR_DATA", s)
                   /\ UNCHANGED flow
                \/ /\ flow = "quiescing"
                   /\ flow' = "on"
                   /\ mail' = Posted(mail, "QUIESCE_IO", s)
                   /\ UNCHANGED cmds
            BY <1>3 DEF DeviceError
        <2>2. CASE Outstanding /\ cmds' = cmds \ {"READY_FOR_DATA"} /\ UNCHANGED flow
                   /\ mail' = Posted(mail, "READY_FOR_DATA", s)
            <3>1. Ready = <<>> /\ ~Handling /\ ~Early /\ ~Outstanding' /\ filled = doorbell
                BY <2>2 DEF EventRing, OneAnswer, Outstanding
            <3>2. Ready' \in Answers /\ (Ready' # <<>> => Head(Ready') = s)
                <4>1. s \in Statuses
                    BY <1>t
                <4> QED BY <1>t, <2>2, <3>1, <4>1, PostedFirst DEF Ready
            <3>3. Ready' \in Answers /\ (Ready' # <<>> => Head(Ready') \notin Filling)
                BY <3>2 DEF Filling
            <3> QED BY <1>k, <1>p, <2>2, <3>1, <3>3 DEF EventRing, OneAnswer
        <2>3. CASE flow = "quiescing" /\ mail' = Posted(mail, "QUIESCE_IO", s) /\ UNCHANGED cmds
            <3>1. Ready' = Ready
                <4>1. s \in Statuses
                    BY <1>t
                <4> QED BY <1>t, <2>3, <4>1, PostedAt DEF Ready
            <3>2. Ending
                BY <2>3 DEF EventRing
            <3> QED BY <1>k, <1>p, <2>3, <3>1, <3>2 DEF EventRing, OneAnswer, Outstanding
        <2> QED BY <2>1, <2>2, <2>3
    <1> QED BY <1>1, <1>2, <1>3

\* The one answer is turned into a buffer, or it was an error.
LEMMA EventTakeStep ==
    ASSUME TypeOK, EventRing, EventTake
    PROVE  EventRing'
    <1>t. /\ mail \in Mailboxes /\ "READY_FOR_DATA" \in Codes /\ doorbell \in Doorbells
        BY DEF TypeOK, Codes, Doorbells
    <1>1. /\ tpc = "take" /\ tpc' \in {"take", "top", "input"}
          /\ UNCHANGED <<owner, fbq, filled, cmds, flow, ctl>>
        <2>1. Has("READY_FOR_DATA") => Head(Ready) \in {"SUCCESS", "SENSOR_DISABLED", "TIMEOUT", "ERROR"}
            BY <1>t, TakenType DEF Ready, Statuses
        <2> QED BY <2>1 DEF EventTake, devVars, ctlVars, Ready
    <1>2. CASE ~(round < NBuffers /\ Has("READY_FOR_DATA"))
        <2>1. UNCHANGED <<mail, buffer, doorbell>> /\ tpc' = "top"
            BY <1>2 DEF EventTake
        <2> QED BY <1>1, <2>1, EventKeep DEF Early, Handling, Ending, Ready
    <1>3. CASE round < NBuffers /\ Has("READY_FOR_DATA")
        <2>1. Ready \in Answers /\ Ready # <<>> /\ ~Outstanding /\ ~Early
            <3>1. Ready # <<>>
                BY <1>3 DEF Has, Ready
            <3> QED BY <3>1 DEF EventRing, OneAnswer
        <2>2. Ready' = <<>> /\ Ready' \in Answers
            <3>1. mail' = Taken("READY_FOR_DATA")
                BY <1>3 DEF EventTake
            <3>2. Ready' = Tail(Ready)
                BY <1>t, <3>1, TakenAt DEF Ready
            <3>3. \A s : Tail(<<s>>) = <<>>
                OBVIOUS
            <3> QED BY <2>1, <3>2, <3>3 DEF Answers
        <2>3. CASE Head(Ready) \in Filling
            <3>1. buffer' = Slot(doorbell) /\ doorbell' = Inc(doorbell) /\ tpc' = "input"
                BY <1>3, <2>3 DEF EventTake, Filling, Ready
            <3>2. filled = Inc(doorbell)
                BY <1>1, <2>1, <2>3 DEF EventRing, Ending
            <3>3. Inc(doorbell) # doorbell /\ Before(Inc(doorbell)) = doorbell
                BY <1>t, BeforeFacts
            <3>4. owner[Slot(doorbell)] = "host" /\ Slot(doorbell) \notin fbq
                BY <3>2, <3>3 DEF EventRing
            <3>5. buffer' = Slot(Before(doorbell'))
                BY <3>1, <3>3
            <3> QED BY <1>1, <2>1, <2>2, <3>1, <3>2, <3>4, <3>5
                    DEF EventRing, OneAnswer, Outstanding, Early, Handling, Ending
        <2>4. CASE Head(Ready) \notin Filling
            <3>1. tpc' \in {"take", "top"} /\ UNCHANGED <<buffer, doorbell>>
                <4>1. Head(Ready) \in {"TIMEOUT", "ERROR"}
                    BY <1>3, <1>t, <2>4, TakenType DEF Ready, Statuses, Filling
                <4> QED BY <1>1, <1>3, <4>1 DEF EventTake, Ready
            <3> QED BY <1>1, <2>1, <2>2, <3>1
                    DEF EventRing, OneAnswer, Outstanding, Early, Handling, Ending
        <2> QED BY <2>3, <2>4
    <1> QED BY <1>2, <1>3

\* More data is asked for, by the thread or at the start: there was no request left.
LEMMA EventAsk ==
    ASSUME TypeOK, EventRing, EventRequest \/ StartRequest
    PROVE  EventRing'
    <1>1. /\ UNCHANGED <<owner, fbq, filled, doorbell, buffer>>
          /\ ~Outstanding /\ Ready = <<>> /\ filled = doorbell
          /\ ~Early' /\ ~Handling' /\ (~Ending' => ~Ending)
        <2>1. CASE EventRequest
            BY <2>1 DEF EventRequest, EventRing, OneAnswer, Handling, Early, Ending, ctlVars
        <2>2. CASE StartRequest
            BY <2>2 DEF StartRequest, EventRing, OneAnswer, Handling, Early, Ending, thrVars
        <2> QED BY <2>1, <2>2
    <1>2. \/ cmds' = cmds \cup {"READY_FOR_DATA"} /\ flow' \in {"on", flow} /\ UNCHANGED mail
          \/ UNCHANGED <<cmds, flow, mail>>
        BY <1>1 DEF EventRequest, StartRequest, SentReady
    <1>3. Ready' = <<>> /\ Ready' \in Answers
        BY <1>1, <1>2 DEF Ready, Answers
    <1>4. ("QUIESCE_IO" \in cmds' <=> "QUIESCE_IO" \in cmds) /\ (flow' = "quiescing" => flow = "quiescing")
        BY <1>2
    <1>5. tpc' \notin {"input", "reading", "feedback"}
        BY <1>1 DEF Handling
    <1> QED BY <1>1, <1>3, <1>4, <1>5 DEF EventRing, OneAnswer

LEMMA EventStart ==
    ASSUME EventRing, tpc = "none", Start
    PROVE  EventRing'
    <1>1. CASE flow = "off"
        <2>1. /\ filled' = 0 /\ doorbell' = 0 /\ fbq' = {} /\ tpc' = "top" /\ ctl' = "request"
              /\ UNCHANGED <<flow, cmds, mail>>
            BY <1>1 DEF Start
        <2>2. "QUIESCE_IO" \notin cmds' /\ flow' = "off"
            BY <1>1, <2>1 DEF EventRing, Ending
        <2>3. OneAnswer' /\ Ready' = <<>>
            BY <2>1 DEF EventRing, OneAnswer, Early, Handling, Outstanding, Ready, Start
        <2> QED BY <2>1, <2>2, <2>3 DEF EventRing, Ending
    <1>2. CASE flow # "off"
        BY <1>2, EventKeep DEF Start, thrVars, Early, Handling, Ending, Ready
    <1> QED BY <1>1, <1>2

LEMMA EventStep ==
    ASSUME TypeOK, LoopInv, LifeInv, mode = "event", EventRing, ~Restart, [Next]_vars
    PROVE  EventRing'
    <1>u. \A code \in Codes : code # "READY_FOR_DATA" => Taken(code)["READY_FOR_DATA"] = Ready
        <2>1. mail \in Mailboxes /\ "READY_FOR_DATA" \in Codes
            BY DEF TypeOK, Codes
        <2> QED BY <2>1, TakenAt DEF Ready
    <1>1. CASE Device
        BY <1>1, EventFill, EventAcknowledge, EventDeviceRest DEF Device
    <1>2. CASE PollTop \/ PollSnapshot \/ PollDrain \/ PollCheck
        BY <1>2 DEF PollTop, PollSnapshot, PollDrain, PollCheck, LoopInv
    <1>3. CASE EventTop \/ InputStart \/ InputEnd
        BY <1>3, EventKeep
        DEF EventTop, InputStart, InputEnd, devVars, thrVars, ctlVars, Early, Handling, Ending, Ready
    <1>4. CASE EventTake
        BY <1>4, EventTakeStep
    <1>5. CASE EventRequest \/ StartRequest
        BY <1>5, EventAsk
    <1>6. CASE SendFeedback
        <2>1. /\ tpc = "feedback" /\ tpc' = "fbwait" /\ fbq' = fbq \cup {buffer}
              /\ UNCHANGED <<owner, filled, doorbell, cmds, flow, mail, buffer, ctl>>
            BY <1>6 DEF SendFeedback, thrVars, ctlVars
        <2>2. filled = doorbell /\ owner[buffer] = "host"
            BY <2>1 DEF EventRing, Handling
        <2> QED BY <2>1, <2>2 DEF EventRing, OneAnswer, Outstanding, Early, Handling, Ending, Ready
    <1>7. CASE SendFeedbackFails \/ RecvFeedback
        <2>1. /\ tpc \in {"feedback", "fbwait"} /\ tpc' = "request"
              /\ UNCHANGED <<owner, fbq, filled, doorbell, cmds, flow, buffer, ctl>>
            BY <1>7 DEF SendFeedbackFails, RecvFeedback, NextBuffer, devVars, ctlVars
        <2>2. Ready' = Ready
            <3>1. mail' = mail \/ mail' = Taken("FEEDBACK")
                BY <1>7 DEF SendFeedbackFails, RecvFeedback
            <3> QED BY <1>u, <3>1 DEF Ready, Codes
        <2> QED BY <2>1, <2>2, EventKeep DEF Early, Handling, Ending
    <1>8. CASE RequestFlush
        <2>1. /\ tpc = "flush" /\ tpc' \in {"waitdata", "done"}
              /\ UNCHANGED <<owner, fbq, filled, doorbell, flow, mail, buffer, ctl>>
              /\ Outstanding' = Outstanding
            BY <1>8 DEF RequestFlush, Exit, thrVars, ctlVars, Outstanding
        <2> QED BY <2>1 DEF EventRing, OneAnswer, Early, Handling, Ending, Ready
    <1>9. CASE WaitData \/ WaitFlush
        <2>1. /\ tpc \in {"waitdata", "waitflush"} /\ tpc' \in {"waitflush", "done"}
              /\ UNCHANGED <<owner, fbq, filled, doorbell, cmds, flow, buffer, ctl>>
            <3>1. Has("READY_FOR_DATA") => Head(mail["READY_FOR_DATA"]) \in Statuses
                <4>1. mail \in Mailboxes /\ "READY_FOR_DATA" \in Codes
                    BY DEF TypeOK, Codes
                <4> QED BY <4>1, TakenType
            <3> QED BY <1>9, <3>1 DEF WaitData, WaitFlush, Exit, devVars, thrVars, ctlVars, Statuses
        <2>2. Ready' \in {Ready, Tail(Ready)}
            <3>1. mail' \in {mail, Taken("READY_FOR_DATA"), Taken("QUIESCE_IO")}
                BY <1>9 DEF WaitData, WaitFlush
            <3>2. mail \in Mailboxes /\ "READY_FOR_DATA" \in Codes /\ "QUIESCE_IO" \in Codes
                BY DEF TypeOK, Codes
            <3> QED BY <3>1, <3>2, TakenAt DEF Ready
        <2>3. Ready' \in Answers /\ (Ready' = Ready \/ Ready # <<>>)
            <3>1. CASE Ready = <<>>
                <4>1. mail' \in {mail, Taken("QUIESCE_IO")}
                    BY <1>9, <3>1 DEF WaitData, WaitFlush, Has, Ready
                <4>2. Taken("QUIESCE_IO")["READY_FOR_DATA"] = Ready
                    BY <1>u DEF Codes
                <4>3. Ready' = Ready
                    BY <4>1, <4>2 DEF Ready
                <4> QED BY <4>3 DEF EventRing, OneAnswer
            <3>2. CASE Ready # <<>>
                <4>1. \A s : Tail(<<s>>) = <<>>
                    OBVIOUS
                <4> QED BY <2>2, <3>2, <4>1 DEF EventRing, OneAnswer, Answers
            <3> QED BY <3>1, <3>2
        <2> QED BY <2>1, <2>3 DEF EventRing, OneAnswer, Outstanding, Early, Handling, Ending
    <1>10. CASE Start
        BY <1>10, EventStart DEF Start, LifeInv
    <1>11. CASE StartEnable \/ StopDisable \/ StopSignal \/ StopJoin \/ StopFree
        BY <1>11, EventKeep
        DEF StartEnable, StopDisable, StopSignal, StopJoin, StopFree, devVars, thrVars, Early,
            Handling, Ending, Ready
    <1>12. CASE Finished \/ UNCHANGED vars
        BY <1>12, EventKeep DEF Finished, vars, devVars, thrVars, ctlVars, Early, Handling, Ending, Ready
    <1> QED
        BY <1>1, <1>2, <1>3, <1>4, <1>5, <1>6, <1>7, <1>8, <1>9, <1>10, <1>11, <1>12
        DEF Next, Thread, Control

LEMMA EventInit == Init => EventRing
    <1> SUFFICES ASSUME Init PROVE EventRing
        OBVIOUS
    <1>1. Ready = <<>>
        BY DEF Init, Ready, Codes
    <1> QED BY <1>1 DEF Init, EventRing, OneAnswer, Answers, Outstanding, Early, Handling, Ending

\* What is known of either loop as long as the driver is started once.
OnceInv ==
    /\ TypeInv /\ FreeInv /\ LifeInv
    /\ mode = "poll" => PollRing
    /\ mode = "event" => EventRing

LEMMA OnceInit == Init => OnceInv
    BY TypeInit, LifeInit, RingInit, EventInit DEF OnceInv, FreeInv, FreedAfterExit, Init

LEMMA OnceStep == ASSUME OneStart, OnceInv, [Next]_vars PROVE OnceInv'
    <1> USE DEF OnceInv, TypeInv
    <1>1. TypeInv' /\ FreeInv' /\ LifeInv' /\ mode' = mode
        BY TypeStep, FreeStep, LifeStep
    <1>2. mode = "poll" => PollRing'
        BY RingStep
    <1>3. mode = "event" => EventRing'
        BY EventStep, NoRestart DEF LifeInv
    <1> QED BY <1>1, <1>2, <1>3

LEMMA OnceAlways == ASSUME OneStart PROVE Spec => []OnceInv
    <1>1. OnceInv /\ [Next]_vars => OnceInv'
        BY OnceStep
    <1> QED BY <1>1, OnceInit, PTL DEF Spec

LEMMA ModeIsOne == ASSUME TypeOK PROVE mode \in {"event", "poll"}
    BY ParameterAssumption DEF TypeOK

\* The buffer the thread reads or acknowledges is the host's, in either loop.
LEMMA BufferIsHost ==
    ASSUME OnceInv, tpc \in {"input", "reading", "feedback"}
    PROVE  owner[buffer] = "host" /\ buffer \notin fbq
    BY BufferHeld, ModeIsOne DEF OnceInv, TypeInv, EventRing

\* On a device that is started once, ipts_hid_input_data never reads a buffer the
\* device may be writing to, in either loop and whatever fails or comes late.
THEOREM ReadSafe == ASSUME OneStart PROVE Spec => []ReadIsStable
    <1>1. OnceInv => ReadIsStable
        BY BufferIsHost DEF ReadIsStable
    <1> QED BY <1>1, OnceAlways, PTL

\* On a device that is started once, FEEDBACK is sent for a buffer the host holds,
\* and once per fill, in either loop.
THEOREM AcknowledgeSafe == ASSUME OneStart PROVE Spec => AcknowledgedOnce
    <1>1. OnceInv /\ [Next]_vars =>
            [tpc = "feedback" /\ tpc' = "fbwait" => owner[buffer] = "host" /\ buffer \notin fbq]_vars
        BY BufferIsHost
    <1> QED BY <1>1, OnceAlways, PTL DEF Spec, AcknowledgedOnce
-----------------------------------------------------------------------------
(* The flush *)

Flushed == mail["QUIESCE_IO"]
FlushAsked == "QUIESCE_IO" \in cmds
Draining == {"snap", "drain", "check", "input", "reading", "feedback", "fbwait"}

\* The device has stopped, and nothing is on its way to it that would change that.
Quiet == flow = "off" /\ (\A b \in Buffers : owner[b] = "me") /\ ~FlushAsked

\* QUIESCE_IO is sent once, by a thread that was told to stop, and it is a success
\* only once everything is quiet; a thread that was told to stop asks for no more data.
QuietInv ==
    /\ Flushed \in Answers
    /\ FlushAsked => flow # "quiescing" /\ Flushed = <<>>
    /\ flow = "quiescing" => Flushed = <<>>
    /\ FlushAsked \/ flow = "quiescing" \/ Flushed # <<>> =>
         shouldStop /\ (Ending \/ (mode = "poll" /\ tpc \in Draining))
    /\ tpc \in {"flush", "waitdata", "waitflush"} => shouldStop
    /\ Flushed # <<>> /\ Head(Flushed) = "SUCCESS" => Quiet
    /\ ret = "flushed" => tpc = "done" /\ shouldStop /\ Quiet

\* Steps after which nothing is less quiet, and the thread is no earlier in its loop.
LEMMA QuietKeep ==
    ASSUME QuietInv,
           UNCHANGED <<flow, owner, shouldStop, ret, mode>>,
           FlushAsked' = FlushAsked, Flushed' = Flushed,
           Ending => Ending',
           mode = "poll" /\ tpc \in Draining => Ending' \/ tpc' \in Draining,
           tpc' \in {"flush", "waitdata", "waitflush"} => shouldStop,
           tpc = "done" => tpc' = "done"
    PROVE  QuietInv'
    BY DEF QuietInv, Quiet

LEMMA QuietStep ==
    ASSUME TypeOK, LoopInv, LifeInv, QuietInv, ~Restart, mode' = mode, [Next]_vars
    PROVE  QuietInv'
    <1>t. /\ mail \in Mailboxes /\ "READY_FOR_DATA" \in Codes /\ "QUIESCE_IO" \in Codes
          /\ "FEEDBACK" \in Codes
          /\ "SUCCESS" \in Statuses /\ "SENSOR_DISABLED" \in Statuses
          /\ "TIMEOUT" \in Statuses /\ "ERROR" \in Statuses
        BY DEF TypeOK, Codes, Statuses
    <1>p. ASSUME NEW s \in Statuses, NEW code \in Codes, code # "QUIESCE_IO"
          PROVE  Posted(mail, code, s)["QUIESCE_IO"] = Flushed
        BY <1>t, <1>p DEF Flushed, Posted, Mailboxes
    <1>k. ASSUME NEW code \in Codes
          PROVE  Taken(code)["QUIESCE_IO"] = IF code = "QUIESCE_IO" THEN Tail(Flushed) ELSE Flushed
        BY <1>t DEF Flushed, Taken, Mailboxes
    <1>a. ASSUME NEW s \in Statuses, Flushed = <<>>
          PROVE  /\ Posted(mail, "QUIESCE_IO", s)["QUIESCE_IO"] \in Answers
                 /\ Posted(mail, "QUIESCE_IO", s)["QUIESCE_IO"] # <<>> =>
                      Head(Posted(mail, "QUIESCE_IO", s)["QUIESCE_IO"]) = s
        BY <1>t, <1>a, PostedFirst DEF Flushed
    <1>u. /\ \A s \in Statuses : \A code \in Codes : code # "QUIESCE_IO" =>
               Posted(mail, code, s)["QUIESCE_IO"] = Flushed
          /\ \A code \in Codes : code # "QUIESCE_IO" => Taken(code)["QUIESCE_IO"] = Flushed
          /\ Taken("QUIESCE_IO")["QUIESCE_IO"] = Tail(Flushed)
          /\ \A s \in Statuses : Flushed = <<>> =>
               /\ Posted(mail, "QUIESCE_IO", s)["QUIESCE_IO"] \in Answers
               /\ Posted(mail, "QUIESCE_IO", s)["QUIESCE_IO"] # <<>> =>
                    Head(Posted(mail, "QUIESCE_IO", s)["QUIESCE_IO"]) = s
        BY <1>t, <1>p, <1>k, <1>a
    <1>1. ASSUME NEW f \in Frames, Fill(f) PROVE QuietInv'
        <2>1. /\ flow = "on" /\ UNCHANGED <<flow, tpc, ret, shouldStop>>
              /\ mail' \in {mail, Posted(mail, "READY_FOR_DATA", "SUCCESS")}
              /\ FlushAsked' = FlushAsked
            BY <1>1 DEF Fill, ctlVars, FlushAsked
        <2>2. Flushed' = Flushed
            BY <1>t, <1>u, <2>1 DEF Flushed
        <2>3. ~Quiet
            BY <2>1 DEF Quiet
        <2> QED BY <2>1, <2>2, <2>3 DEF QuietInv, Ending
    <1>2. ASSUME NEW b \in Buffers, Acknowledge(b) PROVE QuietInv'
        <2>1. /\ owner' = [owner EXCEPT ![b] = "me"] /\ mail' = Posted(mail, "FEEDBACK", "SUCCESS")
              /\ UNCHANGED <<flow, cmds, tpc, ret, shouldStop>>
            BY <1>2 DEF Acknowledge, ctlVars
        <2>2. Flushed' = Flushed /\ FlushAsked' = FlushAsked
            BY <1>t, <1>u, <2>1 DEF Flushed, FlushAsked
        <2>3. Quiet => Quiet'
            BY <2>1, <2>2 DEF Quiet, TypeOK
        <2> QED BY <2>1, <2>2, <2>3 DEF QuietInv, Ending
    <1>3. CASE Quiesce
        <2>1. /\ FlushAsked /\ ~FlushAsked' /\ flow' = "quiescing"
              /\ UNCHANGED <<mail, tpc, ret, shouldStop>>
            BY <1>3 DEF Quiesce, ctlVars, FlushAsked
        <2>2. ret # "flushed" /\ Flushed' = <<>>
            BY <2>1 DEF QuietInv, Quiet, Flushed
        <2> QED BY <2>1, <2>2 DEF QuietInv, Ending
    <1>4. CASE FlushDone
        <2>1. /\ flow = "quiescing" /\ flow' = "off" /\ \A b \in Buffers : owner[b] = "me"
              /\ UNCHANGED <<owner, tpc, ret, shouldStop>>
              /\ FlushAsked' = FlushAsked
            BY <1>4 DEF FlushDone, ctlVars, FlushAsked
        <2>2. Flushed = <<>> /\ ret # "flushed" /\ ~FlushAsked
            BY <2>1 DEF QuietInv, Quiet
        <2>3. PICK s \in {"SUCCESS", "SENSOR_DISABLED"} :
                mail' = Posted(IF Outstanding THEN Posted(mail, "READY_FOR_DATA", s) ELSE mail,
                               "QUIESCE_IO", "SUCCESS")
            BY <1>4 DEF FlushDone
        <2> DEFINE box == IF Outstanding THEN Posted(mail, "READY_FOR_DATA", s) ELSE mail
        <2>4. box \in Mailboxes /\ box["QUIESCE_IO"] = <<>> /\ mail' = Posted(box, "QUIESCE_IO", "SUCCESS")
            <3>1. s \in Statuses
                BY <1>t
            <3>2. Posted(mail, "READY_FOR_DATA", s)["QUIESCE_IO"] = <<>>
                BY <1>t, <1>u, <2>2, <3>1
            <3>3. Posted(mail, "READY_FOR_DATA", s) \in Mailboxes
                BY <1>t, <3>1, PostedType
            <3> QED BY <1>t, <2>2, <2>3, <3>2, <3>3 DEF Flushed
        <2> HIDE DEF box
        <2>5. Flushed' \in Answers
            BY <1>t, <2>4, PostedFirst DEF Flushed
        <2>6. Quiet'
            BY <2>1, <2>2 DEF Quiet
        <2> QED BY <2>1, <2>2, <2>5, <2>6 DEF QuietInv, Ending
    <1>5. CASE DeviceError
        <2>k. UNCHANGED <<owner, tpc, ret, shouldStop>> /\ FlushAsked' = FlushAsked
            BY <1>5 DEF DeviceError, ctlVars, FlushAsked
        <2>1. PICK s \in {"TIMEOUT", "ERROR"} :
                \/ mail' = Posted(mail, "READY_FOR_DATA", s) /\ UNCHANGED flow
                \/ flow = "quiescing" /\ flow' = "on" /\ mail' = Posted(mail, "QUIESCE_IO", s)
            BY <1>5 DEF DeviceError
        <2>2. s \in Statuses
            BY <1>t
        <2>3. CASE mail' = Posted(mail, "READY_FOR_DATA", s) /\ UNCHANGED flow
            <3>1. Flushed' = Flushed
                BY <1>t, <1>u, <2>2, <2>3 DEF Flushed
            <3> QED BY <2>k, <2>3, <3>1, QuietKeep DEF Ending, QuietInv
        <2>4. CASE flow = "quiescing" /\ flow' = "on" /\ mail' = Posted(mail, "QUIESCE_IO", s)
            <3>1. Flushed = <<>> /\ ~FlushAsked /\ ret # "flushed"
                BY <2>4 DEF QuietInv, Quiet
            <3>2. Flushed' \in Answers /\ (Flushed' # <<>> => Head(Flushed') = s)
                BY <1>u, <2>2, <2>4, <3>1 DEF Flushed
            <3> QED BY <2>k, <2>4, <3>1, <3>2 DEF QuietInv, Ending
        <2> QED BY <2>1, <2>3, <2>4
    <1>6. CASE \/ PollTop \/ PollSnapshot \/ PollDrain \/ PollCheck \/ EventTop
               \/ InputStart \/ InputEnd \/ SendFeedback
        <2>1. UNCHANGED <<flow, owner, cmds, mail, shouldStop, ret>>
            BY <1>6 DEF PollTop, PollSnapshot, PollDrain, PollCheck, EventTop, InputStart, InputEnd,
                        SendFeedback, devVars, thrVars, ctlVars
        <2>2. /\ tpc \notin {"done", "waitdata", "waitflush"}
              /\ tpc' \in {"flush", "waitdata", "waitflush"} => shouldStop
              /\ mode = "poll" /\ tpc \in Draining => Ending' \/ tpc' \in Draining \/ ~shouldStop
            BY <1>6 DEF PollTop, PollSnapshot, PollDrain, PollCheck, EventTop, InputStart, InputEnd,
                        SendFeedback, Draining, Ending
        <2> QED BY <2>1, <2>2 DEF QuietInv, Quiet, Ending, Flushed, FlushAsked
    <1>7. CASE EventTake
        <2>1. /\ UNCHANGED <<flow, owner, cmds, shouldStop, ret>>
              /\ tpc = "take" /\ tpc' \in {"take", "top", "input"} /\ mode = "event"
            <3>1. Has("READY_FOR_DATA") =>
                    Head(mail["READY_FOR_DATA"]) \in {"SUCCESS", "SENSOR_DISABLED", "TIMEOUT", "ERROR"}
                BY <1>t, TakenType DEF Statuses
            <3> QED BY <1>7, <3>1 DEF EventTake, devVars, ctlVars, LoopInv
        <2>2. mail' \in {mail, Taken("READY_FOR_DATA")}
            BY <1>7 DEF EventTake
        <2>3. Flushed' = Flushed
            BY <1>t, <1>u, <2>2 DEF Flushed
        <2> QED BY <2>1, <2>3, QuietKeep DEF Ending, FlushAsked
    <1>8. CASE EventRequest \/ StartRequest
        <2>1. /\ UNCHANGED <<owner, shouldStop, ret>>
              /\ flow' = "quiescing" => flow = "quiescing"
              /\ FlushAsked' = FlushAsked
              /\ mail' \in {mail, Posted(mail, "READY_FOR_DATA", "ERROR")}
            BY <1>8 DEF EventRequest, StartRequest, SentReady, ctlVars, FlushAsked
        <2>2. /\ tpc' = tpc \/ (tpc = "request" /\ tpc' = "take")
              /\ tpc = "request" \/ ~shouldStop
            BY <1>8 DEF EventRequest, StartRequest, LifeInv
        <2>3. ~FlushAsked /\ flow # "quiescing" /\ Flushed = <<>> /\ ret # "flushed"
            BY <2>2 DEF QuietInv, Ending, Draining
        <2>4. Flushed' = Flushed
            BY <1>t, <1>u, <2>1 DEF Flushed
        <2> QED BY <2>1, <2>2, <2>3, <2>4 DEF QuietInv
    <1>9. CASE SendFeedbackFails \/ RecvFeedback
        <2>1. /\ UNCHANGED <<flow, owner, cmds, shouldStop, ret>>
              /\ tpc \in {"feedback", "fbwait"} /\ tpc' = IF mode = "poll" THEN "drain" ELSE "request"
              /\ mail' \in {mail, Taken("FEEDBACK")}
            BY <1>9 DEF SendFeedbackFails, RecvFeedback, NextBuffer, devVars, ctlVars
        <2>2. Flushed' = Flushed
            BY <1>t, <1>u, <2>1 DEF Flushed
        <2> QED BY <2>1, <2>2, QuietKeep DEF Ending, FlushAsked, Draining
    <1>10. CASE RequestFlush
        <2>1. /\ tpc \in {"flush", "top"} /\ shouldStop
              /\ UNCHANGED <<flow, owner, mail, shouldStop>>
            BY <1>10 DEF RequestFlush, ctlVars, QuietInv
        <2>2. ~FlushAsked /\ flow # "quiescing" /\ Flushed = <<>> /\ ret # "flushed"
            BY <2>1 DEF QuietInv, Ending, Draining
        <2>3. /\ tpc' \in {"waitdata", "done"} \/ (mode = "poll" /\ tpc' = "snap")
              /\ ret' \in {ret, "error"}
            BY <1>10 DEF RequestFlush, Exit
        <2>4. Flushed' = <<>>
            BY <2>1, <2>2 DEF Flushed
        <2> QED BY <2>1, <2>2, <2>3, <2>4 DEF QuietInv, Ending, Draining
    <1>11. CASE WaitData
        <2>1. /\ UNCHANGED <<flow, owner, cmds, shouldStop>> /\ tpc = "waitdata"
              /\ tpc' \in {"waitflush", "done"} /\ ret' \in {ret, "ok", "error"}
            <3>1. Has("READY_FOR_DATA") =>
                    Head(mail["READY_FOR_DATA"]) \in {"SUCCESS", "SENSOR_DISABLED", "TIMEOUT", "ERROR"}
                BY <1>t, TakenType DEF Statuses
            <3> QED BY <1>11, <3>1 DEF WaitData, Exit, devVars, ctlVars
        <2>2. mail' \in {mail, Taken("READY_FOR_DATA")}
            BY <1>11 DEF WaitData
        <2>3. Flushed' = Flushed /\ FlushAsked' = FlushAsked
            BY <1>t, <1>u, <2>1, <2>2 DEF Flushed, FlushAsked
        <2> QED BY <2>1, <2>3 DEF QuietInv, Quiet, Ending
    <1>12. CASE WaitFlush
        <2>1. UNCHANGED <<flow, owner, cmds, shouldStop>> /\ tpc = "waitflush" /\ tpc' = "done"
            BY <1>12 DEF WaitFlush, Exit, devVars, ctlVars
        <2>2. Quiet' = Quiet /\ FlushAsked' = FlushAsked /\ shouldStop
            BY <2>1 DEF Quiet, FlushAsked, QuietInv
        <2>3. CASE Has("QUIESCE_IO") /\ mail' = Taken("QUIESCE_IO")
            <3>1. Flushed # <<>> /\ Flushed' = <<>>
                <4>1. Flushed # <<>> /\ Flushed' = Tail(Flushed)
                    BY <1>u, <2>3 DEF Has, Flushed
                <4>2. \A s : Tail(<<s>>) = <<>>
                    OBVIOUS
                <4> QED BY <4>1, <4>2 DEF QuietInv, Answers
            <3>2. ret' = "flushed" => Head(Flushed) = "SUCCESS"
                BY <1>12, <3>1 DEF WaitFlush, Exit, Flushed, GivesUp, Has
            <3>3. Flushed' \in Answers
                BY <3>1 DEF Answers
            <3> QED BY <2>1, <2>2, <3>1, <3>2, <3>3 DEF QuietInv, Ending
        <2>4. CASE GivesUp("QUIESCE_IO") /\ UNCHANGED mail
            <3>1. ret' = "ok" /\ Flushed' = Flushed
                BY <1>12, <2>4 DEF WaitFlush, Exit, GivesUp, Flushed
            <3> QED BY <2>1, <2>2, <3>1 DEF QuietInv, Ending
        <2> QED BY <1>12, <2>3, <2>4 DEF WaitFlush
    <1>13. CASE Start
        <2>1. /\ UNCHANGED <<flow, cmds, mail, ret>> /\ ctl = "starting" /\ tpc = "none"
              /\ ~shouldStop /\ ~shouldStop'
            BY <1>13, Zenon DEF Start, LifeInv
        <2>2. tpc' \in {"none", "top"}
            BY <1>13, <2>1 DEF Start
        <2>3. ~FlushAsked /\ flow # "quiescing" /\ Flushed = <<>> /\ ret # "flushed"
            BY <2>1 DEF QuietInv
        <2> QED BY <2>1, <2>2, <2>3 DEF QuietInv, Flushed, FlushAsked
    <1>14. CASE StopSignal
        BY <1>14 DEF StopSignal, QuietInv, Quiet, devVars, Ending, Flushed, FlushAsked
    <1>15. CASE StartEnable \/ StopDisable \/ StopJoin \/ StopFree
        BY <1>15, QuietKeep
        DEF StartEnable, StopDisable, StopJoin, StopFree, devVars, Ending, Flushed, FlushAsked, QuietInv
    <1>16. CASE Finished \/ UNCHANGED vars
        BY <1>16, QuietKeep DEF Finished, vars, devVars, ctlVars, Ending, Flushed, FlushAsked, QuietInv
    <1> QED
        BY <1>1, <1>2, <1>3, <1>4, <1>5, <1>6, <1>7, <1>8, <1>9, <1>10, <1>11, <1>12, <1>13,
           <1>14, <1>15, <1>16
        DEF Next, Device, Thread, Control

LEMMA QuietInit == Init => QuietInv
    <1> SUFFICES ASSUME Init PROVE QuietInv
        OBVIOUS
    <1>1. Flushed = <<>>
        BY DEF Init, Flushed, Codes
    <1> QED BY <1>1 DEF Init, QuietInv, Answers, FlushAsked

\* On a device that is started once, ipts_control_wait_flush returning 0 means that
\* the flow has stopped and the device holds every buffer, whatever failed before
\* and whichever responses came late.
THEOREM FlushCorrect == ASSUME OneStart PROVE Spec => []FlushedMeansQuiet
    <1>1. OnceInv /\ QuietInv /\ [Next]_vars => OnceInv' /\ QuietInv'
        BY OnceStep, QuietStep, LifeStep, NoRestart DEF OnceInv, TypeInv, LifeInv
    <1>2. QuietInv => FlushedMeansQuiet
        BY DEF QuietInv, Quiet, FlushedMeansQuiet
    <1> QED BY <1>1, <1>2, OnceInit, QuietInit, PTL DEF Spec
-----------------------------------------------------------------------------
(* The channel *)

Contents == Frames \cup {NoFrame}

\* The contents of the buffers from one doorbell value up to another.
Window(b, d, fr) == [k \in 1 .. Gap(b, d) |-> fr[Slot(b + (k - 1))]]

LEMMA WindowEmpty ==
    ASSUME NEW b \in Doorbells, NEW fr
    PROVE  Window(b, b, fr) = <<>>
    <1>1. Gap(b, b) = 0 /\ 1 .. 0 = {}
        BY GapFacts
    <1>2. Window(b, b, fr) = [k \in {} |-> fr[Slot(b + (k - 1))]]
        BY <1>1 DEF Window
    <1> QED BY <1>2

LEMMA WindowType ==
    ASSUME NEW b \in Doorbells, NEW d \in Doorbells, NEW fr \in [Buffers -> Contents]
    PROVE  Window(b, d, fr) \in Seq(Contents) /\ Len(Window(b, d, fr)) = Gap(b, d)
    <1>1. Gap(b, d) \in Nat /\ b \in Int
        BY GapFacts, SizesOK DEF Doorbells
    <1>2. \A k \in 1 .. Gap(b, d) : Slot(b + (k - 1)) \in Buffers
        <2> TAKE k \in 1 .. Gap(b, d)
        <2>1. b + (k - 1) \in Int
            BY <1>1
        <2> QED BY <2>1, CounterType
    <1>3. \A k \in 1 .. Gap(b, d) : fr[Slot(b + (k - 1))] \in Contents
        BY <1>2
    <1>4. Window(b, d, fr) \in [1 .. Gap(b, d) -> Contents]
        BY <1>3 DEF Window
    <1> QED BY <1>1, <1>4

\* The device fills the buffer the window ends at: it is not in the window yet.
LEMMA WindowGrows ==
    ASSUME NEW b \in Doorbells, NEW d \in Doorbells, NEW fr \in [Buffers -> Contents],
           NEW f \in Contents, Gap(b, d) < NBuffers
    PROVE  Window(b, Inc(d), [fr EXCEPT ![Slot(d)] = f]) = Append(Window(b, d, fr), f)
    <1> DEFINE n == Gap(b, d)
               new == [fr EXCEPT ![Slot(d)] = f]
    <1>1. n \in Nat /\ b \in Int /\ NBuffers \in Nat /\ d \in Int
        BY GapFacts, SizesOK DEF Doorbells
    <1>2. Inc(d) \in Doorbells /\ Gap(b, Inc(d)) = n + 1
        <2>1. n < DoorbellMod - 1
            BY <1>1, SizesOK
        <2> QED BY <2>1, GapFacts
    <1>3. Slot(b + n) = Slot(d) /\ Slot(d) \in Buffers
        BY <1>1, SlotFacts, CounterType
    <1>4. ASSUME NEW k \in 1 .. n
          PROVE  Slot(b + (k - 1)) \in Buffers /\ Slot(b + (k - 1)) # Slot(d)
        <2>1. b + (k - 1) \in Int /\ n - (k - 1) \in Int /\ 0 < n - (k - 1) /\ n - (k - 1) < NBuffers
            BY <1>1
        <2>2. ((b + (k - 1)) + (n - (k - 1))) % NBuffers # (b + (k - 1)) % NBuffers
            BY <2>1, SizesOK, ModDistinct
        <2>3. (b + (k - 1)) + (n - (k - 1)) = b + n
            BY <1>1
        <2>4. Slot(b + n) # Slot(b + (k - 1))
            BY <2>2, <2>3 DEF Slot
        <2> QED BY <1>3, <2>1, <2>4, CounterType
    <1>5. new \in [Buffers -> Contents] /\ new[Slot(d)] = f
          /\ \A k \in 1 .. n : new[Slot(b + (k - 1))] = fr[Slot(b + (k - 1))]
        BY <1>3, <1>4
    <1> HIDE DEF new
    <1>6. /\ Window(b, d, fr) \in Seq(Contents) /\ Len(Window(b, d, fr)) = n
          /\ Window(b, Inc(d), new) \in Seq(Contents) /\ Len(Window(b, Inc(d), new)) = n + 1
        BY <1>2, <1>5, WindowType
    <1>7. /\ \A k \in 1 .. n : Window(b, d, fr)[k] = fr[Slot(b + (k - 1))]
          /\ \A k \in 1 .. n + 1 : Window(b, Inc(d), new)[k] = new[Slot(b + (k - 1))]
        BY <1>2 DEF Window
    <1> HIDE DEF n
    <1>8. ASSUME NEW k \in 1 .. n + 1
          PROVE  Window(b, Inc(d), new)[k] = Append(Window(b, d, fr), f)[k]
        <2>1. CASE k = n + 1
            <3>1. b + (k - 1) = b + n
                BY <1>1, <2>1
            <3> QED BY <1>1, <1>3, <1>5, <1>6, <1>7, <2>1, <3>1
        <2>2. CASE k # n + 1
            <3>1. k \in 1 .. n
                BY <1>1, <2>2
            <3> QED BY <1>1, <1>5, <1>6, <1>7, <3>1
        <2> QED BY <2>1, <2>2
    <1>9. Append(Window(b, d, fr), f) \in Seq(Contents) /\ Len(Append(Window(b, d, fr), f)) = n + 1
        BY <1>1, <1>6
    <1>10. Window(b, Inc(d), new) = Append(Window(b, d, fr), f)
        BY <1>1, <1>6, <1>8, <1>9
    <1> QED BY <1>10 DEF new

\* The window moves on by one: it loses its oldest frame.
LEMMA WindowSteps ==
    ASSUME NEW b \in Doorbells, NEW d \in Doorbells, NEW fr \in [Buffers -> Contents],
           Gap(b, d) >= 1
    PROVE  /\ Window(b, d, fr) # <<>>
           /\ Head(Window(b, d, fr)) = fr[Slot(b)]
           /\ Window(Inc(b), d, fr) = Tail(Window(b, d, fr))
    <1> DEFINE n == Gap(b, d)
               w == Window(b, d, fr)
               v == Window(Inc(b), d, fr)
    <1>1. n \in Nat /\ n >= 1 /\ b \in Int
        BY GapFacts, SizesOK DEF Doorbells
    <1>2. Inc(b) \in Doorbells /\ Gap(Inc(b), d) = n - 1
        BY GapFacts
    <1>3. w \in Seq(Contents) /\ Len(w) = n /\ v \in Seq(Contents) /\ Len(v) = n - 1
        BY <1>2, WindowType
    <1>4. /\ \A k \in 1 .. n : w[k] = fr[Slot(b + (k - 1))]
          /\ \A k \in 1 .. n - 1 : v[k] = fr[Slot(Inc(b) + (k - 1))]
        BY <1>2 DEF Window
    <1>5. w[1] = fr[Slot(b)]
        <2>1. b + (1 - 1) = b /\ 1 \in 1 .. n
            BY <1>1
        <2> QED BY <1>4, <2>1
    <1> HIDE DEF n, w, v
    <1>6. ASSUME NEW k \in 1 .. n - 1 PROVE v[k] = w[k + 1]
        <2>1. k - 1 \in Int /\ k + 1 \in 1 .. n /\ (k + 1) - 1 = (k - 1) + 1
            BY <1>1
        <2>2. Slot(Inc(b) + (k - 1)) = Slot(b + ((k - 1) + 1))
            BY <2>1, SlotFacts
        <2> QED BY <1>4, <2>1, <2>2
    <1>7. w # <<>> /\ Head(w) = w[1] /\ v = Tail(w)
        BY <1>1, <1>3, <1>6
    <1> QED BY <1>5, <1>7 DEF w, v

LEMMA ChannelType ==
    ASSUME TypeOK
    PROVE  /\ Base \in Doorbells /\ filled \in Doorbells
           /\ frame \in [Buffers -> Contents]
           /\ Waiting = Window(Base, filled, frame)
    <1>1. /\ lastdb \in Doorbells /\ doorbell \in Doorbells /\ filled \in Doorbells
          /\ frame \in [Buffers -> Contents]
        BY DEF TypeOK, Doorbells, Contents
    <1>2. Inc(lastdb) \in Doorbells /\ Before(doorbell) \in Doorbells
        BY <1>1, GapFacts, BeforeFacts
    <1>3. Base \in Doorbells
        BY <1>1, <1>2 DEF Base, Before
    <1> QED BY <1>1, <1>3 DEF Waiting, Window, Pending

\* The thread is about to read, or to skip, the oldest frame of the channel.
LEMMA OldestFrame ==
    ASSUME OnceInv, tpc \in {"input", "reading"}
    PROVE  Pending >= 1 /\ buffer = Slot(Base)
    <1>1. /\ lastdb \in Doorbells /\ doorbell \in Doorbells /\ filled \in Doorbells
          /\ snapshot \in Doorbells
        BY DEF OnceInv, TypeInv, TypeOK, Doorbells
    <1>2. CASE mode = "poll"
        <2>1. buffer = Slot(lastdb) /\ snapshot # lastdb /\ Gap(lastdb, snapshot) <= Lag
            BY <1>2 DEF OnceInv, PollRing
        <2>2. Gap(lastdb, snapshot) \in Doorbells /\ Gap(lastdb, snapshot) # 0 /\ Lag \in Doorbells
            BY <1>1, <2>1, GapFacts DEF Lag
        <2>3. Base = lastdb /\ Pending = Lag
            BY <1>2 DEF Base, Pending, Lag
        <2> QED BY <2>1, <2>2, <2>3 DEF Doorbells
    <1>3. CASE mode = "event"
        <2>1. filled = doorbell /\ buffer = Slot(Before(doorbell))
            BY <1>3 DEF OnceInv, EventRing, Handling
        <2>2. Base = Before(doorbell)
            BY <1>3 DEF Base, Before
        <2>3. Pending = 1
            BY <1>1, <2>1, <2>2, BeforeFacts DEF Pending
        <2> QED BY <2>1, <2>2, <2>3
    <1> QED BY <1>2, <1>3, ModeIsOne DEF OnceInv, TypeInv

\* Having handed it on or skipped it, the thread has one frame less to come to.
LEMMA OldestGone ==
    ASSUME OnceInv, tpc \in {"input", "reading"}, tpc' = "feedback",
           UNCHANGED <<mode, lastdb, doorbell, filled, frame>>
    PROVE  /\ Waiting # <<>> /\ Head(Waiting) = frame[buffer]
           /\ Waiting' = Tail(Waiting)
    <1>1. /\ Base \in Doorbells /\ filled \in Doorbells
          /\ frame \in [Buffers -> Contents]
          /\ Waiting = Window(Base, filled, frame)
        BY ChannelType DEF OnceInv, TypeInv
    <1>2. Base' = Inc(Base)
        <2>1. doorbell \in Doorbells
            BY DEF OnceInv, TypeInv, TypeOK, Doorbells
        <2>2. Inc(Before(doorbell)) = doorbell
            BY <2>1, BeforeFacts
        <2> QED BY <2>2 DEF Base, Before
    <1>3. Waiting' = Window(Inc(Base), filled, frame)
        BY <1>2 DEF Waiting, Window, Pending
    <1>4. Gap(Base, filled) >= 1 /\ buffer = Slot(Base)
        BY OldestFrame DEF Pending
    <1> QED BY <1>1, <1>3, <1>4, WindowSteps

\* What the device fills is put at the end of the channel, which was not full.
LEMMA FillPuts ==
    ASSUME OnceInv, NEW f \in Frames, Fill(f)
    PROVE  Len(Waiting) < NBuffers /\ Waiting' = Append(Waiting, f)
    <1>1. /\ Base \in Doorbells /\ filled \in Doorbells
          /\ frame \in [Buffers -> Contents]
          /\ Waiting = Window(Base, filled, frame)
        BY ChannelType DEF OnceInv, TypeInv
    <1>2. /\ UNCHANGED <<mode, tpc, lastdb>> /\ filled' = Inc(filled)
          /\ frame' = [frame EXCEPT ![Slot(filled)] = f]
          /\ mode = "event" => Outstanding /\ UNCHANGED doorbell
        BY DEF Fill, thrVars, ctlVars
    <1>3. Base' = Base
        BY <1>2, ModeIsOne DEF Base, OnceInv, TypeInv
    <1>4. Gap(Base, filled) < NBuffers
        <2>t. /\ lastdb \in Doorbells /\ doorbell \in Doorbells /\ snapshot \in Doorbells
              /\ NBuffers \in Nat \ {0}
            BY SizesOK DEF OnceInv, TypeInv, TypeOK, Doorbells
        <2>1. CASE mode = "poll"
            <3>1. Lag < NBuffers + Acked /\ Lag \in Doorbells
                BY <2>t, <1>1, <2>1, RingRoom, GapFacts DEF OnceInv, TypeInv, Lag
            <3>2. CASE tpc \in {"feedback", "fbwait"}
                <4>1. snapshot # lastdb /\ Gap(lastdb, snapshot) <= Lag
                    BY <2>1, <3>2 DEF OnceInv, PollRing
                <4>2. Gap(lastdb, snapshot) \in Doorbells /\ Gap(lastdb, snapshot) # 0
                    BY <2>t, <4>1, GapFacts
                <4>3. Lag >= 1
                    BY <3>1, <4>1, <4>2 DEF Doorbells
                <4>4. Gap(Inc(lastdb), filled) = Lag - 1
                    BY <1>1, <2>t, <4>3, GapFacts DEF Lag
                <4>5. Base = Inc(lastdb)
                    BY <2>1, <3>2 DEF Base
                <4> QED BY <2>t, <3>1, <4>4, <4>5 DEF Acked, Doorbells
            <3>3. CASE tpc \notin {"feedback", "fbwait"}
                <4>1. Base = lastdb /\ Acked = 0
                    BY <2>1, <3>3 DEF Base, Acked
                <4> QED BY <2>t, <3>1, <4>1 DEF Lag, Doorbells
            <3> QED BY <3>2, <3>3
        <2>2. CASE mode = "event"
            <3>1. filled = doorbell /\ ~Handling
                BY <1>2, <2>2 DEF OnceInv, EventRing, OneAnswer
            <3>2. Base = doorbell
                BY <2>2, <3>1 DEF Base, Handling
            <3>3. Gap(Base, filled) = 0
                BY <2>t, <3>1, <3>2, GapFacts
            <3> QED BY <2>t, <3>3
        <2> QED BY <2>1, <2>2, ModeIsOne DEF OnceInv, TypeInv
    <1>5. Waiting' = Window(Base, Inc(filled), [frame EXCEPT ![Slot(filled)] = f])
        BY <1>2, <1>3 DEF Waiting, Window, Pending
    <1>6. f \in Contents
        BY DEF Contents
    <1>7. Waiting' = Append(Window(Base, filled, frame), f)
        BY <1>1, <1>4, <1>5, <1>6, WindowGrows
    <1>8. Len(Waiting) = Gap(Base, filled)
        BY <1>1, WindowType
    <1> QED BY <1>1, <1>4, <1>7, <1>8

\* Every other step of the device or of the thread leaves the channel as it is.
LEMMA WaitingKept ==
    ASSUME UNCHANGED <<filled, frame>>, Base' = Base
    PROVE  Waiting' = Waiting
    BY DEF Waiting, Pending

LEMMA ThreadKeeps ==
    ASSUME OnceInv, Thread, ~InputEnd, ~(InputStart /\ ~hidActive)
    PROVE  UNCHANGED <<filled, frame, mode, out>> /\ Base' = Base
    <1>t. doorbell \in Doorbells /\ mail \in Mailboxes /\ mode \in {"event", "poll"}
        BY ModeIsOne DEF OnceInv, TypeInv, TypeOK, Doorbells
    <1>1. CASE \/ PollTop \/ PollSnapshot \/ PollDrain \/ PollCheck
               \/ EventTop \/ InputStart \/ SendFeedback \/ RequestFlush
        BY <1>1
        DEF PollTop, PollSnapshot, PollDrain, PollCheck, EventTop, InputStart, SendFeedback,
            RequestFlush, Exit, Base, devVars, thrVars, ctlVars, OnceInv, TypeInv, LoopInv
    <1>2. CASE EventTake
        <2>1. UNCHANGED <<filled, frame, mode, out>> /\ tpc = "take" /\ mode = "event"
            BY <1>2 DEF EventTake, devVars, ctlVars, OnceInv, TypeInv, LoopInv
        <2>2. \/ doorbell' = Inc(doorbell) /\ tpc' = "input"
              \/ doorbell' = doorbell /\ tpc' \in {"take", "top"}
            <3>1. Has("READY_FOR_DATA") =>
                    Head(mail["READY_FOR_DATA"]) \in {"SUCCESS", "SENSOR_DISABLED", "TIMEOUT", "ERROR"}
                BY <1>t, TakenType DEF Statuses, Codes
            <3> QED BY <1>2, <3>1 DEF EventTake
        <2>3. Before(Inc(doorbell)) = doorbell
            BY <1>t, BeforeFacts
        <2> QED BY <2>1, <2>2, <2>3 DEF Base, Before
    <1>3. CASE EventRequest
        BY <1>3 DEF EventRequest, Base, ctlVars, OnceInv, TypeInv, LoopInv
    <1>4. CASE SendFeedbackFails \/ RecvFeedback
        <2>1. /\ UNCHANGED <<filled, frame, mode, out, doorbell>> /\ tpc \in {"feedback", "fbwait"}
              /\ IF mode = "poll"
                 THEN tpc' = "drain" /\ lastdb' = Inc(lastdb)
                 ELSE tpc' = "request"
            BY <1>4 DEF SendFeedbackFails, RecvFeedback, NextBuffer, devVars, ctlVars
        <2> QED BY <1>t, <2>1 DEF Base
    <1>5. CASE WaitData \/ WaitFlush
        <2>1. /\ UNCHANGED <<filled, frame, mode, out, doorbell, lastdb>>
              /\ tpc \in {"waitdata", "waitflush"} /\ tpc' \in {"waitflush", "done"}
            <3>1. Has("READY_FOR_DATA") =>
                    Head(mail["READY_FOR_DATA"]) \in {"SUCCESS", "SENSOR_DISABLED", "TIMEOUT", "ERROR"}
                BY <1>t, TakenType DEF Statuses, Codes
            <3> QED BY <1>5, <3>1 DEF WaitData, WaitFlush, Exit, devVars, thrVars, ctlVars
        <2> QED BY <1>t, <2>1 DEF Base
    <1> QED BY <1>1, <1>2, <1>3, <1>4, <1>5 DEF Thread

\* The frames wait in the channel; a start empties it.
LEMMA StartEmpties ==
    ASSUME Start, flow = "off"
    PROVE  Waiting' = <<>>
    <1>1. lastdb' = 0 /\ doorbell' = 0 /\ filled' = 0 /\ tpc' = "top"
        BY DEF Start
    <1>2. 0 \in Doorbells
        BY SizesOK DEF Doorbells
    <1>3. Base' = 0
        BY <1>1 DEF Base
    <1>4. Waiting' = Window(0, 0, frame')
        BY <1>1, <1>3 DEF Waiting, Window, Pending
    <1> QED BY <1>2, <1>4, WindowEmpty

LEMMA ChannelStep ==
    ASSUME OneStart, OnceInv, [Next]_vars
    PROVE  [Channel!Next]_(Channel!vars)
    <1> USE DEF Channel!Next, Channel!vars
    <1>1. ASSUME NEW f \in Frames, Fill(f) PROVE Channel!Put(f)
        <2>1. UNCHANGED <<out, allocated, hidActive>>
            BY <1>1 DEF Fill, ctlVars
        <2> QED BY <1>1, <2>1, FillPuts DEF Channel!Put, Phase
    <1>2. CASE (\E b \in Buffers : Acknowledge(b)) \/ Quiesce \/ FlushDone \/ DeviceError
        <2>1. UNCHANGED <<filled, frame, out, allocated, hidActive, mode, tpc, lastdb, doorbell>>
            BY <1>2 DEF Acknowledge, Quiesce, FlushDone, DeviceError, thrVars, ctlVars
        <2>2. Base' = Base
            BY <2>1 DEF Base
        <2> QED BY <2>1, <2>2, WaitingKept DEF Phase
    <1>3. CASE InputEnd
        <2>1. /\ tpc = "reading" /\ tpc' = "feedback" /\ out' = frame[buffer]
              /\ UNCHANGED <<mode, lastdb, doorbell, filled, frame, allocated, hidActive>>
            BY <1>3 DEF InputEnd, devVars, thrVars, ctlVars
        <2>2. allocated
            BY <2>1 DEF OnceInv, FreeInv, FreedAfterExit
        <2>3. Waiting # <<>> /\ Head(Waiting) = frame[buffer] /\ Waiting' = Tail(Waiting)
            BY <2>1, OldestGone
        <2> QED BY <2>1, <2>2, <2>3 DEF Channel!Take, Phase
    <1>4. CASE InputStart /\ ~hidActive
        <2>1. /\ tpc = "input" /\ tpc' = "feedback" /\ ~hidActive
              /\ UNCHANGED <<mode, lastdb, doorbell, filled, frame, allocated, hidActive, out>>
            BY <1>4 DEF InputStart, devVars, thrVars, ctlVars
        <2>2. allocated
            BY <2>1 DEF OnceInv, FreeInv, FreedAfterExit
        <2>3. Waiting # <<>> /\ Waiting' = Tail(Waiting)
            BY <2>1, OldestGone
        <2> QED BY <2>1, <2>2, <2>3 DEF Channel!Drop, Phase
    <1>5. CASE Thread /\ ~InputEnd /\ ~(InputStart /\ ~hidActive)
        <2>1. UNCHANGED <<allocated, hidActive>>
            BY <1>5, DeviceThreadKeep DEF ctlVars
        <2>2. UNCHANGED <<filled, frame, out>> /\ Base' = Base
            BY <1>5, ThreadKeeps
        <2> QED BY <2>1, <2>2, WaitingKept DEF Phase
    <1>6. CASE Start
        <2>1. ~allocated /\ ~hidActive /\ UNCHANGED <<hidActive, out>>
            BY <1>6 DEF Start, OnceInv, LifeInv
        <2>2. CASE flow = "off"
            <3>1. allocated' /\ Waiting' = <<>>
                BY <1>6, <2>2, StartEmpties DEF Start
            <3> QED BY <2>1, <3>1 DEF Channel!Open, Phase
        <2>3. CASE flow # "off"
            <3>1. UNCHANGED <<mode, tpc, lastdb, doorbell, filled, frame, allocated>>
                BY <1>6, <2>3 DEF Start, thrVars
            <3>2. Base' = Base
                BY <3>1 DEF Base
            <3> QED BY <2>1, <3>1, <3>2, WaitingKept DEF Phase
        <2> QED BY <2>2, <2>3
    <1>7. CASE StartRequest \/ StartEnable \/ StopDisable \/ StopSignal \/ StopJoin \/ StopFree
        <2>1. UNCHANGED <<mode, tpc, lastdb, doorbell, filled, frame, out>>
            BY <1>7
            DEF StartRequest, StartEnable, StopDisable, StopSignal, StopJoin, StopFree,
                devVars, thrVars
        <2>2. Waiting' = Waiting
            <3>1. Base' = Base
                BY <2>1 DEF Base
            <3> QED BY <2>1, <3>1, WaitingKept
        <2>3. CASE StartRequest \/ StopSignal \/ StopJoin
            BY <2>1, <2>2, <2>3 DEF StartRequest, StopSignal, StopJoin, Phase
        <2>4. CASE StartEnable
            <3>1. allocated /\ ~hidActive /\ allocated' = allocated /\ hidActive'
                BY <2>4 DEF StartEnable, OnceInv, LifeInv
            <3> QED BY <2>1, <2>2, <3>1 DEF Channel!Unmute, Phase
        <2>5. CASE StopDisable
            <3>1. allocated /\ hidActive /\ allocated' = allocated /\ ~hidActive'
                BY <2>5 DEF StopDisable, OnceInv, LifeInv
            <3> QED BY <2>1, <2>2, <3>1 DEF Channel!Mute, Phase
        <2>6. CASE StopFree
            <3>1. allocated /\ ~hidActive /\ ~allocated'
                BY <2>6 DEF StopFree, OnceInv, LifeInv
            <3> QED BY <2>1, <2>2, <3>1 DEF Channel!Close, Phase
        <2> QED BY <1>7, <2>3, <2>4, <2>5, <2>6
    <1>8. CASE UNCHANGED vars
        <2>1. UNCHANGED <<mode, tpc, lastdb, doorbell, filled, frame, out, allocated, hidActive>>
            BY <1>8 DEF vars, devVars, thrVars, ctlVars
        <2>2. Base' = Base
            BY <2>1 DEF Base
        <2> QED BY <2>1, <2>2, WaitingKept DEF Phase
    <1>9. CASE Finished
        BY <1>8, <1>9 DEF Finished
    <1>10. ~Restart
        BY NoRestart DEF OnceInv, TypeInv, LifeInv
    <1> QED BY <1>1, <1>2, <1>3, <1>4, <1>5, <1>6, <1>7, <1>8, <1>9, <1>10
            DEF Next, Device, Control

LEMMA ChannelInit == Init => Channel!Init
    <1> SUFFICES ASSUME Init PROVE Channel!Init
        OBVIOUS
    <1>1. 0 \in Doorbells
        BY SizesOK DEF Doorbells
    <1>2. Base = 0 /\ filled = 0
        BY DEF Init, Base
    <1>3. Waiting = Window(0, 0, frame)
        BY <1>2 DEF Waiting, Window, Pending
    <1>4. Waiting = <<>>
        BY <1>1, <1>3, WindowEmpty
    <1> QED BY <1>4 DEF Init, Channel!Init, Phase

\* On a device that is started once, the receiver is a channel of NBuffers frames:
\* in either loop, across doorbell wraps, late and failed commands, frames reach
\* ipts_hid_input_data in the order they were written, each at most once, and none
\* is skipped while the HID side is enabled.
THEOREM ChannelCorrect == ASSUME OneStart PROVE Spec => ImplementsChannel
    <1>1. OnceInv /\ [Next]_vars => [Channel!Next]_(Channel!vars)
        BY ChannelStep
    <1> QED BY <1>1, ChannelInit, OnceAlways, PTL DEF Spec, ImplementsChannel, Channel!Spec
=============================================================================
