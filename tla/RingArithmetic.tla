--------------------------- MODULE RingArithmetic ---------------------------
(***************************************************************************)
(* Facts about counters that wrap: a ring of n buffers indexed by a        *)
(* counter modulo m, where m is a multiple of n.                           *)
(***************************************************************************)
EXTENDS Integers, TLAPS

\* Division with remainder.
LEMMA DivMod ==
    ASSUME NEW n \in Nat \ {0}, NEW a \in Int
    PROVE  /\ a = (n * (a \div n)) + (a % n)
           /\ a % n \in 0 .. (n - 1)
           /\ a \div n \in Int
    OBVIOUS

\* The remainder is determined by any such division.
LEMMA ModUnique ==
    ASSUME NEW n \in Nat \ {0}, NEW a \in Int, NEW q \in Int, NEW r \in 0 .. (n - 1),
           a = (n * q) + r
    PROVE  a % n = r
    OBVIOUS

\* Going once round the ring changes nothing.
LEMMA ModPeriod ==
    ASSUME NEW n \in Nat \ {0}, NEW a \in Int, NEW k \in Int
    PROVE  (a + (n * k)) % n = a % n
    <1> DEFINE q == a \div n
               r == a % n
    <1>1. a = (n * q) + r /\ r \in 0 .. (n - 1) /\ q \in Int
        BY DivMod
    <1>2. a + (n * k) = (n * (q + k)) + r
        <2>1. n * (q + k) = (n * q) + (n * k)
            BY <1>1
        <2> QED BY <1>1, <2>1
    <1>3. q + k \in Int /\ a + (n * k) \in Int
        BY <1>1
    <1> HIDE DEF q, r
    <1> QED BY <1>1, <1>2, <1>3, ModUnique DEF r

\* Fewer than n steps never come back to the same buffer.
LEMMA ModDistinct ==
    ASSUME NEW n \in Nat \ {0}, NEW a \in Int, NEW i \in Int, 0 < i, i < n
    PROVE  (a + i) % n # a % n
    <1> DEFINE p == a \div n
               q == (a + i) \div n
               r == a % n
    <1> SUFFICES ASSUME (a + i) % n = r PROVE FALSE
        OBVIOUS
    <1>1. a = (n * p) + r /\ p \in Int /\ r \in Int
        BY DivMod
    <1>2. a + i = (n * q) + r /\ q \in Int
        BY DivMod
    <1> HIDE DEF p, q, r
    <1>3. i = (n * q) - (n * p)
        BY <1>1, <1>2
    <1>4. (n * q) - (n * p) = n * (q - p)
        BY <1>1, <1>2
    <1>5. CASE q - p >= 1
        <2>1. n * (q - p) >= n
            BY <1>5, <1>1, <1>2
        <2> QED BY <1>3, <1>4, <2>1
    <1>6. CASE q - p <= 0
        <2>1. n * (q - p) <= 0
            BY <1>6, <1>1, <1>2
        <2> QED BY <1>3, <1>4, <2>1
    <1> QED BY <1>1, <1>2, <1>5, <1>6

\* How far one counter is ahead of another.
LEMMA ModAhead ==
    ASSUME NEW m \in Nat \ {0}, NEW b \in Int, NEW d \in Int,
           0 <= b, b < m, 0 <= d, d < m
    PROVE  (d - b) % m = IF d >= b THEN d - b ELSE (d - b) + m
    <1>1. CASE d >= b
        <2>1. d - b = (m * 0) + (d - b) /\ d - b \in 0 .. (m - 1)
            BY <1>1
        <2> QED BY <1>1, <2>1, ModUnique
    <1>2. CASE d < b
        <2>1. d - b = (m * (-1)) + ((d - b) + m) /\ (d - b) + m \in 0 .. (m - 1)
            BY <1>2
        <2> QED BY <1>2, <2>1, ModUnique
    <1> QED BY <1>1, <1>2

\* Stepping a counter.
LEMMA ModStep ==
    ASSUME NEW m \in Nat \ {0}, NEW b \in Int, 0 <= b, b < m
    PROVE  (b + 1) % m = IF b = m - 1 THEN 0 ELSE b + 1
    <1>1. CASE b = m - 1
        <2>1. b + 1 = (m * 1) + 0 /\ 0 \in 0 .. (m - 1)
            BY <1>1
        <2> QED BY <1>1, <2>1, ModUnique
    <1>2. CASE b # m - 1
        <2>1. b + 1 = (m * 0) + (b + 1) /\ b + 1 \in 0 .. (m - 1)
            BY <1>2
        <2> QED BY <1>2, <2>1, ModUnique
    <1> QED BY <1>1, <1>2

\* A wrap of the counter does not disturb the buffers it stands for.
LEMMA Wrap ==
    ASSUME NEW n \in Nat \ {0}, NEW m \in Nat \ {0}, m % n = 0, NEW a \in Int
    PROVE  (a + m) % n = a % n
    <1>1. m = (n * (m \div n)) + 0 /\ m \div n \in Int
        BY DivMod
    <1>2. (a + (n * (m \div n))) % n = a % n
        BY <1>1, ModPeriod
    <1> QED BY <1>1, <1>2

\* Counting on from the stepped counter is counting on one further.
LEMMA StepSlot ==
    ASSUME NEW n \in Nat \ {0}, NEW m \in Nat \ {0}, m % n = 0,
           NEW b \in Int, 0 <= b, b < m, NEW i \in Int
    PROVE  (((b + 1) % m) + i) % n = (b + (i + 1)) % n
    <1>1. CASE b = m - 1
        <2>1. ((b + 1) % m) + i = i
            BY <1>1, ModStep
        <2>2. b + (i + 1) = i + m
            BY <1>1
        <2>3. (i + m) % n = i % n
            BY Wrap
        <2> QED BY <2>1, <2>2, <2>3
    <1>2. CASE b # m - 1
        <2>1. (b + 1) % m = b + 1
            BY <1>2, ModStep
        <2> QED BY <2>1
    <1> QED BY <1>1, <1>2

\* The buffer as many steps ahead of b as d is, is the buffer of d.
LEMMA AheadSlot ==
    ASSUME NEW n \in Nat \ {0}, NEW m \in Nat \ {0}, m % n = 0,
           NEW b \in Int, NEW d \in Int,
           0 <= b, b < m, 0 <= d, d < m
    PROVE  (b + ((d - b) % m)) % n = d % n
    <1>1. CASE d >= b
        <2>1. b + ((d - b) % m) = d
            BY <1>1, ModAhead
        <2> QED BY <2>1
    <1>2. CASE d < b
        <2>1. (d - b) % m = (d - b) + m
            <3>1. (d - b) % m = IF d >= b THEN d - b ELSE (d - b) + m
                BY ModAhead
            <3> QED BY <1>2, <3>1
        <2>2. b + ((d - b) % m) = d + m
            BY <2>1
        <2>3. (d + m) % n = d % n
            BY Wrap
        <2> QED BY <2>2, <2>3
    <1> QED BY <1>1, <1>2
=============================================================================
