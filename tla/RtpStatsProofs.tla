--------------------------- MODULE RtpStatsProofs ---------------------------
(***************************************************************************)
(* Proofs about RtpStats.  For any range of sequence numbers, any ring     *)
(* shorter than half of it and any number of packets and snapshots: the    *)
(* extended numbers, the loss, the sender report's count and the loss of a *)
(* reception report are those of the stream.                               *)
(***************************************************************************)
EXTENDS RtpStats, FiniteSetTheorems, TLAPS

\* The extended numbers are those of the oldest and the newest packet, and the
\* oldest is one of the first cycle.
SpanFits ==
    /\ initialized => /\ extStartSN \in counted /\ extStartSN \in SN
                      /\ getExtHighestSN \in counted
                      /\ \A j \in counted : extStartSN <= j /\ j <= getExtHighestSN
    /\ ~initialized => /\ counted = {} /\ updates = 0
                       /\ packetsLost = 0 /\ packetsDuplicate = 0 /\ packetsPadding = 0
                       /\ \A i \in 0 .. SnInfoSize - 1 : snInfos[i] = "lost"

\* The slot of the packet k before the newest.
slotBack(k) == Mask(snInfoWritePtr - k - 1)

\* The ring tells of the last SnInfoSize packets whether they have come.
RingFits == initialized =>
    \A k \in 0 .. SnInfoSize - 1 :
        snInfos[slotBack(k)] = "lost" <=> getExtHighestSN - k \notin counted

\* The packets of the stream so far, and those of them that are missing.
Expected == getExtHighestSN - extStartSN + 1
Missing == (extStartSN .. getExtHighestSN) \ counted

\* Every packet that came is expected and not lost, or a duplicate.
CountsFit == initialized =>
    /\ packetsLost = Cardinality(Missing)
    /\ updates = (Expected - packetsLost) + packetsDuplicate
    /\ packetsPadding <= Expected - packetsLost

\* A snapshot starts within the stream, or right after it.
SnapshotsFit == \A id \in 1 .. MaxSnapshots : snapshots[id] # NoSnapshot =>
    /\ initialized /\ id < nextSnapshotId
    /\ extStartSN <= snapshots[id] /\ snapshots[id] <= getExtHighestSN + 1

IInv == /\ TypeOK /\ SpanFits /\ RingFits /\ CountsFit /\ SnapshotsFit
        /\ ReportedLossIsTrue
-----------------------------------------------------------------------------
(* Remainders.                                                             *)

\* A remainder lies below the modulus.
LEMMA ModRange ==
    ASSUME NEW m \in Nat \ {0}, NEW a \in Int
    PROVE  a % m \in 0 .. m - 1
BY Z3

\* A number written as a multiple of m plus r, with r below m, has the remainder r.
LEMMA ModUnique ==
    ASSUME NEW m \in Nat \ {0}, NEW a \in Int, NEW q \in Int,
           NEW r \in 0 .. m - 1, a = m * q + r
    PROVE  a % m = r
BY SMT

\* Quotient and remainder give the number back.
LEMMA ModDivision ==
    ASSUME NEW m \in Nat \ {0}, NEW a \in Int
    PROVE  a \div m \in Int /\ a = m * (a \div m) + (a % m)
BY SMT

\* A multiple of m may be added.
LEMMA ModMultiple ==
    ASSUME NEW m \in Nat \ {0}, NEW a \in Int, NEW q \in Int
    PROVE  (a + m * q) % m = a % m
<1>1. a = m * (a \div m) + (a % m) /\ a \div m \in Int
  BY ModDivision
<1>2. a % m \in 0 .. m - 1
  BY ModRange
<1>3. a + m * q = m * ((a \div m) + q) + (a % m)
  BY <1>1, <1>2, SMT
<1>. DEFINE s == a + m * q
            t == (a \div m) + q
            r == a % m
<1>4. s \in Int /\ t \in Int /\ r \in 0 .. m - 1 /\ s = m * t + r
  BY <1>1, <1>2, <1>3, SMT
<1>. HIDE DEF s, t, r
<1>5. s % m = r
  BY <1>4, ModUnique
<1>. QED
  BY <1>5 DEF s, r

\* A summand may be replaced by its remainder.
LEMMA ModAdd ==
    ASSUME NEW m \in Nat \ {0}, NEW a \in Int, NEW b \in Int
    PROVE  /\ ((a % m) + b) % m = (a + b) % m
           /\ (b - (a % m)) % m = (b - a) % m
<1>. DEFINE q == a \div m
            r == a % m
<1>1. q \in Int /\ r \in Int /\ a = m * q + r
  BY ModDivision, ModRange
<1>. HIDE DEF q, r
<1>2. /\ r + b \in Int /\ b - r \in Int /\ -q \in Int
      /\ a + b = (r + b) + m * q /\ b - a = (b - r) + m * (-q)
  BY <1>1, SMT
<1>3. ((r + b) + m * q) % m = (r + b) % m
  BY <1>1, <1>2, ModMultiple
<1>4. ((b - r) + m * (-q)) % m = (b - r) % m
  BY <1>1, <1>2, ModMultiple
<1>. QED
  BY <1>2, <1>3, <1>4 DEF r

\* Remainders of numbers less than m apart are equal only for equal numbers.
LEMMA ModInjective ==
    ASSUME NEW m \in Nat \ {0}, NEW a \in Int, NEW b \in Int,
           a - b < m, b - a < m, a % m = b % m
    PROVE  a = b
<1>. DEFINE q == a \div m
            p == b \div m
            r == a % m
<1>1. q \in Int /\ p \in Int /\ r \in 0 .. m - 1 /\ a = m * q + r /\ b = m * p + r
  BY ModDivision, ModRange
<1>. HIDE DEF q, p, r
<1>2. a - b = m * (q - p)
  BY <1>1, SMT
<1>3. q - p = 0
  <2>1. CASE q - p >= 1
    <3>1. m * (q - p) >= m
      BY <2>1, <1>1, SMT
    <3>. QED
      BY <3>1, <1>2, <1>1
  <2>2. CASE q - p <= -1
    <3>1. m * (q - p) <= -m
      BY <2>2, <1>1, SMT
    <3>. QED
      BY <3>1, <1>2, <1>1
  <2>. QED
    BY <2>1, <2>2, <1>1
<1>. QED
  BY <1>1, <1>3

\* The remainder of a number less than m from 0.
LEMMA ModNear ==
    ASSUME NEW m \in Nat \ {0}, NEW a \in Int, -m < a, a < m
    PROVE  a % m = IF a >= 0 THEN a ELSE a + m
<1>1. CASE a >= 0
  <2>1. a \in 0 .. m - 1 /\ a = m * 0 + a
    BY <1>1, SMT
  <2>. QED
    BY <1>1, <2>1, ModUnique
<1>2. CASE a < 0
  <2>. DEFINE r == a + m
  <2>1. r \in 0 .. m - 1 /\ a = m * (-1) + r
    BY <1>2, SMT
  <2>. HIDE DEF r
  <2>2. a % m = r
    BY <2>1, ModUnique
  <2>. QED
    BY <1>2, <2>2 DEF r
<1>. QED
  BY <1>1, <1>2

\* The difference of remainders has the remainder of the difference.
LEMMA ModDifference ==
    ASSUME NEW m \in Nat \ {0}, NEW a \in Int, NEW b \in Int
    PROVE  ((a % m) - (b % m)) % m = (a - b) % m
<1>. DEFINE r == b % m
            p == a % m
<1>1. r \in Int /\ p \in Int /\ -r \in Int
  BY ModRange
<1>2. (p + (-r)) % m = (a + (-r)) % m
  BY <1>1, ModAdd
<1>3. (a - r) % m = (a - b) % m
  BY ModAdd
<1>. HIDE DEF r, p
<1>4. p + (-r) = p - r /\ a + (-r) = a - r
  BY <1>1
<1>5. (p - r) % m = (a - b) % m
  BY <1>2, <1>3, <1>4
<1>. QED
  BY <1>5 DEF r, p

-----------------------------------------------------------------------------
(* The constants, and the missing numbers of an interval.                  *)

LEMMA ConstantFacts ==
    /\ SNMod \in Nat \ {0} /\ Half \in Nat /\ SNMod = Half + Half
    /\ SnInfoSize \in Nat \ {0} /\ SnInfoSize < Half
    /\ U32 \in Nat \ {0} /\ U32 = SNMod * SNMod
    /\ MinIdx \in Nat /\ MaxIdx \in Nat /\ MaxIdx < U32 - 1
    /\ MaxPackets \in Nat /\ MaxSnapshots \in Nat
<1>1. SNMod \in Nat \ {0} /\ Half \in Nat /\ SNMod = Half + Half
  BY RtpStatsConstants, SMT DEF Half
<1>2. U32 \in Nat \ {0} /\ U32 = SNMod * SNMod
  BY <1>1, SMT DEF U32
<1>. QED
  BY <1>1, <1>2, RtpStatsConstants

\* How many numbers of an interval are missing is bounded by its length.
LEMMA MissingBound ==
    ASSUME NEW a \in Int, NEW b \in Int, a <= b, NEW C
    PROVE  /\ IsFiniteSet((a .. b) \ C)
           /\ Cardinality((a .. b) \ C) \in 0 .. b - a + 1
<1>1. IsFiniteSet(a .. b) /\ Cardinality(a .. b) = b - a + 1
  BY FS_Interval
<1>2. (a .. b) \ C \in SUBSET (a .. b)
  OBVIOUS
<1>3. IsFiniteSet((a .. b) \ C) /\ Cardinality((a .. b) \ C) <= Cardinality(a .. b)
  BY <1>1, <1>2, FS_Subset
<1>4. Cardinality((a .. b) \ C) \in Nat
  BY <1>3, FS_CardinalityType
<1>. QED
  BY <1>1, <1>3, <1>4

\* The set has only numbers up to b, or from a on.
UpTo(C, b) == \A j \in C : j \in Int /\ j <= b
From(C, a) == \A j \in C : j \in Int /\ a <= j

\* A new newest number leaves those between missing.
LEMMA MissingAfter ==
    ASSUME NEW a \in Int, NEW b \in Int, a <= b, NEW e \in Int, b < e,
           NEW C, UpTo(C, b)
    PROVE  Cardinality((a .. e) \ (C \cup {e})) = Cardinality((a .. b) \ C) + (e - b - 1)
<1>. DEFINE S == (a .. b) \ C
            T == b + 1 .. e - 1
<1>1. (a .. e) \ (C \cup {e}) = S \cup T
  BY DEF UpTo
<1>1a. S \cap T = {}
  BY DEF UpTo
<1>2. IsFiniteSet(S) /\ Cardinality(S) \in Nat
  <2>1. IsFiniteSet(a .. b)
    BY FS_Interval
  <2>. QED
    BY <2>1, FS_Difference, FS_CardinalityType
<1>3. IsFiniteSet(T) /\ Cardinality(T) = e - b - 1
  BY FS_Interval
<1>4. Cardinality(S \cup T) = Cardinality(S) + Cardinality(T) - Cardinality(S \cap T)
  BY <1>2, <1>3, FS_Union
<1>. HIDE DEF S, T
<1>5. Cardinality(S \cup T) = Cardinality(S) + (e - b - 1)
  <2>1. Cardinality(S \cap T) = 0
    BY <1>1a, FS_EmptySet, Zenon
  <2>. QED
    BY <1>2, <1>3, <1>4, <2>1
<1>. QED
  BY <1>1, <1>5 DEF S

\* So does a new oldest one.
LEMMA MissingBefore ==
    ASSUME NEW a \in Int, NEW b \in Int, a <= b, NEW e \in Int, e < a,
           NEW C, From(C, a)
    PROVE  Cardinality((e .. b) \ (C \cup {e})) = Cardinality((a .. b) \ C) + (a - e - 1)
<1>. DEFINE S == (a .. b) \ C
            T == e + 1 .. a - 1
<1>1. (e .. b) \ (C \cup {e}) = S \cup T
  BY DEF From
<1>1a. S \cap T = {}
  BY DEF From
<1>2. IsFiniteSet(S) /\ Cardinality(S) \in Nat
  <2>1. IsFiniteSet(a .. b)
    BY FS_Interval
  <2>. QED
    BY <2>1, FS_Difference, FS_CardinalityType
<1>3. IsFiniteSet(T) /\ Cardinality(T) = a - e - 1
  BY FS_Interval
<1>4. Cardinality(S \cup T) = Cardinality(S) + Cardinality(T) - Cardinality(S \cap T)
  BY <1>2, <1>3, FS_Union
<1>. HIDE DEF S, T
<1>5. Cardinality(S \cup T) = Cardinality(S) + (a - e - 1)
  <2>1. Cardinality(S \cap T) = 0
    BY <1>1a, FS_EmptySet, Zenon
  <2>. QED
    BY <1>2, <1>3, <1>4, <2>1
<1>. QED
  BY <1>1, <1>5 DEF S

\* A missing number that comes is missing no more.
LEMMA MissingFound ==
    ASSUME NEW a \in Int, NEW b \in Int, a <= b, NEW C, NEW e \in (a .. b) \ C
    PROVE  /\ Cardinality((a .. b) \ C) > 0
           /\ Cardinality((a .. b) \ (C \cup {e})) = Cardinality((a .. b) \ C) - 1
<1>. DEFINE S == (a .. b) \ C
<1>1. IsFiniteSet(S) /\ Cardinality(S) \in Nat
  BY MissingBound
<1>2. (a .. b) \ (C \cup {e}) = S \ {e}
  OBVIOUS
<1>3. Cardinality(S \ {e}) = Cardinality(S) - 1
  BY <1>1, FS_RemoveElement
<1>4. S # {}
  OBVIOUS
<1>5. Cardinality(S) # 0
  BY <1>1, <1>4, FS_EmptySet
<1>. QED
  BY <1>1, <1>2, <1>3, <1>5

-----------------------------------------------------------------------------
(* What a sequence number tells of a packet.                               *)

\* The extended numbers of a stream that has begun.
LEMMA SpanFacts ==
    ASSUME TypeOK, SpanFits, initialized
    PROVE  /\ getExtHighestSN \in Int /\ getExtHighestSN <= MaxIdx
           /\ extStartSN \in Int /\ 0 <= extStartSN /\ extStartSN < SNMod
           /\ extStartSN <= getExtHighestSN
           /\ getExtHighestSN % SNMod = highestSN
           /\ Newest = getExtHighestSN /\ Oldest = extStartSN
           /\ packetsExpected = Expected
           /\ \A j \in counted : j \in Int
<1>. DEFINE N == getExtHighestSN
            S == extStartSN
<1>1. /\ N \in counted /\ S \in counted /\ S \in SN
      /\ \A j \in counted : S <= j /\ j <= N
      /\ counted \subseteq MinIdx .. MaxIdx
      /\ cycles \in SN /\ highestSN \in SN
  BY DEF SpanFits, TypeOK
<1>2. /\ SNMod \in Nat \ {0} /\ MinIdx \in Nat /\ MaxIdx \in Nat /\ MaxIdx < U32 - 1
      /\ U32 \in Nat \ {0}
  BY ConstantFacts
<1>3. \A j \in counted : j \in Int /\ 0 <= j /\ j <= MaxIdx
  BY <1>1, <1>2
<1>4. S \in Int /\ 0 <= S /\ S < SNMod
  BY <1>1, <1>2 DEF SN
<1>5. N % SNMod = highestSN
  <2>1. highestSN \in 0 .. SNMod - 1 /\ cycles \in Int
    BY <1>1, <1>2 DEF SN
  <2>2. N = SNMod * cycles + highestSN
    BY <1>2, <2>1 DEF getExtHighestSN
  <2>3. N \in Int
    BY <1>1, <1>3
  <2>. HIDE DEF N
  <2>. QED
    BY <1>2, <2>1, <2>2, <2>3, ModUnique
<1>. HIDE DEF N, S
<1>6. N \in Int /\ N <= MaxIdx /\ S <= N
  BY <1>1, <1>3
<1>7. Newest = N
  <2>1. \A i \in counted : (\A j \in counted : j <= i) => i = N
    BY <1>1, <1>3, <1>6
  <2>. QED
    BY <1>1, <2>1 DEF Newest
<1>8. Oldest = S
  <2>1. \A i \in counted : (\A j \in counted : i <= j) => i = S
    BY <1>1, <1>3, <1>4
  <2>. QED
    BY <1>1, <2>1 DEF Oldest
<1>9. packetsExpected = N - S + 1
  <2>1. N - S + 1 \in Int /\ 0 <= N - S + 1 /\ N - S + 1 < U32
    BY <1>2, <1>4, <1>6
  <2>2. (N - S + 1) % U32 = N - S + 1
    BY <1>2, <2>1, ModNear
  <2>. QED
    BY <2>2 DEF packetsExpected, N, S
<1>. QED
  BY <1>3, <1>4, <1>5, <1>6, <1>7, <1>8, <1>9 DEF N, S, Expected

\* The packet with index e of a stream that has begun is newer than the newest,
\* or not, and can be told from its number.
LEMMA NumberFacts ==
    ASSUME TypeOK, SpanFits, initialized, NEW e \in Indices
    PROVE  /\ e \in MinIdx .. MaxIdx /\ e \in Int /\ 0 <= e /\ e <= MaxIdx
           /\ getExtHighestSN - Half < e /\ e <= getExtHighestSN + Half
           /\ ((e % SNMod) - highestSN) % SNMod =
                IF e >= getExtHighestSN THEN e - getExtHighestSN ELSE e - getExtHighestSN + SNMod
           /\ (highestSN - (e % SNMod)) % SNMod =
                IF e <= getExtHighestSN THEN getExtHighestSN - e
                                        ELSE getExtHighestSN - e + SNMod
           /\ Expected < Half => ((e % SNMod) - extStartSN) % SNMod =
                IF e >= extStartSN THEN e - extStartSN ELSE e - extStartSN + SNMod
<1>. DEFINE N == getExtHighestSN
            S == extStartSN
<1>1. /\ N \in Int /\ N % SNMod = highestSN /\ Newest = N /\ S \in Int /\ 0 <= S /\ S < SNMod
      /\ S <= N
  BY SpanFacts
<1>2. /\ SNMod \in Nat \ {0} /\ Half \in Nat /\ SNMod = Half + Half /\ Half > 0
      /\ MinIdx \in Nat /\ MaxIdx \in Nat
  BY ConstantFacts
<1>3. counted # {}
  BY DEF SpanFits
<1>4. e \in MinIdx .. MaxIdx /\ N - Half < e /\ e <= N + Half
  BY <1>1, <1>3 DEF Indices
<1>. HIDE DEF N, S
<1>5. e \in Int /\ 0 <= e /\ e <= MaxIdx
  BY <1>2, <1>4
<1>6. ((e % SNMod) - highestSN) % SNMod = (e - N) % SNMod
  BY <1>1, <1>2, <1>5, ModDifference
<1>7. (highestSN - (e % SNMod)) % SNMod = (N - e) % SNMod
  <2>1. ((N % SNMod) - (e % SNMod)) % SNMod = (N - e) % SNMod
    BY <1>1, <1>2, <1>5, ModDifference
  <2>. QED
    BY <1>1, <2>1
<1>8. ((e % SNMod) - S) % SNMod = (e - S) % SNMod
  <2>1. S % SNMod = S
    BY <1>1, <1>2, ModNear
  <2>2. ((e % SNMod) - (S % SNMod)) % SNMod = (e - S) % SNMod
    BY <1>1, <1>2, <1>5, ModDifference
  <2>. QED
    BY <2>1, <2>2
<1>9. (e - N) % SNMod = IF e - N >= 0 THEN e - N ELSE e - N + SNMod
  <2>1. e - N \in Int /\ -SNMod < e - N /\ e - N < SNMod
    BY <1>1, <1>2, <1>4, <1>5
  <2>. QED
    BY <1>2, <2>1, ModNear
<1>10. (N - e) % SNMod = IF N - e >= 0 THEN N - e ELSE N - e + SNMod
  <2>1. N - e \in Int /\ -SNMod < N - e /\ N - e < SNMod
    BY <1>1, <1>2, <1>4, <1>5
  <2>. QED
    BY <1>2, <2>1, ModNear
<1>11. N - S + 1 < Half => (e - S) % SNMod = IF e - S >= 0 THEN e - S ELSE e - S + SNMod
  <2>1. N - S + 1 < Half => e - S \in Int /\ -SNMod < e - S /\ e - S < SNMod
    BY <1>1, <1>2, <1>4, <1>5
  <2>. QED
    BY <1>2, <2>1, ModNear
<1>12. ((e % SNMod) - highestSN) % SNMod = IF e >= N THEN e - N ELSE e - N + SNMod
  BY <1>1, <1>5, <1>6, <1>9
<1>13. (highestSN - (e % SNMod)) % SNMod = IF e <= N THEN N - e ELSE N - e + SNMod
  BY <1>1, <1>5, <1>7, <1>10
<1>14. N - S + 1 < Half => ((e % SNMod) - S) % SNMod = IF e >= S THEN e - S ELSE e - S + SNMod
  BY <1>1, <1>5, <1>8, <1>11
<1>. QED
  BY <1>4, <1>5, <1>12, <1>13, <1>14 DEF N, S, Expected

\* Which case of Update a packet meets, and where the ring keeps it.
LEMMA CaseFacts ==
    ASSUME TypeOK, SpanFits, initialized, NEW e \in Indices
    PROVE  /\ OutOfOrder(e % SNMod) <=> e <= getExtHighestSN
           /\ e > getExtHighestSN =>
                ((e % SNMod) - highestSN) % SNMod = e - getExtHighestSN
           /\ e <= getExtHighestSN =>
                /\ ((e % SNMod) - highestSN) % SNMod = 0
                     \/ ((e % SNMod) - highestSN) % SNMod > Half
                /\ beforeStart(e % SNMod) <=> e < extStartSN
                /\ getSnInfoOutOfOrderPtr(e % SNMod) =
                     IF getExtHighestSN - e >= SnInfoSize THEN -1
                     ELSE slotBack(getExtHighestSN - e)
                /\ Counts(e) <=> e > getExtHighestSN - SnInfoSize \/ e < extStartSN
           /\ e > getExtHighestSN => Counts(e)
           /\ e < extStartSN => e % SNMod = e /\ ((extStartSN - e) % SNMod) = extStartSN - e
<1>. DEFINE N == getExtHighestSN
            S == extStartSN
            sn == e % SNMod
            ahead == (sn - highestSN) % SNMod
            offset == (highestSN - sn) % SNMod
<1>1. /\ N \in Int /\ N % SNMod = highestSN /\ Newest = N /\ Oldest = S /\ S \in Int
      /\ 0 <= S /\ S < SNMod /\ S <= N /\ packetsExpected = Expected
  BY SpanFacts
<1>2. /\ SNMod \in Nat \ {0} /\ Half \in Nat /\ SNMod = Half + Half
      /\ SnInfoSize \in Nat \ {0} /\ SnInfoSize < Half
  BY ConstantFacts
<1>3. /\ e \in Int /\ 0 <= e /\ N - Half < e /\ e <= N + Half
      /\ ahead = IF e >= N THEN e - N ELSE e - N + SNMod
      /\ offset = IF e <= N THEN N - e ELSE N - e + SNMod
      /\ Expected < Half =>
           (sn - S) % SNMod = IF e >= S THEN e - S ELSE e - S + SNMod
  BY NumberFacts
<1>4. /\ packetsExpected < Half <=> Expected < Half
      /\ Expected = N - S + 1
  BY <1>1 DEF Expected
<1>5. counted # {}
  BY DEF SpanFits
<1>6. e < S => e % SNMod = e /\ (S - e) % SNMod = S - e
  <2>1. e < S => /\ e \in Int /\ -SNMod < e /\ e < SNMod /\ e >= 0
                 /\ S - e \in Int /\ -SNMod < S - e /\ S - e < SNMod /\ S - e >= 0
    BY <1>1, <1>2, <1>3
  <2>. QED
    BY <1>2, <2>1, ModNear
<1>7. sn = highestSN => e = N
  <2>1. sn = highestSN => e % SNMod = N % SNMod
    BY <1>1
  <2>2. e - N < SNMod /\ N - e < SNMod
    BY <1>1, <1>2, <1>3
  <2>. QED
    BY <1>1, <1>2, <1>3, <2>1, <2>2, ModInjective
<1>8. e = N => sn = highestSN
  BY <1>1
<1>9. OutOfOrder(sn) <=> sn = highestSN \/ ahead > Half
  BY DEF OutOfOrder
<1>10. beforeStart(sn) <=> Expected < Half /\ (sn - S) % SNMod >= Half
  BY <1>4 DEF beforeStart
<1>11. getSnInfoOutOfOrderPtr(sn) =
         IF (ahead > 0 /\ ahead < Half) \/ offset >= SnInfoSize THEN -1 ELSE slotBack(offset)
  BY DEF getSnInfoOutOfOrderPtr, slotBack
<1>12. Counts(e) <=> e > N - SnInfoSize \/ (e < S /\ N - S + 1 < Half)
  BY <1>1, <1>5 DEF Counts
<1>. HIDE DEF N, S, sn, ahead, offset
<1>13. OutOfOrder(sn) <=> e <= N
  BY <1>1, <1>2, <1>3, <1>7, <1>8, <1>9
<1>14. e > N => ahead = e - N /\ Counts(e)
  BY <1>1, <1>2, <1>3, <1>12
<1>15. e <= N => ahead = 0 \/ ahead > Half
  BY <1>1, <1>2, <1>3
<1>16. e <= N => (beforeStart(sn) <=> e < S)
  BY <1>1, <1>2, <1>3, <1>4, <1>10
<1>17. e <= N => getSnInfoOutOfOrderPtr(sn) = IF N - e >= SnInfoSize THEN -1 ELSE slotBack(N - e)
  BY <1>1, <1>2, <1>3, <1>11, <1>15
<1>18. e <= N => (Counts(e) <=> e > N - SnInfoSize \/ e < S)
  BY <1>1, <1>2, <1>3, <1>12
<1>. QED
  BY <1>6, <1>13, <1>14, <1>15, <1>16, <1>17, <1>18 DEF N, S, sn, ahead

-----------------------------------------------------------------------------
(* The ring.                                                               *)

\* Slots less than the ring's length apart are different slots.
LEMMA SlotsDiffer ==
    /\ \A x \in Int : Mask(x) \in 0 .. SnInfoSize - 1
    /\ \A x, y \in Int : x # y /\ x - y < SnInfoSize /\ y - x < SnInfoSize => Mask(x) # Mask(y)
<1>1. SnInfoSize \in Nat \ {0}
  BY ConstantFacts
<1>. QED
  BY <1>1, ModRange, ModInjective DEF Mask

\* The ring after a number d ahead of the newest: the new one, then the d - 1
\* that were skipped, then what was there.
LEMMA AdvanceRing ==
    ASSUME TypeOK, NEW d \in Nat \ {0}, NEW info \in SnInfo, advanceSnInfos(d, info)
    PROVE  /\ snInfos' \in [0 .. SnInfoSize - 1 -> SnInfo]
           /\ snInfoWritePtr' \in 0 .. SnInfoSize - 1
           /\ \A k \in 0 .. SnInfoSize - 1 :
                snInfos'[slotBack(k)'] = IF k = 0 THEN info ELSE IF k < d THEN "lost"
                                         ELSE snInfos[slotBack(k - d)]
<1>. DEFINE w == snInfoWritePtr
            A(j) == Mask(w + j)
<1>1. SnInfoSize \in Nat \ {0} /\ w \in Int /\ snInfos \in [0 .. SnInfoSize - 1 -> SnInfo]
  BY ConstantFacts DEF TypeOK
<1>2. \A j \in Int : A(j) \in 0 .. SnInfoSize - 1
  BY <1>1, SlotsDiffer
<1>3. \A i, j \in Int : i # j /\ i - j < SnInfoSize /\ j - i < SnInfoSize => A(i) # A(j)
  <2>1. SUFFICES ASSUME NEW i \in Int, NEW j \in Int,
                        i # j, i - j < SnInfoSize, j - i < SnInfoSize
                 PROVE  A(i) # A(j)
    OBVIOUS
  <2>2. /\ w + i \in Int /\ w + j \in Int /\ w + i # w + j
        /\ (w + i) - (w + j) < SnInfoSize /\ (w + j) - (w + i) < SnInfoSize
    BY <1>1, <2>1
  <2>. QED
    BY <2>2, SlotsDiffer
<1>4. /\ snInfoWritePtr' = A(d)
      /\ cleared(d) = {A(i) : i \in 0 .. d - 2}
      /\ A(d - 1) = Mask(w + d - 1)
  <2>1. w + (d - 1) = w + d - 1
    BY <1>1
  <2>. QED
    BY <2>1 DEF advanceSnInfos, cleared
<1>5. snInfos' = [[i \in 0 .. SnInfoSize - 1 |-> IF i \in cleared(d) THEN "lost" ELSE snInfos[i]]
                  EXCEPT ![A(d - 1)] = info]
  BY <1>1, <1>4 DEF advanceSnInfos
<1>6. \A k \in Int : slotBack(k) = A(-k - 1) /\ slotBack(k)' = A(d - k - 1)
  <2>1. SUFFICES ASSUME NEW k \in Int
                 PROVE  slotBack(k) = A(-k - 1) /\ slotBack(k)' = A(d - k - 1)
    OBVIOUS
  <2>2. w - k - 1 = w + (-k - 1) /\ -k - 1 \in Int /\ w + d \in Int
        /\ (w + d) + (-k - 1) = w + (d - k - 1)
    BY <1>1
  <2>3. (((w + d) % SnInfoSize) + (-k - 1)) % SnInfoSize = ((w + d) + (-k - 1)) % SnInfoSize
    BY <1>1, <2>2, ModAdd
  <2>4. Mask(snInfoWritePtr' - k - 1) = (((w + d) % SnInfoSize) + (-k - 1)) % SnInfoSize
    <3>1. (w + d) % SnInfoSize \in Int
      BY <1>1, <2>2, ModRange
    <3>2. ((w + d) % SnInfoSize) - k - 1 = ((w + d) % SnInfoSize) + (-k - 1)
      BY <3>1
    <3>. QED
      BY <1>4, <3>2 DEF Mask
  <2>. QED
    BY <2>2, <2>3, <2>4 DEF slotBack, Mask
<1>. HIDE DEF A, w
<1>7. \A i \in 0 .. SnInfoSize - 1 :
        snInfos'[i] = IF i = A(d - 1) THEN info
                      ELSE IF i \in cleared(d) THEN "lost" ELSE snInfos[i]
  BY <1>2, <1>5
<1>8. snInfos' \in [0 .. SnInfoSize - 1 -> SnInfo] /\ snInfoWritePtr' \in 0 .. SnInfoSize - 1
  <2>. DEFINE f == [i \in 0 .. SnInfoSize - 1 |->
                      IF i \in cleared(d) THEN "lost" ELSE snInfos[i]]
  <2>1. "lost" \in SnInfo
    BY DEF SnInfo
  <2>2. f \in [0 .. SnInfoSize - 1 -> SnInfo]
    BY <1>1, <2>1
  <2>3. A(d) \in 0 .. SnInfoSize - 1 /\ A(d - 1) \in 0 .. SnInfoSize - 1
    BY <1>2
  <2>4. snInfos' = [f EXCEPT ![A(d - 1)] = info]
    BY <1>5
  <2>. HIDE DEF f
  <2>. QED
    BY <1>4, <2>2, <2>3, <2>4
<1>9. ASSUME NEW k \in 0 .. SnInfoSize - 1
      PROVE  snInfos'[slotBack(k)'] = IF k = 0 THEN info ELSE IF k < d THEN "lost"
                                      ELSE snInfos[slotBack(k - d)]
  <2>1. k \in Int /\ 0 <= k /\ k < SnInfoSize /\ slotBack(k)' = A(d - k - 1)
        /\ d - k - 1 \in Int /\ A(d - k - 1) \in 0 .. SnInfoSize - 1
    <3>1. k \in Int /\ 0 <= k /\ k < SnInfoSize /\ d - k - 1 \in Int
      BY <1>1
    <3>. QED
      BY <1>2, <1>6, <3>1
  <2>2. CASE k = 0
    <3>1. d - k - 1 = d - 1
      BY <2>2
    <3>. QED
      BY <1>7, <2>1, <2>2, <3>1
  <2>3. CASE k # 0
    <3>1. A(d - k - 1) # A(d - 1)
      BY <1>1, <1>3, <2>1, <2>3
    <3>2. CASE k < d
      <4>1. d - k - 1 \in 0 .. d - 2
        BY <2>1, <2>3, <3>2
      <4>2. A(d - k - 1) \in cleared(d)
        BY <1>4, <4>1
      <4>. QED
        BY <1>7, <2>1, <2>3, <3>1, <3>2, <4>2
    <3>3. CASE ~(k < d)
      <4>1. \A i \in 0 .. d - 2 : A(i) # A(d - k - 1)
        BY <1>1, <1>3, <2>1, <3>3
      <4>2. A(d - k - 1) \notin cleared(d)
        BY <1>4, <4>1
      <4>3. slotBack(k - d) = A(d - k - 1)
        <5>1. k - d \in Int /\ -(k - d) - 1 = d - k - 1
          BY <2>1
        <5>. QED
          BY <1>6, <5>1
      <4>. QED
        BY <1>7, <2>1, <2>3, <3>1, <3>3, <4>2, <4>3
    <3>. QED
      BY <3>2, <3>3
  <2>. QED
    BY <2>2, <2>3
<1>. QED
  BY <1>8, <1>9

-----------------------------------------------------------------------------
(* Update.                                                                 *)

\* What every case of Update does.
Noted(e) == /\ ~ended /\ updates < MaxPackets
            /\ counted' = IF Counts(e) THEN counted \cup {e} ELSE counted
            /\ updates' = updates + 1
            /\ report' = NoReport
            /\ UNCHANGED <<ended, nextSnapshotId>>

\* The padding grows by one at most.
LEMMA PaddedFacts ==
    ASSUME TypeOK, NEW info
    PROVE  Padded(info) \in Nat /\ packetsPadding <= Padded(info)
           /\ Padded(info) <= packetsPadding + 1
BY DEF TypeOK, Padded

\* A stream begins.
LEMMA FirstStep ==
    ASSUME IInv, NEW e \in Indices, NEW info \in SnInfo \ {"lost"},
           Noted(e), UpdateFirst(e % SNMod, info)
    PROVE  IInv'
<1>1. TypeOK /\ SpanFits /\ SnapshotsFit
  BY DEF IInv
<1>2. /\ SNMod \in Nat \ {0} /\ U32 \in Nat \ {0} /\ U32 = SNMod * SNMod /\ MaxIdx < U32 - 1
      /\ MinIdx \in Nat /\ MaxIdx \in Nat /\ SnInfoSize \in Nat \ {0}
  BY ConstantFacts
<1>3. /\ ~initialized /\ counted = {} /\ updates = 0
      /\ packetsLost = 0 /\ packetsDuplicate = 0 /\ packetsPadding = 0
      /\ \A i \in 0 .. SnInfoSize - 1 : snInfos[i] = "lost"
  BY <1>1 DEF UpdateFirst, SpanFits
<1>4. e \in SN /\ e \in MinIdx .. MaxIdx /\ e \in Int /\ 0 <= e /\ e < SNMod /\ e <= MaxIdx
  <2>1. e \in SN /\ e \in MinIdx .. MaxIdx
    BY <1>3, RtpStatsConstants DEF Indices
  <2>. QED
    BY <1>2, <2>1 DEF SN
<1>5. e % SNMod = e
  <2>1. -SNMod < e
    BY <1>2, <1>4
  <2>. QED
    BY <1>2, <1>4, <2>1, ModNear
<1>6. /\ initialized' = TRUE /\ extStartSN' = e /\ highestSN' = e /\ cycles' = 0
      /\ getExtHighestSN' = e
      /\ counted' = {e} /\ updates' = 1 /\ report' = NoReport
      /\ packetsLost' = 0 /\ packetsDuplicate' = 0
      /\ packetsPadding' = Padded(info) /\ Padded(info) \in Nat /\ Padded(info) <= 1
      /\ UNCHANGED <<ended, nextSnapshotId>>
  <2>1. /\ initialized' = TRUE /\ extStartSN' = e /\ highestSN' = e /\ cycles' = 0
        /\ packetsLost' = 0 /\ packetsDuplicate' = 0 /\ packetsPadding' = Padded(info)
    BY <1>3, <1>5 DEF UpdateFirst
  <2>2. Counts(e)
    BY <1>3 DEF Counts
  <2>3. getExtHighestSN' = e
    BY <1>2, <1>4, <2>1 DEF getExtHighestSN
  <2>4. Padded(info) \in Nat /\ Padded(info) <= 1
    BY <1>1, <1>3, PaddedFacts
  <2>. QED
    BY <1>3, <2>1, <2>2, <2>3, <2>4 DEF Noted
<1>7. /\ snInfos' \in [0 .. SnInfoSize - 1 -> SnInfo]
      /\ snInfoWritePtr' \in 0 .. SnInfoSize - 1
      /\ \A k \in 0 .. SnInfoSize - 1 :
           snInfos'[slotBack(k)'] = IF k = 0 THEN info ELSE snInfos[slotBack(k - 1)]
  <2>1. advanceSnInfos(1, info) /\ info \in SnInfo
    BY DEF UpdateFirst
  <2>. QED
    BY <1>1, <1>2, <2>1, AdvanceRing
<1>8. snapshots' = [id \in 1 .. MaxSnapshots |->
                      IF id < nextSnapshotId THEN e ELSE NoSnapshot]
  <2>1. \A id \in 1 .. MaxSnapshots : snapshots[id] = NoSnapshot
    BY <1>1, <1>3 DEF SnapshotsFit
  <2>2. DOMAIN snapshots = 1 .. MaxSnapshots
    BY <1>1 DEF TypeOK
  <2>. QED
    BY <1>5, <2>1, <2>2 DEF UpdateFirst
<1>9. TypeOK'
  <2>1. e \in 0 .. U32 - 1 /\ 0 \in SN /\ 0 \in 0 .. U32 - 1
    BY <1>2, <1>4 DEF SN
  <2>2. updates' \in 0 .. MaxPackets
    BY <1>3, <1>6, ConstantFacts DEF Noted
  <2>3. snapshots' \in [1 .. MaxSnapshots -> {NoSnapshot} \cup 0 .. U32 - 1]
    BY <1>8, <2>1
  <2>. QED
    BY <1>1, <1>4, <1>6, <1>7, <2>1, <2>2, <2>3 DEF TypeOK
<1>10. SpanFits'
  BY <1>4, <1>6 DEF SpanFits
<1>11. RingFits'
  <2>1. SUFFICES ASSUME NEW k \in 0 .. SnInfoSize - 1
                 PROVE  snInfos'[slotBack(k)'] = "lost" <=> e - k \notin {e}
    BY <1>6 DEF RingFits
  <2>2. CASE k = 0
    BY <1>4, <1>7, <2>2
  <2>3. CASE k # 0
    <3>1. snInfoWritePtr - (k - 1) - 1 \in Int /\ k \in Int
      BY <1>1, <1>2 DEF TypeOK
    <3>2. slotBack(k - 1) \in 0 .. SnInfoSize - 1
      BY <3>1, SlotsDiffer DEF slotBack
    <3>3. snInfos'[slotBack(k)'] = "lost"
      BY <1>3, <1>7, <2>3, <3>2
    <3>. QED
      BY <1>4, <2>3, <3>1, <3>3
  <2>. QED
    BY <2>2, <2>3
<1>12. CountsFit'
  <2>1. Missing' = {}
    BY <1>4, <1>6 DEF Missing
  <2>2. Expected' = 1
    BY <1>4, <1>6 DEF Expected
  <2>3. Cardinality({}) = 0
    BY FS_EmptySet
  <2>. QED
    BY <1>6, <2>1, <2>2, <2>3 DEF CountsFit
<1>13. SnapshotsFit'
  <2>1. \A id \in 1 .. MaxSnapshots :
          snapshots'[id] # NoSnapshot => id < nextSnapshotId /\ snapshots'[id] = e
    BY <1>8
  <2>2. e <= e /\ e <= e + 1
    BY <1>4
  <2>. QED
    BY <1>6, <2>1, <2>2 DEF SnapshotsFit
<1>14. ReportedLossIsTrue'
  BY <1>6 DEF ReportedLossIsTrue
<1>. QED
  BY <1>9, <1>10, <1>11, <1>12, <1>13, <1>14 DEF IInv

\* What the invariant says of a stream that has begun.
LEMMA StreamFacts ==
    ASSUME IInv, initialized
    PROVE  LET N == getExtHighestSN
               S == extStartSN
           IN  /\ N \in counted /\ S \in counted /\ S \in SN
               /\ \A j \in counted : S <= j /\ j <= N
               /\ \A k \in 0 .. SnInfoSize - 1 :
                    snInfos[slotBack(k)] = "lost" <=> N - k \notin counted
               /\ packetsLost = Cardinality((S .. N) \ counted)
               /\ packetsLost \in 0 .. N - S + 1
               /\ updates = ((N - S + 1) - packetsLost) + packetsDuplicate
               /\ packetsPadding <= (N - S + 1) - packetsLost
               /\ packetsDuplicate \in Nat /\ packetsPadding \in Nat /\ updates \in Nat
               /\ \A id \in 1 .. MaxSnapshots : snapshots[id] # NoSnapshot =>
                    /\ id < nextSnapshotId /\ snapshots[id] \in Int
                    /\ S <= snapshots[id] /\ snapshots[id] <= N + 1
<1>. DEFINE N == getExtHighestSN
            S == extStartSN
<1>1. TypeOK /\ SpanFits /\ RingFits /\ CountsFit /\ SnapshotsFit
  BY DEF IInv
<1>2. N \in counted /\ S \in counted /\ S \in SN /\ \A j \in counted : S <= j /\ j <= N
  BY <1>1 DEF SpanFits
<1>3. N \in Int /\ S \in Int /\ S <= N
  BY <1>1, SpanFacts
<1>4. \A k \in 0 .. SnInfoSize - 1 : snInfos[slotBack(k)] = "lost" <=> N - k \notin counted
  BY <1>1 DEF RingFits
<1>5. packetsLost = Cardinality((S .. N) \ counted)
  BY <1>1 DEF CountsFit, Missing
<1>6. packetsLost \in 0 .. N - S + 1
  BY <1>3, <1>5, MissingBound
<1>7. /\ updates = ((N - S + 1) - packetsLost) + packetsDuplicate
      /\ packetsPadding <= (N - S + 1) - packetsLost
  BY <1>1 DEF CountsFit, Expected
<1>8. packetsDuplicate \in Nat /\ packetsPadding \in Nat /\ updates \in Nat
  BY <1>1, ConstantFacts DEF TypeOK
<1>9. \A id \in 1 .. MaxSnapshots : snapshots[id] # NoSnapshot =>
        /\ id < nextSnapshotId /\ snapshots[id] \in Int
        /\ S <= snapshots[id] /\ snapshots[id] <= N + 1
  BY <1>1, ConstantFacts DEF SnapshotsFit, TypeOK
<1>. QED
  BY <1>2, <1>4, <1>5, <1>6, <1>7, <1>8, <1>9

\* The extended number of a new highest one, over a wrap too.
LEMMA NextCycle ==
    ASSUME TypeOK, SpanFits, initialized, NEW e \in Indices, e > getExtHighestSN
    PROVE  /\ nextCycle(e % SNMod) \in SN
           /\ nextCycle(e % SNMod) * SNMod + (e % SNMod) = e
<1>. DEFINE N == getExtHighestSN
            M == SNMod
            c == cycles
            h == highestSN
            d == e - N
<1>1. /\ M \in Nat \ {0} /\ Half \in Nat /\ M = Half + Half /\ Half > 0
      /\ U32 = M * M /\ MaxIdx < U32 - 1 /\ MaxIdx \in Nat
  BY ConstantFacts
<1>2. N \in Int /\ N = c * M + h /\ c \in 0 .. M - 1 /\ h \in 0 .. M - 1
  BY SpanFacts DEF getExtHighestSN, TypeOK, SN
<1>3. e \in Int /\ e <= MaxIdx /\ e <= N + Half
  BY NumberFacts
<1>4. nextCycle(e % M) = IF e % M < h THEN (c + 1) % M ELSE c
  BY DEF nextCycle
<1>. HIDE DEF N, M, c, h
<1>5. d \in Int /\ 0 < d /\ d < M /\ e = c * M + h + d
  BY <1>1, <1>2, <1>3 DEF N
<1>. HIDE DEF d
<1>6. CASE h + d < M
  <2>. DEFINE r == h + d
  <2>1. r \in 0 .. M - 1 /\ r \in Int /\ c \in Int /\ e = M * c + r /\ ~(r < h)
    BY <1>1, <1>2, <1>5, <1>6
  <2>. HIDE DEF r
  <2>2. e % M = r
    BY <1>1, <1>3, <2>1, ModUnique
  <2>3. nextCycle(e % M) = c
    BY <1>4, <2>1, <2>2
  <2>4. c * M + r = e
    BY <1>1, <2>1
  <2>. QED
    BY <1>2, <2>2, <2>3, <2>4 DEF SN, M
<1>7. CASE h + d >= M
  <2>. DEFINE r == h + d - M
              q == c + 1
  <2>1. r \in 0 .. M - 1 /\ r < h /\ q \in Int /\ r \in Int /\ e = M * q + r /\ 0 < q
    BY <1>1, <1>2, <1>5, <1>7
  <2>. HIDE DEF r, q
  <2>2. e % M = r
    BY <1>1, <1>3, <2>1, ModUnique
  <2>3. q < M
    <3>1. SUFFICES ASSUME q >= M PROVE FALSE
      BY <1>1, <2>1
    <3>2. M * q >= M * M
      BY <1>1, <2>1, <3>1
    <3>. QED
      BY <1>1, <1>3, <2>1, <3>2
  <2>4. q % M = q
    BY <1>1, <2>1, <2>3, ModNear
  <2>5. nextCycle(e % M) = q
    BY <1>4, <2>1, <2>2, <2>4 DEF q
  <2>6. q * M + r = e
    BY <1>1, <2>1
  <2>. QED
    BY <1>1, <2>1, <2>2, <2>3, <2>5, <2>6 DEF SN, M
<1>. QED
  BY <1>1, <1>2, <1>5, <1>6, <1>7

\* A packet that is newer than the newest.
LEMMA InOrderStep ==
    ASSUME IInv, NEW e \in Indices, NEW info \in SnInfo \ {"lost"},
           Noted(e), UpdateInOrder(e % SNMod, info)
    PROVE  IInv'
<1>. DEFINE N == getExtHighestSN
            S == extStartSN
            d == e - N
<1>1. TypeOK /\ SpanFits /\ RingFits /\ CountsFit /\ SnapshotsFit /\ initialized
  BY DEF IInv, UpdateInOrder
<1>2. /\ SNMod \in Nat \ {0} /\ U32 \in Nat \ {0} /\ MaxIdx < U32 - 1
      /\ MinIdx \in Nat /\ MaxIdx \in Nat /\ SnInfoSize \in Nat \ {0} /\ Half \in Nat
      /\ SnInfoSize < Half
  BY ConstantFacts
<1>3. /\ N \in Int /\ N <= MaxIdx /\ S \in Int /\ 0 <= S /\ S <= N
      /\ \A j \in counted : j \in Int
  BY <1>1, SpanFacts
<1>4. /\ e \in MinIdx .. MaxIdx /\ e \in Int /\ 0 <= e /\ e <= MaxIdx
  BY <1>1, NumberFacts
<1>5. e > N
  <2>1. \/ e <= N
        \/ e > N
    BY <1>3, <1>4
  <2>2. CASE e <= N
    <3>. DEFINE ahead == ((e % SNMod) - highestSN) % SNMod
    <3>1. ahead = 0 \/ ahead > Half
      BY <1>1, <2>2, CaseFacts
    <3>2. ahead # 0 /\ ahead <= Half
      BY DEF UpdateInOrder
    <3>3. ahead \in Int
      <4>1. (e % SNMod) - highestSN \in Int
        BY <1>1, <1>2, <1>4, ModRange DEF TypeOK, SN
      <4>. QED
        BY <1>2, <4>1, ModRange
    <3>. HIDE DEF ahead
    <3>. QED
      BY <1>2, <3>1, <3>2, <3>3
  <2>. QED
    BY <2>1, <2>2
<1>6. d \in Nat \ {0} /\ ((e % SNMod) - highestSN) % SNMod = d /\ Counts(e)
  BY <1>1, <1>3, <1>4, <1>5, CaseFacts
<1>7. /\ initialized' = TRUE /\ extStartSN' = S
      /\ counted' = counted \cup {e} /\ updates' = updates + 1 /\ report' = NoReport
      /\ packetsLost' = (packetsLost + d - 1) % U32
      /\ packetsPadding' = Padded(info)
      /\ UNCHANGED <<ended, nextSnapshotId, packetsDuplicate, snapshots>>
      /\ advanceSnInfos(d, info)
  BY <1>1, <1>6 DEF Noted, UpdateInOrder
<1>8. cycles' \in SN /\ highestSN' \in SN /\ getExtHighestSN' = e
  <2>1. cycles' = nextCycle(e % SNMod) /\ highestSN' = e % SNMod
    BY DEF UpdateInOrder
  <2>2. e % SNMod \in SN
    BY <1>2, <1>4, ModRange DEF SN
  <2>. QED
    BY <1>1, <1>5, <2>1, <2>2, NextCycle DEF getExtHighestSN
<1>9. /\ snInfos' \in [0 .. SnInfoSize - 1 -> SnInfo]
      /\ snInfoWritePtr' \in 0 .. SnInfoSize - 1
      /\ \A k \in 0 .. SnInfoSize - 1 :
           snInfos'[slotBack(k)'] = IF k = 0 THEN info ELSE IF k < d THEN "lost"
                                    ELSE snInfos[slotBack(k - d)]
  BY <1>1, <1>6, <1>7, AdvanceRing
<1>10. N \in counted /\ S \in counted /\ S \in SN /\ \A j \in counted : S <= j /\ j <= N
  BY <1>1, StreamFacts
<1>11. \A k \in 0 .. SnInfoSize - 1 : snInfos[slotBack(k)] = "lost" <=> N - k \notin counted
  BY <1>1, StreamFacts
<1>12. /\ packetsLost = Cardinality((S .. N) \ counted) /\ packetsLost \in 0 .. N - S + 1
       /\ updates = ((N - S + 1) - packetsLost) + packetsDuplicate
       /\ packetsPadding <= (N - S + 1) - packetsLost
       /\ packetsDuplicate \in Nat /\ packetsPadding \in Nat /\ updates \in Nat
       /\ packetsPadding' \in Nat /\ packetsPadding' <= packetsPadding + 1
  BY <1>1, <1>7, PaddedFacts, StreamFacts
<1>13. \A id \in 1 .. MaxSnapshots : snapshots[id] # NoSnapshot =>
         /\ id < nextSnapshotId /\ snapshots[id] \in Int
         /\ S <= snapshots[id] /\ snapshots[id] <= N + 1
  BY <1>1, StreamFacts
<1>. HIDE DEF N, S
<1>14. packetsLost' = packetsLost + (d - 1) /\ packetsLost + (d - 1) \in 0 .. U32 - 1
  <2>. DEFINE x == packetsLost + d - 1
  <2>1. x \in Int /\ 0 <= x /\ x < U32 /\ -U32 < x
    BY <1>2, <1>3, <1>4, <1>6, <1>12
  <2>2. x % U32 = x
    BY <1>2, <2>1, ModNear
  <2>3. x = packetsLost + (d - 1)
    BY <1>3, <1>4, <1>12
  <2>. HIDE DEF x
  <2>4. packetsLost' = x % U32
    BY <1>7 DEF x
  <2>. QED
    BY <1>2, <2>1, <2>2, <2>3, <2>4
<1>15. TypeOK'
  <2>1. updates' \in 0 .. MaxPackets
    <3>1. updates < MaxPackets /\ updates' = updates + 1 /\ MaxPackets \in Nat
      BY ConstantFacts DEF Noted
    <3>. QED
      BY <1>12, <3>1
  <2>2. packetsLost' \in 0 .. U32 - 1
    BY <1>14
  <2>3. counted' \subseteq MinIdx .. MaxIdx
    BY <1>1, <1>4, <1>7 DEF TypeOK
  <2>4. extStartSN' \in 0 .. U32 - 1
    BY <1>1, <1>7 DEF TypeOK, S
  <2>. QED
    BY <1>1, <1>7, <1>8, <1>9, <1>12, <2>1, <2>2, <2>3, <2>4 DEF TypeOK
<1>16. SpanFits'
  <2>1. \A j \in counted \cup {e} : S <= j /\ j <= e
    BY <1>3, <1>4, <1>5, <1>10
  <2>. QED
    BY <1>7, <1>8, <1>10, <2>1 DEF SpanFits
<1>17. RingFits'
  <2>1. SUFFICES ASSUME NEW k \in 0 .. SnInfoSize - 1
                 PROVE  snInfos'[slotBack(k)'] = "lost" <=> e - k \notin counted \cup {e}
    BY <1>7, <1>8 DEF RingFits
  <2>2. CASE k = 0
    BY <1>4, <1>9, <2>2
  <2>3. CASE k # 0 /\ k < d
    <3>1. e - k > N /\ e - k # e /\ e - k \in Int
      BY <1>3, <1>4, <2>3
    <3>2. e - k \notin counted \cup {e}
      BY <1>3, <1>10, <3>1
    <3>. QED
      BY <1>9, <2>3, <3>2
  <2>4. CASE k # 0 /\ ~(k < d)
    <3>1. k - d \in 0 .. SnInfoSize - 1 /\ N - (k - d) = e - k /\ e - k # e
      BY <1>2, <1>3, <1>4, <1>6, <2>4
    <3>2. snInfos'[slotBack(k)'] = snInfos[slotBack(k - d)]
      BY <1>9, <2>4
    <3>. QED
      BY <1>11, <3>1, <3>2
  <2>. QED
    BY <2>2, <2>3, <2>4
<1>18. CountsFit'
  <2>1. Cardinality((S .. e) \ (counted \cup {e})) = Cardinality((S .. N) \ counted) + (e - N - 1)
    <3>1. UpTo(counted, N)
      BY <1>3, <1>10 DEF UpTo
    <3>. QED
      BY <1>3, <1>4, <1>5, <3>1, MissingAfter
  <2>2. Missing' = (S .. e) \ (counted \cup {e}) /\ Expected' = e - S + 1
    BY <1>7, <1>8 DEF Missing, Expected
  <2>3. packetsLost' = Cardinality(Missing')
    BY <1>3, <1>4, <1>12, <1>14, <2>1, <2>2
  <2>4. /\ updates + 1 = ((e - S + 1) - packetsLost') + packetsDuplicate
        /\ packetsPadding' <= (e - S + 1) - packetsLost'
    BY <1>3, <1>4, <1>12, <1>14
  <2>. QED
    BY <1>7, <2>2, <2>3, <2>4 DEF CountsFit
<1>19. SnapshotsFit'
  <2>1. \A id \in 1 .. MaxSnapshots : snapshots[id] # NoSnapshot => snapshots[id] <= e + 1
    BY <1>3, <1>4, <1>5, <1>13
  <2>. QED
    BY <1>7, <1>8, <1>13, <2>1 DEF SnapshotsFit
<1>20. ReportedLossIsTrue'
  BY <1>7 DEF ReportedLossIsTrue
<1>. QED
  BY <1>15, <1>16, <1>17, <1>18, <1>19, <1>20 DEF IInv

\* A packet that is not newer than the newest is noted in its slot, if it has one.
LEMMA SetRing ==
    ASSUME TypeOK, SpanFits, initialized, NEW e \in Indices, e <= getExtHighestSN,
           NEW info \in SnInfo, snInfos' = setSnInfo(e % SNMod, info),
           snInfoWritePtr' = snInfoWritePtr
    PROVE  /\ snInfos' \in [0 .. SnInfoSize - 1 -> SnInfo]
           /\ \A k \in 0 .. SnInfoSize - 1 :
                snInfos'[slotBack(k)'] = IF k = getExtHighestSN - e THEN info
                                         ELSE snInfos[slotBack(k)]
<1>. DEFINE N == getExtHighestSN
            b == N - e
<1>1. SnInfoSize \in Nat \ {0} /\ snInfos \in [0 .. SnInfoSize - 1 -> SnInfo]
      /\ snInfoWritePtr \in Int
  BY ConstantFacts DEF TypeOK
<1>2. b \in Int /\ 0 <= b
  BY SpanFacts, NumberFacts
<1>3. getSnInfoOutOfOrderPtr(e % SNMod) = IF b >= SnInfoSize THEN -1 ELSE slotBack(b)
  BY CaseFacts
<1>4. \A k \in Int : slotBack(k)' = slotBack(k)
  BY DEF slotBack
<1>. HIDE DEF N, b
<1>5. \A k \in Int : slotBack(k) \in 0 .. SnInfoSize - 1
  <2>1. \A k \in Int : snInfoWritePtr - k - 1 \in Int
    BY <1>1
  <2>. QED
    BY <2>1, SlotsDiffer DEF slotBack
<1>6. \A j, k \in 0 .. SnInfoSize - 1 : j # k => slotBack(j) # slotBack(k)
  <2>1. SUFFICES ASSUME NEW j \in 0 .. SnInfoSize - 1, NEW k \in 0 .. SnInfoSize - 1, j # k
                 PROVE  slotBack(j) # slotBack(k)
    OBVIOUS
  <2>. DEFINE x == snInfoWritePtr - j - 1
              y == snInfoWritePtr - k - 1
  <2>2. x \in Int /\ y \in Int /\ x # y /\ x - y < SnInfoSize /\ y - x < SnInfoSize
    BY <1>1, <2>1
  <2>. HIDE DEF x, y
  <2>3. Mask(x) # Mask(y)
    BY <2>2, SlotsDiffer
  <2>. QED
    BY <2>3 DEF slotBack, x, y
<1>7. CASE b >= SnInfoSize
  <2>1. snInfos' = snInfos
    <3>1. getSnInfoOutOfOrderPtr(e % SNMod) < 0
      BY <1>3, <1>7
    <3>. QED
      BY <3>1 DEF setSnInfo
  <2>2. \A k \in 0 .. SnInfoSize - 1 : k # b /\ k \in Int
    BY <1>1, <1>2, <1>7
  <2>. QED
    BY <1>1, <1>4, <2>1, <2>2 DEF b, N
<1>8. CASE ~(b >= SnInfoSize)
  <2>1. b \in 0 .. SnInfoSize - 1 /\ slotBack(b) \in 0 .. SnInfoSize - 1
    BY <1>1, <1>2, <1>5, <1>8
  <2>2. ~(getSnInfoOutOfOrderPtr(e % SNMod) < 0)
    BY <1>1, <1>3, <1>8, <2>1
  <2>3. snInfos' = [snInfos EXCEPT ![slotBack(b)] = info]
    BY <1>3, <1>8, <2>2 DEF setSnInfo
  <2>4. snInfos' \in [0 .. SnInfoSize - 1 -> SnInfo]
    BY <1>1, <2>1, <2>3
  <2>5. \A k \in 0 .. SnInfoSize - 1 :
          snInfos'[slotBack(k)'] = IF k = b THEN info ELSE snInfos[slotBack(k)]
    <3>1. SUFFICES ASSUME NEW k \in 0 .. SnInfoSize - 1
                   PROVE  snInfos'[slotBack(k)'] = IF k = b THEN info ELSE snInfos[slotBack(k)]
      OBVIOUS
    <3>2. slotBack(k)' = slotBack(k) /\ slotBack(k) \in 0 .. SnInfoSize - 1
      BY <1>1, <1>4, <1>5
    <3>3. k # b => slotBack(k) # slotBack(b)
      BY <1>6, <2>1
    <3>. QED
      BY <1>1, <2>1, <2>3, <3>2, <3>3
  <2>. QED
    BY <2>4, <2>5 DEF b, N
<1>. QED
  BY <1>7, <1>8

\* A packet from before the start moves the start.
LEMMA AdjustStep ==
    ASSUME IInv, NEW e \in Indices, NEW info \in SnInfo \ {"lost"},
           Noted(e), maybeAdjustStartSN(e % SNMod, info)
    PROVE  IInv'
<1>. DEFINE N == getExtHighestSN
            S == extStartSN
            g == S - e
<1>1. TypeOK /\ SpanFits /\ initialized
  BY DEF IInv, maybeAdjustStartSN
<1>2. /\ SNMod \in Nat \ {0} /\ U32 \in Nat \ {0} /\ MaxIdx < U32 - 1
      /\ MinIdx \in Nat /\ MaxIdx \in Nat /\ SnInfoSize \in Nat \ {0} /\ Half \in Nat
      /\ SnInfoSize < Half
  BY ConstantFacts
<1>3. /\ N \in Int /\ N <= MaxIdx /\ S \in Int /\ 0 <= S /\ S <= N /\ S < SNMod
      /\ \A j \in counted : j \in Int
  BY <1>1, SpanFacts
<1>4. /\ e \in MinIdx .. MaxIdx /\ e \in Int /\ 0 <= e /\ e <= MaxIdx
  BY <1>1, NumberFacts
<1>5. e <= N /\ e < S /\ e % SNMod = e /\ (S - e) % SNMod = g /\ Counts(e)
  <2>1. OutOfOrder(e % SNMod) /\ beforeStart(e % SNMod)
    BY DEF maybeAdjustStartSN
  <2>2. e <= N
    BY <1>1, <2>1, CaseFacts
  <2>3. e < S
    BY <1>1, <2>1, <2>2, CaseFacts
  <2>. QED
    BY <1>1, <2>2, <2>3, CaseFacts
<1>6. g \in Nat \ {0}
  BY <1>3, <1>4, <1>5
<1>7. /\ initialized' = TRUE /\ extStartSN' = e
      /\ counted' = counted \cup {e} /\ updates' = updates + 1 /\ report' = NoReport
      /\ packetsLost' = (packetsLost + g - 1) % U32
      /\ packetsPadding' = Padded(info)
      /\ snapshots' = [id \in 1 .. MaxSnapshots |->
                         IF snapshots[id] = S THEN e ELSE snapshots[id]]
      /\ snInfos' = setSnInfo(e % SNMod, info)
      /\ UNCHANGED <<ended, nextSnapshotId, packetsDuplicate, highestSN, cycles, snInfoWritePtr>>
  <2>1. DOMAIN snapshots = 1 .. MaxSnapshots
    BY <1>1 DEF TypeOK
  <2>. QED
    BY <1>1, <1>5, <2>1 DEF Noted, maybeAdjustStartSN, moved
<1>8. getExtHighestSN' = N
  BY <1>7 DEF getExtHighestSN
<1>9. /\ snInfos' \in [0 .. SnInfoSize - 1 -> SnInfo]
      /\ \A k \in 0 .. SnInfoSize - 1 :
           snInfos'[slotBack(k)'] = IF k = N - e THEN info ELSE snInfos[slotBack(k)]
  BY <1>1, <1>5, <1>7, SetRing
<1>10. N \in counted /\ S \in counted /\ S \in SN /\ \A j \in counted : S <= j /\ j <= N
  BY <1>1, StreamFacts
<1>11. \A k \in 0 .. SnInfoSize - 1 : snInfos[slotBack(k)] = "lost" <=> N - k \notin counted
  BY <1>1, StreamFacts
<1>12. /\ packetsLost = Cardinality((S .. N) \ counted) /\ packetsLost \in 0 .. N - S + 1
       /\ updates = ((N - S + 1) - packetsLost) + packetsDuplicate
       /\ packetsPadding <= (N - S + 1) - packetsLost
       /\ packetsDuplicate \in Nat /\ packetsPadding \in Nat /\ updates \in Nat
       /\ packetsPadding' \in Nat /\ packetsPadding' <= packetsPadding + 1
  BY <1>1, <1>7, PaddedFacts, StreamFacts
<1>13. \A id \in 1 .. MaxSnapshots : snapshots[id] # NoSnapshot =>
         /\ id < nextSnapshotId /\ snapshots[id] \in Int
         /\ S <= snapshots[id] /\ snapshots[id] <= N + 1
  BY <1>1, StreamFacts
<1>. HIDE DEF N, S
<1>14. packetsLost' = packetsLost + (g - 1) /\ packetsLost + (g - 1) \in 0 .. U32 - 1
  <2>. DEFINE x == packetsLost + g - 1
  <2>1. x \in Int /\ 0 <= x /\ x < U32 /\ -U32 < x
    BY <1>2, <1>3, <1>4, <1>6, <1>12
  <2>2. x % U32 = x
    BY <1>2, <2>1, ModNear
  <2>3. x = packetsLost + (g - 1)
    BY <1>3, <1>4, <1>12
  <2>. HIDE DEF x
  <2>4. packetsLost' = x % U32
    BY <1>7 DEF x
  <2>. QED
    BY <1>2, <2>1, <2>2, <2>3, <2>4
<1>15. TypeOK'
  <2>1. updates' \in 0 .. MaxPackets
    <3>1. updates < MaxPackets /\ updates' = updates + 1 /\ MaxPackets \in Nat
      BY ConstantFacts DEF Noted
    <3>. QED
      BY <1>12, <3>1
  <2>2. packetsLost' \in 0 .. U32 - 1
    BY <1>14
  <2>3. counted' \subseteq MinIdx .. MaxIdx
    BY <1>1, <1>4, <1>7 DEF TypeOK
  <2>4. e \in 0 .. U32 - 1
    BY <1>2, <1>4
  <2>5. snapshots' \in [1 .. MaxSnapshots -> {NoSnapshot} \cup 0 .. U32 - 1]
    BY <1>1, <1>7, <2>4 DEF TypeOK
  <2>. QED
    BY <1>1, <1>7, <1>9, <1>12, <2>1, <2>2, <2>3, <2>4, <2>5 DEF TypeOK
<1>16. SpanFits'
  <2>1. (\A j \in counted \cup {e} : e <= j /\ j <= N) /\ e \in SN
    BY <1>2, <1>3, <1>4, <1>5, <1>10 DEF SN
  <2>. QED
    BY <1>7, <1>8, <1>10, <2>1 DEF SpanFits
<1>17. RingFits'
  <2>1. SUFFICES ASSUME NEW k \in 0 .. SnInfoSize - 1
                 PROVE  snInfos'[slotBack(k)'] = "lost" <=> N - k \notin counted \cup {e}
    BY <1>7, <1>8 DEF RingFits
  <2>2. k \in Int /\ (N - k = e <=> k = N - e)
    BY <1>2, <1>3, <1>4
  <2>. QED
    BY <1>9, <1>11, <2>2
<1>18. CountsFit'
  <2>1. Cardinality((e .. N) \ (counted \cup {e})) = Cardinality((S .. N) \ counted) + (S - e - 1)
    <3>1. From(counted, S)
      BY <1>3, <1>10 DEF From
    <3>. QED
      BY <1>3, <1>4, <1>5, <3>1, MissingBefore
  <2>2. Missing' = (e .. N) \ (counted \cup {e}) /\ Expected' = N - e + 1
    BY <1>7, <1>8 DEF Missing, Expected
  <2>3. packetsLost' = Cardinality(Missing')
    BY <1>3, <1>4, <1>12, <1>14, <2>1, <2>2
  <2>4. /\ updates + 1 = ((N - e + 1) - packetsLost') + packetsDuplicate
        /\ packetsPadding' <= (N - e + 1) - packetsLost'
    BY <1>3, <1>4, <1>12, <1>14
  <2>. QED
    BY <1>7, <2>2, <2>3, <2>4 DEF CountsFit
<1>19. SnapshotsFit'
  <2>1. SUFFICES ASSUME NEW id \in 1 .. MaxSnapshots, snapshots'[id] # NoSnapshot
                 PROVE  id < nextSnapshotId /\ e <= snapshots'[id] /\ snapshots'[id] <= N + 1
    BY <1>7, <1>8 DEF SnapshotsFit
  <2>2. snapshots'[id] = IF snapshots[id] = S THEN e ELSE snapshots[id]
    BY <1>7
  <2>3. snapshots[id] # NoSnapshot
    BY <1>3, <2>1, <2>2 DEF NoSnapshot
  <2>. QED
    BY <1>3, <1>4, <1>5, <1>13, <2>2, <2>3
<1>20. ReportedLossIsTrue'
  BY <1>7 DEF ReportedLossIsTrue
<1>. QED
  BY <1>15, <1>16, <1>17, <1>18, <1>19, <1>20 DEF IInv

\* A packet between the oldest and the newest, and what Update makes of it.
LEMMA BetweenFacts ==
    ASSUME IInv, initialized, NEW e \in Indices,
           OutOfOrder(e % SNMod), ~beforeStart(e % SNMod)
    PROVE  /\ e \in Int /\ extStartSN <= e /\ e <= getExtHighestSN /\ e \in MinIdx .. MaxIdx
           /\ isSnInfoLost(e % SNMod) <=> Counts(e) /\ e \notin counted
<1>. DEFINE N == getExtHighestSN
            S == extStartSN
            ptr == getSnInfoOutOfOrderPtr(e % SNMod)
<1>1. TypeOK /\ SpanFits
  BY DEF IInv
<1>2. N \in Int /\ S \in Int
  BY <1>1, SpanFacts
<1>3. e \in Int /\ e \in MinIdx .. MaxIdx
  BY <1>1, NumberFacts
<1>4. e <= N
  BY <1>1, CaseFacts
<1>5. /\ ~(e < S)
      /\ ptr = IF N - e >= SnInfoSize THEN -1 ELSE slotBack(N - e)
      /\ Counts(e) <=> e > N - SnInfoSize \/ e < S
  BY <1>1, <1>4, CaseFacts
<1>6. isSnInfoLost(e % SNMod) <=> ptr >= 0 /\ snInfos[ptr] = "lost"
  BY DEF isSnInfoLost
<1>7. \A k \in 0 .. SnInfoSize - 1 : snInfos[slotBack(k)] = "lost" <=> N - k \notin counted
  BY StreamFacts
<1>8. SnInfoSize \in Nat \ {0} /\ snInfoWritePtr \in Int
  BY <1>1, ConstantFacts DEF TypeOK
<1>. HIDE DEF N, S, ptr
<1>9. CASE N - e >= SnInfoSize
  <2>1. ~(ptr >= 0)
    BY <1>5, <1>9
  <2>2. ~Counts(e)
    BY <1>2, <1>3, <1>5, <1>8, <1>9
  <2>. QED
    BY <1>2, <1>3, <1>4, <1>5, <1>6, <2>1, <2>2 DEF N, S
<1>10. CASE ~(N - e >= SnInfoSize)
  <2>1. N - e \in 0 .. SnInfoSize - 1 /\ N - (N - e) = e
    BY <1>2, <1>3, <1>4, <1>8, <1>10
  <2>2. snInfos[slotBack(N - e)] = "lost" <=> e \notin counted
    BY <1>7, <2>1
  <2>3. ptr = slotBack(N - e) /\ slotBack(N - e) \in 0 .. SnInfoSize - 1
    <3>1. snInfoWritePtr - (N - e) - 1 \in Int
      BY <1>2, <1>3, <1>8
    <3>. QED
      BY <1>5, <1>10, <3>1, SlotsDiffer DEF slotBack
  <2>4. ptr >= 0
    BY <1>8, <2>3
  <2>5. Counts(e)
    BY <1>2, <1>3, <1>5, <1>8, <1>10
  <2>. QED
    BY <1>2, <1>3, <1>4, <1>5, <1>6, <2>2, <2>3, <2>4, <2>5 DEF N, S
<1>. QED
  BY <1>9, <1>10

\* A packet that was counted as lost comes late.
LEMMA LostStep ==
    ASSUME IInv, NEW e \in Indices, NEW info \in SnInfo \ {"lost"},
           Noted(e), UpdateLost(e % SNMod, info)
    PROVE  IInv'
<1>. DEFINE N == getExtHighestSN
            S == extStartSN
<1>1. TypeOK /\ SpanFits /\ initialized
  BY DEF IInv, UpdateLost
<1>2. U32 \in Nat \ {0} /\ SnInfoSize \in Nat \ {0} /\ MaxIdx < U32 - 1 /\ MaxIdx \in Nat
  BY ConstantFacts
<1>3. N \in Int /\ N <= MaxIdx /\ S \in Int /\ 0 <= S /\ S <= N
  BY <1>1, SpanFacts
<1>4. e \in Int /\ S <= e /\ e <= N /\ e \in MinIdx .. MaxIdx /\ Counts(e) /\ e \notin counted
  <2>1. /\ OutOfOrder(e % SNMod) /\ ~beforeStart(e % SNMod)
        /\ isSnInfoLost(e % SNMod)
    BY DEF UpdateLost
  <2>. QED
    BY <1>1, <2>1, BetweenFacts
<1>5. /\ initialized' = TRUE /\ extStartSN' = S
      /\ counted' = counted \cup {e} /\ updates' = updates + 1 /\ report' = NoReport
      /\ packetsLost' = (packetsLost - 1) % U32
      /\ packetsPadding' = Padded(info)
      /\ snInfos' = setSnInfo(e % SNMod, info)
      /\ UNCHANGED <<ended, nextSnapshotId, packetsDuplicate, highestSN, cycles, snInfoWritePtr,
                     snapshots>>
  BY <1>1, <1>4 DEF Noted, UpdateLost
<1>6. getExtHighestSN' = N
  BY <1>5 DEF getExtHighestSN
<1>7. /\ snInfos' \in [0 .. SnInfoSize - 1 -> SnInfo]
      /\ \A k \in 0 .. SnInfoSize - 1 :
           snInfos'[slotBack(k)'] = IF k = N - e THEN info ELSE snInfos[slotBack(k)]
  BY <1>1, <1>4, <1>5, SetRing
<1>8. N \in counted /\ S \in counted /\ S \in SN /\ \A j \in counted : S <= j /\ j <= N
  BY <1>1, StreamFacts
<1>9. \A k \in 0 .. SnInfoSize - 1 : snInfos[slotBack(k)] = "lost" <=> N - k \notin counted
  BY <1>1, StreamFacts
<1>10. /\ packetsLost = Cardinality((S .. N) \ counted) /\ packetsLost \in 0 .. N - S + 1
       /\ updates = ((N - S + 1) - packetsLost) + packetsDuplicate
       /\ packetsPadding <= (N - S + 1) - packetsLost
       /\ packetsDuplicate \in Nat /\ packetsPadding \in Nat /\ updates \in Nat
       /\ packetsPadding' \in Nat /\ packetsPadding' <= packetsPadding + 1
  BY <1>1, <1>5, PaddedFacts, StreamFacts
<1>11. SnapshotsFit
  BY DEF IInv
<1>. HIDE DEF N, S
<1>12. /\ packetsLost > 0
       /\ Cardinality((S .. N) \ (counted \cup {e})) = packetsLost - 1
  <2>1. e \in (S .. N) \ counted
    BY <1>3, <1>4
  <2>2. /\ Cardinality((S .. N) \ counted) > 0
        /\ Cardinality((S .. N) \ (counted \cup {e})) = Cardinality((S .. N) \ counted) - 1
    BY <1>3, <2>1, MissingFound
  <2>. QED
    BY <1>10, <2>2
<1>13. packetsLost' = packetsLost - 1 /\ packetsLost - 1 \in 0 .. U32 - 1
  <2>. DEFINE x == packetsLost - 1
  <2>1. x \in Int /\ 0 <= x /\ x < U32 /\ -U32 < x
    BY <1>2, <1>3, <1>10, <1>12
  <2>2. x % U32 = x
    BY <1>2, <2>1, ModNear
  <2>. QED
    BY <1>2, <1>5, <2>1, <2>2
<1>14. TypeOK'
  <2>1. updates' \in 0 .. MaxPackets
    <3>1. updates < MaxPackets /\ updates' = updates + 1 /\ MaxPackets \in Nat
      BY ConstantFacts DEF Noted
    <3>. QED
      BY <1>10, <3>1
  <2>2. packetsLost' \in 0 .. U32 - 1
    BY <1>13
  <2>3. counted' \subseteq MinIdx .. MaxIdx
    BY <1>1, <1>4, <1>5 DEF TypeOK
  <2>. QED
    BY <1>1, <1>5, <1>7, <1>10, <2>1, <2>2, <2>3 DEF TypeOK, S
<1>15. SpanFits'
  <2>1. \A j \in counted \cup {e} : S <= j /\ j <= N
    BY <1>4, <1>8
  <2>. QED
    BY <1>5, <1>6, <1>8, <2>1 DEF SpanFits
<1>16. RingFits'
  <2>1. SUFFICES ASSUME NEW k \in 0 .. SnInfoSize - 1
                 PROVE  snInfos'[slotBack(k)'] = "lost" <=> N - k \notin counted \cup {e}
    BY <1>5, <1>6 DEF RingFits
  <2>2. k \in Int /\ (N - k = e <=> k = N - e)
    BY <1>2, <1>3, <1>4
  <2>. QED
    BY <1>7, <1>9, <2>2
<1>17. CountsFit'
  <2>1. Missing' = (S .. N) \ (counted \cup {e}) /\ Expected' = N - S + 1
    BY <1>5, <1>6 DEF Missing, Expected
  <2>2. packetsLost' = Cardinality(Missing')
    BY <1>12, <1>13, <2>1
  <2>3. /\ updates + 1 = ((N - S + 1) - packetsLost') + packetsDuplicate
        /\ packetsPadding' <= (N - S + 1) - packetsLost'
    BY <1>3, <1>10, <1>12, <1>13
  <2>. QED
    BY <1>5, <2>1, <2>2, <2>3 DEF CountsFit
<1>18. SnapshotsFit'
  BY <1>1, <1>5, <1>6, <1>11 DEF SnapshotsFit, N, S
<1>19. ReportedLossIsTrue'
  BY <1>5 DEF ReportedLossIsTrue
<1>. QED
  BY <1>14, <1>15, <1>16, <1>17, <1>18, <1>19 DEF IInv

\* A packet that came before, or that the ring has forgotten.
LEMMA DuplicateStep ==
    ASSUME IInv, NEW e \in Indices, Noted(e), UpdateDuplicate(e % SNMod)
    PROVE  IInv'
<1>1. TypeOK /\ SpanFits /\ RingFits /\ CountsFit /\ SnapshotsFit /\ initialized
  BY DEF IInv, UpdateDuplicate
<1>2. ~Counts(e) \/ e \in counted
  <2>1. /\ OutOfOrder(e % SNMod) /\ ~beforeStart(e % SNMod)
        /\ ~isSnInfoLost(e % SNMod)
    BY DEF UpdateDuplicate
  <2>. QED
    BY <1>1, <2>1, BetweenFacts
<1>3. /\ initialized' = TRUE /\ counted' = counted /\ updates' = updates + 1
      /\ report' = NoReport /\ packetsDuplicate' = packetsDuplicate + 1
      /\ UNCHANGED <<ended, nextSnapshotId, extStartSN, highestSN, cycles, packetsLost,
                     packetsPadding, snInfos, snInfoWritePtr, snapshots>>
  BY <1>1, <1>2 DEF Noted, UpdateDuplicate
<1>4. /\ getExtHighestSN' = getExtHighestSN /\ Expected' = Expected /\ Missing' = Missing
      /\ \A k \in 0 .. SnInfoSize - 1 : slotBack(k)' = slotBack(k)
  BY <1>3 DEF getExtHighestSN, Expected, Missing, slotBack
<1>5. TypeOK'
  <2>1. updates' \in 0 .. MaxPackets /\ packetsDuplicate' \in Nat
    <3>1. updates < MaxPackets /\ updates' = updates + 1 /\ MaxPackets \in Nat
      BY ConstantFacts DEF Noted
    <3>. QED
      BY <1>1, <1>3, <3>1 DEF TypeOK
  <2>. QED
    BY <1>1, <1>3, <2>1 DEF TypeOK
<1>6. SpanFits' /\ SnapshotsFit'
  BY <1>1, <1>3, <1>4 DEF SpanFits, SnapshotsFit
<1>7. RingFits'
  BY <1>1, <1>3, <1>4 DEF RingFits
<1>8. CountsFit'
  <2>1. Expected - packetsLost \in Int /\ packetsDuplicate \in Int
    BY <1>1, SpanFacts DEF Expected, TypeOK
  <2>. QED
    BY <1>1, <1>3, <1>4, <2>1 DEF CountsFit
<1>9. ReportedLossIsTrue'
  BY <1>3 DEF ReportedLossIsTrue
<1>. QED
  BY <1>5, <1>6, <1>7, <1>8, <1>9 DEF IInv

-----------------------------------------------------------------------------
(* Reports.                                                                *)

\* A sequence number is that of one packet of the last cycle, and the ring's slot
\* for the number is that packet's.
LEMMA LastCycle ==
    ASSUME TypeOK, SpanFits, initialized
    PROVE  /\ \A sn \in SN : \E i \in Int : /\ getExtHighestSN - SNMod < i
                                            /\ i <= getExtHighestSN /\ i % SNMod = sn
           /\ \A i \in Int :
                getExtHighestSN - SNMod < i /\ i <= getExtHighestSN =>
                  getSnInfoOutOfOrderPtr(i % SNMod) =
                    IF getExtHighestSN - i >= SnInfoSize THEN -1
                    ELSE slotBack(getExtHighestSN - i)
<1>. DEFINE N == getExtHighestSN
            M == SNMod
            h == highestSN
<1>1. /\ M \in Nat \ {0} /\ Half \in Nat /\ M = Half + Half
      /\ SnInfoSize \in Nat \ {0} /\ SnInfoSize < Half
  BY ConstantFacts
<1>2. /\ N \in Int /\ N % M = h /\ N = cycles * M + h /\ cycles \in Int /\ h \in Int
  BY <1>1, SpanFacts DEF getExtHighestSN, TypeOK, SN
<1>. HIDE DEF N, M, h
<1>3. ASSUME NEW sn \in SN
      PROVE  \E i \in Int : N - M < i /\ i <= N /\ i % M = sn
  <2>. DEFINE o == (h - sn) % M
              i == N - o
  <2>1. sn \in 0 .. M - 1 /\ sn \in Int /\ h - sn \in Int
    BY <1>1, <1>2 DEF SN, M
  <2>2. o \in 0 .. M - 1
    BY <1>1, <2>1, ModRange
  <2>3. i % M = (N - (h - sn)) % M
    <3>. DEFINE d == h - sn
    <3>1. d \in Int
      BY <2>1
    <3>. HIDE DEF d
    <3>2. (N - (d % M)) % M = (N - d) % M
      BY <1>1, <1>2, <3>1, ModAdd
    <3>. QED
      BY <3>2 DEF d
  <2>4. N - (h - sn) \in Int /\ N - (h - sn) = M * cycles + sn
    BY <1>1, <1>2, <2>1
  <2>5. (N - (h - sn)) % M = sn
    BY <1>1, <1>2, <2>1, <2>4, ModUnique
  <2>6. i \in Int /\ N - M < i /\ i <= N
    BY <1>1, <1>2, <2>2
  <2>. QED
    BY <2>3, <2>5, <2>6
<1>4. ASSUME NEW i \in Int, N - M < i, i <= N
      PROVE  getSnInfoOutOfOrderPtr(i % M) = IF N - i >= SnInfoSize THEN -1 ELSE slotBack(N - i)
  <2>. DEFINE ahead == ((i % M) - h) % M
              offset == (h - (i % M)) % M
  <2>1. ahead = (i - N) % M
    BY <1>1, <1>2, <1>4, ModDifference
  <2>2. offset = (N - i) % M
    <3>1. ((N % M) - (i % M)) % M = (N - i) % M
      BY <1>1, <1>2, <1>4, ModDifference
    <3>. QED
      BY <1>2, <3>1
  <2>3. /\ i - N \in Int /\ -M < i - N /\ i - N < M
        /\ N - i \in Int /\ -M < N - i /\ N - i < M /\ N - i >= 0
    BY <1>1, <1>2, <1>4
  <2>4. offset = N - i
    BY <1>1, <2>2, <2>3, ModNear
  <2>5. ahead = IF i - N >= 0 THEN i - N ELSE i - N + M
    BY <1>1, <2>1, <2>3, ModNear
  <2>6. getSnInfoOutOfOrderPtr(i % M) =
          IF (ahead > 0 /\ ahead < Half) \/ offset >= SnInfoSize THEN -1 ELSE slotBack(offset)
    BY DEF getSnInfoOutOfOrderPtr, slotBack, M, h
  <2>. HIDE DEF ahead, offset
  <2>7. N - i < SnInfoSize => ~(ahead > 0 /\ ahead < Half)
    BY <1>1, <1>2, <1>4, <2>3, <2>5
  <2>. QED
    BY <1>1, <1>2, <2>3, <2>4, <2>6, <2>7
<1>. QED
  BY <1>3, <1>4 DEF N, M

\* The numbers of an interval of at most a cycle that ends with N are those of the
\* packets from t on.
LEMMA IntervalFacts ==
    ASSUME NEW N \in Int, NEW t \in Int, t <= N, (N + 1) - t <= SNMod,
           NEW i \in Int, N - SNMod < i, i <= N
    PROVE  i % SNMod \in interval(t % SNMod, (N + 1) % SNMod) <=> t <= i
<1>. DEFINE M == SNMod
            x == (N + 1) - t
<1>1. M \in Nat \ {0} /\ x \in Int /\ 1 <= x /\ x <= M
  BY ConstantFacts
<1>. HIDE DEF M
<1>2. i % M \in SN
  BY <1>1, ModRange DEF SN, M
<1>3. CASE t % M = (N + 1) % M
  <2>1. x = M
    <3>1. SUFFICES ASSUME x < M PROVE FALSE
      BY <1>1
    <3>2. t - (N + 1) < M /\ (N + 1) - t < M /\ N + 1 \in Int
      BY <1>1, <3>1
    <3>3. t = N + 1
      BY <1>1, <1>3, <3>2, ModInjective
    <3>. QED
      BY <3>3
  <2>2. t <= i
    BY <1>1, <2>1 DEF M
  <2>3. interval(t % M, (N + 1) % M) = SN
    BY <1>3 DEF interval
  <2>. QED
    BY <1>2, <2>2, <2>3 DEF M
<1>4. CASE t % M # (N + 1) % M
  <2>1. x # M
    <3>1. SUFFICES ASSUME x = M PROVE FALSE
      OBVIOUS
    <3>. PICK q \in Int : q = 1
      OBVIOUS
    <3>2. N + 1 = t + M * q
      BY <1>1, <3>1
    <3>3. (t + M * q) % M = t % M
      BY <1>1, ModMultiple
    <3>. QED
      BY <1>4, <3>2, <3>3
  <2>2. (((N + 1) % M) - (t % M)) % M = x
    <3>1. N + 1 \in Int /\ (N + 1) - t = x /\ -M < x /\ x < M /\ x >= 0
      BY <1>1, <2>1
    <3>2. (((N + 1) % M) - (t % M)) % M = ((N + 1) - t) % M
      BY <1>1, <3>1, ModDifference
    <3>. QED
      BY <1>1, <3>1, <3>2, ModNear
  <2>3. ((i % M) - (t % M)) % M = IF i - t >= 0 THEN i - t ELSE i - t + M
    <3>1. i - t \in Int /\ -M < i - t /\ i - t < M
      BY <1>1 DEF M
    <3>2. ((i % M) - (t % M)) % M = (i - t) % M
      BY <1>1, ModDifference
    <3>. QED
      BY <1>1, <3>1, <3>2, ModNear
  <2>4. i % M \in interval(t % M, (N + 1) % M) <=>
          ((i % M) - (t % M)) % M < (((N + 1) % M) - (t % M)) % M
    BY <1>2, <1>4 DEF interval, M
  <2>5. (IF i - t >= 0 THEN i - t ELSE i - t + M) < x <=> t <= i
    BY <1>1 DEF M
  <2>. QED
    BY <2>2, <2>3, <2>4, <2>5 DEF M
<1>. QED
  BY <1>3, <1>4

\* The packets from t on that are missing, among those the ring remembers.
MissingFrom(t) == {i \in t .. getExtHighestSN :
                     i > getExtHighestSN - SnInfoSize /\ i \notin counted}

\* getIntervalStats finds as many lost numbers as packets are missing.
LEMMA LostInInterval ==
    ASSUME IInv, initialized, NEW t \in Int, t <= getExtHighestSN,
           (getExtHighestSN + 1) - t <= SNMod
    PROVE  /\ getIntervalStats(interval(t % SNMod, (getExtHighestSN + 1) % SNMod), "lost") =
                Cardinality(MissingFrom(t))
           /\ Cardinality(MissingFrom(t)) \in 0 .. getExtHighestSN - t
<1>. DEFINE N == getExtHighestSN
            M == SNMod
            sns == interval(t % M, (N + 1) % M)
            L == {sn \in sns : /\ getSnInfoOutOfOrderPtr(sn) >= 0
                               /\ snInfos[getSnInfoOutOfOrderPtr(sn)] = "lost"}
            I == MissingFrom(t)
            f == [i \in I |-> i % M]
<1>1. TypeOK /\ SpanFits
  BY DEF IInv
<1>2. /\ M \in Nat \ {0} /\ Half \in Nat /\ M = Half + Half
      /\ SnInfoSize \in Nat \ {0} /\ SnInfoSize < Half
  BY ConstantFacts
<1>3. N \in Int /\ N \in counted
  BY <1>1, SpanFacts, StreamFacts
<1>4. \A k \in 0 .. SnInfoSize - 1 : snInfos[slotBack(k)] = "lost" <=> N - k \notin counted
  BY StreamFacts
<1>5. \A k \in Int : slotBack(k) \in 0 .. SnInfoSize - 1
  <2>1. \A k \in Int : snInfoWritePtr - k - 1 \in Int
    BY <1>1, ConstantFacts DEF TypeOK
  <2>. QED
    BY <2>1, SlotsDiffer DEF slotBack
<1>6. /\ \A sn \in SN : \E i \in Int : N - M < i /\ i <= N /\ i % M = sn
      /\ \A i \in Int : N - M < i /\ i <= N =>
           getSnInfoOutOfOrderPtr(i % M) = IF N - i >= SnInfoSize THEN -1 ELSE slotBack(N - i)
  BY <1>1, LastCycle
<1>7. \A i \in Int : N - M < i /\ i <= N => (i % M \in sns <=> t <= i)
  BY <1>3, IntervalFacts
<1>8. sns \subseteq SN
  BY DEF interval
<1>9. I = {i \in t .. N : i > N - SnInfoSize /\ i \notin counted}
  BY DEF MissingFrom
<1>10. getIntervalStats(sns, "lost") = Cardinality(L)
  BY DEF getIntervalStats
<1>. HIDE DEF N, M, sns, I
<1>11. \A i \in Int : N - M < i /\ i <= N => (i % M \in L <=> i \in I)
  <2>1. SUFFICES ASSUME NEW i \in Int, N - M < i, i <= N
                 PROVE  i % M \in L <=> i \in I
    OBVIOUS
  <2>. DEFINE ptr == getSnInfoOutOfOrderPtr(i % M)
  <2>2. ptr = IF N - i >= SnInfoSize THEN -1 ELSE slotBack(N - i)
    BY <1>6, <2>1
  <2>3. i % M \in L <=> i % M \in sns /\ ptr >= 0 /\ snInfos[ptr] = "lost"
    OBVIOUS
  <2>4. i % M \in sns <=> t <= i
    BY <1>7, <2>1
  <2>. HIDE DEF ptr, L
  <2>5. CASE N - i >= SnInfoSize
    <3>1. ~(ptr >= 0)
      BY <2>2, <2>5
    <3>2. i \notin I
      BY <1>2, <1>3, <1>9, <2>5
    <3>. QED
      BY <2>3, <3>1, <3>2
  <2>6. CASE ~(N - i >= SnInfoSize)
    <3>1. N - i \in 0 .. SnInfoSize - 1 /\ N - (N - i) = i
      BY <1>2, <1>3, <2>1, <2>6
    <3>2. ptr = slotBack(N - i) /\ ptr \in 0 .. SnInfoSize - 1
      BY <1>2, <1>3, <1>5, <2>2, <2>6
    <3>3. ptr >= 0
      BY <1>2, <3>2
    <3>4. snInfos[ptr] = "lost" <=> i \notin counted
      BY <1>4, <3>1, <3>2
    <3>5. i \in I <=> t <= i /\ i \notin counted
      BY <1>2, <1>3, <1>9, <2>1, <2>6
    <3>. QED
      BY <2>3, <2>4, <3>3, <3>4, <3>5
  <2>. QED
    BY <2>5, <2>6
<1>12. \A i \in I : i \in Int /\ N - M < i /\ i <= N
  BY <1>2, <1>3, <1>9
<1>13. L \subseteq SN
  BY <1>8
<1>. HIDE DEF L
<1>14. f \in [I -> L]
  BY <1>11, <1>12
<1>15. \A i, j \in I : f[i] = f[j] => i = j
  <2>1. SUFFICES ASSUME NEW i \in I, NEW j \in I, i % M = j % M
                 PROVE  i = j
    OBVIOUS
  <2>2. i - j < M /\ j - i < M /\ i \in Int /\ j \in Int
    BY <1>2, <1>3, <1>12
  <2>. QED
    BY <1>2, <2>1, <2>2, ModInjective
<1>16. \A sn \in L : \E i \in I : f[i] = sn
  <2>1. SUFFICES ASSUME NEW sn \in L
                 PROVE  \E i \in I : i % M = sn
    OBVIOUS
  <2>2. PICK i \in Int : N - M < i /\ i <= N /\ i % M = sn
    BY <1>6, <1>13
  <2>. QED
    BY <1>11, <2>1, <2>2
<1>. HIDE DEF f
<1>17. f \in Bijection(I, L)
  BY <1>14, <1>15, <1>16 DEF Bijection, Injection, Surjection, IsInjective
<1>18. IsFiniteSet(I) /\ Cardinality(I) \in 0 .. N - t
  <2>1. I \in SUBSET (t .. N - 1)
    BY <1>3, <1>9
  <2>2. IsFiniteSet(t .. N - 1) /\ Cardinality(t .. N - 1) = N - t
    <3>1. t <= N /\ N - 1 \in Int
      BY <1>3 DEF N
    <3>2. /\ IsFiniteSet(t .. N - 1)
          /\ Cardinality(t .. N - 1) = IF t > N - 1 THEN 0 ELSE (N - 1) - t + 1
      BY <3>1, FS_Interval
    <3>. QED
      BY <1>3, <3>1, <3>2
  <2>3. IsFiniteSet(I) /\ Cardinality(I) <= N - t
    BY <2>1, <2>2, FS_Subset
  <2>4. Cardinality(I) \in Nat
    BY <2>3, FS_CardinalityType
  <2>. QED
    BY <1>3, <2>3, <2>4
<1>19. Cardinality(L) = Cardinality(I)
  <2>1. ExistsBijection(I, L)
    BY <1>17 DEF ExistsBijection
  <2>. QED
    BY <1>18, <2>1, FS_Bijection
<1>. QED
  BY <1>10, <1>18, <1>19 DEF N, M, sns, I

\* A report, and the snapshot that it sets.
LEMMA ReportStep ==
    ASSUME IInv, NEW id \in 1 .. MaxSnapshots, Report(id)
    PROVE  IInv' /\ snapshots' = [snapshots EXCEPT ![id] = getExtHighestSN + 1]
<1>. DEFINE N == getExtHighestSN
            S == extStartSN
            t == then(id)
            x == (N + 1) - t
            lost == getIntervalStats(interval(t % SNMod, (N + 1) % SNMod), "lost")
            padding == getIntervalStats(interval(t % SNMod, (N + 1) % SNMod), "padding")
            r == [expected |-> x, start |-> t, lost |-> lost, padding |-> padding]
<1>1. TypeOK /\ SpanFits /\ RingFits /\ CountsFit /\ SnapshotsFit /\ initialized
  BY DEF IInv, Report
<1>2. /\ SNMod \in Nat \ {0} /\ U32 \in Nat \ {0} /\ MaxIdx < U32 - 1 /\ MaxIdx \in Nat
  BY ConstantFacts
<1>3. N \in Int /\ N <= MaxIdx /\ S \in Int /\ 0 <= S /\ S <= N /\ Newest = N
  BY <1>1, SpanFacts
<1>4. t \in Int /\ S <= t /\ t <= N + 1
  <2>1. snapshots[id] # NoSnapshot =>
          snapshots[id] \in Int /\ S <= snapshots[id] /\ snapshots[id] <= N + 1
    BY <1>1, StreamFacts
  <2>2. S <= N + 1 /\ S <= S
    BY <1>3
  <2>. QED
    BY <1>3, <2>1, <2>2 DEF then
<1>5. t <= N /\ x <= SNMod =>
        lost = Cardinality(MissingFrom(t)) /\ Cardinality(MissingFrom(t)) \in 0 .. N - t
  BY <1>1, <1>4, LostInInterval
<1>6. MissingFrom(t) = {i \in t .. Newest : i > Newest - SnInfoSize /\ i \notin counted}
  BY <1>3 DEF MissingFrom
<1>7. /\ snapshots' = [snapshots EXCEPT ![id] = N + 1] /\ id < nextSnapshotId
      /\ report' = IF x > SNMod \/ x = 0 THEN NoReport ELSE r
      /\ UNCHANGED <<initialized, ended, extStartSN, highestSN, cycles, packetsLost,
                     packetsDuplicate, packetsPadding, snInfos, snInfoWritePtr,
                     nextSnapshotId, counted, updates>>
  <2>1. (N + 1) % U32 = N + 1
    <3>1. N + 1 \in Int /\ -U32 < N + 1 /\ N + 1 < U32 /\ N + 1 >= 0
      BY <1>2, <1>3
    <3>. QED
      BY <1>2, <3>1, ModNear
  <2>2. ((N + 1) - t) % U32 = x
    <3>1. x \in Int /\ -U32 < x /\ x < U32 /\ x >= 0
      BY <1>2, <1>3, <1>4
    <3>. QED
      BY <1>2, <3>1, ModNear
  <2>. HIDE DEF N, t, x
  <2>3. report' = IF x > SNMod \/ x = 0 THEN NoReport ELSE r
    <3>. DEFINE now == (N + 1) % U32
                R(y, z) == IF y > SNMod \/ y = 0 THEN NoReport
                           ELSE [expected |-> y, start |-> t,
                                 lost |-> getIntervalStats(interval(t % SNMod, z % SNMod), "lost"),
                                 padding |-> getIntervalStats(interval(t % SNMod, z % SNMod),
                                                              "padding")]
    <3>1. report' = R((now - t) % U32, now)
      BY DEF Report, N, t
    <3>2. now = N + 1
      BY <2>1
    <3>. HIDE DEF now, R
    <3>3. report' = R(x, N + 1)
      BY <2>2, <3>1, <3>2
    <3>. QED
      BY <3>3 DEF R
  <2>4. snapshots' = [snapshots EXCEPT ![id] = N + 1] /\ id < nextSnapshotId
    BY <2>1 DEF Report, N
  <2>. QED
    BY <2>3, <2>4 DEF Report
<1>8. /\ getExtHighestSN' = N /\ Expected' = Expected /\ Missing' = Missing
      /\ (\A k \in 0 .. SnInfoSize - 1 : slotBack(k)' = slotBack(k)) /\ Newest' = Newest
  BY <1>7 DEF getExtHighestSN, Expected, Missing, slotBack, Newest
<1>9. ReportedLossIsTrue'
  <2>. HIDE DEF N, t, x, lost, padding
  <2>1. SUFFICES ASSUME report' # NoReport
                 PROVE  /\ report'.lost = Cardinality({i \in report'.start .. Newest :
                                           i > Newest - SnInfoSize /\ i \notin counted})
                        /\ report'.lost < report'.expected
    BY <1>7, <1>8 DEF ReportedLossIsTrue
  <2>2. report' = r /\ ~(x > SNMod) /\ x # 0
    BY <1>7, <2>1
  <2>3. r.lost = lost /\ r.start = t /\ r.expected = x
    OBVIOUS
  <2>. HIDE DEF r
  <2>4. t <= N /\ x <= SNMod /\ x \in Int /\ x = N - t + 1
    BY <1>2, <1>3, <1>4, <2>2 DEF x
  <2>5. lost = Cardinality(MissingFrom(t)) /\ lost \in 0 .. N - t
    BY <1>5, <2>4
  <2>6. lost < x
    BY <1>3, <1>4, <2>4, <2>5
  <2>. QED
    BY <1>6, <2>2, <2>3, <2>5, <2>6
<1>10. TypeOK'
  <2>1. N + 1 \in 0 .. U32 - 1
    BY <1>2, <1>3
  <2>2. snapshots' \in [1 .. MaxSnapshots -> {NoSnapshot} \cup 0 .. U32 - 1]
    BY <1>1, <1>7, <2>1 DEF TypeOK
  <2>. HIDE DEF r
  <2>. QED
    BY <1>1, <1>7, <2>2 DEF TypeOK
<1>. HIDE DEF r, t, x
<1>11. SpanFits' /\ RingFits' /\ CountsFit'
  BY <1>1, <1>7, <1>8 DEF SpanFits, RingFits, CountsFit
<1>12. SnapshotsFit'
  <2>1. \A k \in 1 .. MaxSnapshots : snapshots'[k] = IF k = id THEN N + 1 ELSE snapshots[k]
    BY <1>1, <1>7 DEF TypeOK
  <2>2. S <= N + 1 /\ N + 1 <= N + 1
    BY <1>3
  <2>. QED
    BY <1>1, <1>7, <1>8, <2>1, <2>2 DEF SnapshotsFit
<1>. QED
  BY <1>7, <1>9, <1>10, <1>11, <1>12 DEF IInv

\* A new snapshot starts with the stream.
LEMMA NewSnapshotStep ==
    ASSUME IInv, NewSnapshotId
    PROVE  IInv'
<1>1. TypeOK /\ SpanFits /\ RingFits /\ CountsFit /\ SnapshotsFit
  BY DEF IInv
<1>2. /\ nextSnapshotId <= MaxSnapshots /\ nextSnapshotId' = nextSnapshotId + 1
      /\ report' = NoReport
      /\ UNCHANGED <<initialized, ended, extStartSN, highestSN, cycles, packetsLost,
                     packetsDuplicate, packetsPadding, snInfos, snInfoWritePtr, counted, updates>>
      /\ snapshots' = IF initialized THEN [snapshots EXCEPT ![nextSnapshotId] = extStartSN]
                                     ELSE snapshots
  BY DEF NewSnapshotId
<1>3. nextSnapshotId \in 1 .. MaxSnapshots /\ nextSnapshotId' \in 1 .. MaxSnapshots + 1
      /\ nextSnapshotId \in Int
  BY <1>1, <1>2, ConstantFacts DEF TypeOK
<1>4. /\ getExtHighestSN' = getExtHighestSN /\ Expected' = Expected /\ Missing' = Missing
      /\ \A k \in 0 .. SnInfoSize - 1 : slotBack(k)' = slotBack(k)
  BY <1>2 DEF getExtHighestSN, Expected, Missing, slotBack
<1>5. TypeOK'
  <2>1. snapshots' \in [1 .. MaxSnapshots -> {NoSnapshot} \cup 0 .. U32 - 1]
    BY <1>1, <1>2, <1>3 DEF TypeOK
  <2>. QED
    BY <1>1, <1>2, <1>3, <2>1 DEF TypeOK
<1>6. SpanFits' /\ RingFits' /\ CountsFit'
  BY <1>1, <1>2, <1>4 DEF SpanFits, RingFits, CountsFit
<1>7. SnapshotsFit'
  <2>1. \A k \in 1 .. MaxSnapshots : k < nextSnapshotId => k < nextSnapshotId'
    BY <1>2, <1>3
  <2>2. nextSnapshotId < nextSnapshotId'
    BY <1>2, <1>3
  <2>3. CASE initialized
    <3>1. \A k \in 1 .. MaxSnapshots :
            snapshots'[k] = IF k = nextSnapshotId THEN extStartSN ELSE snapshots[k]
      BY <1>1, <1>2, <2>3 DEF TypeOK
    <3>2. extStartSN <= extStartSN /\ extStartSN <= getExtHighestSN + 1
      BY <1>1, <2>3, SpanFacts
    <3>. QED
      BY <1>1, <1>2, <1>4, <2>1, <2>2, <2>3, <3>1, <3>2 DEF SnapshotsFit
  <2>4. CASE ~initialized
    BY <1>1, <1>2, <2>4 DEF SnapshotsFit
  <2>. QED
    BY <2>3, <2>4
<1>8. ReportedLossIsTrue'
  BY <1>2 DEF ReportedLossIsTrue
<1>. QED
  BY <1>5, <1>6, <1>7, <1>8 DEF IInv

-----------------------------------------------------------------------------
(* The theorems.                                                           *)

LEMMA InitFits == NewRTPStats => IInv
<1>. SUFFICES ASSUME NewRTPStats PROVE IInv
  OBVIOUS
<1>1. TypeOK
  <2>1. 0 \in 0 .. U32 - 1 /\ 0 \in SN /\ 0 \in 0 .. SnInfoSize - 1 /\ 0 \in 0 .. MaxPackets
        /\ 1 \in 1 .. MaxSnapshots + 1
    BY ConstantFacts DEF SN
  <2>. QED
    BY <2>1 DEF NewRTPStats, TypeOK, SnInfo
<1>2. SpanFits /\ RingFits /\ CountsFit /\ SnapshotsFit /\ ReportedLossIsTrue
  BY DEF NewRTPStats, SpanFits, RingFits, CountsFit, SnapshotsFit, ReportedLossIsTrue
<1>. QED
  BY <1>1, <1>2 DEF IInv

\* Stopping, and doing nothing.
LEMMA KeepStep ==
    ASSUME IInv, report' \in {report, NoReport}, ended' \in BOOLEAN,
           UNCHANGED <<initialized, extStartSN, highestSN, cycles, packetsLost,
                       packetsDuplicate, packetsPadding, snInfos, snInfoWritePtr,
                       nextSnapshotId, snapshots, counted, updates>>
    PROVE  IInv'
<1>1. TypeOK'
  BY DEF IInv, TypeOK
<1>2. /\ getExtHighestSN' = getExtHighestSN /\ Expected' = Expected /\ Missing' = Missing
      /\ (\A k \in 0 .. SnInfoSize - 1 : slotBack(k)' = slotBack(k)) /\ Newest' = Newest
  BY DEF getExtHighestSN, Expected, Missing, slotBack, Newest
<1>3. SpanFits' /\ RingFits' /\ CountsFit' /\ SnapshotsFit'
  BY <1>2 DEF IInv, SpanFits, RingFits, CountsFit, SnapshotsFit
<1>4. ReportedLossIsTrue'
  <2>1. CASE report' = report
    BY <1>2, <2>1 DEF IInv, ReportedLossIsTrue
  <2>2. CASE report' = NoReport
    BY <2>2 DEF ReportedLossIsTrue
  <2>. QED
    BY <2>1, <2>2
<1>. QED
  BY <1>1, <1>3, <1>4 DEF IInv

LEMMA NextFits == IInv /\ [Next]_vars => IInv'
<1>. SUFFICES ASSUME IInv, [Next]_vars PROVE IInv'
  OBVIOUS
<1>1. CASE Stop
  BY <1>1, KeepStep DEF Stop
<1>2. CASE NewSnapshotId
  BY <1>2, NewSnapshotStep
<1>3. ASSUME NEW e \in Indices, NEW info \in SnInfo \ {"lost"}, Update(e, info)
      PROVE  IInv'
  <2>1. Noted(e)
    BY <1>3 DEF Update, Noted
  <2>. QED
    BY <1>3, <2>1, FirstStep, InOrderStep, AdjustStep, LostStep, DuplicateStep DEF Update
<1>4. ASSUME NEW id \in 1 .. MaxSnapshots, Report(id) PROVE IInv'
  BY <1>4, ReportStep
<1>5. CASE UNCHANGED vars
  <2>1. ended \in BOOLEAN
    BY DEF IInv, TypeOK
  <2>. QED
    BY <1>5, <2>1, KeepStep DEF vars
<1>. QED
  BY <1>1, <1>2, <1>3, <1>4, <1>5 DEF Next

LEMMA Invariance == Spec => []IInv
<1>1. NewRTPStats => IInv
  BY InitFits
<1>2. IInv /\ [Next]_vars => IInv'
  BY NextFits
<1>. QED
  BY <1>1, <1>2, PTL DEF Spec

\* The fields of RTPStats keep their width (rtpstats.go 103-171).
THEOREM TypeCorrect == Spec => []TypeOK
<1>1. IInv => TypeOK
  BY DEF IInv
<1>. QED
  BY <1>1, Invariance, PTL

\* Update works the extended numbers of the oldest and the newest packet out,
\* whatever the order in which the packets come.
THEOREM SpanStaysTrue == Spec => []SpanIsTrue
<1>1. IInv => SpanIsTrue
  BY SpanFacts DEF IInv, SpanIsTrue
<1>. QED
  BY <1>1, Invariance, PTL

\* packetsLost is the number of packets that are missing.
THEOREM LossIsExact == Spec => []LostIsMissing
<1>1. IInv => LostIsMissing
  <2>. SUFFICES ASSUME IInv, initialized
                PROVE  packetsLost = Cardinality((Oldest .. Newest) \ counted)
    BY DEF LostIsMissing
  <2>1. Newest = getExtHighestSN /\ Oldest = extStartSN
    BY SpanFacts DEF IInv
  <2>. QED
    BY <2>1, StreamFacts
<1>. QED
  BY <1>1, Invariance, PTL

\* GetRtcpSenderReport counts every packet that Update was given once.
THEOREM CountIsExact == Spec => []SenderCountExact
<1>1. IInv => SenderCountExact
  <2>. SUFFICES ASSUME IInv, initialized PROVE PacketCount = updates
    BY DEF SenderCountExact
  <2>. DEFINE x == packetsExpected
  <2>1. x = getExtHighestSN - extStartSN + 1 /\ x \in Int
    BY SpanFacts DEF IInv, Expected
  <2>2. /\ packetsLost \in Int /\ packetsLost <= x
        /\ updates = (x - packetsLost) + packetsDuplicate
        /\ packetsPadding <= x - packetsLost
        /\ packetsDuplicate \in Nat /\ packetsPadding \in Nat
    BY <2>1, StreamFacts
  <2>. HIDE DEF x
  <2>3. getTotalPacketsPrimary = (x - packetsLost) - packetsPadding
    BY <2>1, <2>2 DEF getTotalPacketsPrimary, x
  <2>. QED
    BY <2>1, <2>2, <2>3 DEF PacketCount
<1>. QED
  BY <1>1, Invariance, PTL

\* A reception report's loss is the loss of its interval, and less than all.
THEOREM ReportsAreTrue == Spec => []ReportedLossIsTrue
<1>1. IInv => ReportedLossIsTrue
  BY DEF IInv
<1>. QED
  BY <1>1, Invariance, PTL

\* A snapshot that a report has set never goes back, so that no packet is in two
\* reports of it.
THEOREM SnapshotsAdvance == Spec => SnapshotsOnlyAdvance
<1>. DEFINE A == \A id \in 1 .. MaxSnapshots :
                   snapshots[id] > extStartSN => snapshots'[id] >= snapshots[id]
<1>1. ASSUME IInv, [Next]_vars PROVE [A]_vars
  <2>. SUFFICES ASSUME Next, NEW id \in 1 .. MaxSnapshots, snapshots[id] > extStartSN
                PROVE  snapshots'[id] >= snapshots[id]
    BY <1>1
  <2>1. /\ extStartSN \in Int /\ 0 <= extStartSN
        /\ snapshots \in [1 .. MaxSnapshots -> {NoSnapshot} \cup 0 .. U32 - 1]
    BY <1>1, ConstantFacts DEF IInv, TypeOK
  <2>2. snapshots[id] \in Int /\ snapshots[id] # NoSnapshot
    BY <2>1, ConstantFacts DEF NoSnapshot
  <2>3. initialized /\ id < nextSnapshotId /\ snapshots[id] <= getExtHighestSN + 1
    BY <1>1, <2>2 DEF IInv, SnapshotsFit
  <2>4. snapshots'[id] = snapshots[id] \/ snapshots'[id] = getExtHighestSN + 1
    <3>1. CASE Stop
      BY <3>1 DEF Stop
    <3>2. CASE NewSnapshotId
      <4>1. id # nextSnapshotId
        BY <1>1, <2>3, ConstantFacts DEF IInv, TypeOK
      <4>. QED
        BY <2>1, <3>2, <4>1 DEF NewSnapshotId
    <3>3. ASSUME NEW e \in Indices, NEW info \in SnInfo \ {"lost"}, Update(e, info)
          PROVE  snapshots'[id] = snapshots[id]
      <4>1. ~UpdateFirst(e % SNMod, info)
        BY <2>3 DEF UpdateFirst
      <4>2. maybeAdjustStartSN(e % SNMod, info) => snapshots'[id] = snapshots[id]
        <5>1. snapshots[id] # extStartSN
          BY <2>1, <2>2
        <5>. QED
          BY <2>1, <5>1 DEF maybeAdjustStartSN, moved
      <4>. QED
        BY <3>3, <4>1, <4>2 DEF Update, UpdateInOrder, UpdateLost, UpdateDuplicate
    <3>4. ASSUME NEW k \in 1 .. MaxSnapshots, Report(k)
          PROVE  snapshots'[id] = snapshots[id] \/ snapshots'[id] = getExtHighestSN + 1
      <4>1. snapshots' = [snapshots EXCEPT ![k] = getExtHighestSN + 1]
        BY <1>1, <3>4, ReportStep
      <4>. QED
        BY <2>1, <4>1
    <3>. QED
      BY <3>1, <3>2, <3>3, <3>4 DEF Next
  <2>. QED
    BY <2>2, <2>3, <2>4
<1>. QED
  BY <1>1, Invariance, PTL DEF Spec, SnapshotsOnlyAdvance
=============================================================================
