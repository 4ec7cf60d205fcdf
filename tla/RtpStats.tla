------------------------------ MODULE RtpStats ------------------------------
(***************************************************************************)
(* The statistics of one RTP stream (pkg/buffer/rtpstats.go): which of the *)
(* stream's packets came, which are missing and which came twice, worked   *)
(* out from 16-bit sequence numbers and a ring of the last SnInfoSize of   *)
(* them.                                                                   *)
(*                                                                         *)
(* A packet is known to the environment by its index in the stream, of     *)
(* which the code sees only the remainder.  Bytes, times, jitter and the   *)
(* gap histogram follow the same cases and are left out; so are the parts  *)
(* of a snapshot only a receiver-report driven stream uses (such a stream  *)
(* takes no report in this program).                                       *)
(*                                                                         *)
(* Update and the reports hold RTPStats.lock; a report releases it once    *)
(* between its two halves, but its only caller is a Buffer, which holds    *)
(* its own lock across the call and across every Update, so a report is    *)
(* one action.                                                             *)
(***************************************************************************)
EXTENDS Integers, FiniteSets

CONSTANTS SNMod,        \* 2^16
          SnInfoSize,   \* length of the ring snInfos
          FirstIdxs,    \* indices a stream may start with, in its first cycle
          MinIdx,       \* the earliest packet that may come late
          MaxIdx,       \* bound on the length of a stream
          MaxPackets,   \* bound on the number of updates
          MaxSnapshots  \* bound on the snapshots asked for

Half == SNMod \div 2
U32 == SNMod * SNMod
SN == 0 .. SNMod - 1

\* A stream ends before its 32-bit numbers wrap, and has no packet before the
\* cycle it starts in (README.md, section 6).
ASSUME RtpStatsConstants ==
    /\ SNMod \in Nat /\ SNMod % 2 = 0 /\ SNMod > 1
    /\ SnInfoSize \in 1 .. Half - 1
    /\ MinIdx \in Nat /\ MaxIdx \in 0 .. U32 - 2
    /\ MaxPackets \in Nat /\ MaxSnapshots \in Nat
    /\ FirstIdxs \subseteq SN \cap (MinIdx .. MaxIdx)

\* What the ring holds of a packet: pktSize = 0, isPaddingOnly, or neither.
SnInfo == {"lost", "padding", "media"}

\* A snapshot no call has made yet.
NoSnapshot == -1
NoReport == [expected |-> 0, lost |-> 0, padding |-> 0, start |-> 0]

VARIABLES initialized,
          ended,              \* endTime is set
          extStartSN, highestSN, cycles,
          packetsLost, packetsDuplicate, packetsPadding,
          snInfos, snInfoWritePtr,
          nextSnapshotId,
          snapshots,          \* snapshots[id].extStartSN
          report,             \* what the last report said
          counted,            \* history: the indices taken into account
          updates             \* history: packets seen

vars == <<initialized, ended, extStartSN, highestSN, cycles, packetsLost,
          packetsDuplicate, packetsPadding, snInfos, snInfoWritePtr,
          nextSnapshotId, snapshots, report, counted, updates>>

NewRTPStats ==
    /\ initialized = FALSE /\ ended = FALSE
    /\ extStartSN = 0 /\ highestSN = 0 /\ cycles = 0
    /\ packetsLost = 0 /\ packetsDuplicate = 0 /\ packetsPadding = 0
    /\ snInfos = [i \in 0 .. SnInfoSize - 1 |-> "lost"]
    /\ snInfoWritePtr = 0
    /\ nextSnapshotId = 1
    /\ snapshots = [id \in 1 .. MaxSnapshots |-> NoSnapshot]
    /\ report = NoReport
    /\ counted = {} /\ updates = 0

Stop == /\ ~ended
        /\ ended' = TRUE
        /\ report' = NoReport
        /\ UNCHANGED <<initialized, extStartSN, highestSN, cycles, packetsLost,
                       packetsDuplicate, packetsPadding, snInfos, snInfoWritePtr,
                       nextSnapshotId, snapshots, counted, updates>>

NewSnapshotId ==
    /\ nextSnapshotId <= MaxSnapshots
    /\ snapshots' = IF initialized THEN [snapshots EXCEPT ![nextSnapshotId] = extStartSN]
                                   ELSE snapshots
    /\ nextSnapshotId' = nextSnapshotId + 1
    /\ report' = NoReport
    /\ UNCHANGED <<initialized, ended, extStartSN, highestSN, cycles, packetsLost,
                   packetsDuplicate, packetsPadding, snInfos, snInfoWritePtr,
                   counted, updates>>

-----------------------------------------------------------------------------
(* The ring.                                                               *)

\* Mutant: the mask is one too wide.
MaskWide(i) == i % (SnInfoSize + 1)

Mask(i) == i % SnInfoSize

\* The slot of sn, or -1: sn is newer than the newest or too old.
getSnInfoOutOfOrderPtr(sn) ==
    LET ahead == (sn - highestSN) % SNMod
        offset == (highestSN - sn) % SNMod
    IN  IF (ahead > 0 /\ ahead < Half) \/ offset >= SnInfoSize THEN -1
        ELSE Mask(snInfoWritePtr - offset - 1)

\* Mutant: a number too old for the ring counts as lost.
isSnInfoLostOld(sn) ==
    LET readPtr == getSnInfoOutOfOrderPtr(sn)
    IN  IF readPtr < 0 THEN TRUE ELSE snInfos[readPtr] = "lost"

isSnInfoLost(sn) ==
    LET readPtr == getSnInfoOutOfOrderPtr(sn)
    IN  readPtr >= 0 /\ snInfos[readPtr] = "lost"

\* setSnInfo for a number that is out of order.
setSnInfo(sn, info) ==
    LET writePtr == getSnInfoOutOfOrderPtr(sn)
    IN  IF writePtr < 0 THEN snInfos ELSE [snInfos EXCEPT ![writePtr] = info]

\* clearSnInfos for the diff - 1 numbers that were skipped, then setSnInfo for
\* the new highest.
cleared(diff) == {Mask(snInfoWritePtr + i) : i \in 0 .. diff - 2}

advanceSnInfos(diff, info) ==
    /\ snInfos' = [[i \in DOMAIN snInfos |->
                      IF i \in cleared(diff) THEN "lost" ELSE snInfos[i]]
                   EXCEPT ![Mask(snInfoWritePtr + diff - 1)] = info]
    /\ snInfoWritePtr' = Mask(snInfoWritePtr + diff)

-----------------------------------------------------------------------------
(* Update, one action per case of its switch.                              *)

getExtHighestSN == cycles * SNMod + highestSN

packetsExpected == (getExtHighestSN - extStartSN + 1) % U32

Padded(info) == IF info = "padding" THEN packetsPadding + 1 ELSE packetsPadding

UpdateFirst(sn, info) ==
    /\ ~initialized
    /\ initialized' = TRUE
    /\ extStartSN' = sn /\ highestSN' = sn /\ cycles' = 0
    /\ snapshots' = [id \in DOMAIN snapshots |->
                       IF id < nextSnapshotId THEN sn ELSE snapshots[id]]
    /\ advanceSnInfos(1, info)
    /\ packetsPadding' = Padded(info)
    /\ UNCHANGED <<packetsLost, packetsDuplicate>>

\* Mutant: a cycle is counted only when the number 0 itself comes.
nextCycleAtZero(sn) == IF sn = 0 THEN (cycles + 1) % SNMod ELSE cycles

nextCycle(sn) == IF sn < highestSN THEN (cycles + 1) % SNMod ELSE cycles

UpdateInOrder(sn, info) ==
    LET diff == (sn - highestSN) % SNMod
    IN  /\ initialized
        /\ diff # 0 /\ diff <= Half
        /\ advanceSnInfos(diff, info)
        /\ packetsLost' = (packetsLost + diff - 1) % U32
        /\ cycles' = nextCycle(sn)
        /\ highestSN' = sn
        /\ packetsPadding' = Padded(info)
        /\ UNCHANGED <<initialized, extStartSN, packetsDuplicate, snapshots>>

OutOfOrder(sn) == sn = highestSN \/ (sn - highestSN) % SNMod > Half

\* The condition under which maybeAdjustStartSN takes sn as the new start.
beforeStart(sn) ==
    /\ packetsExpected < Half
    /\ (sn - extStartSN) % SNMod >= Half

\* Mutant: every snapshot moves with the start.
movedAll(id, sn) == sn

\* Where a snapshot starts after the start has moved to sn.
moved(id, sn) == IF snapshots[id] = extStartSN THEN sn ELSE snapshots[id]

maybeAdjustStartSN(sn, info) ==
    /\ initialized
    /\ OutOfOrder(sn)
    /\ beforeStart(sn)
    /\ packetsLost' = (packetsLost + ((extStartSN - sn) % SNMod) - 1) % U32
    /\ extStartSN' = sn
    /\ snInfos' = setSnInfo(sn, info)
    /\ snapshots' = [id \in DOMAIN snapshots |-> moved(id, sn)]
    /\ packetsPadding' = Padded(info)
    /\ UNCHANGED <<initialized, highestSN, cycles, packetsDuplicate, snInfoWritePtr>>

UpdateLost(sn, info) ==
    /\ initialized
    /\ OutOfOrder(sn) /\ ~beforeStart(sn)
    /\ isSnInfoLost(sn)
    /\ packetsLost' = (packetsLost - 1) % U32
    /\ snInfos' = setSnInfo(sn, info)
    /\ packetsPadding' = Padded(info)
    /\ UNCHANGED <<initialized, extStartSN, highestSN, cycles, packetsDuplicate,
                   snInfoWritePtr, snapshots>>

UpdateDuplicate(sn) ==
    /\ initialized
    /\ OutOfOrder(sn) /\ ~beforeStart(sn)
    /\ ~isSnInfoLost(sn)
    /\ packetsDuplicate' = packetsDuplicate + 1
    /\ UNCHANGED <<initialized, extStartSN, highestSN, cycles, packetsLost,
                   packetsPadding, snInfos, snInfoWritePtr, snapshots>>

-----------------------------------------------------------------------------
(* The stream: 16 bits tell an index only from those within half a cycle   *)
(* of the newest.                                                          *)

Newest == CHOOSE i \in counted : \A j \in counted : j <= i
Oldest == CHOOSE i \in counted : \A j \in counted : i <= j

Indices == IF counted = {} THEN FirstIdxs
           ELSE {e \in MinIdx .. MaxIdx : Newest - Half < e /\ e <= Newest + Half}

\* What a receiver that remembers SnInfoSize packets and takes an early start
\* for half a cycle can take into account.
Counts(e) == \/ counted = {}
             \/ e > Newest - SnInfoSize
             \/ e < Oldest /\ Newest - Oldest + 1 < Half

Update(e, info) ==
    /\ ~ended
    /\ updates < MaxPackets
    /\ \/ UpdateFirst(e % SNMod, info)
       \/ UpdateInOrder(e % SNMod, info)
       \/ maybeAdjustStartSN(e % SNMod, info)
       \/ UpdateLost(e % SNMod, info)
       \/ UpdateDuplicate(e % SNMod)
    /\ counted' = IF Counts(e) THEN counted \cup {e} ELSE counted
    /\ updates' = updates + 1
    /\ report' = NoReport
    /\ UNCHANGED <<ended, nextSnapshotId>>

-----------------------------------------------------------------------------
(* SnapshotRtcpReceptionReport and DeltaInfo.                              *)

\* Mutant: equal ends are an empty interval, not a full cycle.
intervalEmpty(startInclusive, endExclusive) ==
    {sn \in SN : (sn - startInclusive) % SNMod < (endExclusive - startInclusive) % SNMod}

\* The numbers getIntervalStats goes through; all of them for a full cycle.
interval(startInclusive, endExclusive) ==
    IF startInclusive = endExclusive THEN SN
    ELSE {sn \in SN : (sn - startInclusive) % SNMod
                        < (endExclusive - startInclusive) % SNMod}

getIntervalStats(sns, info) ==
    Cardinality({sn \in sns : /\ getSnInfoOutOfOrderPtr(sn) >= 0
                              /\ snInfos[getSnInfoOutOfOrderPtr(sn)] = info})

then(id) == IF snapshots[id] = NoSnapshot THEN extStartSN ELSE snapshots[id]

\* getAndResetSnapshot, then the report over the interval that it ends.
Report(id) ==
    LET now == (getExtHighestSN + 1) % U32
        expected == (now - then(id)) % U32
        sns == interval(then(id) % SNMod, now % SNMod)
    IN  /\ initialized
        /\ id < nextSnapshotId
        /\ snapshots' = [snapshots EXCEPT ![id] = now]
        /\ report' = IF expected > SNMod \/ expected = 0 THEN NoReport
                     ELSE [expected |-> expected, start |-> then(id),
                           lost |-> getIntervalStats(sns, "lost"),
                           padding |-> getIntervalStats(sns, "padding")]
        /\ UNCHANGED <<initialized, ended, extStartSN, highestSN, cycles,
                       packetsLost, packetsDuplicate, packetsPadding, snInfos,
                       snInfoWritePtr, nextSnapshotId, counted, updates>>

\* Mutant: padding packets are counted among the primary ones.
getTotalPacketsPadded ==
    IF packetsLost > packetsExpected THEN 0 ELSE packetsExpected - packetsLost

getTotalPacketsPrimary ==
    IF packetsLost > packetsExpected THEN 0
    ELSE IF packetsPadding > packetsExpected - packetsLost THEN 0
    ELSE packetsExpected - packetsLost - packetsPadding

\* PacketCount of GetRtcpSenderReport.
PacketCount == getTotalPacketsPrimary + packetsDuplicate + packetsPadding

Next == \/ Stop \/ NewSnapshotId
        \/ \E e \in Indices, info \in SnInfo \ {"lost"} : Update(e, info)
        \/ \E id \in 1 .. MaxSnapshots : Report(id)

Spec == NewRTPStats /\ [][Next]_vars

-----------------------------------------------------------------------------
\* The fields keep the width of rtpstats.go 103-171.
TypeOK ==
    /\ initialized \in BOOLEAN /\ ended \in BOOLEAN
    /\ extStartSN \in 0 .. U32 - 1 /\ highestSN \in SN /\ cycles \in SN
    /\ packetsLost \in 0 .. U32 - 1
    /\ packetsDuplicate \in Nat /\ packetsPadding \in Nat
    /\ snInfos \in [0 .. SnInfoSize - 1 -> SnInfo]
    /\ snInfoWritePtr \in 0 .. SnInfoSize - 1
    /\ nextSnapshotId \in 1 .. MaxSnapshots + 1
    /\ snapshots \in [1 .. MaxSnapshots -> {NoSnapshot} \cup 0 .. U32 - 1]
    /\ counted \subseteq MinIdx .. MaxIdx /\ updates \in 0 .. MaxPackets

\* Whatever the order in which the packets of a stream reach Update, across
\* wraps of the sequence number and with an early start found late, the extended
\* numbers span exactly the packets from the oldest to the newest.
SpanIsTrue ==
    initialized => /\ extStartSN = Oldest
                   /\ getExtHighestSN = Newest

\* packetsLost is the number of packets between the oldest and the newest that
\* have not come, or came when they were older than the ring remembers; it
\* neither drifts nor underflows when holes are filled out of order.
LostIsMissing ==
    initialized => packetsLost = Cardinality((Oldest .. Newest) \ counted)

\* The sender report's packet count is the number of packets Update was given:
\* every packet falls in exactly one of primary, padding and duplicate, and the
\* two early returns of getTotalPacketsPrimary are not taken.
SenderCountExact == initialized => PacketCount = updates

\* A report's loss is the number of packets of its interval that are missing,
\* among those the ring still remembers, and is less than the number expected,
\* so that uint8(lossRate * 256) does not overflow to 0.
ReportedLossIsTrue ==
    report # NoReport =>
        /\ report.lost = Cardinality({i \in report.start .. Newest :
                                        i > Newest - SnInfoSize /\ i \notin counted})
        /\ report.lost < report.expected

\* Each report of a snapshot starts where the one before it ended, so that a
\* packet is in one report only: a snapshot never lies behind the newest packet
\* it was reset at, whatever maybeAdjustStartSN does to the start.
SnapshotsOnlyAdvance ==
    [][\A id \in 1 .. MaxSnapshots :
         snapshots[id] > extStartSN => snapshots'[id] >= snapshots[id]]_vars
=============================================================================
