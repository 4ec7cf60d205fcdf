---------------------------- MODULE ReportsProofs ----------------------------
(***************************************************************************)
(* Proofs about Reports, for any length of a run, any bounds on the        *)
(* network's delay and any difference of the clocks.                       *)
(***************************************************************************)
EXTENDS Reports, TLAPS

\* What the statistics keep of a sender report: it was sent one network delay
\* before it came, and the smoothed one-way delay lies within the delays that
\* occur, less the difference of the clocks.
Report == [ntp : Int, rtp : Int, arrival : Int, owd : Int]

Fits(d) == /\ d \in Report
           /\ d.ntp > 0 /\ d.rtp = d.ntp
           /\ d.arrival + Skew - d.ntp \in Delays
           /\ d.owd + Skew \in Delays

\* The buffer keeps the report with the latest time.
KeptFits == \/ srDataExt = None /\ newest = 0
            \/ Fits(srDataExt) /\ srDataExt.ntp = newest

ReadFits == read = None \/ Fits(read)

\* A packet was sent one network delay after the publisher captured it.
HighestFits ==
    \/ highest = None
    \/ highest \in [ts : Int, time : Int] /\ highest.time + Skew - highest.ts \in Delays

Clocks == now \in Int /\ newest \in Int

IInv == /\ TypeOK /\ Clocks /\ KeptFits /\ ReadFits /\ HighestFits
        /\ NamesNewestReport /\ MediaTimeTrue /\ RttAgrees

-----------------------------------------------------------------------------
\* The delays are a range of integers.
LEMMA DelayFacts ==
    /\ MinDelay \in Int /\ MaxDelay \in Int /\ Skew \in Int
    /\ \A n : n \in Delays <=> n \in Int /\ MinDelay <= n /\ n <= MaxDelay
BY ReportsConstants DEF Delays

\* The division of a time.Duration keeps the mean of two numbers between any
\* bounds that hold for both.
LEMMA HalfBetween ==
    ASSUME NEW lo \in Int, NEW hi \in Int, NEW x \in Int, NEW y \in Int,
           lo <= x, x <= hi, lo <= y, y <= hi
    PROVE  half(x + y) \in Int /\ lo <= half(x + y) /\ half(x + y) <= hi
<1>1. CASE x + y < 0
  <2>1. half(x + y) = -((-(x + y)) \div 2)
    BY <1>1 DEF half
  <2>2. QED
    BY <2>1
<1>2. CASE ~(x + y < 0)
  <2>1. half(x + y) = (x + y) \div 2
    BY <1>2 DEF half
  <2>2. QED
    BY <2>1
<1>3. QED
  BY <1>1, <1>2

\* A report that fits is not the lack of one.
LEMMA FitsIsSome == ASSUME NEW d, Fits(d) PROVE d # None
BY DEF Fits, None, Report

\* A step that sends no report leaves nothing to show about reports.
LEMMA SilentKeeps == out' = NoReport => NamesNewestReport' /\ MediaTimeTrue'
BY DEF NoReport, NamesNewestReport, MediaTimeTrue

\* The data of a sender report that took delay, as SetRtcpSenderReportData keeps
\* it.
LEMMA NewReportFits ==
    ASSUME IInv, NEW delay \in Delays, delay <= now, NEW ntp,
           ntp = now - delay + Skew, ntp > 0, NEW d,
           d = [ntp |-> ntp, rtp |-> ntp, arrival |-> now, owd |-> smoothed(now - ntp)]
    PROVE  /\ Fits(d) /\ d.ntp = ntp /\ d \in Data /\ ntp \in Int
<1>1. delay \in Int /\ MinDelay <= delay /\ delay <= MaxDelay /\ MinDelay >= 0
      /\ now \in 0 .. MaxTime /\ MaxTime \in Int /\ Skew \in Int /\ MinDelay \in Int
      /\ MaxDelay \in Int
  BY DelayFacts, ReportsConstants DEF IInv, TypeOK
<1>2. ntp \in 1 .. MaxTime + Skew
  BY <1>1
<1>3. now - ntp = delay - Skew
  BY <1>1
<1>4. smoothed(now - ntp) \in MinDelay - Skew .. MaxDelay - Skew
  <2> DEFINE x == now - ntp
             y == IF srDataExt = None THEN x ELSE srDataExt.owd
             lo == MinDelay - Skew
             hi == MaxDelay - Skew
  <2>1. smoothed(now - ntp) = half(x + y)
    BY DEF smoothed
  <2>2. x \in Int /\ lo <= x /\ x <= hi /\ lo \in Int /\ hi \in Int
    BY <1>1, <1>3
  <2>3. y \in Int /\ lo <= y /\ y <= hi
    <3>1. CASE srDataExt = None
      BY <2>2, <3>1
    <3>2. CASE srDataExt # None
      BY <1>1, <3>2, DelayFacts DEF IInv, KeptFits, Fits, Report
    <3>3. QED
      BY <3>1, <3>2
  <2> HIDE DEF x, y, lo, hi
  <2>4. half(x + y) \in lo .. hi
    <3>1. half(x + y) \in Int /\ lo <= half(x + y) /\ half(x + y) <= hi
      BY <2>2, <2>3, HalfBetween, Zenon
    <3>2. QED
      BY <2>2, <3>1
  <2>5. QED
    BY <2>1, <2>4 DEF lo, hi
<1> DEFINE owd == smoothed(now - ntp)
<1>5. owd \in Int /\ MinDelay <= owd + Skew /\ owd + Skew <= MaxDelay
  BY <1>1, <1>4
<1>6. d = [ntp |-> ntp, rtp |-> ntp, arrival |-> now, owd |-> owd]
  OBVIOUS
<1> HIDE DEF owd
<1>7. Fits(d) /\ d.ntp = ntp
  BY <1>1, <1>2, <1>3, <1>5, <1>6, DelayFacts DEF Fits, Report
<1>8. d \in Data
  BY <1>1, <1>2, <1>4, <1>6 DEF Data, owd
<1>9. QED
  BY <1>2, <1>7, <1>8

\* A sender report of the publisher comes, in order or late.
LEMMA SenderReportKeeps ==
    ASSUME IInv, NEW delay \in Delays, SenderReport(delay)
    PROVE  IInv'
<1> DEFINE ntp == now - delay + Skew
           d == [ntp |-> ntp, rtp |-> ntp, arrival |-> now, owd |-> smoothed(now - ntp)]
<1>1. Fits(d) /\ d.ntp = ntp /\ d \in Data /\ ntp \in Int /\ ntp > 0
  BY NewReportFits DEF SenderReport
<1>2. /\ srDataExt' = IF srDataExt # None /\ srDataExt.ntp > ntp THEN srDataExt ELSE d
      /\ newest' = IF ntp > newest THEN ntp ELSE newest
      /\ out' = NoReport
      /\ UNCHANGED <<now, trackVars, rrVars>>
  BY DEF SenderReport, SetRtcpSenderReportData
<1> HIDE DEF d, ntp
<1>3. KeptFits' /\ srDataExt' \in Data /\ Clocks'
  <2>1. CASE srDataExt = None /\ newest = 0
    BY <1>1, <1>2, <2>1 DEF IInv, Clocks, KeptFits
  <2>2. CASE Fits(srDataExt) /\ srDataExt.ntp = newest
    BY <1>1, <1>2, <2>2, FitsIsSome DEF IInv, TypeOK, Clocks, KeptFits
  <2>3. QED
    BY <2>1, <2>2 DEF IInv, KeptFits
<1>4. TypeOK'
  BY <1>2, <1>3 DEF IInv, TypeOK, trackVars, rrVars
<1>5. QED
  BY <1>2, <1>3, <1>4, SilentKeeps
     DEF IInv, ReadFits, HighestFits, RttAgrees, trackVars, rrVars

\* A reception report to the publisher names what the buffer keeps.
LEMMA ReceptionReportKeeps ==
    ASSUME IInv, SnapshotRtcpReceptionReport
    PROVE  IInv'
<1>1. /\ out' = [kind |-> "rr", lsr |-> srDataExt.ntp, dlsr |-> now - srDataExt.arrival]
      /\ srDataExt # None /\ UNCHANGED <<now, srVars, trackVars, rrVars>>
  BY DEF SnapshotRtcpReceptionReport
<1>2. Fits(srDataExt) /\ srDataExt.ntp = newest
  BY <1>1 DEF IInv, KeptFits
<1>3. NamesNewestReport'
  <2>1. now - (now - srDataExt.arrival) = srDataExt.arrival
    BY <1>2 DEF IInv, Clocks, Fits, Report
  <2>2. (now - (now - srDataExt.arrival)) + Skew - srDataExt.ntp \in Delays
    BY <1>2, <2>1 DEF Fits
  <2>3. QED
    BY <1>1, <1>2, <2>2 DEF NamesNewestReport, srVars
<1>4. MediaTimeTrue'
  BY <1>1 DEF MediaTimeTrue
<1>5. QED
  BY <1>1, <1>3, <1>4
     DEF IInv, TypeOK, Clocks, KeptFits, ReadFits, HighestFits, RttAgrees, srVars, trackVars,
         rrVars

\* A sender report to the receiver: on either branch its RTP time is one network
\* delay behind the publisher's clock.
LEMMA MediaReportKeeps ==
    ASSUME IInv, GetRtcpSenderReport
    PROVE  IInv'
<1>1. /\ read # None /\ read' = None
      /\ UNCHANGED <<now, srVars, bound, highest, rrVars>>
  BY DEF GetRtcpSenderReport
<1>2. NamesNewestReport'
  BY DEF GetRtcpSenderReport, NamesNewestReport, NoReport
<1>3. MediaTimeTrue'
  <2>1. CASE highest = None
    BY <2>1 DEF GetRtcpSenderReport, MediaTimeTrue, NoReport
  <2>2. CASE highest # None
    <3>1. out' = [kind |-> "sr", rtp |-> reported(read)]
      BY <2>2 DEF GetRtcpSenderReport
    <3>2. (now + Skew) - reported(read) \in Delays
      <4>1. CASE read.ntp + read.owd > now
        <5>1. /\ highest.ts \in Int /\ highest.time \in Int /\ now \in Int
              /\ highest.time + Skew - highest.ts \in Delays
          BY <2>2 DEF IInv, HighestFits, Clocks
        <5>2. reported(read) = highest.ts + (now - highest.time)
          BY <4>1 DEF reported
        <5>3. (now + Skew) - (highest.ts + (now - highest.time))
                = highest.time + Skew - highest.ts
          BY <5>1, DelayFacts
        <5>4. QED
          BY <5>1, <5>2, <5>3
      <4>2. CASE ~(read.ntp + read.owd > now)
        <5>1. /\ read.ntp \in Int /\ read.owd \in Int /\ now \in Int /\ read.rtp = read.ntp
              /\ read.owd + Skew \in Delays
          BY <1>1 DEF IInv, ReadFits, Fits, Report, Clocks
        <5>2. reported(read) = read.rtp + (now - (read.ntp + read.owd))
          BY <4>2 DEF reported
        <5>3. (now + Skew) - (read.ntp + (now - (read.ntp + read.owd))) = read.owd + Skew
          BY <5>1, DelayFacts
        <5>4. QED
          BY <5>1, <5>2, <5>3
      <4>3. QED
        BY <4>1, <4>2
    <3>3. QED
      BY <1>1, <3>1, <3>2 DEF MediaTimeTrue
  <2>3. QED
    BY <2>1, <2>2
<1>4. TypeOK'
  <2>1. srSent' \in BOOLEAN
    BY DEF GetRtcpSenderReport, IInv, TypeOK
  <2>2. read' \in Data
    BY <1>1 DEF Data
  <2>3. QED
    BY <1>1, <2>1, <2>2 DEF IInv, TypeOK, srVars, rrVars
<1>5. QED
  BY <1>1, <1>2, <1>3, <1>4
     DEF IInv, Clocks, KeptFits, ReadFits, HighestFits, RttAgrees, srVars, rrVars

\* A receiver report comes, in order or late.
LEMMA ReceiverReportKeeps ==
    ASSUME IInv, NEW delay \in Delays, NEW r \in RTTs \cup {rtt}, ReceiverReport(delay, r)
    PROVE  IInv'
<1>1. /\ seqRtt' = IF r # rtt /\ r # 0 THEN r ELSE seqRtt
      /\ out' = NoReport /\ UNCHANGED <<now, srVars, trackVars>>
  BY DEF ReceiverReport
<1>2. highestSNAt(now - delay) \in 0 .. MaxTime
  BY DelayFacts, ReportsConstants DEF ReceiverReport, highestSNAt, IInv, TypeOK
<1> DEFINE lsn == highestSNAt(now - delay)
<1>3. UpdateFromReceiverReport(lsn, r)
  BY DEF ReceiverReport
<1> HIDE DEF lsn
<1>4. rtt' \in {0} \cup RTTs /\ seqRtt' \in {defaultRtt} \cup RTTs
  BY <1>1, <1>3 DEF UpdateFromReceiverReport, IInv, TypeOK
<1>5. refused' \in BOOLEAN
  BY <1>3 DEF UpdateFromReceiverReport, IInv, TypeOK
<1>6. extHighestSNOverridden' \in {Never} \cup 0 .. MaxTime
  BY <1>2, <1>3 DEF UpdateFromReceiverReport, IInv, TypeOK, lsn
<1>7. TypeOK'
  BY <1>1, <1>4, <1>5, <1>6 DEF IInv, TypeOK, srVars, trackVars
<1>8. RttAgrees'
  BY <1>1, <1>3 DEF UpdateFromReceiverReport, IInv, RttAgrees, TypeOK
<1>9. QED
  BY <1>1, <1>7, <1>8, SilentKeeps
     DEF IInv, Clocks, KeptFits, ReadFits, HighestFits, srVars, trackVars

-----------------------------------------------------------------------------
\* The invariant holds before anything was sent.
LEMMA InitIInv == Init => IInv
<1> SUFFICES ASSUME Init PROVE IInv
  OBVIOUS
<1>1. TypeOK
  <2>1. None \in Data
    BY DEF Data
  <2>2. bound \in BOOLEAN /\ srSent \in BOOLEAN /\ refused \in BOOLEAN
    BY DEF Init
  <2>3. QED
    BY <2>1, <2>2, ReportsConstants DEF Init, TypeOK
<1>2. Clocks /\ KeptFits /\ ReadFits /\ HighestFits /\ RttAgrees
  BY DEF Init, Clocks, KeptFits, ReadFits, HighestFits, RttAgrees
<1>3. NamesNewestReport /\ MediaTimeTrue
  BY DEF Init, NoReport, NamesNewestReport, MediaTimeTrue
<1>4. QED
  BY <1>1, <1>2, <1>3 DEF IInv

\* Every step keeps the invariant.
LEMMA StepIInv == IInv /\ [Next]_vars => IInv'
<1> SUFFICES ASSUME IInv, [Next]_vars PROVE IInv'
  OBVIOUS
<1>1. ASSUME Tick PROVE IInv'
  <2>1. now' \in 0 .. MaxTime
    BY <1>1, ReportsConstants DEF Tick, IInv, TypeOK
  <2>2. QED
    BY <1>1, <2>1, SilentKeeps
       DEF Tick, IInv, TypeOK, Clocks, KeptFits, ReadFits, HighestFits, RttAgrees, srVars,
           trackVars, rrVars
<1>2. ASSUME Close PROVE IInv'
  BY <1>2, SilentKeeps
     DEF Close, IInv, TypeOK, Clocks, KeptFits, ReadFits, HighestFits, RttAgrees, srVars, rrVars
<1>3. ASSUME NEW delay \in Delays, Update(delay) PROVE IInv'
  <2> DEFINE ts == now - delay + Skew
  <2>1. highest' = [ts |-> ts, time |-> now] /\ ts \in Int /\ now + Skew - ts = delay
    BY <1>3, DelayFacts DEF Update, IInv, Clocks
  <2> HIDE DEF ts
  <2>2. HighestFits'
    BY <1>3, <2>1 DEF IInv, Clocks, HighestFits, Update
  <2>3. QED
    BY <1>3, <2>2, SilentKeeps
       DEF Update, IInv, TypeOK, Clocks, KeptFits, ReadFits, RttAgrees, srVars, rrVars
<1>4. ASSUME GetRtcpSenderReportDataExt PROVE IInv'
  BY <1>4, SilentKeeps
     DEF GetRtcpSenderReportDataExt, IInv, TypeOK, Clocks, KeptFits, ReadFits, HighestFits,
         RttAgrees, srVars, rrVars
<1>5. CASE UNCHANGED vars
  BY <1>5
     DEF vars, IInv, TypeOK, Clocks, KeptFits, ReadFits, HighestFits, RttAgrees,
         NamesNewestReport, MediaTimeTrue, srVars, trackVars, rrVars
<1>6. QED
  BY <1>1, <1>2, <1>3, <1>4, <1>5, SenderReportKeeps, ReceptionReportKeeps, MediaReportKeeps,
     ReceiverReportKeeps DEF Next

-----------------------------------------------------------------------------
\* The smoothed one-way delay stays within the delays that occur, whatever the
\* difference of the clocks and however often it is halved.
THEOREM TypeCorrect == Spec => []TypeOK
<1>1. IInv => TypeOK
  BY DEF IInv
<1>2. QED
  BY <1>1, InitIInv, StepIInv, PTL DEF Spec

\* SnapshotRtcpReceptionReport names the latest sender report that came and the
\* time since it came, in whatever order the reports come.
THEOREM NewestIsNamed == Spec => []NamesNewestReport
<1>1. IInv => NamesNewestReport
  BY DEF IInv
<1>2. QED
  BY <1>1, InitIInv, StepIInv, PTL DEF Spec

\* GetRtcpSenderReport gives the receiver an RTP time that the publisher's clock
\* showed one network delay ago.
THEOREM MediaTimeIsTrue == Spec => []MediaTimeTrue
<1>1. IInv => MediaTimeTrue
  BY DEF IInv
<1>2. QED
  BY <1>1, InitIInv, StepIInv, PTL DEF Spec

\* The sequencer has the round-trip time of the statistics, unless a receiver
\* report came out of order since that last changed.
THEOREM RttsAgree == Spec => []RttAgrees
<1>1. IInv => RttAgrees
  BY DEF IInv
<1>2. QED
  BY <1>1, InitIInv, StepIInv, PTL DEF Spec
=============================================================================
