------------------------------- MODULE Reports -------------------------------
(***************************************************************************)
(* The RTCP reports around one down track and the clocks they carry.       *)
(*                                                                         *)
(* The publisher's sender reports are kept by the statistics of its buffer *)
(* (SetRtcpSenderReportData of pkg/buffer/rtpstats.go), which name the     *)
(* last one in their reception reports; from it, and from the packets it   *)
(* has sent, the down track makes the sender reports for its receiver      *)
(* (GetRtcpSenderReport).  The receiver's reports give the round-trip time *)
(* to the down track's statistics (UpdateFromReceiverReport) and to its    *)
(* sequencer (handleRTCP of pkg/rtc/downtrack.go).                         *)
(*                                                                         *)
(* Time is counted in ticks.  The publisher's clock is Skew ahead, its RTP *)
(* clock shows the same ticks, and a packet or report takes MinDelay to    *)
(* MaxDelay in either network, so that reports may overtake each other,    *)
(* come twice or be lost.  The track has not been muted (tsOffset is 0).   *)
(* Jitter, the maxima and the loss counts of the reports are left out.     *)
(***************************************************************************)
EXTENDS Integers

CONSTANTS MaxTime,              \* bound on the clock
          MinDelay, MaxDelay,   \* of one network hop
          Skew,                 \* the publisher's clock minus the router's
          defaultRtt            \* the sequencer's RTT before any is known

ASSUME ReportsConstants ==
    /\ MaxTime \in Nat /\ MinDelay \in Nat /\ MaxDelay \in Nat /\ MinDelay <= MaxDelay
    /\ Skew \in Int
    /\ defaultRtt \in Nat \ MinDelay + MinDelay .. MaxDelay + MaxDelay

Delays == MinDelay .. MaxDelay

VARIABLES now,
          \* the publisher's buffer
          srDataExt,    \* RTPStats.srDataExt
          newest,       \* history: the latest NTP time of a report that came
          \* the down track
          bound,
          highest,      \* highestTS and highestTime of its statistics
          read,         \* CreateSenderReport: the data it has read
          srSent,       \* a sender report has been sent to the receiver
          extHighestSNOverridden,
          rtt,          \* RTPStats.rtt
          seqRtt,       \* sequencer.rtt
          refused,      \* history: a report that came out of order since the
                        \* last one that changed rtt
          out           \* the report the last step sent

srVars == <<srDataExt, newest>>
trackVars == <<bound, highest, read, srSent>>
rrVars == <<extHighestSNOverridden, rtt, seqRtt, refused>>
vars == <<now, srVars, trackVars, rrVars, out>>

None == [ntp |-> 0]
NoReport == [kind |-> "none"]
Never == -1

Init == /\ now = 0
        /\ srDataExt = None /\ newest = 0
        /\ bound = TRUE /\ highest = None /\ read = None /\ srSent = FALSE
        /\ extHighestSNOverridden = Never
        /\ rtt = 0 /\ seqRtt = defaultRtt /\ refused = FALSE
        /\ out = NoReport

Tick == /\ now < MaxTime
        /\ now' = now + 1
        /\ out' = NoReport
        /\ UNCHANGED <<srVars, trackVars, rrVars>>

-----------------------------------------------------------------------------
(* The publisher's reports.                                                *)

\* Division of a time.Duration rounds towards zero.
half(n) == IF n < 0 THEN -((-n) \div 2) ELSE n \div 2

\* SmoothedOWD after a report with one-way delay owd.
smoothed(owd) == half(owd + IF srDataExt = None THEN owd ELSE srDataExt.owd)

\* Mutant: the test for anachronous reports is left out.
SetSenderReportAlways(ntp) ==
    srDataExt' = [ntp |-> ntp, rtp |-> ntp, arrival |-> now, owd |-> smoothed(now - ntp)]

\* A report that is older than the one kept is ignored.
SetRtcpSenderReportData(ntp) ==
    srDataExt' = IF srDataExt # None /\ srDataExt.ntp > ntp THEN srDataExt
                 ELSE [ntp |-> ntp, rtp |-> ntp, arrival |-> now,
                       owd |-> smoothed(now - ntp)]

\* Producer.handleRTCP with a sender report that took delay.
SenderReport(delay) ==
    LET ntp == now - delay + Skew
    IN  /\ delay <= now /\ ntp > 0
        /\ SetRtcpSenderReportData(ntp)
        /\ newest' = IF ntp > newest THEN ntp ELSE newest
        /\ out' = NoReport
        /\ UNCHANGED <<now, trackVars, rrVars>>

\* The reception report of doReports: LastSenderReport and Delay, read under one
\* lock.
SnapshotRtcpReceptionReport ==
    /\ srDataExt # None
    /\ out' = [kind |-> "rr", lsr |-> srDataExt.ntp, dlsr |-> now - srDataExt.arrival]
    /\ UNCHANGED <<now, srVars, trackVars, rrVars>>

-----------------------------------------------------------------------------
(* The reports to the receiver.                                            *)

\* Update of the down track's statistics with a packet that was captured delay
\* ago and is in order.
Update(delay) ==
    LET ts == now - delay + Skew
    IN  /\ bound /\ delay <= now
        /\ highest # None => ts >= highest.ts
        /\ highest' = [ts |-> ts, time |-> now]
        /\ out' = NoReport
        /\ UNCHANGED <<now, srVars, bound, read, srSent, rrVars>>

\* CreateSenderReport, called by the consumer's worker: first it gets a copy of
\* the buffer's data ...
GetRtcpSenderReportDataExt ==
    /\ bound /\ read = None /\ srDataExt # None
    /\ read' = srDataExt
    /\ out' = NoReport
    /\ UNCHANGED <<now, srVars, bound, highest, srSent, rrVars>>

\* Mutant: the one-way delay is added to the time that has passed.
reportedAhead(d) == d.rtp + (now - d.ntp) + d.owd

\* The RTP time of a report made now: from the newest packet when the smoothed
\* time of the publisher's report lies ahead.
reported(d) == IF d.ntp + d.owd > now THEN highest.ts + (now - highest.time)
               ELSE d.rtp + (now - (d.ntp + d.owd))

\* ... then it makes the report, if a packet was sent.
GetRtcpSenderReport ==
    /\ read # None
    /\ read' = None
    /\ IF highest = None THEN out' = NoReport /\ srSent' = srSent
       ELSE out' = [kind |-> "sr", rtp |-> reported(read)] /\ srSent' = TRUE
    /\ UNCHANGED <<now, srVars, bound, highest, rrVars>>

\* DownTrack.Close: the statistics stop and the RTCP callback is removed.
Close == /\ bound
         /\ bound' = FALSE
         /\ out' = NoReport
         /\ UNCHANGED <<now, srVars, highest, read, srSent, rrVars>>

-----------------------------------------------------------------------------
(* The receiver's reports.                                                 *)

\* The receiver's highest sequence number at a time: packets come every other
\* tick, so two reports may name the same one.
highestSNAt(time) == time \div 2

\* Mutant: only a longer round-trip time is kept.
UpdateRttIfLonger(lsn, r) ==
    IF extHighestSNOverridden = Never \/ extHighestSNOverridden <= lsn
    THEN /\ extHighestSNOverridden' = lsn
         /\ rtt' = IF r > rtt THEN r ELSE rtt
         /\ refused' = (refused /\ r = rtt)
    ELSE UNCHANGED <<extHighestSNOverridden, rtt>> /\ refused' = TRUE

\* A report that names an older sequence number is out of order and changes
\* nothing here.
UpdateFromReceiverReport(lsn, r) ==
    IF extHighestSNOverridden = Never \/ extHighestSNOverridden <= lsn
    THEN /\ extHighestSNOverridden' = lsn
         /\ rtt' = r
         /\ refused' = (refused /\ r = rtt)
    ELSE UNCHANGED <<extHighestSNOverridden, rtt>> /\ refused' = TRUE

\* handleRTCP with a receiver report that took delay and whose round trip is r;
\* r is the statistics' own when the report names no sender report.  A changed
\* round trip goes to the sequencer, whether or not the report was in order.
ReceiverReport(delay, r) ==
    /\ bound /\ delay <= now
    /\ ~srSent => r = rtt
    /\ UpdateFromReceiverReport(highestSNAt(now - delay), r)
    /\ seqRtt' = IF r # rtt /\ r # 0 THEN r ELSE seqRtt
    /\ out' = NoReport
    /\ UNCHANGED <<now, srVars, trackVars>>

RTTs == MinDelay + MinDelay .. MaxDelay + MaxDelay

Next == \/ Tick \/ Close
        \/ \E delay \in Delays : SenderReport(delay) \/ Update(delay)
        \/ SnapshotRtcpReceptionReport
        \/ GetRtcpSenderReportDataExt \/ GetRtcpSenderReport
        \/ \E delay \in Delays, r \in RTTs \cup {rtt} : ReceiverReport(delay, r)

Spec == Init /\ [][Next]_vars

-----------------------------------------------------------------------------
Data == {None} \cup [ntp : 1 .. MaxTime + Skew, rtp : 1 .. MaxTime + Skew,
                     arrival : 0 .. MaxTime,
                     owd : MinDelay - Skew .. MaxDelay - Skew]

\* The shape of the state: the smoothed one-way delay stays within the delays
\* that occur, whatever the difference of the clocks.
TypeOK ==
    /\ now \in 0 .. MaxTime
    /\ srDataExt \in Data /\ read \in Data
    /\ bound \in BOOLEAN /\ srSent \in BOOLEAN /\ refused \in BOOLEAN
    /\ extHighestSNOverridden \in {Never} \cup 0 .. MaxTime
    /\ rtt \in {0} \cup RTTs /\ seqRtt \in {defaultRtt} \cup RTTs

\* The publisher can measure its round trip: a reception report names the latest
\* sender report that came, though reports overtake each other, and its delay
\* counts from an arrival of that report.
NamesNewestReport ==
    out.kind = "rr" => /\ out.lsr = newest
                       /\ (now - out.dlsr) + Skew - out.lsr \in Delays

\* The RTP time of a sender report to the receiver is what the publisher's RTP
\* clock showed one network delay ago, whatever the difference of the clocks, the
\* order of the publisher's reports and the branch taken.
MediaTimeTrue == out.kind = "sr" => (now + Skew) - out.rtp \in Delays

\* The sequencer waits with retransmissions for the round-trip time that the
\* statistics know, unless a report came out of order since that time last
\* changed (UpdateFromReceiverReport returns isRttChanged for a report it does
\* not accept).
RttAgrees == rtt # 0 /\ ~refused => seqRtt = rtt
=============================================================================
