------------------------------ MODULE DownTrack ------------------------------
(***************************************************************************)
(* A down track (pkg/rtc/downtrack.go): it renumbers the packets of one    *)
(* producer for one receiver, keeps them in its sequencer, and sends them  *)
(* again when the receiver asks.                                           *)
(*                                                                         *)
(* Four kinds of goroutine work on it without a common lock: the           *)
(* producer's read worker (WriteRTP), the RTCP callback (handleRTCP),      *)
(* whoever calls Mute (one at a time), Unbind or Close, and one goroutine  *)
(* per NACK packet (retransmitPackets).  WriteRTP, Mute and                *)
(* retransmitPackets are cut where another goroutine's step can change     *)
(* what they read next, or come between their stores.                      *)
(*                                                                         *)
(* The timestamp is renumbered the way the sequence number is (tsOffset,   *)
(* lastTS) and is left out.                                                *)
(***************************************************************************)
EXTENDS Sequencer, FiniteSets

CONSTANTS Video,        \* kind: TRUE for video, FALSE for audio
          FirstSrcs,    \* sequence numbers a producer may start with
          MaxSrc,       \* bound on the packets of the producer
          Rtx           \* goroutines of retransmitPackets

ASSUME DownTrackConstants ==
    /\ Video \in BOOLEAN
    /\ FirstSrcs \subseteq 0 .. SNMod - 1
    /\ MaxSrc \in 1 .. SNMod \div 2 - 1
    /\ Packets = 0 .. SNMod - 1

VARIABLES bound, enabled, syncRequired, started, snOffset, lastSN,
          muting,       \* a call of Mute is between its two stores
          attached,     \* Bind has set the RTCP callback and the sequencer
          closed,       \* Close has run: stats stopped, RTCP callback removed
          next,         \* the next source sequence number of the producer
          arrived,      \* source numbers handed to WriteRTP
          writer,       \* the call of WriteRTP in progress
          rtx,          \* the retransmit goroutines
          out,          \* what the last step wrote: a packet to the receiver, or
                        \* a PLI to the producer (buffer.SendPLI)
          ungated,      \* history: delta packets sent since the last request to
                        \* sync with no key frame before them
          used          \* history: the numbers given to packets since the track
                        \* last had to sync

trackVars == <<bound, enabled, syncRequired, started, snOffset, lastSN, muting,
               attached, closed>>
dtVars == <<seqVars, trackVars, next, arrived, writer, rtx, out, ungated, used>>

Idle == [pc |-> "idle", sn |-> 0, key |-> FALSE]
Quiet == [kind |-> "none"]
Pli(force) == [kind |-> "pli", force |-> force]
\* promised maps the records a goroutine was handed to what they held then and
\* how many packets were pushed after them; lapse counts the pushes since, up
\* to MaxTrack.
NoRtx == [pc |-> "idle", nacks |-> {}, metas |-> {}, cur |-> Nil, src |-> 0,
          promised |-> [k \in {} |-> 0], lapse |-> MaxTrack]

NewDownTrack ==
    /\ newSequencer
    /\ bound = FALSE /\ enabled = FALSE /\ syncRequired = FALSE /\ muting = FALSE
    /\ started = FALSE /\ snOffset = 0 /\ lastSN = 0
    /\ attached = FALSE /\ closed = FALSE
    /\ next \in FirstSrcs
    /\ arrived = {}
    /\ writer = Idle
    /\ rtx = [g \in Rtx |-> NoRtx]
    /\ out = Quiet
    /\ ungated = 0 /\ used = {}

\* pion binds a sender's track once, when the sender starts.
Bind == /\ ~attached
        /\ attached' = TRUE /\ bound' = TRUE /\ enabled' = TRUE
        /\ syncRequired' = TRUE /\ ungated' = 0
        /\ out' = Quiet
        /\ UNCHANGED <<seqVars, started, snOffset, lastSN, muting, closed, next,
                       arrived, writer, rtx, used>>

Unbind == /\ bound
          /\ bound' = FALSE
          /\ out' = Quiet
          /\ UNCHANGED <<seqVars, enabled, syncRequired, started, snOffset, lastSN,
                         muting, attached, closed, next, arrived, writer, rtx,
                         ungated, used>>

\* Mute enables or disables the track ...
Mute(val) == /\ enabled = val /\ ~muting
             /\ enabled' = ~val /\ muting' = TRUE
             /\ out' = Quiet
             /\ UNCHANGED <<seqVars, bound, syncRequired, started, snOffset, lastSN,
                            attached, closed, next, arrived, writer, rtx, ungated,
                            used>>

\* Mutant: a track that is enabled again does not ask for a key frame.
MuteKeepsSync ==
    /\ muting
    /\ muting' = FALSE /\ ungated' = 0
    /\ out' = Quiet
    /\ UNCHANGED <<seqVars, bound, enabled, syncRequired, started, snOffset, lastSN,
                   attached, closed, next, arrived, writer, rtx, used>>

\* ... and then sets syncRequired; WriteRTP may run in between.
MuteSync ==
    /\ muting
    /\ muting' = FALSE /\ syncRequired' = TRUE /\ ungated' = 0
    /\ out' = Quiet
    /\ UNCHANGED <<seqVars, bound, enabled, started, snOffset, lastSN, attached,
                   closed, next, arrived, writer, rtx, used>>

Close == /\ bound
         /\ bound' = FALSE /\ closed' = TRUE
         /\ out' = Quiet
         /\ UNCHANGED <<seqVars, enabled, syncRequired, started, snOffset, lastSN,
                        muting, attached, next, arrived, writer, rtx, ungated, used>>

-----------------------------------------------------------------------------
(* WriteRTP.                                                               *)

\* The producer's packets come in order, one may be lost, and the one before
\* the newest may come late.
Arrivals == {sn \in {next, (next + 1) % SNMod, (next - 2) % SNMod} :
               sn \notin arrived /\ (sn = (next - 2) % SNMod => arrived # {})}

WriteRTP(sn, key) ==
    /\ writer.pc = "idle"
    /\ Cardinality(arrived) < MaxSrc
    /\ sn \in Arrivals
    /\ arrived' = arrived \cup {sn}
    /\ next' = IF sn = (next - 2) % SNMod THEN next ELSE (sn + 1) % SNMod
    /\ writer' = IF enabled /\ bound THEN [pc |-> "sync", sn |-> sn, key |-> key]
                                     ELSE Idle
    /\ out' = Quiet
    /\ UNCHANGED <<seqVars, trackVars, rtx, ungated, used>>

\* Mutant: every key frame is taken for the start of the stream.
CheckSyncEveryKey ==
    /\ writer.pc = "sync"
    /\ \/ /\ syncRequired /\ Video /\ ~writer.key
          /\ writer' = Idle
          /\ out' = Pli(TRUE)
       \/ /\ writer.key \/ ~Video
          /\ writer' = [writer EXCEPT !.pc = "resync"]
          /\ out' = Quiet
       \/ /\ ~syncRequired /\ Video /\ ~writer.key
          /\ writer' = [writer EXCEPT !.pc = "send"]
          /\ out' = Quiet
    /\ UNCHANGED <<seqVars, trackVars, next, arrived, rtx, ungated, used>>

\* syncRequired.Load(): a video packet that is no key frame is dropped.
CheckSync ==
    /\ writer.pc = "sync"
    /\ \/ /\ syncRequired /\ Video /\ ~writer.key
          /\ writer' = Idle
          /\ out' = Pli(TRUE)
       \/ /\ syncRequired /\ (writer.key \/ ~Video)
          /\ writer' = [writer EXCEPT !.pc = "resync"]
          /\ out' = Quiet
       \/ /\ ~syncRequired
          /\ writer' = [writer EXCEPT !.pc = "send"]
          /\ out' = Quiet
    /\ UNCHANGED <<seqVars, trackVars, next, arrived, rtx, ungated, used>>

Resync ==
    /\ writer.pc = "resync"
    /\ snOffset' = IF lastSN # 0 THEN (writer.sn - lastSN - 1) % SNMod ELSE snOffset
    /\ used' = IF syncRequired THEN {} ELSE used
    /\ syncRequired' = FALSE
    /\ writer' = [writer EXCEPT !.pc = "send"]
    /\ out' = Quiet
    /\ UNCHANGED <<seqVars, bound, enabled, started, lastSN, muting, attached,
                   closed, next, arrived, rtx, ungated>>

Lapsed(r) == [r EXCEPT !.lapse = IF @ < MaxTrack THEN @ + 1 ELSE @]

\* Mutant: the number is not cut to 16 bits.
newSNWide == writer.sn - snOffset

newSN == (writer.sn - snOffset) % SNMod

\* The write fails when the transport is down (ok is FALSE): the packet is in
\* the sequencer all the same.
SendRTP(ok) ==
    /\ writer.pc = "send"
    /\ IF Video
         THEN push(writer.sn, newSN) /\ rtx' = [g \in Rtx |-> Lapsed(rtx[g])]
         ELSE UNCHANGED <<seqVars, rtx>>
    /\ started' = TRUE
    /\ lastSN' = IF started THEN lastSN ELSE newSN
    /\ out' = IF ok THEN [kind |-> "rtp", sn |-> newSN, pkt |-> writer.sn,
                          key |-> writer.key, fresh |-> newSN \notin used]
                    ELSE Quiet
    /\ used' = used \cup {newSN}
    /\ ungated' = IF writer.key \/ ~Video THEN -1
                  ELSE IF ok /\ ungated >= 0 THEN ungated + 1 ELSE ungated
    /\ writer' = Idle
    /\ UNCHANGED <<bound, enabled, syncRequired, snOffset, muting, attached, closed,
                   next, arrived>>

-----------------------------------------------------------------------------
(* handleRTCP and retransmitPackets.                                       *)

Asked(r, nacks) == [r EXCEPT !.pc = "lookup", !.nacks = nacks]

\* A compound packet: whether it holds a PLI or FIR, the numbers of its NACK
\* and the changed round-trip time of its receiver report (0: none).
handleRTCP(wantsKey, nacks, r) ==
    /\ attached /\ ~closed
    /\ out' = IF wantsKey /\ enabled THEN Pli(FALSE) ELSE Quiet
    /\ IF nacks = {} THEN rtx' = rtx
       ELSE \E g \in Rtx : /\ rtx[g].pc = "idle"
                           /\ rtx' = [rtx EXCEPT ![g] = Asked(rtx[g], nacks)]
    /\ IF r # 0 /\ Video THEN setRTT(r) ELSE UNCHANGED seqVars
    /\ UNCHANGED <<trackVars, next, arrived, writer, ungated, used>>

\* The records are handed out as pointers; an audio track has no sequencer.
RtxLookup(g) ==
    /\ rtx[g].pc = "lookup"
    /\ IF Video
         THEN LET sns == answered(rtx[g].nacks)
                  ks == {lookup(sn) : sn \in sns}
              IN  /\ getPacketsMeta(rtx[g].nacks)
                  /\ rtx' = [rtx EXCEPT ![g] =
                       [pc |-> IF ks = {} THEN "idle" ELSE "read", nacks |-> {},
                        metas |-> ks, cur |-> Nil, src |-> 0, lapse |-> 0,
                        promised |-> [k \in ks |->
                          [sn |-> meta[k].targetSeqNo, pkt |-> meta[k].pkt,
                           age |-> (metaWritePtr - 1 - k) % MaxTrack]]]]
         ELSE rtx' = [rtx EXCEPT ![g] = NoRtx] /\ UNCHANGED seqVars
    /\ out' = Quiet
    /\ UNCHANGED <<trackVars, next, arrived, writer, ungated, used>>

\* The loop goes on with the records that are left, or ends.
Rest(r, metas) == [r EXCEPT !.pc = IF metas = {} THEN "idle" ELSE "read",
                            !.metas = metas, !.cur = Nil, !.src = 0]

Fetched(r, k, pkt) == [r EXCEPT !.pc = "write", !.cur = k, !.src = pkt]

\* producer.ReadRTP(meta.sourceSeqNo): it finds the packet, or has it no more
\* (the next record is tried), or its buffer is closed (the loop is left).
RtxRead(g) ==
    /\ rtx[g].pc = "read"
    /\ \E k \in rtx[g].metas :
         \/ rtx' = [rtx EXCEPT ![g] = Fetched(rtx[g], k, meta[k].pkt)]
         \/ rtx' = [rtx EXCEPT ![g] = Rest(rtx[g], rtx[g].metas \ {k})]
         \/ rtx' = [rtx EXCEPT ![g] = Rest(rtx[g], {})]
    /\ out' = Quiet
    /\ UNCHANGED <<seqVars, trackVars, next, arrived, writer, ungated, used>>

\* Mutant: the header is written from some record of the list, not from the one
\* whose packet was read.
RtxWriteAny(g) ==
    \E k \in rtx[g].metas :
        /\ rtx[g].pc = "write"
        /\ out' = [kind |-> "rtx", sn |-> meta[k].targetSeqNo, pkt |-> rtx[g].src,
                   promised |-> rtx[g].promised[k],
                   age |-> rtx[g].promised[k].age + rtx[g].lapse]
        /\ rtx' = [rtx EXCEPT ![g] = Rest(rtx[g], rtx[g].metas \ {k})]
        /\ UNCHANGED <<seqVars, trackVars, next, arrived, writer, ungated, used>>

\* The header takes meta.targetSeqNo as it is now.
RtxWrite(g) ==
    LET k == rtx[g].cur
    IN  /\ rtx[g].pc = "write"
        /\ out' = [kind |-> "rtx", sn |-> meta[k].targetSeqNo, pkt |-> rtx[g].src,
                   promised |-> rtx[g].promised[k],
                   age |-> rtx[g].promised[k].age + rtx[g].lapse]
        /\ rtx' = [rtx EXCEPT ![g] = Rest(rtx[g], rtx[g].metas \ {k})]
        /\ UNCHANGED <<seqVars, trackVars, next, arrived, writer, ungated, used>>

Clock == /\ Tick
         /\ out' = Quiet
         /\ UNCHANGED <<trackVars, next, arrived, writer, rtx, ungated, used>>

Next == \/ Bind \/ Unbind \/ Close
        \/ \E val \in BOOLEAN : Mute(val)
        \/ MuteSync
        \/ \E sn \in SN, key \in BOOLEAN : WriteRTP(sn, key)
        \/ CheckSync \/ Resync
        \/ \E ok \in BOOLEAN : SendRTP(ok)
        \/ \E wantsKey \in BOOLEAN, nacks \in NackLists \cup {{}}, r \in RTTs :
             handleRTCP(wantsKey, nacks, r)
        \/ \E g \in Rtx : RtxLookup(g) \/ RtxRead(g) \/ RtxWrite(g)
        \/ Clock

Spec == NewDownTrack /\ [][Next]_dtVars

-----------------------------------------------------------------------------
Call == [pc : {"idle", "sync", "resync", "send"}, sn : SN, key : BOOLEAN]

Promise == [sn : SN, pkt : Packets, age : 0 .. MaxTrack - 1]

Promises == UNION {[K -> Promise] : K \in SUBSET Metas}

Goroutine ==
    [pc : {"idle", "lookup", "read", "write"}, nacks : SUBSET SN,
     metas : SUBSET Metas, cur : Metas \cup {Nil}, src : Packets,
     promised : Promises, lapse : 0 .. MaxTrack]

\* The fields of the track keep their width, and a retransmit goroutine works
\* only on records it was handed.
TypeOK ==
    /\ SeqTypeOK
    /\ bound \in BOOLEAN /\ enabled \in BOOLEAN /\ syncRequired \in BOOLEAN
    /\ started \in BOOLEAN /\ attached \in BOOLEAN /\ closed \in BOOLEAN
    /\ muting \in BOOLEAN
    /\ snOffset \in SN /\ lastSN \in SN /\ next \in SN /\ arrived \subseteq SN
    /\ writer \in Call
    /\ rtx \in [Rtx -> Goroutine]
    /\ \A g \in Rtx : /\ rtx[g].metas \subseteq DOMAIN rtx[g].promised
                      /\ rtx[g].pc = "write" => rtx[g].cur \in rtx[g].metas
    /\ ungated \in -1 .. MaxSrc /\ used \subseteq SN

\* retransmitPackets reads the records getPacketsMeta hands it after the
\* sequencer's lock is released.  As long as fewer than MaxTrack packets were
\* pushed after the one asked for, before and after the NACK together, what it
\* sends is that packet under its own number.
RetransmitsWhatWasAsked ==
    out.kind = "rtx" /\ out.age < MaxTrack =>
        out.sn = out.promised.sn /\ out.pkt = out.promised.pkt

\* Once Bind or Mute has set syncRequired, a key frame is written to a video
\* receiver before any delta frame, except for the one packet that had passed the
\* check of syncRequired before.  (syncRequired is cleared before the write, so a
\* key frame whose write fails counts; what is written between the two stores of
\* Mute is not covered.)
KeyFrameFirst == ungated <= 1

\* Between one sync and the next, writeSimpleRTP gives no number to two packets,
\* although they come late or with gaps and the number wraps: "must not be
\* shared" (sequencer.go 34-37).  Over a sync it may (lastSN is not kept up).
NumbersNotShared == out.kind = "rtp" => out.fresh
=============================================================================
