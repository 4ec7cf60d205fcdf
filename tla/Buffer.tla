------------------------------- MODULE Buffer -------------------------------
(***************************************************************************)
(* The packet buffers of the producers (pkg/buffer/buffer.go), the factory *)
(* that finds them by SSRC and the pools their memory comes from           *)
(* (factory.go).                                                           *)
(*                                                                         *)
(* pion's SRTP session obtains a buffer from the factory and writes the    *)
(* packets it decrypts to it; AddProducer binds it to a codec; the         *)
(* producer's worker reads it; RTPReceiver.Stop closes it.  Each operation *)
(* holds the buffer's lock, except the first look of ReadExtended at       *)
(* closed and the removal from the factory at the end of Close, which      *)
(* takes the factory's lock.                                               *)
(*                                                                         *)
(* Sequence numbers do not wrap here: the arithmetic of wrapping is that   *)
(* of RtpStats.  Reports, header extensions, key-frame detection and the   *)
(* frame rate do not decide what is kept, read or asked for again.  The    *)
(* NACK queue of the library also forgets a number it has asked for often  *)
(* enough; here a number stays until its packet comes.                     *)
(***************************************************************************)
EXTENDS Integers, Sequences

CONSTANTS SSRCs,
          Codecs,       \* the mime types a stream may have, by its SSRC
          MaxBuffers,   \* bound on the buffers made; also names their memory
          MaxSn,        \* bound on the sequence numbers of a stream
          MaxWrites,    \* bound on the packets written to the buffers
          BucketSize,   \* packets a bucket holds
          Parses        \* what may become of the bytes of a packet, by its
                        \* number: see Outcomes

\* The bytes are read, or refused by pion's Unmarshal (for their padding, say)
\* or by the codec's parser in getExtPacket.
Outcomes == {"read", "badRTP", "badPayload"}

ASSUME BufferConstants ==
    /\ Codecs \in [SSRCs -> SUBSET {"video", "audio", "red"}]
    /\ MaxBuffers \in Nat \ {0} /\ MaxSn \in Nat \ {0}
    /\ MaxWrites \in Nat \ {0} /\ BucketSize \in Nat \ {0}
    /\ Parses \in [1 .. MaxSn -> SUBSET Outcomes \ {{}}]

Buffers == 1 .. MaxBuffers
SN == 1 .. MaxSn
Slabs == 1 .. MaxBuffers
NoSlab == 0
\* audio/red takes its memory from the audio pool.
Pools == {"video", "audio"}
poolOf(codec) == IF codec = "video" THEN "video" ELSE "audio"

VARIABLES rtpBuffers,   \* Factory.rtpBuffers: ssrc -> buffer, 0 for none
          made,         \* buffers made so far
          written,      \* packets written so far
          buf,          \* the buffers
          pool,         \* how often a slab is in a pool
          fresh,        \* slabs the pools have made
          reader,       \* where the producer is: in the loop of Bind, or in its
                        \* worker's ReadExtended
          closing,      \* buffers whose Close has still to tell the factory
          touched,      \* the slab the last step read or wrote
          got           \* history: the packets ReadExtended returned, in order

vars == <<rtpBuffers, made, written, buf, pool, fresh, reader, closing, touched, got>>

\* head and stored are the bucket's, highest is the statistics'.
NewBuffer(ssrc) ==
    [ssrc |-> ssrc, bound |-> FALSE, bindDone |-> FALSE, closed |-> FALSE,
     codec |-> "none", slab |-> NoSlab, pPackets |-> <<>>, extPackets |-> <<>>,
     head |-> 0, stored |-> {}, highest |-> 0, seen |-> {}, nacker |-> {}]

Init == /\ rtpBuffers = [s \in SSRCs |-> 0]
        /\ made = 0
        /\ written = 0
        /\ buf = [b \in {} |-> NewBuffer(0)]
        /\ pool = [p \in Pools |-> [s \in Slabs |-> 0]]
        /\ fresh = 0
        /\ reader = [b \in Buffers |-> "idle"]
        /\ closing = {}
        /\ touched = NoSlab
        /\ got = [b \in Buffers |-> <<>>]

\* The first packet of an SSRC; a later one finds the buffer in the map.
GetOrNew(ssrc) ==
    /\ rtpBuffers[ssrc] = 0
    /\ made < MaxBuffers
    /\ made' = made + 1
    /\ rtpBuffers' = [rtpBuffers EXCEPT ![ssrc] = made + 1]
    /\ buf' = [b \in 1 .. made + 1 |-> IF b <= made THEN buf[b] ELSE NewBuffer(ssrc)]
    /\ touched' = NoSlab
    /\ UNCHANGED <<written, pool, fresh, reader, closing, got>>

-----------------------------------------------------------------------------
(* calc.                                                                   *)

\* bucket.AddPacket stores a packet that is newer than the newest, or that it
\* lacks and has a place for.
AddPacket(r, sn) == \/ r.head = 0 \/ sn > r.head
                    \/ sn > r.head - BucketSize /\ sn \notin r.stored

\* Mutant: the packet that came is not taken out of the NACK queue.
updateStreamStateKeeps(r, sn) ==
    [r EXCEPT !.highest = IF @ = 0 \/ sn > @ THEN sn ELSE @,
              !.seen = @ \cup {sn},
              !.nacker = @ \cup IF r.highest = 0 THEN {} ELSE r.highest + 1 .. sn - 1]

\* Mutant: the first packet is taken for one after a gap.
updateStreamStateFromZero(r, sn) ==
    [r EXCEPT !.highest = IF @ = 0 \/ sn > @ THEN sn ELSE @,
              !.seen = @ \cup {sn},
              !.nacker = (@ \ {sn}) \cup (r.highest .. sn - 1)]

\* RTPStats.Update and the NACK queue, also for a packet the bucket refused.
updateStreamState(r, sn) ==
    [r EXCEPT !.highest = IF @ = 0 \/ sn > @ THEN sn ELSE @,
              !.seen = @ \cup {sn},
              !.nacker = IF r.codec = "red" THEN {}
                         ELSE (@ \ {sn}) \cup IF r.highest = 0 THEN {}
                                              ELSE r.highest + 1 .. sn - 1]

\* A packet that cannot be read is kept, but not handed on.
forwarded(r, sn, parse) ==
    LET h == IF r.head = 0 \/ sn > r.head THEN sn ELSE r.head
    IN  [r EXCEPT !.head = h,
                  !.stored = {n \in @ \cup {sn} : n > h - BucketSize},
                  !.extPackets = IF parse = "read" THEN Append(@, sn) ELSE @]

\* A packet with a bad header is not counted, whether the bucket took it or not.
counted(r, sn, parse) == IF parse = "badRTP" THEN r ELSE updateStreamState(r, sn)

\* Mutant: a packet the bucket refused is forwarded too.
calcForwardsAll(r, sn, parse) == forwarded(counted(r, sn, parse), sn, parse)

calc(r, sn, parse) == IF AddPacket(r, sn) THEN forwarded(counted(r, sn, parse), sn, parse)
                                          ELSE counted(r, sn, parse)

-----------------------------------------------------------------------------
\* sync.Pool.Get: a slab that was put back, or a new one.
PoolGet(p, slab) ==
    \/ /\ pool[p][slab] > 0
       /\ pool' = [pool EXCEPT ![p][slab] = @ - 1]
       /\ fresh' = fresh
    \/ /\ slab = fresh + 1
       /\ fresh' = fresh + 1
       /\ pool' = pool

\* Bind, and Close until the factory has been told, hold the buffer's lock.
Locked(b) == reader[b] = "bind" \/ b \in closing

\* Bind takes memory for the bucket; for audio/red (with NACK feedback) it
\* returns early.
Bind(b, codec) ==
    /\ ~Locked(b) /\ ~buf[b].bindDone
    /\ \E slab \in Slabs :
         /\ PoolGet(poolOf(codec), slab)
         /\ buf' = [buf EXCEPT ![b] = [buf[b] EXCEPT !.codec = codec, !.slab = slab,
                                                     !.bindDone = TRUE]]
    /\ reader' = [reader EXCEPT ![b] = IF codec = "red" THEN "check" ELSE "bind"]
    /\ touched' = NoSlab
    /\ UNCHANGED <<rtpBuffers, made, written, closing, got>>

\* The packets that came before are worked off ...
BindNext(b) ==
    LET sn == Head(buf[b].pPackets)
    IN  /\ reader[b] = "bind" /\ buf[b].pPackets # <<>>
        /\ \E parse \in Parses[sn] :
             buf' = [buf EXCEPT ![b] = [calc(buf[b], sn, parse) EXCEPT !.pPackets = Tail(@)]]
        /\ touched' = buf[b].slab
        /\ UNCHANGED <<rtpBuffers, made, written, pool, fresh, reader, closing, got>>

\* ... and the buffer is bound; the producer's worker starts.
BindEnd(b) ==
    /\ reader[b] = "bind" /\ buf[b].pPackets = <<>>
    /\ buf' = [buf EXCEPT ![b].bound = TRUE]
    /\ reader' = [reader EXCEPT ![b] = "check"]
    /\ touched' = NoSlab
    /\ UNCHANGED <<rtpBuffers, made, written, pool, fresh, closing, got>>

Write(b, sn) ==
    /\ ~Locked(b) /\ ~buf[b].closed
    /\ written < MaxWrites
    /\ written' = written + 1
    /\ \E parse \in Parses[sn] :
         buf' = [buf EXCEPT ![b] = IF buf[b].bound THEN calc(buf[b], sn, parse)
                                   ELSE [buf[b] EXCEPT !.pPackets = Append(@, sn)]]
    /\ touched' = IF buf[b].bound THEN buf[b].slab ELSE NoSlab
    /\ UNCHANGED <<rtpBuffers, made, pool, fresh, reader, closing, got>>

\* Mutant: the look at closed is missing.
ReadCheckBlind(b) ==
    /\ reader[b] = "check"
    /\ reader' = [reader EXCEPT ![b] = "lock"]
    /\ touched' = NoSlab
    /\ UNCHANGED <<rtpBuffers, made, written, buf, pool, fresh, closing, got>>

\* ReadExtended looks at closed before it takes the lock ...
ReadCheck(b) ==
    /\ reader[b] = "check"
    /\ reader' = [reader EXCEPT ![b] = IF buf[b].closed THEN "eof" ELSE "lock"]
    /\ touched' = NoSlab
    /\ UNCHANGED <<rtpBuffers, made, written, buf, pool, fresh, closing, got>>

\* Mutant: the second look is missing.
getPacketBlind(b, sn) == sn \in buf[b].stored

\* ... and getPacket looks again: no packet is read from a closed buffer.
getPacket(b, sn) == ~buf[b].closed /\ sn \in buf[b].stored

\* A packet that the bucket has no more is skipped.
ReadExtended(b) ==
    LET sn == Head(buf[b].extPackets)
    IN  /\ reader[b] = "lock" /\ ~Locked(b)
        /\ buf[b].extPackets # <<>>
        /\ buf' = [buf EXCEPT ![b].extPackets = Tail(@)]
        /\ got' = IF getPacket(b, sn) THEN [got EXCEPT ![b] = Append(@, sn)] ELSE got
        /\ touched' = IF getPacket(b, sn) THEN buf[b].slab ELSE NoSlab
        /\ reader' = [reader EXCEPT ![b] = "check"]
        /\ UNCHANGED <<rtpBuffers, made, written, pool, fresh, closing>>

ReadNothing(b) ==
    /\ reader[b] = "lock" /\ ~Locked(b)
    /\ buf[b].extPackets = <<>>
    /\ reader' = [reader EXCEPT ![b] = "check"]
    /\ touched' = NoSlab
    /\ UNCHANGED <<rtpBuffers, made, written, buf, pool, fresh, closing, got>>

\* GetPacket, for a retransmission: it holds the lock for its whole length.
GetPacket(b, sn) ==
    /\ ~Locked(b) /\ getPacket(b, sn)
    /\ touched' = buf[b].slab
    /\ UNCHANGED <<rtpBuffers, made, written, buf, pool, fresh, reader, closing, got>>

\* Mutant: closeOnce is missing.
CloseAgain(b) ==
    /\ ~Locked(b)
    /\ buf' = [buf EXCEPT ![b].closed = TRUE]
    /\ pool' = IF buf[b].slab = NoSlab THEN pool
               ELSE [pool EXCEPT ![poolOf(buf[b].codec)][buf[b].slab] = @ + 1]
    /\ closing' = closing \cup {b}
    /\ touched' = NoSlab
    /\ UNCHANGED <<rtpBuffers, made, written, fresh, reader, got>>

\* Close runs once; a later call changes nothing.
Close(b) ==
    /\ ~Locked(b) /\ ~buf[b].closed
    /\ buf' = [buf EXCEPT ![b].closed = TRUE]
    /\ pool' = IF buf[b].slab = NoSlab THEN pool
               ELSE [pool EXCEPT ![poolOf(buf[b].codec)][buf[b].slab] = @ + 1]
    /\ closing' = closing \cup {b}
    /\ touched' = NoSlab
    /\ UNCHANGED <<rtpBuffers, made, written, fresh, reader, got>>

\* Mutant: the callback runs for every call of Close.
OnCloseAgain(b) ==
    /\ b \in closing
    /\ rtpBuffers' = [rtpBuffers EXCEPT ![buf[b].ssrc] = 0]
    /\ touched' = NoSlab
    /\ UNCHANGED <<made, written, buf, pool, fresh, reader, closing, got>>

\* onClose: the factory forgets whatever it has under the SSRC.
OnClose(b) ==
    /\ b \in closing
    /\ rtpBuffers' = [rtpBuffers EXCEPT ![buf[b].ssrc] = 0]
    /\ closing' = closing \ {b}
    /\ touched' = NoSlab
    /\ UNCHANGED <<made, written, buf, pool, fresh, reader, got>>

Next == \/ \E ssrc \in SSRCs : GetOrNew(ssrc)
        \/ \E b \in 1 .. made :
             \/ \E codec \in Codecs[buf[b].ssrc] : Bind(b, codec)
             \/ BindNext(b) \/ BindEnd(b)
             \/ \E sn \in SN : Write(b, sn) \/ GetPacket(b, sn)
             \/ ReadCheck(b) \/ ReadExtended(b) \/ ReadNothing(b)
             \/ Close(b) \/ OnClose(b)

\* The worker polls, and a Bind or a Close that has begun ends.
Fairness == \A b \in Buffers :
    /\ WF_vars(b <= made /\ (ReadCheck(b) \/ ReadExtended(b) \/ ReadNothing(b)))
    /\ WF_vars(b <= made /\ (BindNext(b) \/ BindEnd(b)))
    /\ WF_vars(b <= made /\ OnClose(b))

Spec == Init /\ [][Next]_vars /\ Fairness

-----------------------------------------------------------------------------
Buffer ==
    [ssrc : SSRCs, bound : BOOLEAN, bindDone : BOOLEAN, closed : BOOLEAN,
     codec : {"none", "video", "audio", "red"}, slab : {NoSlab} \cup Slabs,
     pPackets : Seq(SN), extPackets : Seq(SN),
     head : {0} \cup SN, stored : SUBSET SN,
     highest : {0} \cup SN, seen : SUBSET SN, nacker : SUBSET SN]

\* The shape of the buffers and of the factory's map; the pools make no more
\* memory than there are buffers, and a bound buffer has its memory and no
\* pending packets.
TypeOK ==
    /\ made \in 0 .. MaxBuffers /\ written \in 0 .. MaxWrites /\ fresh \in 0 .. MaxBuffers
    /\ rtpBuffers \in [SSRCs -> 0 .. made]
    /\ buf \in [1 .. made -> Buffer]
    /\ pool \in [Pools -> [Slabs -> Nat]]
    /\ reader \in [Buffers -> {"idle", "bind", "check", "lock", "eof"}]
    /\ closing \subseteq 1 .. made
    /\ touched \in {NoSlab} \cup Slabs
    /\ got \in [Buffers -> Seq(SN)]
    /\ \A b \in 1 .. made :
         buf[b].bound => buf[b].slab # NoSlab /\ buf[b].pPackets = <<>>

\* The open buffers that hold a slab.
Owners(slab) == {b \in 1 .. made : buf[b].slab = slab /\ ~buf[b].closed}

\* Memory is never shared: a slab is in one pool once or belongs to one open
\* buffer, however Close, Bind and the reader interleave.
MemoryNotShared ==
    \A slab \in Slabs :
        /\ \A p \in Pools : pool[p][slab] <= 1
        /\ ~(pool["video"][slab] = 1 /\ pool["audio"][slab] = 1)
        /\ (\E p \in Pools : pool[p][slab] = 1) => Owners(slab) = {}
        /\ \A b, c \in Owners(slab) : b = c

\* A packet is neither stored in nor copied from memory that Close has given
\* back to the pool, though the reader's look at closed is outside the lock.
NoUseAfterClose == touched # NoSlab => \A p \in Pools : pool[p][touched] = 0

\* The reader gets every packet at most once, although a duplicate or an old
\* packet is counted: "do not forward those packets" (buffer.go 368-373).
ForwardedOnce ==
    \A b \in Buffers : \A i, j \in 1 .. Len(got[b]) : got[b][i] = got[b][j] => i = j

\* A NACK names only packets that have not come, whatever came before Bind, late
\* or twice.
NacksOnlyMissing == \A b \in 1 .. made : buf[b].nacker \cap buf[b].seen = {}

\* GetOrNew finds every open buffer under its SSRC, and a closed one only while
\* its Close is under way: onClose removes whatever has the SSRC, and that is
\* never the buffer of a stream that came after.
FactoryFindsOpen ==
    \A b \in 1 .. made :
        LET found == rtpBuffers[buf[b].ssrc] = b
        IN  /\ ~buf[b].closed => found
            /\ buf[b].closed /\ found => b \in closing

\* The worker learns that its buffer was closed, and the factory forgets the
\* buffer.
CloseIsSeen ==
    \A b \in Buffers :
        (b <= made /\ buf[b].closed /\ reader[b] # "idle")
            ~> (reader[b] = "eof" /\ \A s \in SSRCs : rtpBuffers[s] # b)
=============================================================================
