------------------------------ MODULE Sequencer ------------------------------
(***************************************************************************)
(* The sequencer of a down track (pkg/rtc/sequencer.go): the memory that   *)
(* turns a NACK for an outgoing sequence number into the packet to send    *)
(* again.                                                                  *)
(*                                                                         *)
(* seq is a ring of Max = MaxTrack + MaxPadding pointers, one per outgoing *)
(* number, into the smaller ring meta of MaxTrack records.  A meta record  *)
(* is overwritten while old slots still point to it; the targetSeqNo in it *)
(* is what tells such a stale pointer from a live one.                     *)
(*                                                                         *)
(* Every operation holds the mutex to its end, so each is one action.      *)
(***************************************************************************)
EXTENDS Integers

CONSTANTS SNMod,        \* 2^16, the range of a uint16 sequence number
          MaxTrack,     \* records in meta
          MaxPadding,   \* further slots in seq
          Packets,      \* <<sourceSeqNo, timestamp, layer>> of a packet
          NackLists,    \* sets of numbers a receiver asks for at once
          RTTs,         \* values setRTT is called with
          DefaultRtt, IgnoreRetransmission,
          NackMod,      \* 2^8, the range of packetMeta.nacked
          MaxTime       \* bound of the clock, in ms since startTime

Max == MaxTrack + MaxPadding

ASSUME SequencerConstants ==
    /\ SNMod \in Nat /\ SNMod > 1
    /\ Packets # {}
    /\ MaxTrack \in Nat \ {0}
    /\ MaxPadding \in Nat
    /\ 2 * Max <= SNMod
    /\ NackLists \subseteq SUBSET (0 .. SNMod - 1)
    /\ DefaultRtt \in Nat /\ RTTs \subseteq Nat
    /\ IgnoreRetransmission \in Nat
    /\ NackMod \in Nat \ {0}
    /\ MaxTime \in Nat

SN == 0 .. SNMod - 1
Slots == 0 .. Max - 1
Metas == 0 .. MaxTrack - 1

\* The nil pointer; a pointer into meta is the index of the record.
Nil == -1

VARIABLES init, seq, meta, metaWritePtr, step, headSN, rtt,
          now,          \* time.Now() - startTime
          reply         \* the packets the last step returned, by target number

seqVars == <<init, seq, meta, metaWritePtr, step, headSN, rtt, now, reply>>

packetMeta == [pkt : Packets, targetSeqNo : SN,
               lastNack : 0 .. MaxTime, nacked : 0 .. NackMod - 1]

\* The zero value of a record: never pointed to, so its fields do not matter.
ZeroMeta == [pkt |-> CHOOSE p \in Packets : TRUE, targetSeqNo |-> 0,
             lastNack |-> 0, nacked |-> 0]

newSequencer ==
    /\ init = FALSE
    /\ seq = [i \in Slots |-> Nil]
    /\ meta = [k \in Metas |-> ZeroMeta]
    /\ metaWritePtr = 0
    /\ step = 0
    /\ headSN = 0
    /\ rtt = DefaultRtt
    /\ now = 0
    /\ reply = {}

wrap(s) == s % Max

setRTT(r) == /\ rtt' = IF r = 0 THEN DefaultRtt ELSE r
             /\ reply' = {}
             /\ UNCHANGED <<init, seq, meta, metaWritePtr, step, headSN, now>>

-----------------------------------------------------------------------------
(* getSlot: its two results (slot, validSlot) and what it leaves in the    *)
(* sequencer (head, nextStep, invalidated).                                *)

head(offSn) == IF init THEN headSN ELSE (offSn - 1) % SNMod
diff(offSn) == (offSn - head(offSn)) % SNMod
back(offSn) == (head(offSn) - offSn) % SNMod

inOrder(offSn) == diff(offSn) # 0 /\ diff(offSn) <= SNMod \div 2
outOfOrder(offSn) == diff(offSn) > SNMod \div 2

validSlot(offSn) == inOrder(offSn) \/ (outOfOrder(offSn) /\ back(offSn) < Max)

slot(offSn) == IF outOfOrder(offSn) THEN wrap(step - back(offSn) - 1)
                                    ELSE wrap(step + diff(offSn) - 1)

nextHead(offSn) == IF inOrder(offSn) THEN offSn ELSE head(offSn)

nextStep(offSn) == IF inOrder(offSn) THEN wrap(step + diff(offSn)) ELSE step

\* The slots of the numbers that an in-order number skips.
intervening(offSn) ==
    IF inOrder(offSn) THEN {wrap(step + idx) : idx \in 0 .. diff(offSn) - 2}
                      ELSE {}

\* Mutant: the numbers that are skipped keep their old pointers.
invalidatedNot(offSn) == seq

invalidated(offSn) == [i \in Slots |-> IF i \in intervening(offSn) THEN Nil ELSE seq[i]]

getSlot(offSn) == /\ init' = TRUE
                  /\ headSN' = nextHead(offSn)
                  /\ step' = nextStep(offSn)

-----------------------------------------------------------------------------
\* Mutant: the write pointer may point past the ring.
nextWritePtrPast == IF metaWritePtr + 1 > MaxTrack THEN metaWritePtr + 1 - MaxTrack
                                                   ELSE metaWritePtr + 1

nextWritePtr == IF metaWritePtr + 1 >= MaxTrack THEN metaWritePtr + 1 - MaxTrack
                                                ELSE metaWritePtr + 1

push(pkt, offSn) ==
    /\ getSlot(offSn)
    /\ IF validSlot(offSn)
         THEN /\ meta' = [meta EXCEPT ![metaWritePtr] =
                            [pkt |-> pkt, targetSeqNo |-> offSn,
                             lastNack |-> 0, nacked |-> 0]]
              /\ seq' = [invalidated(offSn) EXCEPT ![slot(offSn)] = metaWritePtr]
              /\ metaWritePtr' = nextWritePtr
         ELSE UNCHANGED <<seq, meta, metaWritePtr>>
    /\ reply' = {}
    /\ UNCHANGED <<rtt, now>>

pushPadding(offSn) ==
    /\ getSlot(offSn)
    /\ IF validSlot(offSn)
         THEN seq' = [invalidated(offSn) EXCEPT ![slot(offSn)] = Nil]
         ELSE UNCHANGED seq
    /\ reply' = {}
    /\ UNCHANGED <<meta, metaWritePtr, rtt, now>>

-----------------------------------------------------------------------------
\* The pointer a NACK for sn finds, or Nil: sn is ahead of the head, too old,
\* was never pushed, or its record has been reused.
lookup(sn) ==
    LET d == (headSN - sn) % SNMod
        k == seq[wrap(step - d - 1)]
    IN  IF d > SNMod \div 2 \/ d >= Max \/ k = Nil THEN Nil
        ELSE IF meta[k].targetSeqNo = sn THEN k ELSE Nil

threshold == IF 2 * rtt < IgnoreRetransmission THEN 2 * rtt
                                               ELSE IgnoreRetransmission

due(k) == meta[k].lastNack = 0 \/ now - meta[k].lastNack > threshold

\* The numbers of seqNo whose packets getPacketsMeta returns.  A list that names
\* a number twice is two calls at the same time: the loop reads the clock once.
answered(seqNo) == {sn \in seqNo : lookup(sn) # Nil /\ due(lookup(sn))}

getPacketsMeta(seqNo) ==
    /\ meta' = [k \in Metas |->
                  IF \E sn \in answered(seqNo) : lookup(sn) = k
                    THEN [meta[k] EXCEPT !.nacked = (@ + 1) % NackMod,
                                         !.lastNack = now]
                    ELSE meta[k]]
    /\ reply' = {[sn |-> sn, pkt |-> meta[lookup(sn)].pkt] : sn \in answered(seqNo)}
    /\ UNCHANGED <<init, seq, metaWritePtr, step, headSN, rtt, now>>

Tick == /\ now' \in now + 1 .. MaxTime
        /\ reply' = {}
        /\ UNCHANGED <<init, seq, meta, metaWritePtr, step, headSN, rtt>>

SeqNext == \/ \E pkt \in Packets, offSn \in SN : push(pkt, offSn)
           \/ \E offSn \in SN : pushPadding(offSn)
           \/ \E r \in RTTs : setRTT(r)
           \/ \E seqNo \in NackLists : getPacketsMeta(seqNo)
           \/ Tick

SeqSpec == newSequencer /\ [][SeqNext]_seqVars

-----------------------------------------------------------------------------
\* Every pointer of the ring is nil or an index of meta, and the indices and
\* counters stay inside their rings (sequencer.go 93-105).
SeqTypeOK ==
    /\ init \in BOOLEAN
    /\ seq \in [Slots -> Metas \cup {Nil}]
    /\ meta \in [Metas -> packetMeta]
    /\ metaWritePtr \in Metas
    /\ step \in Slots
    /\ headSN \in SN
    /\ rtt \in Nat
    /\ now \in 0 .. MaxTime
    /\ reply \subseteq [sn : SN, pkt : Packets]

\* Before the first push there is nothing to answer a NACK with: the head moves
\* to just before the first number without invalidating a slot.
NothingBeforeInit == ~init => \A i \in Slots : seq[i] = Nil

\* The distances back from the head whose packets a NACK would find, and what
\* it would find there.
remembered == {b \in 0 .. Max - 1 : lookup((headSN - b) % SNMod) # Nil}

rememberedAt(b) ==
    LET k == lookup((headSN - b) % SNMod)
    IN  [pkt |-> meta[k].pkt, age |-> (metaWritePtr - 1 - k) % MaxTrack,
         lastNack |-> meta[k].lastNack, nacked |-> meta[k].nacked]

window == [b \in remembered |-> rememberedAt(b)]

RW == INSTANCE RetransmissionWindow
        WITH Window <- Max, Memory <- MaxTrack,
             started <- init, newest <- headSN, hist <- window

\* The two rings of push, pushPadding, getSlot and getPacketsMeta implement a
\* memory of the last MaxTrack packets: a NACK is answered with the last packet
\* sent under that number since the head last passed it, never with one of an
\* earlier cycle or one whose record was reused, and with nothing only when the
\* packet is more than MaxTrack packets or Max numbers old.
ImplementsWindow == RW!Spec
=============================================================================
