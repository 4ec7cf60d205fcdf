-------------------------- MODULE DownTrackProofs --------------------------
(***************************************************************************)
(* Proofs about Sequencer and DownTrack, for any rings, any range of       *)
(* sequence numbers and any number of retransmit goroutines.  The first    *)
(* part is about the sequencer alone: it keeps its types and implements    *)
(* RetransmissionWindow.  The second is about the down track around it:    *)
(* what is sent again is what was asked for, a key frame comes first, and  *)
(* no number is given to two packets.                                      *)
(***************************************************************************)
EXTENDS DownTrack, TLAPS

-----------------------------------------------------------------------------
(* Remainders.                                                             *)

\* A remainder lies below the modulus.
LEMMA ModRange ==
    ASSUME NEW m \in Nat \ {0}, NEW a \in Int
    PROVE  a % m \in 0 .. m - 1
BY Z3

\* A number below the modulus is its own remainder.
LEMMA ModSmall ==
    ASSUME NEW m \in Nat \ {0}, NEW a \in 0 .. m - 1
    PROVE  a % m = a
BY Z3

\* A number written as a multiple of m plus r, with r below m, has the remainder r.
LEMMA ModUnique ==
    ASSUME NEW m \in Nat \ {0}, NEW a \in Int, NEW q \in Int,
           NEW r \in 0 .. m - 1, a = m * q + r
    PROVE  a % m = r
BY SMT

\* Quotient and remainder give the number back.
LEMMA ModDivision ==
    ASSUME NEW m \in Nat \ {0}, NEW a \in Int
    PROVE  a \div m \in Int /\ a = m * (a \div m) + (a % m)
BY SMT

\* A multiple of m may be added.
LEMMA ModMultiple ==
    ASSUME NEW m \in Nat \ {0}, NEW a \in Int, NEW q \in Int
    PROVE  (a + m * q) % m = a % m
<1>1. a = m * (a \div m) + (a % m) /\ a \div m \in Int
  BY ModDivision
<1>2. a % m \in 0 .. m - 1
  BY ModRange
<1>3. a + m * q = m * ((a \div m) + q) + (a % m)
  BY <1>1, <1>2, SMT
<1>. DEFINE s == a + m * q
            t == (a \div m) + q
            r == a % m
<1>4. s \in Int /\ t \in Int /\ r \in 0 .. m - 1 /\ s = m * t + r
  BY <1>1, <1>2, <1>3, SMT
<1>. HIDE DEF s, t, r
<1>5. s % m = r
  BY <1>4, ModUnique
<1>. QED
  BY <1>5 DEF s, r

\* A summand may be replaced by its remainder.
LEMMA ModAdd ==
    ASSUME NEW m \in Nat \ {0}, NEW a \in Int, NEW b \in Int
    PROVE  /\ ((a % m) + b) % m = (a + b) % m
           /\ (b - (a % m)) % m = (b - a) % m
<1>. DEFINE q == a \div m
            r == a % m
<1>1. q \in Int /\ r \in Int /\ a = m * q + r
  BY ModDivision, ModRange
<1>. HIDE DEF q, r
<1>2. /\ r + b \in Int /\ b - r \in Int /\ -q \in Int
      /\ a + b = (r + b) + m * q /\ b - a = (b - r) + m * (-q)
  BY <1>1, SMT
<1>3. ((r + b) + m * q) % m = (r + b) % m
  BY <1>1, <1>2, ModMultiple
<1>4. ((b - r) + m * (-q)) % m = (b - r) % m
  BY <1>1, <1>2, ModMultiple
<1>. QED
  BY <1>2, <1>3, <1>4 DEF r

\* Remainders of numbers less than m apart are equal only for equal numbers.
LEMMA ModInjective ==
    ASSUME NEW m \in Nat \ {0}, NEW a \in Int, NEW b \in Int,
           a - b < m, b - a < m, a % m = b % m
    PROVE  a = b
<1>. DEFINE q == a \div m
            p == b \div m
            r == a % m
<1>1. q \in Int /\ p \in Int /\ r \in 0 .. m - 1 /\ a = m * q + r /\ b = m * p + r
  BY ModDivision, ModRange
<1>. HIDE DEF q, p, r
<1>2. a - b = m * (q - p)
  BY <1>1, SMT
<1>3. q - p = 0
  <2>1. CASE q - p >= 1
    <3>1. m * (q - p) >= m
      BY <2>1, <1>1, SMT
    <3>. QED
      BY <3>1, <1>2, <1>1
  <2>2. CASE q - p <= -1
    <3>1. m * (q - p) <= -m
      BY <2>2, <1>1, SMT
    <3>. QED
      BY <3>1, <1>2, <1>1
  <2>. QED
    BY <2>1, <2>2, <1>1
<1>. QED
  BY <1>1, <1>3

-----------------------------------------------------------------------------
(* Types.                                                                  *)

\* What the assumptions on the constants say of the two rings and of half the number range.
LEMMA ConstantFacts ==
    /\ SNMod \in Nat \ {0} /\ Max \in Nat \ {0} /\ MaxTrack \in Nat \ {0}
    /\ NackMod \in Nat \ {0} /\ MaxPadding \in Nat /\ MaxTrack <= Max
    /\ 2 * Max <= SNMod /\ SNMod > 1
    /\ Max <= SNMod \div 2 /\ SNMod \div 2 \in Nat /\ SNMod \div 2 < SNMod
BY SequencerConstants, SMT DEF Max

\* wrap returns an index of the ring seq.
LEMMA WrapType == ASSUME NEW s \in Int PROVE wrap(s) \in Slots
BY ModRange, ConstantFacts DEF wrap, Slots

\* What getSlot computes stays in range: heads and distances are 16-bit numbers,
\* slots are indices of seq, and invalidating slots leaves a ring of pointers.
LEMMA SlotType ==
    ASSUME SeqTypeOK, NEW offSn \in SN
    PROVE  /\ head(offSn) \in SN /\ diff(offSn) \in SN /\ back(offSn) \in SN
           /\ slot(offSn) \in Slots /\ nextStep(offSn) \in Slots
           /\ nextHead(offSn) \in SN
           /\ invalidated(offSn) \in [Slots -> Metas \cup {Nil}]
<1>1. head(offSn) \in SN
  BY ModRange, ConstantFacts DEF head, SN, SeqTypeOK
<1>2. diff(offSn) \in SN /\ back(offSn) \in SN
  <2>1. offSn - head(offSn) \in Int /\ head(offSn) - offSn \in Int
    BY <1>1, ConstantFacts DEF SN
  <2>. QED
    BY <2>1, ModRange, ConstantFacts DEF diff, back, SN
<1>3. slot(offSn) \in Slots /\ nextStep(offSn) \in Slots
  <2>1. /\ step - back(offSn) - 1 \in Int /\ step + diff(offSn) - 1 \in Int
        /\ step + diff(offSn) \in Int /\ step \in Slots
    BY <1>2, ConstantFacts DEF SN, SeqTypeOK, Slots
  <2>. QED
    BY <2>1, WrapType DEF slot, nextStep
<1>4. nextHead(offSn) \in SN
  BY <1>1 DEF nextHead
<1>5. invalidated(offSn) \in [Slots -> Metas \cup {Nil}]
  BY DEF invalidated, SeqTypeOK
<1>. QED
  BY <1>1, <1>2, <1>3, <1>4, <1>5

\* A pointer that getPacketsMeta finds is an index of meta.
LEMMA LookupType ==
    ASSUME SeqTypeOK, NEW sn \in SN, lookup(sn) # Nil
    PROVE  lookup(sn) \in Metas
<1>. DEFINE d == (headSN - sn) % SNMod
<1>1. d \in SN
  BY ModRange, ConstantFacts DEF SN, SeqTypeOK
<1>2. wrap(step - d - 1) \in Slots
  <2>1. step - d - 1 \in Int
    BY <1>1, ConstantFacts DEF SN, SeqTypeOK, Slots
  <2>. QED
    BY <2>1, WrapType
<1>. HIDE DEF d
<1>3. seq[wrap(step - d - 1)] \in Metas \cup {Nil}
  BY <1>2 DEF SeqTypeOK
<1>. QED
  BY <1>3 DEF lookup, d

\* The write pointer of push stays inside meta.
LEMMA NextWritePtrType == ASSUME SeqTypeOK PROVE nextWritePtr \in Metas
BY ConstantFacts DEF SeqTypeOK, nextWritePtr, Metas

\* The record push writes.
LEMMA PushedMetaType ==
    ASSUME NEW pkt \in Packets, NEW offSn \in SN
    PROVE  [pkt |-> pkt, targetSeqNo |-> offSn, lastNack |-> 0, nacked |-> 0] \in packetMeta
BY SequencerConstants, ConstantFacts DEF packetMeta

\* A new sequencer is well typed.
LEMMA InitTypeOK == newSequencer => SeqTypeOK
<1>. SUFFICES ASSUME newSequencer PROVE SeqTypeOK
  OBVIOUS
<1>1. ZeroMeta \in packetMeta
  <2>1. (CHOOSE p \in Packets : TRUE) \in Packets
    BY SequencerConstants
  <2>2. 0 \in SN
    BY ConstantFacts DEF SN
  <2>. QED
    BY <2>1, <2>2, PushedMetaType DEF ZeroMeta
<1>2. seq \in [Slots -> Metas \cup {Nil}] /\ meta \in [Metas -> packetMeta]
  BY <1>1 DEF newSequencer
<1>3. metaWritePtr \in Metas /\ step \in Slots /\ headSN \in SN
  BY ConstantFacts DEF newSequencer, Slots, Metas, SN
<1>4. rtt \in Nat /\ now \in 0 .. MaxTime
  BY SequencerConstants DEF newSequencer
<1>5. init \in BOOLEAN /\ reply \subseteq [sn : SN, pkt : Packets]
  BY Zenon DEF newSequencer
<1>. QED
  BY <1>2, <1>3, <1>4, <1>5 DEF SeqTypeOK

\* Every operation keeps the sequencer well typed.
LEMMA StepTypeOK == SeqTypeOK /\ [SeqNext]_seqVars => SeqTypeOK'
<1>. SUFFICES ASSUME SeqTypeOK, [SeqNext]_seqVars PROVE SeqTypeOK'
  OBVIOUS
<1>1. ASSUME NEW pkt \in Packets, NEW offSn \in SN, push(pkt, offSn)
      PROVE  SeqTypeOK'
  <2>1. init' \in BOOLEAN /\ headSN' \in SN /\ step' \in Slots
    BY <1>1, SlotType DEF push, getSlot
  <2>2. CASE validSlot(offSn)
    <3>1. meta' \in [Metas -> packetMeta]
      BY <1>1, <2>2, PushedMetaType DEF push, SeqTypeOK
    <3>2. seq' \in [Slots -> Metas \cup {Nil}]
      BY <1>1, <2>2, SlotType DEF push, SeqTypeOK
    <3>3. metaWritePtr' \in Metas
      BY <1>1, <2>2, NextWritePtrType DEF push
    <3>. QED
      BY <1>1, <2>1, <3>1, <3>2, <3>3 DEF push, SeqTypeOK
  <2>3. CASE ~validSlot(offSn)
    BY <1>1, <2>1, <2>3 DEF push, SeqTypeOK
  <2>. QED
    BY <2>2, <2>3
<1>2. ASSUME NEW offSn \in SN, pushPadding(offSn) PROVE SeqTypeOK'
  <2>1. init' \in BOOLEAN /\ headSN' \in SN /\ step' \in Slots
    BY <1>2, SlotType DEF pushPadding, getSlot
  <2>2. seq' \in [Slots -> Metas \cup {Nil}]
    BY <1>2, SlotType DEF pushPadding, SeqTypeOK
  <2>. QED
    BY <1>2, <2>1, <2>2 DEF pushPadding, SeqTypeOK
<1>3. ASSUME NEW r \in RTTs, setRTT(r) PROVE SeqTypeOK'
  BY <1>3, SequencerConstants DEF setRTT, SeqTypeOK
<1>4. ASSUME NEW seqNo \in NackLists, getPacketsMeta(seqNo) PROVE SeqTypeOK'
  <2>1. \A sn \in answered(seqNo) : sn \in SN /\ lookup(sn) \in Metas
    BY LookupType, SequencerConstants DEF answered, SN
  <2>2. meta' \in [Metas -> packetMeta]
    <3>1. \A k \in Metas : [meta[k] EXCEPT !.nacked = (@ + 1) % NackMod,
                                           !.lastNack = now] \in packetMeta
      <4>. TAKE k \in Metas
      <4>1. meta[k] \in packetMeta /\ now \in 0 .. MaxTime
        BY DEF SeqTypeOK
      <4>2. (meta[k].nacked + 1) % NackMod \in 0 .. NackMod - 1
        <5>1. meta[k].nacked + 1 \in Int
          BY <4>1, ConstantFacts DEF packetMeta
        <5>. QED
          BY <5>1, ModRange, ConstantFacts
      <4>. QED
        BY <4>1, <4>2 DEF packetMeta
    <3>. QED
      BY <1>4, <3>1 DEF getPacketsMeta, SeqTypeOK
  <2>3. reply' \subseteq [sn : SN, pkt : Packets]
    <3>1. \A sn \in answered(seqNo) :
            [sn |-> sn, pkt |-> meta[lookup(sn)].pkt] \in [sn : SN, pkt : Packets]
      BY <2>1 DEF SeqTypeOK, packetMeta
    <3>. QED
      BY <1>4, <3>1 DEF getPacketsMeta
  <2>. QED
    BY <1>4, <2>2, <2>3 DEF getPacketsMeta, SeqTypeOK
<1>5. CASE Tick
  BY <1>5, SequencerConstants DEF Tick, SeqTypeOK
<1>6. CASE UNCHANGED seqVars
  BY <1>6 DEF seqVars, SeqTypeOK
<1>. QED
  BY <1>1, <1>2, <1>3, <1>4, <1>5, <1>6 DEF SeqNext

\* Every reachable state of the sequencer (sequencer.go 93-245) keeps its
\* indices inside its rings, whatever the sizes of the rings.
THEOREM SequencerTypes == SeqSpec => []SeqTypeOK
BY InitTypeOK, StepTypeOK, PTL DEF SeqSpec

-----------------------------------------------------------------------------
(* The inductive invariant.                                                *)

SeqInv == SeqTypeOK /\ NothingBeforeInit

\* A new sequencer satisfies the inductive invariant.
LEMMA InitInv == newSequencer => SeqInv
<1>1. newSequencer => NothingBeforeInit
  BY DEF newSequencer, NothingBeforeInit
<1>. QED
  BY <1>1, InitTypeOK DEF SeqInv

\* Every operation keeps the inductive invariant: only push and pushPadding write
\* slots, and both set init.
LEMMA StepInv == SeqInv /\ [SeqNext]_seqVars => SeqInv'
<1>. SUFFICES ASSUME SeqInv, [SeqNext]_seqVars PROVE NothingBeforeInit'
  BY StepTypeOK DEF SeqInv
<1>1. CASE \/ \E pkt \in Packets, offSn \in SN : push(pkt, offSn)
           \/ \E offSn \in SN : pushPadding(offSn)
  <2>1. init' = TRUE
    BY <1>1 DEF push, pushPadding, getSlot
  <2>. QED
    BY <2>1 DEF NothingBeforeInit
<1>2. CASE \/ \E r \in RTTs : setRTT(r)
           \/ \E seqNo \in NackLists : getPacketsMeta(seqNo)
           \/ Tick
           \/ UNCHANGED seqVars
  <2>1. UNCHANGED <<init, seq>>
    BY <1>2 DEF setRTT, getPacketsMeta, Tick, seqVars
  <2>. QED
    BY <2>1 DEF NothingBeforeInit, SeqInv
<1>. QED
  BY <1>1, <1>2 DEF SeqNext

-----------------------------------------------------------------------------
(* The pointer at distance b back from the head, whether a NACK finds it,  *)
(* and what it finds: the window without the search through lookup.        *)

Back == 0 .. Max - 1
At(b) == seq[wrap(step - b - 1)]
Live(b) == At(b) # Nil /\ meta[At(b)].targetSeqNo = (headSN - b) % SNMod
Found(b) == [pkt |-> meta[At(b)].pkt, age |-> (metaWritePtr - 1 - At(b)) % MaxTrack,
             lastNack |-> meta[At(b)].lastNack, nacked |-> meta[At(b)].nacked]

\* The number b back from h, and its distance from h.
LEMMA BackOf ==
    ASSUME NEW h \in SN, NEW b \in Back
    PROVE  /\ (h - b) % SNMod \in SN
           /\ (h - ((h - b) % SNMod)) % SNMod = b
<1>1. h \in Int /\ h - b \in Int /\ b \in 0 .. SNMod - 1
  BY ConstantFacts DEF SN, Back
<1>2. (h - ((h - b) % SNMod)) % SNMod = (h - (h - b)) % SNMod
  BY <1>1, ModAdd, ConstantFacts
<1>3. h - (h - b) = b
  BY <1>1
<1>4. (h - b) % SNMod \in 0 .. SNMod - 1
  BY <1>1, ModRange, ConstantFacts
<1>. QED
  BY <1>1, <1>2, <1>3, <1>4, ModSmall, ConstantFacts DEF SN

\* The slot b back from the head holds nil or an index of meta.
LEMMA AtType ==
    ASSUME SeqTypeOK, NEW b \in Back
    PROVE  At(b) \in Metas \cup {Nil}
<1>1. step - b - 1 \in Int
  BY ConstantFacts DEF SeqTypeOK, Slots, Back
<1>. QED
  BY <1>1, WrapType DEF At, SeqTypeOK

\* Seen from the head, lookup reads one slot.
LEMMA LookupBack ==
    ASSUME SeqTypeOK, NEW b \in Back
    PROVE  /\ Live(b) => lookup((headSN - b) % SNMod) = At(b)
           /\ ~Live(b) => lookup((headSN - b) % SNMod) = Nil
<1>1. /\ (headSN - b) % SNMod \in SN
      /\ (headSN - ((headSN - b) % SNMod)) % SNMod = b
  BY BackOf DEF SeqTypeOK
<1>2. ~(b > SNMod \div 2) /\ ~(b >= Max)
  BY ConstantFacts DEF Back
<1>. QED
  BY <1>1, <1>2 DEF lookup, Live, At

\* The refinement mapping, said with Live and Found in place of lookup.
LEMMA WindowIs ==
    SeqTypeOK => /\ remembered = {b \in Back : Live(b)}
                 /\ window = [b \in {c \in Back : Live(c)} |-> Found(b)]
<1>. SUFFICES ASSUME SeqTypeOK
              PROVE  /\ remembered = {b \in Back : Live(b)}
                     /\ window = [b \in {c \in Back : Live(c)} |-> Found(b)]
  OBVIOUS
<1>1. remembered = {b \in Back : Live(b)}
  BY LookupBack DEF remembered, Back, Live
<1>2. \A b \in remembered : rememberedAt(b) = Found(b)
  BY <1>1, LookupBack DEF rememberedAt, Found
<1>. QED
  BY <1>1, <1>2 DEF window

\* The distances the mapped window knows are the live ones, and what it knows there is Found.
LEMMA WindowDomain ==
    SeqTypeOK => /\ DOMAIN window = {b \in Back : Live(b)}
                 /\ \A b \in DOMAIN window : window[b] = Found(b)
BY WindowIs

-----------------------------------------------------------------------------
(* Where the slots of the new window lie in the old ring.                  *)

\* offSn is d ahead of the head, so b back from it is b - d back from the head.
LEMMA InOrderNumbers ==
    ASSUME SeqTypeOK, NEW offSn \in SN, NEW b \in Back
    PROVE  (offSn - b) % SNMod = (head(offSn) - (b - diff(offSn))) % SNMod
<1>. DEFINE h == head(offSn)
            d == diff(offSn)
<1>1. h \in Int /\ d \in Int /\ offSn \in Int /\ b \in Int
  BY SlotType, ConstantFacts DEF SN, Back
<1>2. d = (offSn - h) % SNMod
  BY DEF diff
<1>. HIDE DEF h, d
<1>3. h - (b - d) = d + (h - b) /\ h - b \in Int /\ offSn - h \in Int
  BY <1>1
<1>4. (d + (h - b)) % SNMod = ((offSn - h) + (h - b)) % SNMod
  BY <1>2, <1>3, ModAdd, ConstantFacts
<1>5. (offSn - h) + (h - b) = offSn - b
  BY <1>1
<1>. QED
  BY <1>3, <1>4, <1>5 DEF h, d

\* After an in-order number d ahead, the slot b back from the new head is the one
\* just written, one that was invalidated, or the one that was b - d back before.
LEMMA InOrderSlots ==
    ASSUME SeqTypeOK, NEW offSn \in SN, inOrder(offSn), NEW b \in Back
    PROVE  LET i == wrap(nextStep(offSn) - b - 1)
               d == diff(offSn)
           IN  /\ i \in Slots
               /\ b = 0 => i = slot(offSn)
               /\ b # 0 => i # slot(offSn)
               /\ 0 < b /\ b < d => i \in intervening(offSn)
               /\ b >= d => /\ i \notin intervening(offSn)
                           /\ b - d \in Back
                           /\ i = wrap(step - (b - d) - 1)
<1>. DEFINE i == wrap(nextStep(offSn) - b - 1)
            d == diff(offSn)
<1>1. /\ d \in Nat /\ d >= 1 /\ step \in Int /\ b \in 0 .. Max - 1
      /\ slot(offSn) = wrap(step + d - 1)
      /\ nextStep(offSn) = wrap(step + d)
      /\ intervening(offSn) = {wrap(step + idx) : idx \in 0 .. d - 2}
  <2>1. d \in Nat /\ d >= 1 /\ ~outOfOrder(offSn)
    BY SlotType, ConstantFacts DEF inOrder, outOfOrder, SN
  <2>2. step \in Int /\ b \in 0 .. Max - 1
    BY ConstantFacts DEF SeqTypeOK, Slots, Back
  <2>. QED
    BY <2>1, <2>2 DEF slot, nextStep, intervening
<1>. HIDE DEF d
<1>2. i = wrap(step + d - b - 1)
  <2>1. step + d \in Int /\ -b - 1 \in Int /\ (step + d) + (-b - 1) = step + d - b - 1
    BY <1>1
  <2>2. (step + d) % Max \in Int
    BY <2>1, ModRange, ConstantFacts
  <2>3. ((step + d) % Max) - b - 1 = ((step + d) % Max) + (-b - 1)
    BY <2>2, <1>1
  <2>. DEFINE x == step + d
              y == -b - 1
  <2>4. x \in Int /\ y \in Int
    BY <2>1
  <2>. HIDE DEF x, y
  <2>5. ((x % Max) + y) % Max = (x + y) % Max
    BY <2>4, ModAdd, ConstantFacts
  <2>6. (((step + d) % Max) - b - 1) % Max = (step + d - b - 1) % Max
    BY <2>1, <2>3, <2>5 DEF x, y
  <2>. QED
    BY <1>1, <2>6 DEF wrap
<1>. HIDE DEF i
<1>3. i \in Slots
  BY <1>1, <1>2, WrapType, ConstantFacts
<1>4. b = 0 => i = slot(offSn)
  <2>1. b = 0 => step + d - b - 1 = step + d - 1
    BY <1>1
  <2>. QED
    BY <2>1, <1>1, <1>2
<1>5. ASSUME b # 0 PROVE i # slot(offSn)
  <2>1. /\ step + d - b - 1 \in Int /\ step + d - 1 \in Int
        /\ (step + d - b - 1) - (step + d - 1) < Max
        /\ (step + d - 1) - (step + d - b - 1) < Max
        /\ step + d - b - 1 # step + d - 1
    BY <1>1, <1>5, ConstantFacts
  <2>. QED
    BY <2>1, <1>1, <1>2, ModInjective, ConstantFacts DEF wrap
<1>6. ASSUME 0 < b, b < d PROVE i \in intervening(offSn)
  <2>1. d - b - 1 \in 0 .. d - 2 /\ step + (d - b - 1) = step + d - b - 1
    BY <1>1, <1>6
  <2>. QED
    BY <2>1, <1>1, <1>2
<1>7. ASSUME b >= d
      PROVE  /\ i \notin intervening(offSn)
             /\ b - d \in Back
             /\ i = wrap(step - (b - d) - 1)
  <2>1. b - d \in Back /\ step - (b - d) - 1 = step + d - b - 1
    BY <1>1, <1>7, ConstantFacts DEF Back
  <2>2. ASSUME NEW idx \in 0 .. d - 2 PROVE i # wrap(step + idx)
    <3>1. /\ step + idx \in Int /\ step + d - b - 1 \in Int
          /\ (step + idx) - (step + d - b - 1) < Max
          /\ (step + d - b - 1) - (step + idx) < Max
          /\ step + idx # step + d - b - 1
      BY <1>1, <1>7, ConstantFacts
    <3>. QED
      BY <3>1, <1>2, ModInjective, ConstantFacts DEF wrap
  <2>. QED
    BY <2>1, <2>2, <1>1, <1>2
<1>. QED
  BY <1>3, <1>4, <1>5, <1>6, <1>7 DEF i, d

\* A late number's slot is the one its distance back names, and no other distance names it.
LEMMA LateSlots ==
    ASSUME SeqTypeOK, NEW offSn \in SN, outOfOrder(offSn), back(offSn) < Max,
           NEW b \in Back
    PROVE  /\ back(offSn) \in Back
           /\ b = back(offSn) => wrap(step - b - 1) = slot(offSn)
           /\ b # back(offSn) => wrap(step - b - 1) # slot(offSn)
           /\ offSn = (head(offSn) - back(offSn)) % SNMod
           /\ wrap(step - b - 1) \in Slots
<1>1. /\ step \in Int /\ b \in 0 .. Max - 1 /\ back(offSn) \in 0 .. Max - 1
      /\ head(offSn) \in Int /\ offSn \in 0 .. SNMod - 1
      /\ slot(offSn) = wrap(step - back(offSn) - 1)
  <2>1. step \in Int /\ b \in 0 .. Max - 1
    BY ConstantFacts DEF SeqTypeOK, Slots, Back
  <2>2. back(offSn) \in 0 .. Max - 1 /\ head(offSn) \in Int /\ offSn \in 0 .. SNMod - 1
    BY SlotType, ConstantFacts DEF SN
  <2>. QED
    BY <2>1, <2>2 DEF slot
<1>2. ASSUME b # back(offSn) PROVE wrap(step - b - 1) # slot(offSn)
  <2>1. /\ step - b - 1 \in Int /\ step - back(offSn) - 1 \in Int
        /\ (step - b - 1) - (step - back(offSn) - 1) < Max
        /\ (step - back(offSn) - 1) - (step - b - 1) < Max
        /\ step - b - 1 # step - back(offSn) - 1
    BY <1>1, <1>2, ConstantFacts
  <2>. QED
    BY <2>1, <1>1, ModInjective, ConstantFacts DEF wrap
<1>3. offSn = (head(offSn) - back(offSn)) % SNMod
  <2>. DEFINE h == head(offSn)
  <2>1. h \in Int /\ offSn \in Int
    BY <1>1, ConstantFacts
  <2>. HIDE DEF h
  <2>2. h - offSn \in Int /\ h - (h - offSn) = offSn
    BY <2>1
  <2>3. (h - ((h - offSn) % SNMod)) % SNMod = (h - (h - offSn)) % SNMod
    BY <2>1, <2>2, ModAdd, ConstantFacts
  <2>. QED
    BY <2>2, <2>3, <1>1, ModSmall, ConstantFacts DEF back, h
<1>4. wrap(step - b - 1) \in Slots
  BY <1>1, WrapType
<1>. QED
  BY <1>1, <1>2, <1>3, <1>4 DEF Back

\* Two numbers of the window differ.
LEMMA NumbersDiffer ==
    ASSUME NEW h \in SN, NEW b \in Back, NEW c \in Back, b # c
    PROVE  (h - b) % SNMod # (h - c) % SNMod
<1>1. /\ h - b \in Int /\ h - c \in Int /\ h - b # h - c
      /\ (h - b) - (h - c) < SNMod /\ (h - c) - (h - b) < SNMod
  BY ConstantFacts DEF SN, Back
<1>. QED
  BY <1>1, ModInjective, ConstantFacts

-----------------------------------------------------------------------------
(* The ages of the records of meta.                                        *)

\* The age of a record: the one about to be overwritten is the oldest, and each
\* push makes the others one older.
LEMMA Ages ==
    ASSUME SeqTypeOK, NEW k \in Metas
    PROVE  /\ (metaWritePtr - 1 - k) % MaxTrack \in 0 .. MaxTrack - 1
           /\ k = metaWritePtr => /\ (metaWritePtr - 1 - k) % MaxTrack = MaxTrack - 1
                                  /\ (nextWritePtr - 1 - k) % MaxTrack = 0
           /\ k # metaWritePtr =>
                /\ (metaWritePtr - 1 - k) % MaxTrack < MaxTrack - 1
                /\ (nextWritePtr - 1 - k) % MaxTrack
                     = ((metaWritePtr - 1 - k) % MaxTrack) + 1
<1>. DEFINE w == metaWritePtr
            m == MaxTrack
<1>1. /\ w \in 0 .. m - 1 /\ k \in 0 .. m - 1 /\ m \in Nat \ {0}
      /\ nextWritePtr = IF w + 1 >= m THEN w + 1 - m ELSE w + 1
  BY ConstantFacts DEF SeqTypeOK, Metas, nextWritePtr
<1>. HIDE DEF w, m
<1>2. \A r \in 0 .. m - 1 : \A q \in {-1, 0, 1} : \A a \in Int : a = r + m * q => a % m = r
  BY <1>1, ModUnique
<1>3. CASE k = w
  <2>1. w - 1 - k = (m - 1) + m * (-1) /\ m - 1 \in 0 .. m - 1
    BY <1>1, <1>3
  <2>2. nextWritePtr - 1 - k = 0 + m * 0 \/ nextWritePtr - 1 - k = 0 + m * (-1)
    BY <1>1, <1>3
  <2>. QED
    BY <2>1, <2>2, <1>1, <1>2, <1>3 DEF w, m
<1>4. CASE k < w
  <2>1. w - 1 - k = (w - 1 - k) + m * 0 /\ w - 1 - k \in 0 .. m - 2
    BY <1>1, <1>4
  <2>2. \/ nextWritePtr - 1 - k = (w - k) + m * 0
        \/ nextWritePtr - 1 - k = (w - k) + m * (-1)
    BY <1>1, <1>4
  <2>. QED
    BY <2>1, <2>2, <1>1, <1>2, <1>4 DEF w, m
<1>5. CASE k > w
  <2>1. w - 1 - k = (w - 1 - k + m) + m * (-1) /\ w - 1 - k + m \in 0 .. m - 2
    BY <1>1, <1>5
  <2>2. nextWritePtr - 1 - k = (w - k + m) + m * (-1) /\ w - k + m \in 1 .. m - 1
    BY <1>1, <1>5
  <2>. QED
    BY <2>1, <2>2, <1>1, <1>2, <1>5 DEF w, m
<1>. QED
  BY <1>1, <1>3, <1>4, <1>5

-----------------------------------------------------------------------------
(* A step of the sequencer is a step of the window.                        *)

\* getSlot and the window agree on what is new, late or to be ignored.
LEMMA Classify ==
    ASSUME SeqTypeOK, NEW offSn \in SN
    PROVE  /\ RW!Ahead(offSn) = diff(offSn)
           /\ RW!IsNewer(offSn) <=> inOrder(offSn)
           /\ init => RW!Behind(offSn) = back(offSn)
           /\ RW!IsLate(offSn) <=> outOfOrder(offSn) /\ back(offSn) < Max
           /\ ~init => diff(offSn) = 1 /\ inOrder(offSn) /\ ~outOfOrder(offSn)
<1>1. ASSUME ~init PROVE diff(offSn) = 1
  <2>1. offSn \in Int /\ offSn - 1 \in Int /\ offSn - (offSn - 1) = 1
    BY ConstantFacts DEF SN
  <2>2. (offSn - ((offSn - 1) % SNMod)) % SNMod = (offSn - (offSn - 1)) % SNMod
    BY <2>1, ModAdd, ConstantFacts
  <2>3. 1 % SNMod = 1
    BY ModSmall, ConstantFacts
  <2>. QED
    BY <1>1, <2>1, <2>2, <2>3 DEF diff, head
<1>2. RW!Ahead(offSn) = diff(offSn)
  BY <1>1 DEF RW!Ahead, diff, head
<1>3. diff(offSn) \in Nat
  BY SlotType, ConstantFacts DEF SN
<1>4. RW!IsNewer(offSn) <=> inOrder(offSn)
  BY <1>2, <1>3, ConstantFacts DEF RW!IsNewer, inOrder
<1>5. init => RW!Behind(offSn) = back(offSn)
  BY DEF RW!Behind, back, head
<1>6. ~init => inOrder(offSn) /\ ~outOfOrder(offSn)
  BY <1>1, ConstantFacts DEF inOrder, outOfOrder
<1>7. RW!IsLate(offSn) <=> outOfOrder(offSn) /\ back(offSn) < Max
  BY <1>2, <1>5, <1>6 DEF RW!IsLate, outOfOrder
<1>. QED
  BY <1>1, <1>2, <1>4, <1>5, <1>6, <1>7

\* The mapping in the next state.
LEMMA WindowPrimed ==
    SeqTypeOK' => /\ DOMAIN (window') = {b \in Back : Live(b)'}
                  /\ \A b \in DOMAIN (window') : window'[b] = Found(b)'
                  /\ window' = [b \in {c \in Back : Live(c)'} |-> Found(b)']
<1>1. (SeqTypeOK => window = [b \in {c \in Back : Live(c)} |-> Found(b)])'
  BY WindowIs, PTL
<1>. QED
  BY <1>1

\* What getSlot with an in-order number does to the pointers: the number's own
\* slot is left to the caller, the skipped ones are nil, the others stay.
LEMMA InOrderPointers ==
    ASSUME SeqInv, NEW offSn \in SN, inOrder(offSn), getSlot(offSn), NEW p,
           seq' = [invalidated(offSn) EXCEPT ![slot(offSn)] = p]
    PROVE  /\ At(0)' = p
           /\ \A b \in Back : 0 < b /\ b < diff(offSn) => At(b)' = Nil
           /\ \A b \in Back : b >= diff(offSn) =>
                 /\ b - diff(offSn) \in Back
                 /\ At(b)' = At(b - diff(offSn))
                 /\ At(b)' # Nil =>
                      (headSN' - b) % SNMod = (headSN - (b - diff(offSn))) % SNMod
<1>. USE DEF SeqInv
<1>1. step' = nextStep(offSn) /\ headSN' = offSn
  BY DEF getSlot, nextHead
<1>2. slot(offSn) \in Slots /\ 0 \in Back /\ diff(offSn) \in Nat /\ diff(offSn) >= 1
  BY SlotType, ConstantFacts DEF Back, inOrder, SN
<1>3. At(0)' = p
  <2>1. wrap(nextStep(offSn) - 0 - 1) = slot(offSn)
    BY <1>2, InOrderSlots
  <2>. QED
    BY <1>1, <1>2, <2>1 DEF At, wrap, Max, invalidated
<1>4. ASSUME NEW b \in Back, b # 0
      PROVE  At(b)' = invalidated(offSn)[wrap(nextStep(offSn) - b - 1)]
  <2>1. /\ wrap(nextStep(offSn) - b - 1) \in Slots
        /\ wrap(nextStep(offSn) - b - 1) # slot(offSn)
    BY <1>4, InOrderSlots
  <2>. QED
    BY <1>1, <1>2, <2>1 DEF At, wrap, Max, invalidated
<1>5. ASSUME NEW b \in Back, 0 < b, b < diff(offSn) PROVE At(b)' = Nil
  <2>1. wrap(nextStep(offSn) - b - 1) \in intervening(offSn) \cap Slots
    BY <1>5, InOrderSlots
  <2>2. b # 0
    BY <1>5 DEF Back
  <2>. QED
    BY <1>4, <2>1, <2>2 DEF invalidated
<1>6. ASSUME NEW b \in Back, b >= diff(offSn)
      PROVE  /\ b - diff(offSn) \in Back
             /\ At(b)' = At(b - diff(offSn))
             /\ At(b)' # Nil =>
                  (headSN' - b) % SNMod = (headSN - (b - diff(offSn))) % SNMod
  <2>1. /\ wrap(nextStep(offSn) - b - 1) \in Slots \ intervening(offSn)
        /\ b - diff(offSn) \in Back
        /\ wrap(nextStep(offSn) - b - 1) = wrap(step - (b - diff(offSn)) - 1)
    BY <1>6, InOrderSlots
  <2>2. b # 0
    BY <1>2, <1>6
  <2>3. At(b)' = At(b - diff(offSn))
    BY <1>4, <2>1, <2>2 DEF invalidated, At
  <2>4. At(b)' # Nil => init
    BY <2>1, <2>3 DEF NothingBeforeInit, At
  <2>5. init => (headSN' - b) % SNMod = (headSN - (b - diff(offSn))) % SNMod
    BY <1>1, InOrderNumbers DEF head
  <2>. QED
    BY <2>1, <2>3, <2>4, <2>5
<1>. QED
  BY <1>3, <1>5, <1>6

\* A late number moves neither head nor step and changes the pointer of its own distance only.
LEMMA LatePointers ==
    ASSUME SeqInv, NEW offSn \in SN, outOfOrder(offSn), back(offSn) < Max,
           getSlot(offSn), NEW p,
           seq' = [invalidated(offSn) EXCEPT ![slot(offSn)] = p]
    PROVE  /\ init /\ headSN' = headSN /\ step' = step
           /\ back(offSn) \in Back
           /\ offSn = (headSN - back(offSn)) % SNMod
           /\ At(back(offSn))' = p
           /\ \A b \in Back : b # back(offSn) => At(b)' = At(b)
<1>. USE DEF SeqInv
<1>1. init /\ head(offSn) = headSN
  BY Classify DEF head
<1>2. ~inOrder(offSn)
  BY SlotType, ConstantFacts DEF inOrder, outOfOrder, SN
<1>3. headSN' = headSN /\ step' = step /\ invalidated(offSn) = seq
  BY <1>1, <1>2 DEF getSlot, nextHead, nextStep, invalidated, intervening, SeqTypeOK
<1>4. slot(offSn) \in Slots /\ 0 \in Back
  BY SlotType, ConstantFacts DEF Back
<1>5. back(offSn) \in Back /\ offSn = (headSN - back(offSn)) % SNMod
  BY <1>1, <1>4, LateSlots
<1>6. At(back(offSn))' = p
  <2>1. wrap(step - back(offSn) - 1) = slot(offSn)
    BY <1>5, LateSlots
  <2>2. back(offSn)' = back(offSn)
    BY <1>1, <1>3 DEF back, head, getSlot
  <2>. QED
    BY <1>3, <1>4, <2>1, <2>2 DEF At, wrap, Max, SeqTypeOK
<1>7. ASSUME NEW b \in Back, b # back(offSn) PROVE At(b)' = At(b)
  <2>1. wrap(step - b - 1) \in Slots /\ wrap(step - b - 1) # slot(offSn)
    BY <1>7, LateSlots
  <2>. QED
    BY <1>3, <2>1 DEF At, wrap, Max, SeqTypeOK
<1>. QED
  BY <1>1, <1>3, <1>5, <1>6, <1>7

\* A pointer kept by a push: the record behind it is still there unless it is
\* the one being written, which was the oldest.
LEMMA KeptByPush ==
    ASSUME SeqInv, NEW pkt \in Packets, NEW offSn \in SN,
           meta' = [meta EXCEPT ![metaWritePtr] =
                      [pkt |-> pkt, targetSeqNo |-> offSn, lastNack |-> 0, nacked |-> 0]],
           metaWritePtr' = nextWritePtr,
           NEW b \in Back, NEW c \in Back, At(b)' = At(c),
           At(b)' # Nil => /\ (headSN' - b) % SNMod = (headSN - c) % SNMod
                           /\ (headSN' - b) % SNMod # offSn
    PROVE  /\ Live(b)' <=> Live(c) /\ Found(c).age < MaxTrack - 1
           /\ Live(b)' => Found(b)' = [Found(c) EXCEPT !.age = @ + 1]
<1>. DEFINE k == At(c)
<1>1. k \in Metas \cup {Nil} /\ metaWritePtr \in Metas /\ meta \in [Metas -> packetMeta]
  BY AtType DEF SeqInv, SeqTypeOK
<1>2. CASE k = Nil
  BY <1>2 DEF Live
<1>3. CASE k # Nil /\ k = metaWritePtr
  <2>1. meta'[k].targetSeqNo = offSn
    BY <1>1, <1>3
  <2>2. ~Live(b)'
    BY <1>3, <2>1 DEF Live
  <2>3. Found(c).age = MaxTrack - 1
    BY <1>1, <1>3, Ages DEF Found, SeqInv, Nil
  <2>. QED
    BY <2>2, <2>3, ConstantFacts
<1>4. CASE k # Nil /\ k # metaWritePtr
  <2>1. meta'[k] = meta[k] /\ k \in Metas
    BY <1>1, <1>4
  <2>2. Live(b)' <=> Live(c)
    BY <1>4, <2>1 DEF Live
  <2>3. /\ Found(c).age < MaxTrack - 1
        /\ (metaWritePtr' - 1 - k) % MaxTrack = Found(c).age + 1
    BY <1>4, <2>1, Ages DEF Found, SeqInv
  <2>4. Found(b)' = [pkt |-> meta'[k].pkt, age |-> (metaWritePtr' - 1 - k) % MaxTrack,
                     lastNack |-> meta'[k].lastNack, nacked |-> meta'[k].nacked]
    BY DEF Found
  <2>5. Found(b)' = [Found(c) EXCEPT !.age = @ + 1]
    BY <2>1, <2>3, <2>4 DEF Found
  <2>. QED
    BY <2>2, <2>3, <2>5
<1>. QED
  BY <1>1, <1>2, <1>3, <1>4

\* push of an in-order number shifts the window, ages it and adds the packet at its front.
LEMMA InOrderPushWindow ==
    ASSUME SeqInv, SeqTypeOK', NEW pkt \in Packets, NEW offSn \in SN,
           push(pkt, offSn), inOrder(offSn)
    PROVE  window' = RW!With(RW!Aged(RW!Shifted(diff(offSn))), 0, RW!Fresh(pkt))
<1>. DEFINE d == diff(offSn)
            h1 == RW!Shifted(d)
            h2 == RW!Aged(h1)
<1>1. /\ getSlot(offSn) /\ headSN' = offSn /\ metaWritePtr' = nextWritePtr
      /\ meta' = [meta EXCEPT ![metaWritePtr] =
                    [pkt |-> pkt, targetSeqNo |-> offSn, lastNack |-> 0, nacked |-> 0]]
      /\ seq' = [invalidated(offSn) EXCEPT ![slot(offSn)] = metaWritePtr]
  BY DEF push, validSlot, getSlot, nextHead
<1>2. d \in Nat /\ d >= 1 /\ 0 \in Back /\ \A b \in Back : b \in Nat
  BY SlotType, ConstantFacts DEF Back, inOrder, SN, SeqInv
<1>3. /\ At(0)' = metaWritePtr
      /\ \A b \in Back : 0 < b /\ b < d => ~Live(b)'
      /\ \A b \in Back : b >= d =>
            /\ b - d \in Back
            /\ At(b)' = At(b - d)
            /\ At(b)' # Nil => (headSN' - b) % SNMod = (headSN - (b - d)) % SNMod
  BY <1>1, InOrderPointers DEF Live
<1>. HIDE DEF d
<1>4. Live(0)' /\ Found(0)' = RW!Fresh(pkt)
  <2>1. metaWritePtr \in Metas /\ metaWritePtr # Nil /\ meta \in [Metas -> packetMeta]
    BY ConstantFacts DEF SeqInv, SeqTypeOK, Metas, Nil
  <2>2. (headSN' - 0) % SNMod = offSn
    BY <1>1, ModSmall, ConstantFacts DEF SN
  <2>3. (metaWritePtr' - 1 - metaWritePtr) % MaxTrack = 0
    BY <1>1, <2>1, Ages DEF SeqInv
  <2>4. meta'[metaWritePtr] =
          [pkt |-> pkt, targetSeqNo |-> offSn, lastNack |-> 0, nacked |-> 0]
    BY <1>1, <2>1
  <2>. QED
    BY <1>3, <2>1, <2>2, <2>3, <2>4 DEF Live, Found, RW!Fresh
<1>5. \A b \in Back : b >= d =>
        /\ Live(b)' <=> Live(b - d) /\ Found(b - d).age < MaxTrack - 1
        /\ Live(b)' => Found(b)' = [Found(b - d) EXCEPT !.age = @ + 1]
  <2>. SUFFICES ASSUME NEW b \in Back, b >= d
                PROVE  /\ Live(b)' <=> Live(b - d) /\ Found(b - d).age < MaxTrack - 1
                       /\ Live(b)' => Found(b)' = [Found(b - d) EXCEPT !.age = @ + 1]
    OBVIOUS
  <2>1. (headSN' - b) % SNMod # offSn
    <3>1. b # 0
      BY <1>2
    <3>2. (offSn - b) % SNMod # (offSn - 0) % SNMod
      BY <3>1, <1>2, NumbersDiffer
    <3>. QED
      BY <1>1, <3>2, ModSmall, ConstantFacts DEF SN
  <2>. DEFINE c == b - d
  <2>2. /\ c \in Back /\ At(b)' = At(c)
        /\ At(b)' # Nil => (headSN' - b) % SNMod = (headSN - c) % SNMod
    BY <1>3
  <2>. HIDE DEF c
  <2>3. /\ Live(b)' <=> Live(c) /\ Found(c).age < MaxTrack - 1
        /\ Live(b)' => Found(b)' = [Found(c) EXCEPT !.age = @ + 1]
    BY <1>1, <2>1, <2>2, KeptByPush
  <2>. QED
    BY <2>3 DEF c
<1>6. /\ DOMAIN window = {b \in Back : Live(b)}
      /\ \A b \in DOMAIN window : window[b] = Found(b)
  BY WindowDomain DEF SeqInv
<1>7. /\ h1 = [b \in {c \in Back : c - d \in DOMAIN window} |-> window[b - d]]
      /\ h2 = [b \in {c \in DOMAIN h1 : h1[c].age < MaxTrack - 1} |->
                 [h1[b] EXCEPT !.age = @ + 1]]
  BY DEF RW!Shifted, RW!Aged, RW!Back, Back
<1>. HIDE DEF h1, h2
<1>8. DOMAIN h1 = {b \in Back : b >= d /\ Live(b - d)}
  <2>1. \A b \in Back : b - d \in DOMAIN window <=> b >= d /\ Live(b - d)
    BY <1>2, <1>3, <1>6 DEF Back
  <2>. QED
    BY <1>7, <2>1
<1>9. \A b \in DOMAIN h1 : h1[b] = Found(b - d)
  BY <1>6, <1>7, <1>8
<1>10. DOMAIN h2 = {b \in Back : b >= d /\ Live(b)'}
  BY <1>5, <1>7, <1>8, <1>9
<1>11. \A b \in DOMAIN h2 : h2[b] = Found(b)'
  BY <1>5, <1>7, <1>8, <1>9, <1>10
<1>12. {b \in Back : Live(b)'} = DOMAIN h2 \cup {0}
  BY <1>2, <1>3, <1>4, <1>10
<1>13. \A b \in DOMAIN h2 \cup {0} :
         Found(b)' = IF b = 0 THEN RW!Fresh(pkt) ELSE h2[b]
  BY <1>4, <1>11
<1>14. window' = [b \in DOMAIN h2 \cup {0} |-> IF b = 0 THEN RW!Fresh(pkt) ELSE h2[b]]
  BY <1>12, <1>13, WindowPrimed
<1>. QED
  BY <1>14 DEF RW!With, h2, h1, d

\* push of a late number ages the window and adds the packet at its distance.
LEMMA LatePushWindow ==
    ASSUME SeqInv, SeqTypeOK', NEW pkt \in Packets, NEW offSn \in SN,
           push(pkt, offSn), outOfOrder(offSn), back(offSn) < Max
    PROVE  window' = RW!With(RW!Aged(window), back(offSn), RW!Fresh(pkt))
<1>. DEFINE r == back(offSn)
            h == RW!Aged(window)
<1>1. /\ getSlot(offSn) /\ metaWritePtr' = nextWritePtr
      /\ meta' = [meta EXCEPT ![metaWritePtr] =
                    [pkt |-> pkt, targetSeqNo |-> offSn, lastNack |-> 0, nacked |-> 0]]
      /\ seq' = [invalidated(offSn) EXCEPT ![slot(offSn)] = metaWritePtr]
  BY DEF push, validSlot
<1>2. /\ headSN' = headSN /\ headSN \in SN /\ r \in Back
      /\ offSn = (headSN - r) % SNMod
      /\ \A b \in Back : b # r => At(b)' = At(b)
      /\ seq'[wrap(step' - r - 1)] = metaWritePtr
  <2>1. At(r)' = metaWritePtr /\ r' = r
    BY <1>1, LatePointers DEF back, head, getSlot
  <2>. QED
    BY <1>1, <2>1, LatePointers DEF SeqInv, SeqTypeOK, At, wrap, Max
<1>. HIDE DEF r
<1>3. \A b \in Back : b = r => Live(b)' /\ Found(b)' = RW!Fresh(pkt)
  <2>. SUFFICES ASSUME NEW b \in Back, b = r PROVE Live(b)' /\ Found(b)' = RW!Fresh(pkt)
    OBVIOUS
  <2>1. metaWritePtr \in Metas /\ metaWritePtr # Nil /\ meta \in [Metas -> packetMeta]
    BY ConstantFacts DEF SeqInv, SeqTypeOK, Metas, Nil
  <2>2. At(b)' = metaWritePtr
    BY <1>2 DEF At, wrap, Max
  <2>3. (metaWritePtr' - 1 - metaWritePtr) % MaxTrack = 0
    BY <1>1, <2>1, Ages DEF SeqInv
  <2>4. meta'[metaWritePtr] =
          [pkt |-> pkt, targetSeqNo |-> offSn, lastNack |-> 0, nacked |-> 0]
    BY <1>1, <2>1
  <2>. QED
    BY <1>2, <2>1, <2>2, <2>3, <2>4 DEF Live, Found, RW!Fresh
<1>4. \A b \in Back : b # r =>
        /\ Live(b)' <=> Live(b) /\ Found(b).age < MaxTrack - 1
        /\ Live(b)' => Found(b)' = [Found(b) EXCEPT !.age = @ + 1]
  <2>. SUFFICES ASSUME NEW b \in Back, b # r
                PROVE  /\ Live(b)' <=> Live(b) /\ Found(b).age < MaxTrack - 1
                       /\ Live(b)' => Found(b)' = [Found(b) EXCEPT !.age = @ + 1]
    OBVIOUS
  <2>1. (headSN' - b) % SNMod # offSn
    BY <1>2, NumbersDiffer
  <2>. QED
    BY <1>1, <1>2, <2>1, KeptByPush
<1>5. /\ DOMAIN window = {b \in Back : Live(b)}
      /\ \A b \in DOMAIN window : window[b] = Found(b)
  BY WindowDomain DEF SeqInv
<1>6. h = [b \in {c \in DOMAIN window : window[c].age < MaxTrack - 1} |->
             [window[b] EXCEPT !.age = @ + 1]]
  BY DEF RW!Aged
<1>. HIDE DEF h
<1>7. DOMAIN h = {b \in Back : Live(b) /\ Found(b).age < MaxTrack - 1}
  BY <1>5, <1>6
<1>8. {b \in Back : Live(b)'} = DOMAIN h \cup {r}
  BY <1>2, <1>3, <1>4, <1>7
<1>9. \A b \in DOMAIN h \cup {r} :
        Found(b)' = IF b = r THEN RW!Fresh(pkt) ELSE h[b]
  BY <1>2, <1>3, <1>4, <1>5, <1>6, <1>7
<1>10. window' = [b \in DOMAIN h \cup {r} |-> IF b = r THEN RW!Fresh(pkt) ELSE h[b]]
  BY <1>8, <1>9, WindowPrimed
<1>. QED
  BY <1>10 DEF RW!With, h, r

\* push implements Send, or Ignore when getSlot refuses the number.
LEMMA PushIsSend ==
    ASSUME SeqInv, SeqTypeOK', NEW pkt \in Packets, NEW offSn \in SN, push(pkt, offSn)
    PROVE  RW!Send(offSn, pkt) \/ RW!Ignore(offSn)
<1>. USE DEF SeqInv
<1>1. init' = TRUE /\ reply' = {} /\ UNCHANGED <<rtt, now>>
  BY DEF push, getSlot
<1>2. CASE inOrder(offSn)
  <2>1. headSN' = offSn
    BY <1>2 DEF push, getSlot, nextHead
  <2>. QED
    BY <1>1, <1>2, <2>1, InOrderPushWindow, Classify DEF RW!Send
<1>3. CASE outOfOrder(offSn) /\ back(offSn) < Max
  <2>1. init /\ headSN' = headSN
    BY <1>3, LatePointers DEF push, validSlot
  <2>. QED
    BY <1>1, <1>3, <2>1, LatePushWindow, Classify DEF RW!Send
<1>4. CASE ~inOrder(offSn) /\ ~(outOfOrder(offSn) /\ back(offSn) < Max)
  <2>1. init
    BY <1>4, Classify
  <2>2. UNCHANGED <<init, seq, meta, metaWritePtr, step, headSN>>
    BY <1>4, <1>1, <2>1 DEF push, validSlot, getSlot, nextHead, nextStep, head
  <2>3. window' = window
    BY <2>2 DEF window, remembered, rememberedAt, lookup, wrap, Max
  <2>. QED
    BY <1>1, <1>4, <2>2, <2>3, Classify DEF RW!Ignore
<1>. QED
  BY <1>2, <1>3, <1>4

\* A pointer kept while meta does not change.
LEMMA KeptByPadding ==
    ASSUME UNCHANGED <<meta, metaWritePtr>>, NEW b \in Back, NEW c \in Back,
           At(b)' = At(c),
           At(b)' # Nil => (headSN' - b) % SNMod = (headSN - c) % SNMod
    PROVE  /\ Live(b)' <=> Live(c)
           /\ Found(b)' = Found(c)
<1>1. Live(b)' <=> Live(c)
  BY DEF Live
<1>2. Found(b)' = Found(c)
  BY DEF Found
<1>. QED
  BY <1>1, <1>2

\* pushPadding implements Pad, or Ignore when getSlot refuses the number.
LEMMA PaddingIsPad ==
    ASSUME SeqInv, SeqTypeOK', NEW offSn \in SN, pushPadding(offSn)
    PROVE  RW!Pad(offSn) \/ RW!Ignore(offSn)
<1>. USE DEF SeqInv
<1>1. init' = TRUE /\ reply' = {} /\ UNCHANGED <<rtt, now, meta, metaWritePtr>>
  BY DEF pushPadding, getSlot
<1>2. /\ DOMAIN window = {b \in Back : Live(b)}
      /\ \A b \in DOMAIN window : window[b] = Found(b)
  BY WindowDomain
<1>3. CASE inOrder(offSn)
  <2>. DEFINE d == diff(offSn)
              h == RW!Shifted(d)
  <2>1. headSN' = offSn
    BY <1>3 DEF pushPadding, getSlot, nextHead
  <2>2. /\ At(0)' = Nil
        /\ \A b \in Back : 0 < b /\ b < d => At(b)' = Nil
        /\ \A b \in Back : b >= d =>
              /\ b - d \in Back
              /\ At(b)' = At(b - d)
              /\ At(b)' # Nil => (headSN' - b) % SNMod = (headSN - (b - d)) % SNMod
    BY <1>3, InOrderPointers DEF pushPadding, validSlot
  <2>3. d \in Nat /\ d >= 1 /\ 0 \in Back /\ \A b \in Back : b \in Nat
    BY <1>3, SlotType, ConstantFacts DEF Back, inOrder, SN
  <2>. HIDE DEF d
  <2>4. \A b \in Back : b < d => ~Live(b)'
    <3>1. \A b \in Back : b < d => At(b)' = Nil
      <4>. TAKE b \in Back
      <4>1. CASE b = 0
        BY <2>2, <4>1 DEF At, wrap, Max
      <4>2. CASE b # 0
        BY <2>2, <2>3, <4>2
      <4>. QED
        BY <4>1, <4>2
    <3>. QED
      BY <3>1 DEF Live
  <2>5. \A b \in Back : b >= d => (Live(b)' <=> Live(b - d)) /\ Found(b)' = Found(b - d)
    <3>. SUFFICES ASSUME NEW b \in Back, b >= d
                  PROVE  (Live(b)' <=> Live(b - d)) /\ Found(b)' = Found(b - d)
      OBVIOUS
    <3>. DEFINE c == b - d
    <3>1. /\ c \in Back /\ At(b)' = At(c)
          /\ At(b)' # Nil => (headSN' - b) % SNMod = (headSN - c) % SNMod
      BY <2>2
    <3>. HIDE DEF c
    <3>2. (Live(b)' <=> Live(c)) /\ Found(b)' = Found(c)
      BY <1>1, <3>1, KeptByPadding
    <3>. QED
      BY <3>2 DEF c
  <2>6. h = [b \in {c \in Back : c - d \in DOMAIN window} |-> window[b - d]]
    BY DEF RW!Shifted, RW!Back, Back
  <2>. HIDE DEF h
  <2>7. DOMAIN h = {b \in Back : b >= d /\ Live(b - d)}
    <3>1. \A b \in Back : b - d \in DOMAIN window <=> b >= d /\ Live(b - d)
      BY <1>2, <2>2, <2>3 DEF Back
    <3>. QED
      BY <2>6, <3>1
  <2>8. DOMAIN h \ {0} = {b \in Back : Live(b)'}
    BY <2>3, <2>4, <2>5, <2>7
  <2>9. \A b \in DOMAIN h \ {0} : h[b] = Found(b)'
    BY <1>2, <2>5, <2>6, <2>7
  <2>10. window' = [b \in DOMAIN h \ {0} |-> h[b]]
    BY <2>8, <2>9, WindowPrimed
  <2>11. window' = RW!Without(RW!Shifted(diff(offSn)), 0)
    BY <2>10 DEF RW!Without, h, d
  <2>. QED
    BY <1>1, <1>3, <2>1, <2>11, Classify DEF RW!Pad
<1>4. CASE outOfOrder(offSn) /\ back(offSn) < Max
  <2>. DEFINE r == back(offSn)
  <2>1. /\ init /\ headSN' = headSN /\ r \in Back
        /\ \A b \in Back : b # r => At(b)' = At(b)
        /\ At(r)' = Nil /\ r' = r
    BY <1>4, LatePointers DEF pushPadding, validSlot, back, head, getSlot
  <2>2. seq'[wrap(step' - r - 1)] = Nil
    BY <2>1 DEF At, wrap, Max
  <2>. HIDE DEF r
  <2>3. \A b \in Back : b = r => ~Live(b)'
    BY <2>2 DEF Live, At, wrap, Max
  <2>4. \A b \in Back : b # r => (Live(b)' <=> Live(b)) /\ Found(b)' = Found(b)
    BY <1>1, <2>1, KeptByPadding
  <2>5. DOMAIN window \ {r} = {b \in Back : Live(b)'}
    BY <1>2, <2>3, <2>4
  <2>6. \A b \in DOMAIN window \ {r} : window[b] = Found(b)'
    BY <1>2, <2>4
  <2>7. window' = [b \in DOMAIN window \ {r} |-> window[b]]
    BY <2>5, <2>6, WindowPrimed
  <2>8. window' = RW!Without(window, back(offSn))
    BY <2>7 DEF RW!Without, r
  <2>. QED
    BY <1>1, <1>4, <2>1, <2>8, Classify DEF RW!Pad
<1>5. CASE ~inOrder(offSn) /\ ~(outOfOrder(offSn) /\ back(offSn) < Max)
  <2>1. init
    BY <1>5, Classify
  <2>2. UNCHANGED <<init, seq, meta, metaWritePtr, step, headSN>>
    BY <1>5, <1>1, <2>1 DEF pushPadding, validSlot, getSlot, nextHead, nextStep, head
  <2>3. window' = window
    BY <2>2 DEF window, remembered, rememberedAt, lookup, wrap, Max
  <2>. QED
    BY <1>1, <1>5, <2>2, <2>3, Classify DEF RW!Ignore
<1>. QED
  BY <1>3, <1>4, <1>5

\* A number that lookup finds is the one b back from the head for a live b.
LEMMA LookupFound ==
    ASSUME SeqTypeOK, NEW sn \in SN, lookup(sn) # Nil
    PROVE  \E b \in Back : sn = (headSN - b) % SNMod /\ Live(b)
<1>. DEFINE b == (headSN - sn) % SNMod
<1>1. headSN \in Int /\ sn \in Int /\ headSN - sn \in Int /\ sn \in 0 .. SNMod - 1
  BY ConstantFacts DEF SeqTypeOK, SN
<1>2. b \in 0 .. SNMod - 1
  BY <1>1, ModRange, ConstantFacts
<1>3. ~(b >= Max)
  BY DEF lookup
<1>4. b \in Back
  BY <1>2, <1>3, ConstantFacts DEF Back
<1>5. (headSN - ((headSN - sn) % SNMod)) % SNMod = (headSN - (headSN - sn)) % SNMod
  BY <1>1, ModAdd, ConstantFacts
<1>6. headSN - (headSN - sn) = sn
  BY <1>1
<1>7. (headSN - b) % SNMod = sn
  BY <1>1, <1>5, <1>6, ModSmall, ConstantFacts
<1>. HIDE DEF b
<1>8. Live(b)
  BY <1>4, <1>7, LookupBack
<1>. QED
  BY <1>4, <1>7, <1>8

\* getPacketsMeta implements Nack: it answers and marks the same packets.
LEMMA NackIsNack ==
    ASSUME SeqInv, SeqTypeOK', NEW seqNo \in NackLists, getPacketsMeta(seqNo)
    PROVE  RW!Nack(seqNo)
<1>. USE DEF SeqInv
<1>. DEFINE num(b) == (headSN - b) % SNMod
            D == {b \in DOMAIN window : num(b) \in seqNo /\ RW!Due(b)}
            bumped(k) == \E sn \in answered(seqNo) : lookup(sn) = k
<1>1. UNCHANGED <<init, seq, metaWritePtr, step, headSN, rtt, now>>
  BY DEF getPacketsMeta
<1>2. /\ DOMAIN window = {b \in Back : Live(b)}
      /\ \A b \in DOMAIN window : window[b] = Found(b)
  BY WindowDomain
<1>3. \A b \in Back : Live(b) => At(b) \in Metas /\ lookup(num(b)) = At(b)
                               /\ meta[At(b)].targetSeqNo = num(b) /\ At(b) # Nil
  BY AtType, LookupBack DEF Live
<1>4. \A sn \in SN : lookup(sn) # Nil => \E b \in Back : sn = num(b) /\ Live(b)
  BY LookupFound
<1>5. \A b \in Back : Live(b) => (RW!Due(b) <=> due(At(b)))
  <2>. SUFFICES ASSUME NEW b \in Back, Live(b) PROVE RW!Due(b) <=> due(At(b))
    OBVIOUS
  <2>1. window[b].lastNack = meta[At(b)].lastNack
    BY <1>2 DEF Found
  <2>. QED
    BY <2>1 DEF RW!Due, RW!Threshold, due, threshold
<1>6. answered(seqNo) = {num(b) : b \in D}
  <2>1. seqNo \subseteq SN
    BY SequencerConstants DEF SN
  <2>2. ASSUME NEW b \in D PROVE num(b) \in answered(seqNo)
    BY <1>2, <1>3, <1>5 DEF answered
  <2>3. ASSUME NEW sn \in answered(seqNo) PROVE \E b \in D : sn = num(b)
    <3>1. sn \in SN /\ sn \in seqNo /\ lookup(sn) # Nil /\ due(lookup(sn))
      BY <2>1 DEF answered
    <3>2. PICK b \in Back : sn = num(b) /\ Live(b)
      BY <3>1, <1>4
    <3>. QED
      BY <3>1, <3>2, <1>2, <1>3, <1>5
  <2>. QED
    BY <2>2, <2>3
<1>7. \A b \in Back : Live(b) => (bumped(At(b)) <=> b \in D)
  <2>. SUFFICES ASSUME NEW b \in Back, Live(b) PROVE bumped(At(b)) <=> b \in D
    OBVIOUS
  <2>1. ASSUME b \in D PROVE bumped(At(b))
    <3>1. num(b) \in answered(seqNo) /\ lookup(num(b)) = At(b)
      BY <2>1, <1>3, <1>6
    <3>. QED
      BY <3>1
  <2>2. ASSUME bumped(At(b)) PROVE b \in D
    <3>1. PICK c \in D : lookup(num(c)) = At(b)
      BY <2>2, <1>6
    <3>2. c \in Back /\ Live(c) /\ At(c) = At(b)
      BY <3>1, <1>2, <1>3
    <3>3. num(c) = num(b)
      BY <3>2, <1>3
    <3>4. c = b
      BY <3>2, <3>3, NumbersDiffer DEF SeqTypeOK
    <3>. QED
      BY <3>4
  <2>. QED
    BY <2>1, <2>2
<1>8. reply' = {[sn |-> num(b), pkt |-> window[b].pkt] : b \in D}
  <2>1. \A b \in D : meta[lookup(num(b))].pkt = window[b].pkt
    BY <1>2, <1>3 DEF Found
  <2>2. reply' = {[sn |-> sn, pkt |-> meta[lookup(sn)].pkt] : sn \in answered(seqNo)}
    BY DEF getPacketsMeta
  <2>. HIDE DEF num, D
  <2>. QED
    BY <1>6, <2>1, <2>2
<1>9. \A k \in Metas :
        meta'[k] = IF bumped(k) THEN [meta[k] EXCEPT !.nacked = (@ + 1) % NackMod,
                                                      !.lastNack = now]
                                ELSE meta[k]
  BY DEF getPacketsMeta
<1>. HIDE DEF bumped, D
<1>10. \A b \in Back : At(b)' = At(b)
  BY <1>1 DEF At, wrap, Max
<1>11. \A k \in Metas : meta[k] \in packetMeta
  BY DEF SeqTypeOK
<1>12. \A b \in Back : Live(b)' <=> Live(b)
  <2>. TAKE b \in Back
  <2>1. At(b) # Nil => meta'[At(b)].targetSeqNo = meta[At(b)].targetSeqNo
    BY AtType, <1>9, <1>11 DEF packetMeta
  <2>. QED
    BY <2>1, <1>1, <1>10 DEF Live
<1>13. \A b \in Back : Live(b) =>
         Found(b)' = IF b \in D THEN RW!Nacked(window[b]) ELSE window[b]
  <2>. SUFFICES ASSUME NEW b \in Back, Live(b)
                PROVE  Found(b)' = IF b \in D THEN RW!Nacked(window[b]) ELSE window[b]
    OBVIOUS
  <2>. DEFINE k == At(b)
  <2>1. window[b] = [pkt |-> meta[k].pkt, age |-> (metaWritePtr - 1 - k) % MaxTrack,
                     lastNack |-> meta[k].lastNack, nacked |-> meta[k].nacked]
    BY <1>2 DEF Found
  <2>2. Found(b)' = [pkt |-> meta'[k].pkt, age |-> (metaWritePtr - 1 - k) % MaxTrack,
                     lastNack |-> meta'[k].lastNack, nacked |-> meta'[k].nacked]
    BY <1>1, <1>10 DEF Found
  <2>3. k \in Metas /\ meta[k] \in packetMeta /\ (bumped(k) <=> b \in D)
    BY <1>3, <1>7, <1>11
  <2>. HIDE DEF k
  <2>4. CASE b \in D
    <3>1. /\ meta'[k].pkt = meta[k].pkt /\ meta'[k].lastNack = now
          /\ meta'[k].nacked = (meta[k].nacked + 1) % NackMod
      BY <1>9, <2>3, <2>4 DEF packetMeta
    <3>. QED
      BY <2>1, <2>2, <2>4, <3>1 DEF RW!Nacked
  <2>5. CASE b \notin D
    BY <1>9, <2>1, <2>2, <2>3, <2>5
  <2>. QED
    BY <2>4, <2>5
<1>14. window' = [b \in DOMAIN window |->
                    IF b \in D THEN RW!Nacked(window[b]) ELSE window[b]]
  BY <1>2, <1>12, <1>13, WindowPrimed
<1>. QED
  BY <1>1, <1>8, <1>14 DEF RW!Nack, D

\* A new sequencer is an empty window.
LEMMA InitImplements == newSequencer => RW!Init
<1>. SUFFICES ASSUME newSequencer PROVE RW!Init
  OBVIOUS
<1>1. \A b \in Back : ~Live(b)
  <2>. TAKE b \in Back
  <2>1. step - b - 1 \in Int
    BY ConstantFacts DEF newSequencer, Back
  <2>2. At(b) = Nil
    BY <2>1, WrapType DEF At, newSequencer
  <2>. QED
    BY <2>2 DEF Live
<1>2. window = [b \in {} |-> 0]
  BY <1>1, InitTypeOK, WindowIs
<1>. QED
  BY <1>2 DEF newSequencer, RW!Init

\* Every step of the sequencer is a step of the window or changes nothing it shows.
LEMMA StepImplements == SeqInv /\ SeqInv' /\ [SeqNext]_seqVars => [RW!Next]_(RW!vars)
<1>. SUFFICES ASSUME SeqInv, SeqInv', [SeqNext]_seqVars PROVE [RW!Next]_(RW!vars)
  OBVIOUS
<1>. USE DEF SeqInv
<1>1. ASSUME NEW pkt \in Packets, NEW offSn \in SN, push(pkt, offSn) PROVE RW!Next
  BY <1>1, PushIsSend DEF RW!Next, RW!SN, SN
<1>2. ASSUME NEW offSn \in SN, pushPadding(offSn) PROVE RW!Next
  BY <1>2, PaddingIsPad DEF RW!Next, RW!SN, SN
<1>3. ASSUME NEW r \in RTTs, setRTT(r) PROVE RW!Next
  <2>1. window' = window
    BY <1>3 DEF setRTT, window, remembered, rememberedAt, lookup, wrap, Max
  <2>2. RW!SetRTT(r)
    BY <1>3, <2>1 DEF setRTT, RW!SetRTT
  <2>. QED
    BY <2>2 DEF RW!Next
<1>4. ASSUME NEW seqNo \in NackLists, getPacketsMeta(seqNo) PROVE RW!Next
  BY <1>4, NackIsNack DEF RW!Next
<1>5. CASE Tick
  <2>1. window' = window
    BY <1>5 DEF Tick, window, remembered, rememberedAt, lookup, wrap, Max
  <2>2. RW!Tick
    BY <1>5, <2>1 DEF Tick, RW!Tick
  <2>. QED
    BY <2>2 DEF RW!Next
<1>6. CASE UNCHANGED seqVars
  BY <1>6 DEF seqVars, RW!vars, window, remembered, rememberedAt, lookup, wrap, Max
<1>. QED
  BY <1>1, <1>2, <1>3, <1>4, <1>5, <1>6 DEF SeqNext

\* Whatever the sizes of the two rings (2 * Max <= SNMod), push, pushPadding,
\* setRTT and getPacketsMeta implement the retransmission window: a NACK never
\* gets a packet of an earlier cycle of the numbers, nor one whose record was
\* reused, and it gets every packet the window still remembers.
THEOREM SequencerImplementsWindow == SeqSpec => ImplementsWindow
<1>1. SeqSpec => []SeqInv
  BY InitInv, StepInv, PTL DEF SeqSpec
<1>. QED
  BY <1>1, InitImplements, StepImplements, PTL DEF SeqSpec, ImplementsWindow, RW!Spec

-----------------------------------------------------------------------------
(* The down track.                                                         *)

\* The age of a record: how many were pushed after it.
ageOf(w, k) == (w - 1 - k) % MaxTrack

\* How old the packet of record k is for a goroutine r, by its own count.
sinceAsked(r, k) == r.promised[k].age + r.lapse

\* As long as fewer than MaxTrack packets followed, the record has not been
\* written again: it is younger than r thinks, and holds what it held.
Kept(r, m, w) ==
    \A k \in r.metas :
        sinceAsked(r, k) < MaxTrack =>
            /\ ageOf(w, k) <= sinceAsked(r, k)
            /\ m[k].targetSeqNo = r.promised[k].sn
            /\ m[k].pkt = r.promised[k].pkt

\* The packet r has read from the producer is the one it was promised.
ReadRight(r) == r.pc = "write" /\ sinceAsked(r, r.cur) < MaxTrack => r.src = r.promised[r.cur].pkt

\* A goroutine that was asked for numbers was asked by a NACK.
AskedRight(r) == r.pc = "lookup" => r.nacks \in NackLists

RtxFits == \A g \in Rtx : /\ AskedRight(rtx[g]) /\ ReadRight(rtx[g])
                          /\ Kept(rtx[g], meta, metaWritePtr)

\* Without a key frame since the last request to sync, the request still stands,
\* unless a key frame is about to be sent or the track was never bound.
SyncFits ==
    /\ ungated <= 1
    /\ ~attached => ~bound /\ writer.pc = "idle"
    /\ writer.pc = "resync" => syncRequired /\ (writer.key \/ ~Video)
    /\ Video /\ ungated >= 0 => syncRequired \/ (writer.pc = "send" /\ writer.key) \/ ~attached
    /\ Video /\ ungated = 1 => ~(writer.pc = "send" /\ ~writer.key)
    /\ ~Video => ungated <= 0

\* The numbers in use are those of packets that came, none of which is the one
\* being written.
NumbersFit ==
    /\ writer.pc # "idle" => writer.sn \in arrived
    /\ \A n \in used : \E a \in arrived : /\ n = (a - snOffset) % SNMod
                                          /\ writer.pc # "idle" => a # writer.sn

IInv == /\ TypeOK /\ RtxFits /\ SyncFits /\ NumbersFit
        /\ RetransmitsWhatWasAsked /\ NumbersNotShared

-----------------------------------------------------------------------------
(* The fields of a goroutine.                                              *)

\* What a goroutine was handed.
SameHand(x, y) == x.promised = y.promised /\ x.lapse = y.lapse

\* The constants of the track.
LEMMA TrackFacts ==
    /\ MaxSrc \in Nat /\ MaxSrc >= 1 /\ Packets = SN /\ 0 \in SN /\ 0 \in Packets
    /\ MaxTrack \in Nat \ {0} /\ Metas \subseteq Nat /\ SN \subseteq Nat /\ Nil \notin Metas
    /\ Video \in BOOLEAN /\ \A n \in NackLists : n \in SUBSET SN
BY ConstantFacts, SequencerConstants, DownTrackConstants DEF SN, Metas, Nil

\* A NACK asks a goroutine.
LEMMA AskedFacts ==
    ASSUME NEW r \in Goroutine, NEW n \in SUBSET SN
    PROVE  /\ Asked(r, n) \in Goroutine
           /\ Asked(r, n).pc = "lookup" /\ Asked(r, n).nacks = n
           /\ Asked(r, n).metas = r.metas /\ SameHand(Asked(r, n), r)
<1> DEFINE x == [r EXCEPT !.pc = "lookup"]
           y == [x EXCEPT !.nacks = n]
<1>1. x \in Goroutine
  BY DEF Goroutine
<1>2. x.pc = "lookup" /\ x.metas = r.metas /\ SameHand(x, r)
  BY DEF Goroutine, SameHand
<1> HIDE DEF x
<1>3. y \in Goroutine
  BY <1>1 DEF Goroutine
<1>4. y.nacks = n /\ y.pc = x.pc /\ y.metas = x.metas /\ SameHand(y, x)
  BY <1>1 DEF Goroutine, SameHand
<1>5. Asked(r, n) = y
  BY DEF Asked, x
<1> HIDE DEF y
<1>6. QED
  BY <1>2, <1>3, <1>4, <1>5 DEF SameHand

\* The producer has the packet.
LEMMA FetchedFacts ==
    ASSUME NEW r \in Goroutine, NEW k \in Metas, NEW p \in Packets
    PROVE  /\ Fetched(r, k, p) \in Goroutine
           /\ Fetched(r, k, p).pc = "write" /\ Fetched(r, k, p).cur = k /\ Fetched(r, k, p).src = p
           /\ Fetched(r, k, p).metas = r.metas /\ SameHand(Fetched(r, k, p), r)
<1> DEFINE x == [r EXCEPT !.pc = "write"]
           y == [x EXCEPT !.cur = k]
           z == [y EXCEPT !.src = p]
<1>1. x \in Goroutine
  BY DEF Goroutine
<1>2. x.pc = "write" /\ x.metas = r.metas /\ SameHand(x, r)
  BY DEF Goroutine, SameHand
<1> HIDE DEF x
<1>3. y \in Goroutine
  BY <1>1 DEF Goroutine
<1>4. y.cur = k /\ y.pc = x.pc /\ y.metas = x.metas /\ SameHand(y, x)
  BY <1>1 DEF Goroutine, SameHand
<1> HIDE DEF y
<1>5. z \in Goroutine
  BY <1>3 DEF Goroutine
<1>6. z.src = p /\ z.cur = y.cur /\ z.pc = y.pc /\ z.metas = y.metas /\ SameHand(z, y)
  BY <1>3 DEF Goroutine, SameHand
<1>7. Fetched(r, k, p) = z
  BY DEF Fetched, x, y
<1> HIDE DEF z
<1>8. QED
  BY <1>2, <1>4, <1>5, <1>6, <1>7 DEF SameHand

\* A goroutine goes on with fewer records.
LEMMA RestFacts ==
    ASSUME NEW r \in Goroutine, NEW ks \in SUBSET Metas
    PROVE  /\ Rest(r, ks) \in Goroutine
           /\ Rest(r, ks).pc \in {"idle", "read"} /\ Rest(r, ks).metas = ks
           /\ SameHand(Rest(r, ks), r)
<1> DEFINE pc == IF ks = {} THEN "idle" ELSE "read"
           x == [r EXCEPT !.pc = pc]
           y == [x EXCEPT !.metas = ks]
           z == [y EXCEPT !.cur = Nil]
           u == [z EXCEPT !.src = 0]
<1>a. pc \in {"idle", "read"}
  OBVIOUS
<1> HIDE DEF pc
<1>1. x \in Goroutine
  BY <1>a DEF Goroutine
<1>2. x.pc = pc /\ SameHand(x, r)
  BY DEF Goroutine, SameHand
<1> HIDE DEF x
<1>3. y \in Goroutine
  BY <1>1 DEF Goroutine
<1>4. y.metas = ks /\ y.pc = x.pc /\ SameHand(y, x)
  BY <1>1 DEF Goroutine, SameHand
<1> HIDE DEF y
<1>5. z \in Goroutine
  BY <1>3 DEF Goroutine
<1>6. z.pc = y.pc /\ z.metas = y.metas /\ SameHand(z, y)
  BY <1>3 DEF Goroutine, SameHand
<1> HIDE DEF z
<1>7. u \in Goroutine
  BY <1>5, TrackFacts DEF Goroutine
<1>8. u.pc = z.pc /\ u.metas = z.metas /\ SameHand(u, z)
  BY <1>5 DEF Goroutine, SameHand
<1>9. Rest(r, ks) = u
  BY DEF Rest, x, y, z, pc
<1> HIDE DEF u
<1>10. QED
  BY <1>a, <1>2, <1>4, <1>6, <1>7, <1>8, <1>9 DEF SameHand

\* A packet was pushed.
LEMMA LapsedFacts ==
    ASSUME NEW r \in Goroutine
    PROVE  /\ Lapsed(r) \in Goroutine /\ Lapsed(r).promised = r.promised
           /\ Lapsed(r).pc = r.pc /\ Lapsed(r).nacks = r.nacks /\ Lapsed(r).metas = r.metas
           /\ Lapsed(r).cur = r.cur /\ Lapsed(r).src = r.src
           /\ Lapsed(r).lapse = IF r.lapse < MaxTrack THEN r.lapse + 1 ELSE r.lapse
           /\ r.lapse \in 0 .. MaxTrack
<1> DEFINE l == IF r.lapse < MaxTrack THEN r.lapse + 1 ELSE r.lapse
<1>1. r.lapse \in 0 .. MaxTrack
  BY DEF Goroutine
<1>2. l \in 0 .. MaxTrack
  BY <1>1, TrackFacts
<1>3. Lapsed(r) = [r EXCEPT !.lapse = l]
  BY DEF Lapsed
<1> HIDE DEF l
<1>4. Lapsed(r) \in Goroutine
  BY <1>2, <1>3 DEF Goroutine
<1>5. /\ Lapsed(r).promised = r.promised
      /\ Lapsed(r).pc = r.pc /\ Lapsed(r).nacks = r.nacks /\ Lapsed(r).metas = r.metas
      /\ Lapsed(r).cur = r.cur /\ Lapsed(r).src = r.src /\ Lapsed(r).lapse = l
  BY <1>3 DEF Goroutine
<1>6. QED
  BY <1>1, <1>4, <1>5 DEF l

\* The promise for a record.
LEMMA PromiseFacts ==
    ASSUME NEW r \in Goroutine, NEW k \in DOMAIN r.promised
    PROVE  /\ r.promised[k] \in Promise /\ k \in Metas
           /\ r.promised[k].age \in 0 .. MaxTrack - 1 /\ r.promised[k].age \in Nat
           /\ r.lapse \in 0 .. MaxTrack /\ r.lapse \in Nat /\ sinceAsked(r, k) \in Nat
<1>1. r.promised \in Promises /\ r.lapse \in 0 .. MaxTrack
  BY DEF Goroutine
<1>2. PICK K \in SUBSET Metas : r.promised \in [K -> Promise]
  BY <1>1 DEF Promises
<1>3. k \in K /\ r.promised[k] \in Promise
  BY <1>2
<1>4. r.promised[k].age \in 0 .. MaxTrack - 1
  BY <1>3 DEF Promise
<1>5. QED
  BY <1>1, <1>2, <1>3, <1>4, TrackFacts DEF sinceAsked

-----------------------------------------------------------------------------
(* What steps have in common.                                              *)

\* The parts of the type invariant that are the track's own.
TrackType ==
    /\ bound \in BOOLEAN /\ enabled \in BOOLEAN /\ syncRequired \in BOOLEAN
    /\ started \in BOOLEAN /\ attached \in BOOLEAN /\ closed \in BOOLEAN
    /\ muting \in BOOLEAN
    /\ snOffset \in SN /\ lastSN \in SN /\ next \in SN /\ arrived \subseteq SN
    /\ writer \in Call /\ ungated \in -1 .. MaxSrc /\ used \subseteq SN

\* ... and those of one goroutine, with what it knows of the records.
GoroutineFits(r, m, w) ==
    /\ r \in Goroutine /\ r.metas \subseteq DOMAIN r.promised
    /\ r.pc = "write" => r.cur \in r.metas
    /\ AskedRight(r) /\ ReadRight(r) /\ Kept(r, m, w)

RtxOK == /\ rtx \in [Rtx -> Goroutine]
         /\ \A g \in Rtx : GoroutineFits(rtx[g], meta, metaWritePtr)

\* The inductive invariant, sorted by what it speaks of.
LEMMA Parts ==
    IInv <=> /\ SeqTypeOK /\ TrackType /\ SyncFits /\ NumbersFit /\ RtxOK
             /\ RetransmitsWhatWasAsked /\ NumbersNotShared
BY DEF IInv, TypeOK, RtxFits, TrackType, RtxOK, GoroutineFits

\* ... also after a step.
LEMMA PartsNext ==
    ASSUME SeqTypeOK', TrackType', SyncFits', NumbersFit', RtxOK',
           RetransmitsWhatWasAsked', NumbersNotShared'
    PROVE  IInv'
BY DEF IInv, TypeOK, RtxFits, TrackType, RtxOK, GoroutineFits

\* A step that says nothing to the receiver.
LEMMA Silent ==
    ASSUME out'.kind = "none" \/ out'.kind = "pli"
    PROVE  RetransmitsWhatWasAsked' /\ NumbersNotShared'
BY DEF RetransmitsWhatWasAsked, NumbersNotShared

\* Quiet and the PLIs are such steps.
LEMMA Kinds == /\ Quiet.kind = "none" /\ Pli(TRUE).kind = "pli" /\ Pli(FALSE).kind = "pli"
BY DEF Quiet, Pli

\* Goroutines know what they knew when neither they nor the records change.
LEMMA KeepRtx ==
    ASSUME RtxOK, UNCHANGED <<rtx, meta, metaWritePtr>>
    PROVE  RtxOK'
BY DEF RtxOK

\* The sequencer stays.
LEMMA KeepSeq ==
    ASSUME SeqTypeOK, UNCHANGED seqVars
    PROVE  SeqTypeOK' /\ UNCHANGED <<meta, metaWritePtr>>
<1>1. SeqTypeOK'
  BY StepTypeOK
<1>2. QED
  BY <1>1 DEF seqVars

\* An idle goroutine knows nothing.
LEMMA NoRtxFits ==
    ASSUME NEW m, NEW w
    PROVE  GoroutineFits(NoRtx, m, w)
<1>1. [k \in {} |-> 0] \in Promises
  <2>1. [k \in {} |-> 0] \in [{} -> Promise]
    OBVIOUS
  <2>2. QED
    BY <2>1 DEF Promises
<1>2. NoRtx \in Goroutine
  BY <1>1, TrackFacts DEF NoRtx, Goroutine
<1>3. NoRtx.metas = {} /\ NoRtx.pc = "idle"
  BY DEF NoRtx
<1>4. QED
  BY <1>2, <1>3 DEF GoroutineFits, AskedRight, ReadRight, Kept

\* A new track.
LEMMA InitFits == NewDownTrack => IInv
<1> SUFFICES ASSUME NewDownTrack PROVE IInv
  OBVIOUS
<1>1. SeqTypeOK
  BY InitTypeOK DEF NewDownTrack
<1>2. Idle \in Call /\ Idle.pc = "idle"
  BY TrackFacts DEF Idle, Call
<1>3. TrackType
  <2>1. next \in SN
    BY DownTrackConstants DEF NewDownTrack, SN
  <2>2. /\ bound \in BOOLEAN /\ enabled \in BOOLEAN /\ syncRequired \in BOOLEAN
        /\ started \in BOOLEAN /\ attached \in BOOLEAN /\ closed \in BOOLEAN
        /\ muting \in BOOLEAN
    BY Zenon DEF NewDownTrack
  <2>3. snOffset \in SN /\ lastSN \in SN /\ arrived \subseteq SN /\ used \subseteq SN
    BY TrackFacts DEF NewDownTrack
  <2>4. writer \in Call /\ ungated \in -1 .. MaxSrc
    BY <1>2, TrackFacts DEF NewDownTrack
  <2>5. QED
    BY <2>1, <2>2, <2>3, <2>4 DEF TrackType
<1>4. SyncFits /\ NumbersFit
  BY <1>2 DEF NewDownTrack, SyncFits, NumbersFit
<1>5. NoRtx \in Goroutine /\ GoroutineFits(NoRtx, meta, metaWritePtr)
  BY NoRtxFits DEF GoroutineFits
<1>6. RtxOK
  BY <1>5 DEF NewDownTrack, RtxOK
<1>7. RetransmitsWhatWasAsked /\ NumbersNotShared
  BY Kinds DEF NewDownTrack, RetransmitsWhatWasAsked, NumbersNotShared
<1>8. QED
  BY <1>1, <1>3, <1>4, <1>6, <1>7, Parts

\* Bind, Unbind, Mute and Close.
LEMMA ControlStep ==
    ASSUME IInv, Bind \/ Unbind \/ Close \/ MuteSync \/ \E val \in BOOLEAN : Mute(val)
    PROVE  IInv'
<1>1. /\ SeqTypeOK /\ TrackType /\ SyncFits /\ NumbersFit /\ RtxOK
  BY Parts
<1>2. /\ UNCHANGED <<seqVars, started, snOffset, lastSN, next, arrived, writer, rtx, used>>
      /\ out' = Quiet
  BY DEF Bind, Unbind, Close, Mute, MuteSync
<1>3. SeqTypeOK' /\ RtxOK' /\ RetransmitsWhatWasAsked' /\ NumbersNotShared'
  BY <1>1, <1>2, KeepSeq, KeepRtx, Silent, Kinds
<1>4. TrackType'
  <2>1. /\ bound' \in BOOLEAN /\ enabled' \in BOOLEAN /\ syncRequired' \in BOOLEAN
        /\ attached' \in BOOLEAN /\ closed' \in BOOLEAN /\ muting' \in BOOLEAN
    BY <1>1, Zenon DEF Bind, Unbind, Close, Mute, MuteSync, TrackType
  <2>2. ungated' \in -1 .. MaxSrc
    BY <1>1, TrackFacts DEF Bind, Unbind, Close, Mute, MuteSync, TrackType
  <2>3. QED
    BY <1>1, <1>2, <2>1, <2>2 DEF TrackType
<1>5. SyncFits'
  <2>1. CASE Bind \/ MuteSync
    <3>1. /\ ungated' = 0 /\ syncRequired' = TRUE
          /\ attached' = TRUE \/ UNCHANGED <<bound, attached>>
      BY <2>1 DEF Bind, MuteSync
    <3>2. QED
      BY <1>1, <1>2, <3>1 DEF SyncFits
  <2>2. CASE Unbind \/ Close \/ \E val \in BOOLEAN : Mute(val)
    <3>1. (bound' = FALSE \/ bound' = bound) /\ UNCHANGED <<attached, ungated, syncRequired>>
      BY <2>2 DEF Unbind, Close, Mute
    <3>2. QED
      BY <1>1, <1>2, <3>1 DEF SyncFits
  <2>3. QED
    BY <2>1, <2>2
<1>6. NumbersFit'
  BY <1>1, <1>2 DEF NumbersFit
<1>7. QED
  BY <1>3, <1>4, <1>5, <1>6, PartsNext

-----------------------------------------------------------------------------
(* WriteRTP.                                                               *)

\* The call of WriteRTP goes on.
Going(pc) == [writer EXCEPT !.pc = pc]

LEMMA GoingFacts ==
    ASSUME writer \in Call, NEW pc \in {"idle", "sync", "resync", "send"}
    PROVE  Going(pc) \in Call /\ Going(pc).pc = pc /\ Going(pc).sn = writer.sn /\ Going(pc).key = writer.key
BY DEF Going, Call

\* A packet comes.
LEMMA WriteStep ==
    ASSUME IInv, NEW sn \in SN, NEW key \in BOOLEAN, WriteRTP(sn, key)
    PROVE  IInv'
<1> DEFINE c == [pc |-> "sync", sn |-> sn, key |-> key]
<1>1. /\ SeqTypeOK /\ TrackType /\ SyncFits /\ NumbersFit /\ RtxOK
  BY Parts
<1>2. /\ writer.pc = "idle" /\ sn \notin arrived /\ arrived' = arrived \cup {sn}
      /\ writer' = Idle \/ (writer' = c /\ bound)
      /\ next' = IF sn = (next - 2) % SNMod THEN next ELSE (sn + 1) % SNMod
      /\ out' = Quiet
      /\ UNCHANGED <<seqVars, trackVars, rtx, ungated, used>>
  BY DEF WriteRTP, Arrivals
<1>3. UNCHANGED <<bound, enabled, syncRequired, started, snOffset, lastSN, muting,
                attached, closed>>
  BY <1>2 DEF trackVars
<1>4. SeqTypeOK' /\ RtxOK' /\ RetransmitsWhatWasAsked' /\ NumbersNotShared'
  BY <1>1, <1>2, KeepSeq, KeepRtx, Silent, Kinds
<1>5. /\ c \in Call /\ c.pc = "sync" /\ c.sn = sn
      /\ Idle \in Call /\ Idle.pc = "idle"
  BY TrackFacts DEF Call, Idle
<1> HIDE DEF c
<1>6. next' \in SN
  <2>1. sn + 1 \in Int
    BY TrackFacts
  <2>2. (sn + 1) % SNMod \in SN
    BY <2>1, ModRange, ConstantFacts DEF SN
  <2>3. QED
    BY <1>1, <1>2, <2>2 DEF TrackType
<1>7. TrackType'
  <2>1. writer' \in Call /\ arrived' \subseteq SN
    BY <1>1, <1>2, <1>5 DEF TrackType
  <2>2. QED
    BY <1>1, <1>2, <1>3, <1>6, <2>1 DEF TrackType
<1>8. SyncFits'
  <2>1. writer'.pc = "idle" \/ (writer'.pc = "sync" /\ bound)
    BY <1>2, <1>5
  <2>2. QED
    BY <1>1, <1>2, <1>3, <2>1 DEF SyncFits
<1>9. NumbersFit'
  <2>1. writer'.pc # "idle" => writer'.sn = sn
    BY <1>2, <1>5
  <2>2. \A n \in used' : \E a \in arrived' : /\ n = (a - snOffset') % SNMod
                                             /\ writer'.pc # "idle" => a # writer'.sn
    BY <1>1, <1>2, <1>3, <2>1 DEF NumbersFit
  <2>3. QED
    BY <1>2, <2>1, <2>2 DEF NumbersFit
<1>10. QED
  BY <1>4, <1>7, <1>8, <1>9, PartsNext

\* The look at syncRequired.
LEMMA CheckStep ==
    ASSUME IInv, CheckSync
    PROVE  IInv'
<1>1. /\ SeqTypeOK /\ TrackType /\ SyncFits /\ NumbersFit /\ RtxOK
  BY Parts
<1>2. /\ writer.pc = "sync"
      /\ \/ syncRequired /\ Video /\ ~writer.key /\ writer' = Idle
         \/ syncRequired /\ (writer.key \/ ~Video) /\ writer' = Going("resync")
         \/ ~syncRequired /\ writer' = Going("send")
      /\ out' = Quiet \/ out' = Pli(TRUE)
      /\ UNCHANGED <<seqVars, trackVars, next, arrived, rtx, ungated, used>>
  BY DEF CheckSync, Going
<1>3. UNCHANGED <<bound, enabled, syncRequired, started, snOffset, lastSN, muting,
                attached, closed>>
  BY <1>2 DEF trackVars
<1>4. SeqTypeOK' /\ RtxOK' /\ RetransmitsWhatWasAsked' /\ NumbersNotShared'
  BY <1>1, <1>2, KeepSeq, KeepRtx, Silent, Kinds
<1>5. /\ Idle \in Call /\ Idle.pc = "idle"
      /\ \A pc \in {"resync", "send"} :
           Going(pc) \in Call /\ Going(pc).pc = pc /\ Going(pc).sn = writer.sn /\ Going(pc).key = writer.key
  BY <1>1, GoingFacts, TrackFacts DEF Call, Idle, TrackType
<1>6. TrackType'
  BY <1>1, <1>2, <1>3, <1>5 DEF TrackType
<1>7. SyncFits'
  <2>1. CASE writer' = Idle
    BY <1>1, <1>2, <1>3, <1>5, <2>1 DEF SyncFits
  <2>2. CASE syncRequired /\ (writer.key \/ ~Video) /\ writer' = Going("resync")
    BY <1>1, <1>2, <1>3, <1>5, <2>2 DEF SyncFits
  <2>3. CASE ~syncRequired /\ writer' = Going("send")
    <3>1. attached
      BY <1>1, <1>2 DEF SyncFits
    <3>2. Video => ~(ungated >= 0)
      BY <1>1, <1>2, <2>3, <3>1 DEF SyncFits
    <3>3. Video => ungated # 1
      BY <3>2
    <3>4. QED
      BY <1>1, <1>2, <1>3, <1>5, <2>3, <3>1, <3>2, <3>3 DEF SyncFits
  <2>4. QED
    BY <1>2, <2>1, <2>2, <2>3
<1>8. NumbersFit'
  <2>1. writer'.pc # "idle" => writer'.sn = writer.sn
    BY <1>2, <1>5
  <2>2. QED
    BY <1>1, <1>2, <1>3, <2>1 DEF NumbersFit
<1>9. QED
  BY <1>4, <1>6, <1>7, <1>8, PartsNext

\* The stream starts anew: no number is in use.
LEMMA ResyncStep ==
    ASSUME IInv, Resync
    PROVE  IInv'
<1>1. /\ SeqTypeOK /\ TrackType /\ SyncFits /\ NumbersFit /\ RtxOK
  BY Parts
<1>2. /\ writer.pc = "resync" /\ syncRequired' = FALSE /\ writer' = Going("send")
      /\ snOffset' = IF lastSN # 0 THEN (writer.sn - lastSN - 1) % SNMod ELSE snOffset
      /\ used' = IF syncRequired THEN {} ELSE used
      /\ out' = Quiet
      /\ UNCHANGED <<seqVars, bound, enabled, started, lastSN, muting, attached, closed,
                     next, arrived, rtx, ungated>>
  BY DEF Resync, Going
<1>3. SeqTypeOK' /\ RtxOK' /\ RetransmitsWhatWasAsked' /\ NumbersNotShared'
  BY <1>1, <1>2, KeepSeq, KeepRtx, Silent, Kinds
<1>4. syncRequired /\ (writer.key \/ ~Video) /\ attached
  BY <1>1, <1>2 DEF SyncFits
<1>5. used' = {}
  BY <1>2, <1>4
<1>6. /\ Going("send") \in Call /\ Going("send").pc = "send" /\ Going("send").sn = writer.sn
      /\ Going("send").key = writer.key
  BY <1>1, GoingFacts DEF TrackType
<1>7. snOffset' \in SN
  <2>1. writer.sn - lastSN - 1 \in Int
    <3>1. writer.sn \in SN /\ lastSN \in SN
      BY <1>1 DEF TrackType, Call
    <3>2. \A a, b \in SN : a - b - 1 \in Int
      BY TrackFacts
    <3>3. QED
      BY <3>1, <3>2
  <2>2. (writer.sn - lastSN - 1) % SNMod \in SN
    BY <2>1, ModRange, ConstantFacts DEF SN
  <2>3. QED
    BY <1>1, <1>2, <2>2 DEF TrackType
<1>8. TrackType'
  <2>1. syncRequired' \in BOOLEAN
    BY <1>2, Zenon
  <2>2. QED
    BY <1>1, <1>2, <1>5, <1>6, <1>7, <2>1 DEF TrackType
<1>9. SyncFits'
  BY <1>1, <1>2, <1>4, <1>6 DEF SyncFits
<1>10. NumbersFit'
  <2>1. writer'.sn \in arrived'
    BY <1>1, <1>2, <1>6 DEF NumbersFit
  <2>2. QED
    BY <1>5, <2>1 DEF NumbersFit
<1>11. QED
  BY <1>3, <1>8, <1>9, <1>10, PartsNext

\* A push makes the records that are kept one older; the one it writes is one
\* that every goroutine counts as too old.
LEMMA PushKeeps ==
    ASSUME SeqTypeOK, NEW p \in Packets, NEW sn \in SN, push(p, sn),
           NEW r, GoroutineFits(r, meta, metaWritePtr)
    PROVE  Lapsed(r) \in Goroutine /\ GoroutineFits(Lapsed(r), meta', metaWritePtr')
<1> DEFINE x == Lapsed(r)
           w == metaWritePtr
<1>1. /\ r \in Goroutine /\ r.metas \subseteq DOMAIN r.promised
      /\ r.pc = "write" => r.cur \in r.metas
      /\ AskedRight(r) /\ ReadRight(r) /\ Kept(r, meta, w)
  BY DEF GoroutineFits
<1>2. /\ x \in Goroutine /\ x.promised = r.promised
      /\ x.pc = r.pc /\ x.nacks = r.nacks /\ x.metas = r.metas
      /\ x.cur = r.cur /\ x.src = r.src
      /\ x.lapse = IF r.lapse < MaxTrack THEN r.lapse + 1 ELSE r.lapse
  BY <1>1, LapsedFacts
<1> HIDE DEF x
<1>3. ASSUME NEW k \in r.metas, sinceAsked(x, k) < MaxTrack
      PROVE  sinceAsked(x, k) = sinceAsked(r, k) + 1 /\ sinceAsked(r, k) < MaxTrack - 1
  <2>1. r.promised[k].age \in Nat /\ r.lapse \in Nat
    BY <1>1, PromiseFacts
  <2>2. sinceAsked(x, k) = r.promised[k].age + x.lapse
    BY <1>2 DEF sinceAsked
  <2>3. r.lapse < MaxTrack
    BY <1>2, <1>3, <2>1, <2>2, TrackFacts
  <2>4. QED
    BY <1>2, <1>3, <2>1, <2>2, <2>3, TrackFacts DEF sinceAsked
<1>4. \A k \in r.metas : k \in Metas /\ sinceAsked(r, k) \in Nat
  BY <1>1, PromiseFacts
<1>5. ASSUME NEW k \in r.metas, sinceAsked(x, k) < MaxTrack
      PROVE  /\ ageOf(w', k) <= sinceAsked(x, k)
             /\ meta'[k].targetSeqNo = x.promised[k].sn /\ meta'[k].pkt = x.promised[k].pkt
  <2>1. /\ ageOf(w, k) <= sinceAsked(r, k)
        /\ meta[k].targetSeqNo = x.promised[k].sn /\ meta[k].pkt = x.promised[k].pkt
    <3>1. sinceAsked(r, k) < MaxTrack
      BY <1>3, <1>4, <1>5, TrackFacts
    <3>2. QED
      BY <1>1, <1>2, <3>1 DEF Kept
  <2>2. /\ ageOf(w, k) \in 0 .. MaxTrack - 1
        /\ k = w => ageOf(w, k) = MaxTrack - 1
        /\ k # w => ageOf(nextWritePtr, k) = ageOf(w, k) + 1
    BY <1>4, Ages DEF ageOf
  <2>3. k # w
    BY <1>3, <1>4, <1>5, <2>1, <2>2, TrackFacts
  <2>4. CASE validSlot(sn)
    <3>1. /\ meta' = [meta EXCEPT ![w] = [pkt |-> p, targetSeqNo |-> sn,
                                          lastNack |-> 0, nacked |-> 0]]
          /\ w' = nextWritePtr
      BY <2>4 DEF push
    <3>2. meta'[k] = meta[k]
      BY <1>4, <2>3, <3>1 DEF SeqTypeOK
    <3>3. ageOf(w', k) = ageOf(w, k) + 1
      BY <2>2, <2>3, <3>1
    <3>4. QED
      BY <1>3, <1>4, <1>5, <2>1, <2>2, <3>2, <3>3, TrackFacts
  <2>5. CASE ~validSlot(sn)
    <3>1. meta' = meta /\ w' = w
      BY <2>5 DEF push
    <3>2. QED
      BY <1>3, <1>4, <1>5, <2>1, <2>2, <3>1, TrackFacts
  <2>6. QED
    BY <2>4, <2>5
<1>6. Kept(x, meta', w')
  BY <1>2, <1>5 DEF Kept
<1>7. AskedRight(x) /\ ReadRight(x)
  <2>1. AskedRight(x)
    BY <1>1, <1>2 DEF AskedRight
  <2>2. ASSUME x.pc = "write", sinceAsked(x, x.cur) < MaxTrack PROVE x.src = x.promised[x.cur].pkt
    <3>1. r.cur \in r.metas /\ x.cur = r.cur
      BY <1>1, <1>2, <2>2
    <3>2. sinceAsked(r, r.cur) < MaxTrack - 1 /\ sinceAsked(r, r.cur) \in Nat
      BY <1>3, <1>4, <2>2, <3>1
    <3>3. sinceAsked(r, r.cur) < MaxTrack
      BY <3>2, TrackFacts
    <3>4. QED
      BY <1>1, <1>2, <2>2, <3>1, <3>3 DEF ReadRight
  <2>3. QED
    BY <2>1, <2>2 DEF ReadRight
<1>8. GoroutineFits(x, meta', w')
  BY <1>1, <1>2, <1>6, <1>7 DEF GoroutineFits
<1>9. QED
  BY <1>2, <1>8 DEF x

\* Two packets have the same number only if they are the same packet.
LEMMA OffsetInjective ==
    ASSUME NEW a \in SN, NEW b \in SN, NEW o \in SN, (a - o) % SNMod = (b - o) % SNMod
    PROVE  a = b
<1>1. /\ a \in Int /\ b \in Int /\ o \in Int /\ a - o \in Int /\ b - o \in Int
      /\ (a - o) - (b - o) < SNMod /\ (b - o) - (a - o) < SNMod
  BY ConstantFacts DEF SN
<1> DEFINE x == a - o
           y == b - o
<1>2. x \in Int /\ y \in Int /\ x - y < SNMod /\ y - x < SNMod /\ x % SNMod = y % SNMod
  BY <1>1
<1> HIDE DEF x, y
<1>3. x = y
  BY <1>2, ModInjective, ConstantFacts
<1>4. QED
  BY <1>1, <1>3 DEF x, y

\* The number of the packet being written.
LEMMA NewNumber ==
    ASSUME TrackType
    PROVE  newSN \in SN /\ writer.sn \in SN /\ snOffset \in SN
<1>1. writer.sn \in SN /\ snOffset \in SN
  BY DEF TrackType, Call
<1>2. \A a, b \in SN : a - b \in Int
  BY TrackFacts
<1>3. (writer.sn - snOffset) % SNMod \in SN
  BY <1>1, <1>2, ModRange, ConstantFacts DEF SN
<1>4. QED
  BY <1>1, <1>3 DEF newSN

\* The packet is written under its new number.
LEMMA SendStep ==
    ASSUME IInv, NEW ok \in BOOLEAN, SendRTP(ok)
    PROVE  IInv'
<1>1. /\ SeqTypeOK /\ TrackType /\ SyncFits /\ NumbersFit /\ RtxOK
  BY Parts
<1>2. /\ writer.pc = "send" /\ started' = TRUE /\ lastSN' = IF started THEN lastSN ELSE newSN
      /\ used' = used \cup {newSN} /\ writer' = Idle
      /\ ungated' = IF writer.key \/ ~Video THEN -1
                    ELSE IF ok /\ ungated >= 0 THEN ungated + 1 ELSE ungated
      /\ UNCHANGED <<bound, enabled, syncRequired, snOffset, muting, attached, closed, next, arrived>>
  BY DEF SendRTP
<1>3. newSN \in SN /\ writer.sn \in SN /\ snOffset \in SN /\ writer.sn \in Packets
  BY <1>1, NewNumber, TrackFacts
<1>4. Idle \in Call /\ Idle.pc = "idle"
  BY TrackFacts DEF Call, Idle
<1>5. SeqTypeOK' /\ RtxOK'
  <2>1. CASE Video
    <3>1. push(writer.sn, newSN) /\ rtx' = [g \in Rtx |-> Lapsed(rtx[g])]
      BY <2>1 DEF SendRTP
    <3>2. SeqNext
      BY <1>3, <3>1 DEF SeqNext
    <3>3. SeqTypeOK'
      BY <1>1, <3>2, StepTypeOK
    <3>4. \A g \in Rtx : GoroutineFits(rtx[g], meta, metaWritePtr)
      BY <1>1 DEF RtxOK
    <3>5. \A g \in Rtx : /\ Lapsed(rtx[g]) \in Goroutine
                         /\ GoroutineFits(Lapsed(rtx[g]), meta', metaWritePtr')
      BY <1>1, <1>3, <3>1, <3>4, PushKeeps
    <3>6. RtxOK'
      BY <3>1, <3>5 DEF RtxOK
    <3>7. QED
      BY <3>3, <3>6
  <2>2. CASE ~Video
    <3>1. UNCHANGED seqVars /\ UNCHANGED rtx
      BY <2>2 DEF SendRTP
    <3>2. QED
      BY <1>1, <3>1, KeepSeq, KeepRtx
  <2>3. QED
    BY <2>1, <2>2
<1>6. /\ ungated' \in {-1, 0, 1}
      /\ Video /\ ungated' >= 0 => syncRequired
      /\ ~Video => ungated' <= 0
  <2>1. ungated \in -1 .. MaxSrc /\ ungated <= 1 /\ ungated \in {-1, 0, 1}
    BY <1>1, TrackFacts DEF TrackType, SyncFits
  <2>2. CASE writer.key \/ ~Video
    BY <1>2, <2>2
  <2>3. CASE ~writer.key /\ Video
    <3>1. ungated # 1 /\ (ungated >= 0 => syncRequired)
      BY <1>1, <1>2, <2>3 DEF SyncFits
    <3>2. ungated' = ungated \/ (ungated >= 0 /\ ungated' = ungated + 1)
      BY <1>2, <2>3
    <3>3. ungated' \in {-1, 0, 1} /\ (ungated' >= 0 => ungated >= 0)
      BY <2>1, <3>1, <3>2
    <3>4. QED
      BY <2>3, <3>1, <3>3
  <2>4. QED
    BY <2>2, <2>3
<1>7. TrackType'
  <2>1. ungated' \in -1 .. MaxSrc
    BY <1>6, TrackFacts
  <2>2. started' \in BOOLEAN
    BY <1>2, Zenon
  <2>3. lastSN' \in SN /\ used' \subseteq SN
    BY <1>1, <1>2, <1>3 DEF TrackType
  <2>4. QED
    BY <1>1, <1>2, <1>4, <2>1, <2>2, <2>3 DEF TrackType
<1>8. SyncFits'
  <2>1. ungated' <= 1
    BY <1>6
  <2>2. attached
    BY <1>1, <1>2 DEF SyncFits
  <2>3. QED
    BY <1>2, <1>4, <1>6, <2>1, <2>2 DEF SyncFits
<1>9. NumbersFit'
  <2>1. \A n \in used' : \E a \in arrived : n = (a - snOffset) % SNMod
    BY <1>1, <1>2 DEF NumbersFit, newSN
  <2>2. QED
    BY <1>2, <1>4, <2>1 DEF NumbersFit
<1>10. newSN \notin used
  <2>1. SUFFICES ASSUME newSN \in used PROVE FALSE
    OBVIOUS
  <2>2. PICK a \in arrived : newSN = (a - snOffset) % SNMod /\ a # writer.sn
    BY <1>1, <1>2, <2>1 DEF NumbersFit
  <2>3. a \in SN
    BY <1>1 DEF TrackType
  <2>4. (a - snOffset) % SNMod = (writer.sn - snOffset) % SNMod
    BY <2>2 DEF newSN
  <2>5. a = writer.sn
    BY <1>3, <2>3, <2>4, OffsetInjective
  <2>6. QED
    BY <2>2, <2>5
<1>11. RetransmitsWhatWasAsked' /\ NumbersNotShared'
  <2>1. CASE ok
    <3>1. out' = [kind |-> "rtp", sn |-> newSN, pkt |-> writer.sn, key |-> writer.key,
                  fresh |-> newSN \notin used]
      BY <2>1 DEF SendRTP
    <3>2. out'.kind = "rtp" /\ (out'.fresh <=> newSN \notin used)
      BY <3>1
    <3>3. QED
      BY <1>10, <3>2 DEF RetransmitsWhatWasAsked, NumbersNotShared
  <2>2. CASE ~ok
    BY <2>2, Kinds, Silent DEF SendRTP
  <2>3. QED
    BY <2>1, <2>2
<1>12. QED
  BY <1>5, <1>7, <1>8, <1>9, <1>11, PartsNext

-----------------------------------------------------------------------------
(* handleRTCP and retransmitPackets.                                       *)

\* Steps that leave the track and its writer alone.
LEMMA KeepTrack ==
    ASSUME IInv, UNCHANGED <<trackVars, next, arrived, writer, ungated, used>>
    PROVE  TrackType' /\ SyncFits' /\ NumbersFit'
<1>1. TrackType /\ SyncFits /\ NumbersFit
  BY Parts
<1>2. UNCHANGED <<bound, enabled, syncRequired, started, snOffset, lastSN, muting,
                attached, closed>>
  BY DEF trackVars
<1>3. TrackType'
  BY <1>1, <1>2 DEF TrackType
<1>4. SyncFits'
  BY <1>1, <1>2 DEF SyncFits
<1>5. NumbersFit'
  BY <1>1, <1>2 DEF NumbersFit
<1>6. QED
  BY <1>3, <1>4, <1>5

\* The records hold the packets they held.
SamePackets(m, n) == \A k \in Metas : n[k].targetSeqNo = m[k].targetSeqNo /\ n[k].pkt = m[k].pkt

\* A goroutine does not mind when its records are marked as asked for.
LEMMA MarkedFits ==
    ASSUME NEW m, NEW n, SamePackets(m, n), NEW w, NEW r, GoroutineFits(r, m, w)
    PROVE  GoroutineFits(r, n, w)
<1>1. r \in Goroutine /\ Kept(r, m, w)
  BY DEF GoroutineFits
<1>2. r.metas \subseteq Metas
  BY <1>1 DEF Goroutine
<1>3. Kept(r, n, w)
  BY <1>1, <1>2 DEF Kept, SamePackets
<1>4. QED
  BY <1>3 DEF GoroutineFits

\* One goroutine changes.
LEMMA OneChanges ==
    ASSUME RtxOK, SamePackets(meta, meta'), metaWritePtr' = metaWritePtr,
           NEW g \in Rtx, NEW x, rtx' = [rtx EXCEPT ![g] = x],
           GoroutineFits(x, meta', metaWritePtr)
    PROVE  RtxOK'
<1>1. rtx \in [Rtx -> Goroutine] /\ \A h \in Rtx : GoroutineFits(rtx[h], meta, metaWritePtr)
  BY DEF RtxOK
<1>2. \A h \in Rtx : GoroutineFits(rtx[h], meta', metaWritePtr)
  BY <1>1, MarkedFits
<1>3. x \in Goroutine
  BY DEF GoroutineFits
<1>4. rtx' \in [Rtx -> Goroutine] /\ \A h \in Rtx : rtx'[h] = IF h = g THEN x ELSE rtx[h]
  BY <1>1, <1>3
<1>5. \A h \in Rtx : GoroutineFits(rtx'[h], meta', metaWritePtr)
  BY <1>2, <1>4
<1>6. QED
  BY <1>4, <1>5 DEF RtxOK

\* What is known of one goroutine.
LEMMA GoroutineFacts ==
    ASSUME IInv, NEW g \in Rtx
    PROVE  /\ RtxOK /\ SeqTypeOK /\ rtx[g] \in Goroutine
           /\ rtx[g].metas \subseteq DOMAIN rtx[g].promised /\ rtx[g].metas \in SUBSET Metas
           /\ rtx[g].pc = "write" => rtx[g].cur \in rtx[g].metas
           /\ AskedRight(rtx[g]) /\ ReadRight(rtx[g]) /\ Kept(rtx[g], meta, metaWritePtr)
<1>1. RtxOK /\ SeqTypeOK
  BY Parts
<1>2. GoroutineFits(rtx[g], meta, metaWritePtr)
  BY <1>1 DEF RtxOK
<1>3. rtx[g] \in Goroutine
  BY <1>2 DEF GoroutineFits
<1>4. rtx[g].metas \in SUBSET Metas
  BY <1>3 DEF Goroutine
<1>5. QED
  BY <1>1, <1>2, <1>4 DEF GoroutineFits

\* A goroutine that goes on with fewer records.
LEMMA RestFits ==
    ASSUME NEW m, NEW w, NEW r \in Goroutine, r.metas \subseteq DOMAIN r.promised,
           Kept(r, m, w), NEW ks \in SUBSET Metas, ks \subseteq r.metas
    PROVE  GoroutineFits(Rest(r, ks), m, w)
<1> DEFINE x == Rest(r, ks)
<1>1. /\ x \in Goroutine /\ x.pc \in {"idle", "read"} /\ x.metas = ks
      /\ x.promised = r.promised /\ x.lapse = r.lapse
  BY RestFacts DEF SameHand
<1> HIDE DEF x
<1>2. x.pc # "lookup" /\ x.pc # "write"
  BY <1>1
<1>3. Kept(x, m, w)
  BY <1>1 DEF Kept, sinceAsked
<1>4. GoroutineFits(x, m, w)
  BY <1>1, <1>2, <1>3 DEF GoroutineFits, AskedRight, ReadRight
<1>5. QED
  BY <1>4 DEF x

\* A packet of the receiver's RTCP.
LEMMA RtcpStep ==
    ASSUME IInv, NEW wants \in BOOLEAN, NEW nacks \in NackLists \cup {{}}, NEW r \in RTTs,
           handleRTCP(wants, nacks, r)
    PROVE  IInv'
<1>1. SeqTypeOK /\ RtxOK
  BY Parts
<1>2. /\ out' = Quiet \/ out' = Pli(FALSE)
      /\ setRTT(r) \/ UNCHANGED seqVars
      /\ UNCHANGED <<trackVars, next, arrived, writer, ungated, used>>
  BY DEF handleRTCP
<1>3. TrackType' /\ SyncFits' /\ NumbersFit' /\ RetransmitsWhatWasAsked' /\ NumbersNotShared'
  BY <1>2, KeepTrack, Silent, Kinds
<1>4. SeqTypeOK' /\ UNCHANGED <<meta, metaWritePtr>>
  <2>1. [SeqNext]_seqVars
    BY <1>2 DEF SeqNext
  <2>2. UNCHANGED <<meta, metaWritePtr>>
    BY <1>2 DEF setRTT, seqVars
  <2>3. QED
    BY <1>1, <2>1, <2>2, StepTypeOK
<1>5. RtxOK'
  <2>1. CASE nacks = {}
    <3>1. rtx' = rtx
      BY <2>1 DEF handleRTCP
    <3>2. QED
      BY <1>1, <1>4, <3>1, KeepRtx
  <2>2. CASE nacks # {}
    <3>1. PICK g \in Rtx : rtx' = [rtx EXCEPT ![g] = Asked(rtx[g], nacks)]
      BY <2>2 DEF handleRTCP
    <3> DEFINE y == rtx[g]
               x == Asked(y, nacks)
    <3>2. nacks \in NackLists /\ nacks \in SUBSET SN
      BY <2>2, TrackFacts
    <3>3. y \in Goroutine /\ y.metas \subseteq DOMAIN y.promised /\ Kept(y, meta, metaWritePtr)
      BY GoroutineFacts
    <3> HIDE DEF y
    <3>4. /\ x \in Goroutine /\ x.pc = "lookup" /\ x.nacks = nacks
          /\ x.metas = y.metas /\ x.promised = y.promised /\ x.lapse = y.lapse
      BY <3>2, <3>3, AskedFacts DEF SameHand
    <3> HIDE DEF x
    <3>5. Kept(x, meta, metaWritePtr)
      BY <3>3, <3>4 DEF Kept, sinceAsked
    <3>6. GoroutineFits(x, meta', metaWritePtr)
      BY <1>4, <3>2, <3>3, <3>4, <3>5 DEF GoroutineFits, AskedRight, ReadRight
    <3>7. SamePackets(meta, meta')
      BY <1>4 DEF SamePackets
    <3>8. QED
      BY <1>1, <1>4, <3>1, <3>6, <3>7, OneChanges DEF x, y
  <2>3. QED
    BY <2>1, <2>2
<1>6. QED
  BY <1>3, <1>4, <1>5, PartsNext

\* The loop of retransmitPackets reads a packet from the producer.
LEMMA ReadStep ==
    ASSUME IInv, NEW g \in Rtx, RtxRead(g)
    PROVE  IInv'
<1> DEFINE r == rtx[g]
<1>1. /\ out' = Quiet
      /\ UNCHANGED <<seqVars, trackVars, next, arrived, writer, ungated, used>>
  BY DEF RtxRead
<1>2. PICK k \in r.metas : \/ rtx' = [rtx EXCEPT ![g] = Fetched(r, k, meta[k].pkt)]
                           \/ rtx' = [rtx EXCEPT ![g] = Rest(r, r.metas \ {k})]
                           \/ rtx' = [rtx EXCEPT ![g] = Rest(r, {})]
  BY DEF RtxRead
<1>3. /\ RtxOK /\ SeqTypeOK /\ r \in Goroutine
      /\ r.metas \subseteq DOMAIN r.promised /\ r.metas \in SUBSET Metas
      /\ Kept(r, meta, metaWritePtr)
  BY GoroutineFacts
<1>4. SeqTypeOK' /\ UNCHANGED <<meta, metaWritePtr>>
  BY <1>1, <1>3, KeepSeq
<1>5. SamePackets(meta, meta')
  BY <1>4 DEF SamePackets
<1>6. TrackType' /\ SyncFits' /\ NumbersFit' /\ RetransmitsWhatWasAsked' /\ NumbersNotShared'
  BY <1>1, KeepTrack, Silent, Kinds
<1>7. ASSUME NEW ks \in SUBSET Metas, ks \subseteq r.metas, rtx' = [rtx EXCEPT ![g] = Rest(r, ks)]
      PROVE  RtxOK'
  <2>1. GoroutineFits(Rest(r, ks), meta', metaWritePtr)
    BY <1>3, <1>4, <1>7, RestFits
  <2>2. QED
    BY <1>3, <1>4, <1>5, <1>7, <2>1, OneChanges
<1>8. ASSUME rtx' = [rtx EXCEPT ![g] = Fetched(r, k, meta[k].pkt)] PROVE RtxOK'
  <2> DEFINE p == meta[k].pkt
             x == Fetched(r, k, p)
  <2>1. p \in Packets /\ k \in Metas
    BY <1>3 DEF SeqTypeOK, packetMeta
  <2> HIDE DEF p
  <2>2. /\ x \in Goroutine /\ x.pc = "write" /\ x.cur = k /\ x.src = p
        /\ x.metas = r.metas /\ x.promised = r.promised /\ x.lapse = r.lapse
    BY <1>3, <2>1, FetchedFacts DEF SameHand
  <2> HIDE DEF x
  <2>3. Kept(x, meta, metaWritePtr)
    BY <1>3, <2>2 DEF Kept, sinceAsked
  <2>4. ReadRight(x) /\ AskedRight(x)
    <3>1. ReadRight(x)
      BY <2>2, <2>3 DEF Kept, ReadRight, p
    <3>2. AskedRight(x)
      BY <2>2 DEF AskedRight
    <3>3. QED
      BY <3>1, <3>2
  <2>5. GoroutineFits(x, meta', metaWritePtr)
    BY <1>3, <1>4, <2>2, <2>3, <2>4 DEF GoroutineFits
  <2>6. rtx' = [rtx EXCEPT ![g] = x]
    BY <1>8 DEF x, p
  <2>7. QED
    BY <1>3, <1>4, <1>5, <2>5, <2>6, OneChanges
<1>9. RtxOK'
  <2>1. /\ r.metas \ {k} \in SUBSET Metas /\ r.metas \ {k} \subseteq r.metas
        /\ {} \in SUBSET Metas /\ {} \subseteq r.metas
    BY <1>3
  <2>2. QED
    BY <1>2, <1>7, <1>8, <2>1
<1>10. QED
  BY <1>4, <1>6, <1>9, PartsNext

\* The packet is sent again.
LEMMA RewriteStep ==
    ASSUME IInv, NEW g \in Rtx, RtxWrite(g)
    PROVE  IInv'
<1> DEFINE r == rtx[g]
           k == r.cur
<1>1. /\ r.pc = "write" /\ rtx' = [rtx EXCEPT ![g] = Rest(r, r.metas \ {k})]
      /\ out' = [kind |-> "rtx", sn |-> meta[k].targetSeqNo, pkt |-> r.src,
                 promised |-> r.promised[k], age |-> r.promised[k].age + r.lapse]
      /\ UNCHANGED <<seqVars, trackVars, next, arrived, writer, ungated, used>>
  BY DEF RtxWrite
<1>2. /\ RtxOK /\ SeqTypeOK /\ r \in Goroutine /\ k \in r.metas
      /\ r.metas \subseteq DOMAIN r.promised /\ r.metas \in SUBSET Metas
      /\ ReadRight(r) /\ Kept(r, meta, metaWritePtr)
  BY <1>1, GoroutineFacts
<1>3. SeqTypeOK' /\ UNCHANGED <<meta, metaWritePtr>>
  BY <1>1, <1>2, KeepSeq
<1>4. SamePackets(meta, meta')
  BY <1>3 DEF SamePackets
<1>5. TrackType' /\ SyncFits' /\ NumbersFit'
  BY <1>1, KeepTrack
<1>6. RtxOK'
  <2>1. r.metas \ {k} \in SUBSET Metas /\ r.metas \ {k} \subseteq r.metas
    BY <1>2
  <2>2. GoroutineFits(Rest(r, r.metas \ {k}), meta', metaWritePtr)
    BY <1>2, <1>3, <2>1, RestFits
  <2>3. QED
    BY <1>1, <1>2, <1>3, <1>4, <2>2, OneChanges
<1>7. sinceAsked(r, k) < MaxTrack =>
        meta[k].targetSeqNo = r.promised[k].sn /\ r.src = r.promised[k].pkt
  BY <1>1, <1>2 DEF Kept, ReadRight
<1>8. /\ out'.kind = "rtx" /\ out'.sn = meta[k].targetSeqNo /\ out'.pkt = r.src
      /\ out'.promised = r.promised[k] /\ out'.age = sinceAsked(r, k)
  BY <1>1 DEF sinceAsked
<1>9. RetransmitsWhatWasAsked' /\ NumbersNotShared'
  BY <1>7, <1>8 DEF RetransmitsWhatWasAsked, NumbersNotShared
<1>10. QED
  BY <1>3, <1>5, <1>6, <1>9, PartsNext

\* getPacketsMeta marks records, and hands them out.
LEMMA LookupStep ==
    ASSUME IInv, NEW g \in Rtx, RtxLookup(g)
    PROVE  IInv'
<1> DEFINE r == rtx[g]
           sns == answered(r.nacks)
           ks == {lookup(sn) : sn \in sns}
           w == metaWritePtr
<1>1. /\ r.pc = "lookup" /\ out' = Quiet
      /\ UNCHANGED <<trackVars, next, arrived, writer, ungated, used>>
  BY DEF RtxLookup
<1>2. RtxOK /\ SeqTypeOK /\ r.nacks \in NackLists
  BY <1>1, GoroutineFacts DEF AskedRight
<1>3. TrackType' /\ SyncFits' /\ NumbersFit' /\ RetransmitsWhatWasAsked' /\ NumbersNotShared'
  BY <1>1, KeepTrack, Silent, Kinds
<1>4. CASE Video
  <2> DEFINE p == [k \in ks |-> [sn |-> meta[k].targetSeqNo, pkt |-> meta[k].pkt,
                                 age |-> ageOf(w, k)]]
             pc == IF ks = {} THEN "idle" ELSE "read"
             x == [pc |-> pc, nacks |-> {}, metas |-> ks, cur |-> Nil, src |-> 0,
                   lapse |-> 0, promised |-> p]
  <2>1. getPacketsMeta(r.nacks) /\ rtx' = [rtx EXCEPT ![g] = x]
    BY <1>4 DEF RtxLookup, ageOf
  <2>2. SeqTypeOK' /\ metaWritePtr' = w
    <3>1. SeqNext
      BY <1>2, <2>1 DEF SeqNext
    <3>2. QED
      BY <1>2, <2>1, <3>1, StepTypeOK DEF getPacketsMeta
  <2>3. SamePackets(meta, meta')
    <3>1. ASSUME NEW k \in Metas
          PROVE  meta'[k].targetSeqNo = meta[k].targetSeqNo /\ meta'[k].pkt = meta[k].pkt
      <4>1. meta[k] \in packetMeta
        BY <1>2 DEF SeqTypeOK
      <4>2. meta'[k] = meta[k] \/
            meta'[k] = [meta[k] EXCEPT !.nacked = (meta[k].nacked + 1) % NackMod, !.lastNack = now]
        BY <2>1 DEF getPacketsMeta
      <4>3. QED
        BY <4>1, <4>2 DEF packetMeta
    <3>2. QED
      BY <3>1 DEF SamePackets
  <2>4. ks \in SUBSET Metas
    <3>1. \A sn \in sns : sn \in SN /\ lookup(sn) \in Metas
      BY <1>2, LookupType, TrackFacts DEF answered
    <3>2. QED
      BY <3>1
  <2>5. pc \in {"idle", "read"}
    OBVIOUS
  <2> HIDE DEF ks, pc
  <2>6. \A k \in ks : [sn |-> meta[k].targetSeqNo, pkt |-> meta[k].pkt, age |-> ageOf(w, k)] \in Promise
    <3>1. \A k \in Metas : ageOf(w, k) \in 0 .. MaxTrack - 1
      BY <1>2, Ages DEF ageOf
    <3>2. \A k \in Metas : meta[k].targetSeqNo \in SN /\ meta[k].pkt \in Packets
      BY <1>2 DEF SeqTypeOK, packetMeta
    <3>3. QED
      BY <2>4, <3>1, <3>2 DEF Promise
  <2>7. p \in [ks -> Promise] /\ p \in Promises /\ DOMAIN p = ks
    <3>1. p \in [ks -> Promise]
      BY <2>6
    <3>2. QED
      BY <2>4, <3>1 DEF Promises
  <2>8. \A k \in ks : /\ p[k].age = ageOf(w, k) /\ p[k].age \in Nat
                      /\ p[k].sn = meta[k].targetSeqNo /\ p[k].pkt = meta[k].pkt
    BY <2>6, TrackFacts DEF Promise
  <2> HIDE DEF p
  <2>9. x \in Goroutine
    BY <2>4, <2>5, <2>7, TrackFacts DEF Goroutine
  <2>10. x.pc = pc /\ x.metas = ks /\ x.lapse = 0 /\ x.promised = p
    OBVIOUS
  <2> HIDE DEF x
  <2>11. \A k \in ks : sinceAsked(x, k) = ageOf(w, k)
    BY <2>8, <2>10 DEF sinceAsked
  <2>12. Kept(x, meta, w)
    <3>1. \A k \in ks : ageOf(w, k) <= sinceAsked(x, k)
      BY <2>8, <2>11
    <3>2. QED
      BY <2>8, <2>10, <3>1 DEF Kept
  <2>13. GoroutineFits(x, meta, w)
    BY <2>5, <2>7, <2>9, <2>10, <2>12 DEF GoroutineFits, AskedRight, ReadRight
  <2>14. GoroutineFits(x, meta', w)
    BY <2>3, <2>13, MarkedFits
  <2>15. RtxOK'
    BY <1>2, <2>1, <2>2, <2>3, <2>14, OneChanges
  <2>16. QED
    BY <1>3, <2>2, <2>15, PartsNext
<1>5. CASE ~Video
  <2>1. rtx' = [rtx EXCEPT ![g] = NoRtx] /\ UNCHANGED seqVars
    BY <1>5 DEF RtxLookup
  <2>2. SeqTypeOK' /\ UNCHANGED <<meta, metaWritePtr>>
    BY <1>2, <2>1, KeepSeq
  <2>3. SamePackets(meta, meta')
    BY <2>2 DEF SamePackets
  <2>4. GoroutineFits(NoRtx, meta', metaWritePtr)
    BY NoRtxFits
  <2>5. RtxOK'
    BY <1>2, <2>1, <2>2, <2>3, <2>4, OneChanges
  <2>6. QED
    BY <1>3, <2>2, <2>5, PartsNext
<1>6. QED
  BY <1>4, <1>5

\* Time passes.
LEMMA ClockStep ==
    ASSUME IInv, Clock
    PROVE  IInv'
<1>1. SeqTypeOK /\ RtxOK
  BY Parts
<1>2. /\ Tick /\ out' = Quiet /\ UNCHANGED rtx
      /\ UNCHANGED <<trackVars, next, arrived, writer, ungated, used>>
  BY DEF Clock
<1>3. SeqTypeOK' /\ UNCHANGED <<meta, metaWritePtr>>
  BY <1>1, <1>2, StepTypeOK DEF SeqNext, Tick
<1>4. TrackType' /\ SyncFits' /\ NumbersFit' /\ RetransmitsWhatWasAsked' /\ NumbersNotShared'
  BY <1>2, KeepTrack, Silent, Kinds
<1>5. RtxOK'
  BY <1>1, <1>2, <1>3, KeepRtx
<1>6. QED
  BY <1>3, <1>4, <1>5, PartsNext

\* Every step keeps the inductive invariant.
LEMMA NextFits == IInv /\ [Next]_dtVars => IInv'
<1> SUFFICES ASSUME IInv, [Next]_dtVars PROVE IInv'
  OBVIOUS
<1>1. CASE Bind \/ Unbind \/ Close \/ MuteSync \/ \E val \in BOOLEAN : Mute(val)
  BY <1>1, ControlStep
<1>2. ASSUME NEW sn \in SN, NEW key \in BOOLEAN, WriteRTP(sn, key) PROVE IInv'
  BY <1>2, WriteStep
<1>3. CASE CheckSync
  BY <1>3, CheckStep
<1>4. CASE Resync
  BY <1>4, ResyncStep
<1>5. ASSUME NEW ok \in BOOLEAN, SendRTP(ok) PROVE IInv'
  BY <1>5, SendStep
<1>6. ASSUME NEW wantsKey \in BOOLEAN, NEW nacks \in NackLists \cup {{}}, NEW r \in RTTs,
             handleRTCP(wantsKey, nacks, r)
      PROVE  IInv'
  BY <1>6, RtcpStep
<1>7. ASSUME NEW g \in Rtx, RtxLookup(g) PROVE IInv'
  BY <1>7, LookupStep
<1>8. ASSUME NEW g \in Rtx, RtxRead(g) PROVE IInv'
  BY <1>8, ReadStep
<1>9. ASSUME NEW g \in Rtx, RtxWrite(g) PROVE IInv'
  BY <1>9, RewriteStep
<1>10. CASE Clock
  BY <1>10, ClockStep
<1>11. CASE UNCHANGED dtVars
  <2>1. /\ UNCHANGED seqVars
        /\ UNCHANGED <<trackVars, next, arrived, writer, ungated, used>>
        /\ UNCHANGED rtx /\ UNCHANGED out
    BY <1>11 DEF dtVars
  <2>2. SeqTypeOK /\ RtxOK /\ RetransmitsWhatWasAsked /\ NumbersNotShared
    BY Parts
  <2>3. SeqTypeOK' /\ RtxOK'
    BY <2>1, <2>2, KeepSeq, KeepRtx
  <2>4. TrackType' /\ SyncFits' /\ NumbersFit'
    BY <2>1, KeepTrack
  <2>5. RetransmitsWhatWasAsked' /\ NumbersNotShared'
    BY <2>1, <2>2 DEF RetransmitsWhatWasAsked, NumbersNotShared
  <2>6. QED
    BY <2>3, <2>4, <2>5, PartsNext
<1>12. QED
  BY <1>1, <1>2, <1>3, <1>4, <1>5, <1>6, <1>7, <1>8, <1>9, <1>10, <1>11 DEF Next

\* The inductive invariant holds in every reachable state.
LEMMA Invariance == Spec => []IInv
BY InitFits, NextFits, PTL DEF Spec

-----------------------------------------------------------------------------
\* The track, its writer and its goroutines keep their types: numbers keep
\* their width, and a goroutine works only on records it was handed.
THEOREM TypeCorrect == Spec => []TypeOK
<1>1. IInv => TypeOK
  BY DEF IInv
<1>2. QED
  BY <1>1, Invariance, PTL

\* Although retransmitPackets reads the records after the sequencer's lock is
\* released and WriteRTP may overwrite them, what is sent again is the packet
\* that was asked for under its own number, as long as fewer than MaxTrack
\* packets were pushed after it.
THEOREM SendsAgainWhatWasAsked == Spec => []RetransmitsWhatWasAsked
<1>1. IInv => RetransmitsWhatWasAsked
  BY DEF IInv
<1>2. QED
  BY <1>1, Invariance, PTL

\* Once Bind or Mute has set syncRequired, at most one delta frame is sent before
\* a key frame.
THEOREM KeyFrameComesFirst == Spec => []KeyFrameFirst
<1>1. IInv => KeyFrameFirst
  BY DEF IInv, SyncFits, KeyFrameFirst
<1>2. QED
  BY <1>1, Invariance, PTL

\* Between two syncs no number is given to two packets, for any range of
\* numbers and any order of arrival.
THEOREM NumbersAreNotShared == Spec => []NumbersNotShared
<1>1. IInv => NumbersNotShared
  BY DEF IInv
<1>2. QED
  BY <1>1, Invariance, PTL
=============================================================================
