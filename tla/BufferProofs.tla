---------------------------- MODULE BufferProofs ----------------------------
(***************************************************************************)
(* Proofs about Buffer.  For any streams, codecs, bucket size and bounds:  *)
(* memory is neither shared nor used after it was given back, the factory  *)
(* finds the open buffers, the reader gets a packet once, and a NACK names *)
(* only packets that have not come.                                        *)
(***************************************************************************)
EXTENDS Buffer, TLAPS

\* Buffer b may use slab s: it is open, or in the loop of Bind.
Holds(b, s) == buf[b].slab = s /\ (~buf[b].closed \/ reader[b] = "bind")

\* A slab the pools have made is in one pool once, or one buffer may use it, or
\* it is lost (to a buffer that was bound after it was closed).
SlabsFit ==
    /\ \A p \in Pools, s \in Slabs : pool[p][s] # 0 => s <= fresh /\ pool[p][s] = 1
    /\ \A s \in Slabs : pool["video"][s] = 0 \/ pool["audio"][s] = 0
    /\ \A b \in 1 .. made, s \in Slabs :
         Holds(b, s) => s <= fresh /\ \A p \in Pools : pool[p][s] = 0
    /\ \A b, c \in 1 .. made, s \in Slabs : Holds(b, s) /\ Holds(c, s) => b = c

\* A buffer whose Close has still to tell the factory is the one it will remove.
ClosingFound == \A b \in closing : buf[b].closed /\ rtpBuffers[buf[b].ssrc] = b

\* The bucket of r knows x: it has it, or x is too old to be taken again.
Known(r, x) == x <= r.head /\ (x > r.head - BucketSize => x \in r.stored)

Distinct(s) == \A i, j \in 1 .. Len(s) : s[i] = s[j] => i = j

\* The statistics of a buffer, the packets it has still to hand on and those it
\* has handed on (g).
StreamFits(r, g) ==
    /\ \A x \in r.seen : x <= r.highest
    /\ r.nacker \cap r.seen = {}
    /\ Distinct(r.extPackets) /\ Distinct(g)
    /\ \A i \in 1 .. Len(r.extPackets) : Known(r, r.extPackets[i])
    /\ \A i \in 1 .. Len(g) : Known(r, g[i])
    /\ \A i \in 1 .. Len(r.extPackets), j \in 1 .. Len(g) : r.extPackets[i] # g[j]

StreamsFit ==
    /\ \A b \in 1 .. made : StreamFits(buf[b], got[b])
    /\ \A b \in Buffers : b > made => got[b] = <<>>

\* A buffer in the loop of Bind has its memory.
BindHasSlab == \A b \in Buffers :
    reader[b] = "bind" => b \in 1 .. made /\ buf[b].slab # NoSlab

IInv == /\ TypeOK /\ SlabsFit /\ BindHasSlab /\ NoUseAfterClose
        /\ FactoryFindsOpen /\ ClosingFound /\ StreamsFit

-----------------------------------------------------------------------------
(* The fields of a buffer.                                                 *)

\* What a packet leaves as it was.
SameLife(x, y) == /\ x.ssrc = y.ssrc /\ x.bound = y.bound /\ x.bindDone = y.bindDone
                  /\ x.closed = y.closed /\ x.codec = y.codec /\ x.slab = y.slab
                  /\ x.pPackets = y.pPackets

\* What the statistics leave as it was.
SameBucket(x, y) == x.head = y.head /\ x.stored = y.stored /\ x.extPackets = y.extPackets

\* What the bucket leaves as it was.
SameCounts(x, y) == x.highest = y.highest /\ x.seen = y.seen /\ x.nacker = y.nacker

\* The changes of the statistics, of the bucket, and of Bind.
Counted(r, h, s, n) == [r EXCEPT !.highest = h, !.seen = s, !.nacker = n]
Stored(r, h, s, e) == [r EXCEPT !.head = h, !.stored = s, !.extPackets = e]
Taken(r, c, s) == [r EXCEPT !.codec = c, !.slab = s, !.bindDone = TRUE]

\* The statistics change as they are told, and nothing else does.
LEMMA CountedFacts ==
    ASSUME NEW r \in Buffer, NEW h \in {0} \cup SN, NEW s \in SUBSET SN, NEW n \in SUBSET SN
    PROVE  /\ Counted(r, h, s, n) \in Buffer
           /\ Counted(r, h, s, n).highest = h /\ Counted(r, h, s, n).seen = s
           /\ Counted(r, h, s, n).nacker = n
           /\ SameLife(Counted(r, h, s, n), r) /\ SameBucket(Counted(r, h, s, n), r)
<1> DEFINE x == [r EXCEPT !.highest = h]
           y == [x EXCEPT !.seen = s]
           z == [y EXCEPT !.nacker = n]
<1>1. x \in Buffer
  BY DEF Buffer
<1>2. x.highest = h /\ SameLife(x, r) /\ SameBucket(x, r)
  BY DEF Buffer, SameLife, SameBucket
<1> HIDE DEF x
<1>3. y \in Buffer
  BY <1>1 DEF Buffer
<1>4. y.highest = h /\ y.seen = s /\ SameLife(y, x) /\ SameBucket(y, x)
  BY <1>1, <1>2 DEF Buffer, SameLife, SameBucket
<1> HIDE DEF y
<1>5. z \in Buffer
  BY <1>3 DEF Buffer
<1>6. z.highest = h /\ z.seen = s /\ z.nacker = n /\ SameLife(z, y) /\ SameBucket(z, y)
  BY <1>3, <1>4 DEF Buffer, SameLife, SameBucket
<1>7. Counted(r, h, s, n) = z
  BY DEF Counted, x, y
<1> HIDE DEF z
<1>8. QED
  BY <1>2, <1>4, <1>5, <1>6, <1>7 DEF SameLife, SameBucket

\* The bucket changes as it is told, and nothing else does.
LEMMA StoredFacts ==
    ASSUME NEW r \in Buffer, NEW h \in {0} \cup SN, NEW s \in SUBSET SN, NEW e \in Seq(SN)
    PROVE  /\ Stored(r, h, s, e) \in Buffer
           /\ Stored(r, h, s, e).head = h /\ Stored(r, h, s, e).stored = s
           /\ Stored(r, h, s, e).extPackets = e
           /\ SameLife(Stored(r, h, s, e), r) /\ SameCounts(Stored(r, h, s, e), r)
<1> DEFINE x == [r EXCEPT !.head = h]
           y == [x EXCEPT !.stored = s]
           z == [y EXCEPT !.extPackets = e]
<1>1. x \in Buffer
  BY DEF Buffer
<1>2. x.head = h /\ SameLife(x, r) /\ SameCounts(x, r)
  BY DEF Buffer, SameLife, SameCounts
<1> HIDE DEF x
<1>3. y \in Buffer
  BY <1>1 DEF Buffer
<1>4. y.head = h /\ y.stored = s /\ SameLife(y, x) /\ SameCounts(y, x)
  BY <1>1, <1>2 DEF Buffer, SameLife, SameCounts
<1> HIDE DEF y
<1>5. z \in Buffer
  BY <1>3 DEF Buffer
<1>6. z.head = h /\ z.stored = s /\ z.extPackets = e /\ SameLife(z, y) /\ SameCounts(z, y)
  BY <1>3, <1>4 DEF Buffer, SameLife, SameCounts
<1>7. Stored(r, h, s, e) = z
  BY DEF Stored, x, y
<1> HIDE DEF z
<1>8. QED
  BY <1>2, <1>4, <1>5, <1>6, <1>7 DEF SameLife, SameCounts

\* Bind gives the buffer its codec and its memory.
LEMMA TakenFacts ==
    ASSUME NEW r \in Buffer, NEW c \in {"video", "audio", "red"}, NEW s \in Slabs
    PROVE  /\ Taken(r, c, s) \in Buffer
           /\ Taken(r, c, s).slab = s /\ Taken(r, c, s).codec = c
           /\ Taken(r, c, s).ssrc = r.ssrc /\ Taken(r, c, s).closed = r.closed
           /\ Taken(r, c, s).bound = r.bound /\ Taken(r, c, s).pPackets = r.pPackets
           /\ SameBucket(Taken(r, c, s), r) /\ SameCounts(Taken(r, c, s), r)
<1> DEFINE x == [r EXCEPT !.codec = c]
           y == [x EXCEPT !.slab = s]
           z == [y EXCEPT !.bindDone = TRUE]
           Rest(u, v) == /\ u.ssrc = v.ssrc /\ u.closed = v.closed /\ u.bound = v.bound
                         /\ u.pPackets = v.pPackets /\ SameBucket(u, v) /\ SameCounts(u, v)
<1>1. x \in Buffer
  BY DEF Buffer
<1>2. x.codec = c /\ Rest(x, r)
  BY DEF Buffer, SameBucket, SameCounts
<1> HIDE DEF x
<1>3. y \in Buffer
  BY <1>1 DEF Buffer
<1>4. y.codec = c /\ y.slab = s /\ Rest(y, x)
  BY <1>1, <1>2 DEF Buffer, SameBucket, SameCounts
<1> HIDE DEF y
<1>5. z \in Buffer
  BY <1>3 DEF Buffer
<1>6. z.codec = c /\ z.slab = s /\ Rest(z, y)
  BY <1>3, <1>4 DEF Buffer, SameBucket, SameCounts
<1>7. Taken(r, c, s) = z
  BY DEF Taken, x, y
<1> HIDE DEF z
<1>8. QED
  BY <1>2, <1>4, <1>5, <1>6, <1>7 DEF SameBucket, SameCounts

-----------------------------------------------------------------------------
(* calc.                                                                   *)

\* The statistics take a packet: no number that came is asked for.
LEMMA UpdateFacts ==
    ASSUME NEW r \in Buffer, NEW sn \in SN
    PROVE  LET u == updateStreamState(r, sn)
           IN  /\ u \in Buffer /\ SameLife(u, r) /\ SameBucket(u, r)
               /\ (\A x \in r.seen : x <= r.highest) /\ r.nacker \cap r.seen = {} =>
                    (\A x \in u.seen : x <= u.highest) /\ u.nacker \cap u.seen = {}
<1> DEFINE h == IF r.highest = 0 \/ sn > r.highest THEN sn ELSE r.highest
           s == r.seen \cup {sn}
           new == IF r.highest = 0 THEN {} ELSE r.highest + 1 .. sn - 1
           n == IF r.codec = "red" THEN {} ELSE (r.nacker \ {sn}) \cup new
           u == updateStreamState(r, sn)
<1>1. /\ r.highest \in Nat /\ r.highest \in {0} \cup SN /\ r.seen \in SUBSET SN
      /\ r.nacker \in SUBSET SN /\ sn \in Nat /\ SN \subseteq Nat
  BY BufferConstants DEF Buffer, SN
<1>2. h \in {0} \cup SN /\ s \in SUBSET SN
  BY <1>1
<1>3. new \in SUBSET SN
  BY <1>1, BufferConstants DEF SN
<1>4. n \in SUBSET SN
  BY <1>1, <1>3
<1>5. u = Counted(r, h, s, n)
  BY DEF updateStreamState, Counted
<1> HIDE DEF h, s, n, u
<1>6. /\ u \in Buffer /\ SameLife(u, r) /\ SameBucket(u, r)
      /\ u.highest = h /\ u.seen = s /\ u.nacker = n
  BY <1>2, <1>4, <1>5, CountedFacts
<1>7. ASSUME \A x \in r.seen : x <= r.highest, r.nacker \cap r.seen = {}
      PROVE  (\A x \in u.seen : x <= u.highest) /\ u.nacker \cap u.seen = {}
  <2>a. h \in Nat /\ sn <= h /\ r.highest <= h
    BY <1>1 DEF h
  <2>b. \A x \in r.seen : x \in Nat /\ x <= r.highest
    BY <1>1, <1>7
  <2>1. \A x \in s : x <= h
    BY <1>1, <2>a, <2>b DEF s
  <2>2. \A x \in new : x \notin r.seen /\ x # sn
    BY <1>1, <1>7
  <2>3. n \cap s = {}
    BY <1>7, <2>2 DEF n, s
  <2>4. QED
    BY <1>6, <2>1, <2>3
<1>8. QED
  BY <1>6, <1>7 DEF u

\* The bucket takes a packet: the others stay known, and this one is new.
LEMMA ForwardFacts ==
    ASSUME NEW r \in Buffer, NEW sn \in SN, NEW parse \in Outcomes
    PROVE  LET u == forwarded(r, sn, parse)
           IN  /\ u \in Buffer /\ SameLife(u, r) /\ SameCounts(u, r)
               /\ u.extPackets = (IF parse = "read" THEN Append(r.extPackets, sn)
                                  ELSE r.extPackets)
               /\ Known(u, sn)
               /\ \A x \in SN : Known(r, x) => Known(u, x)
               /\ \A x \in SN : Known(r, x) /\ AddPacket(r, sn) => x # sn
<1> DEFINE h == IF r.head = 0 \/ sn > r.head THEN sn ELSE r.head
           s == {n \in r.stored \cup {sn} : n > h - BucketSize}
           e == IF parse = "read" THEN Append(r.extPackets, sn) ELSE r.extPackets
           u == forwarded(r, sn, parse)
<1>1. /\ r.head \in Nat /\ r.head \in {0} \cup SN /\ r.stored \in SUBSET SN
      /\ r.extPackets \in Seq(SN) /\ sn \in Nat /\ SN \subseteq Nat /\ BucketSize \in Nat \ {0}
      /\ \A x \in SN : x > 0
  BY BufferConstants DEF Buffer, SN
<1>2. h \in {0} \cup SN /\ h \in Nat /\ s \in SUBSET SN /\ e \in Seq(SN)
  BY <1>1
<1>3. u = Stored(r, h, s, e)
  BY DEF forwarded, Stored
<1> HIDE DEF s, e, u
<1>4. /\ u \in Buffer /\ SameLife(u, r) /\ SameCounts(u, r)
      /\ u.head = h /\ u.stored = s /\ u.extPackets = e
  <2> HIDE DEF h
  <2>1. QED
    BY <1>2, <1>3, StoredFacts
<1>5. sn <= h /\ r.head <= h
  BY <1>1
<1>6. Known(u, sn)
  BY <1>1, <1>4, <1>5 DEF Known, s
<1>7. ASSUME NEW x \in SN, Known(r, x) PROVE Known(u, x)
  <2>1. x \in Nat /\ x <= r.head /\ (x > r.head - BucketSize => x \in r.stored)
    BY <1>1, <1>7 DEF Known
  <2>2. x <= h
    BY <1>1, <1>2, <1>5, <2>1
  <2>3. x > h - BucketSize => x > r.head - BucketSize
    BY <1>1, <1>2, <1>5, <2>1
  <2>4. x > h - BucketSize => x \in s
    BY <2>1, <2>3 DEF s
  <2>5. QED
    BY <1>4, <2>2, <2>4 DEF Known
<1>8. ASSUME NEW x \in SN, Known(r, x), AddPacket(r, sn) PROVE x # sn
  BY <1>1, <1>8 DEF Known, AddPacket
<1>9. QED
  BY <1>4, <1>6, <1>7, <1>8 DEF u, e

\* A sequence without duplicates stays so when something new is appended.
LEMMA AppendDistinct ==
    ASSUME NEW s \in Seq(SN), NEW x \in SN, Distinct(s), \A i \in 1 .. Len(s) : s[i] # x
    PROVE  /\ Distinct(Append(s, x))
           /\ \A i \in 1 .. Len(Append(s, x)) :
                (i \in 1 .. Len(s) /\ Append(s, x)[i] = s[i]) \/ Append(s, x)[i] = x
<1>1. Len(s) \in Nat /\ Len(Append(s, x)) = Len(s) + 1
  OBVIOUS
<1>2. Append(s, x)[Len(s) + 1] = x
  OBVIOUS
<1>3. \A i \in 1 .. Len(s) : Append(s, x)[i] = s[i]
  OBVIOUS
<1>4. QED
  BY <1>1, <1>2, <1>3 DEF Distinct

\* A packet that is not counted leaves the statistics as they were.
LEMMA CountedPacket ==
    ASSUME NEW r \in Buffer, NEW sn \in SN, NEW parse \in Outcomes
    PROVE  LET u == counted(r, sn, parse)
           IN  /\ u \in Buffer /\ SameLife(u, r) /\ SameBucket(u, r)
               /\ (\A x \in r.seen : x <= r.highest) /\ r.nacker \cap r.seen = {} =>
                    (\A x \in u.seen : x <= u.highest) /\ u.nacker \cap u.seen = {}
<1>1. CASE parse = "badRTP"
  BY <1>1 DEF counted, SameLife, SameBucket
<1>2. CASE parse # "badRTP"
  <2>1. counted(r, sn, parse) = updateStreamState(r, sn)
    BY <1>2 DEF counted
  <2>2. QED
    BY <2>1, UpdateFacts
<1>3. QED
  BY <1>1, <1>2

\* calc keeps a buffer a buffer, and changes only its stream.
LEMMA CalcLife ==
    ASSUME NEW r \in Buffer, NEW sn \in SN, NEW parse \in Outcomes
    PROVE  calc(r, sn, parse) \in Buffer /\ SameLife(calc(r, sn, parse), r)
<1> DEFINE u == counted(r, sn, parse)
           v == forwarded(u, sn, parse)
<1>1. u \in Buffer /\ SameLife(u, r)
  BY CountedPacket
<1>2. calc(r, sn, parse) = u \/ calc(r, sn, parse) = v
  BY DEF calc
<1> HIDE DEF u
<1>3. v \in Buffer /\ SameLife(v, u)
  BY <1>1, ForwardFacts
<1>4. QED
  BY <1>1, <1>2, <1>3 DEF SameLife

\* calc keeps a stream fit: a packet the bucket takes was not handed on before.
LEMMA CalcFits ==
    ASSUME NEW r \in Buffer, NEW sn \in SN, NEW parse \in Outcomes,
           NEW g \in Seq(SN), StreamFits(r, g)
    PROVE  StreamFits(calc(r, sn, parse), g)
<1> DEFINE u == counted(r, sn, parse)
           v == forwarded(u, sn, parse)
<1>1. /\ u \in Buffer /\ SameBucket(u, r)
      /\ \A x \in u.seen : x <= u.highest
      /\ u.nacker \cap u.seen = {}
  BY CountedPacket DEF StreamFits
<1>2. AddPacket(u, sn) <=> AddPacket(r, sn)
  BY <1>1 DEF AddPacket, SameBucket
<1>3. calc(r, sn, parse) = IF AddPacket(u, sn) THEN v ELSE u
  BY <1>2 DEF calc
<1> HIDE DEF u
<1>4. StreamFits(u, g)
  BY <1>1 DEF StreamFits, SameBucket, Known
<1>5. ASSUME AddPacket(u, sn) PROVE StreamFits(v, g)
  <2>1. /\ v \in Buffer /\ SameCounts(v, u)
        /\ v.extPackets = (IF parse = "read" THEN Append(u.extPackets, sn) ELSE u.extPackets)
        /\ Known(v, sn)
        /\ \A x \in SN : Known(u, x) => Known(v, x) /\ x # sn
    BY <1>1, <1>5, ForwardFacts
  <2>2. /\ u.extPackets \in Seq(SN) /\ Distinct(u.extPackets)
        /\ \A i \in 1 .. Len(u.extPackets) :
             u.extPackets[i] \in SN /\ u.extPackets[i] # sn /\ Known(v, u.extPackets[i])
    <3>1. u.extPackets \in Seq(SN)
      BY <1>1 DEF Buffer
    <3>2. \A i \in 1 .. Len(u.extPackets) : u.extPackets[i] \in SN
      BY <3>1
    <3>3. QED
      BY <1>4, <2>1, <3>1, <3>2 DEF StreamFits
  <2>3. \A j \in 1 .. Len(g) : g[j] \in SN /\ g[j] # sn /\ Known(v, g[j])
    <3>1. \A j \in 1 .. Len(g) : g[j] \in SN
      OBVIOUS
    <3>2. QED
      BY <1>4, <2>1, <3>1 DEF StreamFits
  <2> HIDE DEF v
  <2>4. (\A x \in v.seen : x <= v.highest) /\ v.nacker \cap v.seen = {}
    BY <1>1, <2>1 DEF SameCounts
  <2>5. CASE parse # "read"
    BY <1>4, <2>1, <2>2, <2>3, <2>4, <2>5 DEF StreamFits
  <2>6. CASE parse = "read"
    <3> DEFINE e == u.extPackets
               f == Append(e, sn)
    <3>1. v.extPackets = f
      BY <2>1, <2>6
    <3>2. /\ Distinct(f)
          /\ \A i \in 1 .. Len(f) : (i \in 1 .. Len(e) /\ f[i] = e[i]) \/ f[i] = sn
      BY <2>2, AppendDistinct
    <3> HIDE DEF f
    <3>3. \A i \in 1 .. Len(f) : Known(v, f[i])
      BY <2>1, <2>2, <3>2
    <3>4. \A i \in 1 .. Len(f), j \in 1 .. Len(g) : f[i] # g[j]
      BY <1>4, <2>3, <3>2 DEF StreamFits
    <3>5. QED
      BY <1>4, <2>3, <2>4, <3>1, <3>2, <3>3, <3>4 DEF StreamFits
  <2>7. QED
    BY <2>5, <2>6
<1>6. QED
  BY <1>3, <1>4, <1>5

-----------------------------------------------------------------------------
(* What steps have in common.                                              *)

\* Slabs and buffers are numbered from 1.
LEMMA Numbers ==
    /\ NoSlab \notin Slabs /\ Slabs \subseteq Nat /\ Buffers \subseteq Nat
    /\ \A p \in Pools : p = "video" \/ p = "audio"
    /\ \A c : poolOf(c) \in Pools
    /\ \A n \in 0 .. MaxBuffers : 1 .. n \subseteq Buffers
BY BufferConstants DEF NoSlab, Slabs, Buffers, Pools, poolOf

\* One buffer changes.
LEMMA BufferChanges ==
    ASSUME TypeOK, NEW b \in 1 .. made, NEW x \in Buffer, buf' = [buf EXCEPT ![b] = x]
    PROVE  /\ buf' \in [1 .. made -> Buffer]
           /\ \A c \in 1 .. made : buf'[c] = IF c = b THEN x ELSE buf[c]
BY DEF TypeOK

\* No buffer may use more than before, and the pools stay.
LEMMA KeepSlabs ==
    ASSUME SlabsFit, UNCHANGED <<pool, fresh, made>>,
           \A c \in 1 .. made, s \in Slabs : Holds(c, s)' => Holds(c, s)
    PROVE  SlabsFit'
<1>1. \A b \in 1 .. made, s \in Slabs :
        Holds(b, s)' => s <= fresh /\ \A p \in Pools : pool[p][s] = 0
  BY DEF SlabsFit
<1>2. \A b, c \in 1 .. made, s \in Slabs : Holds(b, s)' /\ Holds(c, s)' => b = c
  BY DEF SlabsFit
<1>3. QED
  BY <1>1, <1>2 DEF SlabsFit

\* Buffers stay open or closed, and the factory's map stays.
LEMMA KeepFactory ==
    ASSUME TypeOK, FactoryFindsOpen, ClosingFound, UNCHANGED <<rtpBuffers, made, closing>>,
           \A c \in 1 .. made : buf'[c].ssrc = buf[c].ssrc /\ buf'[c].closed = buf[c].closed
    PROVE  FactoryFindsOpen' /\ ClosingFound'
BY DEF TypeOK, FactoryFindsOpen, ClosingFound

\* A step that uses the memory of a buffer which may use it.
LEMMA UseFits ==
    ASSUME TypeOK, SlabsFit, NEW b \in 1 .. made, UNCHANGED pool,
           touched' = NoSlab \/ (touched' = buf[b].slab /\ (~buf[b].closed \/ reader[b] = "bind"))
    PROVE  NoUseAfterClose'
<1>1. CASE touched' = NoSlab
  BY <1>1 DEF NoUseAfterClose
<1>2. CASE /\ touched' = buf[b].slab /\ touched' # NoSlab
           /\ ~buf[b].closed \/ reader[b] = "bind"
  <2>1. buf[b].slab \in Slabs /\ Holds(b, buf[b].slab)
    BY <1>2 DEF TypeOK, Buffer, Holds
  <2>2. \A p \in Pools : pool[p][buf[b].slab] = 0
    BY <2>1 DEF SlabsFit
  <2>3. QED
    BY <1>2, <2>2 DEF NoUseAfterClose
<1>3. QED
  BY <1>1, <1>2

\* Nothing is bound when the factory is new.
LEMMA InitFits == Init => IInv
<1> SUFFICES ASSUME Init PROVE IInv
  OBVIOUS
<1>1. made = 0 /\ 1 .. made = {}
  BY DEF Init
<1>2. TypeOK
  <2>1. buf \in [1 .. made -> Buffer]
    BY <1>1 DEF Init
  <2>2. \A b \in Buffers : <<>> \in Seq(SN)
    OBVIOUS
  <2>3. QED
    BY <1>1, <2>1, <2>2, BufferConstants DEF Init, TypeOK
<1>3. SlabsFit
  BY <1>1 DEF Init, SlabsFit, Pools
<1>4. BindHasSlab /\ NoUseAfterClose /\ FactoryFindsOpen /\ ClosingFound
  BY <1>1 DEF Init, BindHasSlab, NoUseAfterClose, FactoryFindsOpen, ClosingFound
<1>5. StreamsFit
  BY <1>1 DEF Init, StreamsFit
<1>6. QED
  BY <1>2, <1>3, <1>4, <1>5 DEF IInv

\* A new buffer.
LEMMA NewFacts ==
    ASSUME NEW s \in SSRCs
    PROVE  /\ NewBuffer(s) \in Buffer /\ NewBuffer(s).ssrc = s /\ ~NewBuffer(s).closed
           /\ NewBuffer(s).slab = NoSlab /\ ~NewBuffer(s).bound
           /\ StreamFits(NewBuffer(s), <<>>)
<1>1. <<>> \in Seq(SN) /\ Len(<<>>) = 0
  OBVIOUS
<1>2. NewBuffer(s) \in Buffer
  BY <1>1 DEF NewBuffer, Buffer
<1>3. /\ NewBuffer(s).ssrc = s /\ ~NewBuffer(s).closed /\ NewBuffer(s).slab = NoSlab
      /\ ~NewBuffer(s).bound /\ NewBuffer(s).extPackets = <<>>
      /\ NewBuffer(s).seen = {} /\ NewBuffer(s).nacker = {}
  BY DEF NewBuffer
<1>4. StreamFits(NewBuffer(s), <<>>)
  BY <1>1, <1>3 DEF StreamFits, Distinct
<1>5. QED
  BY <1>2, <1>3, <1>4

\* Factory.GetOrNew.
LEMMA GetOrNewStep ==
    ASSUME IInv, NEW ssrc \in SSRCs, GetOrNew(ssrc)
    PROVE  IInv'
<1> DEFINE m == made + 1
<1>1. /\ rtpBuffers[ssrc] = 0 /\ made < MaxBuffers /\ made' = m
      /\ rtpBuffers' = [rtpBuffers EXCEPT ![ssrc] = m]
      /\ buf' = [b \in 1 .. m |-> IF b <= made THEN buf[b] ELSE NewBuffer(ssrc)]
      /\ touched' = NoSlab
      /\ UNCHANGED <<written, pool, fresh, reader, closing, got>>
  BY DEF GetOrNew
<1>2. /\ made \in Nat /\ m \in Nat /\ m \in 0 .. MaxBuffers /\ m \in Buffers
      /\ m \notin 1 .. made
      /\ \A b : b \in 1 .. m <=> b \in 1 .. made \/ b = m
  <2>1. made \in Nat /\ MaxBuffers \in Nat
    BY BufferConstants DEF IInv, TypeOK
  <2>2. QED
    BY <1>1, <2>1 DEF Buffers
<1>3. \A b \in 1 .. m : buf'[b] = IF b = m THEN NewBuffer(ssrc) ELSE buf[b]
  BY <1>1, <1>2
<1>4. buf' \in [1 .. m -> Buffer]
  BY <1>1, <1>2, NewFacts DEF IInv, TypeOK
<1> HIDE DEF m
<1>5. rtpBuffers' \in [SSRCs -> 0 .. m] /\ \A s \in SSRCs \ {ssrc} : rtpBuffers'[s] = rtpBuffers[s]
  BY <1>1, <1>2 DEF IInv, TypeOK, m
<1>6. TypeOK'
  <2>1. \A b \in 1 .. m : buf'[b].bound => buf'[b].slab # NoSlab /\ buf'[b].pPackets = <<>>
    BY <1>2, <1>3, NewFacts DEF IInv, TypeOK
  <2>2. closing \subseteq 1 .. m
    BY <1>2 DEF IInv, TypeOK
  <2>3. QED
    BY <1>1, <1>2, <1>4, <1>5, <2>1, <2>2 DEF IInv, TypeOK
<1>7. SlabsFit'
  <2>1. \A b \in 1 .. m, s \in Slabs : Holds(b, s)' => b \in 1 .. made /\ Holds(b, s)
    BY <1>1, <1>2, <1>3, NewFacts, Numbers DEF Holds
  <2>2. QED
    BY <1>1, <2>1 DEF IInv, SlabsFit
<1>8. NoUseAfterClose'
  BY <1>1 DEF NoUseAfterClose
<1>9. \A b \in 1 .. made : /\ buf'[b] = buf[b] /\ buf[b].ssrc \in SSRCs
                           /\ rtpBuffers[buf[b].ssrc] = b => rtpBuffers'[buf[b].ssrc] = b
                           /\ rtpBuffers'[buf[b].ssrc] = b => rtpBuffers[buf[b].ssrc] = b
  <2>a. \A b \in 1 .. made : b # m /\ b # 0 /\ b \in 1 .. m
    BY <1>2
  <2>b. \A b \in 1 .. made : buf[b].ssrc \in SSRCs
    BY DEF IInv, TypeOK, Buffer
  <2>1. \A b \in 1 .. made : b # m /\ b # 0 /\ buf[b].ssrc \in SSRCs /\ buf'[b] = buf[b]
    BY <1>3, <2>a, <2>b
  <2>2. rtpBuffers'[ssrc] = m /\ rtpBuffers[ssrc] = 0
    BY <1>1 DEF IInv, TypeOK
  <2>3. QED
    BY <1>5, <2>1, <2>2
<1>10. FactoryFindsOpen'
  <2>1. buf'[m].ssrc = ssrc /\ ~buf'[m].closed /\ rtpBuffers'[ssrc] = m
    BY <1>1, <1>2, <1>3, NewFacts DEF IInv, TypeOK
  <2>2. \A b \in 1 .. made : LET found == rtpBuffers'[buf'[b].ssrc] = b
                             IN  /\ ~buf'[b].closed => found
                                 /\ buf'[b].closed /\ found => b \in closing
    BY <1>9 DEF IInv, FactoryFindsOpen
  <2>3. QED
    BY <1>1, <1>2, <2>1, <2>2 DEF FactoryFindsOpen
<1>11. ClosingFound'
  BY <1>1, <1>9 DEF IInv, TypeOK, ClosingFound
<1>12. StreamsFit'
  <2>1. got[m] = <<>>
    BY <1>2 DEF IInv, StreamsFit, m
  <2>2. \A b \in 1 .. m : StreamFits(buf'[b], got[b])
    BY <1>2, <1>3, <2>1, NewFacts DEF IInv, StreamsFit
  <2>3. \A b \in Buffers : b > m => b > made
    BY <1>2, Numbers DEF m
  <2>4. QED
    BY <1>1, <2>2, <2>3 DEF IInv, StreamsFit
<1>13. BindHasSlab'
  <2>1. ASSUME NEW b \in Buffers, reader[b] = "bind" PROVE b \in 1 .. m /\ buf'[b].slab # NoSlab
    <3>1. b \in 1 .. made /\ buf[b].slab # NoSlab
      BY <2>1 DEF IInv, BindHasSlab
    <3>2. QED
      BY <1>2, <1>9, <3>1
  <2>2. QED
    BY <1>1, <2>1 DEF BindHasSlab
<1>14. QED
  BY <1>6, <1>7, <1>8, <1>10, <1>11, <1>12, <1>13 DEF IInv

\* Steps that change no buffer: the reader's looks, and GetPacket.
LEMMA LookStep ==
    ASSUME IInv, NEW b \in 1 .. made,
           ReadCheck(b) \/ ReadNothing(b) \/ \E sn \in SN : GetPacket(b, sn)
    PROVE  IInv'
<1>1. /\ UNCHANGED <<rtpBuffers, made, written, buf, pool, fresh, closing, got>>
      /\ touched' = NoSlab \/ (touched' = buf[b].slab /\ ~buf[b].closed)
  BY DEF ReadCheck, ReadNothing, GetPacket, getPacket
<1>2. b \in Buffers
  BY Numbers DEF IInv, TypeOK
<1>3. /\ reader' \in [Buffers -> {"idle", "bind", "check", "lock", "eof"}]
      /\ \A c \in Buffers : reader'[c] = "bind" => reader[c] = "bind"
  BY <1>2 DEF ReadCheck, ReadNothing, GetPacket, IInv, TypeOK
<1>4. touched' \in {NoSlab} \cup Slabs
  BY <1>1 DEF IInv, TypeOK, Buffer
<1>5. TypeOK'
  BY <1>1, <1>3, <1>4 DEF IInv, TypeOK
<1>6. SlabsFit'
  <2>1. \A c \in 1 .. made, s \in Slabs : Holds(c, s)' => Holds(c, s)
    BY <1>1, <1>3, Numbers DEF Holds, IInv, TypeOK
  <2>2. QED
    BY <1>1, <2>1, KeepSlabs DEF IInv
<1>7. NoUseAfterClose'
  BY <1>1, UseFits DEF IInv
<1>8. FactoryFindsOpen' /\ ClosingFound'
  BY <1>1, KeepFactory DEF IInv
<1>9. StreamsFit' /\ BindHasSlab'
  BY <1>1, <1>3 DEF IInv, StreamsFit, BindHasSlab
<1>10. QED
  BY <1>5, <1>6, <1>7, <1>8, <1>9 DEF IInv

\* onClose removes the buffer that was closed, and no other.
LEMMA OnCloseStep ==
    ASSUME IInv, NEW b \in 1 .. made, OnClose(b)
    PROVE  IInv'
<1>1. /\ b \in closing /\ rtpBuffers' = [rtpBuffers EXCEPT ![buf[b].ssrc] = 0]
      /\ closing' = closing \ {b} /\ touched' = NoSlab
      /\ UNCHANGED <<made, written, buf, pool, fresh, reader, got>>
  BY DEF OnClose
<1>2. buf[b].ssrc \in SSRCs /\ buf[b].closed /\ rtpBuffers[buf[b].ssrc] = b
  BY <1>1 DEF IInv, TypeOK, Buffer, ClosingFound
<1>3. TypeOK'
  BY <1>1, <1>2 DEF IInv, TypeOK
<1>4. SlabsFit'
  BY <1>1, KeepSlabs DEF IInv, Holds
<1>5. NoUseAfterClose'
  BY <1>1 DEF NoUseAfterClose
<1>6. \A c \in 1 .. made : /\ c # b /\ rtpBuffers[buf[c].ssrc] = c => rtpBuffers'[buf[c].ssrc] = c
                           /\ rtpBuffers'[buf[c].ssrc] = c => c # b /\ rtpBuffers[buf[c].ssrc] = c
  <2>1. \A c \in 1 .. made : c # 0 /\ buf[c].ssrc \in SSRCs
    BY DEF IInv, TypeOK, Buffer
  <2>2. \A s \in SSRCs : rtpBuffers'[s] = IF s = buf[b].ssrc THEN 0 ELSE rtpBuffers[s]
    BY <1>1 DEF IInv, TypeOK
  <2>3. QED
    BY <1>2, <2>1, <2>2
<1>7. FactoryFindsOpen' /\ ClosingFound'
  BY <1>1, <1>2, <1>6 DEF IInv, TypeOK, FactoryFindsOpen, ClosingFound
<1>8. StreamsFit' /\ BindHasSlab'
  BY <1>1 DEF IInv, StreamsFit, BindHasSlab
<1>9. QED
  BY <1>3, <1>4, <1>5, <1>7, <1>8 DEF IInv

\* A stream that looks the same is as fit.
LEMMA SameStream ==
    ASSUME NEW x, NEW y, NEW g, SameBucket(x, y), SameCounts(x, y), StreamFits(y, g)
    PROVE  StreamFits(x, g)
BY DEF SameBucket, SameCounts, StreamFits, Known

\* Changes of one field.
SetPending(r, q) == [r EXCEPT !.pPackets = q]
SetExt(r, q) == [r EXCEPT !.extPackets = q]
SetBound(r) == [r EXCEPT !.bound = TRUE]
SetClosed(r) == [r EXCEPT !.closed = TRUE]

\* They leave the other fields alone.
LEMMA FieldFacts ==
    ASSUME NEW r \in Buffer, NEW q \in Seq(SN)
    PROVE  /\ LET x == SetPending(r, q)
              IN  /\ x \in Buffer /\ x.pPackets = q /\ x.bound = r.bound /\ x.slab = r.slab
                  /\ x.ssrc = r.ssrc /\ x.closed = r.closed
                  /\ SameBucket(x, r) /\ SameCounts(x, r)
           /\ LET x == SetExt(r, q)
              IN  /\ x \in Buffer /\ x.extPackets = q /\ x.head = r.head /\ x.stored = r.stored
                  /\ SameLife(x, r) /\ SameCounts(x, r)
           /\ LET x == SetBound(r)
              IN  /\ x \in Buffer /\ x.bound /\ x.pPackets = r.pPackets /\ x.slab = r.slab
                  /\ x.ssrc = r.ssrc /\ x.closed = r.closed
                  /\ SameBucket(x, r) /\ SameCounts(x, r)
           /\ LET x == SetClosed(r)
              IN  /\ x \in Buffer /\ x.closed /\ x.bound = r.bound /\ x.pPackets = r.pPackets
                  /\ x.slab = r.slab /\ x.ssrc = r.ssrc
                  /\ SameBucket(x, r) /\ SameCounts(x, r)
<1>1. /\ SetPending(r, q) \in Buffer /\ SetExt(r, q) \in Buffer
      /\ SetBound(r) \in Buffer /\ SetClosed(r) \in Buffer
  BY DEF Buffer, SetPending, SetExt, SetBound, SetClosed
<1>2. LET x == SetPending(r, q)
      IN  /\ x.pPackets = q /\ x.bound = r.bound /\ x.slab = r.slab
          /\ x.ssrc = r.ssrc /\ x.closed = r.closed /\ SameBucket(x, r) /\ SameCounts(x, r)
  BY DEF Buffer, SetPending, SameBucket, SameCounts
<1>3. LET x == SetExt(r, q)
      IN  /\ x.extPackets = q /\ x.head = r.head /\ x.stored = r.stored
          /\ SameLife(x, r) /\ SameCounts(x, r)
  BY DEF Buffer, SetExt, SameLife, SameCounts
<1>4. LET x == SetBound(r)
      IN  /\ x.bound /\ x.pPackets = r.pPackets /\ x.slab = r.slab
          /\ x.ssrc = r.ssrc /\ x.closed = r.closed /\ SameBucket(x, r) /\ SameCounts(x, r)
  BY DEF Buffer, SetBound, SameBucket, SameCounts
<1>5. LET x == SetClosed(r)
      IN  /\ x.closed /\ x.bound = r.bound /\ x.pPackets = r.pPackets
          /\ x.slab = r.slab /\ x.ssrc = r.ssrc /\ SameBucket(x, r) /\ SameCounts(x, r)
  BY DEF Buffer, SetClosed, SameBucket, SameCounts
<1>6. QED
  BY <1>1, <1>2, <1>3, <1>4, <1>5

\* Only the stream of one buffer changes, and it stays fit.
LEMMA StreamStep ==
    ASSUME IInv, NEW b \in 1 .. made, NEW x \in Buffer, buf' = [buf EXCEPT ![b] = x],
           x.ssrc = buf[b].ssrc, x.closed = buf[b].closed, x.slab = buf[b].slab,
           x.bound => x.slab # NoSlab /\ x.pPackets = <<>>,
           got' \in [Buffers -> Seq(SN)], \A c \in Buffers \ {b} : got'[c] = got[c],
           StreamFits(x, got'[b]),
           reader' \in [Buffers -> {"idle", "bind", "check", "lock", "eof"}],
           \A c \in Buffers : reader'[c] = "bind" => reader[c] = "bind",
           written' \in 0 .. MaxWrites,
           touched' = NoSlab \/ (touched' = buf[b].slab /\ (~buf[b].closed \/ reader[b] = "bind")),
           UNCHANGED <<rtpBuffers, made, pool, fresh, closing>>
    PROVE  IInv'
<1>1. /\ buf' \in [1 .. made -> Buffer]
      /\ \A c \in 1 .. made : buf'[c] = IF c = b THEN x ELSE buf[c]
  BY BufferChanges DEF IInv
<1>2. \A c \in 1 .. made : /\ buf'[c].ssrc = buf[c].ssrc /\ buf'[c].closed = buf[c].closed
                           /\ buf'[c].slab = buf[c].slab
  BY <1>1
<1>3. touched' \in {NoSlab} \cup Slabs
  BY DEF IInv, TypeOK, Buffer
<1>4. TypeOK'
  BY <1>1, <1>3 DEF IInv, TypeOK
<1>5. 1 .. made \subseteq Buffers
  BY Numbers DEF IInv, TypeOK
<1>6. SlabsFit'
  <2>1. \A c \in 1 .. made, s \in Slabs : Holds(c, s)' => Holds(c, s)
    BY <1>2, <1>5 DEF Holds
  <2>2. QED
    BY <2>1, KeepSlabs DEF IInv
<1>7. NoUseAfterClose'
  BY UseFits DEF IInv
<1>8. FactoryFindsOpen' /\ ClosingFound'
  BY <1>2, KeepFactory DEF IInv
<1>9. StreamsFit'
  <2>1. \A c \in 1 .. made : StreamFits(buf'[c], got'[c])
    BY <1>1, <1>5 DEF IInv, StreamsFit
  <2>2. \A c \in Buffers : c > made => got'[c] = <<>>
    <3>1. ~(b > made)
      BY DEF IInv, TypeOK
    <3>2. QED
      BY <3>1 DEF IInv, StreamsFit
  <2>3. QED
    BY <2>1, <2>2 DEF StreamsFit
<1>10. BindHasSlab'
  BY <1>2 DEF IInv, BindHasSlab
<1>11. QED
  BY <1>4, <1>6, <1>7, <1>8, <1>9, <1>10 DEF IInv

\* What is known of one buffer.
LEMMA BufferFacts ==
    ASSUME IInv, NEW b \in 1 .. made
    PROVE  /\ b \in Buffers /\ buf[b] \in Buffer /\ buf[b].pPackets \in Seq(SN)
           /\ buf[b].extPackets \in Seq(SN) /\ got[b] \in Seq(SN)
           /\ StreamFits(buf[b], got[b])
           /\ buf[b].bound => buf[b].slab # NoSlab /\ buf[b].pPackets = <<>>
           /\ got \in [Buffers -> Seq(SN)] /\ written \in 0 .. MaxWrites
           /\ reader \in [Buffers -> {"idle", "bind", "check", "lock", "eof"}]
<1>1. b \in Buffers
  BY Numbers DEF IInv, TypeOK
<1>2. buf[b] \in Buffer
  BY DEF IInv, TypeOK
<1>3. buf[b].pPackets \in Seq(SN) /\ buf[b].extPackets \in Seq(SN)
  BY <1>2 DEF Buffer
<1>4. QED
  BY <1>1, <1>2, <1>3 DEF IInv, TypeOK, StreamsFit

\* What becomes of a packet's bytes is one of the outcomes.
LEMMA ParsesFact == \A sn \in SN : Parses[sn] \subseteq Outcomes
BY BufferConstants DEF SN

\* Write: the packet is kept for Bind, or worked off.
LEMMA WriteStep ==
    ASSUME IInv, NEW b \in 1 .. made, NEW sn \in SN, Write(b, sn)
    PROVE  IInv'
<1> DEFINE r == buf[b]
<1>1. /\ ~r.closed /\ written' \in 0 .. MaxWrites
      /\ touched' = NoSlab \/ touched' = r.slab
      /\ UNCHANGED <<rtpBuffers, made, pool, fresh, reader, closing, got>>
  BY BufferConstants DEF Write, IInv, TypeOK
<1>2. /\ r \in Buffer /\ r.pPackets \in Seq(SN) /\ got[b] \in Seq(SN) /\ StreamFits(r, got[b])
      /\ r.bound => r.slab # NoSlab /\ r.pPackets = <<>>
      /\ got \in [Buffers -> Seq(SN)]
      /\ reader \in [Buffers -> {"idle", "bind", "check", "lock", "eof"}]
  BY BufferFacts
<1>3. CASE r.bound
  <2>0. PICK parse \in Outcomes : buf' = [buf EXCEPT ![b] = calc(r, sn, parse)]
    BY <1>3, ParsesFact DEF Write
  <2> DEFINE x == calc(r, sn, parse)
  <2>1. buf' = [buf EXCEPT ![b] = x]
    BY <2>0
  <2>2. x \in Buffer /\ SameLife(x, r) /\ StreamFits(x, got[b])
    BY <1>2, CalcLife, CalcFits
  <2> HIDE DEF x
  <2>3. /\ x.ssrc = r.ssrc /\ x.closed = r.closed /\ x.slab = r.slab
        /\ x.bound => x.slab # NoSlab /\ x.pPackets = <<>>
    BY <1>2, <2>2 DEF SameLife
  <2>4. QED
    BY <1>1, <1>2, <2>1, <2>2, <2>3, StreamStep
<1>4. CASE ~r.bound
  <2> DEFINE q == Append(r.pPackets, sn)
             x == SetPending(r, q)
  <2>1. buf' = [buf EXCEPT ![b] = x]
    BY <1>4 DEF Write, SetPending
  <2>2. q \in Seq(SN)
    BY <1>2
  <2> HIDE DEF q
  <2>3. /\ x \in Buffer /\ x.bound = r.bound /\ x.slab = r.slab
        /\ x.ssrc = r.ssrc /\ x.closed = r.closed /\ SameBucket(x, r) /\ SameCounts(x, r)
    <3> HIDE DEF r
    <3>1. QED
      BY <1>2, <2>2, FieldFacts
  <2> HIDE DEF x
  <2>4. StreamFits(x, got[b])
    BY <1>2, <2>3, SameStream
  <2>5. QED
    BY <1>1, <1>2, <1>4, <2>1, <2>3, <2>4, StreamStep
<1>5. QED
  BY <1>3, <1>4

\* The loop of Bind works a packet off.
LEMMA BindNextStep ==
    ASSUME IInv, NEW b \in 1 .. made, BindNext(b)
    PROVE  IInv'
<1> DEFINE r == buf[b]
           sn == Head(r.pPackets)
           q == Tail(r.pPackets)
<1>1. /\ reader[b] = "bind" /\ r.pPackets # <<>> /\ touched' = r.slab
      /\ UNCHANGED <<rtpBuffers, made, written, pool, fresh, reader, closing, got>>
  BY DEF BindNext
<1>2. /\ r \in Buffer /\ r.pPackets \in Seq(SN) /\ got[b] \in Seq(SN) /\ StreamFits(r, got[b])
      /\ r.bound => r.slab # NoSlab /\ r.pPackets = <<>>
      /\ got \in [Buffers -> Seq(SN)] /\ written \in 0 .. MaxWrites
      /\ reader \in [Buffers -> {"idle", "bind", "check", "lock", "eof"}]
  BY BufferFacts
<1>3. sn \in SN /\ q \in Seq(SN)
  BY <1>1, <1>2
<1>a. PICK parse \in Outcomes :
        buf' = [buf EXCEPT ![b] = [calc(r, sn, parse) EXCEPT !.pPackets = Tail(@)]]
  BY <1>3, ParsesFact DEF BindNext
<1> DEFINE y == calc(r, sn, parse)
           x == SetPending(y, q)
<1> HIDE DEF sn
<1>4. y \in Buffer /\ SameLife(y, r) /\ StreamFits(y, got[b])
  BY <1>2, <1>3, CalcLife, CalcFits
<1>5. buf' = [buf EXCEPT ![b] = x]
  <2>1. y.pPackets = r.pPackets
    BY <1>4 DEF SameLife
  <2>2. buf' = [buf EXCEPT ![b] = [y EXCEPT !.pPackets = Tail(y.pPackets)]]
    BY <1>a
  <2>3. QED
    BY <2>1, <2>2 DEF SetPending
<1> HIDE DEF y, q
<1>6. /\ x \in Buffer /\ x.bound = y.bound /\ x.slab = y.slab
      /\ x.ssrc = y.ssrc /\ x.closed = y.closed /\ SameBucket(x, y) /\ SameCounts(x, y)
  BY <1>3, <1>4, FieldFacts
<1> HIDE DEF x
<1>7. /\ x.ssrc = r.ssrc /\ x.closed = r.closed /\ x.slab = r.slab /\ x.bound = r.bound
  BY <1>4, <1>6 DEF SameLife
<1>8. StreamFits(x, got[b])
  BY <1>4, <1>6, SameStream
<1>9. ~x.bound
  BY <1>1, <1>2, <1>7
<1>10. QED
  BY <1>1, <1>2, <1>5, <1>6, <1>7, <1>8, <1>9, StreamStep

\* The end of Bind.
LEMMA BindEndStep ==
    ASSUME IInv, NEW b \in 1 .. made, BindEnd(b)
    PROVE  IInv'
<1> DEFINE r == buf[b]
           x == SetBound(r)
<1>1. /\ reader[b] = "bind" /\ r.pPackets = <<>> /\ touched' = NoSlab
      /\ buf' = [buf EXCEPT ![b] = x]
      /\ reader' = [reader EXCEPT ![b] = "check"]
      /\ UNCHANGED <<rtpBuffers, made, written, pool, fresh, closing, got>>
  BY DEF BindEnd, SetBound
<1>2. /\ r \in Buffer /\ r.pPackets \in Seq(SN) /\ StreamFits(r, got[b]) /\ b \in Buffers
      /\ got \in [Buffers -> Seq(SN)] /\ written \in 0 .. MaxWrites
      /\ reader \in [Buffers -> {"idle", "bind", "check", "lock", "eof"}]
  BY BufferFacts
<1>3. /\ x \in Buffer /\ x.pPackets = r.pPackets /\ x.slab = r.slab
      /\ x.ssrc = r.ssrc /\ x.closed = r.closed /\ SameBucket(x, r) /\ SameCounts(x, r)
  BY <1>2, FieldFacts
<1> HIDE DEF x
<1>4. StreamFits(x, got[b])
  BY <1>2, <1>3, SameStream
<1>5. x.slab # NoSlab
  BY <1>1, <1>2, <1>3 DEF IInv, BindHasSlab
<1>6. /\ reader' \in [Buffers -> {"idle", "bind", "check", "lock", "eof"}]
      /\ \A c \in Buffers : reader'[c] = "bind" => reader[c] = "bind"
  BY <1>1, <1>2
<1>7. QED
  BY <1>1, <1>2, <1>3, <1>4, <1>5, <1>6, StreamStep

\* Taking the first packet off the list, and handing it on or not.
LEMMA TakeFits ==
    ASSUME NEW r \in Buffer, NEW g \in Seq(SN), StreamFits(r, g), r.extPackets # <<>>
    PROVE  LET x == SetExt(r, Tail(r.extPackets))
           IN  StreamFits(x, g) /\ StreamFits(x, Append(g, Head(r.extPackets)))
<1> DEFINE e == r.extPackets
           q == Tail(e)
           sn == Head(e)
           f == Append(g, sn)
           x == SetExt(r, q)
<1>1. e \in Seq(SN)
  BY DEF Buffer
<1>2. /\ q \in Seq(SN) /\ sn \in SN /\ sn = e[1] /\ 1 \in 1 .. Len(e)
      /\ \A i \in 1 .. Len(q) : i + 1 \in 1 .. Len(e) /\ q[i] = e[i + 1] /\ i + 1 # 1
  BY <1>1
<1>3. x.extPackets = q /\ x.head = r.head /\ x.stored = r.stored /\ SameCounts(x, r)
  BY <1>2, FieldFacts
<1> HIDE DEF x
<1>4. \A y : Known(x, y) <=> Known(r, y)
  BY <1>3 DEF Known
<1>5. /\ Distinct(e) /\ Distinct(g)
      /\ \A i \in 1 .. Len(e) : Known(x, e[i])
      /\ \A j \in 1 .. Len(g) : Known(x, g[j])
      /\ \A i \in 1 .. Len(e), j \in 1 .. Len(g) : e[i] # g[j]
      /\ (\A y \in x.seen : y <= x.highest) /\ x.nacker \cap x.seen = {}
  BY <1>3, <1>4 DEF StreamFits, SameCounts
<1> HIDE DEF q, sn, e
<1>6. /\ \A i \in 1 .. Len(q) : Known(x, q[i]) /\ q[i] # sn
      /\ \A i \in 1 .. Len(q), j \in 1 .. Len(g) : q[i] # g[j]
  <2>1. \A i \in 1 .. Len(q) : Known(x, q[i])
    BY <1>2, <1>5
  <2>2. ASSUME NEW i \in 1 .. Len(q), q[i] = sn PROVE FALSE
    <3>1. i + 1 \in 1 .. Len(e) /\ e[i + 1] = e[1] /\ i + 1 # 1
      BY <1>2, <2>2
    <3>2. QED
      BY <1>2, <1>5, <3>1 DEF Distinct
  <2>3. ASSUME NEW i \in 1 .. Len(q), NEW j \in 1 .. Len(g) PROVE q[i] # g[j]
    BY <1>2, <1>5, <2>3
  <2>4. QED
    BY <2>1, <2>2, <2>3
<1>7. Distinct(q)
  <2>1. SUFFICES ASSUME NEW i \in 1 .. Len(q), NEW j \in 1 .. Len(q), q[i] = q[j] PROVE i = j
    BY DEF Distinct
  <2>2. i + 1 = j + 1
    BY <1>2, <1>5, <2>1 DEF Distinct
  <2>3. QED
    BY <2>2
<1>8. StreamFits(x, g)
  BY <1>3, <1>5, <1>6, <1>7 DEF StreamFits
<1>9. StreamFits(x, f)
  <2>1. \A j \in 1 .. Len(g) : g[j] # sn
    BY <1>2, <1>5
  <2>2. /\ Distinct(f)
        /\ \A i \in 1 .. Len(f) : (i \in 1 .. Len(g) /\ f[i] = g[i]) \/ f[i] = sn
    BY <1>2, <1>5, <2>1, AppendDistinct
  <2> HIDE DEF f
  <2>3. /\ \A i \in 1 .. Len(f) : Known(x, f[i])
        /\ \A i \in 1 .. Len(q), j \in 1 .. Len(f) : q[i] # f[j]
    BY <1>2, <1>5, <1>6, <2>2
  <2>4. QED
    BY <1>3, <1>5, <1>6, <1>7, <2>2, <2>3 DEF StreamFits
<1>10. QED
  BY <1>8, <1>9 DEF e, q, sn, x

\* ReadExtended hands a packet on, or skips it.
LEMMA ReadExtendedStep ==
    ASSUME IInv, NEW b \in 1 .. made, ReadExtended(b)
    PROVE  IInv'
<1> DEFINE r == buf[b]
           sn == Head(r.extPackets)
           q == Tail(r.extPackets)
           x == SetExt(r, q)
           g == got[b]
<1>1. /\ r.extPackets # <<>> /\ reader[b] = "lock"
      /\ buf' = [buf EXCEPT ![b] = x]
      /\ got' = IF getPacket(b, sn) THEN [got EXCEPT ![b] = Append(g, sn)] ELSE got
      /\ touched' = NoSlab \/ (touched' = r.slab /\ ~r.closed)
      /\ reader' = [reader EXCEPT ![b] = "check"]
      /\ UNCHANGED <<rtpBuffers, made, written, pool, fresh, closing>>
  BY DEF ReadExtended, SetExt, getPacket
<1>2. /\ r \in Buffer /\ r.extPackets \in Seq(SN) /\ g \in Seq(SN) /\ StreamFits(r, g)
      /\ r.bound => r.slab # NoSlab /\ r.pPackets = <<>>
      /\ got \in [Buffers -> Seq(SN)] /\ written \in 0 .. MaxWrites /\ b \in Buffers
      /\ reader \in [Buffers -> {"idle", "bind", "check", "lock", "eof"}]
  BY BufferFacts
<1>3. sn \in SN /\ q \in Seq(SN)
  BY <1>1, <1>2
<1>4. StreamFits(x, g) /\ StreamFits(x, Append(g, sn))
  BY <1>1, <1>2, TakeFits
<1> HIDE DEF sn, q
<1>5. x \in Buffer /\ SameLife(x, r)
  BY <1>2, <1>3, FieldFacts
<1> HIDE DEF x
<1>6. /\ x.ssrc = r.ssrc /\ x.closed = r.closed /\ x.slab = r.slab
      /\ x.bound => x.slab # NoSlab /\ x.pPackets = <<>>
  BY <1>2, <1>5 DEF SameLife
<1>7. Append(g, sn) \in Seq(SN)
  BY <1>2, <1>3
<1>8. /\ got' \in [Buffers -> Seq(SN)] /\ \A c \in Buffers \ {b} : got'[c] = got[c]
      /\ got'[b] = g \/ got'[b] = Append(g, sn)
  BY <1>1, <1>2, <1>7
<1>9. StreamFits(x, got'[b])
  BY <1>4, <1>8
<1>10. /\ reader' \in [Buffers -> {"idle", "bind", "check", "lock", "eof"}]
       /\ \A c \in Buffers : reader'[c] = "bind" => reader[c] = "bind"
  BY <1>1, <1>2
<1>11. QED
  BY <1>1, <1>2, <1>5, <1>6, <1>8, <1>9, <1>10, StreamStep

\* The memory Bind gets is no other buffer's.
LEMMA BindStep ==
    ASSUME IInv, NEW b \in 1 .. made, NEW c \in Codecs[buf[b].ssrc], Bind(b, c)
    PROVE  IInv'
<1> DEFINE r == buf[b]
           p == poolOf(c)
<1>1. PICK s \in Slabs : /\ PoolGet(p, s)
                         /\ buf' = [buf EXCEPT ![b] = Taken(r, c, s)]
  BY DEF Bind, Taken
<1> DEFINE x == Taken(r, c, s)
<1>2. /\ ~r.bindDone
      /\ reader' = [reader EXCEPT ![b] = IF c = "red" THEN "check" ELSE "bind"]
      /\ touched' = NoSlab
      /\ UNCHANGED <<rtpBuffers, made, written, closing, got>>
  BY DEF Bind
<1>3. /\ r \in Buffer /\ StreamFits(r, got[b]) /\ b \in Buffers
      /\ r.bound => r.slab # NoSlab /\ r.pPackets = <<>>
      /\ reader \in [Buffers -> {"idle", "bind", "check", "lock", "eof"}]
  BY BufferFacts
<1>4. c \in {"video", "audio", "red"}
  <2>1. r.ssrc \in SSRCs
    BY <1>3 DEF Buffer
  <2>2. QED
    BY <2>1, BufferConstants
<1>5. /\ x \in Buffer /\ x.slab = s /\ x.ssrc = r.ssrc /\ x.closed = r.closed
      /\ x.bound = r.bound /\ x.pPackets = r.pPackets
      /\ SameBucket(x, r) /\ SameCounts(x, r)
  <2>1. r \in Buffer
    BY <1>3
  <2>2. s \in Slabs
    OBVIOUS
  <2> HIDE DEF r
  <2>3. QED
    BY <1>4, <2>1, <2>2, TakenFacts, SMTT(20)
<1> HIDE DEF x
<1>6. /\ buf' \in [1 .. made -> Buffer]
      /\ \A a \in 1 .. made : buf'[a] = IF a = b THEN x ELSE buf[a]
  BY <1>1, <1>5, BufferChanges DEF IInv, x
<1>7. /\ reader' \in [Buffers -> {"idle", "bind", "check", "lock", "eof"}]
      /\ \A a \in Buffers \ {b} : reader'[a] = reader[a]
  BY <1>2, <1>3
<1>8. p \in Pools /\ s # NoSlab /\ s \in Nat /\ 1 .. made \subseteq Buffers
  BY Numbers DEF IInv, TypeOK
<1> HIDE DEF p
<1>9. /\ pool \in [Pools -> [Slabs -> Nat]] /\ fresh \in 0 .. MaxBuffers /\ fresh \in Nat
      /\ \A q \in Pools, t \in Slabs : pool[q][t] \in Nat /\ t \in Nat
  BY Numbers, BufferConstants DEF IInv, TypeOK
\* Nothing is known of the pool that the slab did not leave.
<1>10. /\ pool' \in [Pools -> [Slabs -> Nat]] /\ fresh' \in 0 .. MaxBuffers
       /\ fresh <= fresh' /\ s <= fresh'
       /\ \A q \in Pools, t \in Slabs : pool'[q][t] = 0 \/ pool'[q][t] = pool[q][t]
       /\ \A q \in Pools : pool'[q][s] = 0
       /\ \A a \in 1 .. made : ~Holds(a, s)
  <2>1. CASE /\ pool[p][s] > 0 /\ fresh' = fresh
             /\ pool' = [pool EXCEPT ![p][s] = pool[p][s] - 1]
    <3>1. pool[p][s] = 1 /\ s <= fresh
      BY <1>8, <1>9, <2>1 DEF IInv, SlabsFit
    <3>2. /\ pool' \in [Pools -> [Slabs -> Nat]]
          /\ \A q \in Pools, t \in Slabs :
               pool'[q][t] = IF q = p /\ t = s THEN 0 ELSE pool[q][t]
      BY <1>8, <1>9, <2>1, <3>1
    <3>3. \A q \in Pools : q = "video" \/ q = "audio"
      BY Numbers
    <3>4. \A q \in Pools : q # p => pool[q][s] = 0
      BY <1>8, <3>1, <3>3 DEF IInv, SlabsFit
    <3>5. \A a \in 1 .. made : ~Holds(a, s)
      BY <1>8, <3>1 DEF IInv, SlabsFit
    <3>6. \A q \in Pools : pool'[q][s] = 0
      BY <3>2, <3>4
    <3>7. QED
      BY <1>9, <2>1, <3>1, <3>2, <3>5, <3>6
  <2>2. CASE s = fresh + 1 /\ fresh' = fresh + 1 /\ pool' = pool
    <3>1. ~(s <= fresh) /\ fresh' \in 0 .. MaxBuffers
      BY <1>9, <2>2, BufferConstants DEF Slabs
    <3>2. \A q \in Pools : pool[q][s] = 0
      BY <3>1 DEF IInv, SlabsFit
    <3>3. \A a \in 1 .. made : ~Holds(a, s)
      BY <3>1 DEF IInv, SlabsFit
    <3>4. QED
      BY <1>9, <2>2, <3>1, <3>2, <3>3
  <2>3. QED
    BY <1>1, <2>1, <2>2 DEF PoolGet
<1>11. \A a \in 1 .. made, t \in Slabs : Holds(a, t)' => (a = b /\ t = s) \/ (a # b /\ Holds(a, t))
  <2>1. \A a \in 1 .. made, t \in Slabs : Holds(a, t)' =>
          buf'[a].slab = t /\ (~buf'[a].closed \/ reader'[a] = "bind")
    BY DEF Holds
  <2>2. QED
    BY <1>5, <1>6, <1>7, <1>8, <2>1 DEF Holds
<1>12. SlabsFit'
  <2>1. \A q \in Pools, t \in Slabs : pool'[q][t] # 0 => t <= fresh' /\ pool'[q][t] = 1
    <3>1. ASSUME NEW q \in Pools, NEW t \in Slabs, pool'[q][t] # 0
          PROVE  t <= fresh' /\ pool'[q][t] = 1
      <4>1. pool'[q][t] = pool[q][t]
        BY <1>10, <3>1
      <4>2. t <= fresh /\ pool[q][t] = 1
        BY <3>1, <4>1 DEF IInv, SlabsFit
      <4>3. t \in Nat /\ fresh' \in Nat
        BY <1>9, <1>10
      <4>4. QED
        BY <1>9, <1>10, <4>1, <4>2, <4>3
    <3>2. QED
      BY <3>1
  <2>2. \A t \in Slabs : pool'["video"][t] = 0 \/ pool'["audio"][t] = 0
    BY <1>10 DEF IInv, SlabsFit, Pools
  <2>3. \A a \in 1 .. made, t \in Slabs :
          Holds(a, t)' => t <= fresh' /\ \A q \in Pools : pool'[q][t] = 0
    <3>1. ASSUME NEW a \in 1 .. made, NEW t \in Slabs, Holds(a, t)'
          PROVE  t <= fresh' /\ \A q \in Pools : pool'[q][t] = 0
      <4>1. CASE t = s
        BY <1>10, <4>1
      <4>2. CASE t # s
        <5>1. Holds(a, t)
          BY <1>11, <3>1, <4>2
        <5>2. t <= fresh /\ \A q \in Pools : pool[q][t] = 0
          BY <5>1 DEF IInv, SlabsFit
        <5>3. t \in Nat /\ fresh' \in Nat
          BY <1>10, Numbers
        <5>4. t <= fresh'
          BY <1>9, <1>10, <5>2, <5>3
        <5>5. QED
          BY <1>10, <5>2, <5>4
      <4>3. QED
        BY <4>1, <4>2
    <3>2. QED
      BY <3>1
  <2>4. \A a, d \in 1 .. made, t \in Slabs : Holds(a, t)' /\ Holds(d, t)' => a = d
    <3>1. ASSUME NEW a \in 1 .. made, NEW d \in 1 .. made, NEW t \in Slabs,
                 Holds(a, t)', Holds(d, t)'
          PROVE  a = d
      <4>1. CASE t = s
        BY <1>10, <1>11, <3>1, <4>1
      <4>2. CASE t # s
        <5>1. Holds(a, t) /\ Holds(d, t)
          BY <1>11, <3>1, <4>2
        <5>2. QED
          BY <5>1 DEF IInv, SlabsFit
      <4>3. QED
        BY <4>1, <4>2
    <3>2. QED
      BY <3>1
  <2>5. QED
    BY <1>2, <2>1, <2>2, <2>3, <2>4 DEF SlabsFit
<1>13. TypeOK'
  <2>1. \A a \in 1 .. made : buf'[a].bound => buf'[a].slab # NoSlab /\ buf'[a].pPackets = <<>>
    BY <1>3, <1>5, <1>6, <1>8 DEF IInv, TypeOK
  <2>2. QED
    BY <1>2, <1>6, <1>7, <1>10, <2>1 DEF IInv, TypeOK
<1>14. NoUseAfterClose'
  BY <1>2 DEF NoUseAfterClose
<1>15. FactoryFindsOpen' /\ ClosingFound'
  <2>1. \A a \in 1 .. made : buf'[a].ssrc = buf[a].ssrc /\ buf'[a].closed = buf[a].closed
    BY <1>5, <1>6
  <2>2. QED
    BY <1>2, <2>1, KeepFactory DEF IInv
<1>16. StreamsFit'
  <2>1. StreamFits(x, got[b])
    BY <1>3, <1>5, SameStream
  <2>2. \A a \in 1 .. made : StreamFits(buf'[a], got[a])
    BY <1>6, <2>1 DEF IInv, StreamsFit
  <2>3. QED
    BY <1>2, <2>2 DEF IInv, StreamsFit
<1>17. BindHasSlab'
  <2>1. ASSUME NEW a \in Buffers, reader'[a] = "bind" PROVE a \in 1 .. made /\ buf'[a].slab # NoSlab
    <3>1. CASE a = b
      BY <1>5, <1>6, <1>8, <3>1
    <3>2. CASE a # b
      <4>1. a \in 1 .. made /\ buf[a].slab # NoSlab
        BY <1>7, <2>1, <3>2 DEF IInv, BindHasSlab
      <4>2. QED
        BY <1>6, <3>2, <4>1
    <3>3. QED
      BY <3>1, <3>2
  <2>2. QED
    BY <1>2, <2>1 DEF BindHasSlab
<1>18. QED
  BY <1>12, <1>13, <1>14, <1>15, <1>16, <1>17 DEF IInv

\* Close gives the memory of an open buffer back, once.
LEMMA CloseStep ==
    ASSUME IInv, NEW b \in 1 .. made, Close(b)
    PROVE  IInv'
<1> DEFINE r == buf[b]
           x == SetClosed(r)
           s == r.slab
           p == poolOf(r.codec)
<1>1. /\ reader[b] # "bind" /\ ~r.closed
      /\ buf' = [buf EXCEPT ![b] = x]
      /\ pool' = IF s = NoSlab THEN pool ELSE [pool EXCEPT ![p][s] = pool[p][s] + 1]
      /\ closing' = closing \cup {b} /\ touched' = NoSlab
      /\ UNCHANGED <<rtpBuffers, made, written, fresh, reader, got>>
  BY DEF Close, Locked, SetClosed
<1>2. /\ r \in Buffer /\ StreamFits(r, got[b]) /\ b \in Buffers
      /\ r.bound => r.slab # NoSlab /\ r.pPackets = <<>>
  BY BufferFacts
<1>3. p \in Pools /\ 1 .. made \subseteq Buffers /\ (\A q \in Pools : q = "video" \/ q = "audio")
  BY Numbers DEF IInv, TypeOK
<1>4. s \in {NoSlab} \cup Slabs
  BY <1>2 DEF Buffer
<1>5. /\ x \in Buffer /\ x.closed /\ x.bound = r.bound /\ x.pPackets = r.pPackets
      /\ x.slab = s /\ x.ssrc = r.ssrc /\ SameBucket(x, r) /\ SameCounts(x, r)
  <2>1. <<>> \in Seq(SN)
    OBVIOUS
  <2>2. QED
    BY <1>2, <2>1, FieldFacts
<1> HIDE DEF x, p
<1>6. /\ buf' \in [1 .. made -> Buffer]
      /\ \A a \in 1 .. made : buf'[a] = IF a = b THEN x ELSE buf[a]
  BY <1>1, <1>5, BufferChanges DEF IInv
<1>7. \A a \in 1 .. made, t \in Slabs : Holds(a, t)' => a # b /\ Holds(a, t)
  <2>1. \A a \in 1 .. made, t \in Slabs : Holds(a, t)' =>
          buf'[a].slab = t /\ (~buf'[a].closed \/ reader[a] = "bind")
    BY <1>1 DEF Holds
  <2>2. QED
    BY <1>1, <1>5, <1>6, <2>1 DEF Holds
<1>8. pool \in [Pools -> [Slabs -> Nat]]
  BY DEF IInv, TypeOK
<1>9. /\ pool' \in [Pools -> [Slabs -> Nat]]
      /\ \A q \in Pools, t \in Slabs : \/ pool'[q][t] = pool[q][t]
                                       \/ /\ q = p /\ t = s /\ pool'[q][t] = 1
                                          /\ Holds(b, t)
  <2>1. CASE s = NoSlab
    BY <1>1, <1>8, <2>1
  <2>2. CASE s \in Slabs
    <3>1. Holds(b, s) /\ s # NoSlab
      BY <1>1, <2>2, Numbers DEF Holds
    <3>2. pool[p][s] = 0
      BY <1>3, <2>2, <3>1 DEF IInv, SlabsFit
    <3>3. pool' = [pool EXCEPT ![p][s] = 1]
      BY <1>1, <3>1, <3>2
    <3> HIDE DEF s
    <3>4. QED
      BY <1>3, <1>8, <2>2, <3>1, <3>3
  <2>3. QED
    BY <1>4, <2>1, <2>2
<1>10. SlabsFit'
  <2>1. \A q \in Pools, t \in Slabs : pool'[q][t] # 0 => t <= fresh /\ pool'[q][t] = 1
    BY <1>9 DEF IInv, SlabsFit
  <2>2. \A t \in Slabs : pool'["video"][t] = 0 \/ pool'["audio"][t] = 0
    <3>1. SUFFICES ASSUME NEW t \in Slabs PROVE pool'["video"][t] = 0 \/ pool'["audio"][t] = 0
      OBVIOUS
    <3>2. "video" \in Pools /\ "audio" \in Pools
      BY DEF Pools
    <3>3. CASE Holds(b, t)
      <4>1. pool["video"][t] = 0 /\ pool["audio"][t] = 0
        BY <3>2, <3>3 DEF IInv, SlabsFit
      <4>2. QED
        BY <1>9, <3>2, <4>1
    <3>4. CASE ~Holds(b, t)
      BY <1>9, <3>2, <3>4 DEF IInv, SlabsFit
    <3>5. QED
      BY <3>3, <3>4
  <2>3. \A a \in 1 .. made, t \in Slabs :
          Holds(a, t)' => t <= fresh /\ \A q \in Pools : pool'[q][t] = 0
    <3>1. SUFFICES ASSUME NEW a \in 1 .. made, NEW t \in Slabs, Holds(a, t)'
                   PROVE  t <= fresh /\ \A q \in Pools : pool'[q][t] = 0
      OBVIOUS
    <3>2. a # b /\ Holds(a, t)
      BY <1>7, <3>1
    <3>3. ~Holds(b, t) /\ t <= fresh /\ \A q \in Pools : pool[q][t] = 0
      BY <3>2 DEF IInv, SlabsFit
    <3>4. QED
      BY <1>9, <3>3
  <2>4. \A a, d \in 1 .. made, t \in Slabs : Holds(a, t)' /\ Holds(d, t)' => a = d
    BY <1>7 DEF IInv, SlabsFit
  <2>5. QED
    BY <1>1, <2>1, <2>2, <2>3, <2>4 DEF SlabsFit
<1>11. TypeOK'
  <2>1. \A a \in 1 .. made : buf'[a].bound => buf'[a].slab # NoSlab /\ buf'[a].pPackets = <<>>
    BY <1>2, <1>5, <1>6 DEF IInv, TypeOK
  <2>2. closing' \subseteq 1 .. made
    BY <1>1 DEF IInv, TypeOK
  <2>3. QED
    BY <1>1, <1>6, <1>9, <2>1, <2>2 DEF IInv, TypeOK
<1>12. NoUseAfterClose'
  BY <1>1 DEF NoUseAfterClose
<1>13. FactoryFindsOpen'
  <2>1. \A a \in 1 .. made : LET found == rtpBuffers[buf'[a].ssrc] = a
                             IN  /\ ~buf'[a].closed => found
                                 /\ buf'[a].closed /\ found => a \in closing'
    BY <1>1, <1>5, <1>6 DEF IInv, FactoryFindsOpen
  <2>2. QED
    BY <1>1, <2>1 DEF FactoryFindsOpen
<1>14. ClosingFound'
  <2>1. closing \subseteq 1 .. made
    BY DEF IInv, TypeOK
  <2>2. rtpBuffers[r.ssrc] = b
    BY <1>1 DEF IInv, FactoryFindsOpen
  <2>3. \A a \in closing' : buf'[a].closed /\ rtpBuffers[buf'[a].ssrc] = a
    BY <1>1, <1>5, <1>6, <2>1, <2>2 DEF IInv, ClosingFound
  <2>4. QED
    BY <1>1, <2>3 DEF ClosingFound
<1>15. StreamsFit'
  <2>1. StreamFits(x, got[b])
    BY <1>2, <1>5, SameStream
  <2>2. \A a \in 1 .. made : StreamFits(buf'[a], got[a])
    BY <1>6, <2>1 DEF IInv, StreamsFit
  <2>3. QED
    BY <1>1, <2>2 DEF IInv, StreamsFit
<1>16. BindHasSlab'
  <2>1. \A a \in 1 .. made : buf'[a].slab = buf[a].slab
    BY <1>5, <1>6
  <2>2. QED
    BY <1>1, <2>1 DEF IInv, BindHasSlab
<1>17. QED
  BY <1>10, <1>11, <1>12, <1>13, <1>14, <1>15, <1>16 DEF IInv

\* Every step keeps the inductive invariant.
LEMMA NextFits == IInv /\ [Next]_vars => IInv'
<1> SUFFICES ASSUME IInv, [Next]_vars PROVE IInv'
  OBVIOUS
<1>1. ASSUME NEW ssrc \in SSRCs, GetOrNew(ssrc) PROVE IInv'
  BY <1>1, GetOrNewStep
<1>2. ASSUME NEW b \in 1 .. made, NEW codec \in Codecs[buf[b].ssrc], Bind(b, codec) PROVE IInv'
  BY <1>2, BindStep
<1>3. ASSUME NEW b \in 1 .. made, BindNext(b) PROVE IInv'
  BY <1>3, BindNextStep
<1>4. ASSUME NEW b \in 1 .. made, BindEnd(b) PROVE IInv'
  BY <1>4, BindEndStep
<1>5. ASSUME NEW b \in 1 .. made, NEW sn \in SN, Write(b, sn) PROVE IInv'
  BY <1>5, WriteStep
<1>6. ASSUME NEW b \in 1 .. made, NEW sn \in SN, GetPacket(b, sn) PROVE IInv'
  BY <1>6, LookStep
<1>7. ASSUME NEW b \in 1 .. made, ReadCheck(b) \/ ReadNothing(b) PROVE IInv'
  BY <1>7, LookStep
<1>8. ASSUME NEW b \in 1 .. made, ReadExtended(b) PROVE IInv'
  BY <1>8, ReadExtendedStep
<1>9. ASSUME NEW b \in 1 .. made, Close(b) PROVE IInv'
  BY <1>9, CloseStep
<1>10. ASSUME NEW b \in 1 .. made, OnClose(b) PROVE IInv'
  BY <1>10, OnCloseStep
<1>11. CASE UNCHANGED vars
  BY <1>11 DEF vars, IInv, TypeOK, SlabsFit, Holds, BindHasSlab, NoUseAfterClose,
               FactoryFindsOpen, ClosingFound, StreamsFit
<1>12. QED
  BY <1>1, <1>2, <1>3, <1>4, <1>5, <1>6, <1>7, <1>8, <1>9, <1>10, <1>11 DEF Next

\* The inductive invariant holds in every reachable state.
LEMMA Invariance == Spec => []IInv
BY InitFits, NextFits, PTL DEF Spec

-----------------------------------------------------------------------------
\* Buffers, pools and the factory's map keep their types; a buffer that is
\* bound has memory and nothing pending.
THEOREM TypeCorrect == Spec => []TypeOK
<1>1. IInv => TypeOK
  BY DEF IInv
<1>2. QED
  BY <1>1, Invariance, PTL

\* Memory from the pools belongs to one open buffer, or is in one pool once,
\* for any number of buffers, however Bind, Close and the readers interleave.
THEOREM MemoryIsNotShared == Spec => []MemoryNotShared
<1>1. IInv => MemoryNotShared
  <2> SUFFICES ASSUME IInv, NEW s \in Slabs
               PROVE  /\ \A p \in Pools : pool[p][s] <= 1
                      /\ ~(pool["video"][s] = 1 /\ pool["audio"][s] = 1)
                      /\ (\E p \in Pools : pool[p][s] = 1) => Owners(s) = {}
                      /\ \A b, c \in Owners(s) : b = c
    BY DEF MemoryNotShared
  <2>1. \A b \in Owners(s) : b \in 1 .. made /\ Holds(b, s)
    BY DEF Owners, Holds
  <2>2. \A p \in Pools : pool[p][s] = 0 \/ pool[p][s] = 1
    BY DEF IInv, SlabsFit
  <2>3. ~(pool["video"][s] = 1 /\ pool["audio"][s] = 1)
    BY DEF IInv, SlabsFit
  <2>4. \A b \in Owners(s), p \in Pools : pool[p][s] = 0
    BY <2>1 DEF IInv, SlabsFit
  <2>5. \A b, c \in Owners(s) : b = c
    BY <2>1 DEF IInv, SlabsFit
  <2>6. QED
    BY <2>2, <2>3, <2>4, <2>5
<1>2. QED
  BY <1>1, Invariance, PTL

\* No packet is stored in or read from memory that Close has given back.
THEOREM MemoryIsNotUsedAfterClose == Spec => []NoUseAfterClose
<1>1. IInv => NoUseAfterClose
  BY DEF IInv
<1>2. QED
  BY <1>1, Invariance, PTL

\* ReadExtended returns a packet at most once, whatever is written late, twice
\* or before Bind, and whatever the size of the bucket.
THEOREM ReadOnce == Spec => []ForwardedOnce
<1>1. IInv => ForwardedOnce
  <2> SUFFICES ASSUME IInv, NEW b \in Buffers PROVE Distinct(got[b])
    BY DEF ForwardedOnce, Distinct
  <2>1. made \in Nat /\ b \in 1 .. MaxBuffers
    BY BufferConstants DEF IInv, TypeOK, Buffers
  <2>2. CASE b \in 1 .. made
    BY <2>2 DEF IInv, StreamsFit, StreamFits
  <2>3. CASE b \notin 1 .. made
    <3>1. got[b] = <<>>
      BY <2>1, <2>3 DEF IInv, StreamsFit
    <3>2. QED
      BY <3>1 DEF Distinct
  <2>4. QED
    BY <2>2, <2>3
<1>2. QED
  BY <1>1, Invariance, PTL

\* The NACK queue names no packet that came.
THEOREM NacksNameMissing == Spec => []NacksOnlyMissing
<1>1. IInv => NacksOnlyMissing
  BY DEF IInv, StreamsFit, StreamFits, NacksOnlyMissing
<1>2. QED
  BY <1>1, Invariance, PTL

\* The factory finds every open buffer, and onClose removes no other's entry.
THEOREM OpenIsFound == Spec => []FactoryFindsOpen
<1>1. IInv => FactoryFindsOpen
  BY DEF IInv
<1>2. QED
  BY <1>1, Invariance, PTL
=============================================================================
