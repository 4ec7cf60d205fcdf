---------------------------- MODULE FramesProofs ----------------------------
(***************************************************************************)
(* Proofs about the frames of a video stream.  KeyFrames: the state keeps  *)
(* its shape, and PLIs that receivers ask for are throttled for any number *)
(* of down tracks and any throttle.  FrameRate: the rate is that of the    *)
(* frames that came, for any ring, loss and reordering that fit it.        *)
(* Payloads: a VP8 descriptor is read as it was written, and the parsers   *)
(* of H264 and AV1 find the key frames, in payloads of any number of units *)
(* and also in what is left of a payload that is cut short.                *)
(***************************************************************************)
EXTENDS KeyFrames, Payloads, FrameRate, FiniteSetTheorems, TLAPS

-----------------------------------------------------------------------------
(* Key frames.                                                             *)

\* The time the statistics keep is the time since the last PLI left, while the
\* buffer is open.
TimeIsTrue == ~ended => since = gap

\* A callback past its test of the throttle has passed rightly, until another
\* PLI is noted.
PassedRightly == ~ended =>
    \A t \in Tracks : rtcp[t] = "note" /\ t \notin raced => gap >= Throttle

IInv == TypeOK /\ TimeIsTrue /\ PassedRightly

-----------------------------------------------------------------------------
\* SendPLI keeps the part of the invariant that it touches, for both callers:
\* whoever is left past the test counts as overtaken.
LEMMA SendPLIKeeps ==
    ASSUME IInv, NEW others \in SUBSET Tracks, SendPLI(others), UNCHANGED ended,
           rtcp' \in [Tracks -> {"idle", "check", "note"}],
           \A t \in others : rtcp'[t] = rtcp[t],
           \A t \in Tracks \ others : rtcp'[t] # "note"
    PROVE  /\ since' \in 0 .. Throttle /\ gap' \in 0 .. Throttle
           /\ raced' \subseteq {t \in Tracks : rtcp'[t] = "note"}
           /\ wire' \in BOOLEAN
           /\ TimeIsTrue' /\ PassedRightly'
BY KeyFramesConstants
   DEF IInv, TypeOK, TimeIsTrue, PassedRightly, SendPLI, UpdatePliAndTime

\* A worker without a frame is well formed.
LEMMA IdleType == Idle \in [pc : {"idle", "write"}, key : BOOLEAN, at : 0 .. NTracks]
BY KeyFramesConstants DEF Idle

\* The worker stays well formed when it goes on with the next track.
LEMMA AdvanceType ==
    ASSUME TypeOK, NEW t \in Tracks, worker.pc = "write", worker.at = t, advance
    PROVE  worker' \in [pc : {"idle", "write"}, key : BOOLEAN, at : 0 .. NTracks]
<1>1. NTracks \in Nat
  BY KeyFramesConstants
<1>2. CASE worker.at < NTracks
  <2>1. worker.at + 1 \in 0 .. NTracks
    BY <1>1, <1>2 DEF TypeOK
  <2>2. QED
    BY <1>2, <2>1 DEF TypeOK, advance
<1>3. CASE ~(worker.at < NTracks)
  BY <1>3, IdleType DEF advance
<1>4. QED
  BY <1>2, <1>3

\* The invariant holds at first: the throttle lets the first PLI through.
LEMMA InitIInv == Init => IInv
<1> SUFFICES ASSUME Init PROVE IInv
  OBVIOUS
<1>1. TypeOK
  <2>1. since \in 0 .. Throttle /\ gap \in 0 .. Throttle
    BY KeyFramesConstants DEF Init
  <2>2. /\ track \in [Tracks -> {"new", "waits", "synced"}]
        /\ rtcp \in [Tracks -> {"idle", "check", "note"}]
        /\ raced \subseteq {t \in Tracks : rtcp[t] = "note"}
        /\ cPaused \subseteq Tracks /\ broken \subseteq Tracks
    BY DEF Init
  <2>3. ended \in BOOLEAN /\ wire \in BOOLEAN /\ wanted \in BOOLEAN
    BY DEF Init
  <2>4. QED
    BY <2>1, <2>2, <2>3, IdleType DEF Init, TypeOK
<1>2. TimeIsTrue /\ PassedRightly
  BY KeyFramesConstants DEF Init, TimeIsTrue, PassedRightly
<1>3. QED
  BY <1>1, <1>2 DEF IInv

\* Every step keeps the invariant.
LEMMA StepIInv == IInv /\ [Next]_vars => IInv'
<1> SUFFICES ASSUME IInv, [Next]_vars PROVE IInv'
  OBVIOUS
<1> USE KeyFramesConstants
<1>1. ASSUME NEW t \in Tracks, Bind(t) PROVE IInv'
  BY <1>1 DEF Bind, pliVars, IInv, TypeOK, TimeIsTrue, PassedRightly
<1>2. ASSUME NEW t \in Tracks, ConsumerToggle(t) PROVE IInv'
  BY <1>2 DEF ConsumerToggle, pliVars, IInv, TypeOK, TimeIsTrue, PassedRightly
<1>3. ASSUME NEW t \in Tracks, handleRTCP(t) PROVE IInv'
  BY <1>3 DEF handleRTCP, trackVars, IInv, TypeOK, TimeIsTrue, PassedRightly
<1>4. ASSUME NEW t \in Tracks, PliCheck(t) PROVE IInv'
  BY <1>4 DEF PliCheck, mayPli, trackVars, IInv, TypeOK, TimeIsTrue, PassedRightly
<1>5. ASSUME NEW t \in Tracks, PliNote(t) PROVE IInv'
  <2>1. /\ rtcp' \in [Tracks -> {"idle", "check", "note"}]
        /\ \A u \in Tracks \ {t} : rtcp'[u] = rtcp[u]
        /\ \A u \in Tracks \ (Tracks \ {t}) : rtcp'[u] # "note"
    BY <1>5 DEF PliNote, IInv, TypeOK
  <2>2. /\ since' \in 0 .. Throttle /\ gap' \in 0 .. Throttle
        /\ raced' \subseteq {u \in Tracks : rtcp'[u] = "note"}
        /\ wire' \in BOOLEAN
        /\ TimeIsTrue' /\ PassedRightly'
    <3>1. SendPLI(Tracks \ {t}) /\ UNCHANGED ended
      BY <1>5 DEF PliNote
    <3>2. Tracks \ {t} \in SUBSET Tracks
      OBVIOUS
    <3>3. QED
      BY <2>1, <3>1, <3>2, SendPLIKeeps
  <2>3. QED
    BY <1>5, <2>1, <2>2 DEF PliNote, trackVars, IInv, TypeOK
<1>6. ASSUME NEW t \in Tracks, Skip(t) PROVE IInv'
  <2>1. worker' \in [pc : {"idle", "write"}, key : BOOLEAN, at : 0 .. NTracks]
    BY <1>6, AdvanceType DEF Skip, IInv
  <2>2. QED
    BY <1>6, <2>1 DEF Skip, trackVars, pliVars, IInv, TypeOK, TimeIsTrue, PassedRightly
<1>7. ASSUME NEW t \in Tracks, Drop(t) PROVE IInv'
  <2>1. worker' \in [pc : {"idle", "write"}, key : BOOLEAN, at : 0 .. NTracks]
    BY <1>7, AdvanceType DEF Drop, writes, IInv
  <2>2. /\ since' \in 0 .. Throttle /\ gap' \in 0 .. Throttle
        /\ raced' \subseteq {u \in Tracks : rtcp'[u] = "note"}
        /\ wire' \in BOOLEAN
        /\ TimeIsTrue' /\ PassedRightly'
    <3>1. SendPLI(Tracks) /\ UNCHANGED ended /\ UNCHANGED rtcp
      BY <1>7 DEF Drop
    <3>2. /\ rtcp' \in [Tracks -> {"idle", "check", "note"}]
          /\ \A u \in Tracks : rtcp'[u] = rtcp[u]
          /\ \A u \in Tracks \ Tracks : rtcp'[u] # "note"
          /\ Tracks \in SUBSET Tracks
      BY <3>1 DEF IInv, TypeOK
    <3>3. QED
      BY <3>1, <3>2, SendPLIKeeps
  <2>3. QED
    BY <1>7, <2>1, <2>2 DEF Drop, trackVars, IInv, TypeOK
<1>8. ASSUME NEW t \in Tracks, NEW got \in BOOLEAN, Send(t, got) PROVE IInv'
  <2>1. worker' \in [pc : {"idle", "write"}, key : BOOLEAN, at : 0 .. NTracks]
    BY <1>8, AdvanceType DEF Send, writes, IInv
  <2>2. QED
    BY <1>8, <2>1 DEF Send, writes, pliVars, IInv, TypeOK, TimeIsTrue, PassedRightly
<1>9. ASSUME BufferClose PROVE IInv'
  BY <1>9 DEF BufferClose, trackVars, pliVars, IInv, TypeOK, TimeIsTrue, PassedRightly
<1>10. ASSUME Tick PROVE IInv'
  BY <1>10 DEF Tick, upTo, trackVars, IInv, TypeOK, TimeIsTrue, PassedRightly
<1>11. ASSUME NEW key \in BOOLEAN, NEW arrives \in BOOLEAN, Frame(key, arrives) PROVE IInv'
  <2>1. CASE arrives
    <3>1. 1 \in 0 .. NTracks
      OBVIOUS
    <3>2. QED
      BY <1>11, <2>1, <3>1
         DEF Frame, trackVars, pliVars, IInv, TypeOK, TimeIsTrue, PassedRightly
  <2>2. CASE ~arrives
    BY <1>11, <2>2, IdleType DEF Frame, trackVars, pliVars, IInv, TypeOK, TimeIsTrue, PassedRightly
  <2>3. QED
    BY <2>1, <2>2
<1>12. ASSUME NEW got \in BOOLEAN, PliArrives(got) PROVE IInv'
  BY <1>12 DEF PliArrives, trackVars, IInv, TypeOK, TimeIsTrue, PassedRightly
<1>13. CASE UNCHANGED vars
  BY <1>13 DEF vars, IInv, TypeOK, TimeIsTrue, PassedRightly
<1>14. QED
  BY <1>1, <1>2, <1>3, <1>4, <1>5, <1>6, <1>7, <1>8, <1>9, <1>10, <1>11, <1>12, <1>13
     DEF Next, Work

-----------------------------------------------------------------------------
\* The state of SendPLI and of the read worker keeps its shape; in particular
\* only callbacks past their test of the throttle count as overtaken.
THEOREM TypeCorrect == Spec => []TypeOK
<1>1. IInv => TypeOK
  BY DEF IInv
<1>2. QED
  BY <1>1, InitIInv, StepIInv, PTL DEF Spec

\* SendPLI(false) of the RTCP callbacks is throttled: whatever tracks force
\* PLIs or ask for them beside it, a PLI follows another within pliThrottle only
\* when that other was noted between the callback's own test and its own note.
THEOREM Throttled == Spec => PliThrottled
<1>1. IInv /\ [Next]_vars =>
        [\A t \in Tracks : PliNote(t) /\ ~ended => gap >= Throttle \/ t \in raced]_vars
  BY DEF IInv, PassedRightly, PliNote
<1>2. QED
  BY <1>1, InitIInv, StepIInv, PTL DEF Spec, PliThrottled

-----------------------------------------------------------------------------
(* Numbers.                                                                *)

\* A remainder lies below the modulus.
LEMMA ModRange ==
    ASSUME NEW m \in Nat \ {0}, NEW a \in Int
    PROVE  a % m \in 0 .. m - 1
BY Z3

\* A number written as a multiple of m plus r, with r below m, has the remainder r.
LEMMA ModUnique ==
    ASSUME NEW m \in Nat \ {0}, NEW a \in Int, NEW q \in Int,
           NEW r \in 0 .. m - 1, a = m * q + r
    PROVE  a % m = r
BY SMT

\* Quotient and remainder give the number back.
LEMMA ModDivision ==
    ASSUME NEW m \in Nat \ {0}, NEW a \in Int
    PROVE  a \div m \in Int /\ a = m * (a \div m) + (a % m)
BY SMT

\* A number below the modulus is its own remainder.
LEMMA ModSmall ==
    ASSUME NEW m \in Nat \ {0}, NEW a \in 0 .. m - 1
    PROVE  a % m = a
BY Z3

\* The remainder of a number less than m from 0.
LEMMA ModNear ==
    ASSUME NEW m \in Nat \ {0}, NEW a \in Int, -m < a, a < m
    PROVE  a % m = IF a >= 0 THEN a ELSE a + m
<1>1. CASE a >= 0
  <2>1. a \in 0 .. m - 1 /\ a = m * 0 + a
    BY <1>1, SMT
  <2>. QED
    BY <1>1, <2>1, ModUnique
<1>2. CASE a < 0
  <2>. DEFINE r == a + m
  <2>1. r \in 0 .. m - 1 /\ a = m * (-1) + r
    BY <1>2, SMT
  <2>. HIDE DEF r
  <2>2. a % m = r
    BY <2>1, ModUnique
  <2>. QED
    BY <1>2, <2>2 DEF r
<1>. QED
  BY <1>1, <1>2

\* The least number of a set.
LEMMA LeastNumber ==
    ASSUME NEW S, S \subseteq Nat, S # {}
    PROVE  \E x \in S : \A y \in S : x <= y
<1>. DEFINE R == OpToRel(<, Nat)
<1>1. IsWellFoundedOn(R, Nat)
  BY NatLessThanWellFounded, Zenon
<1>. HIDE DEF R
<1>2. PICK x \in S : \A y \in S : ~(<<y, x>> \in R)
  BY <1>1, WFMin
<1>3. ASSUME NEW y \in S PROVE x <= y
  <2>1. ~(<<y, x>> \in R) /\ y \in Nat /\ x \in Nat
    BY <1>2
  <2>2. <<y, x>> \in R <=> y < x
    BY <2>1 DEF R, OpToRel
  <2>. QED
    BY <2>1, <2>2
<1>. QED
  BY <1>3

\* Counting up: a set that has 1, and k + 1 with every k up to n, has every number up to n + 1.
LEMMA CountUp ==
    ASSUME NEW n \in Nat, NEW S, 1 \in S, \A k \in 1 .. n : k \in S => k + 1 \in S
    PROVE  \A k \in 1 .. n + 1 : k \in S
<1>. DEFINE Bad == (1 .. n + 1) \ S
<1>1. SUFFICES ASSUME Bad # {} PROVE FALSE
  OBVIOUS
<1>2. Bad \subseteq Nat
  OBVIOUS
<1>3. PICK m \in Bad : \A k \in Bad : m <= k
  <2>. HIDE DEF Bad
  <2>. QED
    BY <1>1, <1>2, LeastNumber
<1>4. m \in 1 .. n + 1 /\ m \notin S /\ m # 1
  OBVIOUS
<1>5. m - 1 \in 1 .. n /\ m - 1 \notin Bad
  BY <1>3, <1>4
<1>6. m - 1 \in S /\ (m - 1) + 1 = m
  BY <1>5
<1>. QED
  BY <1>4, <1>5, <1>6

-----------------------------------------------------------------------------
(* The frame rate.                                                         *)

\* The state keeps its shape.
RateTypeOK ==
    /\ newest \in Frames /\ clean \in BOOLEAN
    /\ fnReceived \in [0 .. Ring - 1 -> Frames \cup {None}]
    /\ secondFrame \in 0 .. Ring - 1
    /\ rate \in [count : Nat, span : Nat, from : Nat]

\* From a base that is not near the wrap, the newest frame is not far away and each
\* frame is where its distance says.
PlacesFit(got, top) ==
    /\ (top - got[0]) % Cycle < Width
    /\ \A d \in 1 .. Ring - 1 : got[d] # None => (got[d] - got[0]) % Cycle = d

\* Without a base there are no frames, and there is none once the rate is measured.
BaseFits ==
    /\ completed => fnReceived[0] = None
    /\ fnReceived[0] = None => fnReceived = reset /\ secondFrame = 0
    /\ fnReceived[0] # None => PlacesFit(fnReceived, newest) \/ NearWrap(fn(fnReceived[0]))

RateInv == RateTypeOK /\ BaseFits /\ RateIsTrue

\* What the bounds of the model say of the sizes the proofs use.
LEMMA RateConstants ==
    /\ PicMod \in Nat \ {0} /\ Cycle \in Nat \ {0} /\ U16 \in Nat \ {0}
    /\ Cycle = 2 * PicMod /\ Cycle <= U16
    /\ Far \in Nat /\ Ring \in Nat /\ MinFrames \in Nat /\ 1 <= MinFrames /\ MinFrames < Ring
    /\ MaxLoss \in Nat /\ Reorder \in Nat
    /\ Width \in Nat /\ Reach \in Nat /\ Reach = Width + MaxLoss
    /\ Ring <= Width /\ Reorder < Width
    /\ Reach <= Far /\ Reach + Reorder <= PicMod
    /\ None \notin Frames /\ Frames \subseteq Int
BY FrameRateConstants, SMT DEF Cycle, Width, Reach, None, Frames

\* A packet's frame i is e frames after the base b.  Counted in identifiers it is as
\* far, unless it is before the base: then it seems to be beyond the ring.
LEMMA Distances ==
    ASSUME NEW b \in Frames, NEW top \in Frames, NEW k \in -Reorder .. MaxLoss + 1,
           (top - b) % Cycle < Width, ~NearWrap(fn(b))
    PROVE  LET i == (top + k) % Cycle
               e == ((top - b) % Cycle) + k
           IN  /\ i \in Frames /\ e \in Int
               /\ e >= 0 => /\ (fn(i) - fn(b)) % U16 = e
                            /\ (i - b) % Cycle = e
               /\ e < 0 => (fn(i) - fn(b)) % U16 >= Ring
<1>. DEFINE i == (top + k) % Cycle
            D == (top - b) % Cycle
            e == D + k
            id == fn(b)
            q == (top - b) \div Cycle
            r == (top + k) \div Cycle
            s == b \div PicMod
<1>0. /\ b \in Int /\ top \in Int /\ k \in Int /\ top - b \in Int /\ top + k \in Int
      /\ k >= -Reorder /\ k <= MaxLoss + 1
  BY RateConstants
<1>1. /\ i \in 0 .. Cycle - 1 /\ r \in Int /\ top + k = Cycle * r + i
  BY <1>0, RateConstants, ModRange, ModDivision
<1>2. /\ D \in 0 .. Cycle - 1 /\ q \in Int /\ top - b = Cycle * q + D
  BY <1>0, RateConstants, ModRange, ModDivision
<1>3. /\ id \in 0 .. PicMod - 1 /\ s \in Int /\ b = PicMod * s + id
  BY <1>0, RateConstants, ModRange, ModDivision DEF fn
<1>4. D < Width /\ id + Reach < PicMod
  BY <1>3, RateConstants DEF NearWrap
<1>. HIDE DEF i, D, id, q, r, s
<1>5. e \in Int /\ -Reorder <= e /\ e <= Reach
  BY <1>0, <1>2, <1>4, RateConstants
<1>6. i - b = Cycle * (q - r) + e
  BY <1>0, <1>1, <1>2, RateConstants, SMT
<1>7. i = PicMod * ((2 * (q - r)) + s) + (id + e)
  <2>1. Cycle * (q - r) = PicMod * (2 * (q - r))
    BY <1>1, <1>2, RateConstants, SMT
  <2>2. i = (PicMod * (2 * (q - r)) + e) + (PicMod * s + id)
    BY <2>1, <1>0, <1>1, <1>2, <1>3, <1>5, <1>6, RateConstants
  <2>. QED
    BY <2>2, <1>0, <1>1, <1>2, <1>3, <1>5, RateConstants, SMT
<1>. DEFINE t == q - r
            u == (2 * t) + s
<1>8. t \in Int /\ u \in Int /\ i \in Int /\ i - b \in Int
  BY <1>0, <1>1, <1>2, <1>3, RateConstants
<1>9. i - b = Cycle * t + e /\ i = PicMod * u + (id + e)
  BY <1>6, <1>7
<1>. HIDE DEF t, u, e
<1>10. ASSUME e >= 0
       PROVE  (fn(i) - fn(b)) % U16 = e /\ (i - b) % Cycle = e
  <2>1. e \in 0 .. Cycle - 1 /\ e \in 0 .. U16 - 1 /\ id + e \in 0 .. PicMod - 1
    BY <1>10, <1>3, <1>4, <1>5, RateConstants
  <2>2. (i - b) % Cycle = e
    BY <2>1, <1>8, <1>9, RateConstants, ModUnique
  <2>3. i % PicMod = id + e
    BY <2>1, <1>8, <1>9, RateConstants, ModUnique
  <2>4. e % U16 = e
    BY <2>1, RateConstants, ModSmall
  <2>5. fn(i) - fn(b) = e
    BY <2>3, <1>3, <1>5 DEF fn, id
  <2>. QED
    BY <2>2, <2>4, <2>5
<1>11. ASSUME e < 0
       PROVE  (fn(i) - fn(b)) % U16 >= Ring
  <2>1. CASE id + e >= 0
    <3>1. id + e \in 0 .. PicMod - 1 /\ -U16 < e /\ e < U16
      BY <2>1, <1>11, <1>3, <1>4, <1>5, RateConstants
    <3>2. i % PicMod = id + e
      BY <3>1, <1>8, <1>9, RateConstants, ModUnique
    <3>3. fn(i) - fn(b) = e
      BY <3>2, <1>3, <1>5 DEF fn, id
    <3>4. e % U16 = e + U16
      <4>1. e % U16 = IF e >= 0 THEN e ELSE e + U16
        BY <3>1, <1>5, RateConstants, ModNear
      <4>. QED
        BY <4>1, <1>5, <1>11
    <3>. QED
      BY <3>3, <3>4, <1>5, RateConstants
  <2>2. CASE id + e < 0
    <3>1. /\ (id + e) + PicMod \in 0 .. PicMod - 1 /\ u - 1 \in Int
          /\ e + PicMod \in 0 .. U16 - 1
      BY <2>2, <1>8, <1>11, <1>3, <1>4, <1>5, RateConstants
    <3>2. i = PicMod * (u - 1) + ((id + e) + PicMod)
      BY <1>3, <1>5, <1>8, <1>9, RateConstants, SMT
    <3>3. i % PicMod = (id + e) + PicMod
      BY <3>1, <3>2, <1>8, RateConstants, ModUnique
    <3>4. fn(i) - fn(b) = e + PicMod
      BY <3>3, <1>3, <1>5, RateConstants DEF fn, id
    <3>5. (e + PicMod) % U16 = e + PicMod
      BY <3>1, RateConstants, ModSmall
    <3>. QED
      BY <3>4, <3>5, <1>5, RateConstants
  <2>. QED
    BY <2>1, <2>2, <1>3, <1>5
<1>. QED
  BY <1>1, <1>5, <1>10, <1>11 DEF i, D, e, Frames

\* The distances calc counts are those from 1 to their number.
LEMMA RunIsInterval ==
    ASSUME NEW got, NEW second \in Nat
    PROVE  \E m \in 0 .. second : /\ run(got, second) = 1 .. m
                                  /\ Cardinality(run(got, second)) = m
                                  /\ \A d \in 1 .. m : got[d] # None
<1>. DEFINE gaps == {d \in 1 .. second + 1 : d = second + 1 \/ got[d] = None}
<1>1. gaps \subseteq Nat /\ second + 1 \in gaps
  OBVIOUS
<1>2. PICK g \in gaps : \A d \in gaps : g <= d
  BY <1>1, LeastNumber
<1>3. g \in 1 .. second + 1 /\ (g = second + 1 \/ got[g] = None)
  OBVIOUS
<1>4. \A d \in 1 .. g - 1 : got[d] # None
  BY <1>2, <1>3
<1>. HIDE DEF gaps
<1>5. run(got, second) = 1 .. g - 1
  <2>1. ASSUME NEW d \in run(got, second) PROVE d \in 1 .. g - 1
    <3>1. d \in 1 .. second /\ \A e \in 1 .. d : got[e] # None
      BY DEF run
    <3>. QED
      BY <3>1, <1>3
  <2>2. ASSUME NEW d \in 1 .. g - 1 PROVE d \in run(got, second)
    BY <1>3, <1>4 DEF run
  <2>. QED
    BY <2>1, <2>2
<1>6. Cardinality(1 .. g - 1) = g - 1
  BY <1>3, FS_Interval
<1>. QED
  BY <1>3, <1>4, <1>5, <1>6

\* calc measures the rate of the stream, or it keeps what has come.
LEMMA CalcStep ==
    ASSUME NEW got \in [0 .. Ring - 1 -> Frames \cup {None}], got[0] # None,
           NEW second \in 0 .. Ring - 1, NEW top \in Frames,
           PlacesFit(got, top) \/ NearWrap(fn(got[0])),
           ~completed, rate \in [count : Nat, span : Nat, from : Nat],
           newest' = top, clean' \in BOOLEAN, calc(got, second)
    PROVE  RateInv'
<1>. DEFINE counted == run(got, second)
            last == CHOOSE d \in counted : \A e \in counted : e <= d
            made == [count |-> Cardinality(counted), span |-> (got[last] - got[0]) % Cycle,
                     from |-> fn(got[0])]
<1>0. 0 \in 0 .. Ring - 1 /\ second \in Nat
  BY RateConstants
<1>1. got[0] \in Frames /\ got[0] \in Int
  <2>1. got[0] \in Frames
    BY <1>0
  <2>. QED
    BY <2>1, RateConstants
<1>2. PICK m \in 0 .. second : /\ counted = 1 .. m /\ Cardinality(counted) = m
                               /\ \A d \in 1 .. m : got[d] # None
  BY <1>0, RunIsInterval
<1>3. fn(got[0]) \in Nat
  <2>1. got[0] % PicMod \in 0 .. PicMod - 1
    BY <1>1, RateConstants, ModRange
  <2>. QED
    BY <2>1, RateConstants DEF fn
<1>. HIDE DEF counted
<1>4. CASE enough(m)
  <2>1. rate' = made /\ fnReceived' = reset /\ secondFrame' = 0
    BY <1>2, <1>4 DEF calc, counted
  <2>2. m >= 1 /\ m \in 1 .. Ring - 1
    BY <1>4, RateConstants DEF enough
  <2>3. last = m
    <3>1. m \in counted /\ \A e \in counted : e <= m
      BY <1>2, <2>2
    <3>2. last \in counted /\ \A e \in counted : e <= last
      BY <3>1
    <3>. QED
      BY <3>1, <3>2, <1>2
  <2>. HIDE DEF last
  <2>4. got[m] \in Frames /\ got[m] # None /\ got[m] \in Int
    <3>1. got[m] # None /\ m \in 0 .. Ring - 1
      BY <1>2, <2>2
    <3>2. got[m] \in Frames
      BY <3>1
    <3>. QED
      BY <3>1, <3>2, RateConstants
  <2>5. (got[m] - got[0]) % Cycle \in Nat
    <3>1. got[m] - got[0] \in Int
      BY <1>1, <2>4
    <3>2. (got[m] - got[0]) % Cycle \in 0 .. Cycle - 1
      BY <3>1, RateConstants, ModRange
    <3>. QED
      BY <3>2, RateConstants
  <2>6. made \in [count : Nat, span : Nat, from : Nat]
    BY <1>2, <1>3, <2>3, <2>5
  <2>7. made.count = m /\ made.span = (got[m] - got[0]) % Cycle /\ made.from = fn(got[0])
    BY <1>2, <2>3
  <2>. HIDE DEF made
  <2>8. RateIsTrue'
    <3>1. rate'.count = rate'.span \/ NearWrap(rate'.from)
      <4>1. CASE PlacesFit(got, top)
        <5>1. (got[m] - got[0]) % Cycle = m
          BY <4>1, <2>2, <2>4 DEF PlacesFit
        <5>. QED
          BY <5>1, <2>1, <2>7
      <4>2. CASE NearWrap(fn(got[0]))
        BY <4>2, <2>1, <2>7
      <4>. QED
        BY <4>1, <4>2
    <3>. QED
      BY <3>1 DEF RateIsTrue, NearWrap
  <2>9. RateTypeOK'
    BY <2>1, <2>6, RateConstants DEF RateTypeOK, reset
  <2>10. fnReceived'[0] = None
    BY <2>1, RateConstants DEF reset
  <2>11. BaseFits'
    BY <2>1, <2>10 DEF BaseFits, reset
  <2>. QED
    BY <2>8, <2>9, <2>11 DEF RateInv
<1>5. CASE ~enough(m)
  <2>1. rate' = rate /\ fnReceived' = got /\ secondFrame' = second
    BY <1>2, <1>5 DEF calc, counted
  <2>2. RateIsTrue'
    BY <2>1 DEF RateIsTrue, completed
  <2>3. RateTypeOK'
    BY <2>1 DEF RateTypeOK
  <2>4. BaseFits'
    BY <2>1 DEF BaseFits, PlacesFit, NearWrap, fn, completed
  <2>. QED
    BY <2>2, <2>3, <2>4 DEF RateInv
<1>. QED
  BY <1>4, <1>5

\* Starting again forgets what has come.
LEMMA StartAgainStep ==
    ASSUME RateInv, startAgain, newest' \in Frames, clean' \in BOOLEAN
    PROVE  RateInv'
<1>1. fnReceived' = reset /\ secondFrame' = 0 /\ rate' = rate
  BY DEF startAgain
<1>2. fnReceived'[0] = None
  BY <1>1, RateConstants DEF reset
<1>3. RateTypeOK'
  BY <1>1, RateConstants DEF RateInv, RateTypeOK, reset
<1>4. BaseFits'
  BY <1>1, <1>2 DEF BaseFits, reset
<1>5. RateIsTrue'
  BY <1>1 DEF RateInv, RateIsTrue, completed
<1>. QED
  BY <1>3, <1>4, <1>5 DEF RateInv

\* A packet, in order, late or after a loss, keeps the invariant.
LEMMA PacketStep ==
    ASSUME RateInv, NEW k \in -Reorder .. MaxLoss + 1, Packet(k)
    PROVE  RateInv'
<1>. DEFINE i == (newest + k) % Cycle
            b == fnReceived[0]
            e == ((newest - b) % Cycle) + k
<1>1. RecvPacket(i) /\ newest' = (IF k > 0 THEN i ELSE newest) /\ clean' = (k \in {0, 1})
  BY DEF Packet
<1>2. RateTypeOK /\ BaseFits /\ RateIsTrue
  BY DEF RateInv
<1>3. newest \in Int /\ k \in Int /\ newest \in Frames /\ b \in Frames \cup {None}
  BY <1>2, RateConstants DEF RateTypeOK
<1>4. i \in Frames /\ i \in Int
  <2>1. newest + k \in Int
    BY <1>3
  <2>2. i \in 0 .. Cycle - 1
    BY <2>1, RateConstants, ModRange
  <2>. QED
    BY <2>2, RateConstants DEF Frames
<1>5. newest' \in Frames /\ clean' \in BOOLEAN
  BY <1>1, <1>3, <1>4
<1>6. ASSUME b # None, ~NearWrap(fn(b))
      PROVE  /\ b \in Frames /\ b \in Int /\ e \in Int
             /\ e >= 0 => baseDiff(i) = e /\ (i - b) % Cycle = e
             /\ e < 0 => baseDiff(i) >= Ring
             /\ PlacesFit(fnReceived, newest)
             /\ (newest - b) % Cycle \in Nat /\ (newest - b) % Cycle < Width
  <2>1. PlacesFit(fnReceived, newest) /\ b \in Frames
    BY <1>2, <1>3, <1>6 DEF BaseFits
  <2>2. (newest - b) % Cycle < Width
    BY <2>1 DEF PlacesFit
  <2>3. b \in Int /\ (newest - b) % Cycle \in Nat
    <3>1. b \in Int /\ newest - b \in Int
      <4>1. b \in Int
        BY <2>1, RateConstants
      <4>. QED
        BY <4>1, <1>3
    <3>2. (newest - b) % Cycle \in 0 .. Cycle - 1
      BY <3>1, RateConstants, ModRange
    <3>. QED
      BY <3>1, <3>2, RateConstants
  <2>. HIDE DEF b
  <2>4. /\ e \in Int
        /\ e >= 0 => (fn(i) - fn(b)) % U16 = e /\ (i - b) % Cycle = e
        /\ e < 0 => (fn(i) - fn(b)) % U16 >= Ring
    BY <2>1, <2>2, <1>3, <1>6, Distances
  <2>. QED
    BY <2>1, <2>2, <2>3, <2>4 DEF baseDiff, b
<1>. HIDE DEF i, e
<1>7. CASE ~completed /\ b = None /\ fnReceived' = [fnReceived EXCEPT ![0] = i]
           /\ UNCHANGED <<secondFrame, rate>>
  <2>1. /\ fnReceived' \in [0 .. Ring - 1 -> Frames \cup {None}] /\ fnReceived'[0] = i
        /\ \A d \in 1 .. Ring - 1 : fnReceived'[d] = None
    BY <1>2, <1>4, <1>7, RateConstants DEF RateTypeOK, BaseFits, reset
  <2>2. RateTypeOK'
    BY <2>1, <1>2, <1>5, <1>7 DEF RateTypeOK
  <2>3. RateIsTrue'
    BY <1>2, <1>7 DEF RateIsTrue, completed
  <2>4. (newest' - i) % Cycle < Width
    <3>1. CASE k > 0
      <4>1. newest' - i = 0
        BY <3>1, <1>1, <1>4
      <4>2. 0 % Cycle = 0
        BY RateConstants, ModSmall
      <4>. QED
        BY <4>1, <4>2, RateConstants
    <3>2. CASE ~(k > 0)
      <4>. DEFINE r == (newest + k) \div Cycle
      <4>1. newest + k = Cycle * r + i /\ r \in Int
        <5>1. newest + k \in Int
          BY <1>3
        <5>. QED
          BY <5>1, RateConstants, ModDivision DEF i
      <4>. HIDE DEF r
      <4>2. /\ newest - i = Cycle * r + (-k) /\ newest - i \in Int
            /\ -k \in 0 .. Cycle - 1 /\ -k < Width
        BY <4>1, <3>2, <1>3, <1>4, RateConstants, SMT
      <4>3. (newest - i) % Cycle = -k
        BY <4>1, <4>2, <1>3, RateConstants, ModUnique
      <4>. QED
        BY <4>2, <4>3, <3>2, <1>1
    <3>. QED
      BY <3>1, <3>2
  <2>5. PlacesFit(fnReceived', newest')
    BY <2>1, <2>4 DEF PlacesFit
  <2>6. BaseFits'
    <3>1. fnReceived'[0] # None
      BY <2>1, <1>4, RateConstants
    <3>. QED
      BY <3>1, <2>5, <1>7 DEF BaseFits, PlacesFit, completed
  <2>. QED
    BY <2>2, <2>3, <2>6 DEF RateInv
<1>8. CASE startAgain
  BY <1>5, <1>8, StartAgainStep
<1>9. CASE /\ ~completed /\ b # None
           /\ baseDiff(i) \in 1 .. Ring - 1 /\ fnReceived[baseDiff(i)] = None
           /\ calc([fnReceived EXCEPT ![baseDiff(i)] = i],
                   IF secondFrame < baseDiff(i) THEN baseDiff(i) ELSE secondFrame)
  <2>. DEFINE d == baseDiff(i)
              got == [fnReceived EXCEPT ![d] = i]
              second == IF secondFrame < d THEN d ELSE secondFrame
  <2>1. /\ d \in 1 .. Ring - 1 /\ got \in [0 .. Ring - 1 -> Frames \cup {None}]
        /\ got[d] = i /\ got[0] = b /\ second \in 0 .. Ring - 1
        /\ \A c \in 1 .. Ring - 1 : c # d => got[c] = fnReceived[c]
    BY <1>2, <1>4, <1>9, RateConstants DEF RateTypeOK
  <2>2. calc(got, second)
    BY <1>9
  <2>. HIDE DEF d, got, second
  <2>3. ASSUME ~NearWrap(fn(b)) PROVE PlacesFit(got, newest')
    <3>1. e >= 0 /\ d = e /\ (i - b) % Cycle = e
      BY <1>6, <1>9, <2>1, <2>3, RateConstants DEF d
    <3>2. (newest' - b) % Cycle < Width
      BY <3>1, <1>1, <1>6, <1>9, <2>1, <2>3, RateConstants
    <3>3. \A c \in 1 .. Ring - 1 : got[c] # None => (got[c] - got[0]) % Cycle = c
      BY <3>1, <1>6, <1>9, <2>1, <2>3 DEF PlacesFit
    <3>. QED
      BY <3>2, <3>3, <2>1 DEF PlacesFit
  <2>. QED
    BY <2>1, <2>2, <2>3, <1>2, <1>5, <1>9, CalcStep DEF RateTypeOK
<1>10. CASE completed /\ UNCHANGED <<fnReceived, secondFrame, rate>>
  <2>1. RateTypeOK' /\ RateIsTrue'
    BY <1>2, <1>5, <1>10 DEF RateTypeOK, RateIsTrue, completed
  <2>. QED
    BY <2>1, <1>2, <1>10 DEF RateInv, BaseFits, completed
<1>11. CASE /\ b # None /\ UNCHANGED <<fnReceived, secondFrame, rate>>
            /\ \/ baseDiff(i) = 0 \/ baseDiff(i) > Far
               \/ baseDiff(i) < Ring /\ fnReceived[baseDiff(i)] # None
  <2>1. RateTypeOK' /\ RateIsTrue'
    BY <1>2, <1>5, <1>11 DEF RateTypeOK, RateIsTrue, completed
  <2>2. ASSUME ~NearWrap(fn(b)) PROVE (newest' - b) % Cycle < Width
    <3>1. CASE k > 0
      <4>1. e >= 0 /\ e <= Reach
        BY <3>1, <1>3, <1>6, <1>11, <2>2, RateConstants DEF e
      <4>2. baseDiff(i) = e /\ (i - b) % Cycle = e
        BY <4>1, <1>6, <1>11, <2>2
      <4>3. e < Ring
        BY <4>1, <4>2, <1>6, <1>11, <2>2, RateConstants
      <4>. QED
        BY <4>1, <4>2, <4>3, <3>1, <1>1, <1>6, <1>11, <2>2, RateConstants
    <3>2. CASE ~(k > 0)
      BY <3>2, <1>1, <1>6, <1>11, <2>2
    <3>. QED
      BY <3>1, <3>2
  <2>3. BaseFits'
    BY <2>2, <1>2, <1>11 DEF BaseFits, PlacesFit, NearWrap, fn, completed
  <2>. QED
    BY <2>1, <2>3 DEF RateInv
<1>. QED
  BY <1>1, <1>7, <1>8, <1>9, <1>10, <1>11 DEF RecvPacket

\* The initial state satisfies the invariant.
LEMMA RateInitFits == RateInit => RateInv
<1>. SUFFICES ASSUME RateInit PROVE RateInv
  OBVIOUS
<1>1. fnReceived = reset /\ fnReceived[0] = None
  BY RateConstants DEF RateInit, reset
<1>2. RateTypeOK
  <2>1. newest \in Frames
    <3>1. newest \in 0 .. PicMod - 1
      BY DEF RateInit
    <3>2. PicMod \in Nat /\ Cycle \in Nat /\ PicMod <= Cycle
      BY RateConstants
    <3>. QED
      BY <3>1, <3>2 DEF Frames
  <2>2. fnReceived \in [0 .. Ring - 1 -> Frames \cup {None}] /\ secondFrame \in 0 .. Ring - 1
    BY RateConstants DEF RateInit, reset
  <2>3. rate \in [count : Nat, span : Nat, from : Nat]
    BY DEF RateInit, NoRate
  <2>4. clean \in BOOLEAN
    BY DEF RateInit
  <2>. QED
    BY <2>1, <2>2, <2>3, <2>4 DEF RateTypeOK
<1>3. BaseFits /\ RateIsTrue
  BY <1>1 DEF RateInit, BaseFits, RateIsTrue, completed, NoRate
<1>. QED
  BY <1>2, <1>3 DEF RateInv

\* The frame rate that calc measures is that of the stream.
THEOREM RateStaysTrue == RateSpec => []RateIsTrue
<1>1. RateInit => RateInv
  BY RateInitFits
<1>2. RateInv /\ [RateNext]_rateVars => RateInv'
  <2>. SUFFICES ASSUME RateInv, [RateNext]_rateVars PROVE RateInv'
    OBVIOUS
  <2>1. CASE RateNext
    BY <2>1, PacketStep DEF RateNext
  <2>2. CASE UNCHANGED rateVars
    BY <2>2 DEF rateVars, RateInv, RateTypeOK, BaseFits, RateIsTrue, PlacesFit, NearWrap, fn,
                completed
  <2>. QED
    BY <2>1, <2>2
<1>3. RateInv => RateIsTrue
  BY DEF RateInv
<1>. QED
  BY <1>1, <1>2, <1>3, PTL DEF RateSpec

-----------------------------------------------------------------------------
(* VP8 descriptors.                                                        *)

\* One sequence of bytes after another.
LEMMA CatFacts ==
    ASSUME NEW s \in Seq(Int), NEW t \in Seq(Int)
    PROVE  /\ s \o t \in Seq(Int) /\ Len(s \o t) = Len(s) + Len(t)
           /\ \A i \in 1 .. Len(s) : (s \o t)[i] = s[i]
           /\ \A i \in 1 .. Len(t) : (s \o t)[Len(s) + i] = t[i]
OBVIOUS

\* An optional field is absent or has one of its values.
LEMMA OptionalFacts ==
    ASSUME NEW V, NEW f \in Optional(V)
    PROVE  /\ f.is \in BOOLEAN
           /\ ~f.is => f.val = 0 /\ f = Absent
           /\ f.is => f.val \in V /\ f = [is |-> TRUE, val |-> f.val]
<1>1. CASE f = Absent
  BY <1>1 DEF Absent
<1>2. CASE f \in Present(V)
  <2>1. PICK x \in V : f = [is |-> TRUE, val |-> x]
    BY <1>2 DEF Present
  <2>. QED
    BY <2>1
<1>. QED
  BY <1>1, <1>2 DEF Optional

\* The fields of a descriptor.
LEMMA DescriptorFacts ==
    ASSUME NEW v \in VP8
    PROVE  /\ v.S \in BOOLEAN /\ v.M \in BOOLEAN
           /\ v.I \in Optional(PictureIDs) /\ v.L \in Optional({0, 255})
           /\ v.T \in Optional(0 .. 7) /\ v.K \in Optional({0, 31})
           /\ v.L.is => v.T.is
           /\ v.M => v.I.is
           /\ v.I.val > 127 => v.M
           /\ v = [S |-> v.S, I |-> v.I, M |-> v.M, L |-> v.L, T |-> v.T, K |-> v.K]
BY DEF VP8

\* The greatest picture identifier.
LEMMA PictureIDLimit == MaxPictureID \in Nat /\ MaxPictureID <= 32767
BY DEF MaxPictureID

\* The values of a descriptor's fields.
LEMMA DescriptorValues ==
    ASSUME NEW v \in VP8
    PROVE  /\ v.I.val \in 0 .. MaxPictureID /\ v.L.val \in 0 .. 255
           /\ v.T.val \in 0 .. 7 /\ v.K.val \in 0 .. 31
           /\ ~v.M => v.I.val \in 0 .. 127
           /\ v.I.val \in Int /\ v.L.val \in Int /\ v.T.val \in Int /\ v.K.val \in Int
<1>1. v.I.val \in 0 .. MaxPictureID
  <2>1. CASE v.I.is
    <3>1. v.I.val \in PictureIDs
      BY <2>1, DescriptorFacts, OptionalFacts
    <3>. QED
      BY <3>1, PayloadsConstants
  <2>2. CASE ~v.I.is
    <3>1. v.I.val = 0
      BY <2>2, DescriptorFacts, OptionalFacts
    <3>. QED
      BY <3>1, PictureIDLimit
  <2>. QED
    BY <2>1, <2>2
<1>2. v.L.val \in 0 .. 255
  <2>1. CASE v.L.is
    <3>1. v.L.val \in {0, 255}
      BY <2>1, DescriptorFacts, OptionalFacts
    <3>. QED
      BY <3>1
  <2>2. CASE ~v.L.is
    <3>1. v.L.val = 0
      BY <2>2, DescriptorFacts, OptionalFacts
    <3>. QED
      BY <3>1
  <2>. QED
    BY <2>1, <2>2
<1>3. v.T.val \in 0 .. 7
  <2>1. CASE v.T.is
    <3>1. v.T.val \in 0 .. 7
      BY <2>1, DescriptorFacts, OptionalFacts
    <3>. QED
      BY <3>1
  <2>2. CASE ~v.T.is
    <3>1. v.T.val = 0
      BY <2>2, DescriptorFacts, OptionalFacts
    <3>. QED
      BY <3>1
  <2>. QED
    BY <2>1, <2>2
<1>4. v.K.val \in 0 .. 31
  <2>1. CASE v.K.is
    <3>1. v.K.val \in {0, 31}
      BY <2>1, DescriptorFacts, OptionalFacts
    <3>. QED
      BY <3>1
  <2>2. CASE ~v.K.is
    <3>1. v.K.val = 0
      BY <2>2, DescriptorFacts, OptionalFacts
    <3>. QED
      BY <3>1
  <2>. QED
    BY <2>1, <2>2
<1>5. v.I.val > 127 => v.M
  BY DescriptorFacts
<1>6. ~v.M => v.I.val \in 0 .. 127
  <2>0. MaxPictureID \in Nat
    BY PictureIDLimit
  <2>1. v.I.val \in Int /\ 0 <= v.I.val
    BY <2>0, <1>1
  <2>. QED
    BY <2>1, <1>5
<1>7. v.I.val \in Int
  <2>1. MaxPictureID \in Nat
    BY PictureIDLimit
  <2>. QED
    BY <2>1, <1>1
<1>8. v.L.val \in Int /\ v.T.val \in Int /\ v.K.val \in Int
  BY <1>2, <1>3, <1>4
<1>. QED
  BY <1>1, <1>2, <1>3, <1>4, <1>6, <1>7, <1>8, Zenon

\* The flags of the two flag bytes.
LEMMA FlagBits ==
    ASSUME NEW a \in 0 .. 1, NEW b \in 0 .. 1, NEW c \in 0 .. 1, NEW d \in 0 .. 1
    PROVE  LET x == 128 * a + 64 * b + 32 * c + 16 * d
           IN  /\ (x \div 128) % 2 = a /\ (x \div 64) % 2 = b
               /\ (x \div 32) % 2 = c /\ (x \div 16) % 2 = d
<1>1. (a = 0 \/ a = 1) /\ (b = 0 \/ b = 1) /\ (c = 0 \/ c = 1) /\ (d = 0 \/ d = 1)
  OBVIOUS
<1>. QED
  BY <1>1, Z3

\* A long picture identifier has a marked first byte, a short one has not.
LEMMA PictureIDBytes ==
    /\ \A x \in 0 .. MaxPictureID :
         LET h == 128 + (x \div 256)
         IN  /\ (h \div 128) % 2 = 1 /\ 256 * ((h \div 1) % 128) + (x % 256) = x
             /\ h \in 0 .. 255 /\ x % 256 \in 0 .. 255
    /\ \A x \in 0 .. 127 : (x \div 128) % 2 = 0
<1>1. ASSUME NEW x \in 0 .. MaxPictureID
      PROVE  LET h == 128 + (x \div 256)
             IN  /\ (h \div 128) % 2 = 1 /\ 256 * ((h \div 1) % 128) + (x % 256) = x
                 /\ h \in 0 .. 255 /\ x % 256 \in 0 .. 255
  <2>. DEFINE q == x \div 256
              r == x % 256
  <2>0. x \in Int /\ 0 <= x /\ x <= MaxPictureID
    <3>1. MaxPictureID \in Nat
      BY PictureIDLimit
    <3>. QED
      BY <3>1
  <2>1. q \in Int /\ r \in 0 .. 255 /\ x = 256 * q + r
    BY <2>0, ModDivision, ModRange
  <2>. HIDE DEF q, r
  <2>2. q \in 0 .. 127
    <3>1. MaxPictureID \in Nat /\ MaxPictureID <= 32767
      BY PictureIDLimit
    <3>2. r \in Int /\ 0 <= r /\ r <= 255
      BY <2>1
    <3>3. x \in Int /\ 0 <= x /\ x <= 32767
      BY <2>0, <3>1
    <3>4. q \in Int /\ x = 256 * q + r
      BY <2>1
    <3>5. 0 <= q /\ q <= 127
      BY <3>2, <3>3, <3>4, SMT
    <3>. QED
      BY <3>4, <3>5
  <2>3. ((128 + q) \div 128) % 2 = 1 /\ ((128 + q) \div 1) % 128 = q
    BY <2>2, Z3
  <2>4. 128 + q \in 0 .. 255
    BY <2>2
  <2>. QED
    BY <2>1, <2>2, <2>3, <2>4 DEF q, r
<1>2. ASSUME NEW x \in 0 .. 127 PROVE (x \div 128) % 2 = 0
  BY Z3
<1>. QED
  BY <1>1, <1>2

\* The byte that TID, Y and KEYIDX share.
LEMMA SharedByte ==
    ASSUME NEW t \in 0 .. 7, NEW k \in 0 .. 31
    PROVE  /\ ((32 * t + k) \div 32) % 8 = t /\ ((32 * t + k) \div 1) % 32 = k
           /\ 32 * t + k \in 0 .. 255
BY Z3

\* What MarshalTo writes.
flagByte(v) == 128 * num(flags(v)) + 16 * num(v.S)
fieldsByte(v) == 128 * num(v.I.is) + 64 * num(v.L.is) + 32 * num(v.T.is) + 16 * num(v.K.is)
idLength(v) == num(v.I.is) + num(v.M)

\* A flag as a bit.
LEMMA NumFacts == ASSUME NEW b \in BOOLEAN
                  PROVE  num(b) \in 0 .. 1 /\ (num(b) = 1 <=> b) /\ (num(b) = 0 <=> ~b)
BY DEF num

\* The flags of a descriptor, and when they need the second byte.
LEMMA FlagFacts ==
    ASSUME NEW v \in VP8
    PROVE  /\ v.S \in BOOLEAN /\ v.M \in BOOLEAN /\ v.I.is \in BOOLEAN /\ v.L.is \in BOOLEAN
           /\ v.T.is \in BOOLEAN /\ v.K.is \in BOOLEAN /\ flags(v) \in BOOLEAN
           /\ v.L.is => v.T.is
           /\ v.M => v.I.is
           /\ flags(v) <=> v.I.is \/ v.L.is \/ v.T.is \/ v.K.is
<1>1. v.S \in BOOLEAN /\ v.M \in BOOLEAN /\ (v.L.is => v.T.is) /\ (v.M => v.I.is)
  BY DescriptorFacts
<1>2. v.I.is \in BOOLEAN
  BY DescriptorFacts, OptionalFacts
<1>3. v.L.is \in BOOLEAN
  BY DescriptorFacts, OptionalFacts
<1>4. v.T.is \in BOOLEAN
  BY DescriptorFacts, OptionalFacts
<1>5. v.K.is \in BOOLEAN
  BY DescriptorFacts, OptionalFacts
<1>6. flags(v) \in BOOLEAN /\ (flags(v) <=> v.I.is \/ v.L.is \/ v.T.is \/ v.K.is)
  BY Zenon DEF flags
<1>. QED
  BY <1>1, <1>2, <1>3, <1>4, <1>5, <1>6, Zenon

\* A field of a descriptor is absent or has a value.
LEMMA FieldForms ==
    ASSUME NEW v \in VP8
    PROVE  /\ v.I.is => v.I = [is |-> TRUE, val |-> v.I.val]
           /\ v.L.is => v.L = [is |-> TRUE, val |-> v.L.val]
           /\ v.T.is => v.T = [is |-> TRUE, val |-> v.T.val]
           /\ v.K.is => v.K = [is |-> TRUE, val |-> v.K.val]
           /\ ~v.I.is => v.I = Absent
           /\ ~v.L.is => v.L = Absent
           /\ ~v.T.is => v.T = Absent
           /\ ~v.K.is => v.K = Absent
<1>1. (v.I.is => v.I = [is |-> TRUE, val |-> v.I.val]) /\ (~v.I.is => v.I = Absent)
  <2>1. v.I \in Optional(PictureIDs)
    BY DescriptorFacts
  <2>. QED
    BY <2>1, OptionalFacts, Zenon
<1>2. (v.L.is => v.L = [is |-> TRUE, val |-> v.L.val]) /\ (~v.L.is => v.L = Absent)
  <2>. DEFINE V == {0, 255}
  <2>1. v.L \in Optional(V)
    BY DescriptorFacts
  <2>. HIDE DEF V
  <2>. QED
    BY <2>1, OptionalFacts, Zenon
<1>3. (v.T.is => v.T = [is |-> TRUE, val |-> v.T.val]) /\ (~v.T.is => v.T = Absent)
  <2>. DEFINE V == 0 .. 7
  <2>1. v.T \in Optional(V)
    BY DescriptorFacts
  <2>. HIDE DEF V
  <2>. QED
    BY <2>1, OptionalFacts, Zenon
<1>4. (v.K.is => v.K = [is |-> TRUE, val |-> v.K.val]) /\ (~v.K.is => v.K = Absent)
  <2>. DEFINE V == {0, 31}
  <2>1. v.K \in Optional(V)
    BY DescriptorFacts
  <2>. HIDE DEF V
  <2>. QED
    BY <2>1, OptionalFacts, Zenon
<1>. QED
  BY <1>1, <1>2, <1>3, <1>4, Zenon

\* The bytes of the picture identifier.
LEMMA PictureIDFacts ==
    ASSUME NEW v \in VP8
    PROVE  /\ pictureID(v) \in Seq(Int) /\ Len(pictureID(v)) = idLength(v)
           /\ v.I.is /\ v.M => /\ pictureID(v)[1] = 128 + (v.I.val \div 256)
                               /\ pictureID(v)[2] = v.I.val % 256
           /\ v.I.is /\ ~v.M => pictureID(v)[1] = v.I.val
<1>1. v.M \in BOOLEAN /\ v.I.is \in BOOLEAN /\ (v.M => v.I.is)
  BY FlagFacts
<1>2. v.I.val \in Int
  BY DescriptorValues, Zenon
<1>3. CASE ~v.I.is
  <2>0. ~v.M
    BY <1>1, <1>3, Zenon
  <2>1. pictureID(v) = <<>>
    BY <1>3 DEF pictureID
  <2>2. idLength(v) = 0
    BY <2>0, <1>3 DEF idLength, num
  <2>. QED
    BY <2>1, <2>2, <1>3
<1>4. CASE v.I.is /\ ~v.M
  BY <1>1, <1>2, <1>4 DEF pictureID, idLength, num
<1>5. CASE v.I.is /\ v.M
  <2>1. pictureID(v) = <<128 + (v.I.val \div 256), v.I.val % 256>> /\ idLength(v) = 2
    BY <1>5 DEF pictureID, idLength, num
  <2>2. 128 + (v.I.val \div 256) \in Int /\ v.I.val % 256 \in Int
    BY <1>2
  <2>. QED
    BY <2>1, <2>2, <1>5
<1>. QED
  BY <1>1, <1>3, <1>4, <1>5

\* The bytes of a descriptor.
LEMMA HeaderFacts ==
    ASSUME NEW v \in VP8
    PROVE  LET h == descriptor(v)
               tid == 3 + idLength(v) + num(v.L.is)
           IN  /\ h \in Seq(Int) /\ Len(h) >= 1 /\ h[1] = flagByte(v)
               /\ ~flags(v) => Len(h) = 1
               /\ flags(v) =>
                    /\ Len(h) = tid - 1 + num(v.T.is \/ v.K.is)
                    /\ h[2] = fieldsByte(v)
                    /\ v.I.is /\ v.M => /\ h[3] = 128 + (v.I.val \div 256)
                                        /\ h[4] = v.I.val % 256
                    /\ v.I.is /\ ~v.M => h[3] = v.I.val
                    /\ v.L.is => h[3 + idLength(v)] = v.L.val
                    /\ v.T.is \/ v.K.is => h[tid] = 32 * v.T.val + v.K.val
<1>. DEFINE a == <<flagByte(v)>>
            b == <<fieldsByte(v)>>
            c == pictureID(v)
            d == IF v.L.is THEN <<v.L.val>> ELSE <<>>
            e == IF v.T.is \/ v.K.is THEN <<32 * v.T.val + v.K.val>> ELSE <<>>
            n == idLength(v)
            l == num(v.L.is)
            t == num(v.T.is \/ v.K.is)
            bc == b \o c
            bcd == bc \o d
            bcde == bcd \o e
<1>1. /\ num(v.I.is) \in 0 .. 1 /\ num(v.M) \in 0 .. 1 /\ l \in 0 .. 1 /\ t \in 0 .. 1
      /\ num(v.T.is) \in 0 .. 1 /\ num(v.K.is) \in 0 .. 1 /\ num(v.S) \in 0 .. 1
      /\ num(flags(v)) \in 0 .. 1
  BY DEF num
<1>2. flagByte(v) \in Int /\ fieldsByte(v) \in Int /\ n \in 0 .. 2
  BY <1>1 DEF flagByte, fieldsByte, idLength
<1>3. v.L.val \in Int /\ 32 * v.T.val + v.K.val \in Int
  <2>1. v.L.val \in Int /\ v.T.val \in Int /\ v.K.val \in Int
    BY DescriptorValues, Zenon
  <2>. QED
    BY <2>1
<1>4. /\ a \in Seq(Int) /\ Len(a) = 1 /\ a[1] = flagByte(v)
      /\ b \in Seq(Int) /\ Len(b) = 1 /\ b[1] = fieldsByte(v)
  BY <1>2
<1>5. c \in Seq(Int) /\ Len(c) = n
  BY PictureIDFacts
<1>6. d \in Seq(Int) /\ Len(d) = l /\ (v.L.is => d[1] = v.L.val)
  BY <1>3 DEF num
<1>7. e \in Seq(Int) /\ Len(e) = t /\ (v.T.is \/ v.K.is => e[1] = 32 * v.T.val + v.K.val)
  BY <1>3 DEF num
<1>8. /\ ~flags(v) => descriptor(v) = a \o <<>>
      /\ flags(v) => descriptor(v) = a \o bcde
  BY Zenon DEF descriptor, flagByte, fieldsByte
<1>9. v.L.is => l = 1
  BY DEF num
<1>10. v.T.is \/ v.K.is => t = 1
  BY DEF num
<1>11. /\ v.I.is /\ v.M => n = 2 /\ c[1] = 128 + (v.I.val \div 256) /\ c[2] = v.I.val % 256
       /\ v.I.is /\ ~v.M => n = 1 /\ c[1] = v.I.val
  BY PictureIDFacts DEF idLength, num
<1>. HIDE DEF a, b, c, d, e, n, l, t
<1>12. /\ bc \in Seq(Int) /\ Len(bc) = 1 + n /\ bc[1] = fieldsByte(v)
       /\ \A i \in 1 .. n : bc[1 + i] = c[i]
  <2>1. /\ bc \in Seq(Int) /\ Len(bc) = Len(b) + Len(c)
        /\ \A i \in 1 .. Len(b) : bc[i] = b[i]
        /\ \A i \in 1 .. Len(c) : bc[Len(b) + i] = c[i]
    BY <1>4, <1>5, CatFacts, Zenon
  <2>. HIDE DEF bc
  <2>. QED
    BY <2>1, <1>2, <1>4, <1>5
<1>. HIDE DEF bc
<1>13. /\ bcd \in Seq(Int) /\ Len(bcd) = (1 + n) + l
       /\ \A i \in 1 .. 1 + n : bcd[i] = bc[i]
       /\ v.L.is => bcd[(1 + n) + 1] = v.L.val
  <2>1. v.L.is => 1 \in 1 .. Len(d)
    BY <1>6, <1>9
  <2>2. /\ bcd \in Seq(Int) /\ Len(bcd) = Len(bc) + Len(d)
        /\ \A i \in 1 .. Len(bc) : bcd[i] = bc[i]
        /\ \A i \in 1 .. Len(d) : bcd[Len(bc) + i] = d[i]
    BY <1>6, <1>12, CatFacts, Zenon
  <2>. HIDE DEF bcd
  <2>. QED
    BY <2>1, <2>2, <1>6, <1>12
<1>. HIDE DEF bcd
<1>14. /\ bcde \in Seq(Int) /\ Len(bcde) = ((1 + n) + l) + t
       /\ \A i \in 1 .. (1 + n) + l : bcde[i] = bcd[i]
       /\ v.T.is \/ v.K.is => bcde[((1 + n) + l) + 1] = 32 * v.T.val + v.K.val
  <2>1. v.T.is \/ v.K.is => 1 \in 1 .. Len(e)
    BY <1>7, <1>10
  <2>2. /\ bcde \in Seq(Int) /\ Len(bcde) = Len(bcd) + Len(e)
        /\ \A i \in 1 .. Len(bcd) : bcde[i] = bcd[i]
        /\ \A i \in 1 .. Len(e) : bcde[Len(bcd) + i] = e[i]
    BY <1>7, <1>13, CatFacts, Zenon
  <2>. HIDE DEF bcde
  <2>. QED
    BY <2>1, <2>2, <1>7, <1>13
<1>. HIDE DEF bcde
<1>15. /\ a \o bcde \in Seq(Int) /\ Len(a \o bcde) = 1 + (((1 + n) + l) + t)
       /\ (a \o bcde)[1] = flagByte(v)
       /\ \A i \in 1 .. ((1 + n) + l) + t : (a \o bcde)[1 + i] = bcde[i]
  <2>. DEFINE h == a \o bcde
  <2>1. /\ h \in Seq(Int) /\ Len(h) = Len(a) + Len(bcde)
        /\ \A i \in 1 .. Len(a) : h[i] = a[i]
        /\ \A i \in 1 .. Len(bcde) : h[Len(a) + i] = bcde[i]
    BY <1>4, <1>14, CatFacts, Zenon
  <2>. HIDE DEF h
  <2>2. /\ h \in Seq(Int) /\ Len(h) = 1 + (((1 + n) + l) + t) /\ h[1] = flagByte(v)
        /\ \A i \in 1 .. ((1 + n) + l) + t : h[1 + i] = bcde[i]
    BY <2>1, <1>4, <1>14
  <2>. QED
    BY <2>2 DEF h
<1>16. a \o <<>> \in Seq(Int) /\ Len(a \o <<>>) = 1 /\ (a \o <<>>)[1] = flagByte(v)
  BY <1>4
<1>17. CASE ~flags(v)
  BY <1>8, <1>16, <1>17
<1>18. CASE flags(v)
  <2>. DEFINE h == a \o bcde
  <2>1. descriptor(v) = h
    BY <1>8, <1>18
  <2>. HIDE DEF h
  <2>2. h \in Seq(Int) /\ Len(h) = 2 + n + l + t /\ h[1] = flagByte(v)
    BY <1>1, <1>2, <1>15 DEF h, l, t
  <2>3. l \in 0 .. 1 /\ t \in 0 .. 1
    BY <1>1 DEF l, t
  <2>4. \A i \in 1 .. 1 + n : h[1 + i] = bc[i]
    <3>1. ASSUME NEW i \in 1 .. 1 + n PROVE h[1 + i] = bc[i]
      <4>1. i \in 1 .. ((1 + n) + l) + t /\ i \in 1 .. (1 + n) + l
        BY <2>3, <1>2
      <4>. QED
        BY <4>1, <1>13, <1>14, <1>15, Zenon DEF h
    <3>. QED
      BY <3>1
  <2>5. h[2] = fieldsByte(v)
    BY <2>4, <1>2, <1>12
  <2>6. \A i \in 1 .. n : h[2 + i] = c[i]
    <3>1. ASSUME NEW i \in 1 .. n PROVE h[2 + i] = c[i]
      <4>1. 1 + i \in 1 .. 1 + n /\ 1 + (1 + i) = 2 + i
        BY <1>2
      <4>. QED
        BY <4>1, <2>4, <1>12
    <3>. QED
      BY <3>1
  <2>7. v.L.is => h[3 + n] = v.L.val
    <3>1. v.L.is => l = 1 /\ (1 + n) + 1 \in 1 .. (1 + n) + l
      BY <2>3, <1>2, <1>9
    <3>2. 1 + ((1 + n) + 1) = 3 + n /\ (1 + n) + 1 \in Int
      BY <1>2
    <3>3. v.L.is => (1 + n) + 1 \in 1 .. ((1 + n) + l) + t
      BY <3>1, <2>3, <1>2
    <3>. QED
      BY <3>1, <3>2, <3>3, <1>13, <1>14, <1>15 DEF h
  <2>8. v.T.is \/ v.K.is => h[3 + n + l] = 32 * v.T.val + v.K.val
    <3>1. v.T.is \/ v.K.is => ((1 + n) + l) + 1 \in 1 .. ((1 + n) + l) + t
      BY <2>3, <1>2, <1>10
    <3>2. 1 + (((1 + n) + l) + 1) = 3 + n + l
      BY <2>3, <1>2
    <3>. QED
      BY <3>1, <3>2, <1>14, <1>15 DEF h
  <2>9. /\ v.I.is /\ v.M => h[3] = 128 + (v.I.val \div 256) /\ h[4] = v.I.val % 256
        /\ v.I.is /\ ~v.M => h[3] = v.I.val
    BY <2>6, <1>11
  <2>10. 3 + n + l - 1 + t = 2 + n + l + t
    BY <2>3, <1>2
  <2>. QED
    BY <2>1, <2>2, <2>3, <2>5, <2>7, <2>8, <2>9, <2>10, <1>2, <1>18 DEF n, l, t
<1>. QED
  BY <1>17, <1>18

\* The flags that Unmarshal finds in the bytes of a descriptor.
LEMMA FlagByteBits ==
    ASSUME NEW v \in VP8
    PROVE  /\ bit(flagByte(v), 128) <=> flags(v)
           /\ bit(flagByte(v), 16) <=> v.S
           /\ bit(fieldsByte(v), 128) <=> v.I.is
           /\ bit(fieldsByte(v), 64) <=> v.L.is
           /\ bit(fieldsByte(v), 32) <=> v.T.is
           /\ bit(fieldsByte(v), 16) <=> v.K.is
<1>1. /\ num(flags(v)) \in 0 .. 1 /\ num(v.S) \in 0 .. 1 /\ num(v.I.is) \in 0 .. 1
      /\ num(v.L.is) \in 0 .. 1 /\ num(v.T.is) \in 0 .. 1 /\ num(v.K.is) \in 0 .. 1
  BY DEF num
<1>2. /\ num(flags(v)) = 1 <=> flags(v)
      /\ num(v.S) = 1 <=> v.S
      /\ num(v.I.is) = 1 <=> v.I.is
      /\ num(v.L.is) = 1 <=> v.L.is
      /\ num(v.T.is) = 1 <=> v.T.is
      /\ num(v.K.is) = 1 <=> v.K.is
  BY DEF num
<1>. DEFINE f == num(flags(v))
            s == num(v.S)
            i == num(v.I.is)
            l == num(v.L.is)
            t == num(v.T.is)
            k == num(v.K.is)
            x == 128 * f + 64 * 0 + 32 * 0 + 16 * s
            y == 128 * i + 64 * l + 32 * t + 16 * k
<1>3. f \in 0 .. 1 /\ s \in 0 .. 1 /\ i \in 0 .. 1 /\ l \in 0 .. 1 /\ t \in 0 .. 1 /\ k \in 0 .. 1
  BY <1>1
<1>4. y = fieldsByte(v)
  BY DEF fieldsByte
<1>5. flagByte(v) = 128 * f + 16 * s
  BY DEF flagByte
<1>. HIDE DEF f, s, i, l, t, k
<1>6. x = flagByte(v)
  BY <1>3, <1>5
<1>7. (x \div 128) % 2 = f /\ (x \div 16) % 2 = s
  BY <1>3, FlagBits
<1>8. (y \div 128) % 2 = i /\ (y \div 64) % 2 = l /\ (y \div 32) % 2 = t /\ (y \div 16) % 2 = k
  BY <1>3, FlagBits
<1>. HIDE DEF x, y
<1>9. /\ (flagByte(v) \div 128) % 2 = f /\ (flagByte(v) \div 16) % 2 = s
      /\ (fieldsByte(v) \div 128) % 2 = i /\ (fieldsByte(v) \div 64) % 2 = l
      /\ (fieldsByte(v) \div 32) % 2 = t /\ (fieldsByte(v) \div 16) % 2 = k
  BY <1>4, <1>6, <1>7, <1>8, Zenon
<1>. QED
  BY <1>2, <1>9, ZenonT(40) DEF bit, f, s, i, l, t, k

\* The whole payload of a descriptor with one byte of video x.
LEMMA PayloadBytes ==
    ASSUME NEW v \in VP8, NEW x \in Int
    PROVE  LET h == descriptor(v)
               p == Append(h, x)
           IN  /\ p \in Seq(Int) /\ Len(p) = Len(h) + 1 /\ p[Len(h) + 1] = x
               /\ Len(h) \in Nat /\ Len(h) >= 1
               /\ \A i \in 1 .. Len(h) : p[i] = h[i]
<1>. DEFINE h == descriptor(v)
<1>1. h \in Seq(Int) /\ Len(h) >= 1
  BY HeaderFacts
<1>. HIDE DEF h
<1>2. LET p == Append(h, x)
      IN  /\ p \in Seq(Int) /\ Len(p) = Len(h) + 1 /\ p[Len(h) + 1] = x
          /\ Len(h) \in Nat /\ Len(h) >= 1
          /\ \A i \in 1 .. Len(h) : p[i] = h[i]
  BY <1>1
<1>. QED
  BY <1>2 DEF h

\* Unmarshal refuses a payload that is cut short, and reads a whole one back.
LEMMA UnmarshalFacts ==
    ASSUME NEW v \in VP8, NEW x \in 0 .. 1, NEW q, NEW n \in 0 .. Len(descriptor(v)) + 1,
           Len(q) = n, \A i \in 1 .. n : q[i] = Append(descriptor(v), x)[i]
    PROVE  /\ n <= Len(descriptor(v)) => Unmarshal(q) = Err
           /\ n = Len(descriptor(v)) + 1 =>
                Unmarshal(q) = [ok |-> TRUE, v |-> v, HeaderSize |-> Len(descriptor(v)),
                                IsKeyFrame |-> v.S /\ x = 0]
<1>. DEFINE h == descriptor(v)
            X == bit(q[1], 128)
            I == X /\ bit(q[2], 128)
            L == X /\ bit(q[2], 64)
            T == X /\ bit(q[2], 32)
            K == X /\ bit(q[2], 16)
            M == I /\ bit(q[3], 128)
            tl0 == 3 + num(I) + num(M)
            tid == tl0 + num(L)
            video == IF X THEN tid + num(T \/ K) ELSE 2
            field(is, val) == IF is THEN [is |-> TRUE, val |-> val] ELSE Absent
            read == [ok |-> TRUE,
                     v |-> [S |-> bit(q[1], 16), M |-> M,
                            I |-> field(I, IF M THEN 256 * bits(q[3], 1, 128) + q[4] ELSE q[3]),
                            L |-> field(L, q[tl0]),
                            T |-> field(T, bits(q[tid], 32, 8)),
                            K |-> field(K, bits(q[tid], 1, 32))],
                     HeaderSize |-> video - 1,
                     IsKeyFrame |-> bit(q[1], 16) /\ ~bit(q[video], 1)]
            short == \/ Len(q) < 1 \/ (X /\ Len(q) < 2) \/ (L /\ ~T) \/ (I /\ Len(q) < 3)
                     \/ Len(q) < video
<1>1. (short => Unmarshal(q) = Err) /\ (~short => Unmarshal(q) = read)
  BY ZenonT(40) DEF Unmarshal
<1>2. /\ h \in Seq(Int) /\ Len(h) >= 1 /\ h[1] = flagByte(v)
      /\ ~flags(v) => Len(h) = 1
      /\ flags(v) =>
           /\ Len(h) = (3 + idLength(v) + num(v.L.is)) - 1 + num(v.T.is \/ v.K.is)
           /\ h[2] = fieldsByte(v)
           /\ v.I.is /\ v.M => /\ h[3] = 128 + (v.I.val \div 256)
                               /\ h[4] = v.I.val % 256
           /\ v.I.is /\ ~v.M => h[3] = v.I.val
           /\ v.L.is => h[3 + idLength(v)] = v.L.val
           /\ v.T.is \/ v.K.is => h[3 + idLength(v) + num(v.L.is)] = 32 * v.T.val + v.K.val
  BY HeaderFacts, Zenon
<1>3. /\ \A i \in 1 .. n : i <= Len(h) => q[i] = h[i]
      /\ n = Len(h) + 1 => q[Len(h) + 1] = x
      /\ Len(h) \in Nat /\ n \in 0 .. Len(h) + 1
  <2>1. x \in Int
    OBVIOUS
  <2>2. /\ Len(h) \in Nat /\ Append(h, x)[Len(h) + 1] = x
        /\ \A i \in 1 .. Len(h) : Append(h, x)[i] = h[i]
    BY <2>1, PayloadBytes
  <2>3. n \in 0 .. Len(h) + 1 /\ \A i \in 1 .. n : q[i] = Append(h, x)[i]
    OBVIOUS
  <2>. HIDE DEF h
  <2>. QED
    BY <2>2, <2>3
<1>. HIDE DEF h
<1>4. n >= 1 => (X <=> flags(v)) /\ (bit(q[1], 16) <=> v.S)
  <2>. SUFFICES ASSUME n >= 1 PROVE (X <=> flags(v)) /\ (bit(q[1], 16) <=> v.S)
    OBVIOUS
  <2>1. q[1] = flagByte(v)
    BY <1>2, <1>3
  <2>2. (bit(flagByte(v), 128) <=> flags(v)) /\ (bit(flagByte(v), 16) <=> v.S)
    BY FlagByteBits, Zenon
  <2>. QED
    BY <2>1, <2>2, ZenonT(40)
<1>5. ~flags(v) => ~v.I.is /\ ~v.M /\ ~v.L.is /\ ~v.T.is /\ ~v.K.is
  BY FlagFacts, Zenon
<1>6. n >= 1 /\ (flags(v) => n >= 2) =>
        (I <=> v.I.is) /\ (L <=> v.L.is) /\ (T <=> v.T.is) /\ (K <=> v.K.is)
  <2>1. CASE flags(v) /\ n >= 2
    <3>1. q[2] = fieldsByte(v)
      <4>1. Len(h) >= 2
        <5>1. /\ num(v.I.is) \in Nat /\ num(v.M) \in Nat /\ num(v.L.is) \in Nat
              /\ num(v.T.is \/ v.K.is) \in Nat
          BY DEF num
        <5>. QED
          BY <5>1, <2>1, <1>2, SMTT(30) DEF idLength
      <4>. QED
        BY <4>1, <2>1, <1>2, <1>3
    <3>2. X
      BY <2>1, <1>4
    <3>3. /\ bit(fieldsByte(v), 128) <=> v.I.is
          /\ bit(fieldsByte(v), 64) <=> v.L.is
          /\ bit(fieldsByte(v), 32) <=> v.T.is
          /\ bit(fieldsByte(v), 16) <=> v.K.is
      BY FlagByteBits, Zenon
    <3>4. /\ bit(q[2], 128) <=> v.I.is
          /\ bit(q[2], 64) <=> v.L.is
          /\ bit(q[2], 32) <=> v.T.is
          /\ bit(q[2], 16) <=> v.K.is
      BY <3>1, <3>3
    <3>. HIDE DEF X
    <3>. QED
      BY <3>2, <3>4, Zenon
  <2>2. CASE ~flags(v) /\ n >= 1
    BY <2>2, <1>4, <1>5, Zenon
  <2>. QED
    BY <2>1, <2>2
<1>. HIDE DEF X, I, L, T, K
<1>7. n >= 3 /\ (flags(v) => n >= 2) => (M <=> v.M)
  <2>. SUFFICES ASSUME n >= 3 PROVE M <=> v.M
    OBVIOUS
  <2>1. I <=> v.I.is
    BY <1>6
  <2>2. v.M => v.I.is
    BY FlagFacts
  <2>3. CASE v.I.is
    <3>1. flags(v) /\ Len(h) >= 3
      <4>1. flags(v)
        BY <2>3, FlagFacts
      <4>2. /\ num(v.I.is) = 1 /\ num(v.M) \in Nat /\ num(v.L.is) \in Nat
            /\ num(v.T.is \/ v.K.is) \in Nat
        BY <2>3 DEF num
      <4>. QED
        BY <4>1, <4>2, <1>2 DEF idLength
    <3>2. q[3] = h[3]
      BY <3>1, <1>3
    <3>3. CASE v.M
      <4>1. q[3] = 128 + (v.I.val \div 256)
        BY <3>1, <3>2, <3>3, <2>3, <1>2
      <4>2. v.I.val \in 0 .. MaxPictureID
        BY DescriptorValues, Zenon
      <4>3. ((128 + (v.I.val \div 256)) \div 128) % 2 = 1
        BY <4>2, PictureIDBytes, SMTT(30)
      <4>. QED
        BY <4>1, <4>3, <3>3, <2>1, <2>3, Zenon DEF bit
    <3>4. CASE ~v.M
      <4>1. q[3] = v.I.val
        BY <3>1, <3>2, <3>4, <2>3, <1>2
      <4>2. v.I.val \in 0 .. 127
        BY <3>4, DescriptorValues
      <4>3. (v.I.val \div 128) % 2 = 0
        BY <4>2, PictureIDBytes, ZenonT(40)
      <4>4. ~bit(v.I.val, 128)
        BY <4>3 DEF bit
      <4>. QED
        BY <4>1, <4>4, <3>4, Zenon
    <3>. QED
      BY <3>3, <3>4
  <2>4. CASE ~v.I.is
    BY <2>1, <2>2, <2>4, Zenon
  <2>. QED
    BY <2>3, <2>4
<1>. HIDE DEF M
<1>8. ASSUME n >= 1, flags(v) => n >= 2, v.I.is => n >= 3
      PROVE  /\ M <=> v.M
             /\ tl0 = 3 + idLength(v)
             /\ tid = 3 + idLength(v) + num(v.L.is)
             /\ video = Len(h) + 1
             /\ ~(L /\ ~T)
  <2>1. (I <=> v.I.is) /\ (L <=> v.L.is) /\ (T <=> v.T.is) /\ (K <=> v.K.is) /\ (X <=> flags(v))
    BY <1>4, <1>6, <1>8
  <2>2. M <=> v.M
    <3>1. CASE v.I.is
      BY <3>1, <1>7, <1>8
    <3>2. CASE ~v.I.is
      <4>1. ~v.M
        BY <3>2, FlagFacts
      <4>2. ~M
        BY <3>2, <2>1 DEF M
      <4>. QED
        BY <4>1, <4>2
    <3>. QED
      BY <3>1, <3>2
  <2>3. tl0 = 3 + idLength(v)
    BY <2>1, <2>2 DEF idLength, num
  <2>4. num(L) = num(v.L.is) /\ num(T \/ K) = num(v.T.is \/ v.K.is)
    BY <2>1 DEF num
  <2>5. idLength(v) \in Nat /\ num(v.L.is) \in Nat /\ num(v.T.is \/ v.K.is) \in Nat
    BY DEF idLength, num
  <2>6. tid = 3 + idLength(v) + num(v.L.is)
    BY <2>3, <2>4
  <2>7. video = Len(h) + 1
    <3>1. CASE flags(v)
      <4>1. video = tid + num(T \/ K)
        <5>1. X
          BY <3>1, <2>1, Zenon
        <5>. QED
          BY <5>1, Zenon
      <4>2. /\ flags(v) /\ tid = 3 + idLength(v) + num(v.L.is)
            /\ num(T \/ K) = num(v.T.is \/ v.K.is)
        BY <3>1, <2>4, <2>6
      <4>3. Len(h) = (3 + idLength(v) + num(v.L.is)) - 1 + num(v.T.is \/ v.K.is)
        BY <3>1, <1>2
      <4>. HIDE DEF video, tid
      <4>. QED
        BY <4>1, <4>2, <4>3, <2>5, SMTT(30)
    <3>2. CASE ~flags(v)
      <4>1. video = 2
        <5>1. ~X
          BY <3>2, <2>1, Zenon
        <5>. QED
          BY <5>1, Zenon
      <4>2. Len(h) = 1
        BY <3>2, <1>2
      <4>. HIDE DEF video
      <4>. QED
        BY <4>1, <4>2
    <3>. QED
      BY <3>1, <3>2
  <2>8. ~(L /\ ~T)
    BY <2>1, FlagFacts, Zenon
  <2>. QED
    BY <2>2, <2>3, <2>6, <2>7, <2>8
<1>. HIDE DEF tl0, tid, video
<1>9. ASSUME n <= Len(h) PROVE short
  <2>1. CASE n < 1
    BY <2>1
  <2>2. CASE n = 1 /\ flags(v)
    BY <2>2, <1>4
  <2>3. CASE n = 2 /\ v.I.is
    <3>1. I
      BY <2>3, <1>6
    <3>. QED
      BY <2>3, <3>1
  <2>4. CASE n >= 1 /\ (flags(v) => n >= 2) /\ (v.I.is => n >= 3)
    <3>1. video = Len(h) + 1
      BY <2>4, <1>8
    <3>. QED
      BY <3>1, <1>3, <1>9
  <2>5. v.I.is => flags(v)
    BY FlagFacts
  <2>. QED
    BY <2>1, <2>2, <2>3, <2>4, <2>5, <1>3
<1>10. ASSUME n = Len(h) + 1
       PROVE  /\ ~short
              /\ read = [ok |-> TRUE, v |-> v, HeaderSize |-> Len(h), IsKeyFrame |-> v.S /\ x = 0]
  <2>1. idLength(v) \in Nat /\ num(v.L.is) \in Nat /\ num(v.T.is \/ v.K.is) \in Nat
    BY DEF idLength, num
  <2>2. flags(v) => n >= 3
    BY <2>1, <1>2, <1>10
  <2>3. v.I.is => flags(v) /\ n >= 3
    BY <2>2, FlagFacts
  <2>4. n >= 2
    BY <1>2, <1>3, <1>10
  <2>5. /\ M <=> v.M
        /\ tl0 = 3 + idLength(v)
        /\ tid = 3 + idLength(v) + num(v.L.is)
        /\ video = Len(h) + 1
        /\ ~(L /\ ~T)
    BY <2>2, <2>3, <2>4, <1>8
  <2>6. (I <=> v.I.is) /\ (L <=> v.L.is) /\ (T <=> v.T.is) /\ (K <=> v.K.is) /\ (X <=> flags(v))
    BY <2>2, <2>4, <1>4, <1>6
  <2>7. ~short
    BY <2>2, <2>3, <2>4, <2>5, <2>6, <1>3, <1>10
  <2>8. field(I, IF M THEN 256 * bits(q[3], 1, 128) + q[4] ELSE q[3]) = v.I
    <3>1. CASE v.I.is
      <4>1. flags(v) /\ Len(h) >= 3 /\ (v.M => Len(h) >= 4)
        <5>1. flags(v)
          BY <3>1, FlagFacts
        <5>2. num(v.I.is) = 1 /\ (v.M => num(v.M) = 1) /\ num(v.M) \in Nat
          BY <3>1 DEF num
        <5>3. Len(h) = (3 + idLength(v) + num(v.L.is)) - 1 + num(v.T.is \/ v.K.is)
          BY <5>1, <1>2
        <5>4. idLength(v) >= 1 /\ (v.M => idLength(v) >= 2)
          BY <5>2 DEF idLength
        <5>. QED
          BY <5>1, <5>3, <5>4, <2>1
      <4>2. (IF M THEN 256 * bits(q[3], 1, 128) + q[4] ELSE q[3]) = v.I.val
        <5>1. CASE v.M
          <6>1. q[3] = 128 + (v.I.val \div 256) /\ q[4] = v.I.val % 256
            BY <5>1, <4>1, <3>1, <1>2, <1>3, <1>10
          <6>2. v.I.val \in 0 .. MaxPictureID
            BY DescriptorValues, Zenon
          <6>3. 256 * (((128 + (v.I.val \div 256)) \div 1) % 128) + (v.I.val % 256) = v.I.val
            BY <6>2, PictureIDBytes, ZenonT(40)
          <6>4. 256 * bits(q[3], 1, 128) + q[4] = v.I.val
            BY <6>1, <6>3, ZenonT(40) DEF bits
          <6>5. M
            BY <5>1, <2>5, Zenon
          <6>. QED
            BY <6>4, <6>5, Zenon
        <5>2. CASE ~v.M
          <6>1. q[3] = v.I.val
            BY <5>2, <4>1, <3>1, <1>2, <1>3, <1>10
          <6>2. ~M
            BY <5>2, <2>5, Zenon
          <6>. QED
            BY <6>1, <6>2, Zenon
        <5>. QED
          BY <5>1, <5>2
      <4>3. v.I = [is |-> TRUE, val |-> v.I.val]
        BY <3>1, FieldForms, Zenon
      <4>4. I
        BY <3>1, <2>6, Zenon
      <4>. QED
        BY <4>2, <4>3, <4>4, Zenon
    <3>2. CASE ~v.I.is
      <4>1. v.I = Absent
        BY <3>2, FieldForms, Zenon
      <4>2. ~I
        BY <3>2, <2>6, Zenon
      <4>. QED
        BY <4>1, <4>2, Zenon
    <3>. QED
      BY <3>1, <3>2
  <2>9. field(L, q[tl0]) = v.L
    <3>1. CASE v.L.is
      <4>1. flags(v) /\ 3 + idLength(v) <= Len(h) /\ 3 + idLength(v) \in Nat
        <5>1. flags(v) /\ v.T.is
          BY <3>1, FlagFacts
        <5>2. num(v.L.is) = 1
          BY <3>1 DEF num
        <5>. QED
          BY <5>1, <5>2, <2>1, <1>2, SMTT(30)
      <4>2. q[tl0] = v.L.val
        <5>1. h[3 + idLength(v)] = v.L.val
          BY <4>1, <3>1, <1>2
        <5>2. 3 + idLength(v) \in 1 .. n
          <6>1. Len(h) \in Nat /\ n = Len(h) + 1
            BY <1>3, <1>10
          <6>2. idLength(v) \in Nat
            BY <2>1
          <6>. QED
            BY <6>1, <6>2, <4>1
        <5>. QED
          BY <5>1, <5>2, <4>1, <2>5, <1>3
      <4>3. v.L = [is |-> TRUE, val |-> v.L.val]
        BY <3>1, FieldForms, Zenon
      <4>4. L
        BY <3>1, <2>6, Zenon
      <4>. QED
        BY <4>2, <4>3, <4>4, Zenon
    <3>2. CASE ~v.L.is
      <4>1. v.L = Absent
        BY <3>2, FieldForms, Zenon
      <4>2. ~L
        BY <3>2, <2>6, Zenon
      <4>. QED
        BY <4>1, <4>2, Zenon
    <3>. QED
      BY <3>1, <3>2
  <2>10. v.T.is \/ v.K.is => bits(q[tid], 32, 8) = v.T.val /\ bits(q[tid], 1, 32) = v.K.val
    <3>. SUFFICES ASSUME v.T.is \/ v.K.is
                  PROVE  bits(q[tid], 32, 8) = v.T.val /\ bits(q[tid], 1, 32) = v.K.val
      OBVIOUS
    <3>1. flags(v) /\ num(v.T.is \/ v.K.is) = 1
      BY FlagFacts DEF num
    <3>2. tid = Len(h) /\ h[tid] = 32 * v.T.val + v.K.val
      BY <3>1, <2>1, <2>5, <1>2
    <3>3. q[tid] = 32 * v.T.val + v.K.val
      BY <3>2, <1>2, <1>3, <1>10
    <3>4. v.T.val \in 0 .. 7 /\ v.K.val \in 0 .. 31
      BY DescriptorValues, ZenonT(40)
    <3>5. /\ ((32 * v.T.val + v.K.val) \div 32) % 8 = v.T.val
          /\ ((32 * v.T.val + v.K.val) \div 1) % 32 = v.K.val
      <4>. DEFINE t == v.T.val
                  k == v.K.val
      <4>1. t \in 0 .. 7 /\ k \in 0 .. 31
        BY <3>4
      <4>. HIDE DEF t, k
      <4>2. ((32 * t + k) \div 32) % 8 = t /\ ((32 * t + k) \div 1) % 32 = k
        BY <4>1, SharedByte
      <4>. QED
        BY <4>2 DEF t, k
    <3>. QED
      BY <3>3, <3>5, Zenon DEF bits
  <2>11. field(T, bits(q[tid], 32, 8)) = v.T
    <3>1. CASE v.T.is
      <4>1. v.T = [is |-> TRUE, val |-> v.T.val]
        BY <3>1, FieldForms, Zenon
      <4>2. T /\ bits(q[tid], 32, 8) = v.T.val
        BY <3>1, <2>6, <2>10, Zenon
      <4>. QED
        BY <4>1, <4>2, Zenon
    <3>2. CASE ~v.T.is
      <4>1. v.T = Absent
        BY <3>2, FieldForms, Zenon
      <4>2. ~T
        BY <3>2, <2>6, Zenon
      <4>. QED
        BY <4>1, <4>2, Zenon
    <3>. QED
      BY <3>1, <3>2
  <2>12. field(K, bits(q[tid], 1, 32)) = v.K
    <3>1. CASE v.K.is
      <4>1. v.K = [is |-> TRUE, val |-> v.K.val]
        BY <3>1, FieldForms, Zenon
      <4>2. K /\ bits(q[tid], 1, 32) = v.K.val
        BY <3>1, <2>6, <2>10, Zenon
      <4>. QED
        BY <4>1, <4>2, Zenon
    <3>2. CASE ~v.K.is
      <4>1. v.K = Absent
        BY <3>2, FieldForms, Zenon
      <4>2. ~K
        BY <3>2, <2>6, Zenon
      <4>. QED
        BY <4>1, <4>2, Zenon
    <3>. QED
      BY <3>1, <3>2
  <2>13. bit(q[1], 16) = v.S /\ M = v.M
    <3>1. (bit(q[1], 16) <=> v.S) /\ bit(q[1], 16) \in BOOLEAN
      BY <2>4, <1>4 DEF bit
    <3>2. (M <=> v.M) /\ M \in BOOLEAN
      BY <2>5, Zenon DEF M, bit
    <3>3. v.S \in BOOLEAN /\ v.M \in BOOLEAN
      BY FlagFacts, Zenon
    <3>. QED
      BY <3>1, <3>2, <3>3, Zenon
  <2>14. (~bit(q[video], 1)) = (x = 0)
    <3>1. q[video] = x
      BY <2>5, <1>3, <1>10
    <3>2. x = 0 \/ x = 1
      OBVIOUS
    <3>3. (x \div 1) % 2 = x
      BY <3>2, Z3
    <3>4. (~bit(x, 1)) = (x = 0)
      BY <3>2, <3>3 DEF bit
    <3>. QED
      BY <3>1, <3>4, Zenon
  <2>15. v = [S |-> v.S, I |-> v.I, M |-> v.M, L |-> v.L, T |-> v.T, K |-> v.K]
    BY DescriptorFacts, Zenon
  <2>16. video - 1 = Len(h)
    BY <2>5, <1>3
  <2>. DEFINE fI == field(I, IF M THEN 256 * bits(q[3], 1, 128) + q[4] ELSE q[3])
              fL == field(L, q[tl0])
              fT == field(T, bits(q[tid], 32, 8))
              fK == field(K, bits(q[tid], 1, 32))
              s16 == bit(q[1], 16)
              key == bit(q[1], 16) /\ ~bit(q[video], 1)
              size == video - 1
  <2>17. read = [ok |-> TRUE, v |-> [S |-> s16, M |-> M, I |-> fI, L |-> fL, T |-> fT, K |-> fK],
                 HeaderSize |-> size, IsKeyFrame |-> key]
    OBVIOUS
  <2>18. key = (v.S /\ x = 0)
    BY <2>13, <2>14, Zenon
  <2>19. fI = v.I /\ fL = v.L /\ fT = v.T /\ fK = v.K /\ s16 = v.S /\ M = v.M /\ size = Len(h)
    BY <2>8, <2>9, <2>11, <2>12, <2>13, <2>16, Zenon
  <2>. HIDE DEF field, video, short, fI, fL, fT, fK, s16, key, size, read
  <2>20. read = [ok |-> TRUE,
                 v |-> [S |-> v.S, M |-> v.M, I |-> v.I, L |-> v.L, T |-> v.T, K |-> v.K],
                 HeaderSize |-> Len(h), IsKeyFrame |-> v.S /\ x = 0]
    BY <2>17, <2>18, <2>19, Zenon
  <2>21. [S |-> v.S, M |-> v.M, I |-> v.I, L |-> v.L, T |-> v.T, K |-> v.K] = v
    BY <2>15
  <2>. QED
    BY <2>7, <2>20, <2>21, Zenon
<1>. QED
  BY <1>1, <1>9, <1>10, ZenonT(40) DEF h

\* What is read of a payload that is cut short to n bytes, and of the whole payload.
LEMMA CutBytes ==
    ASSUME NEW p \in Seq(Int), NEW n \in 0 .. Len(p)
    PROVE  Len(cut(p, n)) = n /\ \A i \in 1 .. n : cut(p, n)[i] = p[i]
BY DEF cut

\* No descriptor is longer than MaxHeader.
LEMMA MarshalFacts ==
    ASSUME NEW v \in VP8
    PROVE  MarshalTo(v, MaxHeader).buf = descriptor(v)
<1>1. Len(descriptor(v)) \in Nat /\ Len(descriptor(v)) <= 6
  <2>1. /\ num(v.I.is) \in 0 .. 1 /\ num(v.M) \in 0 .. 1 /\ num(v.L.is) \in 0 .. 1
        /\ num(v.T.is \/ v.K.is) \in 0 .. 1
    BY DEF num
  <2>2. idLength(v) \in 0 .. 2
    BY <2>1 DEF idLength
  <2>3. /\ Len(descriptor(v)) >= 1 /\ descriptor(v) \in Seq(Int)
        /\ ~flags(v) => Len(descriptor(v)) = 1
        /\ flags(v) => LET tid == 3 + idLength(v) + num(v.L.is)
                       IN  Len(descriptor(v)) = tid - 1 + num(v.T.is \/ v.K.is)
    BY HeaderFacts, Zenon
  <2>. DEFINE h == descriptor(v)
              i == idLength(v)
              l == num(v.L.is)
              t == num(v.T.is \/ v.K.is)
  <2>4. Len(h) \in Nat
    BY <2>3
  <2>. HIDE DEF h, i, l, t
  <2>5. l \in 0 .. 1 /\ t \in 0 .. 1 /\ i \in 0 .. 2
    BY <2>1, <2>2 DEF l, t, i
  <2>6. CASE flags(v)
    <3>1. LET tid == 3 + i + l IN Len(h) = tid - 1 + t
      BY <2>3, <2>6, Zenon DEF h, i, l, t
    <3>. QED
      BY <2>4, <2>5, <3>1 DEF h
  <2>7. CASE ~flags(v)
    <3>1. Len(h) = 1
      BY <2>3, <2>7, Zenon DEF h
    <3>. QED
      BY <3>1 DEF h
  <2>. QED
    BY <2>6, <2>7
<1>2. ~(MaxHeader < Len(descriptor(v)))
  BY <1>1 DEF MaxHeader
<1>. QED
  BY <1>2, Zenon DEF MarshalTo

\* A VP8 payload is read as it was written, and no part of it is read as more.
LEMMA VP8FrameRead ==
    ASSUME frame \in VP8Frames
    PROVE  VP8RoundTrip
<1>. DEFINE v == frame.v
            h == descriptor(v)
            x == num(frame.inter)
            p == Append(h, x)
<1>1. frame.mime = "vp8" /\ v \in VP8 /\ frame.inter \in BOOLEAN
  BY DEF VP8Frames
<1>2. x \in 0 .. 1 /\ x \in Int /\ ((x = 0) = ~frame.inter)
  BY <1>1 DEF num
<1>3. /\ p \in Seq(Int) /\ Len(p) = Len(h) + 1
      /\ Len(h) \in Nat /\ Len(h) >= 1
  <2>. HIDE DEF v, x
  <2>. QED
    BY <1>1, <1>2, PayloadBytes
<1>4. Unmarshal(p) = [ok |-> TRUE, v |-> v, HeaderSize |-> Len(h),
                      IsKeyFrame |-> v.S /\ ~frame.inter]
  <2>1. Unmarshal(p) = [ok |-> TRUE, v |-> v, HeaderSize |-> Len(h), IsKeyFrame |-> v.S /\ x = 0]
    <3>1. Len(h) + 1 \in 0 .. Len(h) + 1
      BY <1>3
    <3>2. \A i \in 1 .. Len(h) + 1 : p[i] = p[i]
      OBVIOUS
    <3>. HIDE DEF v, x
    <3>. QED
      BY <1>1, <1>2, <1>3, <3>1, <3>2, UnmarshalFacts, ZenonT(40)
  <2>2. (v.S /\ x = 0) = (v.S /\ ~frame.inter)
    BY <1>2, Zenon
  <2>. QED
    BY <2>1, <2>2, Zenon
<1>5. ASSUME NEW n \in 0 .. Len(h) PROVE ~Unmarshal(cut(p, n)).ok
  <2>. HIDE DEF v, x, p
  <2>1. n \in 0 .. Len(p) /\ n \in 0 .. Len(h) + 1 /\ n <= Len(h)
    BY <1>3
  <2>2. Len(cut(p, n)) = n /\ \A i \in 1 .. n : cut(p, n)[i] = p[i]
    BY <1>3, <2>1, CutBytes
  <2>3. Unmarshal(cut(p, n)) = Err
    BY <1>1, <1>2, <2>1, <2>2, UnmarshalFacts DEF p
  <2>. QED
    BY <2>3 DEF Err
<1>6. isKey(p) = (v.S /\ ~frame.inter)
  <2>1. p # <<>>
    BY <1>3
  <2>2. Unmarshal(p).ok /\ Unmarshal(p).IsKeyFrame = (v.S /\ ~frame.inter)
    BY <1>4
  <2>. HIDE DEF p, v
  <2>3. getExtPacket("vp8", p) = [ok |-> TRUE, Temporal |-> 0, KeyFrame |-> Unmarshal(p).IsKeyFrame]
    <3>1. (CASE "vp8" = "vp8" -> Unmarshal(p).IsKeyFrame
             [] "vp8" = "h264" -> IsH264Keyframe(p)
             [] "vp8" = "av1" -> IsAV1Keyframe(p)) = Unmarshal(p).IsKeyFrame
      OBVIOUS
    <3>. QED
      BY <2>1, <2>2, <3>1, Zenon DEF getExtPacket
  <2>4. getExtPacket("vp8", p).ok = TRUE
           /\ getExtPacket("vp8", p).KeyFrame = (v.S /\ ~frame.inter)
    BY <2>2, <2>3
  <2>. QED
    BY <1>1, <2>4, Zenon DEF isKey
<1>. QED
  <2>1. MarshalTo(v, MaxHeader).buf = h
    <3>. HIDE DEF v
    <3>. QED
      BY <1>1, MarshalFacts
  <2>. QED
    BY <1>4, <1>5, <1>6, <2>1, Zenon DEF VP8RoundTrip

VP8Typed == frame.mime = "vp8" => frame \in VP8Frames

\* Whatever descriptor MarshalTo writes for a VP8 packet, for every set of picture
\* identifiers of 15 bits, Unmarshal reads the same one back with the size of its header
\* and the key-frame flag, and a payload cut short before its first byte of video is refused.
THEOREM VP8IsReadBack == PayloadSpec => []VP8RoundTrip
<1>1. PayloadInit => VP8Typed
  BY DEF PayloadInit, VP8Typed, H264Frames, AV1Frames
<1>2. VP8Typed /\ [AddUnit]_frame => VP8Typed'
  <2>. SUFFICES ASSUME VP8Typed, [AddUnit]_frame, frame'.mime = "vp8"
                PROVE  frame' \in VP8Frames
    BY DEF VP8Typed
  <2>1. CASE AddUnit
    <3>1. frame.mime = "av1" \/ frame.mime = "h264"
      BY <2>1, Zenon DEF AddUnit
    <3>2. frame'.mime = frame.mime
      <4>1. PICK u : frame' = [frame EXCEPT !.units = Append(@, u)]
        BY <2>1, Zenon DEF AddUnit
      <4>. QED
        BY <4>1
    <3>. QED
      BY <3>1, <3>2
  <2>2. CASE UNCHANGED frame
    BY <2>2, Zenon DEF VP8Typed
  <2>. QED
    BY <2>1, <2>2
<1>3. VP8Typed => VP8RoundTrip
  BY VP8FrameRead, Zenon DEF VP8Typed, VP8RoundTrip
<1>. QED
  BY <1>1, <1>2, <1>3, PTL DEF PayloadSpec

-----------------------------------------------------------------------------
(* Loops over payloads, and units one after another.                       *)

\* A loop that goes on from i to next[i] while going[i] holds, and that says yes where found[i]
\* does: it has a result at each of its positions, whatever its order.
IsLoop(f, D, going, found, next) == f = [i \in D |-> going[i] /\ (found[i] \/ f[next[i]])]
Stays(D, going, found, next) == \A i \in D : going[i] /\ ~found[i] => next[i] \in D

\* The function of such a loop exists, being the least set of positions where it says yes: the
\* positions need not be in any order for it.
LEMMA LoopExists ==
    ASSUME NEW D, NEW going, NEW found, NEW next, Stays(D, going, found, next)
    PROVE  \E f : IsLoop(f, D, going, found, next)
<1>0. \A i \in D : going[i] /\ ~found[i] => next[i] \in D
  BY Zenon DEF Stays
<1>. DEFINE Steps(S, i) == going[i] /\ (found[i] \/ next[i] \in S)
            Closed == {S \in SUBSET D : \A i \in D : Steps(S, i) => i \in S}
            Yes == {i \in D : \A S \in Closed : i \in S}
            f == [i \in D |-> i \in Yes]
<1>1. ASSUME NEW i \in D, Steps(Yes, i) PROVE i \in Yes
  <2>1. ASSUME NEW S \in Closed PROVE i \in S
    <3>1. Steps(S, i)
      BY <1>1, <2>1
    <3>. QED
      BY <3>1, <2>1
  <2>. QED
    BY <2>1
<1>2. ASSUME NEW i \in Yes, ~Steps(Yes, i) PROVE FALSE
  <2>. DEFINE T == Yes \ {i}
  <2>1. ASSUME NEW j \in D, Steps(T, j) PROVE j \in T
    <3>1. Steps(Yes, j)
      BY <2>1
    <3>2. j \in Yes /\ j # i
      BY <3>1, <1>1, <1>2, Zenon
    <3>. QED
      BY <3>2
  <2>2. T \in Closed
    <3>1. T \in SUBSET D
      OBVIOUS
    <3>. HIDE DEF T
    <3>. QED
      BY <2>1, <3>1, Zenon
  <2>3. i \in T
    BY <2>2, <1>2, Zenon
  <2>. QED
    BY <2>3
<1>3. ASSUME NEW i \in D PROVE f[i] = (going[i] /\ (found[i] \/ f[next[i]]))
  <2>1. (i \in Yes) = Steps(Yes, i)
    <3>. HIDE DEF Yes
    <3>1. i \in Yes => Steps(Yes, i)
      <4>. HIDE DEF Steps
      <4>. QED
        BY <1>2, Zenon
    <3>2. Steps(Yes, i) => i \in Yes
      <4>. HIDE DEF Steps
      <4>. QED
        BY <1>1, Zenon
    <3>. HIDE DEF Steps
    <3>3. (i \in Yes) \in BOOLEAN
      OBVIOUS
    <3>4. Steps(Yes, i) \in BOOLEAN
      BY DEF Steps
    <3>. QED
      BY <3>1, <3>2, <3>3, <3>4
  <2>2. f[i] = (i \in Yes)
    OBVIOUS
  <2>3. going[i] /\ ~found[i] => f[next[i]] = (next[i] \in Yes)
    <3>1. going[i] /\ ~found[i] => next[i] \in D
      BY <1>0
    <3>. QED
      BY <3>1
  <2>. HIDE DEF f, Yes
  <2>. QED
    BY <2>1, <2>2, <2>3, Zenon
<1>4. f = [i \in D |-> going[i] /\ (found[i] \/ f[next[i]])]
  <2>1. f = [i \in D |-> f[i]]
    OBVIOUS
  <2>. HIDE DEF f
  <2>. QED
    BY <2>1, <1>3, Zenon
<1>. HIDE DEF f
<1>. QED
  BY <1>4, Zenon DEF IsLoop

\* The bytes of a unit that no parser reads.
LEMMA ZerosFacts ==
    ASSUME NEW n \in Nat
    PROVE  zeros(n) \in Seq(Nat) /\ Len(zeros(n)) = n
BY DEF zeros

\* The concatenation of bytes.
LEMMA ByteCat ==
    ASSUME NEW s \in Seq(Nat), NEW t \in Seq(Nat)
    PROVE  /\ s \o t \in Seq(Nat) /\ Len(s \o t) = Len(s) + Len(t)
           /\ \A i \in 1 .. Len(s) : (s \o t)[i] = s[i]
           /\ \A i \in 1 .. Len(t) : (s \o t)[Len(s) + i] = t[i]
OBVIOUS

\* The function by which FlattenSeq joins the members of g, one after the other.
Joins(f, g, m) == f = [i \in 1 .. m |-> IF i = 1 THEN g[i] ELSE f[i - 1] \o g[i]]

\* That function exists, for any number of members.
LEMMA JoinsExists ==
    ASSUME NEW n \in Nat, NEW g
    PROVE  \E f : Joins(f, g, n + 1)
<1>. DEFINE S == {m \in Nat : \E f : Joins(f, g, m)}
<1>1. 1 \in S
  <2>. DEFINE f == [i \in 1 .. 1 |-> g[i]]
  <2>1. f = [i \in 1 .. 1 |-> IF i = 1 THEN g[i] ELSE f[i - 1] \o g[i]]
    OBVIOUS
  <2>. HIDE DEF f
  <2>2. Joins(f, g, 1)
    BY <2>1 DEF Joins
  <2>. QED
    BY <2>2
<1>2. ASSUME NEW m \in 1 .. n, m \in S PROVE m + 1 \in S
  <2>1. PICK h : Joins(h, g, m)
    BY <1>2
  <2>. DEFINE f == [i \in 1 .. m + 1 |-> IF i = m + 1 THEN h[m] \o g[m + 1] ELSE h[i]]
  <2>2. ASSUME NEW i \in 1 .. m + 1 PROVE f[i] = IF i = 1 THEN g[i] ELSE f[i - 1] \o g[i]
    <3>1. CASE i = m + 1
      <4>1. m \in 1 .. m + 1 /\ m # m + 1 /\ i # 1 /\ i - 1 = m
        BY <3>1
      <4>2. f[i] = h[m] \o g[m + 1]
        BY <3>1, Zenon
      <4>3. f[m] = h[m]
        BY <4>1, Zenon
      <4>. HIDE DEF f
      <4>. QED
        BY <4>1, <4>2, <4>3, <3>1, Zenon
    <3>2. CASE i # m + 1
      <4>1. i \in 1 .. m /\ (i # 1 => i - 1 \in 1 .. m)
        BY <3>2
      <4>2. h[i] = IF i = 1 THEN g[i] ELSE h[i - 1] \o g[i]
        BY <4>1, <2>1 DEF Joins
      <4>3. f[i] = h[i] /\ (i # 1 => f[i - 1] = h[i - 1])
        BY <4>1, <3>2
      <4>. HIDE DEF f
      <4>. QED
        BY <4>2, <4>3, Zenon
    <3>. QED
      BY <3>1, <3>2
  <2>3. f = [i \in 1 .. m + 1 |-> f[i]]
    OBVIOUS
  <2>. HIDE DEF f
  <2>4. Joins(f, g, m + 1)
    BY <2>2, <2>3, Zenon DEF Joins
  <2>5. m + 1 \in Nat
    OBVIOUS
  <2>. QED
    BY <2>4, <2>5, Zenon
<1>3. n + 1 \in S
  <2>1. n + 1 \in 1 .. n + 1
    OBVIOUS
  <2>. HIDE DEF S
  <2>. QED
    BY <1>1, <1>2, <2>1, CountUp
<1>. QED
  BY <1>3, Zenon

\* FlattenSeq is that function at the last member.
LEMMA FlattenFacts ==
    ASSUME NEW n \in Nat, NEW g \in [1 .. n + 1 -> Seq(Nat)]
    PROVE  \E f : Joins(f, g, n + 1) /\ FlattenSeq(g) = f[n + 1]
<1>. DEFINE f == CHOOSE h : Joins(h, g, n + 1)
<1>1. Joins(f, g, n + 1)
  BY JoinsExists, Zenon
<1>2. Len(g) = n + 1 /\ n + 1 # 0
  OBVIOUS
<1>3. f = CHOOSE h : h = [i \in 1 .. n + 1 |-> IF i = 1 THEN g[i] ELSE h[i - 1] \o g[i]]
  BY Zenon DEF Joins
<1>4. FlattenSeq(g) = (CHOOSE h : h = [i \in 1 .. n + 1 |-> IF i = 1 THEN g[i]
                                                          ELSE h[i - 1] \o g[i]])[n + 1]
  BY <1>2, Zenon DEF FlattenSeq
<1>5. FlattenSeq(g) = f[n + 1]
  BY <1>3, <1>4, Zenon
<1>. QED
  BY <1>1, <1>5, Zenon

\* Where the members of g are in their concatenation: the k-th begins after the first at[k]
\* bytes.
Places(g, m, all, at) ==
    /\ at \in [1 .. m + 1 -> Nat] /\ at[1] = 0 /\ at[m + 1] = Len(all)
    /\ \A k \in 1 .. m : /\ at[k + 1] = at[k] + Len(g[k]) /\ at[k + 1] <= Len(all)
                         /\ \A i \in 1 .. Len(g[k]) : all[at[k] + i] = g[k][i]

\* Members that are joined lie one after the other.
LEMMA PlacesExist ==
    ASSUME NEW n \in Nat, NEW g \in [1 .. n + 1 -> Seq(Nat)]
    PROVE  FlattenSeq(g) \in Seq(Nat) /\ \E at : Places(g, n + 1, FlattenSeq(g), at)
<1>1. PICK f : Joins(f, g, n + 1) /\ FlattenSeq(g) = f[n + 1]
  BY FlattenFacts, Zenon
<1>2. \A k \in 1 .. n + 1 : f[k] = IF k = 1 THEN g[k] ELSE f[k - 1] \o g[k]
  BY <1>1 DEF Joins
<1>3. \A k \in 1 .. n + 1 : g[k] \in Seq(Nat)
  OBVIOUS
<1>. DEFINE Prefix(s, t) == Len(s) <= Len(t) /\ \A i \in 1 .. Len(s) : t[i] = s[i]
            S == {m \in Nat : \A k \in 1 .. m : f[k] \in Seq(Nat) /\ Prefix(f[k], f[m])}
<1>4. 1 \in S
  <2>1. f[1] = g[1] /\ g[1] \in Seq(Nat)
    BY <1>2, <1>3
  <2>2. Prefix(f[1], f[1])
    BY <2>1
  <2>. HIDE DEF Prefix
  <2>3. \A k \in 1 .. 1 : f[k] \in Seq(Nat) /\ Prefix(f[k], f[1])
    BY <2>1, <2>2
  <2>. QED
    BY <2>3
<1>5. ASSUME NEW m \in 1 .. n, m \in S PROVE m + 1 \in S
  <2>1. f[m + 1] = f[m] \o g[m + 1] /\ g[m + 1] \in Seq(Nat)
    <3>1. m + 1 \in 1 .. n + 1 /\ m + 1 # 1 /\ (m + 1) - 1 = m
      OBVIOUS
    <3>. QED
      BY <3>1, <1>2, <1>3
  <2>2. \A k \in 1 .. m : f[k] \in Seq(Nat) /\ Prefix(f[k], f[m])
    BY <1>5, Zenon
  <2>3. f[m] \in Seq(Nat)
    <3>1. m \in 1 .. m
      OBVIOUS
    <3>. QED
      BY <2>2, <3>1, Zenon
  <2>4. f[m + 1] \in Seq(Nat) /\ Prefix(f[m], f[m + 1])
    <3>. DEFINE s == f[m]
                t == g[m + 1]
    <3>1. s \in Seq(Nat) /\ t \in Seq(Nat) /\ f[m + 1] = s \o t
      BY <2>1, <2>3, Zenon
    <3>. HIDE DEF s, t
    <3>2. s \o t \in Seq(Nat) /\ Prefix(s, s \o t)
      BY <3>1, ByteCat
    <3>. QED
      BY <3>1, <3>2, Zenon DEF s
  <2>5. ASSUME NEW k \in 1 .. m + 1 PROVE f[k] \in Seq(Nat) /\ Prefix(f[k], f[m + 1])
    <3>1. CASE k = m + 1
      <4>1. Prefix(f[m + 1], f[m + 1])
        BY <2>4
      <4>. HIDE DEF Prefix
      <4>. QED
        BY <3>1, <4>1, <2>4, Zenon
    <3>2. CASE k \in 1 .. m
      <4>. DEFINE s == f[k]
                  t == f[m]
                  u == f[m + 1]
      <4>1. s \in Seq(Nat) /\ t \in Seq(Nat) /\ u \in Seq(Nat) /\ Prefix(s, t) /\ Prefix(t, u)
        BY <3>2, <2>2, <2>3, <2>4, Zenon
      <4>. HIDE DEF s, t, u
      <4>2. Prefix(s, u)
        BY <4>1
      <4>. QED
        BY <4>1, <4>2, Zenon DEF s, u
    <3>. QED
      BY <3>1, <3>2
  <2>6. m + 1 \in Nat
    OBVIOUS
  <2>. HIDE DEF Prefix
  <2>. QED
    BY <2>5, <2>6, Zenon
<1>6. \A k \in 1 .. n + 1 : k \in S
  <2>. HIDE DEF S
  <2>. QED
    BY <1>4, <1>5, CountUp
<1>. DEFINE all == f[n + 1]
            at == [k \in 1 .. (n + 1) + 1 |-> IF k = 1 THEN 0 ELSE Len(f[k - 1])]
<1>7. \A k \in 1 .. n + 1 : f[k] \in Seq(Nat) /\ Prefix(f[k], all)
  <2>1. n + 1 \in 1 .. n + 1
    OBVIOUS
  <2>. HIDE DEF Prefix
  <2>. QED
    BY <1>6, <2>1, Zenon
<1>8. all \in Seq(Nat)
  <2>1. n + 1 \in 1 .. n + 1
    OBVIOUS
  <2>. HIDE DEF Prefix
  <2>. QED
    BY <1>7, <2>1, Zenon
<1>9. at \in [1 .. (n + 1) + 1 -> Nat] /\ at[1] = 0 /\ at[(n + 1) + 1] = Len(all)
  <2>1. ASSUME NEW k \in 1 .. (n + 1) + 1 PROVE (IF k = 1 THEN 0 ELSE Len(f[k - 1])) \in Nat
    <3>1. CASE k = 1
      BY <3>1
    <3>2. CASE k # 1
      <4>1. k - 1 \in 1 .. n + 1
        BY <3>2
      <4>2. f[k - 1] \in Seq(Nat)
        BY <4>1, <1>7
      <4>. QED
        BY <3>2, <4>2
    <3>. QED
      BY <3>1, <3>2
  <2>2. (n + 1) + 1 \in 1 .. (n + 1) + 1 /\ (n + 1) + 1 # 1 /\ ((n + 1) + 1) - 1 = n + 1
    OBVIOUS
  <2>3. 1 \in 1 .. (n + 1) + 1
    OBVIOUS
  <2>4. at \in [1 .. (n + 1) + 1 -> Nat]
    BY <2>1, Zenon
  <2>. QED
    BY <2>2, <2>3, <2>4, Zenon
<1>10. ASSUME NEW k \in 1 .. n + 1
       PROVE  /\ at[k + 1] = at[k] + Len(g[k]) /\ at[k + 1] <= Len(all)
              /\ \A i \in 1 .. Len(g[k]) : all[at[k] + i] = g[k][i]
  <2>. DEFINE t == g[k]
              u == f[k]
  <2>1. t \in Seq(Nat) /\ u \in Seq(Nat) /\ Prefix(u, all)
    BY <1>3, <1>7
  <2>2. at[k + 1] = Len(u)
    <3>1. k + 1 \in 1 .. (n + 1) + 1 /\ k + 1 # 1 /\ (k + 1) - 1 = k
      OBVIOUS
    <3>. QED
      BY <3>1, Zenon
  <2>5. at[k + 1] <= Len(all)
    BY <2>1, <2>2, Zenon
  <2>3. CASE k = 1
    <3>1. u = t /\ at[k] = 0
      BY <2>3, <1>2, <1>9
    <3>. HIDE DEF t, u, all, at
    <3>2. /\ at[k + 1] = at[k] + Len(t)
          /\ \A i \in 1 .. Len(t) : all[at[k] + i] = t[i]
      BY <3>1, <2>1, <2>2
    <3>. QED
      BY <3>2, <2>5 DEF t
  <2>4. CASE k # 1
    <3>. DEFINE s == f[k - 1]
    <3>1. k - 1 \in 1 .. n + 1 /\ k \in 1 .. (n + 1) + 1
      BY <2>4
    <3>2. u = s \o t /\ s \in Seq(Nat) /\ at[k] = Len(s)
      BY <2>4, <1>2, <1>7, <3>1, Zenon
    <3>. HIDE DEF s, t, u, all, at
    <3>3. Len(u) = Len(s) + Len(t) /\ \A i \in 1 .. Len(t) : u[Len(s) + i] = t[i]
      BY <3>2, <2>1, ByteCat
    <3>4. Len(s) \in Nat /\ Len(t) \in Nat
      BY <3>2, <2>1
    <3>5. \A i \in 1 .. Len(t) : Len(s) + i \in 1 .. Len(u)
      BY <3>3, <3>4
    <3>6. /\ at[k + 1] = at[k] + Len(t)
          /\ \A i \in 1 .. Len(t) : all[at[k] + i] = t[i]
      BY <3>2, <3>3, <3>5, <2>1, <2>2
    <3>. QED
      BY <3>6, <2>5 DEF t
  <2>. QED
    BY <2>3, <2>4
<1>. HIDE DEF all, at
<1>11. Places(g, n + 1, all, at)
  BY <1>9, <1>10, Zenon DEF Places
<1>. QED
  BY <1>1, <1>8, <1>11, Zenon DEF all

\* What is left of a payload p that is cut short.
CutOf(q, p) == q \in Seq(Nat) /\ Len(q) <= Len(p) /\ \A i \in 1 .. Len(q) : q[i] = p[i]

\* Cutting a payload short leaves its first bytes.
LEMMA CutFacts ==
    ASSUME NEW p \in Seq(Nat), NEW n \in 0 .. Len(p)
    PROVE  CutOf(cut(p, n), p) /\ Len(cut(p, n)) = n
<1>1. cut(p, n) \in Seq(Nat) /\ Len(cut(p, n)) = n /\ \A i \in 1 .. n : cut(p, n)[i] = p[i]
  BY SMTT(30) DEF cut
<1>. HIDE DEF cut
<1>. QED
  BY <1>1 DEF CutOf

\* A parser finds no key frame where there is none, in what is left of a payload p.
NoneElse(yes(_), p, key) ==
    /\ p \in Seq(Nat) /\ Len(p) >= 1
    /\ \A q : CutOf(q, p) /\ Len(q) >= 1 => (yes(q) => key)

\* ... and finds one in the whole payload.
Finds(yes(_), p, key) == NoneElse(yes, p, key) /\ (key => yes(p))

\* The two bytes of the length of an H264 unit.
LEMMA NaluLength ==
    ASSUME NEW n \in Nat
    PROVE  n \div 256 \in Nat /\ n % 256 \in Nat /\ 256 * (n \div 256) + (n % 256) = n
BY Z3

\* The fields of an H264 unit.
LEMMA NaluFields ==
    ASSUME NEW u \in Nalus
    PROVE  u.rest \in Nat /\ u.type \in 1 .. 23 /\ u.type \in Nat /\ u.type % 32 = u.type
<1>1. u \in [type : 1 .. 23, rest : 0 .. MaxNalu]
  BY PayloadsConstants, Zenon
<1>2. u.type \in 1 .. 23 /\ u.rest \in 0 .. MaxNalu
  BY <1>1, Zenon
<1>4. MaxNalu \in Nat
  BY DEF MaxNalu
<1>3. u.rest \in Nat
  BY <1>2, <1>4
<1>. QED
  BY <1>2, <1>3

-----------------------------------------------------------------------------
(* H264.                                                                   *)

\* Where the units of each kind of aggregate begin, and the offset in front of each.
LEMMA OffsetFacts ==
    ASSUME NEW nalu \in Aggregates
    PROVE  /\ offset(nalu) \in 0 .. 4
           /\ firstUnit(nalu) = 2 + 2 * num(numbered(nalu)) /\ firstUnit(nalu) \in {2, 4}
           /\ nalu \in 24 .. 27 /\ nalu % 32 = nalu
BY DEF Aggregates, offset, firstUnit, numbered, num

\* A whole unit ends in the payload.
LEMMA UnitFacts ==
    ASSUME NEW q \in Seq(Nat), NEW nalu \in Aggregates, NEW i \in 1 .. Len(q) + 3,
           i + 1 <= Len(q)
    PROVE  /\ unitAt(q, i, nalu).whole <=> /\ i + 1 + (256 * q[i] + q[i + 1]) <= Len(q)
                                           /\ offset(nalu) < 256 * q[i] + q[i + 1]
           /\ unitAt(q, i, nalu).next = i + 2 + (256 * q[i] + q[i + 1])
           /\ unitAt(q, i, nalu).whole => unitAt(q, i, nalu).next \in 1 .. Len(q) + 3
<1>1. q[i] \in Nat /\ q[i + 1] \in Nat /\ Len(q) \in Nat
  OBVIOUS
<1>. DEFINE length == 256 * q[i] + q[i + 1]
<1>2. length \in Nat
  BY <1>1
<1>. HIDE DEF length
<1>3. unitAt(q, i, nalu) = [whole |-> i + 1 + length <= Len(q) /\ offset(nalu) < length,
                            next |-> i + 2 + length]
  BY Zenon DEF unitAt, length
<1>4. /\ unitAt(q, i, nalu).whole <=> i + 1 + length <= Len(q) /\ offset(nalu) < length
      /\ unitAt(q, i, nalu).next = i + 2 + length
  <2>. DEFINE W == i + 1 + length <= Len(q) /\ offset(nalu) < length
              x == i + 2 + length
  <2>1. unitAt(q, i, nalu) = [whole |-> W, next |-> x]
    BY <1>3
  <2>. HIDE DEF W, x
  <2>2. unitAt(q, i, nalu).whole = W /\ unitAt(q, i, nalu).next = x
    BY <2>1
  <2>. QED
    BY <2>2, Zenon DEF W, x
<1>5. i + 1 + length <= Len(q) => i + 2 + length \in 1 .. Len(q) + 3
  BY <1>1, <1>2
<1>. QED
  BY <1>4, <1>5 DEF length

\* The loop of IsH264Keyframe does one unit and goes on after it.
LEMMA SpsLoop ==
    ASSUME NEW q \in Seq(Nat), NEW nalu \in Aggregates, NEW i \in 1 .. Len(q) + 3
    PROVE  spsFrom(q, nalu)[i] <=>
               /\ i + 1 <= Len(q) /\ unitAt(q, i, nalu).whole
               /\ \/ q[i + 2 + offset(nalu)] % 32 = SPS
                  \/ spsFrom(q, nalu)[unitAt(q, i, nalu).next]
<1>. DEFINE D == 1 .. Len(q) + 3
            Going(j) == j + 1 <= Len(q) /\ unitAt(q, j, nalu).whole
            Found(j) == q[j + 2 + offset(nalu)] % 32 = SPS
            After(j) == unitAt(q, j, nalu).next
            going == [j \in D |-> Going(j)]
            found == [j \in D |-> Found(j)]
            next == [j \in D |-> After(j)]
            Sps(f) == f = [j \in D |-> /\ j + 1 <= Len(q) /\ unitAt(q, j, nalu).whole
                                       /\ Found(j) \/ f[After(j)]]
<1>1. Stays(D, going, found, next)
  <2>. SUFFICES ASSUME NEW j \in D PROVE going[j] /\ ~found[j] => next[j] \in D
    BY Zenon DEF Stays
  <2>1. Going(j) => After(j) \in D
    BY UnitFacts
  <2>. QED
    BY <2>1, Zenon
<1>2. PICK f : IsLoop(f, D, going, found, next)
  <2>. HIDE DEF D, going, found, next
  <2>. QED
    BY <1>1, LoopExists, Zenon
<1>3. Sps(f)
  <2>1. \A j \in D : f[j] = (going[j] /\ (found[j] \/ f[next[j]]))
    BY <1>2, Zenon DEF IsLoop
  <2>2. \A j \in D : (going[j] /\ (found[j] \/ f[next[j]]))
                        = (/\ j + 1 <= Len(q) /\ unitAt(q, j, nalu).whole
                           /\ Found(j) \/ f[After(j)])
    BY Zenon
  <2>. QED
    BY <1>2, <2>2, Zenon DEF IsLoop
<1>4. spsFrom(q, nalu) = CHOOSE h : Sps(h)
  BY Zenon DEF spsFrom
<1>5. Sps(spsFrom(q, nalu))
  <2>. HIDE DEF Sps
  <2>. QED
    BY <1>3, <1>4, Zenon
<1>. QED
  BY <1>5, Zenon

\* The bytes of one unit of an aggregate.
LEMMA NaluBytes ==
    ASSUME NEW nalu \in Aggregates, NEW u \in Nalus
    PROVE  LET b == naluBytes(nalu, u)
           IN  /\ b \in Seq(Nat) /\ Len(b) = offset(nalu) + 3 + u.rest
               /\ 256 * b[1] + b[2] = 1 + u.rest /\ b[3 + offset(nalu)] = u.type
<1>1. offset(nalu) \in Nat /\ u.rest \in Nat /\ u.type \in Nat
  BY OffsetFacts, NaluFields
<1>. DEFINE off == offset(nalu)
            rest == u.rest
            hi == (1 + rest) \div 256
            lo == (1 + rest) % 256
            head == <<hi, lo>>
            ab == head \o zeros(off)
            abc == ab \o <<u.type>>
            all == abc \o zeros(rest)
<1>2. naluBytes(nalu, u) = all
  BY Zenon DEF naluBytes
<1>3. zeros(off) \in Seq(Nat) /\ Len(zeros(off)) = off
  BY <1>1, ZerosFacts
<1>4. zeros(rest) \in Seq(Nat) /\ Len(zeros(rest)) = rest
  BY <1>1, ZerosFacts
<1>9. hi \in Nat /\ lo \in Nat /\ 256 * hi + lo = 1 + rest
  <2>1. 1 + rest \in Nat
    BY <1>1
  <2>. QED
    BY <2>1, NaluLength
<1>. HIDE DEF hi, lo
<1>5. /\ head \in Seq(Nat) /\ Len(head) = 2 /\ head[1] = hi /\ head[2] = lo
      /\ <<u.type>> \in Seq(Nat) /\ Len(<<u.type>>) = 1 /\ <<u.type>>[1] = u.type
  BY <1>1, <1>9
<1>. HIDE DEF off, rest, head
<1>6. ab \in Seq(Nat) /\ Len(ab) = 2 + off /\ ab[1] = hi /\ ab[2] = lo
  <2>1. /\ ab \in Seq(Nat) /\ Len(ab) = Len(head) + Len(zeros(off))
        /\ \A i \in 1 .. Len(head) : ab[i] = head[i]
        /\ \A i \in 1 .. Len(zeros(off)) : ab[Len(head) + i] = zeros(off)[i]
    BY <1>3, <1>5, ByteCat, Zenon
  <2>. HIDE DEF ab
  <2>. QED
    BY <2>1, <1>3, <1>5
<1>. HIDE DEF ab
<1>7. /\ abc \in Seq(Nat) /\ Len(abc) = 3 + off
      /\ abc[1] = hi /\ abc[2] = lo /\ abc[3 + off] = u.type
  <2>1. off \in Nat
    BY <1>1 DEF off
  <2>. DEFINE c == <<u.type>>
  <2>2. c \in Seq(Nat) /\ Len(c) = 1 /\ c[1] = u.type
    BY <1>5
  <2>. HIDE DEF c
  <2>. DEFINE t == ab \o c
  <2>3. /\ t \in Seq(Nat) /\ Len(t) = Len(ab) + Len(c)
        /\ \A i \in 1 .. Len(ab) : t[i] = ab[i]
        /\ \A i \in 1 .. Len(c) : t[Len(ab) + i] = c[i]
    BY <1>6, <2>2, ByteCat, Zenon
  <2>. HIDE DEF t
  <2>4. t \in Seq(Nat) /\ Len(t) = 3 + off /\ t[1] = ab[1] /\ t[2] = ab[2] /\ t[3 + off] = c[1]
    <3>1. 1 \in 1 .. Len(ab) /\ 2 \in 1 .. Len(ab) /\ 1 \in 1 .. Len(c) /\ Len(ab) + 1 = 3 + off
      BY <1>6, <2>1, <2>2
    <3>2. t[Len(ab) + 1] = c[1]
      BY <3>1, <2>3, Zenon
    <3>. QED
      BY <1>6, <2>1, <2>2, <2>3, <3>1, <3>2
  <2>5. abc = t
    BY Zenon DEF abc, t, c
  <2>. QED
    BY <2>2, <2>4, <2>5, <1>6, Zenon
<1>. HIDE DEF abc
<1>8. /\ all \in Seq(Nat) /\ Len(all) = off + 3 + rest
      /\ all[1] = hi /\ all[2] = lo /\ all[3 + off] = u.type
  <2>1. off \in Nat /\ rest \in Nat
    BY <1>1 DEF off, rest
  <2>2. /\ all \in Seq(Nat) /\ Len(all) = Len(abc) + Len(zeros(rest))
        /\ \A i \in 1 .. Len(abc) : all[i] = abc[i]
        /\ \A i \in 1 .. Len(zeros(rest)) : all[Len(abc) + i] = zeros(rest)[i]
    BY <1>4, <1>7, ByteCat, Zenon
  <2>. HIDE DEF all
  <2>3. 1 \in 1 .. Len(abc) /\ 2 \in 1 .. Len(abc) /\ 3 + off \in 1 .. Len(abc)
    BY <1>7, <2>1
  <2>. QED
    BY <1>4, <1>7, <2>1, <2>2, <2>3
<1>. HIDE DEF all
<1>. QED
  BY <1>2, <1>8, <1>9, Zenon DEF off, rest

\* Where the units of an aggregate are in its payload p.
UnitsAt(p, f, pos) ==
    LET n == Len(f.units)
    IN  /\ p \in Seq(Nat) /\ Len(p) >= 1 /\ p[1] = f.pack
        /\ pos \in [1 .. n + 1 -> Nat]
        /\ pos[1] = firstUnit(f.pack) /\ pos[n + 1] = Len(p) + 1
        /\ \A k \in 1 .. n :
             /\ pos[k] >= 1 /\ pos[k + 1] <= Len(p) + 1
             /\ pos[k + 1] = pos[k] + (offset(f.pack) + 3 + f.units[k].rest)
             /\ 256 * p[pos[k]] + p[pos[k] + 1] = 1 + f.units[k].rest
             /\ p[pos[k] + 2 + offset(f.pack)] = f.units[k].type

\* The units of an aggregate have positions in its payload.
LEMMA AggregateBytes ==
    ASSUME NEW f, f.pack \in Aggregates, f.units \in Seq(Nalus), Len(f.units) >= 1
    PROVE  \E pos : UnitsAt(packH264(f), f, pos)
<1>. DEFINE nalu == f.pack
            off == offset(nalu)
            n == Len(f.units)
            units == f.units
            g == [k \in 1 .. n |-> naluBytes(nalu, units[k])]
            all == FlattenSeq(g)
            don == zeros(2 * num(numbered(nalu)))
            head == <<nalu>> \o don
            c == Len(head)
            p == head \o all
<1>1. nalu \in Nat /\ off \in Nat /\ firstUnit(nalu) = 2 + 2 * num(numbered(nalu))
      /\ 2 * num(numbered(nalu)) \in Nat
  BY OffsetFacts DEF num
<1>2. packH264(f) = p
  <2>1. nalu # 0 /\ nalu \notin {28, 29} /\ nalu \in Aggregates
    BY OffsetFacts
  <2>2. DOMAIN f.units = 1 .. n
    OBVIOUS
  <2>. QED
    BY <2>1, <2>2, Zenon DEF packH264
<1>3. head \in Seq(Nat) /\ c = firstUnit(nalu) - 1 /\ head[1] = nalu /\ c \in Nat /\ c >= 1
  <2>1. don \in Seq(Nat) /\ Len(don) = 2 * num(numbered(nalu))
    BY <1>1, ZerosFacts
  <2>2. <<nalu>> \in Seq(Nat) /\ Len(<<nalu>>) = 1 /\ <<nalu>>[1] = nalu
    BY <1>1
  <2>. DEFINE a == <<nalu>>
  <2>3. a \in Seq(Nat) /\ Len(a) = 1 /\ a[1] = nalu
    BY <2>2
  <2>. HIDE DEF nalu, don, a
  <2>. DEFINE t == a \o don
  <2>4. /\ t \in Seq(Nat) /\ Len(t) = Len(a) + Len(don)
        /\ \A i \in 1 .. Len(a) : t[i] = a[i]
        /\ \A i \in 1 .. Len(don) : t[Len(a) + i] = don[i]
    BY <2>1, <2>3, ByteCat, Zenon
  <2>5. head = t
    BY Zenon DEF a
  <2>. HIDE DEF t, head
  <2>6. t \in Seq(Nat) /\ Len(t) = 1 + Len(don) /\ t[1] = nalu
    <3>1. 1 \in 1 .. Len(a)
      BY <2>3
    <3>. QED
      BY <2>3, <2>4, <3>1
  <2>. QED
    BY <1>1, <2>1, <2>5, <2>6
<1>4. ASSUME NEW k \in 1 .. n
      PROVE  /\ units[k] \in Nalus /\ units[k].rest \in Nat
             /\ g[k] \in Seq(Nat) /\ Len(g[k]) = off + 3 + units[k].rest
             /\ 256 * g[k][1] + g[k][2] = 1 + units[k].rest
             /\ g[k][3 + off] = units[k].type
  <2>1. units[k] \in Nalus
    OBVIOUS
  <2>2. units[k].rest \in Nat
    BY <2>1, NaluFields
  <2>3. g[k] = naluBytes(nalu, units[k])
    BY Zenon
  <2>. HIDE DEF g, units, n, nalu
  <2>4. nalu \in Aggregates
    BY DEF nalu
  <2>. QED
    BY <2>1, <2>2, <2>3, <2>4, NaluBytes, SMTT(30)
<1>5. PICK m \in Nat : n = m + 1
  <2>1. n - 1 \in Nat /\ n = (n - 1) + 1
    OBVIOUS
  <2>. QED
    BY <2>1
<1>6. g \in [1 .. m + 1 -> Seq(Nat)]
  <2>1. g \in [1 .. n -> Seq(Nat)]
    <3>1. \A k \in 1 .. n : naluBytes(nalu, units[k]) \in Seq(Nat)
      BY <1>4
    <3>. QED
      BY <3>1, Zenon
  <2>. QED
    BY <2>1, <1>5, Zenon
<1>. HIDE DEF g, head, nalu, off, units, n, don
<1>7. all \in Seq(Nat) /\ \E at : Places(g, n, all, at)
  BY <1>5, <1>6, PlacesExist
<1>. HIDE DEF all
<1>8. PICK at : Places(g, n, all, at)
  BY <1>7, Zenon
<1>9. /\ p \in Seq(Nat) /\ Len(p) = c + Len(all) /\ p[1] = nalu
      /\ \A i \in 1 .. Len(all) : p[c + i] = all[i]
  <2>1. /\ p \in Seq(Nat) /\ Len(p) = Len(head) + Len(all)
        /\ \A i \in 1 .. Len(head) : p[i] = head[i]
        /\ \A i \in 1 .. Len(all) : p[Len(head) + i] = all[i]
    BY <1>3, <1>7, ByteCat, Zenon
  <2>. HIDE DEF p
  <2>2. 1 \in 1 .. Len(head)
    BY <1>3
  <2>. QED
    BY <1>3, <2>1, <2>2
<1>. DEFINE pos == [k \in 1 .. n + 1 |-> c + at[k] + 1]
<1>. HIDE DEF c, p
<1>10. n \in Nat /\ n >= 1
  BY <1>5
<1>11. /\ at \in [1 .. n + 1 -> Nat] /\ at[1] = 0 /\ at[n + 1] = Len(all)
       /\ \A k \in 1 .. n : /\ at[k] \in Nat /\ at[k + 1] = at[k] + Len(g[k])
                            /\ at[k + 1] <= Len(all)
                            /\ \A i \in 1 .. Len(g[k]) : all[at[k] + i] = g[k][i]
  BY <1>8, <1>10 DEF Places
<1>12. /\ pos \in [1 .. n + 1 -> Nat] /\ pos[1] = firstUnit(nalu) /\ pos[n + 1] = Len(p) + 1
       /\ Len(p) >= 1
  <2>1. firstUnit(nalu) \in Nat /\ Len(all) \in Nat
    BY <1>1, <1>7
  <2>2. \A k \in 1 .. n + 1 : at[k] \in Nat
    BY <1>11
  <2>3. c \in Nat /\ c = firstUnit(nalu) - 1 /\ c >= 1
    BY <1>3
  <2>4. \A k \in 1 .. n + 1 : c + at[k] + 1 \in Nat
    BY <2>2, <2>3
  <2>5. pos \in [1 .. n + 1 -> Nat]
    BY <2>4, Zenon
  <2>6. 1 \in 1 .. n + 1 /\ n + 1 \in 1 .. n + 1
    BY <1>10
  <2>7. pos[1] = c + at[1] + 1 /\ pos[n + 1] = c + at[n + 1] + 1
    BY <2>6, Zenon
  <2>8. at[1] = 0 /\ at[n + 1] = Len(all) /\ Len(p) = c + Len(all)
    BY <1>9, <1>11, Zenon
  <2>. HIDE DEF pos
  <2>. QED
    BY <2>1, <2>3, <2>5, <2>7, <2>8, SMTT(30)
<1>14. c \in Nat /\ off \in Nat
  BY <1>1, <1>3, Zenon
<1>13. ASSUME NEW k \in 1 .. n
       PROVE  /\ pos[k] >= 1 /\ pos[k + 1] <= Len(p) + 1
              /\ pos[k + 1] = pos[k] + (off + 3 + units[k].rest)
              /\ 256 * p[pos[k]] + p[pos[k] + 1] = 1 + units[k].rest
              /\ p[pos[k] + 2 + off] = units[k].type
  <2>. DEFINE b == g[k]
              r == units[k].rest
              a == at[k]
  <2>1. b \in Seq(Nat) /\ Len(b) = off + 3 + r /\ 256 * b[1] + b[2] = 1 + r
        /\ b[3 + off] = units[k].type /\ r \in Nat
    BY <1>4
  <2>2. a \in Nat /\ at[k + 1] = a + Len(b) /\ at[k + 1] <= Len(all)
        /\ \A i \in 1 .. Len(b) : all[a + i] = b[i]
    BY <1>11
  <2>3. pos[k] = c + a + 1 /\ pos[k + 1] = c + at[k + 1] + 1
    <3>1. k \in 1 .. n + 1 /\ k + 1 \in 1 .. n + 1
      BY <1>10
    <3>. QED
      BY <3>1
  <2>. HIDE DEF b, r, a, pos
  <2>4. \A i \in 1 .. Len(b) : p[c + (a + i)] = b[i]
    <3>1. Len(all) \in Nat /\ Len(b) \in Nat
      BY <1>7, <2>1
    <3>. QED
      BY <2>2, <3>1, <1>9
  <2>5. 256 * p[pos[k]] + p[pos[k] + 1] = 1 + r /\ p[pos[k] + 2 + off] = units[k].type
    <3>1. 1 \in 1 .. Len(b) /\ 2 \in 1 .. Len(b) /\ 3 + off \in 1 .. Len(b)
      BY <2>1, <1>1
    <3>2. c + (a + 1) = pos[k] /\ c + (a + 2) = pos[k] + 1 /\ c + (a + (3 + off)) = pos[k] + 2 + off
      <4>1. a \in Nat /\ pos[k] = c + a + 1
        BY <2>2, <2>3, Zenon
      <4>. QED
        BY <4>1, <1>14
    <3>3. p[c + (a + 1)] = b[1] /\ p[c + (a + 2)] = b[2] /\ p[c + (a + (3 + off))] = b[3 + off]
      BY <3>1, <2>4
    <3>. QED
      BY <3>2, <3>3, <2>1, Zenon
  <2>6. pos[k] >= 1 /\ pos[k + 1] <= Len(p) + 1 /\ pos[k + 1] = pos[k] + (off + 3 + r)
    BY <2>1, <2>2, <2>3, <1>1, <1>14, <1>7, <1>9
  <2>. QED
    BY <2>5, <2>6 DEF r
<1>. HIDE DEF pos
<1>15. UnitsAt(p, f, pos)
  BY <1>9, <1>12, <1>13 DEF UnitsAt, nalu, off, n, units
<1>. QED
  BY <1>2, <1>15

\* An aggregate whose units have nothing before them.
Stap(f) == f.pack \in {24, 25}

LEMMA StapFacts ==
    ASSUME NEW f, Stap(f)
    PROVE  /\ f.pack \in Aggregates /\ offset(f.pack) = 0
           /\ f.pack # SPS /\ f.pack \notin {28, 29}
BY DEF Stap, Aggregates, offset, SPS

\* At the k-th unit of what is left of an aggregate, the loop says yes when the unit is whole
\* and is a parameter set, or when it says yes at the next one.
LEMMA UnitStep ==
    ASSUME NEW f, Stap(f), f.units \in Seq(Nalus), NEW p, NEW pos,
           UnitsAt(p, f, pos), NEW q, CutOf(q, p),
           NEW k \in 1 .. Len(f.units), pos[k] \in 1 .. Len(q) + 3
    PROVE  spsFrom(q, f.pack)[pos[k]] <=>
               /\ pos[k + 1] <= Len(q) + 1
               /\ f.units[k].type = SPS \/ spsFrom(q, f.pack)[pos[k + 1]]
<1>. DEFINE i == pos[k]
            j == pos[k + 1]
            off == offset(f.pack)
            rest == f.units[k].rest
            type == f.units[k].type
            m == Len(q)
            loop == spsFrom(q, f.pack)
            u == unitAt(q, i, f.pack)
<1>1. off = 0 /\ rest \in Nat /\ type \in Nat /\ m \in Nat /\ i \in Nat
  <2>1. f.units[k] \in Nalus
    OBVIOUS
  <2>2. rest \in Nat /\ type \in Nat
    BY <2>1, NaluFields
  <2>3. off = 0
    BY StapFacts
  <2>4. m \in Nat
    BY DEF CutOf
  <2>. QED
    BY <2>2, <2>3, <2>4
<1>2. /\ i >= 1 /\ j = i + (off + 3 + rest)
      /\ 256 * p[i] + p[i + 1] = 1 + rest /\ p[i + 2 + off] = type
  BY Zenon DEF UnitsAt
<1>3. q \in Seq(Nat) /\ \A l \in 1 .. m : q[l] = p[l]
  BY Zenon DEF CutOf
<1>4. loop[i] <=> /\ i + 1 <= m /\ u.whole
                  /\ q[i + 2 + off] % 32 = SPS \/ loop[u.next]
  <2>1. f.pack \in Aggregates
    BY StapFacts
  <2>. QED
    BY <1>3, <2>1, SpsLoop, Zenon
<1>5. i + 1 <= m => /\ u.whole <=> i + 1 + (256 * q[i] + q[i + 1]) <= m
                                   /\ off < 256 * q[i] + q[i + 1]
                    /\ u.next = i + 2 + (256 * q[i] + q[i + 1])
  <2>. SUFFICES ASSUME i + 1 <= m
                PROVE  /\ u.whole <=> /\ i + 1 + (256 * q[i] + q[i + 1]) <= m
                                      /\ off < 256 * q[i] + q[i + 1]
                       /\ u.next = i + 2 + (256 * q[i] + q[i + 1])
    OBVIOUS
  <2>. DEFINE nalu == f.pack
  <2>1. q \in Seq(Nat) /\ nalu \in Aggregates /\ i \in 1 .. Len(q) + 3 /\ i + 1 <= Len(q)
    <3>1. nalu \in Aggregates
      BY StapFacts
    <3>. QED
      BY <1>3, <3>1, Zenon
  <2>. HIDE DEF i, nalu
  <2>2. /\ unitAt(q, i, nalu).whole <=> /\ i + 1 + (256 * q[i] + q[i + 1]) <= Len(q)
                                        /\ offset(nalu) < 256 * q[i] + q[i + 1]
        /\ unitAt(q, i, nalu).next = i + 2 + (256 * q[i] + q[i + 1])
    BY <2>1, UnitFacts
  <2>. QED
    BY <2>2, Zenon DEF nalu
<1>. HIDE DEF i, j, off, rest, type, m, loop, u
<1>6. i + 1 <= m => 256 * q[i] + q[i + 1] = 1 + rest
  <2>1. i + 1 <= m => i \in 1 .. m /\ i + 1 \in 1 .. m
    BY <1>1, <1>2
  <2>2. i + 1 <= m => q[i] = p[i] /\ q[i + 1] = p[i + 1]
    BY <2>1, <1>3, Zenon
  <2>. QED
    BY <2>2, <1>2, Zenon
<1>7. i + 1 <= m => (u.whole <=> j <= m + 1) /\ u.next = j
  <2>. SUFFICES ASSUME i + 1 <= m PROVE (u.whole <=> j <= m + 1) /\ u.next = j
    OBVIOUS
  <2>. DEFINE length == 256 * q[i] + q[i + 1]
  <2>1. length = 1 + rest /\ u.next = i + 2 + length
        /\ (u.whole <=> i + 1 + length <= m /\ off < length)
    BY <1>5, <1>6, Zenon
  <2>. HIDE DEF length
  <2>. QED
    BY <2>1, <1>1, <1>2
<1>8. j <= m + 1 => i + 1 <= m /\ q[i + 2 + off] = type
  <2>. SUFFICES ASSUME j <= m + 1 PROVE i + 1 <= m /\ q[i + 2 + off] = type
    OBVIOUS
  <2>1. i + 1 <= m /\ i + 2 + off \in 1 .. m
    BY <1>1, <1>2
  <2>. QED
    BY <2>1, <1>2, <1>3
<1>9. type % 32 = SPS <=> type = SPS
  <2>1. f.units[k] \in Nalus
    OBVIOUS
  <2>. QED
    BY <2>1, NaluFields, Zenon DEF type
<1>10. loop[i] <=> j <= m + 1 /\ (type = SPS \/ loop[j])
  <2>1. ASSUME loop[i] PROVE j <= m + 1 /\ (type = SPS \/ loop[j])
    <3>1. i + 1 <= m /\ u.whole /\ (q[i + 2 + off] % 32 = SPS \/ loop[u.next])
      BY <2>1, <1>4, Zenon
    <3>2. j <= m + 1 /\ u.next = j
      BY <3>1, <1>7, Zenon
    <3>. QED
      BY <3>1, <3>2, <1>8, <1>9, Zenon
  <2>2. ASSUME j <= m + 1, type = SPS \/ loop[j] PROVE loop[i]
    <3>1. i + 1 <= m /\ u.whole /\ u.next = j /\ q[i + 2 + off] = type
      BY <2>2, <1>7, <1>8, Zenon
    <3>. QED
      BY <2>2, <3>1, <1>4, <1>9, Zenon
  <2>. QED
    BY <2>1, <2>2, Zenon
<1>. QED
  BY <1>10, Zenon DEF i, j, type, m, loop

\* The loop over what is left of an aggregate finds no parameter set where there is none,
\* and over the whole of it finds one where there is one.
LEMMA AggregateFound ==
    ASSUME NEW f, Stap(f), f.units \in Seq(Nalus), Len(f.units) >= 1,
           NEW q, CutOf(q, packH264(f)), Len(q) >= 1
    PROVE  LET yes == spsFrom(q, f.pack)[firstUnit(f.pack)]
               has == \E k \in 1 .. Len(f.units) : f.units[k].type = SPS
           IN  /\ yes => has
               /\ q = packH264(f) => (has => yes)
<1>. DEFINE p == packH264(f)
            n == Len(f.units)
            loop == spsFrom(q, f.pack)
            m == Len(q)
<1>0. f.pack \in Aggregates
  BY StapFacts
<1>1. PICK pos : UnitsAt(p, f, pos)
  BY <1>0, AggregateBytes, Zenon
<1>2. n \in Nat /\ m \in Nat /\ m <= Len(p) /\ Len(p) \in Nat
  <2>1. n \in Nat
    OBVIOUS
  <2>2. q \in Seq(Nat) /\ m <= Len(p)
    BY Zenon DEF CutOf
  <2>3. p \in Seq(Nat)
    BY <1>1, Zenon DEF UnitsAt
  <2>. HIDE DEF p
  <2>. QED
    BY <2>1, <2>2, <2>3
<1>3. /\ pos[1] = firstUnit(f.pack) /\ pos[n + 1] = Len(p) + 1
      /\ \A k \in 1 .. n + 1 : pos[k] \in Nat
      /\ \A k \in 1 .. n : pos[k] >= 1 /\ pos[k + 1] <= Len(p) + 1 /\ pos[k + 1] >= pos[k]
  <2>1. /\ pos[1] = firstUnit(f.pack) /\ pos[n + 1] = Len(p) + 1
        /\ \A k \in 1 .. n + 1 : pos[k] \in Nat
        /\ \A k \in 1 .. n : pos[k] >= 1 /\ pos[k + 1] <= Len(p) + 1
    BY <1>1 DEF UnitsAt
  <2>2. ASSUME NEW k \in 1 .. n PROVE pos[k + 1] >= pos[k]
    <3>1. pos[k + 1] = pos[k] + (offset(f.pack) + 3 + f.units[k].rest)
      BY <1>1, Zenon DEF UnitsAt
    <3>2. offset(f.pack) \in Nat
      BY <1>0, OffsetFacts
    <3>3. f.units[k] \in Nalus
      OBVIOUS
    <3>4. f.units[k].rest \in Nat
      BY <3>3, NaluFields
    <3>5. pos[k] \in Nat
      BY <2>1, <1>2
    <3>. HIDE DEF n
    <3>. QED
      BY <3>1, <3>2, <3>4, <3>5, SMTT(30)
  <2>. QED
    BY <2>1, <2>2
<1>4. pos[1] \in 1 .. m + 3
  <2>1. firstUnit(f.pack) \in {2, 4}
    BY <1>0, OffsetFacts
  <2>. HIDE DEF m, n, p
  <2>2. m >= 1
    BY DEF m
  <2>. QED
    BY <2>1, <2>2, <1>2, <1>3
<1>5. ASSUME NEW k \in 1 .. n, pos[k] \in 1 .. m + 3
      PROVE  loop[pos[k]] <=> pos[k + 1] <= m + 1 /\ (f.units[k].type = SPS \/ loop[pos[k + 1]])
  BY <1>1, <1>5, UnitStep, Zenon
<1>. DEFINE has == \E k \in 1 .. n : f.units[k].type = SPS
<1>6. ASSUME loop[pos[1]], ~has PROVE FALSE
  <2>. DEFINE S == {k \in 1 .. n + 1 : pos[k] \in 1 .. m + 3 /\ loop[pos[k]]}
  <2>1. 1 \in S
    <3>1. 1 \in 1 .. n + 1
      BY <1>2
    <3>. QED
      BY <3>1, <1>4, <1>6, Zenon
  <2>2. ASSUME NEW k \in 1 .. n, k \in S PROVE k + 1 \in S
    <3>1. pos[k + 1] <= m + 1 /\ loop[pos[k + 1]]
      BY <2>2, <1>5, <1>6, Zenon
    <3>2. k + 1 \in 1 .. n + 1
      BY <1>2
    <3>3. pos[k + 1] \in Nat /\ pos[k + 1] >= 1
      <4>1. pos[k] \in Nat /\ pos[k + 1] \in Nat /\ pos[k] >= 1 /\ pos[k + 1] >= pos[k]
        BY <1>2, <1>3, <3>2
      <4>. QED
        BY <4>1
    <3>4. pos[k + 1] \in 1 .. m + 3
      <4>. HIDE DEF m, n
      <4>. QED
        BY <3>1, <3>3, <1>2
    <3>. QED
      BY <3>1, <3>2, <3>4, Zenon
  <2>3. n + 1 \in S
    <3>1. n + 1 \in 1 .. n + 1
      BY <1>2
    <3>. HIDE DEF S, n
    <3>. QED
      BY <2>1, <2>2, <3>1, <1>2, CountUp
  <2>4. loop[Len(p) + 1] /\ Len(p) + 1 \in 1 .. m + 3
    BY <2>3, <1>3, Zenon
  <2>5. Len(p) + 2 <= m
    <3>1. q \in Seq(Nat)
      BY Zenon DEF CutOf
    <3>2. (Len(p) + 1) + 1 <= m
      BY <2>4, <3>1, <1>0, SpsLoop, Zenon
    <3>. HIDE DEF p, m
    <3>. QED
      BY <3>2, <1>2
  <2>. HIDE DEF p, m
  <2>. QED
    BY <2>5, <1>2
<1>7. ASSUME q = p, has, ~loop[pos[1]] PROVE FALSE
  <2>. DEFINE S == {k \in 1 .. n + 1 : ~loop[pos[k]]}
  <2>0. ASSUME NEW k \in 1 .. n PROVE pos[k] \in 1 .. m + 3 /\ pos[k + 1] <= m + 1
    <3>1. m = Len(p) /\ m \in Nat /\ pos[k] \in Nat /\ pos[k + 1] \in Nat /\ pos[k] >= 1
          /\ pos[k + 1] <= Len(p) + 1 /\ pos[k + 1] >= pos[k]
      <4>1. k \in 1 .. n + 1 /\ k + 1 \in 1 .. n + 1
        BY <1>2
      <4>2. m = Len(p)
        BY <1>7, Zenon
      <4>. QED
        BY <4>1, <4>2, <1>2, <1>3, Zenon
    <3>. HIDE DEF m, n, p
    <3>. QED
      BY <3>1
  <2>1. 1 \in S
    <3>1. 1 \in 1 .. n + 1
      BY <1>2
    <3>. QED
      BY <3>1, <1>7, Zenon
  <2>2. ASSUME NEW k \in 1 .. n, ~loop[pos[k]] PROVE ~loop[pos[k + 1]] /\ f.units[k].type # SPS
    BY <2>2, <2>0, <1>5, Zenon
  <2>3. ASSUME NEW k \in 1 .. n, k \in S PROVE k + 1 \in S
    <3>1. k + 1 \in 1 .. n + 1
      BY <1>2
    <3>. QED
      BY <3>1, <2>2, <2>3, Zenon
  <2>4. \A k \in 1 .. n + 1 : k \in S
    <3>. HIDE DEF S, n
    <3>. QED
      BY <2>1, <2>3, <1>2, CountUp
  <2>5. \A k \in 1 .. n : f.units[k].type # SPS
    <3>1. \A k \in 1 .. n : k \in 1 .. n + 1
      BY <1>2
    <3>. QED
      BY <3>1, <2>2, <2>4, Zenon
  <2>. QED
    BY <2>5, <1>7, Zenon
<1>. QED
  BY <1>3, <1>6, <1>7, Zenon

IsH264Frame(f) ==
    /\ f.mime = "h264" /\ f.pack \in {0, 28, 29} \cup Aggregates /\ f.starts \in BOOLEAN
    /\ f.units \in Seq(Nalus) /\ Len(f.units) >= 1
    /\ f.pack \notin Aggregates => Len(f.units) = 1

\* The start bit and the type in the second byte of a fragment.
LEMMA FragmentByte ==
    ASSUME NEW s \in {0, 1}, NEW t \in 1 .. 23
    PROVE  /\ ((128 * s + t) \div 128) % 2 = s /\ (128 * s + t) % 32 = t
           /\ 128 * s + t \in Nat
<1>1. CASE s = 0
  BY <1>1
<1>2. CASE s = 1
  BY <1>2
<1>. QED
  BY <1>1, <1>2

\* IsH264Keyframe finds the parameter set in a payload of one unit.
LEMMA SingleFound ==
    ASSUME NEW f, IsH264Frame(f), f.pack = 0
    PROVE  Finds(IsH264Keyframe, packH264(f), hasSPS(f))
<1>. DEFINE u == f.units[1]
            type == u.type
            z == zeros(u.rest)
            p == <<type>> \o z
<1>1. Len(f.units) = 1 /\ u \in Nalus /\ DOMAIN f.units = 1 .. 1
  BY OffsetFacts DEF IsH264Frame, Aggregates
<1>2. type \in 1 .. 23 /\ type \in Nat /\ u.rest \in Nat /\ type % 32 = type
  BY <1>1, NaluFields
<1>3. packH264(f) = p
  <2>1. 0 \notin Aggregates /\ 0 \notin {28, 29}
    BY DEF Aggregates
  <2>. QED
    BY <2>1 DEF packH264
<1>4. p \in Seq(Nat) /\ Len(p) >= 1 /\ p[1] = type
  <2>1. z \in Seq(Nat) /\ Len(z) \in Nat
    BY <1>2, ZerosFacts
  <2>. HIDE DEF z, type
  <2>. QED
    BY <2>1, <1>2
<1>5. hasSPS(f) <=> type = SPS
  <2>1. f.pack \notin {28, 29}
    OBVIOUS
  <2>2. \A k : k \in 1 .. 1 <=> k = 1
    OBVIOUS
  <2>. QED
    BY <1>1, <2>1, <2>2, Zenon DEF hasSPS
<1>. HIDE DEF p, type
<1>6. ASSUME NEW q, Len(q) >= 1, q[1] = type PROVE IsH264Keyframe(q) <=> type = SPS
  <2>1. type \notin Aggregates /\ type \notin {28, 29}
    BY <1>2 DEF Aggregates
  <2>2. q[1] % 32 = type
    BY <1>2, <1>6
  <2>. QED
    BY <2>1, <2>2, <1>6, Zenon DEF IsH264Keyframe
<1>7. ASSUME NEW q, CutOf(q, p), Len(q) >= 1, IsH264Keyframe(q) PROVE hasSPS(f)
  <2>1. q[1] = type
    BY <1>4, <1>7 DEF CutOf
  <2>. QED
    BY <2>1, <1>5, <1>6, <1>7, Zenon
<1>8. hasSPS(f) => IsH264Keyframe(p)
  BY <1>4, <1>5, <1>6, Zenon
<1>. QED
  BY <1>3, <1>4, <1>7, <1>8, Zenon DEF Finds, NoneElse

\* IsH264Keyframe finds the parameter set in the first fragment of a unit.
LEMMA FragmentFound ==
    ASSUME NEW f, IsH264Frame(f), f.pack \in {28, 29}
    PROVE  Finds(IsH264Keyframe, packH264(f), hasSPS(f))
<1>. DEFINE type == f.units[1].type
            second == 128 * num(f.starts) + type
            p == <<f.pack, second>>
<1>1. Len(f.units) = 1 /\ f.units[1] \in Nalus /\ DOMAIN f.units = 1 .. 1 /\ f.starts \in BOOLEAN
  BY DEF IsH264Frame, Aggregates
<1>2. type \in 1 .. 23
  BY <1>1, NaluFields
<1>3. second \in Nat /\ (bit(second, 128) <=> f.starts) /\ second % 32 = type
  <2>. DEFINE s == num(f.starts)
  <2>1. s \in {0, 1} /\ (s = 1 <=> f.starts)
    BY <1>1 DEF num
  <2>. HIDE DEF s, type
  <2>2. /\ ((128 * s + type) \div 128) % 2 = s /\ (128 * s + type) % 32 = type
        /\ 128 * s + type \in Nat
    BY <1>2, <2>1, FragmentByte
  <2>. QED
    BY <2>1, <2>2, Zenon DEF bit, s
<1>4. packH264(f) = p /\ f.pack % 32 = f.pack /\ f.pack \in Nat
  <2>1. f.pack # 0 /\ f.pack \notin Aggregates
    BY DEF Aggregates
  <2>2. packH264(f) = p
    BY <2>1, Zenon DEF packH264
  <2>3. f.pack % 32 = f.pack /\ f.pack \in Nat
    OBVIOUS
  <2>. QED
    BY <2>2, <2>3, Zenon
<1>5. hasSPS(f) <=> type = SPS /\ f.starts
  <2>2. \A k : k \in 1 .. 1 <=> k = 1
    OBVIOUS
  <2>. QED
    BY <1>1, <2>2, Zenon DEF hasSPS
<1>. HIDE DEF second, type
<1>6. p \in Seq(Nat) /\ Len(p) = 2 /\ p[1] = f.pack /\ p[2] = second
  BY <1>3, <1>4
<1>. HIDE DEF p
<1>7. ASSUME NEW q, Len(q) >= 1, q[1] = f.pack
      PROVE  IsH264Keyframe(q) <=> Len(q) >= 2 /\ bit(q[2], 128) /\ q[2] % 32 = SPS
  <2>1. f.pack # SPS /\ f.pack \notin Aggregates
    BY DEF Aggregates, SPS
  <2>2. q[1] % 32 = f.pack
    BY <1>4, <1>7
  <2>. QED
    BY <2>1, <2>2, <1>7, Zenon DEF IsH264Keyframe
<1>8. ASSUME NEW q, CutOf(q, p), Len(q) >= 1, IsH264Keyframe(q) PROVE hasSPS(f)
  <2>1. q[1] = f.pack /\ Len(q) \in Nat /\ (Len(q) >= 2 => q[2] = second)
    BY <1>6, <1>8 DEF CutOf
  <2>2. Len(q) >= 2 /\ bit(q[2], 128) /\ q[2] % 32 = SPS
    BY <2>1, <1>7, <1>8, Zenon
  <2>. QED
    BY <2>1, <2>2, <1>3, <1>5, Zenon
<1>9. hasSPS(f) => IsH264Keyframe(p)
  <2>1. Len(p) >= 2 /\ Len(p) >= 1
    BY <1>6
  <2>. QED
    BY <2>1, <1>3, <1>5, <1>6, <1>7, Zenon
<1>10. Len(p) >= 1
  BY <1>6
<1>. QED
  BY <1>4, <1>6, <1>8, <1>9, <1>10, Zenon DEF Finds, NoneElse

\* IsH264Keyframe finds a parameter set anywhere in an STAP.
LEMMA AggregatesFound ==
    ASSUME NEW f, IsH264Frame(f), Stap(f)
    PROVE  Finds(IsH264Keyframe, packH264(f), hasSPS(f))
<1>. DEFINE p == packH264(f)
            has == \E k \in 1 .. Len(f.units) : f.units[k].type = SPS
<1>0. f.pack \in Aggregates
  BY StapFacts
<1>1. f.units \in Seq(Nalus) /\ Len(f.units) >= 1 /\ DOMAIN f.units = 1 .. Len(f.units)
  BY DEF IsH264Frame
<1>2. PICK pos : UnitsAt(p, f, pos)
  BY <1>0, <1>1, AggregateBytes, Zenon
<1>3. p \in Seq(Nat) /\ Len(p) >= 1 /\ p[1] = f.pack
  BY <1>2, Zenon DEF UnitsAt
<1>4. hasSPS(f) <=> has
  <2>1. f.pack \notin {28, 29}
    BY StapFacts
  <2>. QED
    BY <1>1, <2>1, Zenon DEF hasSPS
<1>5. ASSUME NEW q, Len(q) >= 1, q[1] = f.pack
      PROVE  IsH264Keyframe(q) <=> spsFrom(q, f.pack)[firstUnit(f.pack)]
  <2>1. f.pack # SPS /\ f.pack \notin {28, 29} /\ f.pack % 32 = f.pack
    BY <1>0, OffsetFacts, StapFacts
  <2>2. q[1] % 32 = f.pack
    BY <2>1, <1>5
  <2>. QED
    BY <1>0, <2>1, <2>2, <1>5, Zenon DEF IsH264Keyframe
<1>6. ASSUME NEW q, CutOf(q, p), Len(q) >= 1, IsH264Keyframe(q) PROVE hasSPS(f)
  <2>. HIDE DEF p
  <2>1. q[1] = f.pack
    BY <1>3, <1>6 DEF CutOf
  <2>2. spsFrom(q, f.pack)[firstUnit(f.pack)]
    BY <2>1, <1>5, <1>6, Zenon
  <2>. QED
    BY <2>2, <1>1, <1>4, <1>6, AggregateFound, Zenon DEF p
<1>7. hasSPS(f) => IsH264Keyframe(p)
  <2>1. CutOf(p, p)
    <3>. HIDE DEF p
    <3>. QED
      BY <1>3 DEF CutOf
  <2>. QED
    BY <2>1, <1>1, <1>3, <1>4, <1>5, AggregateFound, Zenon
<1>. QED
  BY <1>3, <1>6, <1>7, Zenon DEF Finds, NoneElse

\* IsH264Keyframe finds a parameter set that is the first unit of an MTAP and longer than what
\* precedes it.
LEMMA MtapFound ==
    ASSUME NEW f, IsH264Frame(f), f.pack \in {26, 27}, seen(f)
    PROVE  LET p == packH264(f)
           IN  p \in Seq(Nat) /\ Len(p) >= 1 /\ IsH264Keyframe(p)
<1>. DEFINE p == packH264(f)
            nalu == f.pack
            off == offset(nalu)
            rest == f.units[1].rest
            type == f.units[1].type
            i == 4
            m == Len(p)
            n == Len(f.units)
            u == unitAt(p, i, nalu)
<1>0. nalu \in Aggregates /\ firstUnit(nalu) = i /\ off \in Nat
  BY DEF Aggregates, firstUnit, offset
<1>1. f.units \in Seq(Nalus) /\ n \in Nat /\ n >= 1
  BY DEF IsH264Frame
<1>2. PICK pos : UnitsAt(p, f, pos)
  BY <1>0, <1>1, AggregateBytes, Zenon
<1>3. 1 \in 1 .. n
  BY <1>1
<1>4. /\ p \in Seq(Nat) /\ m >= 1 /\ p[1] = nalu /\ pos[1] = i
      /\ pos[1 + 1] <= m + 1 /\ pos[1 + 1] = pos[1] + (off + 3 + rest)
      /\ 256 * p[pos[1]] + p[pos[1] + 1] = 1 + rest /\ p[pos[1] + 2 + off] = type
  BY <1>0, <1>2, <1>3, Zenon DEF UnitsAt
<1>5. rest \in Nat /\ type = SPS /\ type % 32 = type /\ 1 + rest > off
  <2>1. f.units[1] \in Nalus
    BY <1>1, <1>3
  <2>2. type = SPS /\ 1 + rest > off
    <3>1. f.mime # "av1"
      BY DEF IsH264Frame
    <3>. QED
      BY <3>1, Zenon DEF seen
  <2>. QED
    BY <2>1, <2>2, NaluFields, Zenon
<1>6. m \in Nat /\ 4 + (off + 3 + rest) <= m + 1 /\ 256 * p[4] + p[4 + 1] = 1 + rest
      /\ p[4 + 2 + off] = type
  <2>1. m \in Nat
    BY <1>4
  <2>. QED
    BY <2>1, <1>4, Zenon
<1>7. i \in 1 .. m + 3 /\ i + 1 <= m
  <2>. HIDE DEF m, off, rest
  <2>. QED
    BY <1>0, <1>5, <1>6
<1>8. u.whole
  <2>. DEFINE length == 256 * p[i] + p[i + 1]
  <2>1. u.whole <=> i + 1 + length <= m /\ off < length
    <3>1. p \in Seq(Nat) /\ nalu \in Aggregates /\ i \in 1 .. Len(p) + 3 /\ i + 1 <= Len(p)
      BY <1>0, <1>4, <1>7, Zenon
    <3>. HIDE DEF p, nalu, i
    <3>2. unitAt(p, i, nalu).whole <=> /\ i + 1 + (256 * p[i] + p[i + 1]) <= Len(p)
                                       /\ offset(nalu) < 256 * p[i] + p[i + 1]
      BY <3>1, UnitFacts
    <3>. QED
      BY <3>2, Zenon
  <2>2. length = 1 + rest
    BY <1>6, Zenon
  <2>. HIDE DEF length, off, rest, m, u, i
  <2>3. i = 4
    BY DEF i
  <2>. QED
    BY <2>1, <2>2, <2>3, <1>0, <1>5, <1>6
<1>9. spsFrom(p, nalu)[i]
  <2>1. p[i + 2 + off] % 32 = SPS
    BY <1>5, <1>6, Zenon
  <2>2. spsFrom(p, nalu)[i] <=> /\ i + 1 <= m /\ u.whole
                                /\ \/ p[i + 2 + off] % 32 = SPS
                                   \/ spsFrom(p, nalu)[u.next]
    <3>. HIDE DEF p, nalu, i, u
    <3>. QED
      BY <1>0, <1>4, <1>7, SpsLoop, Zenon DEF m, u
  <2>. QED
    BY <1>7, <1>8, <2>1, <2>2, Zenon
<1>10. IsH264Keyframe(p)
  <2>1. p[1] % 32 = nalu
    <3>1. nalu % 32 = nalu
      BY <1>0, OffsetFacts
    <3>. QED
      BY <3>1, <1>4, Zenon
  <2>. QED
    BY <1>0, <1>4, <1>9, <2>1, Zenon DEF IsH264Keyframe
<1>. QED
  BY <1>4, <1>10, Zenon

-----------------------------------------------------------------------------
(* AV1.                                                                    *)

\* The seven low bits of a byte, and its top bit.
LEMMA LowBits ==
    ASSUME NEW b \in Nat
    PROVE  /\ bits(b, 1, 128) \in Nat
           /\ b < 128 => bits(b, 1, 128) = b /\ ~bit(b, 128)
           /\ b >= 128 /\ b < 256 => bits(b, 1, 128) = b - 128 /\ bit(b, 128)
<1>1. b \div 1 = b
  BY Z3
<1>2. b % 128 \in Nat
  OBVIOUS
<1>3. b < 128 => b % 128 = b /\ ~((b \div 128) % 2 = 1)
  BY Z3
<1>4. b >= 128 /\ b < 256 => b % 128 = b - 128 /\ (b \div 128) % 2 = 1
  BY Z3
<1>5. bits(b, 1, 128) = b % 128 /\ (bit(b, 128) <=> (b \div 128) % 2 = 1)
  BY <1>1, Zenon DEF bits, bit
<1>. QED
  BY <1>2, <1>3, <1>4, <1>5

\* The function of leb128: the value of the bytes from a position on.
IsLeb(f, p, from, end) ==
    f = [j \in from .. end |-> bits(p[j], 1, 128) + (IF j = end THEN 0 ELSE 128 * f[j + 1])]

\* That function exists, whatever the number of bytes.
LEMMA LebExists ==
    ASSUME NEW p, NEW from \in Nat, NEW end \in Nat, from <= end
    PROVE  \E f : IsLeb(f, p, from, end)
<1>. DEFINE S == {d \in Nat : \E f : IsLeb(f, p, (end + 1) - d, end)}
            n == end - from
<1>1. n \in Nat
  OBVIOUS
<1>2. 1 \in S
  <2>. DEFINE f == [j \in end .. end |-> bits(p[j], 1, 128) + 0]
  <2>1. \A j \in end .. end : j = end
    OBVIOUS
  <2>2. \A j \in end .. end :
            f[j] = bits(p[j], 1, 128) + (IF j = end THEN 0 ELSE 128 * f[j + 1])
    BY <2>1, Zenon
  <2>3. f = [j \in end .. end |-> f[j]]
    OBVIOUS
  <2>. HIDE DEF f
  <2>4. IsLeb(f, p, end, end)
    BY <2>2, <2>3, Zenon DEF IsLeb
  <2>5. (end + 1) - 1 = end /\ 1 \in Nat
    OBVIOUS
  <2>. QED
    BY <2>4, <2>5, Zenon
<1>3. ASSUME NEW d \in 1 .. n, d \in S PROVE d + 1 \in S
  <2>. DEFINE a == (end + 1) - d
              b == (end + 1) - (d + 1)
  <2>1. a = b + 1 /\ a <= end /\ b \in Int /\ d + 1 \in Nat
    OBVIOUS
  <2>2. PICK h : IsLeb(h, p, a, end)
    BY <1>3, Zenon
  <2>. HIDE DEF a, b
  <2>. DEFINE f == [j \in b .. end |-> IF j = b THEN bits(p[b], 1, 128) + 128 * h[b + 1]
                                       ELSE h[j]]
  <2>3. ASSUME NEW j \in b .. end
        PROVE  f[j] = bits(p[j], 1, 128) + (IF j = end THEN 0 ELSE 128 * f[j + 1])
    <3>1. CASE j = b
      <4>1. b # end /\ b \in b .. end /\ b + 1 \in b .. end /\ b + 1 # b
        BY <2>1
      <4>2. f[b] = bits(p[b], 1, 128) + 128 * h[b + 1] /\ f[b + 1] = h[b + 1]
        BY <4>1, Zenon
      <4>. HIDE DEF f
      <4>. QED
        BY <4>1, <4>2, <3>1, Zenon
    <3>2. CASE j # b
      <4>1. j \in a .. end /\ (j # end => j + 1 \in b .. end /\ j + 1 # b)
        BY <3>2, <2>1
      <4>2. h[j] = bits(p[j], 1, 128) + (IF j = end THEN 0 ELSE 128 * h[j + 1])
        BY <4>1, <2>2, Zenon DEF IsLeb
      <4>3. f[j] = h[j] /\ (j # end => f[j + 1] = h[j + 1])
        BY <4>1, <3>2, Zenon
      <4>. HIDE DEF f
      <4>. QED
        BY <4>2, <4>3, Zenon
    <3>. QED
      BY <3>1, <3>2
  <2>4. f = [j \in b .. end |-> f[j]]
    OBVIOUS
  <2>. HIDE DEF f
  <2>5. IsLeb(f, p, b, end)
    BY <2>3, <2>4, Zenon DEF IsLeb
  <2>. QED
    BY <2>1, <2>5, Zenon DEF b
<1>4. n + 1 \in S
  <2>1. n + 1 \in 1 .. n + 1
    BY <1>1
  <2>. HIDE DEF S, n
  <2>. QED
    BY <1>1, <1>2, <1>3, <2>1, CountUp
<1>5. (end + 1) - (n + 1) = from
  OBVIOUS
<1>. QED
  BY <1>4, <1>5, Zenon

\* A length is a number.
LEMMA LebNat ==
    ASSUME NEW p \in Seq(Nat), NEW from \in Nat, NEW end \in Nat, 1 <= from, from <= end,
           end <= Len(p), NEW f, IsLeb(f, p, from, end)
    PROVE  f[from] \in Nat
<1>. DEFINE n == end - from
            S == {d \in 1 .. n + 1 : f[(end + 1) - d] \in Nat}
<1>1. n \in Nat
  OBVIOUS
<1>2. ASSUME NEW j \in from .. end
      PROVE  /\ f[j] = bits(p[j], 1, 128) + (IF j = end THEN 0 ELSE 128 * f[j + 1])
             /\ bits(p[j], 1, 128) \in Nat
  <2>1. p[j] \in Nat
    OBVIOUS
  <2>. QED
    BY <2>1, LowBits, ZenonT(40) DEF IsLeb
<1>3. 1 \in S
  <2>1. 1 \in 1 .. n + 1 /\ end \in from .. end /\ (end + 1) - 1 = end
    BY <1>1
  <2>2. f[end] \in Nat
    BY <1>2, <2>1
  <2>. QED
    BY <2>1, <2>2, Zenon
<1>4. ASSUME NEW d \in 1 .. n, d \in S PROVE d + 1 \in S
  <2>. DEFINE j == (end + 1) - (d + 1)
  <2>1. j \in from .. end /\ j # end /\ j + 1 = (end + 1) - d /\ d + 1 \in 1 .. n + 1
    BY <1>1
  <2>2. f[j + 1] \in Nat
    BY <1>4, <2>1, Zenon
  <2>. HIDE DEF j
  <2>3. f[j] = bits(p[j], 1, 128) + 128 * f[j + 1] /\ bits(p[j], 1, 128) \in Nat
    BY <1>2, <2>1, Zenon
  <2>4. f[j] \in Nat
    BY <2>2, <2>3, SMTT(30)
  <2>. QED
    BY <2>1, <2>4, Zenon DEF j
<1>5. n + 1 \in S
  <2>1. n + 1 \in 1 .. n + 1
    BY <1>1
  <2>. HIDE DEF S, n
  <2>. QED
    BY <1>1, <1>3, <1>4, <2>1, CountUp
<1>6. (end + 1) - (n + 1) = from
  OBVIOUS
<1>. QED
  BY <1>5, <1>6, Zenon

\* A length, and the lengths of one and of two bytes.
LEMMA LebFacts ==
    ASSUME NEW p \in Seq(Nat), NEW from \in Nat, NEW end \in Nat, 1 <= from, from <= end,
           end <= Len(p)
    PROVE  /\ leb128(p, from, end) \in Nat
           /\ end = from => leb128(p, from, end) = bits(p[from], 1, 128)
           /\ end = from + 1 =>
                leb128(p, from, end) = bits(p[from], 1, 128) + 128 * bits(p[from + 1], 1, 128)
<1>. DEFINE f == CHOOSE h : IsLeb(h, p, from, end)
<1>1. IsLeb(f, p, from, end)
  BY LebExists, Zenon
<1>2. leb128(p, from, end) = f[from]
  BY Zenon DEF leb128, IsLeb
<1>. HIDE DEF f
<1>3. f[from] \in Nat
  BY <1>1, LebNat
<1>4. \A j \in from .. end :
          /\ f[j] = bits(p[j], 1, 128) + (IF j = end THEN 0 ELSE 128 * f[j + 1])
          /\ bits(p[j], 1, 128) \in Nat
  <2>1. \A j \in from .. end : p[j] \in Nat
    OBVIOUS
  <2>. QED
    BY <1>1, <2>1, LowBits, ZenonT(40) DEF IsLeb
<1>5. from \in from .. end /\ end \in from .. end
  OBVIOUS
<1>6. f[end] = bits(p[end], 1, 128)
  BY <1>4, <1>5
<1>7. end = from + 1 => f[from] = bits(p[from], 1, 128) + 128 * bits(p[from + 1], 1, 128)
  <2>1. end = from + 1 => from # end
    OBVIOUS
  <2>2. from # end => f[from] = bits(p[from], 1, 128) + 128 * f[from + 1]
    BY <1>4, <1>5, Zenon
  <2>. QED
    BY <2>1, <2>2, <1>6, Zenon
<1>. QED
  BY <1>2, <1>3, <1>6, <1>7, Zenon

\* The bytes of a length may end at e: its top bit is clear, and no earlier one's is.
EndsAt(q, from, e) ==
    e \in from .. Len(q) /\ ~bit(q[e], 128) /\ \A j \in from .. Len(q) : ~bit(q[j], 128) => e <= j

NoEnd(q, from) == \A j \in from .. Len(q) : bit(q[j], 128)

\* Either the bytes of the length end or they do not.
LEMMA EndExists ==
    ASSUME NEW q \in Seq(Nat), NEW from \in 1 .. Len(q) + 1
    PROVE  NoEnd(q, from) \/ \E e : EndsAt(q, from, e)
<1>. DEFINE ends == {j \in from .. Len(q) : ~bit(q[j], 128)}
<1>1. ends \subseteq Nat
  OBVIOUS
<1>2. CASE ends = {}
  BY <1>2, Zenon DEF NoEnd
<1>3. CASE ends # {}
  <2>1. \E e \in ends : \A j \in ends : e <= j
    <3>. HIDE DEF ends
    <3>. QED
      BY <1>1, <1>3, LeastNumber
  <2>. QED
    BY <2>1, Zenon DEF EndsAt
<1>. QED
  BY <1>2, <1>3

\* What getObu returns: the rest, nothing, the rest of a unit that is cut short, or a unit.
LEMMA ObuLast ==
    ASSUME NEW q, NEW from
    PROVE  getObu(q, from, TRUE) =
               [obu |-> SubSeq(q, from, Len(q)), next |-> Len(q) + 1, truncated |-> FALSE]
BY Zenon DEF getObu

\* getObu when the bytes of the length do not end.
LEMMA ObuNone ==
    ASSUME NEW q, NEW from, NoEnd(q, from)
    PROVE  getObu(q, from, FALSE) =
               [obu |-> <<>>, next |-> Len(q) + 1, truncated |-> from <= Len(q)]
<1>. DEFINE ends == {j \in from .. Len(q) : ~bit(q[j], 128)}
<1>1. ends = {}
  BY Zenon DEF NoEnd
<1>. QED
  BY <1>1, Zenon DEF getObu

\* The end of the length is the one getObu takes.
LEMMA EndIsLeast ==
    ASSUME NEW q \in Seq(Nat), NEW from \in 1 .. Len(q) + 1, NEW e, EndsAt(q, from, e)
    PROVE  LET ends == {j \in from .. Len(q) : ~bit(q[j], 128)}
           IN  ends # {} /\ Min(ends) = e
<1>. DEFINE ends == {j \in from .. Len(q) : ~bit(q[j], 128)}
<1>1. e \in ends /\ \A j \in ends : e <= j
  BY Zenon DEF EndsAt
<1>2. ends \subseteq Nat
  OBVIOUS
<1>. HIDE DEF ends
<1>3. Min(ends) \in ends /\ \A j \in ends : Min(ends) <= j
  BY <1>1, Zenon DEF Min
<1>4. Min(ends) <= e /\ e <= Min(ends) /\ e \in Nat /\ Min(ends) \in Nat
  BY <1>1, <1>2, <1>3, Zenon
<1>. QED
  BY <1>1, <1>4 DEF ends

\* getObu of a unit whose end is missing.
LEMMA ObuCut ==
    ASSUME NEW q \in Seq(Nat), NEW from \in 1 .. Len(q) + 1, NEW e, EndsAt(q, from, e),
           Len(q) < e + leb128(q, from, e)
    PROVE  getObu(q, from, FALSE) =
               [obu |-> SubSeq(q, e + 1, Len(q)), next |-> Len(q) + 1, truncated |-> TRUE]
BY EndIsLeast, Zenon DEF getObu

\* getObu of a unit that is there as a whole.
LEMMA ObuWhole ==
    ASSUME NEW q \in Seq(Nat), NEW from \in 1 .. Len(q) + 1, NEW e, EndsAt(q, from, e),
           ~(Len(q) < e + leb128(q, from, e))
    PROVE  getObu(q, from, FALSE) =
               [obu |-> SubSeq(q, e + 1, e + leb128(q, from, e)),
                next |-> e + leb128(q, from, e) + 1, truncated |-> FALSE]
BY EndIsLeast, Zenon DEF getObu

\* getObu goes on inside the payload, or just after it.
LEMMA ObuNext ==
    ASSUME NEW q \in Seq(Nat), NEW from \in 1 .. Len(q) + 1, NEW last \in BOOLEAN
    PROVE  getObu(q, from, last).next \in 1 .. Len(q) + 1
<1>. DEFINE m == Len(q)
<1>0. m \in Nat
  OBVIOUS
<1>1. CASE last = TRUE
  <2>. DEFINE o == getObu(q, from, TRUE)
  <2>1. o = [obu |-> SubSeq(q, from, m), next |-> m + 1, truncated |-> FALSE]
    BY ObuLast, Zenon
  <2>. HIDE DEF o
  <2>2. o.next = m + 1
    BY <2>1
  <2>3. o.next \in 1 .. m + 1
    BY <2>2, <1>0
  <2>. QED
    BY <2>3, <1>1, Zenon DEF o
<1>2. CASE last = FALSE
  <2>. DEFINE o == getObu(q, from, FALSE)
  <2>1. SUFFICES o.next \in 1 .. m + 1
    BY <1>2, Zenon
  <2>2. CASE NoEnd(q, from)
    <3>. DEFINE t == from <= m
    <3>1. o = [obu |-> <<>>, next |-> m + 1, truncated |-> t]
      BY <2>2, ObuNone, Zenon
    <3>. HIDE DEF o, t
    <3>2. o.next = m + 1
      BY <3>1, Zenon
    <3>. QED
      BY <3>2, <1>0
  <2>3. CASE \E e : EndsAt(q, from, e)
    <3>1. PICK e : EndsAt(q, from, e)
      BY <2>3
    <3>. DEFINE l == leb128(q, from, e)
    <3>2. e \in Nat /\ from \in Nat /\ 1 <= from /\ from <= e /\ e <= m
      BY <3>1 DEF EndsAt
    <3>3. l \in Nat
      BY <3>2, LebFacts
    <3>4. CASE m < e + l
      <4>1. o = [obu |-> SubSeq(q, e + 1, m), next |-> m + 1, truncated |-> TRUE]
        BY <3>4, <3>1, ObuCut, Zenon
      <4>. HIDE DEF o
      <4>. QED
        BY <4>1, <1>0
    <3>5. CASE ~(m < e + l)
      <4>1. o = [obu |-> SubSeq(q, e + 1, e + l), next |-> e + l + 1, truncated |-> FALSE]
        BY <3>5, <3>1, ObuWhole, Zenon
      <4>. HIDE DEF o, l
      <4>2. o.next = e + l + 1
        BY <4>1
      <4>. HIDE DEF m
      <4>3. o.next \in 1 .. m + 1
        BY <4>2, <3>2, <3>3, <3>5, <1>0
      <4>. QED
        BY <4>3 DEF m
    <3>. QED
      BY <3>4, <3>5
  <2>. QED
    BY <2>2, <2>3, EndExists, Zenon
<1>. QED
  BY <1>1, <1>2, Zenon

\* The loop of IsAV1Keyframe does one unit and goes on after it.
LEMMA KeyLoop ==
    ASSUME NEW q \in Seq(Nat), NEW w \in 0 .. 3, NEW i \in 0 .. 4, NEW from \in 1 .. Len(q) + 1
    PROVE  LET o == getObu(q, from, w = i + 1)
               tpe == bits(o.obu[1], 8, 8)
           IN  keyFrom(q, w)[<<i, from>>] <=>
                   /\ o.obu # <<>>
                   /\ i = 0 => tpe = 1
                   /\ IF i > 0 /\ tpe \in {3, 6} THEN keyHeader(o.obu)
                      ELSE ~o.truncated /\ i < w /\ keyFrom(q, w)[<<i + 1, o.next>>]
<1>. DEFINE D == (0 .. 4) \X (1 .. Len(q) + 1)
            O(at) == getObu(q, at[2], w = at[1] + 1)
            Tpe(at) == bits(O(at).obu[1], 8, 8)
            Header(at) == at[1] > 0 /\ Tpe(at) \in {3, 6}
            Going(at) == /\ O(at).obu # <<>>
                         /\ at[1] = 0 => Tpe(at) = 1
                         /\ IF Header(at) THEN keyHeader(O(at).obu)
                            ELSE ~O(at).truncated /\ at[1] < w
            After(at) == <<at[1] + 1, O(at).next>>
            going == [at \in D |-> Going(at)]
            found == [at \in D |-> Header(at)]
            next == [at \in D |-> After(at)]
            Body(f, at) == /\ O(at).obu # <<>>
                           /\ at[1] = 0 => Tpe(at) = 1
                           /\ IF Header(at) THEN keyHeader(O(at).obu)
                              ELSE ~O(at).truncated /\ at[1] < w /\ f[<<at[1] + 1, O(at).next>>]
            Key(f) == f = [at \in D |-> Body(f, at)]
<1>1. Stays(D, going, found, next)
  <2>. SUFFICES ASSUME NEW at \in D, Going(at), ~Header(at) PROVE After(at) \in D
    BY Zenon DEF Stays
  <2>1. at[1] \in 0 .. 4 /\ at[2] \in 1 .. Len(q) + 1
    OBVIOUS
  <2>2. at[1] < w
    BY Zenon
  <2>3. O(at).next \in 1 .. Len(q) + 1
    <3>1. (w = at[1] + 1) \in BOOLEAN
      OBVIOUS
    <3>. QED
      BY <2>1, <3>1, ObuNext, Zenon
  <2>4. at[1] + 1 \in 0 .. 4
    <3>. HIDE DEF D, Going, Header
    <3>. QED
      BY <2>1, <2>2
  <2>. QED
    BY <2>3, <2>4, Zenon
<1>2. PICK f : IsLoop(f, D, going, found, next)
  <2>. HIDE DEF D, going, found, next
  <2>. QED
    BY <1>1, LoopExists, Zenon
<1>3. Key(f)
  <2>1. ASSUME NEW at \in D
        PROVE  (going[at] /\ (found[at] \/ f[next[at]])) = Body(f, at)
    <3>1. (Going(at) /\ (Header(at) \/ f[After(at)])) <=> Body(f, at)
      <4>. HIDE DEF D, O, Tpe, Header
      <4>. QED
        BY Zenon
    <3>2. going[at] = Going(at) /\ found[at] = Header(at) /\ next[at] = After(at)
      BY Zenon
    <3>. DEFINE B == Body(f, at)
    <3>. HIDE DEF Going, Header, After, going, found, next, B
    <3>. QED
      BY <3>1, <3>2
  <2>. QED
    BY <1>2, <2>1, Zenon DEF IsLoop
<1>4. keyFrom(q, w) = CHOOSE h : Key(h)
  BY Zenon DEF keyFrom
<1>5. Key(keyFrom(q, w))
  <2>. HIDE DEF Key
  <2>. QED
    BY <1>3, <1>4, Zenon
<1>6. keyFrom(q, w)[<<i, from>>] = Body(keyFrom(q, w), <<i, from>>)
  <2>1. <<i, from>> \in D
    BY Zenon
  <2>. HIDE DEF D, Body
  <2>. QED
    BY <1>5, <2>1, Zenon
<1>7. <<i, from>>[1] = i /\ <<i, from>>[2] = from
  BY Zenon
<1>. QED
  BY <1>6, <1>7, Zenon

\* The bytes of the length before an OBU, and the two when there are two.
lead(bare, long) == IF bare THEN 0 ELSE IF long THEN 2 ELSE 1
low(r) == (2 + r) % 128
high(r) == (2 + r) \div 128
long(u, wide) == wide \/ 2 + u.rest >= 128

\* The two bytes have seven bits each.
LEMMA ObuLength ==
    ASSUME NEW r \in Nat, r <= MaxObu
    PROVE  /\ low(r) \in Nat /\ low(r) < 128 /\ high(r) \in Nat /\ high(r) < 128
           /\ low(r) + 128 * high(r) = 2 + r
<1>. DEFINE n == 2 + r
<1>1. n \in Nat /\ n < 16384
  BY DEF MaxObu
<1>. HIDE DEF n
<1>2. n % 128 \in Nat /\ n % 128 < 128 /\ n \div 128 \in Nat /\ n \div 128 < 128
      /\ (n % 128) + 128 * (n \div 128) = n
  BY <1>1, Z3
<1>. QED
  BY <1>2 DEF n, low, high

\* The fields of an OBU.
LEMMA ObuFields ==
    ASSUME NEW u \in Obus
    PROVE  /\ u.type \in {1, 3, 4, 6} /\ u.header \in Nat /\ u.header < 256
           /\ u.rest \in Nat /\ u.rest <= MaxObu
           /\ u.type \in Nat /\ 8 * u.type \in Nat
<1>1. u \in [type : {1, 3, 4, 6}, header : 0 .. 255, rest : 0 .. MaxObu]
  BY PayloadsConstants, Zenon
<1>2. u.type \in {1, 3, 4, 6} /\ u.header \in 0 .. 255 /\ u.rest \in 0 .. MaxObu
  BY <1>1, Zenon
<1>3. MaxObu \in Nat
  BY DEF MaxObu
<1>4. u.header \in Nat /\ u.header < 256
  BY <1>2
<1>5. u.rest \in Nat /\ u.rest <= MaxObu
  BY <1>2, <1>3
<1>. QED
  BY <1>2, <1>4, <1>5

\* The bytes of one OBU, with the length before it.
LEMMA ObuBytes ==
    ASSUME NEW u \in Obus, NEW bare \in BOOLEAN, NEW wide \in BOOLEAN
    PROVE  LET b == obuBytes(u, bare, wide)
               l == lead(bare, long(u, wide))
           IN  /\ b \in Seq(Nat) /\ l \in 0 .. 2 /\ Len(b) = l + 2 + u.rest
               /\ b[l + 1] = 8 * u.type /\ b[l + 2] = u.header
               /\ l = 1 => b[1] = 2 + u.rest /\ 2 + u.rest < 128
               /\ l = 2 => b[1] = 128 + low(u.rest) /\ b[2] = high(u.rest)
<1>. DEFINE h == <<8 * u.type, u.header>>
            z == zeros(u.rest)
            obu == h \o z
            length == IF wide \/ Len(obu) >= 128 THEN <<128 + (Len(obu) % 128), Len(obu) \div 128>>
                                            ELSE <<Len(obu)>>
<1>1. u.rest \in Nat /\ u.type \in Nat /\ u.header \in Nat /\ 8 * u.type \in Nat
      /\ u.rest <= MaxObu
  BY ObuFields
<1>2. obu \in Seq(Nat) /\ Len(obu) = 2 + u.rest /\ obu[1] = 8 * u.type /\ obu[2] = u.header
  <2>1. h \in Seq(Nat) /\ Len(h) = 2 /\ h[1] = 8 * u.type /\ h[2] = u.header
    BY <1>1
  <2>2. z \in Seq(Nat) /\ Len(z) = u.rest
    BY <1>1, ZerosFacts
  <2>. HIDE DEF h, z
  <2>3. /\ obu \in Seq(Nat) /\ Len(obu) = Len(h) + Len(z)
        /\ \A i \in 1 .. Len(h) : obu[i] = h[i]
    BY <2>1, <2>2, ByteCat, Zenon
  <2>4. 1 \in 1 .. Len(h) /\ 2 \in 1 .. Len(h)
    BY <2>1
  <2>. HIDE DEF obu
  <2>. QED
    BY <2>1, <2>2, <2>3, <2>4
<1>3. obuBytes(u, bare, wide) = IF bare THEN obu ELSE length \o obu
  BY Zenon DEF obuBytes
<1>. HIDE DEF obu
<1>4. CASE bare
  <2>1. obuBytes(u, bare, wide) = obu /\ lead(bare, long(u, wide)) = 0
    BY <1>3, <1>4, Zenon DEF lead
  <2>. QED
    BY <2>1, <1>2
<1>5. CASE ~bare
  <2>. DEFINE l == lead(bare, long(u, wide))
  <2>1. obuBytes(u, bare, wide) = length \o obu
    BY <1>3, <1>5, Zenon
  <2>2. /\ length \in Seq(Nat) /\ Len(length) = l /\ l \in 1 .. 2
        /\ l = 1 => length[1] = 2 + u.rest /\ 2 + u.rest < 128
        /\ l = 2 => length[1] = 128 + low(u.rest) /\ length[2] = high(u.rest)
    <3>0. long(u, wide) <=> wide \/ Len(obu) >= 128
      BY <1>2, Zenon DEF long
    <3>1. CASE wide \/ Len(obu) >= 128
      <4>1. length = <<128 + low(u.rest), high(u.rest)>>
        BY <3>1, <1>2, Zenon DEF low, high
      <4>2. l = 2
        BY <3>0, <3>1, <1>5, Zenon DEF lead
      <4>. DEFINE a == low(u.rest)
                  c == high(u.rest)
      <4>3. a \in Nat /\ c \in Nat
        BY <1>1, ObuLength
      <4>. HIDE DEF length, l, a, c
      <4>4. length = <<128 + a, c>>
        BY <4>1, Zenon DEF a, c
      <4>5. /\ length \in Seq(Nat) /\ Len(length) = 2
            /\ length[1] = 128 + a /\ length[2] = c
        BY <4>3, <4>4
      <4>. QED
        BY <4>2, <4>5 DEF a, c
    <3>2. CASE ~(wide \/ Len(obu) >= 128)
      <4>1. length = <<Len(obu)>> /\ l = 1
        BY <3>0, <3>2, <1>5, Zenon DEF lead
      <4>2. 2 + u.rest < 128
        BY <3>2, <1>1, <1>2
      <4>. HIDE DEF length, l
      <4>. QED
        BY <4>1, <4>2, <1>1, <1>2
    <3>. QED
      BY <3>1, <3>2
  <2>. HIDE DEF length, l
  <2>. DEFINE b == length \o obu
  <2>3. /\ b \in Seq(Nat) /\ Len(b) = Len(length) + Len(obu)
        /\ \A i \in 1 .. Len(length) : b[i] = length[i]
        /\ \A i \in 1 .. Len(obu) : b[Len(length) + i] = obu[i]
    BY <1>2, <2>2, ByteCat, Zenon
  <2>. HIDE DEF b
  <2>4. 1 \in 1 .. Len(obu) /\ 2 \in 1 .. Len(obu)
    BY <1>1, <1>2
  <2>5. b[l + 1] = obu[1] /\ b[l + 2] = obu[2]
    BY <2>2, <2>3, <2>4, Zenon
  <2>6. 1 \in 1 .. Len(length) /\ (l = 2 => 2 \in 1 .. Len(length))
    BY <2>2
  <2>7. b[1] = length[1] /\ (l = 2 => b[2] = length[2])
    BY <2>3, <2>6, Zenon
  <2>8. /\ b \in Seq(Nat) /\ l \in 0 .. 2 /\ Len(b) = l + 2 + u.rest
        /\ b[l + 1] = 8 * u.type /\ b[l + 2] = u.header
        /\ l = 1 => b[1] = 2 + u.rest /\ 2 + u.rest < 128
        /\ l = 2 => b[1] = 128 + low(u.rest) /\ b[2] = high(u.rest)
    <3>1. l \in 0 .. 2 /\ Len(b) = l + 2 + u.rest
      <4>1. l \in 1 .. 2 /\ Len(b) = l + Len(obu)
        BY <2>2, <2>3, Zenon
      <4>2. Len(obu) = 2 + u.rest /\ u.rest \in Nat
        BY <1>1, <1>2, Zenon
      <4>3. l \in 0 .. 2
        BY <4>1
      <4>4. l + (2 + u.rest) = l + 2 + u.rest
        BY <4>1, <4>2
      <4>. QED
        BY <4>1, <4>2, <4>3, <4>4, Zenon
    <3>. QED
      BY <3>1, <1>2, <2>2, <2>3, <2>5, <2>7, Zenon
  <2>. QED
    BY <2>1, <2>8, Zenon DEF b, l
<1>. QED
  BY <1>4, <1>5

IsAV1Frame(f) ==
    /\ f.mime = "av1" /\ f.starts \in BOOLEAN /\ f.new \in BOOLEAN /\ f.counted \in BOOLEAN
    /\ f.wide \in BOOLEAN /\ f.units \in Seq(Obus) /\ Len(f.units) >= 1
    /\ f.counted => Len(f.units) \in 1 .. 3

\* One whose header counts its units.
CountedFrame(f) == IsAV1Frame(f) /\ f.counted = TRUE

leadOf(f, k) == lead(k = Len(f.units), long(f.units[k], f.wide))

\* Where the units of an AV1 payload p are.
ObusAt(p, f, pos) ==
    LET n == Len(f.units)
    IN  /\ p \in Seq(Nat) /\ Len(p) >= 2
        /\ p[1] = 128 * num(~f.starts) + 16 * n + 8 * num(f.new)
        /\ pos \in [1 .. n + 1 -> Nat] /\ pos[1] = 2 /\ pos[n + 1] = Len(p) + 1
        /\ \A k \in 1 .. n :
             LET l == leadOf(f, k)
                 u == f.units[k]
             IN  /\ pos[k] >= 1 /\ pos[k + 1] <= Len(p) + 1
                 /\ pos[k + 1] = pos[k] + (l + 2 + u.rest)
                 /\ p[pos[k] + l] = 8 * u.type /\ p[pos[k] + l + 1] = u.header
                 /\ l = 1 => p[pos[k]] = 2 + u.rest /\ 2 + u.rest < 128
                 /\ l = 2 => p[pos[k]] = 128 + low(u.rest) /\ p[pos[k] + 1] = high(u.rest)

\* The OBUs of a payload have positions in it.
LEMMA AV1Bytes ==
    ASSUME NEW f, CountedFrame(f)
    PROVE  \E pos : ObusAt(packAV1(f), f, pos)
<1>. DEFINE n == Len(f.units)
            units == f.units
            g == [k \in 1 .. n |-> obuBytes(units[k], k = n, f.wide)]
            all == FlattenSeq(g)
            first == 128 * num(~f.starts) + 16 * n + 8 * num(f.new)
            head == <<first>>
            p == head \o all
<1>1. /\ units \in Seq(Obus) /\ n \in 1 .. 3 /\ f.wide \in BOOLEAN
      /\ f.starts \in BOOLEAN /\ f.new \in BOOLEAN
  BY DEF CountedFrame, IsAV1Frame
<1>2. packAV1(f) = p
  <2>1. DOMAIN f.units = 1 .. n
    BY <1>1
  <2>2. f.counted
    BY Zenon DEF CountedFrame
  <2>3. \A k : (f.counted /\ k = n) = (k = n)
    BY <2>2, Zenon
  <2>. QED
    BY <2>1, <2>2, <2>3, Zenon DEF packAV1
<1>3. head \in Seq(Nat) /\ Len(head) = 1 /\ head[1] = first
  <2>1. first \in Nat
    <3>. DEFINE s == num(~f.starts)
                t == num(f.new)
    <3>1. s \in 0 .. 1 /\ t \in 0 .. 1
      BY DEF num
    <3>2. n \in 1 .. 3
      BY <1>1, Zenon
    <3>. HIDE DEF s, t, n
    <3>3. 128 * s + 16 * n + 8 * t \in Nat
      BY <3>1, <3>2
    <3>. QED
      BY <3>3 DEF s, t
  <2>. HIDE DEF first
  <2>. QED
    BY <2>1
<1>4. ASSUME NEW k \in 1 .. n
      PROVE  LET b == obuBytes(units[k], k = n, f.wide)
                 l == leadOf(f, k)
                 u == units[k]
             IN  /\ u \in Obus /\ u.rest \in Nat /\ b \in Seq(Nat) /\ l \in 0 .. 2
                 /\ Len(b) = l + 2 + u.rest
                 /\ b[l + 1] = 8 * u.type /\ b[l + 2] = u.header
                 /\ l = 1 => b[1] = 2 + u.rest /\ 2 + u.rest < 128
                 /\ l = 2 => b[1] = 128 + low(u.rest) /\ b[2] = high(u.rest)
  <2>1. units[k] \in Obus
    BY <1>1
  <2>2. (k = n) \in BOOLEAN
    OBVIOUS
  <2>3. units[k].rest \in Nat
    BY <2>1, ObuFields
  <2>. DEFINE u == units[k]
              e == k = n
              w == f.wide
  <2>4. u \in Obus /\ e \in BOOLEAN /\ w \in BOOLEAN
    BY <2>1, <2>2, <1>1, Zenon
  <2>. HIDE DEF u, e, w
  <2>5. LET b == obuBytes(u, e, w)
            l == lead(e, long(u, w))
        IN  /\ b \in Seq(Nat) /\ l \in 0 .. 2 /\ Len(b) = l + 2 + u.rest
            /\ b[l + 1] = 8 * u.type /\ b[l + 2] = u.header
            /\ l = 1 => b[1] = 2 + u.rest /\ 2 + u.rest < 128
            /\ l = 2 => b[1] = 128 + low(u.rest) /\ b[2] = high(u.rest)
    BY <2>4, ObuBytes, Zenon
  <2>. QED
    BY <2>1, <2>3, <2>5, Zenon DEF u, e, w, leadOf
<1>5. PICK m \in Nat : n = m + 1
  <2>1. n - 1 \in Nat /\ n = (n - 1) + 1
    <3>. HIDE DEF n
    <3>. QED
      BY <1>1
  <2>. HIDE DEF n
  <2>. QED
    BY <2>1
<1>6. g \in [1 .. m + 1 -> Seq(Nat)]
  <2>1. \A k \in 1 .. n : obuBytes(units[k], k = n, f.wide) \in Seq(Nat)
    BY <1>4, Zenon
  <2>2. g \in [1 .. n -> Seq(Nat)]
    BY <2>1, Zenon
  <2>. QED
    BY <2>2, <1>5, Zenon
<1>7. \A k \in 1 .. n : g[k] = obuBytes(units[k], k = n, f.wide)
  BY Zenon
<1>. HIDE DEF g, head, first, units, n
<1>8. all \in Seq(Nat) /\ \E at : Places(g, n, all, at)
  BY <1>5, <1>6, PlacesExist
<1>. HIDE DEF all
<1>9. PICK at : Places(g, n, all, at)
  BY <1>8, Zenon
<1>10. n \in Nat /\ n >= 1 /\ Len(all) \in Nat
  BY <1>5, <1>8
<1>11. p \in Seq(Nat) /\ Len(p) = 1 + Len(all) /\ p[1] = first
       /\ \A i \in 1 .. Len(all) : p[1 + i] = all[i]
  <2>1. /\ p \in Seq(Nat) /\ Len(p) = Len(head) + Len(all)
        /\ \A i \in 1 .. Len(head) : p[i] = head[i]
        /\ \A i \in 1 .. Len(all) : p[Len(head) + i] = all[i]
    BY <1>3, <1>8, ByteCat, Zenon
  <2>. HIDE DEF p
  <2>. QED
    BY <2>1, <1>3
<1>. HIDE DEF p
<1>12. /\ at \in [1 .. n + 1 -> Nat] /\ at[1] = 0 /\ at[n + 1] = Len(all)
       /\ \A k \in 1 .. n : /\ at[k] \in Nat /\ at[k + 1] = at[k] + Len(g[k])
                            /\ at[k + 1] <= Len(all)
                            /\ \A i \in 1 .. Len(g[k]) : all[at[k] + i] = g[k][i]
  <2>1. /\ at \in [1 .. n + 1 -> Nat] /\ at[1] = 0 /\ at[n + 1] = Len(all)
        /\ \A k \in 1 .. n : /\ at[k + 1] = at[k] + Len(g[k])
                             /\ at[k + 1] <= Len(all)
                             /\ \A i \in 1 .. Len(g[k]) : all[at[k] + i] = g[k][i]
    BY <1>9, Zenon DEF Places
  <2>2. \A k \in 1 .. n : k \in 1 .. n + 1
    BY <1>10
  <2>3. \A k \in 1 .. n : at[k] \in Nat
    BY <2>1, <2>2, Zenon
  <2>. QED
    BY <2>1, <2>3, Zenon
<1>. DEFINE pos == [k \in 1 .. n + 1 |-> at[k] + 2]
<1>13. pos \in [1 .. n + 1 -> Nat] /\ pos[1] = 2 /\ pos[n + 1] = Len(p) + 1
  BY <1>10, <1>11, <1>12
<1>14. ASSUME NEW k \in 1 .. n
       PROVE  LET l == leadOf(f, k)
                  u == units[k]
              IN  /\ pos[k] >= 1 /\ pos[k + 1] <= Len(p) + 1
                  /\ pos[k + 1] = pos[k] + (l + 2 + u.rest)
                  /\ p[pos[k] + l] = 8 * u.type /\ p[pos[k] + l + 1] = u.header
                  /\ l = 1 => p[pos[k]] = 2 + u.rest /\ 2 + u.rest < 128
                  /\ l = 2 => p[pos[k]] = 128 + low(u.rest) /\ p[pos[k] + 1] = high(u.rest)
                  /\ Len(g[k]) >= 2
  <2>. DEFINE b == g[k]
              l == leadOf(f, k)
              u == units[k]
              r == u.rest
              a == at[k]
  <2>1. /\ r \in Nat /\ b \in Seq(Nat) /\ l \in 0 .. 2 /\ Len(b) = l + 2 + r
        /\ b[l + 1] = 8 * u.type /\ b[l + 2] = u.header
        /\ l = 1 => b[1] = 2 + r /\ 2 + r < 128
        /\ l = 2 => b[1] = 128 + low(r) /\ b[2] = high(r)
    BY <1>4, <1>7, ZenonT(40)
  <2>2. a \in Nat /\ at[k + 1] = a + Len(b) /\ at[k + 1] <= Len(all)
        /\ \A i \in 1 .. Len(b) : all[a + i] = b[i]
    BY <1>12
  <2>3. pos[k] = a + 2 /\ pos[k + 1] = at[k + 1] + 2
    <3>1. k \in 1 .. n + 1 /\ k + 1 \in 1 .. n + 1
      BY <1>10
    <3>. QED
      BY <3>1
  <2>. HIDE DEF b, l, u, r, a, pos
  <2>4. \A i \in 1 .. Len(b) : p[1 + (a + i)] = b[i]
    <3>1. Len(b) \in Nat
      BY <2>1
    <3>2. \A i \in 1 .. Len(b) : a + i \in 1 .. Len(all)
      BY <2>2, <3>1, <1>10
    <3>. QED
      BY <2>2, <3>2, <1>11, Zenon
  <2>5. Len(b) \in Nat /\ Len(b) >= 2 /\ l + 1 \in 1 .. Len(b) /\ l + 2 \in 1 .. Len(b)
        /\ 1 \in 1 .. Len(b) /\ 2 \in 1 .. Len(b)
    BY <2>1
  <2>6. 1 + (a + 1) = pos[k] /\ 1 + (a + 2) = pos[k] + 1 /\ 1 + (a + (l + 1)) = pos[k] + l
        /\ 1 + (a + (l + 2)) = pos[k] + l + 1
    BY <2>1, <2>2, <2>3
  <2>7. p[pos[k]] = b[1] /\ p[pos[k] + 1] = b[2] /\ p[pos[k] + l] = b[l + 1]
        /\ p[pos[k] + l + 1] = b[l + 2]
    BY <2>4, <2>5, <2>6
  <2>8. pos[k] >= 1 /\ pos[k + 1] <= Len(p) + 1 /\ pos[k + 1] = pos[k] + (l + 2 + r)
    BY <2>1, <2>2, <2>3, <1>10, <1>11
  <2>. QED
    BY <2>1, <2>5, <2>7, <2>8, Zenon DEF b, l, u, r
<1>15. Len(p) >= 2
  <2>1. 1 \in 1 .. n /\ Len(g[1]) >= 2 /\ at[1] = 0 /\ at[1 + 1] = at[1] + Len(g[1])
        /\ at[1 + 1] <= Len(all)
    <3>1. 1 \in 1 .. n
      BY <1>10
    <3>. HIDE DEF pos
    <3>. QED
      BY <3>1, <1>12, <1>14, Zenon
  <2>2. g[1] \in Seq(Nat)
    BY <2>1, <1>5, <1>6
  <2>3. Len(g[1]) \in Nat
    BY <2>2
  <2>. QED
    BY <2>1, <2>3, <1>10, <1>11
<1>. HIDE DEF pos
<1>16. ObusAt(p, f, pos)
  BY <1>11, <1>13, <1>14, <1>15, Zenon DEF ObusAt, first, n, units
<1>. QED
  BY <1>2, <1>16, Zenon

\* The first byte of a payload that does not count its units.
LEMMA UncountedBytes ==
    ASSUME NEW f, IsAV1Frame(f), ~f.counted
    PROVE  LET p == packAV1(f)
           IN  p \in Seq(Nat) /\ Len(p) >= 1 /\ bits(p[1], 16, 4) = 0
<1>. DEFINE n == Len(f.units)
            g == [k \in 1 .. n |-> obuBytes(f.units[k], FALSE, f.wide)]
            all == FlattenSeq(g)
            z == num(~f.starts)
            c == num(f.new)
            first == 128 * z + 16 * 0 + 8 * c
            head == <<first>>
            p == head \o all
<1>1. f.units \in Seq(Obus) /\ n \in Nat /\ n >= 1 /\ f.wide \in BOOLEAN
      /\ DOMAIN f.units = 1 .. n
  BY DEF IsAV1Frame
<1>2. packAV1(f) = p
  <2>1. \A k : (f.counted /\ k = n) = FALSE
    BY Zenon
  <2>. QED
    BY <1>1, <2>1, Zenon DEF packAV1
<1>3. first \in Nat /\ bits(first, 16, 4) = 0
  <2>1. z \in 0 .. 1 /\ c \in 0 .. 1
    BY DEF num
  <2>. HIDE DEF z, c
  <2>2. z = 0 \/ z = 1
    BY <2>1
  <2>3. c = 0 \/ c = 1
    BY <2>1
  <2>4. first \in Nat /\ (first \div 16) % 4 = 0
    BY <2>2, <2>3, Z3
  <2>. QED
    BY <2>4, Zenon DEF bits
<1>4. PICK m \in Nat : n = m + 1
  <2>1. n - 1 \in Nat /\ n = (n - 1) + 1
    BY <1>1
  <2>. QED
    BY <2>1
<1>5. g \in [1 .. m + 1 -> Seq(Nat)]
  <2>1. ASSUME NEW k \in 1 .. n PROVE obuBytes(f.units[k], FALSE, f.wide) \in Seq(Nat)
    <3>1. f.units[k] \in Obus /\ FALSE \in BOOLEAN
      BY <1>1
    <3>. QED
      BY <1>1, <3>1, ObuBytes, Zenon
  <2>2. g \in [1 .. n -> Seq(Nat)]
    BY <2>1, Zenon
  <2>. QED
    BY <2>2, <1>4, Zenon
<1>. HIDE DEF g, first, n
<1>6. all \in Seq(Nat)
  BY <1>4, <1>5, PlacesExist
<1>7. head \in Seq(Nat) /\ Len(head) = 1 /\ head[1] = first
  BY <1>3
<1>. HIDE DEF all, head
<1>8. p \in Seq(Nat) /\ Len(p) >= 1 /\ p[1] = first
  <2>1. /\ p \in Seq(Nat) /\ Len(p) = Len(head) + Len(all)
        /\ \A i \in 1 .. Len(head) : p[i] = head[i]
    BY <1>6, <1>7, ByteCat, Zenon
  <2>2. Len(all) \in Nat
    BY <1>6
  <2>. HIDE DEF p
  <2>. QED
    BY <2>1, <2>2, <1>7
<1>. QED
  BY <1>2, <1>3, <1>8, Zenon

\* The first two members of a slice.
SliceOf(s, q, a, b) == /\ s # <<>> => a <= b
                       /\ a <= b => s # <<>> /\ s[1] = q[a]
                       /\ Len(s) >= 2 => a + 1 <= b
                       /\ a + 1 <= b => Len(s) >= 2 /\ s[2] = q[a + 1]

\* Those of a subsequence.
LEMMA SliceFacts ==
    ASSUME NEW q \in Seq(Nat), NEW a \in Nat, NEW b \in Nat, 1 <= a, b <= Len(q)
    PROVE  SliceOf(SubSeq(q, a, b), q, a, b)
<1>1. SubSeq(q, a, b) \in Seq(Nat)
  OBVIOUS
<1>2. Len(SubSeq(q, a, b)) = IF a <= b THEN b - a + 1 ELSE 0
  OBVIOUS
<1>3. \A i \in 1 .. (b - a) + 1 : SubSeq(q, a, b)[i] = q[(a + i) - 1]
  OBVIOUS
<1>. DEFINE s == SubSeq(q, a, b)
<1>4. s \in Seq(Nat) /\ (a <= b => Len(s) = (b - a) + 1) /\ (~(a <= b) => Len(s) = 0)
  BY <1>1, <1>2
<1>. HIDE DEF s
<1>5. a <= b => s[1] = q[a]
  <2>1. a <= b => 1 \in 1 .. (b - a) + 1 /\ (a + 1) - 1 = a
    OBVIOUS
  <2>. QED
    BY <1>3, <2>1, Zenon DEF s
<1>6. a + 1 <= b => s[2] = q[a + 1]
  <2>1. a + 1 <= b => 2 \in 1 .. (b - a) + 1 /\ (a + 2) - 1 = a + 1
    OBVIOUS
  <2>. QED
    BY <1>3, <2>1, Zenon DEF s
<1>7. /\ s # <<>> => a <= b
      /\ a <= b => s # <<>>
      /\ Len(s) >= 2 => a + 1 <= b
      /\ a + 1 <= b => Len(s) >= 2
  <2>1. s = <<>> <=> Len(s) = 0
    BY <1>4
  <2>. QED
    BY <2>1, <1>4
<1>. QED
  BY <1>5, <1>6, <1>7, Zenon DEF s, SliceOf

\* What the layout of a payload p says of the k-th unit in what is left of it.
UnitPlace(f, p, pos, q, k) ==
    LET n == Len(f.units)
        i == pos[k]
        l == leadOf(f, k)
        u == f.units[k]
    IN  /\ q \in Seq(Nat) /\ Len(q) \in Nat /\ Len(q) <= Len(p) /\ Len(p) \in Nat
        /\ u \in Obus /\ u.rest \in Nat /\ u.rest <= MaxObu
        /\ l \in 0 .. 2 /\ (l = 0 <=> k = n) /\ i \in Nat /\ i >= 1
        /\ pos[k + 1] = i + (l + 2 + u.rest) /\ pos[k + 1] <= Len(p) + 1
        /\ k = n => pos[k + 1] = Len(p) + 1
        /\ i + l <= Len(q) => q[i + l] = 8 * u.type
        /\ i + l + 1 <= Len(q) => q[i + l + 1] = u.header
        /\ l = 1 => 2 + u.rest < 128
        /\ l = 1 /\ i <= Len(q) => q[i] = 2 + u.rest
        /\ l = 2 /\ i <= Len(q) => q[i] = 128 + low(u.rest)
        /\ l = 2 /\ i + 1 <= Len(q) => q[i + 1] = high(u.rest)

\* An OBU that begins in what is left of a payload.
LEMMA ObuPlace ==
    ASSUME NEW f, CountedFrame(f), NEW p, NEW pos, ObusAt(p, f, pos), NEW q, CutOf(q, p),
           NEW k \in 1 .. Len(f.units), pos[k] \in 1 .. Len(q) + 1
    PROVE  UnitPlace(f, p, pos, q, k)
<1>. DEFINE n == Len(f.units)
            i == pos[k]
            l == leadOf(f, k)
            u == f.units[k]
            r == u.rest
            m == Len(q)
<1>1. /\ p \in Seq(Nat) /\ pos[n + 1] = Len(p) + 1
      /\ pos[k + 1] <= Len(p) + 1 /\ pos[k + 1] = i + (l + 2 + r)
      /\ p[i + l] = 8 * u.type /\ p[i + l + 1] = u.header
      /\ l = 1 => p[i] = 2 + r /\ 2 + r < 128
      /\ l = 2 => p[i] = 128 + low(r) /\ p[i + 1] = high(r)
  BY Zenon DEF ObusAt
<1>2. q \in Seq(Nat) /\ m <= Len(p) /\ \A j \in 1 .. m : q[j] = p[j]
  BY Zenon DEF CutOf
<1>3. m \in Nat /\ Len(p) \in Nat
  BY <1>1, <1>2, SMTT(30)
<1>4. u \in Obus
  BY DEF CountedFrame, IsAV1Frame
<1>5. r \in Nat /\ r <= MaxObu
  BY <1>4, ObuFields
<1>6. l \in 0 .. 2 /\ (l = 0 <=> k = n)
  BY DEF leadOf, lead
<1>7. i \in Nat /\ i >= 1
  BY <1>3
<1>8. k = n => pos[k + 1] = Len(p) + 1
  BY <1>1, Zenon
<1>. HIDE DEF n, i, l, u, r, m
<1>9. /\ i + l <= m => i + l \in 1 .. m
      /\ i + l + 1 <= m => i + l + 1 \in 1 .. m
      /\ i <= m => i \in 1 .. m
      /\ i + 1 <= m => i + 1 \in 1 .. m
  BY <1>3, <1>6, <1>7
<1>10. /\ i + l <= m => q[i + l] = 8 * u.type
       /\ i + l + 1 <= m => q[i + l + 1] = u.header
       /\ l = 1 /\ i <= m => q[i] = 2 + r
       /\ l = 2 /\ i <= m => q[i] = 128 + low(r)
       /\ l = 2 /\ i + 1 <= m => q[i + 1] = high(r)
  BY <1>1, <1>2, <1>9, Zenon
<1>. QED
  BY <1>1, <1>2, <1>3, <1>4, <1>5, <1>6, <1>7, <1>8, <1>10, ZenonT(40)
     DEF UnitPlace, n, i, l, u, r, m

\* The length before a unit ends at its last byte and is the unit's length.
LEMMA LeadIsLength ==
    ASSUME NEW q \in Seq(Nat), NEW i \in Nat, i >= 1, i <= Len(q) + 1, NEW r \in Nat,
           r <= MaxObu, NEW l \in {1, 2}, l = 1 => 2 + r < 128,
           l = 1 /\ i <= Len(q) => q[i] = 2 + r,
           l = 2 /\ i <= Len(q) => q[i] = 128 + low(r),
           l = 2 /\ i + 1 <= Len(q) => q[i + 1] = high(r)
    PROVE  /\ i + l <= Len(q) + 1 => /\ EndsAt(q, i, (i + l) - 1)
                                     /\ leb128(q, i, (i + l) - 1) = 2 + r
           /\ ~(i + l <= Len(q) + 1) => NoEnd(q, i)
<1>. DEFINE m == Len(q)
<1>1. m \in Nat
  OBVIOUS
<1>. DEFINE a == low(r)
            c == high(r)
<1>0. a \in Nat /\ a < 128 /\ c \in Nat /\ c < 128 /\ a + 128 * c = 2 + r
  BY ObuLength
<1>. HIDE DEF a, c
<1>2. ASSUME l = 1, i <= m PROVE EndsAt(q, i, i) /\ leb128(q, i, i) = 2 + r
  <2>1. q[i] = 2 + r /\ q[i] \in Nat /\ q[i] < 128
    BY <1>2
  <2>2. ~bit(q[i], 128) /\ bits(q[i], 1, 128) = 2 + r
    BY <2>1, LowBits
  <2>3. leb128(q, i, i) = bits(q[i], 1, 128)
    BY <1>2, LebFacts
  <2>4. i \in i .. m /\ \A j \in i .. m : i <= j
    BY <1>1, <1>2
  <2>. QED
    BY <2>2, <2>3, <2>4, Zenon DEF EndsAt
<1>3. ASSUME l = 2, i <= m PROVE bit(q[i], 128) /\ bits(q[i], 1, 128) = a
  <2>0. q[i] = 128 + a
    BY <1>3, Zenon DEF a
  <2>1. q[i] = 128 + a /\ q[i] \in Nat /\ q[i] >= 128 /\ q[i] < 256
    BY <2>0, <1>0
  <2>2. bit(q[i], 128) /\ bits(q[i], 1, 128) = q[i] - 128
    BY <2>1, LowBits
  <2>3. q[i] - 128 = a
    BY <2>1, <1>0
  <2>. QED
    BY <2>2, <2>3, Zenon
<1>4. ASSUME l = 2, i + 1 <= m PROVE EndsAt(q, i, i + 1) /\ leb128(q, i, i + 1) = 2 + r
  <2>1. i <= m /\ i + 1 \in i .. m
    BY <1>1, <1>4
  <2>2. bit(q[i], 128) /\ bits(q[i], 1, 128) = a
    BY <2>1, <1>3, <1>4, Zenon
  <2>3. ~bit(q[i + 1], 128) /\ bits(q[i + 1], 1, 128) = c
    <3>1. q[i + 1] = c
      BY <1>4, Zenon DEF c
    <3>2. ~bit(c, 128) /\ bits(c, 1, 128) = c
      BY <1>0, LowBits
    <3>. QED
      BY <3>1, <3>2, Zenon
  <2>4. leb128(q, i, i + 1) = bits(q[i], 1, 128) + 128 * bits(q[i + 1], 1, 128)
    <3>1. i + 1 \in Nat /\ i <= i + 1 /\ i + 1 <= Len(q)
      BY <1>4
    <3>. QED
      BY <3>1, LebFacts
  <2>5. leb128(q, i, i + 1) = 2 + r
    <3>1. leb128(q, i, i + 1) = a + 128 * c
      BY <2>2, <2>3, <2>4, Zenon
    <3>. QED
      BY <3>1, <1>0
  <2>6. \A j \in i .. m : j = i \/ i + 1 <= j
    BY <1>1
  <2>. QED
    BY <2>1, <2>2, <2>3, <2>5, <2>6, Zenon DEF EndsAt
<1>5. CASE l = 1
  <2>1. (i + l) - 1 = i /\ (i + l <= m + 1 <=> i <= m)
    BY <1>1, <1>5
  <2>2. ~(i <= m) => i .. m = {}
    BY <1>1
  <2>3. ~(i <= m) => NoEnd(q, i)
    BY <2>2, Zenon DEF NoEnd
  <2>. QED
    BY <1>2, <1>5, <2>1, <2>3, Zenon
<1>6. CASE l = 2
  <2>1. (i + l) - 1 = i + 1 /\ (i + l <= m + 1 <=> i + 1 <= m)
    BY <1>1, <1>6
  <2>2. ASSUME ~(i + 1 <= m) PROVE NoEnd(q, i)
    <3>1. \A j \in i .. m : j = i /\ i <= m
      BY <2>2, <1>1
    <3>. QED
      BY <3>1, <1>3, <1>6, Zenon DEF NoEnd
  <2>. QED
    BY <1>4, <1>6, <2>1, <2>2, Zenon
<1>. QED
  BY <1>5, <1>6

\* What getObu reads at the k-th unit of what is left of a payload: the unit's first bytes, if
\* any, and in the whole payload all of the unit.
UnitRead(f, p, pos, q, k) ==
    LET n == Len(f.units)
        o == getObu(q, pos[k], n = k)
        u == f.units[k]
    IN  /\ o.obu # <<>> => o.obu[1] = 8 * u.type /\ (Len(o.obu) >= 2 => o.obu[2] = u.header)
        /\ o.obu # <<>> /\ ~o.truncated /\ k # n =>
             o.next = pos[k + 1] /\ pos[k + 1] \in 1 .. Len(q) + 1
        /\ k = n => o.next = Len(q) + 1
        /\ q = p => o.obu # <<>> /\ Len(o.obu) >= 2 /\ ~o.truncated

\* getObu reads it so.
LEMMA ObuRead ==
    ASSUME NEW f, CountedFrame(f), NEW p, NEW pos, ObusAt(p, f, pos), NEW q, CutOf(q, p),
           NEW k \in 1 .. Len(f.units), pos[k] \in 1 .. Len(q) + 1
    PROVE  UnitRead(f, p, pos, q, k)
<1>. DEFINE n == Len(f.units)
            i == pos[k]
            l == leadOf(f, k)
            u == f.units[k]
            r == u.rest
            m == Len(q)
            o == getObu(q, i, n = k)
<1>1. /\ q \in Seq(Nat) /\ m \in Nat /\ m <= Len(p) /\ Len(p) \in Nat
      /\ r \in Nat /\ r <= MaxObu
      /\ l \in 0 .. 2 /\ (l = 0 <=> k = n) /\ i \in Nat /\ i >= 1
      /\ pos[k + 1] = i + (l + 2 + r) /\ pos[k + 1] <= Len(p) + 1
      /\ k = n => pos[k + 1] = Len(p) + 1
      /\ i + l <= m => q[i + l] = 8 * u.type
      /\ i + l + 1 <= m => q[i + l + 1] = u.header
      /\ l = 1 => 2 + r < 128
      /\ l = 1 /\ i <= m => q[i] = 2 + r
      /\ l = 2 /\ i <= m => q[i] = 128 + low(r)
      /\ l = 2 /\ i + 1 <= m => q[i + 1] = high(r)
  <2>1. UnitPlace(f, p, pos, q, k)
    BY ObuPlace, Zenon
  <2>. QED
    BY <2>1, Zenon DEF UnitPlace
<1>2. i <= m + 1 /\ i \in 1 .. m + 1
  BY <1>1
<1>3. q = p => m = Len(p)
  BY Zenon
<1>. DEFINE Goal == /\ o.obu # <<>> => /\ o.obu[1] = 8 * u.type
                                       /\ Len(o.obu) >= 2 => o.obu[2] = u.header
                    /\ o.obu # <<>> /\ ~o.truncated /\ k # n =>
                         o.next = pos[k + 1] /\ pos[k + 1] \in 1 .. m + 1
                    /\ k = n => o.next = m + 1
                    /\ q = p => o.obu # <<>> /\ Len(o.obu) >= 2 /\ ~o.truncated
<1>4. SUFFICES Goal
  BY Zenon DEF UnitRead
\* A slice of the payload that begins with the unit.
<1>5. ASSUME NEW b \in Nat, b <= m, o.obu = SubSeq(q, i + l, b)
      PROVE  /\ o.obu # <<>> => /\ o.obu[1] = 8 * u.type
                                /\ Len(o.obu) >= 2 => o.obu[2] = u.header
             /\ i + l + 1 <= b => o.obu # <<>> /\ Len(o.obu) >= 2
  <2>. DEFINE a == i + l
  <2>. HIDE DEF i, l, u, r, m, o, n
  <2>1. a \in Nat /\ 1 <= a
    BY <1>1
  <2>2. /\ (a <= b => q[a] = 8 * u.type) /\ (a + 1 <= b => q[a + 1] = u.header)
    BY <1>1, <1>5
  <2>3. a + 1 <= b => a <= b
    BY <2>1
  <2>. HIDE DEF a
  <2>4. SliceOf(o.obu, q, a, b)
    <3>1. q \in Seq(Nat) /\ b \in Nat /\ b <= Len(q)
      BY <1>1, <1>5, Zenon DEF m
    <3>. QED
      BY <1>5, <2>1, <3>1, SliceFacts, Zenon DEF a
  <2>. QED
    BY <2>2, <2>3, <2>4, Zenon DEF a, SliceOf
<1>6. CASE k = n
  <2>1. o = [obu |-> SubSeq(q, i, m), next |-> m + 1, truncated |-> FALSE]
    <3>1. o = getObu(q, i, TRUE)
      BY <1>6, Zenon
    <3>. HIDE DEF o, i
    <3>. QED
      BY <3>1, ObuLast, Zenon
  <2>. HIDE DEF o, i, l, u, r, n
  <2>2. o.obu = SubSeq(q, i, m) /\ o.next = m + 1 /\ o.truncated = FALSE
    BY <2>1
  <2>. HIDE DEF m
  <2>3. l = 0 /\ i + l = i /\ m \in Nat /\ m <= m
    BY <1>1, <1>6
  <2>4. q = p => i + l + 1 <= m
    BY <1>1, <1>3, <1>6, <2>3
  <2>. QED
    BY <1>5, <1>6, <2>2, <2>3, <2>4, Zenon
<1>7. CASE k # n
  <2>. DEFINE e == (i + l) - 1
  <2>1. o = getObu(q, i, FALSE)
    BY <1>7, Zenon
  <2>2. l \in {1, 2}
    <3>. HIDE DEF l, n, i, u, r, m
    <3>. QED
      BY <1>1, <1>7
  <2>. HIDE DEF o, i, l, u, r, n, m
  <2>3. /\ i + l <= m + 1 => EndsAt(q, i, e) /\ leb128(q, i, e) = 2 + r
        /\ ~(i + l <= m + 1) => NoEnd(q, i)
    <3>1. /\ q \in Seq(Nat) /\ i \in Nat /\ i >= 1 /\ i <= Len(q) + 1 /\ r \in Nat /\ r <= MaxObu
          /\ (l = 1 => 2 + r < 128)
          /\ (l = 1 /\ i <= Len(q) => q[i] = 2 + r)
          /\ (l = 2 /\ i <= Len(q) => q[i] = 128 + low(r))
          /\ (l = 2 /\ i + 1 <= Len(q) => q[i + 1] = high(r))
      BY <1>1, <1>2, <2>2, Zenon DEF m
    <3>. QED
      BY <2>2, <3>1, LeadIsLength, ZenonT(40) DEF m, e
  <2>4. e \in Nat /\ e + 1 = i + l /\ e + (2 + r) + 1 = pos[k + 1] /\ e + (2 + r) \in Nat
        /\ (i + l <= m + 1 <=> e <= m)
    BY <1>1, <2>2
  <2>. HIDE DEF e
  <2>5. CASE e <= m /\ ~(m < e + (2 + r))
    <3>1. o = [obu |-> SubSeq(q, e + 1, e + (2 + r)), next |-> e + (2 + r) + 1,
               truncated |-> FALSE]
      BY <1>1, <1>2, <2>1, <2>3, <2>4, <2>5, ObuWhole, ZenonT(40) DEF m
    <3>2. /\ o.obu = SubSeq(q, i + l, e + (2 + r)) /\ o.next = pos[k + 1] /\ o.truncated = FALSE
      <4>1. o = [obu |-> SubSeq(q, i + l, e + (2 + r)), next |-> pos[k + 1], truncated |-> FALSE]
        BY <2>4, <3>1, Zenon
      <4>. QED
        BY <4>1
    <3>3. e + (2 + r) <= m /\ i + l + 1 <= e + (2 + r) /\ pos[k + 1] \in 1 .. m + 1
      BY <1>1, <2>2, <2>4, <2>5
    <3>. QED
      BY <1>5, <1>7, <2>4, <3>2, <3>3, Zenon
  <2>6. CASE e <= m /\ m < e + (2 + r)
    <3>1. o = [obu |-> SubSeq(q, e + 1, m), next |-> m + 1, truncated |-> TRUE]
      BY <1>1, <1>2, <2>1, <2>3, <2>4, <2>6, ObuCut, Zenon DEF m
    <3>2. o.obu = SubSeq(q, i + l, m) /\ o.next = m + 1 /\ o.truncated = TRUE
      <4>1. o = [obu |-> SubSeq(q, i + l, m), next |-> m + 1, truncated |-> TRUE]
        BY <2>4, <3>1, Zenon
      <4>. QED
        BY <4>1
    <3>3. q # p
      BY <1>1, <1>3, <2>4, <2>6
    <3>4. m \in Nat /\ m <= m
      BY <1>1
    <3>. QED
      BY <1>5, <1>7, <3>2, <3>3, <3>4, Zenon
  <2>7. CASE ~(e <= m)
    <3>. DEFINE t == i <= m
    <3>1. o = [obu |-> <<>>, next |-> m + 1, truncated |-> t]
      BY <2>1, <2>3, <2>4, <2>7, ObuNone, Zenon DEF m
    <3>. HIDE DEF t
    <3>2. o.obu = <<>>
      BY <3>1, Zenon
    <3>3. q # p
      BY <1>1, <1>3, <2>4, <2>7
    <3>. QED
      BY <1>7, <3>2, <3>3, Zenon
  <2>. QED
    BY <2>5, <2>6, <2>7
<1>. QED
  BY <1>6, <1>7

\* Types of units and headers of frames, as their bits are read.
LEMMA ObuBits ==
    ASSUME NEW u \in Obus
    PROVE  /\ bits(8 * u.type, 8, 8) = u.type
           /\ (~bit(u.header, 128) /\ bits(u.header, 32, 4) = 0) <=> u.header < 32
<1>1. u.type \in {1, 3, 4, 6} /\ u.header \in Nat /\ u.header < 256
  BY ObuFields
<1>2. \A t \in {1, 3, 4, 6} : ((8 * t) \div 8) % 8 = t
  OBVIOUS
<1>3. ASSUME NEW h \in Nat, h < 256
      PROVE  (~((h \div 128) % 2 = 1) /\ (h \div 32) % 4 = 0) <=> h < 32
  BY <1>3, Z3
<1>. QED
  BY <1>1, <1>2, <1>3, Zenon DEF bits, bit

\* The first byte of a payload: the flags Z and N, and the number of units.
LEMMA AV1FirstByte ==
    ASSUME NEW z \in {0, 1}, NEW n \in 1 .. 3, NEW c \in {0, 1}
    PROVE  LET b == 128 * z + 16 * n + 8 * c
           IN  (b \div 128) % 2 = z /\ (b \div 16) % 4 = n /\ (b \div 8) % 2 = c
<1>1. n = 1 \/ n = 2 \/ n = 3
  OBVIOUS
<1>2. z = 0 \/ z = 1
  OBVIOUS
<1>3. c = 0 \/ c = 1
  OBVIOUS
<1>. QED
  BY <1>1, <1>2, <1>3, Z3

\* After the last byte the loop says no.
LEMMA LoopEnds ==
    ASSUME NEW q \in Seq(Nat), NEW n \in 1 .. 3
    PROVE  ~keyFrom(q, n)[<<n, Len(q) + 1>>]
<1>. DEFINE m == Len(q)
            last == n = n + 1
            t == m + 1 <= m
<1>1. m + 1 \in 1 .. m + 1 /\ n \in 0 .. 4 /\ n \in 0 .. 3 /\ last = FALSE /\ m + 1 .. m = {}
  OBVIOUS
<1>2. NoEnd(q, m + 1)
  BY <1>1, Zenon DEF NoEnd
<1>3. getObu(q, m + 1, FALSE) = [obu |-> <<>>, next |-> m + 1, truncated |-> t]
  BY <1>2, ObuNone, Zenon
<1>. HIDE DEF t
<1>4. getObu(q, m + 1, last).obu = <<>>
  <2>1. getObu(q, m + 1, last) = [obu |-> <<>>, next |-> m + 1, truncated |-> t]
    BY <1>1, <1>3, Zenon
  <2>. DEFINE o == getObu(q, m + 1, last)
  <2>. HIDE DEF o
  <2>2. o = [obu |-> <<>>, next |-> m + 1, truncated |-> t]
    BY <2>1 DEF o
  <2>3. o.obu = <<>>
    BY <2>2, Zenon
  <2>. QED
    BY <2>3 DEF o
<1>. DEFINE o == getObu(q, m + 1, last)
            tpe == bits(o.obu[1], 8, 8)
<1>5. keyFrom(q, n)[<<n, m + 1>>] <=>
          /\ o.obu # <<>>
          /\ n = 0 => tpe = 1
          /\ IF n > 0 /\ tpe \in {3, 6} THEN keyHeader(o.obu)
             ELSE ~o.truncated /\ n < n /\ keyFrom(q, n)[<<n + 1, o.next>>]
  BY <1>1, KeyLoop, Zenon
<1>. QED
  BY <1>4, <1>5, Zenon

\* What the loop does at the k-th unit: a frame header decides, after any other unit it goes on.
Headed(f, k) == k > 1 /\ f.units[k].type \in {3, 6}
Decides(f, k, goes) == /\ k = 1 => f.units[k].type = 1
                       /\ IF Headed(f, k) THEN f.units[k].header < 32 ELSE goes

\* At the k-th OBU of what is left of a payload the loop says yes only if that OBU decides so,
\* or the loop does at the next one; in the whole payload, exactly then.
LEMMA ObuStep ==
    ASSUME NEW f, CountedFrame(f), NEW p, NEW pos, ObusAt(p, f, pos), NEW q, CutOf(q, p),
           NEW k \in 1 .. Len(f.units), pos[k] \in 1 .. Len(q) + 1
    PROVE  LET n == Len(f.units)
               loop == keyFrom(q, n)
           IN  /\ loop[<<k - 1, pos[k]>>] =>
                    Decides(f, k, k # n /\ pos[k + 1] \in 1 .. Len(q) + 1
                                        /\ loop[<<k, pos[k + 1]>>])
               /\ q = p => (Decides(f, k, k # n /\ loop[<<k, pos[k + 1]>>]) =>
                              loop[<<k - 1, pos[k]>>])
<1>. DEFINE n == Len(f.units)
            loop == keyFrom(q, n)
            i == pos[k]
            u == f.units[k]
            m == Len(q)
            o == getObu(q, i, n = k)
            tpe == bits(o.obu[1], 8, 8)
<1>1. q \in Seq(Nat) /\ u \in Obus /\ m \in Nat
  <2>1. q \in Seq(Nat)
    BY Zenon DEF CutOf
  <2>2. u \in Obus
    BY DEF CountedFrame, IsAV1Frame
  <2>. QED
    BY <2>1, <2>2
<1>2. n \in 1 .. 3 /\ n \in 0 .. 3 /\ k - 1 \in 0 .. 4 /\ (k - 1) + 1 = k
      /\ (k - 1 = 0 <=> k = 1) /\ (k - 1 > 0 <=> k > 1) /\ (k - 1 < n)
  <2>1. n \in 1 .. 3
    BY Zenon DEF CountedFrame, IsAV1Frame
  <2>2. k \in 1 .. n
    OBVIOUS
  <2>. HIDE DEF n
  <2>. QED
    BY <2>1, <2>2
<1>3. loop[<<k - 1, i>>] <=> /\ o.obu # <<>>
                             /\ k = 1 => tpe = 1
                             /\ IF k > 1 /\ tpe \in {3, 6} THEN keyHeader(o.obu)
                                ELSE ~o.truncated /\ loop[<<k, o.next>>]
  <2>. DEFINE j == k - 1
              t == getObu(q, i, n = j + 1)
  <2>1. j \in 0 .. 4 /\ n \in 0 .. 3 /\ i \in 1 .. Len(q) + 1
    BY <1>2, Zenon
  <2>2. j + 1 = k /\ (j = 0 <=> k = 1) /\ (j > 0 <=> k > 1) /\ j < n
    BY <1>2, Zenon
  <2>. HIDE DEF j, n, i
  <2>3. loop[<<j, i>>] <=> /\ t.obu # <<>>
                           /\ j = 0 => bits(t.obu[1], 8, 8) = 1
                           /\ IF j > 0 /\ bits(t.obu[1], 8, 8) \in {3, 6} THEN keyHeader(t.obu)
                              ELSE ~t.truncated /\ j < n /\ loop[<<j + 1, t.next>>]
    BY <1>1, <2>1, KeyLoop, Zenon
  <2>4. t = o
    BY <2>2, Zenon
  <2>. HIDE DEF t, o, loop
  <2>. QED
    BY <2>2, <2>3, <2>4, Zenon DEF j
<1>4. /\ o.obu # <<>> => o.obu[1] = 8 * u.type /\ (Len(o.obu) >= 2 => o.obu[2] = u.header)
      /\ o.obu # <<>> /\ ~o.truncated /\ k # n => o.next = pos[k + 1] /\ pos[k + 1] \in 1 .. m + 1
      /\ k = n => o.next = m + 1
      /\ q = p => o.obu # <<>> /\ Len(o.obu) >= 2 /\ ~o.truncated
  <2>1. UnitRead(f, p, pos, q, k)
    BY ObuRead, Zenon
  <2>. QED
    BY <2>1, Zenon DEF UnitRead
<1>5. ~loop[<<n, m + 1>>]
  BY <1>1, <1>2, LoopEnds, Zenon
<1>6. o.obu # <<>> => tpe = u.type
  BY <1>1, <1>4, ObuBits, Zenon
<1>7. o.obu # <<>> => (keyHeader(o.obu) <=> Len(o.obu) >= 2 /\ u.header < 32)
  BY <1>1, <1>4, ObuBits, Zenon DEF keyHeader
<1>. HIDE DEF n, loop, i, u, m, o, tpe
<1>8. ASSUME loop[<<k - 1, i>>]
      PROVE  Decides(f, k, k # n /\ pos[k + 1] \in 1 .. m + 1 /\ loop[<<k, pos[k + 1]>>])
  <2>1. o.obu # <<>> /\ tpe = u.type /\ (k = 1 => u.type = 1)
    BY <1>3, <1>6, <1>8, Zenon
  <2>2. CASE Headed(f, k)
    <3>1. keyHeader(o.obu)
      BY <1>3, <1>8, <2>1, <2>2, Zenon DEF Headed, u
    <3>. QED
      BY <1>7, <2>1, <2>2, <3>1, Zenon DEF Decides, u
  <2>3. CASE ~Headed(f, k)
    <3>1. ~o.truncated /\ loop[<<k, o.next>>]
      BY <1>3, <1>8, <2>1, <2>3, Zenon DEF Headed, u
    <3>2. k # n
      BY <1>4, <1>5, <3>1, Zenon
    <3>. QED
      BY <1>4, <2>1, <2>3, <3>1, <3>2, Zenon DEF Decides, u
  <2>. QED
    BY <2>2, <2>3
<1>9. ASSUME q = p, Decides(f, k, k # n /\ loop[<<k, pos[k + 1]>>]) PROVE loop[<<k - 1, i>>]
  <2>1. o.obu # <<>> /\ Len(o.obu) >= 2 /\ ~o.truncated /\ tpe = u.type
    BY <1>4, <1>6, <1>9, Zenon
  <2>2. k = 1 => tpe = 1
    BY <1>9, <2>1, Zenon DEF Decides, u
  <2>3. CASE Headed(f, k)
    <3>1. keyHeader(o.obu)
      BY <1>7, <1>9, <2>1, <2>3, Zenon DEF Decides, u
    <3>. QED
      BY <1>3, <2>1, <2>2, <2>3, <3>1, Zenon DEF Headed, u
  <2>4. CASE ~Headed(f, k)
    <3>1. k # n /\ loop[<<k, pos[k + 1]>>]
      BY <1>9, <2>4, Zenon DEF Decides
    <3>2. o.next = pos[k + 1]
      BY <1>4, <2>1, <3>1, Zenon
    <3>. QED
      BY <1>3, <2>1, <2>2, <2>4, <3>1, <3>2, Zenon DEF Headed, u
  <2>. QED
    BY <2>3, <2>4
<1>. QED
  BY <1>8, <1>9, Zenon DEF n, loop, i, m

\* IsAV1Keyframe finds the key frame that starts in a payload, and no other.
LEMMA AV1Found ==
    ASSUME NEW f, CountedFrame(f)
    PROVE  Finds(IsAV1Keyframe, packAV1(f), showsKey(f))
<1>. DEFINE p == packAV1(f)
            n == Len(f.units)
            first == 128 * num(~f.starts) + 16 * n + 8 * num(f.new)
            type(k) == f.units[k].type
            header(k) == f.units[k].header
<1>1. PICK pos : ObusAt(p, f, pos)
  BY AV1Bytes, Zenon
<1>2. /\ p \in Seq(Nat) /\ Len(p) >= 2 /\ p[1] = first /\ pos[1] = 2
      /\ pos \in [1 .. n + 1 -> Nat] /\ \A k \in 1 .. n : pos[k] >= 1 /\ pos[k + 1] <= Len(p) + 1
  BY <1>1, Zenon DEF ObusAt
<1>3. n \in 1 .. 3 /\ f.starts \in BOOLEAN /\ f.new \in BOOLEAN
  BY Zenon DEF CountedFrame, IsAV1Frame
<1>4. (bit(first, 128) <=> ~f.starts) /\ bits(first, 16, 4) = n /\ (bit(first, 8) <=> f.new)
  <2>. DEFINE z == num(~f.starts)
              c == num(f.new)
  <2>1. z \in {0, 1} /\ c \in {0, 1} /\ (z = 1 <=> ~f.starts) /\ (c = 1 <=> f.new)
    BY <1>3 DEF num
  <2>. HIDE DEF z, c, n
  <2>2. LET b == 128 * z + 16 * n + 8 * c
        IN  (b \div 128) % 2 = z /\ (b \div 16) % 4 = n /\ (b \div 8) % 2 = c
    BY <1>3, <2>1, AV1FirstByte
  <2>. QED
    BY <2>1, <2>2, ZenonT(40) DEF bit, bits, z, c
<1>. HIDE DEF first, p
<1>5. ASSUME NEW q, Len(q) >= 2, q[1] = first
      PROVE  IsAV1Keyframe(q) <=> f.starts /\ f.new /\ keyFrom(q, n)[<<0, 2>>]
  BY <1>3, <1>4, <1>5, ZenonT(40) DEF IsAV1Keyframe
<1>6. showsKey(f) <=>
          /\ f.starts /\ f.new /\ type(1) = 1
          /\ \/ n >= 2 /\ Headed(f, 2) /\ header(2) < 32
             \/ n = 3 /\ ~Headed(f, 2) /\ Headed(f, 3) /\ header(3) < 32
  <2>. DEFINE H == FrameHeaders(f)
              Least == \E k \in H : (\A j \in H : k <= j) /\ header(k) < 32
  <2>1. showsKey(f) <=> f.starts /\ f.new /\ type(1) = 1 /\ Least
    BY Zenon DEF showsKey
  <2>2. ASSUME NEW k PROVE k \in H <=> k \in 2 .. n /\ Headed(f, k)
    <3>1. k \in 2 .. n => k > 1
      <4>. HIDE DEF n
      <4>. QED
        BY <1>3
    <3>. QED
      BY <3>1, Zenon DEF FrameHeaders, Headed
  <2>. HIDE DEF H
  <2>3. \A k : k \in 2 .. n <=> (k = 2 /\ n >= 2) \/ (k = 3 /\ n = 3)
    <3>. HIDE DEF n
    <3>. QED
      BY <1>3
  <2>4. Least <=> \/ n >= 2 /\ Headed(f, 2) /\ header(2) < 32
                  \/ n = 3 /\ ~Headed(f, 2) /\ Headed(f, 3) /\ header(3) < 32
    <3>. HIDE DEF n, header
    <3>1. (2 \in H <=> n >= 2 /\ Headed(f, 2)) /\ (3 \in H <=> n = 3 /\ Headed(f, 3))
          /\ \A k \in H : k = 2 \/ k = 3
      BY <2>2, <2>3
    <3>2. n = 3 => n >= 2
      OBVIOUS
    <3>. QED
      BY <3>1, <3>2
  <2>. QED
    BY <2>1, <2>4, Zenon
<1>7. \A q, k : CutOf(q, p) /\ k \in 1 .. n /\ pos[k] \in 1 .. Len(q) + 1 =>
          LET loop == keyFrom(q, n)
          IN  /\ loop[<<k - 1, pos[k]>>] =>
                   Decides(f, k, k # n /\ pos[k + 1] \in 1 .. Len(q) + 1 /\ loop[<<k, pos[k + 1]>>])
              /\ q = p => (Decides(f, k, k # n /\ loop[<<k, pos[k + 1]>>]) =>
                             loop[<<k - 1, pos[k]>>])
  BY <1>1, ObuStep, Zenon
<1>8. ~Headed(f, 1)
  BY DEF Headed
<1>9. ASSUME NEW q, CutOf(q, p), Len(q) >= 1, IsAV1Keyframe(q) PROVE showsKey(f)
  <2>. DEFINE loop == keyFrom(q, n)
              m == Len(q)
  <2>1. m >= 2 /\ q[1] = first /\ m \in Nat
    <3>1. m >= 2
      BY <1>9, Zenon DEF IsAV1Keyframe
    <3>2. q \in Seq(Nat) /\ \A i \in 1 .. m : q[i] = p[i]
      BY <1>9, Zenon DEF CutOf
    <3>3. m \in Nat
      BY <3>2
    <3>4. 1 \in 1 .. m
      BY <3>1, <3>3
    <3>. QED
      BY <3>1, <3>2, <3>3, <3>4, <1>2, Zenon
  <2>2. f.starts /\ f.new /\ loop[<<0, 2>>]
    BY <1>5, <1>9, <2>1, Zenon
  <2>. DEFINE At(k) == k \in 1 .. n /\ pos[k] \in 1 .. m + 1 /\ loop[<<k - 1, pos[k]>>]
  <2>3. ASSUME NEW k, At(k)
        PROVE  /\ k = 1 => type(1) = 1
               /\ IF Headed(f, k) THEN header(k) < 32
                  ELSE k # n /\ pos[k + 1] \in 1 .. m + 1 /\ loop[<<k, pos[k + 1]>>]
    BY <1>7, <1>9, <2>3, ZenonT(40) DEF Decides
  <2>4. ASSUME NEW k, At(k), ~Headed(f, k) PROVE At(k + 1)
    <3>1. k \in 1 .. n /\ k # n /\ pos[k + 1] \in 1 .. m + 1 /\ loop[<<k, pos[k + 1]>>]
      BY <2>3, <2>4, Zenon
    <3>2. k + 1 \in 1 .. n /\ (k + 1) - 1 = k
      <4>. HIDE DEF n, m, loop
      <4>. QED
        BY <3>1, <1>3
    <3>. QED
      BY <3>1, <3>2, Zenon
  <2>5. At(1)
    <3>. HIDE DEF loop, n
    <3>1. 1 \in 1 .. n /\ 2 \in 1 .. m + 1 /\ 1 - 1 = 0
      BY <2>1, <1>3
    <3>. QED
      BY <3>1, <1>2, <2>2, Zenon
  <2>6. type(1) = 1
    BY <2>3, <2>5, Zenon
  <2>. HIDE DEF At
  <2>7. At(2)
    <3>1. 1 + 1 = 2
      OBVIOUS
    <3>. QED
      BY <2>4, <2>5, <1>8, <3>1, Zenon
  <2>8. n >= 2 /\ (Headed(f, 2) => header(2) < 32)
    <3>1. 2 \in 1 .. n
      BY <2>7, Zenon DEF At
    <3>2. n >= 2
      <4>. HIDE DEF n
      <4>. QED
        BY <1>3, <3>1
    <3>. QED
      BY <2>3, <2>7, <3>2, Zenon
  <2>9. ~Headed(f, 2) => n = 3 /\ Headed(f, 3) /\ header(3) < 32
    <3>. SUFFICES ASSUME ~Headed(f, 2) PROVE n = 3 /\ Headed(f, 3) /\ header(3) < 32
      OBVIOUS
    <3>1. 2 + 1 = 3
      OBVIOUS
    <3>2. At(3)
      BY <2>4, <2>7, <3>1, Zenon
    <3>3. 3 \in 1 .. n
      BY <3>2, Zenon DEF At
    <3>4. n = 3
      <4>. HIDE DEF n
      <4>. QED
        BY <1>3, <3>3
    <3>. QED
      BY <2>3, <3>2, <3>4, Zenon
  <2>. QED
    BY <1>6, <2>2, <2>6, <2>8, <2>9, Zenon
<1>10. ASSUME showsKey(f) PROVE IsAV1Keyframe(p)
  <2>. DEFINE loop == keyFrom(p, n)
              m == Len(p)
  <2>1. CutOf(p, p) /\ m \in Nat
    BY <1>2 DEF CutOf
  <2>2. ASSUME NEW k \in 1 .. n PROVE pos[k] \in 1 .. m + 1
    <3>1. k \in 1 .. n + 1 /\ (k = 1 \/ (k - 1 \in 1 .. n /\ (k - 1) + 1 = k))
      <4>. HIDE DEF n
      <4>. QED
        BY <1>3
    <3>2. pos[k] \in Nat /\ pos[k] >= 1
      BY <1>2, <3>1, Zenon
    <3>3. pos[k] <= m + 1
      <4>1. CASE k = 1
        BY <4>1, <1>2, <2>1
      <4>2. CASE k - 1 \in 1 .. n /\ (k - 1) + 1 = k
        BY <4>2, <1>2, Zenon
      <4>. QED
        BY <3>1, <4>1, <4>2
    <3>. HIDE DEF m
    <3>. QED
      BY <2>1, <3>2, <3>3
  <2>3. ASSUME NEW k \in 1 .. n, Decides(f, k, k # n /\ loop[<<k, pos[k + 1]>>])
        PROVE  loop[<<k - 1, pos[k]>>]
    BY <1>7, <2>1, <2>2, <2>3, Zenon
  <2>4. f.starts /\ f.new /\ type(1) = 1
    BY <1>6, <1>10, Zenon
  <2>5. n >= 2 /\ loop[<<1, pos[2]>>]
    <3>1. CASE n >= 2 /\ Headed(f, 2) /\ header(2) < 32
      <4>1. 2 \in 1 .. n /\ 2 # 1 /\ 2 - 1 = 1
        <5>. HIDE DEF n
        <5>. QED
          BY <3>1, <1>3
      <4>2. Decides(f, 2, 2 # n /\ loop[<<2, pos[2 + 1]>>])
        BY <3>1, <4>1, Zenon DEF Decides
      <4>3. loop[<<2 - 1, pos[2]>>]
        BY <2>3, <4>1, <4>2, Zenon
      <4>. QED
        BY <3>1, <4>1, <4>3, Zenon
    <3>2. CASE n = 3 /\ ~Headed(f, 2) /\ Headed(f, 3) /\ header(3) < 32
      <4>1. 2 \in 1 .. n /\ 3 \in 1 .. n /\ 2 # 1 /\ 3 # 1 /\ 2 # n /\ n >= 2
            /\ 2 - 1 = 1 /\ 3 - 1 = 2 /\ 2 + 1 = 3
        <5>. HIDE DEF n
        <5>. QED
          BY <3>2
      <4>2. Decides(f, 3, 3 # n /\ loop[<<3, pos[3 + 1]>>])
        BY <3>2, <4>1, Zenon DEF Decides
      <4>3. loop[<<3 - 1, pos[3]>>]
        BY <2>3, <4>1, <4>2, Zenon
      <4>4. loop[<<2, pos[2 + 1]>>]
        BY <4>1, <4>3, Zenon
      <4>5. Decides(f, 2, 2 # n /\ loop[<<2, pos[2 + 1]>>])
        BY <3>2, <4>1, <4>4, Zenon DEF Decides
      <4>6. loop[<<2 - 1, pos[2]>>]
        BY <2>3, <4>1, <4>5, Zenon
      <4>. QED
        BY <4>1, <4>6, Zenon
    <3>. QED
      BY <1>6, <1>10, <3>1, <3>2, Zenon
  <2>6. loop[<<0, 2>>]
    <3>1. 1 \in 1 .. n /\ 1 # n /\ 1 - 1 = 0 /\ 1 + 1 = 2
      <4>. HIDE DEF n, loop
      <4>. QED
        BY <1>3, <2>5
    <3>2. Decides(f, 1, 1 # n /\ loop[<<1, pos[1 + 1]>>])
      BY <1>8, <2>4, <2>5, <3>1, Zenon DEF Decides
    <3>3. loop[<<1 - 1, pos[1]>>]
      BY <2>3, <3>1, <3>2, Zenon
    <3>. QED
      BY <1>2, <3>1, <3>3, Zenon
  <2>. QED
    BY <1>2, <1>5, <2>4, <2>6, Zenon
<1>11. Len(p) >= 1
  BY <1>2
<1>. QED
  BY <1>2, <1>9, <1>10, <1>11, Zenon DEF Finds, NoneElse, p

\* It finds none in a payload that does not count its units.
LEMMA UncountedMissed ==
    ASSUME NEW f, IsAV1Frame(f), ~f.counted
    PROVE  NoneElse(IsAV1Keyframe, packAV1(f), showsKey(f))
<1>. DEFINE p == packAV1(f)
<1>1. p \in Seq(Nat) /\ Len(p) >= 1 /\ bits(p[1], 16, 4) = 0
  BY UncountedBytes, Zenon
<1>. HIDE DEF p
<1>2. ASSUME NEW q, CutOf(q, p), IsAV1Keyframe(q) PROVE FALSE
  <2>. DEFINE m == Len(q)
              w == bits(q[1], 16, 4)
              o == getObu(q, 2, 0 = 0 + 1)
              tpe == bits(o.obu[1], 8, 8)
  <2>1. m >= 2 /\ keyFrom(q, w)[<<0, 2>>]
    BY <1>2, Zenon DEF IsAV1Keyframe
  <2>2. q \in Seq(Nat) /\ \A i \in 1 .. m : q[i] = p[i]
    BY <1>2, Zenon DEF CutOf
  <2>3. 1 \in 1 .. m /\ 2 \in 1 .. m + 1
    <3>1. m \in Nat
      BY <2>2
    <3>. QED
      BY <2>1, <3>1
  <2>4. w = 0
    BY <1>1, <2>2, <2>3, Zenon
  <2>. HIDE DEF w
  <2>5. 0 \in 0 .. 3 /\ 0 \in 0 .. 4 /\ ~(0 > 0) /\ ~(0 < 0)
    OBVIOUS
  <2>6. keyFrom(q, 0)[<<0, 2>>] <=>
            /\ o.obu # <<>>
            /\ 0 = 0 => tpe = 1
            /\ IF 0 > 0 /\ tpe \in {3, 6} THEN keyHeader(o.obu)
               ELSE ~o.truncated /\ 0 < 0 /\ keyFrom(q, 0)[<<0 + 1, o.next>>]
    BY <2>2, <2>3, <2>5, KeyLoop, Zenon
  <2>. QED
    BY <2>1, <2>4, <2>5, <2>6, Zenon
<1>. QED
  BY <1>1, <1>2, Zenon DEF NoneElse, p

-----------------------------------------------------------------------------
(* Every frame that an encoder packs.                                      *)

H264Records == [mime : {"h264"}, pack : {0, 28, 29} \cup Aggregates, starts : BOOLEAN,
                units : Seq(Nalus)]
AV1Records == [mime : {"av1"}, starts : BOOLEAN, new : BOOLEAN, counted : BOOLEAN,
               wide : BOOLEAN, units : Seq(Obus)]

Framed == /\ frame.mime = "h264" => frame \in H264Records /\ IsH264Frame(frame)
          /\ frame.mime = "av1" => frame \in AV1Records /\ IsAV1Frame(frame)

\* The initial frame is one an encoder packs.
LEMMA FramedInit == PayloadInit => Framed
<1>. SUFFICES ASSUME PayloadInit PROVE Framed
  OBVIOUS
<1>1. CASE frame \in VP8Frames
  BY <1>1 DEF VP8Frames, Framed
<1>2. CASE frame \in H264Frames
  <2>1. frame.units \in Seq(Nalus) /\ Len(frame.units) = 1
    <3>1. PICK u \in Nalus : frame.units = <<u>>
      BY <1>2 DEF H264Frames
    <3>. QED
      BY <3>1
  <2>2. frame \in [mime : {"h264"}, pack : {0, 28, 29} \cup Aggregates, starts : BOOLEAN,
                   units : Seq(Nalus)]
    <3>1. \A u \in Nalus : <<u>> \in Seq(Nalus)
      OBVIOUS
    <3>2. {<<u>> : u \in Nalus} \subseteq Seq(Nalus)
      BY <3>1, Zenon
    <3>. QED
      BY <1>2, <3>2, Zenon DEF H264Frames
  <2>3. /\ frame.mime = "h264" /\ frame.pack \in {0, 28, 29} \cup Aggregates
        /\ frame.starts \in BOOLEAN
    BY <2>2, Zenon
  <2>4. Len(frame.units) >= 1 /\ frame.mime # "av1"
    BY <2>1, <2>3
  <2>. QED
    BY <2>1, <2>2, <2>3, <2>4, Zenon DEF Framed, H264Records, IsH264Frame
<1>3. CASE frame \in AV1Frames
  <2>1. frame.units \in Seq(Obus) /\ Len(frame.units) = 1
    <3>1. PICK u \in Obus : frame.units = <<u>>
      BY <1>3 DEF AV1Frames
    <3>. QED
      BY <3>1
  <2>2. frame \in AV1Records
    <3>1. \A u \in Obus : <<u>> \in Seq(Obus)
      OBVIOUS
    <3>2. {<<u>> : u \in Obus} \subseteq Seq(Obus)
      BY <3>1, Zenon
    <3>. QED
      BY <1>3, <3>2, Zenon DEF AV1Frames, AV1Records
  <2>3. frame.mime = "av1" /\ frame.starts \in BOOLEAN /\ frame.new \in BOOLEAN
        /\ frame.counted \in BOOLEAN /\ frame.wide \in BOOLEAN
    BY <2>2, Zenon DEF AV1Records
  <2>4. Len(frame.units) \in 1 .. 3 /\ Len(frame.units) >= 1 /\ frame.mime # "h264"
    BY <2>1, <2>3
  <2>. QED
    BY <2>1, <2>2, <2>3, <2>4, Zenon DEF Framed, IsAV1Frame
<1>. QED
  BY <1>1, <1>2, <1>3 DEF PayloadInit

\* Adding a unit leaves it one.
LEMMA FramedStep == Framed /\ [AddUnit]_frame => Framed'
<1>. SUFFICES ASSUME Framed, [AddUnit]_frame PROVE Framed'
  OBVIOUS
<1>1. CASE UNCHANGED frame
  BY <1>1, Zenon DEF Framed, H264Records, AV1Records, IsH264Frame, IsAV1Frame
<1>2. CASE AddUnit
  <2>1. CASE frame.mime = "av1"
    <3>1. PICK u \in Obus : frame' = [frame EXCEPT !.units = Append(@, u)]
      BY <1>2, <2>1, Zenon DEF AddUnit
    <3>2. frame \in AV1Records /\ IsAV1Frame(frame)
        /\ (frame.counted => Len(frame.units) < 3)
      <4>1. frame.mime # "h264"
        BY <2>1
      <4>. QED
        BY <1>2, <2>1, <4>1, Zenon DEF AddUnit, Framed
    <3>. DEFINE t == Append(frame.units, u)
    <3>3. t \in Seq(Obus) /\ Len(t) >= 1 /\ (frame.counted => Len(t) \in 1 .. 3)
      BY <3>2 DEF IsAV1Frame
    <3>. HIDE DEF t
    <3>4. frame' = [frame EXCEPT !.units = t]
      BY <3>1, Zenon DEF t
    <3>5. frame' \in AV1Records /\ frame'.units = t /\ frame'.counted = frame.counted
      BY <3>2, <3>3, <3>4 DEF AV1Records
    <3>6. frame'.mime = "av1" /\ frame'.starts \in BOOLEAN /\ frame'.new \in BOOLEAN
          /\ frame'.counted \in BOOLEAN /\ frame'.wide \in BOOLEAN
      BY <3>5, Zenon DEF AV1Records
    <3>7. frame'.mime # "h264"
      BY <3>6
    <3>. QED
      BY <3>3, <3>5, <3>6, <3>7, Zenon DEF Framed, AV1Records, IsAV1Frame
  <2>2. CASE frame.mime # "av1"
    <3>0. frame.mime = "h264" /\ frame.pack \in Aggregates
      BY <1>2, <2>2, Zenon DEF AddUnit
    <3>1. PICK u \in Nalus : frame' = [frame EXCEPT !.units = Append(@, u)]
      BY <1>2, <2>2, Zenon DEF AddUnit
    <3>2. frame \in H264Records /\ IsH264Frame(frame)
      BY <3>0, Zenon DEF Framed
    <3>. DEFINE t == Append(frame.units, u)
    <3>3. t \in Seq(Nalus) /\ Len(t) >= 1
      BY <3>2 DEF IsH264Frame
    <3>. HIDE DEF t
    <3>4. frame' = [frame EXCEPT !.units = t]
      BY <3>1, Zenon DEF t
    <3>5. frame' \in H264Records /\ frame'.units = t /\ frame'.pack = frame.pack
      BY <3>2, <3>3, <3>4 DEF H264Records
    <3>6. frame'.mime = "h264" /\ frame'.starts \in BOOLEAN
          /\ frame'.pack \in {0, 28, 29} \cup Aggregates
      BY <3>5, Zenon DEF H264Records
    <3>7. frame'.mime # "av1"
      BY <3>6
    <3>. QED
      BY <3>0, <3>3, <3>5, <3>6, <3>7, Zenon DEF Framed, H264Records, IsH264Frame
  <2>. QED
    BY <2>1, <2>2
<1>. QED
  BY <1>1, <1>2

\* A frame's flag, of what is left of its payload.
LEMMA KeyOfCut ==
    ASSUME NEW q \in Seq(Nat)
    PROVE  /\ q = <<>> => ~isKey(q)
           /\ q # <<>> /\ frame.mime = "h264" => (isKey(q) <=> IsH264Keyframe(q))
           /\ q # <<>> /\ frame.mime = "av1" => (isKey(q) <=> IsAV1Keyframe(q))
<1>1. ASSUME q = <<>> PROVE ~isKey(q)
  <2>1. getExtPacket(frame.mime, q) = [ok |-> TRUE, Temporal |-> -1, KeyFrame |-> FALSE]
    BY <1>1, Zenon DEF getExtPacket
  <2>. DEFINE ep == getExtPacket(frame.mime, q)
  <2>2. ep.KeyFrame = FALSE
    BY <2>1
  <2>. QED
    BY <2>2, Zenon DEF isKey
<1>2. ASSUME q # <<>>, frame.mime = "h264" PROVE isKey(q) <=> IsH264Keyframe(q)
  <2>1. "h264" # "vp8" /\ "h264" # "av1"
    OBVIOUS
  <2>2. getExtPacket("h264", q) =
            [ok |-> TRUE, Temporal |-> 0,
             KeyFrame |-> CASE "h264" = "vp8" -> Unmarshal(q).IsKeyFrame
                            [] "h264" = "h264" -> IsH264Keyframe(q)
                            [] "h264" = "av1" -> IsAV1Keyframe(q)]
    BY <1>2, <2>1, Zenon DEF getExtPacket
  <2>3. (CASE "h264" = "vp8" -> Unmarshal(q).IsKeyFrame
           [] "h264" = "h264" -> IsH264Keyframe(q)
           [] "h264" = "av1" -> IsAV1Keyframe(q)) = IsH264Keyframe(q)
    BY <2>1, Zenon
  <2>. DEFINE yes == IsH264Keyframe(q)
  <2>4. getExtPacket(frame.mime, q) = [ok |-> TRUE, Temporal |-> 0, KeyFrame |-> yes]
    BY <1>2, <2>2, <2>3, Zenon
  <2>. DEFINE ep == getExtPacket(frame.mime, q)
  <2>. HIDE DEF yes, ep
  <2>5. ep.ok = TRUE /\ ep.KeyFrame = yes
    <3>1. ep = [ok |-> TRUE, Temporal |-> 0, KeyFrame |-> yes]
      BY <2>4, Zenon DEF ep
    <3>. QED
      BY <3>1
  <2>6. isKey(q) <=> yes
    BY <2>5, Zenon DEF isKey, ep
  <2>. QED
    BY <2>6 DEF yes
<1>3. ASSUME q # <<>>, frame.mime = "av1" PROVE isKey(q) <=> IsAV1Keyframe(q)
  <2>1. "av1" # "vp8" /\ "av1" # "h264"
    OBVIOUS
  <2>2. getExtPacket("av1", q) =
            [ok |-> TRUE, Temporal |-> 0,
             KeyFrame |-> CASE "av1" = "vp8" -> Unmarshal(q).IsKeyFrame
                            [] "av1" = "h264" -> IsH264Keyframe(q)
                            [] "av1" = "av1" -> IsAV1Keyframe(q)]
    BY <1>3, <2>1, Zenon DEF getExtPacket
  <2>3. (CASE "av1" = "vp8" -> Unmarshal(q).IsKeyFrame
           [] "av1" = "h264" -> IsH264Keyframe(q)
           [] "av1" = "av1" -> IsAV1Keyframe(q)) = IsAV1Keyframe(q)
    BY <2>1, Zenon
  <2>. DEFINE yes == IsAV1Keyframe(q)
  <2>4. getExtPacket(frame.mime, q) = [ok |-> TRUE, Temporal |-> 0, KeyFrame |-> yes]
    BY <1>3, <2>2, <2>3, Zenon
  <2>. DEFINE ep == getExtPacket(frame.mime, q)
  <2>. HIDE DEF yes, ep
  <2>5. ep.ok = TRUE /\ ep.KeyFrame = yes
    <3>1. ep = [ok |-> TRUE, Temporal |-> 0, KeyFrame |-> yes]
      BY <2>4, Zenon DEF ep
    <3>. QED
      BY <3>1
  <2>6. isKey(q) <=> yes
    BY <2>5, Zenon DEF isKey, ep
  <2>. QED
    BY <2>6 DEF yes
<1>. QED
  BY <1>1, <1>2, <1>3, Zenon

\* What NoneElse says of every cut of the payload.
LEMMA NoneInCut ==
    ASSUME NEW p, NEW key \in BOOLEAN, NoneElse(isKey, p, key)
    PROVE  \A n \in 0 .. Len(p) : isKey(cut(p, n)) => key
<1>. SUFFICES ASSUME NEW n \in 0 .. Len(p), isKey(cut(p, n)) PROVE key
  OBVIOUS
<1>. DEFINE q == cut(p, n)
<1>1. p \in Seq(Nat)
  BY Zenon DEF NoneElse
<1>2. CutOf(q, p) /\ Len(q) = n
  BY <1>1, CutFacts, Zenon
<1>3. q \in Seq(Nat)
  BY <1>2, Zenon DEF CutOf
<1>. HIDE DEF q
<1>4. q # <<>>
  BY <1>3, KeyOfCut, Zenon DEF q
<1>5. Len(q) >= 1
  BY <1>3, <1>4
<1>. QED
  BY <1>2, <1>5, Zenon DEF NoneElse, q

\* The parsers find the key frames among the frames an encoder packs.
LEMMA FramesFound == Framed => KeyFramesFound
<1>. SUFFICES ASSUME Framed, frame.mime \in {"h264", "av1"} PROVE KeyFramesFound
  BY Zenon DEF KeyFramesFound
<1>1. CASE frame.mime = "h264"
  <2>. DEFINE p == packH264(frame)
              key == hasSPS(frame)
  <2>1. IsH264Frame(frame)
    BY <1>1, Zenon DEF Framed
  <2>2. \A q : q \in Seq(Nat) /\ q # <<>> => (isKey(q) <=> IsH264Keyframe(q))
    BY <1>1, KeyOfCut, Zenon
  <2>3. ASSUME frame.pack \in {26, 27}, seen(frame) PROVE isKey(p)
    <3>1. p \in Seq(Nat) /\ Len(p) >= 1 /\ IsH264Keyframe(p)
      BY <2>1, <2>3, MtapFound, Zenon
    <3>. HIDE DEF p
    <3>2. p # <<>>
      BY <3>1
    <3>. QED
      BY <2>2, <3>1, <3>2, Zenon
  <2>4. ASSUME frame.pack \notin {26, 27}
        PROVE  (key => isKey(p)) /\ NoneElse(isKey, p, key)
    <3>1. frame.pack = 0 \/ frame.pack \in {28, 29} \/ frame.pack \in {24, 25}
      <4>1. Aggregates = {24, 25, 26, 27}
        BY DEF Aggregates
      <4>. QED
        BY <2>1, <2>4, <4>1, Zenon DEF IsH264Frame
    <3>2. Finds(IsH264Keyframe, p, key)
      BY <2>1, <3>1, SingleFound, FragmentFound, AggregatesFound, Zenon DEF Stap
    <3>. HIDE DEF p, key
    <3>3. NoneElse(IsH264Keyframe, p, key) /\ (key => IsH264Keyframe(p))
      BY <3>2, Zenon DEF Finds
    <3>4. p \in Seq(Nat) /\ p # <<>>
      BY <3>3 DEF NoneElse
    <3>5. \A q : CutOf(q, p) /\ Len(q) >= 1 => q \in Seq(Nat) /\ q # <<>>
      BY DEF CutOf
    <3>. QED
      BY <2>2, <3>3, <3>4, <3>5, Zenon DEF NoneElse
  <2>5. frame.mime # "av1"
    BY <1>1
  <2>6. ASSUME key, seen(frame) PROVE isKey(p)
    BY <2>3, <2>4, <2>6, Zenon
  <2>7. ASSUME frame.pack \notin {26, 27} PROVE \A n \in 0 .. Len(p) : isKey(cut(p, n)) => key
    <3>1. key \in BOOLEAN
      BY DEF hasSPS
    <3>2. NoneElse(isKey, p, key)
      BY <2>4, <2>7, Zenon
    <3>. HIDE DEF p, key
    <3>. QED
      BY <3>1, <3>2, NoneInCut, Zenon
  <2>. QED
    BY <1>1, <2>5, <2>6, <2>7, Zenon DEF KeyFramesFound
<1>2. CASE frame.mime = "av1"
  <2>. DEFINE p == packAV1(frame)
              key == showsKey(frame)
  <2>1. frame.mime # "h264" /\ IsAV1Frame(frame)
    <3>1. frame.mime # "h264"
      BY <1>2
    <3>. QED
      BY <1>2, <3>1, Zenon DEF Framed
  <2>2. \A q : q \in Seq(Nat) /\ q # <<>> => (isKey(q) <=> IsAV1Keyframe(q))
    BY <1>2, KeyOfCut, Zenon
  <2>3. NoneElse(IsAV1Keyframe, p, key) /\ (frame.counted => (key => IsAV1Keyframe(p)))
    <3>1. CASE frame.counted
      <4>1. frame.counted = TRUE
        <5>1. frame.counted \in BOOLEAN
          BY <2>1, Zenon DEF IsAV1Frame
        <5>. QED
          BY <3>1, <5>1, Zenon
      <4>. QED
        BY <2>1, <4>1, AV1Found, Zenon DEF CountedFrame, Finds
    <3>2. CASE ~frame.counted
      BY <2>1, <3>2, UncountedMissed, Zenon
    <3>. QED
      BY <3>1, <3>2, Zenon
  <2>4. frame.mime = "av1" => (seen(frame) <=> frame.counted)
    BY Zenon DEF seen
  <2>9. key \in BOOLEAN
    BY DEF showsKey
  <2>. HIDE DEF p, key
  <2>5. p \in Seq(Nat) /\ p # <<>>
    BY <2>3 DEF NoneElse
  <2>6. NoneElse(isKey, p, key)
    <3>1. \A q : CutOf(q, p) /\ Len(q) >= 1 => q \in Seq(Nat) /\ q # <<>>
      BY DEF CutOf
    <3>. QED
      BY <2>2, <2>3, <3>1, Zenon DEF NoneElse
  <2>7. ASSUME key, seen(frame) PROVE isKey(p)
    BY <1>2, <2>2, <2>3, <2>4, <2>5, <2>7, Zenon
  <2>8. \A n \in 0 .. Len(p) : isKey(cut(p, n)) => key
    BY <2>6, <2>9, NoneInCut, Zenon
  <2>. QED
    BY <1>2, <2>1, <2>7, <2>8, Zenon DEF KeyFramesFound, p, key
<1>. QED
  BY <1>1, <1>2

\* However many units an encoder packs into an H264 or AV1 payload, and however large they are,
\* IsH264Keyframe and IsAV1Keyframe flag every payload with a key frame but those of which they
\* see too little (an MTAP whose first unit is none, an AV1 payload that does not count its
\* units), and flag nothing else, also when the payload is cut short.
THEOREM KeyFramesAreFound == PayloadSpec => []KeyFramesFound
BY FramedInit, FramedStep, FramesFound, PTL DEF PayloadSpec
=============================================================================
