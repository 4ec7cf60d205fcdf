------------------------------ MODULE FrameRate ------------------------------
(***************************************************************************)
(* The frame rate of a VP8 stream (pkg/buffer/fps.go), measured by         *)
(* Buffer.doFpsCalc from the picture identifiers and timestamps of the     *)
(* first frames: FrameRateCalculatorVP8 gathers Ring frames from the first *)
(* one it sees and takes the run without a gap that begins there.          *)
(*                                                                         *)
(* The environment knows a frame by its index, of which the code sees the  *)
(* picture identifier (the index modulo PicMod) and the timestamp (the     *)
(* frames are evenly spaced).  Identifiers have 7 or 15 bits, but the code *)
(* subtracts them in 16.  getExtPacket gives every packet temporal layer   *)
(* 0, so the higher layers have no frames: calc passes over them, and the  *)
(* calculation is complete with the rate of layer 0.  A packet that comes  *)
(* while the buffer is paused is as good as lost.                          *)
(***************************************************************************)
EXTENDS Integers, FiniteSets

CONSTANTS PicMod,       \* 2^7 or 2^15
          U16,          \* 2^16
          Far,          \* 0x4000: a greater distance is taken for a late frame
          Ring,         \* len(fnReceived)
          MinFrames,    \* minFramesForCalculation[0]
          MaxLoss,      \* frames lost in a row
          Reorder       \* how late a frame may come

\* The newest frame that came is less than Width ahead of a base that is kept, and
\* the next one at most Reach.
Width == IF Reorder < Ring THEN Ring ELSE Reorder + 1
Reach == Width + MaxLoss

ASSUME FrameRateConstants ==
    /\ PicMod \in Nat /\ U16 \in Nat /\ Far \in Nat /\ Ring \in Nat
    /\ MinFrames \in 1 .. Ring - 1
    /\ MaxLoss \in Nat /\ Reorder \in Nat
    /\ Reach <= Far /\ Reach + Reorder <= PicMod
    /\ 2 * PicMod <= U16

\* Indices are kept modulo Cycle: a frame and the one that has its identifier a
\* cycle of identifiers later are told apart.
Cycle == 2 * PicMod
Frames == 0 .. Cycle - 1
None == -1
NoRate == [count |-> 0, span |-> 0, from |-> 0]

VARIABLES newest,       \* the newest frame that came
          clean,        \* history: the last packet was of the newest frame or the next
          fnReceived,   \* fnReceived[0] is baseFrame and firstFrames[0]
          secondFrame,  \* secondFrames[0]: its distance from the base, 0 for none
          rate          \* frameRates[0] as a count of frames and the time they took,
                        \* with the identifier it was counted from

rateVars == <<newest, clean, fnReceived, secondFrame, rate>>

reset == [d \in 0 .. Ring - 1 |-> None]

RateInit == /\ newest \in 0 .. PicMod - 1
            /\ clean = FALSE
            /\ fnReceived = reset /\ secondFrame = 0
            /\ rate = NoRate

completed == rate.count > 0
fn(i) == i % PicMod
baseDiff(i) == (fn(i) - fn(fnReceived[0])) % U16

-----------------------------------------------------------------------------
\* Mutant: a gap does not end the run.
runAll(got, upTo) == {d \in 1 .. upTo : got[d] # None}

\* The distances up to secondFrame before the first gap.
run(got, upTo) == {d \in 1 .. upTo : \A e \in 1 .. d : got[e] # None}

\* Mutant: the ring is too short for the frames that are asked for.
enoughOver(n) == n >= Ring

enough(n) == n >= MinFrames

calc(got, upTo) ==
    LET counted == run(got, upTo)
        frameCount == Cardinality(counted)
        last == CHOOSE d \in counted : \A e \in counted : e <= d
    IN  IF enough(frameCount)
          THEN /\ rate' = [count |-> frameCount, span |-> (got[last] - got[0]) % Cycle,
                           from |-> fn(got[0])]
               /\ fnReceived' = reset /\ secondFrame' = 0
          ELSE /\ fnReceived' = got /\ secondFrame' = upTo
               /\ UNCHANGED rate

\* What came before counts no more.
startAgain == fnReceived' = reset /\ secondFrame' = 0 /\ UNCHANGED rate

RecvPacket(i) ==
    \/ /\ ~completed /\ fnReceived[0] = None
       /\ fnReceived' = [fnReceived EXCEPT ![0] = i]
       /\ UNCHANGED <<secondFrame, rate>>
    \/ /\ ~completed /\ fnReceived[0] # None
       /\ baseDiff(i) \in Ring .. Far
       /\ startAgain
    \/ /\ ~completed /\ fnReceived[0] # None
       /\ baseDiff(i) \in 1 .. Ring - 1 /\ fnReceived[baseDiff(i)] = None
       /\ calc([fnReceived EXCEPT ![baseDiff(i)] = i],
               IF secondFrame < baseDiff(i) THEN baseDiff(i) ELSE secondFrame)
    \/ /\ \/ completed
          \/ /\ fnReceived[0] # None
             /\ \/ baseDiff(i) = 0 \/ baseDiff(i) > Far
                \/ baseDiff(i) < Ring /\ fnReceived[baseDiff(i)] # None
       /\ UNCHANGED <<fnReceived, secondFrame, rate>>

\* A packet of the frame k after the newest one (or before it).
Packet(k) == LET i == (newest + k) % Cycle
             IN  /\ RecvPacket(i)
                 /\ newest' = IF k > 0 THEN i ELSE newest
                 /\ clean' = (k \in {0, 1})

RateNext == \E k \in -Reorder .. MaxLoss + 1 : Packet(k)

RateSpec == RateInit /\ [][RateNext]_rateVars

-----------------------------------------------------------------------------
\* A base so close to the end of the identifiers that they may wrap before a frame
\* beyond the ring comes: those after the wrap are taken for late ones for a whole
\* cycle.
NearWrap(id) == id + Reach >= PicMod

\* The rate is that of the stream, with frames lost, late and in several packets:
\* the frames counted are exactly those of the time they took (calc).  Only from a
\* base near the wrap may a frame be a cycle older than it seems.
RateIsTrue == completed => rate.count = rate.span \/ NearWrap(rate.from)

\* Once frames come in order and none is lost, the rate is measured, whatever
\* gaps there were before; only a base near the wrap may never be given up.
RateMeasured ==
    <>[]clean => <>[](completed \/ (fnReceived[0] # None /\ NearWrap(fn(fnReceived[0]))))
=============================================================================
