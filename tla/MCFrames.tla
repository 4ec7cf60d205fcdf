------------------------------ MODULE MCFrames ------------------------------
(***************************************************************************)
(* The payload parsers and the frame rate, in one run: a behaviour packs   *)
(* the units of one payload, or it receives the frames of a stream.        *)
(***************************************************************************)
EXTENDS Payloads, FrameRate

\* Units that are as short as they may be, and units with a length of more than one
\* byte (256 of H264, 128 of AV1).
MCNalus == [type : {1, SPS}, rest : {0, 4}] \cup [type : {5}, rest : {255}]
MCObus == [type : {1, 3, 4, 6}, header : {16, 32, 128}, rest : {0}]
          \cup [type : {1, 4, 6}, header : {16}, rest : {126}]

Init == /\ RateInit
        /\ \/ PayloadInit /\ newest = 0
           \/ frame = NoFrame

Next == \/ AddUnit /\ UNCHANGED rateVars
        \/ frame = NoFrame /\ RateNext /\ UNCHANGED frame

\* Frames go on coming.
Fairness == WF_rateVars(frame = NoFrame /\ Packet(1) /\ UNCHANGED frame)

Spec == Init /\ [][Next]_<<frame, rateVars>> /\ Fairness
=============================================================================
