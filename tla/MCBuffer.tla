------------------------------ MODULE MCBuffer ------------------------------
(***************************************************************************)
(* MCBuffer.cfg: a stream of video or audio and one of redundant audio,   *)
(* two buffers (of the two streams, or one of a stream after the other)    *)
(* and three packets, enough for a gap and the late packet that fills it,  *)
(* a duplicate, and a packet that has left the bucket before it is read.   *)
(* The bytes of packet 2 are bad.                                          *)
(***************************************************************************)
EXTENDS Buffer

CONSTANTS s1, s2

MCCodecs == [s \in SSRCs |-> IF s = s1 THEN {"video", "audio"} ELSE {"red"}]

MCParses == [sn \in SN |-> CASE sn = 1 -> {"read"}
                             [] sn = 2 -> {"badRTP", "badPayload"}
                             [] OTHER  -> {"read"}]
=============================================================================
