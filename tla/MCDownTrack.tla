---------------------------- MODULE MCDownTrack ----------------------------
(***************************************************************************)
(* Small down tracks: a packet of the producer is its sequence number.     *)
(* One goroutine retransmits.                                              *)
(***************************************************************************)
EXTENDS DownTrack

MCPackets == SN
=============================================================================
