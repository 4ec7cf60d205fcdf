------------------------------ MODULE KeyFrames ------------------------------
(***************************************************************************)
(* How the receivers of one video producer get a key frame: the picture    *)
(* loss indications (PLI) of Buffer.SendPLI (pkg/buffer/buffer.go), which  *)
(* are throttled by the time of the last one (pkg/buffer/rtpstats.go), and *)
(* its two callers in pkg/rtc/downtrack.go.  A down track that waits for a *)
(* key frame forces a PLI with every packet it drops; the RTCP callback    *)
(* sends one, unforced, when the receiver asks.                            *)
(*                                                                         *)
(* The producer's read worker writes each frame to the tracks in turn; the *)
(* RTCP callbacks of the tracks run beside it and beside each other.       *)
(* SendPLI holds only the buffer's read lock, so its test of the throttle  *)
(* and its note of the time are two steps.  A frame is one packet.         *)
(*                                                                         *)
(* The producer's encoder, the network and the receivers' decoders are     *)
(* external: frames and PLIs may be lost, and a decoder that missed a      *)
(* frame is broken until it gets a key frame.  A frame that comes while    *)
(* the producer is paused, and a PLI for a producer that is closed, are    *)
(* dropped, which is no different from being lost; a track that is unbound *)
(* again is written to no more, like one whose consumer stays paused.      *)
(***************************************************************************)
EXTENDS Integers

CONSTANTS NTracks,      \* down tracks of the producer
          Asking,       \* the tracks whose receivers go on sending PLIs as
                        \* long as their decoders are broken
          Throttle      \* pliThrottle, in ticks

Tracks == 1 .. NTracks

ASSUME KeyFramesConstants ==
    NTracks \in Nat \ {0} /\ Asking \subseteq Tracks /\ Throttle \in Nat \ {0}

VARIABLES since,        \* TimeSinceLastPli, up to Throttle
          ended,        \* the buffer is closed and its statistics are stopped
          track,        \* the down tracks: "new" (not bound), "waits" (bound and
                        \* syncRequired) or "synced"
          cPaused,      \* the tracks whose Consumer.paused is set
          worker,       \* readRTPWorker: the frame it has and the track it is at
          rtcp,         \* SendPLI(false) of each track's RTCP callback
          raced,        \* history: the callbacks past their test after which
                        \* another PLI was noted
          gap,          \* history: the time since the last PLI left the open
                        \* buffer, up to Throttle
          wire,         \* a PLI is on its way to the producer
          wanted,       \* a PLI has reached the producer's encoder
          broken        \* the receivers whose decoder needs a key frame

trackVars == <<track, cPaused>>
pliVars == <<since, rtcp, raced, gap, wire>>
vars == <<since, ended, track, cPaused, worker, rtcp, raced, gap, wire,
          wanted, broken>>

Idle == [pc |-> "idle", key |-> FALSE, at |-> 0]

Init == /\ since = Throttle
        /\ ended = FALSE
        /\ track = [t \in Tracks |-> "new"] /\ cPaused \in SUBSET Tracks
        /\ worker = Idle
        /\ rtcp = [t \in Tracks |-> "idle"] /\ raced = {} /\ gap = Throttle
        /\ wire = FALSE /\ wanted = FALSE
        /\ broken = Tracks

Bind(t) == /\ track[t] = "new"
           /\ track' = [track EXCEPT ![t] = "waits"]
           /\ UNCHANGED <<ended, cPaused, worker, pliVars, wanted, broken>>

\* Consumer.Pause and Resume: the down track is not told to wait for a key
\* frame.
ConsumerToggle(t) ==
    /\ cPaused' = IF t \in cPaused THEN cPaused \ {t} ELSE cPaused \cup {t}
    /\ UNCHANGED <<ended, track, worker, pliVars, wanted, broken>>

\* Buffer.Close: the statistics stop, and no further packet is read.
BufferClose == /\ ~ended
               /\ ended' = TRUE
               /\ UNCHANGED <<trackVars, worker, pliVars, wanted, broken>>

upTo(n) == IF n < Throttle THEN n + 1 ELSE n

Tick == /\ since < Throttle \/ gap < Throttle
        /\ since' = upTo(since) /\ gap' = upTo(gap)
        /\ UNCHANGED <<ended, trackVars, worker, rtcp, raced, wire, wanted, broken>>

-----------------------------------------------------------------------------
(* SendPLI.                                                                *)

mayPli == since >= Throttle

\* Mutant: the PLI is counted, but its time is not noted.
UpdatePliOnly == since' = since

UpdatePliAndTime == since' = IF ended THEN since ELSE 0

\* The PLI is noted and handed to Producer.SendRTCP; the other RTCP callbacks
\* that have passed their test go on.
SendPLI(others) == /\ UpdatePliAndTime
                   /\ raced' = {t \in others : rtcp[t] = "note"}
                   /\ gap' = IF ended THEN gap ELSE 0
                   /\ wire' = TRUE

\* Mutant: an attempt that is held back renews the time too.
PliCheckRenews(t) ==
    /\ rtcp[t] = "check"
    /\ rtcp' = [rtcp EXCEPT ![t] = IF mayPli THEN "note" ELSE "idle"]
    /\ since' = IF mayPli THEN since ELSE 0
    /\ UNCHANGED <<ended, trackVars, worker, raced, gap, wire, wanted, broken>>

PliCheck(t) ==
    /\ rtcp[t] = "check"
    /\ rtcp' = [rtcp EXCEPT ![t] = IF mayPli THEN "note" ELSE "idle"]
    /\ UNCHANGED <<since, ended, trackVars, worker, raced, gap, wire, wanted,
                   broken>>

PliNote(t) ==
    /\ rtcp[t] = "note"
    /\ SendPLI(Tracks \ {t})
    /\ rtcp' = [rtcp EXCEPT ![t] = "idle"]
    /\ UNCHANGED <<ended, trackVars, worker, wanted, broken>>

\* handleRTCP with a PLI or FIR in it: SendPLI(false), once.  Any receiver may
\* ask, at any time; a muted track, which does not answer, is not modelled.
handleRTCP(t) ==
    /\ track[t] # "new" /\ rtcp[t] = "idle"
    /\ rtcp' = [rtcp EXCEPT ![t] = "check"]
    /\ UNCHANGED <<since, ended, trackVars, worker, raced, gap, wire, wanted,
                   broken>>

-----------------------------------------------------------------------------
(* The read worker, through Router.OnRTPPacket, Consumer.Write and         *)
(* DownTrack.writeSimpleRTP.                                               *)

\* The encoder's next frame is a key frame when it was asked for one, and may
\* be one at other times; it reaches the worker or is lost.
Frame(key, arrives) ==
    /\ worker.pc = "idle" /\ ~ended
    /\ wanted => key
    /\ wanted' = FALSE
    /\ worker' = IF arrives THEN [pc |-> "write", key |-> key, at |-> 1] ELSE Idle
    /\ broken' = IF arrives THEN broken ELSE Tracks
    /\ UNCHANGED <<ended, trackVars, pliVars>>

\* The worker goes on with the next track.
advance == worker' = IF worker.at < NTracks THEN [worker EXCEPT !.at = @ + 1] ELSE Idle

writes(t) == /\ worker.pc = "write" /\ worker.at = t
             /\ track[t] # "new" /\ t \notin cPaused

Skip(t) == /\ worker.pc = "write" /\ worker.at = t
           /\ track[t] = "new" \/ t \in cPaused
           /\ broken' = broken \cup {t}
           /\ advance
           /\ UNCHANGED <<ended, trackVars, pliVars, wanted>>

\* Mutant: the frame is dropped and nobody is asked for a key frame.
DropQuietly(t) ==
    /\ writes(t)
    /\ track[t] = "waits" /\ ~worker.key
    /\ broken' = broken \cup {t}
    /\ advance
    /\ UNCHANGED <<ended, trackVars, pliVars, wanted>>

\* A frame that is no key frame is dropped, with SendPLI(true).
Drop(t) ==
    /\ writes(t)
    /\ track[t] = "waits" /\ ~worker.key
    /\ SendPLI(Tracks)
    /\ broken' = broken \cup {t}
    /\ advance
    /\ UNCHANGED <<ended, trackVars, rtcp, wanted>>

\* The frame is written; the write may fail and the network may lose it.
Send(t, got) ==
    /\ writes(t)
    /\ track[t] = "synced" \/ worker.key
    /\ track' = [track EXCEPT ![t] = "synced"]
    /\ broken' = IF ~got THEN broken \cup {t}
                 ELSE IF worker.key THEN broken \ {t} ELSE broken
    /\ advance
    /\ UNCHANGED <<ended, cPaused, pliVars, wanted>>

\* A PLI reaches the producer, or is lost.
PliArrives(got) ==
    /\ wire
    /\ wire' = FALSE
    /\ wanted' = (wanted \/ got)
    /\ UNCHANGED <<since, ended, trackVars, worker, rtcp, raced, gap, broken>>

Work(t) == Skip(t) \/ Drop(t) \/ \E got \in BOOLEAN : Send(t, got)

Next == \/ \E t \in Tracks : \/ Bind(t) \/ ConsumerToggle(t)
                             \/ handleRTCP(t) \/ PliCheck(t) \/ PliNote(t)
                             \/ Work(t)
        \/ BufferClose \/ Tick
        \/ \E key, arrives \in BOOLEAN : Frame(key, arrives)
        \/ \E got \in BOOLEAN : PliArrives(got)

\* Goroutines that can run do.  Of the world outside: the producer goes on
\* sending, a receiver that has been sent something goes on asking while its
\* decoder is broken (one that has got nothing yet may not), and what is
\* sent again and again (a PLI, the key frame it asks for, a key frame to one
\* receiver) arrives in the end.  Key frames nobody asked for are not assumed.
Fairness ==
    /\ WF_vars(Tick)
    /\ WF_vars(\E key \in BOOLEAN : Frame(key, TRUE))
    /\ SF_vars(wanted /\ Frame(TRUE, TRUE))
    /\ SF_vars(PliArrives(TRUE))
    /\ WF_vars(\E t \in Tracks : Work(t))
    /\ \A t \in Tracks : SF_vars(worker.key /\ Send(t, TRUE))
    /\ \A t \in Tracks : WF_vars(PliCheck(t) \/ PliNote(t))
    /\ \A t \in Asking :
         WF_vars(t \in broken /\ track[t] = "synced" /\ handleRTCP(t))

Spec == Init /\ [][Next]_vars /\ Fairness

-----------------------------------------------------------------------------
\* The shape of the state; only a callback past its test can have been overtaken.
TypeOK ==
    /\ since \in 0 .. Throttle /\ gap \in 0 .. Throttle
    /\ track \in [Tracks -> {"new", "waits", "synced"}]
    /\ cPaused \subseteq Tracks /\ broken \subseteq Tracks
    /\ rtcp \in [Tracks -> {"idle", "check", "note"}]
    /\ raced \subseteq {t \in Tracks : rtcp[t] = "note"}
    /\ worker \in [pc : {"idle", "write"}, key : BOOLEAN, at : 0 .. NTracks]
    /\ ended \in BOOLEAN /\ wire \in BOOLEAN /\ wanted \in BOOLEAN

\* While the buffer is open, a PLI that a receiver asked for leaves less than
\* pliThrottle after another only when that other was noted between its own
\* test of the throttle and its own note (SendPLI holds a read lock): requests
\* that do not overlap are throttled, whoever sent the PLI before.
PliThrottled ==
    [][\A t \in Tracks : PliNote(t) /\ ~ended => gap >= Throttle \/ t \in raced]_vars

Served(t) == track[t] # "new" /\ t \notin cPaused /\ ~ended

\* A down track that is bound and served gets its key frame although nobody but
\* itself asks for one and any single PLI or key frame may be lost.
Synced == \A t \in Tracks : <>[]Served(t) => []<>(track[t] = "synced")

\* A receiver that asks gets a key frame whenever it has lost a frame, although
\* its requests, and those of others, are held back by the throttle: the
\* throttle never starves it.
KeyFrameArrives == \A t \in Asking : <>[]Served(t) => []<>(t \notin broken)
=============================================================================
