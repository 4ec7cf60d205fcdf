----------------------------- MODULE DataChannels -----------------------------
(***************************************************************************)
(* The data channels of one producing transport, its data producers and a  *)
(* session that asks to consume them (pkg/rtc/webrtc_transport.go,         *)
(* data_producer.go, data_consumer.go, router.go).                         *)
(*                                                                         *)
(* Two goroutines work on the transport's maps without a lock: the peer's  *)
(* session (ProduceData) and the SCTP transport's, which announces one     *)
(* channel after another to the listener and lets messages through when    *)
(* the listener has returned.  The client opens a channel on a stream,     *)
(* closes it, and may open the next on the same stream.                    *)
(*                                                                         *)
(* ConsumeData never yields a data consumer: NewDataConsumer follows the   *)
(* pointers of both limits of a channel, and a channel has at most one.    *)
(* net/http catches the panic, and the session is over.  Hence router      *)
(* dataConsumers is empty, and OnDataChannelMessage is where messages end. *)
(***************************************************************************)
EXTENDS Integers, Sequences

CONSTANTS Streams,      \* stream identifiers
          MaxChannels   \* bound on the channels the client opens

ASSUME DataChannelsConstants == MaxChannels \in Nat \ {0}

VARIABLES channels,             \* the channels opened, in order; handler is the
                                \* data producer that OnMessage was called for
          accepted,             \* how many of them the listener is done with
          listener,             \* the channel the listener is about to store
          pendingDataChannels,  \* stream -> channel, 0 for none; never removed
          dataProducers,        \* stream -> data producer, 0 for none
          dps,                  \* the data producers made, by their Id
          routed,               \* router.dataProducers
          produce,              \* the call of ProduceData in progress
          session,              \* the consuming session is still there
          out,                  \* what became of the last message
          fatal                 \* the runtime found a concurrent map access

vars == <<channels, accepted, listener, pendingDataChannels, dataProducers, dps,
          routed, produce, session, out, fatal>>

NoCall == [pc |-> "idle", stream |-> 0, dc |-> 0, dp |-> 0]
Quiet == [kind |-> "none"]

Init == /\ channels = <<>> /\ accepted = 0 /\ listener = 0
        /\ pendingDataChannels = [s \in Streams |-> 0]
        /\ dataProducers = [s \in Streams |-> 0]
        /\ dps = <<>> /\ routed = {}
        /\ produce = NoCall
        /\ session = TRUE
        /\ out = Quiet /\ fatal = FALSE

-----------------------------------------------------------------------------
(* The client.                                                             *)

Open(s) ==
    /\ Len(channels) < MaxChannels
    /\ \A c \in DOMAIN channels : channels[c].stream = s => channels[c].closed
    /\ channels' = Append(channels, [stream |-> s, closed |-> FALSE, handler |-> 0,
                                     overlap |-> FALSE])
    /\ out' = Quiet
    /\ UNCHANGED <<accepted, listener, pendingDataChannels, dataProducers, dps,
                   routed, produce, session, fatal>>

CloseChannel(c) ==
    /\ ~channels[c].closed
    /\ channels' = [channels EXCEPT ![c].closed = TRUE]
    /\ out' = Quiet
    /\ UNCHANGED <<accepted, listener, pendingDataChannels, dataProducers, dps,
                   routed, produce, session, fatal>>

\* handleMessage and Router.OnDataChannelMessage, or nobody.
Message(c) ==
    /\ c <= accepted /\ ~channels[c].closed
    /\ LET n == channels[c].handler
       IN  out' = IF n # 0 /\ dps[n].onMessage THEN [kind |-> "routed", dc |-> c, dp |-> n]
                                               ELSE [kind |-> "lost", dc |-> c]
    /\ UNCHANGED <<channels, accepted, listener, pendingDataChannels, dataProducers,
                   dps, routed, produce, session, fatal>>

-----------------------------------------------------------------------------
(* The listener of OnDataChannel.                                          *)

\* ProduceData for the stream is under way.
producing(s) == produce.pc # "idle" /\ produce.stream = s

\* Mutant: a data producer keeps the channel it has.
OnDataChannelKeeps ==
    /\ listener = 0 /\ accepted < Len(channels)
    /\ LET c == accepted + 1
           s == channels[c].stream
       IN  IF dataProducers[s] # 0 THEN accepted' = c /\ UNCHANGED <<channels, listener>>
           ELSE /\ channels' = [channels EXCEPT ![c].overlap = producing(s)]
                /\ listener' = c /\ UNCHANGED accepted
    /\ out' = Quiet
    /\ UNCHANGED <<pendingDataChannels, dataProducers, dps, routed, produce, session, fatal>>

\* The look for a data producer of the stream: it gets the channel ...
OnDataChannel ==
    /\ listener = 0 /\ accepted < Len(channels)
    /\ LET c == accepted + 1
           s == channels[c].stream
           n == dataProducers[s]
       IN  /\ channels' = [channels EXCEPT ![c].handler = n, ![c].overlap = producing(s)]
           /\ IF n # 0 THEN /\ dps' = [dps EXCEPT ![n].channel = c]
                            /\ accepted' = c /\ UNCHANGED listener
                       ELSE listener' = c /\ UNCHANGED <<dps, accepted>>
    /\ out' = Quiet
    /\ UNCHANGED <<pendingDataChannels, dataProducers, routed, produce, session, fatal>>

\* ... or it is stored for one to come.
StorePending ==
    /\ listener # 0
    /\ pendingDataChannels' = [pendingDataChannels EXCEPT ![channels[listener].stream] = listener]
    /\ accepted' = listener /\ listener' = 0
    /\ out' = Quiet
    /\ UNCHANGED <<channels, dataProducers, dps, routed, produce, session, fatal>>

-----------------------------------------------------------------------------
(* ProduceData and ConsumeData.                                            *)

\* A stream that has a data producer, or no channel, is refused.
ProduceData(s) ==
    /\ produce.pc = "idle"
    /\ dataProducers[s] = 0 /\ pendingDataChannels[s] # 0
    /\ produce' = [pc |-> "channel", stream |-> s, dc |-> pendingDataChannels[s], dp |-> 0]
    /\ channels' = [c \in DOMAIN channels |->
                      IF c = listener /\ channels[c].stream = s
                        THEN [channels[c] EXCEPT !.overlap = TRUE] ELSE channels[c]]
    /\ out' = Quiet
    /\ UNCHANGED <<accepted, listener, pendingDataChannels, dataProducers, dps, routed,
                   session, fatal>>

getNextId == Len(dps) + 1

\* Mutant: the new data producer waits for the listener to give it a channel.
NewDataProducerBare ==
    /\ produce.pc = "channel"
    /\ dps' = Append(dps, [stream |-> produce.stream, channel |-> 0, onMessage |-> FALSE])
    /\ produce' = [produce EXCEPT !.pc = "handler", !.dp = getNextId]
    /\ out' = Quiet
    /\ UNCHANGED <<channels, accepted, listener, pendingDataChannels, dataProducers, routed,
                   session, fatal>>

NewDataProducer ==
    /\ produce.pc = "channel"
    /\ dps' = Append(dps, [stream |-> produce.stream, channel |-> produce.dc,
                           onMessage |-> FALSE])
    /\ channels' = [channels EXCEPT ![produce.dc].handler = getNextId]
    /\ produce' = [produce EXCEPT !.pc = "handler", !.dp = getNextId]
    /\ out' = Quiet
    /\ UNCHANGED <<accepted, listener, pendingDataChannels, dataProducers, routed,
                   session, fatal>>

OnMessage ==
    /\ produce.pc = "handler"
    /\ dps' = [dps EXCEPT ![produce.dp].onMessage = TRUE]
    /\ produce' = [produce EXCEPT !.pc = "route"]
    /\ out' = Quiet
    /\ UNCHANGED <<channels, accepted, listener, pendingDataChannels, dataProducers,
                   routed, session, fatal>>

AddDataProducer ==
    /\ produce.pc = "route"
    /\ routed' = routed \cup {produce.dp}
    /\ produce' = [produce EXCEPT !.pc = "store"]
    /\ out' = Quiet
    /\ UNCHANGED <<channels, accepted, listener, pendingDataChannels, dataProducers,
                   dps, session, fatal>>

StoreDataProducer ==
    /\ produce.pc = "store"
    /\ dataProducers' = [dataProducers EXCEPT ![produce.stream] = produce.dp]
    /\ produce' = NoCall
    /\ out' = Quiet
    /\ UNCHANGED <<channels, accepted, listener, pendingDataChannels, dps, routed,
                   session, fatal>>

\* For a data producer the router has.  NewDataChannel refuses while the
\* consuming transport has no SCTP association; else NewDataConsumer panics.
ConsumeData(n) ==
    /\ session
    /\ n \in routed
    /\ session' = FALSE
    /\ out' = Quiet
    /\ UNCHANGED <<channels, accepted, listener, pendingDataChannels, dataProducers, dps,
                   routed, produce, fatal>>

\* One goroutine is about to write a map that another is about to use.
MapRace ==
    /\ \/ /\ produce.pc = "store"                           \* t.dataProducers
          /\ listener = 0 /\ accepted < Len(channels)
       \/ listener # 0 /\ produce.pc = "idle"               \* pendingDataChannels
       \/ produce.pc = "route" /\ session                   \* router.dataProducers
    /\ fatal' = TRUE /\ out' = Quiet
    /\ UNCHANGED <<channels, accepted, listener, pendingDataChannels, dataProducers, dps,
                   routed, produce, session>>

Next ==
    /\ ~fatal
    /\ \/ \E s \in Streams : Open(s) \/ ProduceData(s)
       \/ \E c \in DOMAIN channels : CloseChannel(c) \/ Message(c)
       \/ OnDataChannel \/ StorePending
       \/ NewDataProducer \/ OnMessage \/ AddDataProducer \/ StoreDataProducer
       \/ \E n \in DOMAIN dps : ConsumeData(n)
       \/ MapRace

Spec == Init /\ [][Next]_vars

-----------------------------------------------------------------------------
Channel == [stream : Streams, closed : BOOLEAN, handler : Nat, overlap : BOOLEAN]
DataProducer == [stream : Streams, channel : Nat, onMessage : BOOLEAN]
Call == [pc : {"idle", "channel", "handler", "route", "store"}, stream : Streams \cup {0},
         dc : Nat, dp : Nat]

\* The maps name only channels the listener is done with and data producers that
\* were made.
TypeOK ==
    /\ channels \in Seq(Channel) /\ dps \in Seq(DataProducer)
    /\ accepted \in 0 .. Len(channels)
    /\ listener \in {0, accepted + 1} /\ listener <= Len(channels)
    /\ \A c \in DOMAIN channels : channels[c].handler \in 0 .. Len(dps)
    /\ pendingDataChannels \in [Streams -> 0 .. accepted]
    /\ dataProducers \in [Streams -> 0 .. Len(dps)]
    /\ routed \subseteq DOMAIN dps
    /\ produce \in Call
    /\ session \in BOOLEAN /\ fatal \in BOOLEAN

\* ConsumeData follows the channel of every data producer the router has: it is
\* the channel of its stream, and messages on it are passed on.
ReadyWhenListed ==
    \A n \in routed : /\ dps[n].channel # 0 /\ dps[n].onMessage
                      /\ channels[dps[n].channel].stream = dps[n].stream

\* A message on an open channel whose stream has a data producer reaches the
\* router through that data producer, however often the client opened the stream
\* again, unless the channel was announced while ProduceData was under way for
\* it (each then misses what the other stores).
MessageReachesRouter ==
    /\ out.kind = "lost" => \/ dataProducers[channels[out.dc].stream] = 0
                            \/ channels[out.dc].overlap
    /\ out.kind = "routed" => dps[out.dp].stream = channels[out.dc].stream
=============================================================================
