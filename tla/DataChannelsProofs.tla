-------------------------- MODULE DataChannelsProofs --------------------------
(***************************************************************************)
(* Proofs about DataChannels, for any streams and any number of channels:  *)
(* what the router lists is ready, and messages reach the router unless    *)
(* the channel was announced during ProduceData for its stream.            *)
(*                                                                         *)
(* The argument: a stream has one open channel at most, so the channel     *)
(* that the listener stored last is the one that is open; ProduceData      *)
(* takes that one, and whatever is announced until it has stored its data  *)
(* producer counts as overlapping.                                         *)
(***************************************************************************)
EXTENDS DataChannels, TLAPS

\* OnMessage was called for data producers of the channel's own stream only.
HandlersFit == \A c \in DOMAIN channels : channels[c].handler # 0 =>
    dps[channels[c].handler].stream = channels[c].stream

\* A data producer has a channel of its stream.
ChannelsFit == \A n \in DOMAIN dps :
    dps[n].channel \in 1 .. accepted /\ channels[dps[n].channel].stream = dps[n].stream

\* The map of pending channels names channels of the right stream.
PendingFits == \A s \in Streams : pendingDataChannels[s] # 0 =>
    channels[pendingDataChannels[s]].stream = s

\* What the router and the transport list passes messages on.
ListedPass ==
    /\ \A n \in routed : dps[n].onMessage
    /\ \A s \in Streams : dataProducers[s] # 0 =>
         dps[dataProducers[s]].stream = s /\ dps[dataProducers[s]].onMessage

\* Only the last channel of a stream can be open.
LastOpen == \A c, d \in DOMAIN channels :
    c < d /\ channels[c].stream = channels[d].stream => channels[c].closed

\* Until a stream has a data producer, its open channel is the one that is
\* stored.
OpenIsPending == \A c \in 1 .. accepted :
    ~channels[c].closed /\ dataProducers[channels[c].stream] = 0 =>
        pendingDataChannels[channels[c].stream] = c

\* The channel that the listener is about to store overlaps with the ProduceData
\* that began, or ended, since it looked.
AnnouncedOverlaps ==
    listener # 0 /\ (dataProducers[channels[listener].stream] # 0
                       \/ producing(channels[listener].stream))
        => channels[listener].overlap

\* What the call of ProduceData relies on.
ProducingFits == produce.pc # "idle" =>
    /\ produce.stream \in Streams /\ dataProducers[produce.stream] = 0
    /\ produce.dc \in 1 .. accepted /\ channels[produce.dc].stream = produce.stream
    /\ \A c \in 1 .. accepted :
         channels[c].stream = produce.stream /\ ~channels[c].closed =>
             c = produce.dc \/ channels[c].overlap
    /\ produce.pc # "channel" =>
         /\ produce.dp \in DOMAIN dps /\ dps[produce.dp].stream = produce.stream
         /\ channels[produce.dc].handler = produce.dp
    /\ produce.pc \in {"route", "store"} => dps[produce.dp].onMessage

\* An open channel whose stream has a data producer has one that passes its
\* messages on.
OpenPass == \A c \in 1 .. accepted :
    ~channels[c].closed /\ dataProducers[channels[c].stream] # 0 =>
        \/ channels[c].overlap
        \/ channels[c].handler # 0 /\ dps[channels[c].handler].onMessage

IInv == /\ TypeOK /\ HandlersFit /\ ChannelsFit /\ PendingFits /\ ListedPass
        /\ LastOpen /\ OpenIsPending /\ AnnouncedOverlaps /\ ProducingFits /\ OpenPass
        /\ MessageReachesRouter

-----------------------------------------------------------------------------
\* Elements and length of a sequence.
LEMMA SeqFacts ==
    ASSUME NEW S, NEW q \in Seq(S)
    PROVE  /\ Len(q) \in Nat /\ DOMAIN q = 1 .. Len(q)
           /\ \A i \in 1 .. Len(q) : q[i] \in S
OBVIOUS

\* One element of a sequence replaced.
LEMMA SeqUpdate ==
    ASSUME NEW S, NEW q \in Seq(S), NEW i \in 1 .. Len(q), NEW v \in S
    PROVE  /\ [q EXCEPT ![i] = v] \in Seq(S) /\ Len([q EXCEPT ![i] = v]) = Len(q)
           /\ \A k \in 1 .. Len(q) : [q EXCEPT ![i] = v][k] = IF k = i THEN v ELSE q[k]
BY SeqFacts

\* One element added at the end of a sequence.
LEMMA SeqAppend ==
    ASSUME NEW S, NEW q \in Seq(S), NEW v \in S
    PROVE  /\ Append(q, v) \in Seq(S) /\ Len(Append(q, v)) = Len(q) + 1
           /\ \A k \in 1 .. Len(q) : Append(q, v)[k] = q[k]
           /\ Append(q, v)[Len(q) + 1] = v
BY SeqFacts

\* The fields of a channel.
LEMMA ChannelFields ==
    ASSUME NEW ch \in Channel
    PROVE  /\ ch.stream \in Streams /\ ch.closed \in BOOLEAN /\ ch.handler \in Nat
           /\ ch.overlap \in BOOLEAN
           /\ LET x == [ch EXCEPT !.closed = TRUE]
              IN  /\ x \in Channel /\ x.closed /\ x.stream = ch.stream
                  /\ x.handler = ch.handler /\ x.overlap = ch.overlap
           /\ LET x == [ch EXCEPT !.overlap = TRUE]
              IN  /\ x \in Channel /\ x.overlap /\ x.stream = ch.stream
                  /\ x.handler = ch.handler /\ x.closed = ch.closed
           /\ \A n \in Nat :
                LET x == [ch EXCEPT !.handler = n]
                IN  /\ x \in Channel /\ x.handler = n /\ x.stream = ch.stream
                    /\ x.closed = ch.closed /\ x.overlap = ch.overlap
<1>1. /\ ch.stream \in Streams /\ ch.closed \in BOOLEAN /\ ch.handler \in Nat
      /\ ch.overlap \in BOOLEAN
  BY DEF Channel
<1>2. LET x == [ch EXCEPT !.closed = TRUE]
      IN  /\ x \in Channel /\ x.closed /\ x.stream = ch.stream
          /\ x.handler = ch.handler /\ x.overlap = ch.overlap
  BY DEF Channel
<1>3. LET x == [ch EXCEPT !.overlap = TRUE]
      IN  /\ x \in Channel /\ x.overlap /\ x.stream = ch.stream
          /\ x.handler = ch.handler /\ x.closed = ch.closed
  BY DEF Channel
<1>4. ASSUME NEW n \in Nat
      PROVE  LET x == [ch EXCEPT !.handler = n]
             IN  /\ x \in Channel /\ x.handler = n /\ x.stream = ch.stream
                 /\ x.closed = ch.closed /\ x.overlap = ch.overlap
  BY DEF Channel
<1>5. QED
  BY <1>1, <1>2, <1>3, <1>4

\* A channel as the listener leaves it after its look for a data producer.
Looked(ch, n, b) == [ch EXCEPT !.handler = n, !.overlap = b]

\* The look changes the handler and the overlap.
LEMMA LookedFields ==
    ASSUME NEW ch \in Channel, NEW n \in Nat, NEW b \in BOOLEAN
    PROVE  /\ Looked(ch, n, b) \in Channel
           /\ Looked(ch, n, b).handler = n /\ Looked(ch, n, b).overlap = b
           /\ Looked(ch, n, b).stream = ch.stream /\ Looked(ch, n, b).closed = ch.closed
<1> DEFINE y == [ch EXCEPT !.handler = n]
           z == [y EXCEPT !.overlap = b]
<1>1. /\ y \in Channel /\ y.handler = n /\ y.stream = ch.stream /\ y.closed = ch.closed
  BY DEF Channel
<1> HIDE DEF y
<1>2. z \in Channel
  BY <1>1 DEF Channel
<1>3. z.handler = n /\ z.overlap = b /\ z.stream = ch.stream /\ z.closed = ch.closed
  BY <1>1 DEF Channel
<1>4. z = Looked(ch, n, b)
  BY DEF y, Looked
<1>5. QED
  BY <1>2, <1>3, <1>4

\* The fields of a data producer.
LEMMA DataProducerFields ==
    ASSUME NEW dp \in DataProducer
    PROVE  /\ dp.stream \in Streams /\ dp.channel \in Nat /\ dp.onMessage \in BOOLEAN
           /\ \A c \in Nat :
                LET x == [dp EXCEPT !.channel = c]
                IN  /\ x \in DataProducer /\ x.channel = c /\ x.stream = dp.stream
                    /\ x.onMessage = dp.onMessage
           /\ LET x == [dp EXCEPT !.onMessage = TRUE]
              IN  /\ x \in DataProducer /\ x.onMessage /\ x.stream = dp.stream
                  /\ x.channel = dp.channel
<1>1. dp.stream \in Streams /\ dp.channel \in Nat /\ dp.onMessage \in BOOLEAN
  BY DEF DataProducer
<1>2. ASSUME NEW c \in Nat
      PROVE  LET x == [dp EXCEPT !.channel = c]
             IN  /\ x \in DataProducer /\ x.channel = c /\ x.stream = dp.stream
                 /\ x.onMessage = dp.onMessage
  BY DEF DataProducer
<1>3. LET x == [dp EXCEPT !.onMessage = TRUE]
      IN  /\ x \in DataProducer /\ x.onMessage /\ x.stream = dp.stream
          /\ x.channel = dp.channel
  BY DEF DataProducer
<1>4. QED
  BY <1>1, <1>2, <1>3

\* What the sequences of the state hold.
LEMMA StateFacts ==
    ASSUME TypeOK
    PROVE  /\ Len(channels) \in Nat /\ DOMAIN channels = 1 .. Len(channels)
           /\ \A c \in 1 .. Len(channels) : channels[c] \in Channel
           /\ Len(dps) \in Nat /\ DOMAIN dps = 1 .. Len(dps)
           /\ \A n \in 1 .. Len(dps) : dps[n] \in DataProducer
           /\ accepted \in 0 .. Len(channels) /\ listener \in 0 .. Len(channels)
           /\ \A s \in Streams : /\ pendingDataChannels[s] \in 0 .. accepted
                                 /\ dataProducers[s] \in 0 .. Len(dps)
           /\ \A c \in 1 .. Len(channels) : /\ channels[c].stream \in Streams
                                            /\ channels[c].handler \in 0 .. Len(dps)
           /\ \A n \in routed : n \in 1 .. Len(dps)
<1>1. /\ Len(channels) \in Nat /\ DOMAIN channels = 1 .. Len(channels)
      /\ \A c \in 1 .. Len(channels) : channels[c] \in Channel
      /\ Len(dps) \in Nat /\ DOMAIN dps = 1 .. Len(dps)
      /\ \A n \in 1 .. Len(dps) : dps[n] \in DataProducer
  BY SeqFacts DEF TypeOK
<1>2. accepted \in 0 .. Len(channels) /\ listener \in 0 .. Len(channels)
  BY <1>1 DEF TypeOK
<1>3. \A s \in Streams : /\ pendingDataChannels[s] \in 0 .. accepted
                         /\ dataProducers[s] \in 0 .. Len(dps)
  BY DEF TypeOK
<1>4. \A c \in 1 .. Len(channels) : /\ channels[c].stream \in Streams
                                    /\ channels[c].handler \in 0 .. Len(dps)
  BY <1>1, ChannelFields DEF TypeOK
<1>5. \A n \in routed : n \in 1 .. Len(dps)
  BY <1>1 DEF TypeOK
<1>6. QED
  BY <1>1, <1>2, <1>3, <1>4, <1>5

\* A quiet step leaves nothing to show about messages.
LEMMA QuietKeeps == out' = Quiet => MessageReachesRouter'
BY DEF Quiet, MessageReachesRouter

-----------------------------------------------------------------------------
\* The client opens a channel: all channels of the stream before it are closed.
LEMMA OpenKeeps ==
    ASSUME IInv, NEW s \in Streams, Open(s)
    PROVE  IInv'
<1> DEFINE N == Len(channels)
           ch == [stream |-> s, closed |-> FALSE, handler |-> 0, overlap |-> FALSE]
<1>1. /\ N \in Nat /\ DOMAIN channels = 1 .. N
      /\ accepted \in 0 .. N /\ listener \in 0 .. N
  BY StateFacts DEF IInv
<1>2. /\ channels' \in Seq(Channel) /\ Len(channels') = N + 1
      /\ DOMAIN channels' = 1 .. (N + 1)
      /\ \A c \in 1 .. N : channels'[c] = channels[c]
      /\ channels'[N + 1] = ch
  <2>1. ch \in Channel
    BY DEF Channel
  <2>2. channels \in Seq(Channel) /\ channels' = Append(channels, ch)
    BY DEF IInv, TypeOK, Open
  <2> HIDE DEF ch
  <2>3. QED
    BY <2>1, <2>2, SeqAppend, SeqFacts
<1>3. ch.stream = s /\ ch.closed = FALSE /\ ch.handler = 0
  OBVIOUS
<1> HIDE DEF ch
<1>4. UNCHANGED <<accepted, listener, pendingDataChannels, dataProducers, dps, routed, produce,
                  session, fatal>>
  BY DEF Open
<1>5. TypeOK'
  <2>1. \A c \in DOMAIN channels' : channels'[c].handler \in 0 .. Len(dps)
    BY <1>1, <1>2, <1>3, StateFacts DEF IInv, TypeOK
  <2>2. QED
    BY <1>1, <1>2, <1>4, <2>1 DEF IInv, TypeOK
<1>6. HandlersFit' /\ ListedPass'
  BY <1>1, <1>2, <1>3, <1>4 DEF IInv, HandlersFit, ListedPass
<1>6a. ChannelsFit' /\ PendingFits'
  <2>1. ChannelsFit'
    BY <1>1, <1>2, <1>4 DEF IInv, ChannelsFit
  <2>2. PendingFits'
    BY <1>1, <1>2, <1>4, StateFacts DEF IInv, PendingFits
  <2>3. QED
    BY <2>1, <2>2
<1>7. LastOpen'
  BY <1>1, <1>2, <1>3 DEF IInv, LastOpen, Open
<1>8. OpenIsPending' /\ OpenPass'
  BY <1>1, <1>2, <1>4 DEF IInv, OpenIsPending, OpenPass
<1>9. AnnouncedOverlaps' /\ ProducingFits'
  BY <1>1, <1>2, <1>4 DEF IInv, AnnouncedOverlaps, ProducingFits, producing
<1>10. QED
  BY <1>5, <1>6, <1>6a, <1>7, <1>8, <1>9, QuietKeeps DEF IInv, Open

\* The client closes a channel.
LEMMA CloseKeeps ==
    ASSUME IInv, NEW c \in DOMAIN channels, CloseChannel(c)
    PROVE  IInv'
<1> DEFINE N == Len(channels)
           x == [channels[c] EXCEPT !.closed = TRUE]
<1>1. /\ N \in Nat /\ DOMAIN channels = 1 .. N /\ c \in 1 .. N
      /\ accepted \in 0 .. N /\ listener \in 0 .. N
  BY StateFacts DEF IInv
<1>2. /\ x \in Channel /\ x.closed /\ x.stream = channels[c].stream
      /\ x.handler = channels[c].handler /\ x.overlap = channels[c].overlap
  BY <1>1, StateFacts, ChannelFields DEF IInv
<1>3. channels \in Seq(Channel) /\ channels' = [channels EXCEPT ![c] = x]
  BY DEF IInv, TypeOK, CloseChannel
<1> HIDE DEF x
<1>4. /\ channels' \in Seq(Channel) /\ Len(channels') = N
      /\ DOMAIN channels' = 1 .. N
      /\ \A k \in 1 .. N : channels'[k] = IF k = c THEN x ELSE channels[k]
  BY <1>1, <1>2, <1>3, SeqUpdate, SeqFacts
<1>5. \A k \in 1 .. N : /\ channels'[k].stream = channels[k].stream
                        /\ channels'[k].handler = channels[k].handler
                        /\ channels'[k].overlap = channels[k].overlap
                        /\ channels[k].closed => channels'[k].closed
  BY <1>2, <1>4
<1>6. UNCHANGED <<accepted, listener, pendingDataChannels, dataProducers, dps, routed, produce,
                  session, fatal>>
  BY DEF CloseChannel
<1>7. TypeOK'
  BY <1>1, <1>4, <1>5, <1>6 DEF IInv, TypeOK
<1>8. HandlersFit' /\ ListedPass'
  BY <1>1, <1>4, <1>5, <1>6 DEF IInv, HandlersFit, ListedPass
<1>8a. ChannelsFit'
  BY <1>1, <1>5, <1>6 DEF IInv, ChannelsFit
<1>8b. PendingFits'
  <2>1. \A s \in Streams : pendingDataChannels[s] # 0 => pendingDataChannels[s] \in 1 .. N
    BY <1>1, StateFacts DEF IInv
  <2>2. QED
    BY <1>5, <1>6, <2>1 DEF IInv, PendingFits
<1>9. LastOpen' /\ OpenIsPending' /\ OpenPass'
  BY <1>1, <1>4, <1>5, <1>6 DEF IInv, LastOpen, OpenIsPending, OpenPass
<1>10. AnnouncedOverlaps' /\ ProducingFits'
  BY <1>1, <1>4, <1>5, <1>6 DEF IInv, AnnouncedOverlaps, ProducingFits, producing
<1>11. QED
  BY <1>7, <1>8, <1>8a, <1>8b, <1>9, <1>10, QuietKeeps DEF IInv, CloseChannel

\* A message changes nothing but what is known of it.
LEMMA MessageKeeps ==
    ASSUME IInv, NEW c \in DOMAIN channels, Message(c)
    PROVE  IInv'
<1>1. UNCHANGED <<channels, accepted, listener, pendingDataChannels, dataProducers, dps, routed,
                  produce, session, fatal>>
  BY DEF Message
<1>2. MessageReachesRouter'
  <2> DEFINE n == channels[c].handler
  <2>1. c \in 1 .. accepted /\ ~channels[c].closed
    BY StateFacts DEF IInv, TypeOK, Message
  <2>2. CASE n # 0 /\ dps[n].onMessage
    BY <1>1, <2>2 DEF Message, MessageReachesRouter, IInv, HandlersFit
  <2>3. CASE ~(n # 0 /\ dps[n].onMessage)
    BY <1>1, <2>1, <2>3 DEF Message, MessageReachesRouter, IInv, OpenPass
  <2>4. QED
    BY <2>2, <2>3
<1>3. QED
  BY <1>1, <1>2 DEF IInv, TypeOK, HandlersFit, ChannelsFit, PendingFits, ListedPass, LastOpen,
     OpenIsPending, AnnouncedOverlaps, ProducingFits, OpenPass, producing

\* A channel of a data producer is given a new channel and keeps passing
\* messages on.
LEMMA GivenChannel ==
    ASSUME TypeOK, NEW n \in 1 .. Len(dps), NEW c \in Nat,
           dps' = [dps EXCEPT ![n].channel = c]
    PROVE  /\ dps' \in Seq(DataProducer) /\ Len(dps') = Len(dps)
           /\ DOMAIN dps' = DOMAIN dps
           /\ \A k \in 1 .. Len(dps) :
                /\ dps'[k].stream = dps[k].stream /\ dps'[k].onMessage = dps[k].onMessage
                /\ dps'[k].channel = IF k = n THEN c ELSE dps[k].channel
<1> DEFINE x == [dps[n] EXCEPT !.channel = c]
<1>1. dps \in Seq(DataProducer) /\ dps' = [dps EXCEPT ![n] = x]
  BY DEF TypeOK
<1>2. /\ x \in DataProducer /\ x.channel = c /\ x.stream = dps[n].stream
      /\ x.onMessage = dps[n].onMessage
  BY StateFacts, DataProducerFields
<1> HIDE DEF x
<1>3. QED
  BY <1>1, <1>2, SeqUpdate, SeqFacts

\* The listener looks for a data producer of the stream.
LEMMA AnnounceKeeps ==
    ASSUME IInv, OnDataChannel
    PROVE  IInv'
<1> DEFINE N == Len(channels)
           c == accepted + 1
           s == channels[c].stream
           n == dataProducers[s]
           over == producing(s)
           x == Looked(channels[c], n, over)
<1>1. /\ N \in Nat /\ DOMAIN channels = 1 .. N /\ c \in 1 .. N /\ accepted \in 0 .. N
      /\ listener = 0 /\ c = accepted + 1 /\ s \in Streams /\ n \in 0 .. Len(dps)
      /\ Len(dps) \in Nat
  <2>1. c \in 1 .. N
    BY StateFacts DEF IInv, OnDataChannel
  <2>2. s \in Streams
    BY <2>1, StateFacts, ChannelFields DEF IInv
  <2>3. QED
    BY <2>1, <2>2, StateFacts DEF IInv, OnDataChannel
<1>2. /\ x \in Channel /\ x.handler = n /\ x.overlap = over
      /\ x.stream = s /\ x.closed = channels[c].closed
  <2>1. over \in BOOLEAN /\ n \in Nat /\ channels[c] \in Channel
    BY <1>1, StateFacts DEF IInv, producing
  <2>2. QED
    BY <2>1, LookedFields
<1>3. channels \in Seq(Channel) /\ channels' = [channels EXCEPT ![c] = x]
  BY DEF IInv, TypeOK, OnDataChannel, Looked
<1>4. /\ n # 0 => dps' = [dps EXCEPT ![n].channel = c] /\ accepted' = c /\ listener' = 0
      /\ n = 0 => dps' = dps /\ accepted' = accepted /\ listener' = c
  BY <1>1 DEF OnDataChannel
<1>5. UNCHANGED <<pendingDataChannels, dataProducers, routed, produce, session, fatal>>
  BY DEF OnDataChannel
<1> HIDE DEF x
<1>6. /\ channels' \in Seq(Channel) /\ Len(channels') = N
      /\ DOMAIN channels' = 1 .. N
      /\ \A k \in 1 .. N : channels'[k] = IF k = c THEN x ELSE channels[k]
  BY <1>1, <1>2, <1>3, SeqUpdate, SeqFacts
<1>7. /\ \A k \in 1 .. N : /\ channels'[k].stream = channels[k].stream
                           /\ channels'[k].closed = channels[k].closed
      /\ \A k \in 1 .. accepted : channels'[k] = channels[k]
      /\ channels'[c].handler = n /\ channels'[c].overlap = over
  BY <1>1, <1>2, <1>6
<1>8. /\ dps' \in Seq(DataProducer) /\ Len(dps') = Len(dps) /\ DOMAIN dps' = 1 .. Len(dps)
      /\ \A k \in 1 .. Len(dps) :
           /\ dps'[k].stream = dps[k].stream /\ dps'[k].onMessage = dps[k].onMessage
           /\ dps'[k].channel = IF n # 0 /\ k = n THEN c ELSE dps[k].channel
  <2>1. CASE n # 0
    <3>1. n \in 1 .. Len(dps) /\ c \in Nat
      BY <1>1, <2>1
    <3>2. QED
      BY <1>1, <1>4, <2>1, <3>1, GivenChannel, StateFacts, SMTT(20) DEF IInv
  <2>2. CASE n = 0
    BY <1>4, <2>2, StateFacts DEF IInv, TypeOK
  <2>3. QED
    BY <2>1, <2>2
<1>9. TypeOK'
  <2>1. \A k \in DOMAIN channels' : channels'[k].handler \in 0 .. Len(dps')
    BY <1>1, <1>2, <1>6, <1>8 DEF IInv, TypeOK
  <2>2. /\ accepted' \in 0 .. Len(channels')
        /\ listener' \in {0, accepted' + 1} /\ listener' <= Len(channels')
        /\ accepted <= accepted' /\ accepted' \in Nat
    BY <1>1, <1>4, <1>6
  <2>3. pendingDataChannels' \in [Streams -> 0 .. accepted']
    BY <1>1, <1>5, <2>2 DEF IInv, TypeOK
  <2>4. routed' \subseteq DOMAIN dps' /\ dataProducers' \in [Streams -> 0 .. Len(dps')]
    BY <1>5, <1>8, StateFacts DEF IInv, TypeOK
  <2>5. QED
    BY <1>5, <1>6, <1>8, <2>1, <2>2, <2>3, <2>4 DEF IInv, TypeOK
<1> HIDE DEF over
<1>10. n # 0 => dps[n].stream = s /\ dps[n].onMessage
  BY <1>1 DEF IInv, ListedPass
<1>11. HandlersFit' /\ ListedPass'
  <2>1. HandlersFit'
    <3>1. \A k \in 1 .. N : channels[k].handler \in 0 .. Len(dps)
      BY StateFacts DEF IInv
    <3>2. \A k \in 1 .. N : k # c => channels'[k] = channels[k]
      BY <1>6
    <3>3. n # 0 => n \in 1 .. Len(dps) /\ dps'[n].stream = s
      BY <1>1, <1>8, <1>10
    <3>4. SUFFICES ASSUME NEW k \in 1 .. N, channels'[k].handler # 0
                   PROVE  dps'[channels'[k].handler].stream = channels'[k].stream
      BY <1>6 DEF HandlersFit
    <3>5. CASE k = c
      BY <1>2, <1>6, <3>3, <3>4, <3>5
    <3>6. CASE k # c
      BY <1>1, <1>8, <3>1, <3>2, <3>4, <3>6 DEF IInv, HandlersFit
    <3>7. QED
      BY <3>5, <3>6
  <2>2. ListedPass'
    <3>1. /\ \A k \in routed : k \in 1 .. Len(dps)
          /\ \A t \in Streams : dataProducers[t] # 0 => dataProducers[t] \in 1 .. Len(dps)
      BY <1>1, StateFacts DEF IInv
    <3>2. QED
      BY <1>5, <1>8, <3>1 DEF IInv, ListedPass
  <2>3. QED
    BY <2>1, <2>2
<1>12. ChannelsFit' /\ PendingFits'
  <2>1. ChannelsFit'
    BY <1>1, <1>4, <1>6, <1>7, <1>8, <1>10, StateFacts DEF IInv, ChannelsFit
  <2>2. PendingFits'
    BY <1>1, <1>5, <1>7, StateFacts DEF IInv, PendingFits
  <2>3. QED
    BY <2>1, <2>2
<1>13. LastOpen'
  BY <1>1, <1>6, <1>7 DEF IInv, LastOpen
<1>14. OpenIsPending'
  BY <1>1, <1>4, <1>5, <1>7 DEF IInv, OpenIsPending
<1>15. OpenPass'
  <2>1. \A k \in 1 .. accepted : channels[k].handler \in 0 .. Len(dps)
    BY <1>1, StateFacts DEF IInv
  <2>2. \A k \in 1 .. accepted :
          ~channels'[k].closed /\ dataProducers'[channels'[k].stream] # 0 =>
              \/ channels'[k].overlap
              \/ channels'[k].handler # 0 /\ dps'[channels'[k].handler].onMessage
    BY <1>1, <1>5, <1>7, <1>8, <2>1 DEF IInv, OpenPass
  <2>3. n # 0 => channels'[c].handler # 0 /\ dps'[channels'[c].handler].onMessage
    BY <1>1, <1>7, <1>8, <1>10
  <2>4. QED
    BY <1>1, <1>4, <2>2, <2>3 DEF OpenPass
<1>16. AnnouncedOverlaps'
  BY <1>1, <1>4, <1>5, <1>7 DEF AnnouncedOverlaps, producing, over
<1>17. ProducingFits'
  <2>1. CASE n = 0
    BY <1>1, <1>4, <1>5, <1>7, <2>1 DEF IInv, ProducingFits
  <2>2. CASE n # 0
    <3>1. produce.pc # "idle" => produce.stream # s
      BY <2>2 DEF IInv, ProducingFits
    <3>2. QED
      BY <1>1, <1>4, <1>5, <1>7, <1>8, <2>2, <3>1, SMTT(20) DEF IInv, ProducingFits
  <2>3. QED
    BY <2>1, <2>2
<1>18. QED
  BY <1>9, <1>11, <1>12, <1>13, <1>14, <1>15, <1>16, <1>17, QuietKeeps DEF IInv, OnDataChannel

\* The listener stores a channel.
LEMMA StorePendingKeeps ==
    ASSUME IInv, StorePending
    PROVE  IInv'
<1> DEFINE s == channels[listener].stream
<1>1. /\ Len(channels) \in Nat /\ accepted \in Nat /\ listener = accepted + 1
      /\ listener \in 1 .. Len(channels) /\ s \in Streams
      /\ DOMAIN channels = 1 .. Len(channels)
  <2>1. /\ Len(channels) \in Nat /\ accepted \in Nat /\ listener = accepted + 1
        /\ listener \in 1 .. Len(channels) /\ DOMAIN channels = 1 .. Len(channels)
    BY StateFacts DEF IInv, TypeOK, StorePending
  <2>2. QED
    BY <2>1, StateFacts, ChannelFields DEF IInv
<1>2. /\ accepted' = accepted + 1 /\ listener' = 0
      /\ pendingDataChannels' = [pendingDataChannels EXCEPT ![s] = accepted + 1]
      /\ pendingDataChannels \in [Streams -> 0 .. accepted]
      /\ UNCHANGED <<channels, dataProducers, dps, routed, produce, session, fatal>>
  BY <1>1 DEF StorePending, IInv, TypeOK
<1>3. /\ \A t \in Streams : pendingDataChannels'[t] =
             IF t = s THEN accepted + 1 ELSE pendingDataChannels[t]
      /\ pendingDataChannels' \in [Streams -> 0 .. accepted']
  BY <1>1, <1>2
<1>4. TypeOK'
  BY <1>1, <1>2, <1>3 DEF IInv, TypeOK
<1>5. HandlersFit' /\ ListedPass' /\ LastOpen'
  BY <1>2 DEF IInv, HandlersFit, ListedPass, LastOpen
<1>6. ChannelsFit' /\ PendingFits'
  BY <1>1, <1>2, <1>3 DEF IInv, ChannelsFit, PendingFits
<1>7. channels[listener].overlap \/ (dataProducers[s] = 0 /\ ~producing(s))
  <2>1. listener # 0
    BY <1>1
  <2>2. QED
    BY <2>1 DEF IInv, AnnouncedOverlaps
<1>8. OpenIsPending'
  <2>1. \A k \in 1 .. accepted : channels[k].stream \in Streams
    BY <1>1, StateFacts DEF IInv
  <2>2. \A k \in 1 .. accepted : channels[k].stream = s => channels[k].closed
    BY <1>1 DEF IInv, LastOpen
  <2>3. QED
    BY <1>1, <1>2, <1>3, <2>1, <2>2 DEF IInv, OpenIsPending
<1>9. OpenPass'
  BY <1>1, <1>2, <1>7 DEF IInv, OpenPass
<1>10. AnnouncedOverlaps' /\ ProducingFits'
  BY <1>1, <1>2, <1>7 DEF IInv, AnnouncedOverlaps, ProducingFits, producing
<1>11. QED
  BY <1>4, <1>5, <1>6, <1>8, <1>9, <1>10, QuietKeeps DEF IInv, StorePending

\* ProduceData begins: the channel that the listener is about to store, if it is
\* one of the stream, overlaps from now on.
LEMMA ProduceKeeps ==
    ASSUME IInv, NEW s \in Streams, ProduceData(s)
    PROVE  IInv'
<1> DEFINE N == Len(channels)
           hit(k) == k = listener /\ channels[k].stream = s
<1>1. /\ N \in Nat /\ DOMAIN channels = 1 .. N
      /\ accepted \in 0 .. N /\ listener \in 0 .. N
  BY StateFacts DEF IInv
<1>2. /\ produce.pc = "idle" /\ dataProducers[s] = 0
      /\ pendingDataChannels[s] \in 1 .. accepted
      /\ produce' = [pc |-> "channel", stream |-> s, dc |-> pendingDataChannels[s], dp |-> 0]
      /\ UNCHANGED <<accepted, listener, pendingDataChannels, dataProducers, dps, routed,
                     session, fatal>>
  BY <1>1, StateFacts DEF IInv, ProduceData
<1>3. /\ channels' \in Seq(Channel) /\ Len(channels') = N /\ DOMAIN channels' = 1 .. N
      /\ \A k \in 1 .. N : /\ channels'[k].stream = channels[k].stream
                           /\ channels'[k].closed = channels[k].closed
                           /\ channels'[k].handler = channels[k].handler
                           /\ channels[k].overlap => channels'[k].overlap
                           /\ hit(k) => channels'[k].overlap
  <2> DEFINE x(k) == [channels[k] EXCEPT !.overlap = TRUE]
  <2>1. channels' = [k \in 1 .. N |-> IF hit(k) THEN x(k) ELSE channels[k]]
    BY <1>1 DEF ProduceData
  <2>2. \A k \in 1 .. N : /\ channels[k] \in Channel /\ x(k) \in Channel /\ x(k).overlap
                          /\ x(k).stream = channels[k].stream
                          /\ x(k).closed = channels[k].closed
                          /\ x(k).handler = channels[k].handler
    BY StateFacts, ChannelFields DEF IInv
  <2> HIDE DEF x, hit
  <2>3. channels' \in [1 .. N -> Channel]
    BY <2>1, <2>2
  <2>4. channels' \in Seq(Channel) /\ Len(channels') = N /\ DOMAIN channels' = 1 .. N
    BY <1>1, <2>3
  <2>5. QED
    BY <2>1, <2>2, <2>4
<1>4. TypeOK'
  <2>1. produce' \in Call
    BY <1>1, <1>2 DEF Call
  <2>2. \A k \in DOMAIN channels' : channels'[k].handler \in 0 .. Len(dps)
    BY <1>3, StateFacts DEF IInv
  <2>3. QED
    BY <1>2, <1>3, <2>1, <2>2 DEF IInv, TypeOK
<1>5. HandlersFit' /\ ListedPass' /\ LastOpen'
  BY <1>1, <1>2, <1>3 DEF IInv, HandlersFit, ListedPass, LastOpen
<1>6. ChannelsFit' /\ PendingFits'
  <2>1. ChannelsFit'
    BY <1>1, <1>2, <1>3 DEF IInv, ChannelsFit
  <2>2. PendingFits'
    BY <1>1, <1>2, <1>3, StateFacts DEF IInv, PendingFits
  <2>3. QED
    BY <2>1, <2>2
<1> HIDE DEF hit
<1>7. OpenIsPending' /\ OpenPass'
  <2>1. \A k \in 1 .. accepted : k \in 1 .. N
    BY <1>1
  <2>2. OpenIsPending'
    BY <1>2, <1>3, <2>1 DEF IInv, OpenIsPending
  <2>3. OpenPass'
    BY <1>2, <1>3, <2>1 DEF IInv, OpenPass
  <2>4. QED
    BY <2>2, <2>3
<1>8. AnnouncedOverlaps'
  BY <1>1, <1>2, <1>3 DEF hit, IInv, AnnouncedOverlaps, producing
<1>9. ProducingFits'
  BY <1>1, <1>2, <1>3 DEF hit, IInv, ProducingFits, OpenIsPending, PendingFits
<1>10. QED
  BY <1>4, <1>5, <1>6, <1>7, <1>8, <1>9, QuietKeeps DEF IInv, ProduceData

\* A data producer is made, and OnMessage of its channel is called for it.
LEMMA NewDataProducerKeeps ==
    ASSUME IInv, NewDataProducer
    PROVE  IInv'
<1> DEFINE N == Len(channels)
           D == Len(dps)
           s == produce.stream
           dc == produce.dc
           x == [channels[dc] EXCEPT !.handler = D + 1]
           y == [stream |-> s, channel |-> dc, onMessage |-> FALSE]
<1>1. /\ N \in Nat /\ DOMAIN channels = 1 .. N /\ D \in Nat /\ DOMAIN dps = 1 .. D
      /\ accepted \in 0 .. N /\ listener \in 0 .. N
  BY StateFacts DEF IInv
<1>2. /\ s \in Streams /\ dc \in 1 .. accepted /\ dc \in 1 .. N /\ channels[dc].stream = s
      /\ dataProducers[s] = 0 /\ produce.pc = "channel"
  BY <1>1 DEF IInv, ProducingFits, NewDataProducer
<1>3. /\ produce' = [produce EXCEPT !.pc = "handler", !.dp = D + 1]
      /\ UNCHANGED <<accepted, listener, pendingDataChannels, dataProducers, routed, session,
                     fatal>>
  BY DEF NewDataProducer, getNextId
<1>4. /\ produce'.pc = "handler" /\ produce'.stream = s /\ produce'.dc = dc
      /\ produce'.dp = D + 1 /\ produce' \in Call
  <2> DEFINE p == [produce EXCEPT !.pc = "handler"]
  <2>1. p \in Call /\ p.pc = "handler" /\ p.stream = s /\ p.dc = dc
    BY DEF IInv, TypeOK, Call
  <2>2. produce' = [p EXCEPT !.dp = D + 1]
    BY <1>3
  <2> HIDE DEF p
  <2>3. QED
    BY <1>1, <2>1, <2>2 DEF Call
<1>5. /\ channels' \in Seq(Channel) /\ Len(channels') = N /\ DOMAIN channels' = 1 .. N
      /\ \A k \in 1 .. N : /\ channels'[k].stream = channels[k].stream
                           /\ channels'[k].closed = channels[k].closed
                           /\ channels'[k].overlap = channels[k].overlap
                           /\ channels'[k].handler = IF k = dc THEN D + 1
                                                              ELSE channels[k].handler
  <2>1. /\ x \in Channel /\ x.handler = D + 1 /\ x.stream = channels[dc].stream
        /\ x.closed = channels[dc].closed /\ x.overlap = channels[dc].overlap
    BY <1>1, <1>2, StateFacts DEF IInv, Channel
  <2>2. channels \in Seq(Channel) /\ channels' = [channels EXCEPT ![dc] = x]
    BY DEF NewDataProducer, getNextId, IInv, TypeOK
  <2> HIDE DEF x
  <2>3. QED
    BY <1>1, <1>2, <2>1, <2>2, SeqUpdate, SeqFacts
<1>6. /\ dps' \in Seq(DataProducer) /\ Len(dps') = D + 1 /\ DOMAIN dps' = 1 .. (D + 1)
      /\ \A k \in 1 .. D : dps'[k] = dps[k]
      /\ dps'[D + 1].stream = s /\ dps'[D + 1].channel = dc
  <2>1. y \in DataProducer /\ y.stream = s /\ y.channel = dc
    BY <1>1, <1>2 DEF DataProducer
  <2>2. dps \in Seq(DataProducer) /\ dps' = Append(dps, y)
    BY DEF NewDataProducer, IInv, TypeOK
  <2> HIDE DEF y
  <2>3. QED
    BY <1>1, <2>1, <2>2, SeqAppend, SeqFacts
<1> HIDE DEF x, y
<1>7. TypeOK'
  <2>1. \A k \in DOMAIN channels' : channels'[k].handler \in 0 .. Len(dps')
    <3>1. \A k \in 1 .. N : channels[k].handler \in 0 .. D
      BY StateFacts DEF IInv
    <3>2. QED
      BY <1>1, <1>5, <1>6, <3>1
  <2>2. routed' \subseteq DOMAIN dps' /\ dataProducers' \in [Streams -> 0 .. Len(dps')]
    BY <1>1, <1>3, <1>6 DEF IInv, TypeOK
  <2>3. QED
    BY <1>3, <1>4, <1>5, <1>6, <2>1, <2>2 DEF IInv, TypeOK
<1>8. HandlersFit'
  <2>1. SUFFICES ASSUME NEW k \in 1 .. N, channels'[k].handler # 0
                 PROVE  dps'[channels'[k].handler].stream = channels'[k].stream
    BY <1>5 DEF HandlersFit
  <2>2. CASE k = dc
    BY <1>2, <1>5, <1>6, <2>2
  <2>3. CASE k # dc
    <3>1. channels'[k].handler = channels[k].handler /\ channels[k].handler \in 1 .. D
      BY <1>5, <2>1, <2>3, StateFacts DEF IInv
    <3>2. QED
      BY <1>1, <1>5, <1>6, <2>1, <3>1 DEF IInv, HandlersFit
  <2>4. QED
    BY <2>2, <2>3
<1>9. ListedPass'
  BY <1>1, <1>3, <1>6, StateFacts DEF IInv, ListedPass
<1>10. ChannelsFit'
  BY <1>1, <1>2, <1>3, <1>5, <1>6 DEF IInv, ChannelsFit
<1>11. PendingFits'
  BY <1>1, <1>3, <1>5, StateFacts DEF IInv, PendingFits
<1>12. LastOpen' /\ OpenIsPending'
  BY <1>1, <1>3, <1>5 DEF IInv, LastOpen, OpenIsPending
<1>13. AnnouncedOverlaps'
  BY <1>1, <1>2, <1>3, <1>4, <1>5 DEF IInv, AnnouncedOverlaps, producing
<1>14. ProducingFits'
  <2>1. \A k \in 1 .. accepted :
          channels[k].stream = s /\ ~channels[k].closed => k = dc \/ channels[k].overlap
    BY <1>2 DEF IInv, ProducingFits
  <2>2. \A k \in 1 .. accepted :
          channels'[k].stream = s /\ ~channels'[k].closed => k = dc \/ channels'[k].overlap
    BY <1>1, <1>5, <2>1
  <2>3. /\ D + 1 \in DOMAIN dps' /\ channels'[dc].handler = D + 1
        /\ channels'[dc].stream = s
    BY <1>1, <1>2, <1>5, <1>6
  <2>4. QED
    BY <1>2, <1>3, <1>4, <1>6, <2>2, <2>3 DEF ProducingFits
<1>15. OpenPass'
  <2>1. \A k \in 1 .. accepted : channels[k].handler \in 0 .. D
    BY <1>1, StateFacts DEF IInv
  <2>2. SUFFICES ASSUME NEW k \in 1 .. accepted, ~channels[k].closed,
                        dataProducers[channels[k].stream] # 0, ~channels[k].overlap
                 PROVE  channels'[k].handler # 0 /\ dps'[channels'[k].handler].onMessage
    BY <1>1, <1>3, <1>5 DEF OpenPass
  <2>3. channels[k].handler \in 1 .. D /\ dps[channels[k].handler].onMessage
    BY <2>1, <2>2 DEF IInv, OpenPass
  <2>4. k \in 1 .. N /\ k # dc
    BY <1>1, <1>2, <2>2
  <2>5. QED
    BY <1>5, <1>6, <2>3, <2>4
<1>16. QED
  BY <1>7, <1>8, <1>9, <1>10, <1>11, <1>12, <1>13, <1>14, <1>15, QuietKeeps
     DEF IInv, NewDataProducer

\* The data producer is told to pass messages on.
LEMMA OnMessageKeeps ==
    ASSUME IInv, OnMessage
    PROVE  IInv'
<1> DEFINE D == Len(dps)
           n == produce.dp
           x == [dps[n] EXCEPT !.onMessage = TRUE]
<1>1. /\ D \in Nat /\ DOMAIN dps = 1 .. D /\ produce.pc = "handler" /\ n \in 1 .. D
  BY StateFacts DEF IInv, ProducingFits, OnMessage
<1>2. /\ produce'.pc = "route" /\ produce'.stream = produce.stream
      /\ produce'.dc = produce.dc /\ produce'.dp = n /\ produce' \in Call
  BY DEF OnMessage, IInv, TypeOK, Call
<1>3. UNCHANGED <<channels, accepted, listener, pendingDataChannels, dataProducers, routed,
                  session, fatal>>
  BY DEF OnMessage
<1>4. /\ dps' \in Seq(DataProducer) /\ Len(dps') = D /\ DOMAIN dps' = 1 .. D
      /\ \A k \in 1 .. D : /\ dps'[k].stream = dps[k].stream
                           /\ dps'[k].channel = dps[k].channel
                           /\ dps[k].onMessage => dps'[k].onMessage
      /\ dps'[n].onMessage
  <2>1. /\ x \in DataProducer /\ x.onMessage /\ x.stream = dps[n].stream
        /\ x.channel = dps[n].channel
    BY <1>1, StateFacts, DataProducerFields DEF IInv
  <2>2. dps \in Seq(DataProducer) /\ dps' = [dps EXCEPT ![n] = x]
    BY DEF OnMessage, IInv, TypeOK
  <2> HIDE DEF x
  <2>3. QED
    BY <1>1, <2>1, <2>2, SeqUpdate, SeqFacts
<1> HIDE DEF x
<1>5. TypeOK'
  BY <1>1, <1>2, <1>3, <1>4 DEF IInv, TypeOK
<1>6. HandlersFit' /\ ListedPass'
  <2>1. HandlersFit'
    <3>1. \A k \in DOMAIN channels : channels[k].handler \in 0 .. D
      BY DEF IInv, TypeOK
    <3>2. QED
      BY <1>1, <1>3, <1>4, <3>1 DEF IInv, HandlersFit
  <2>2. ListedPass'
    <3>1. /\ \A k \in routed : k \in 1 .. D
          /\ \A t \in Streams : dataProducers[t] # 0 => dataProducers[t] \in 1 .. D
      BY <1>1, StateFacts DEF IInv
    <3>2. QED
      BY <1>3, <1>4, <3>1 DEF IInv, ListedPass
  <2>3. QED
    BY <2>1, <2>2
<1>7. ChannelsFit' /\ PendingFits' /\ LastOpen' /\ OpenIsPending'
  BY <1>1, <1>3, <1>4 DEF IInv, ChannelsFit, PendingFits, LastOpen, OpenIsPending
<1>8. AnnouncedOverlaps'
  BY <1>1, <1>2, <1>3 DEF IInv, AnnouncedOverlaps, producing
<1>9. ProducingFits'
  BY <1>1, <1>2, <1>3, <1>4 DEF IInv, ProducingFits
<1>10. OpenPass'
  <2>1. \A k \in 1 .. accepted : channels[k].handler \in 0 .. D
    BY StateFacts DEF IInv
  <2>2. QED
    BY <1>1, <1>3, <1>4, <2>1 DEF IInv, OpenPass
<1>11. QED
  BY <1>5, <1>6, <1>7, <1>8, <1>9, <1>10, QuietKeeps DEF IInv, OnMessage

\* The router lists the data producer, which passes messages on by now.
LEMMA AddDataProducerKeeps ==
    ASSUME IInv, AddDataProducer
    PROVE  IInv'
<1>1. /\ produce.pc = "route" /\ produce'.pc = "store" /\ produce'.stream = produce.stream
      /\ produce'.dc = produce.dc /\ produce'.dp = produce.dp /\ produce' \in Call
  BY DEF AddDataProducer, IInv, TypeOK, Call
<1>2. /\ routed' = routed \cup {produce.dp}
      /\ UNCHANGED <<channels, accepted, listener, pendingDataChannels, dataProducers, dps,
                     session, fatal>>
  BY DEF AddDataProducer
<1>3. produce.dp \in DOMAIN dps /\ dps[produce.dp].onMessage
  BY <1>1 DEF IInv, ProducingFits
<1>4. TypeOK'
  BY <1>1, <1>2, <1>3 DEF IInv, TypeOK
<1>5. HandlersFit' /\ ListedPass' /\ ChannelsFit' /\ PendingFits' /\ LastOpen'
  BY <1>2, <1>3 DEF IInv, HandlersFit, ListedPass, ChannelsFit, PendingFits, LastOpen
<1>6. OpenIsPending' /\ OpenPass'
  BY <1>2 DEF IInv, OpenIsPending, OpenPass
<1>7. AnnouncedOverlaps' /\ ProducingFits'
  BY <1>1, <1>2 DEF IInv, AnnouncedOverlaps, ProducingFits, producing
<1>8. QED
  BY <1>4, <1>5, <1>6, <1>7, QuietKeeps DEF IInv, AddDataProducer

\* The transport lists the data producer: its channel has it as its handler, and
\* every other open channel of the stream overlapped.
LEMMA StoreDataProducerKeeps ==
    ASSUME IInv, StoreDataProducer
    PROVE  IInv'
<1> DEFINE s == produce.stream
           n == produce.dp
<1>1. /\ produce.pc = "store" /\ s \in Streams /\ n \in DOMAIN dps /\ n \in 1 .. Len(dps)
      /\ n # 0 /\ dps[n].stream = s /\ dps[n].onMessage
  BY StateFacts DEF IInv, ProducingFits, StoreDataProducer
<1>2. /\ dataProducers' = [dataProducers EXCEPT ![s] = n]
      /\ dataProducers \in [Streams -> 0 .. Len(dps)] /\ produce' = NoCall
      /\ UNCHANGED <<channels, accepted, listener, pendingDataChannels, dps, routed, session,
                     fatal>>
  BY DEF StoreDataProducer, IInv, TypeOK
<1>3. /\ \A t \in Streams : dataProducers'[t] = IF t = s THEN n ELSE dataProducers[t]
      /\ dataProducers' \in [Streams -> 0 .. Len(dps)]
  BY <1>1, <1>2, StateFacts DEF IInv
<1>4. NoCall \in Call /\ NoCall.pc = "idle"
  BY DEF NoCall, Call
<1>5. TypeOK'
  BY <1>2, <1>3, <1>4 DEF IInv, TypeOK
<1>6. HandlersFit' /\ ChannelsFit' /\ PendingFits' /\ LastOpen'
  BY <1>2 DEF IInv, HandlersFit, ChannelsFit, PendingFits, LastOpen
<1>7. ListedPass'
  BY <1>1, <1>2, <1>3 DEF IInv, ListedPass
<1>8. \A k \in 1 .. Len(channels) : channels[k].stream \in Streams
  BY StateFacts DEF IInv
<1>9. OpenIsPending'
  <2>1. \A k \in 1 .. accepted : channels[k].stream \in Streams
    BY <1>8, StateFacts DEF IInv
  <2>2. QED
    BY <1>1, <1>2, <1>3, <2>1 DEF IInv, OpenIsPending
<1>10. OpenPass'
  <2>1. \A k \in 1 .. accepted : channels[k].stream \in Streams
    BY <1>8, StateFacts DEF IInv
  <2>2. \A k \in 1 .. accepted : channels[k].stream = s /\ ~channels[k].closed =>
          channels[k].overlap \/ channels[k].handler = n
    BY <1>1 DEF IInv, ProducingFits
  <2>3. QED
    BY <1>1, <1>2, <1>3, <2>1, <2>2 DEF IInv, OpenPass
<1>11. AnnouncedOverlaps'
  <2>1. listener # 0 => listener \in 1 .. Len(channels)
    BY StateFacts DEF IInv
  <2>2. QED
    BY <1>1, <1>2, <1>3, <1>4, <1>8, <2>1 DEF IInv, AnnouncedOverlaps, producing
<1>12. ProducingFits'
  BY <1>2, <1>4 DEF ProducingFits
<1>13. QED
  BY <1>5, <1>6, <1>7, <1>9, <1>10, <1>11, <1>12, QuietKeeps DEF IInv, StoreDataProducer

-----------------------------------------------------------------------------
\* The invariant holds before the client opens a channel.
LEMMA InitIInv == Init => IInv
<1> SUFFICES ASSUME Init PROVE IInv
  OBVIOUS
<1>1. Len(channels) = 0 /\ Len(dps) = 0 /\ DOMAIN channels = {} /\ DOMAIN dps = {}
      /\ channels \in Seq(Channel) /\ dps \in Seq(DataProducer)
  BY DEF Init
<1>2. NoCall \in Call /\ NoCall.pc = "idle"
  BY DEF NoCall, Call
<1>3. TypeOK
  <2>1. accepted = 0 /\ listener = 0 /\ routed = {} /\ produce = NoCall /\ session /\ ~fatal
    BY DEF Init
  <2>2. /\ pendingDataChannels \in [Streams -> 0 .. 0]
        /\ dataProducers \in [Streams -> 0 .. 0]
    BY DEF Init
  <2>3. session \in BOOLEAN /\ fatal \in BOOLEAN
    BY DEF Init
  <2>4. QED
    BY <1>1, <1>2, <2>1, <2>2, <2>3 DEF TypeOK
<1>4. HandlersFit /\ ChannelsFit /\ PendingFits /\ ListedPass /\ LastOpen
  BY <1>1 DEF Init, HandlersFit, ChannelsFit, PendingFits, ListedPass, LastOpen
<1>5. OpenIsPending /\ AnnouncedOverlaps /\ ProducingFits /\ OpenPass
  BY <1>2 DEF Init, OpenIsPending, AnnouncedOverlaps, ProducingFits, OpenPass
<1>6. QED
  BY <1>3, <1>4, <1>5 DEF IInv, Init, Quiet, MessageReachesRouter

\* Every step keeps the invariant.
LEMMA StepIInv == IInv /\ [Next]_vars => IInv'
<1> SUFFICES ASSUME IInv, [Next]_vars PROVE IInv'
  OBVIOUS
<1>1. ASSUME NEW n \in DOMAIN dps, ConsumeData(n) PROVE IInv'
  BY <1>1, QuietKeeps
     DEF ConsumeData, IInv, TypeOK, HandlersFit, ChannelsFit, PendingFits, ListedPass, LastOpen,
         OpenIsPending, AnnouncedOverlaps, ProducingFits, OpenPass, producing
<1>2. ASSUME MapRace PROVE IInv'
  BY <1>2, QuietKeeps
     DEF MapRace, IInv, TypeOK, HandlersFit, ChannelsFit, PendingFits, ListedPass, LastOpen,
         OpenIsPending, AnnouncedOverlaps, ProducingFits, OpenPass, producing
<1>3. CASE UNCHANGED vars
  BY <1>3
     DEF vars, IInv, TypeOK, HandlersFit, ChannelsFit, PendingFits, ListedPass, LastOpen,
         OpenIsPending, AnnouncedOverlaps, ProducingFits, OpenPass, producing,
         MessageReachesRouter
<1>4. QED
  BY <1>1, <1>2, <1>3, OpenKeeps, CloseKeeps, MessageKeeps, AnnounceKeeps, StorePendingKeeps,
     ProduceKeeps, NewDataProducerKeeps, OnMessageKeeps, AddDataProducerKeeps,
     StoreDataProducerKeeps DEF Next

-----------------------------------------------------------------------------
\* The maps of the transport and of the router name only channels that were
\* announced and data producers that were made.
THEOREM TypeCorrect == Spec => []TypeOK
<1>1. IInv => TypeOK
  BY DEF IInv
<1>2. QED
  BY <1>1, InitIInv, StepIInv, PTL DEF Spec

\* What AddDataProducer puts into the router is ready to be consumed: it has a
\* channel of its stream, also after the client opened the stream again, and
\* OnMessage was called for it.
THEOREM ListedIsReady == Spec => []ReadyWhenListed
<1>1. IInv => ReadyWhenListed
  BY StateFacts DEF IInv, ChannelsFit, ListedPass, ReadyWhenListed
<1>2. QED
  BY <1>1, InitIInv, StepIInv, PTL DEF Spec

\* Messages of an open channel reach the router through the data producer of the
\* stream, unless the channel was announced while ProduceData was under way.
THEOREM MessagesReachRouter == Spec => []MessageReachesRouter
<1>1. IInv => MessageReachesRouter
  BY DEF IInv
<1>2. QED
  BY <1>1, InitIInv, StepIInv, PTL DEF Spec
=============================================================================
