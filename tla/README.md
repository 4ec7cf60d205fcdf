# A TLA+ verification of go-ortc

go-ortc is a selective forwarding unit: peers send audio and video packets
(producers) and receive those of others (consumers), without SDP, through the
ORTC API of pion/webrtc. This directory models the parts of it that carry state,
checks them with TLC on small instances and proves, with TLAPS, the safety
properties of most of them for every instance. Paths below are relative to the
repository's root.

## 1. Inventory

| Part | State | Operations | Interacts through |
|---|---|---|---|
| Signalling server (`cmd/ws.go`, `room.go`, `peer.go`) | rooms, peers of a room, a peer's transports, producers and consumers, `errCh` of a request | `ServeHTTP`, `handle`, `HandleIncomingMessage` | calls on router and transports; a callback per reply |
| Router (`pkg/rtc/router.go`) | maps of transports, producers, consumers, and the consumer numbers of each producer | `NewWebRTCTransport`, `AddProducer`, `AddConsumer`, `OnRTPPacket`, `Close` | called by transports and by every producer's worker; no lock |
| WebRTC transport (`webrtc_transport.go`) | `closed`, its producers and consumers, counters for numbers, ICE/DTLS/SCTP | `Connect`, `Produce`, `Consume`, `Close` | peer's goroutine and the ICE callback |
| Producer (`producer.go`) | `closed`, `paused`, `closeCh`, its buffer | `readRTPWorker`, `Close`, `Pause` | one goroutine; reads the buffer, calls the router |
| Consumer (`consumer.go`) | `closed`, `paused`, `closeCh` | `Write`, `Pause`, `Resume`, `Close`, two RTCP workers | called by producers' workers |
| Down track (`downtrack.go`) | `bound`, `enabled`, `syncRequired`, number offset | `Bind`, `Unbind`, `WriteRTP`, `Mute`, `handleRTCP`, `retransmitPackets`, `Close` | producer's worker, RTCP callback, a goroutine per NACK, API callers |
| Sequencer (`sequencer.go`) | two rings: slots by outgoing number, records | `push`, `pushPadding`, `getPacketsMeta`, `setRTT` | a mutex; records escape as pointers |
| Packet buffer (`pkg/buffer/buffer.go`) | pending packets, bucket, queue to the reader, NACK queue, throttle of PLIs | `Bind`, `Write`, `ReadExtended`, `GetPacket`, `SendPLI`, `Close` | pion writes, a worker reads, retransmissions read |
| Factory and pools (`factory.go`) | SSRC to buffer, memory pools | `GetOrNew`, `GetBufferPair` | pion, router, `Close` of a buffer |
| RTP statistics (`rtpstats.go`) | extended numbers, loss, duplicates, ring of the last packets, snapshots, the publisher's last sender report, round-trip time, time of the last PLI | `Update`, `NewSnapshotId`, reports, `Stop` | called by buffers and down tracks |
| RTCP reader (`rtcpreader.go`) | a callback | `Write`, `OnPacket`, `Close` | pion, down track, producer |
| Data channels (`data_*.go`) | pending channels, data producers by stream and by number | `ProduceData`, `ConsumeData`, the listener of `OnDataChannel` | SCTP callbacks, peers, router; no lock |
| Payload parsing (`helpers.go`) | - | `VP8.Unmarshal`, `MarshalTo`, `IsH264Keyframe`, `IsAV1Keyframe` | called by the buffer; decides what a down track may start with |
| Frame rate (`fps.go`) | base frame, ring of frames, rates | `RecvPacket`, `calc`, `reset` | called by the buffer |
| Stateless or start-up code | - | parameters, media engine, configuration, logging, recording, audio level | - |

What is hard here:

* **Interleaving without locks.** A room's maps are used by the goroutines of all
  peers and of all producers' workers; a down track by four kinds of goroutine.
* **State that escapes a lock.** `getPacketsMeta` returns pointers into a ring
  that goes on being overwritten; `ReadExtended` looks at `closed` outside the lock.
* **16-bit arithmetic.** Sequence numbers wrap, come late, twice or before the
  first one; two rings of different sizes are addressed by them.
* **Life cycle.** A transport is closed by the peer or by ICE, possibly while
  `Produce` or `Consume` is under way; workers must end; pooled memory must have
  one owner.
* **Replies.** A session waits for exactly one callback per request.
* **Loss.** PLIs, frames and reports are lost, late or repeated; a receiver must
  still get its key frame, and clocks must still agree.
* **Bytes.** Payloads are truncated anywhere, and picture numbers wrap at 7 or 15
  bits where the code computes with 16.

`PROJECT.json` lists these as hazards, each at the line where it bites and with
the properties that cover it.

## 2. Modules

```
RetransmissionWindow      abstract: what a NACK can get back
  ^ implemented by
Sequencer    <-- MCSequencer
  ^ extended by
DownTrack    <-- DownTrackProofs, MCDownTrack
RtpStats     <-- RtpStatsProofs       (sequence numbers, loss, snapshots)
Reports      <-- ReportsProofs        (sender, reception and receiver reports; round-trip time)
KeyFrames    <-- FramesProofs         (PLIs, their throttle and the key frames they bring)
Router       <-- RouterProofs, MCRouter        (router, transports, producers, consumers)
DataChannels <-- DataChannelsProofs   (listener, data producers)
Buffer       <-- BufferProofs, MCBuffer        (buffers, factory, pools)
WsSession    <-- WsSessionProofs, MCWsSession  (signalling sessions of a room)
Payloads, FrameRate <-- FramesProofs, MCFrames
```

`MC...` modules hold only definitions that a `.cfg` needs, `...Proofs` modules the
theorems about the modules they extend (DownTrackProofs those about Sequencer too) and the
invariants those need. Every definition that
stands for code is in the `map` of `PROJECT.json`. Definitions whose comment
begins with "Mutant" are plausible bugs of the definition below them; no
specification uses them.

**RetransmissionWindow** remembers sent packets by their distance back from the
newest number: no rings, no pointers. A packet is forgotten when `Memory` packets
were sent after it, when the newest number is `Window` ahead of it, or when its
number is used again.

**Sequencer** has the fields of the Go struct under their names. A pointer is an
index of `meta`, or `Nil`. `getSlot` has two results and three effects; each is an
operator (`slot`, `validSlot`, `invalidated`, `nextHead`, `nextStep`). All methods
hold the mutex to the end and are single actions. `wrap`'s loops are `%`.
`ImplementsWindow` is the refinement: `window` maps a distance to what
`getPacketsMeta` would find there.

**DownTrack** extends Sequencer and cuts `writeSimpleRTP` after each access to the
atomic `syncRequired`, and `retransmitPackets` after `getPacketsMeta`, after
reading `sourceSeqNo` and after reading `targetSeqNo`. A packet of the producer is
its source number; one may be lost, and the one before the newest may come late.
`Mute`'s two stores are two steps (`Mute`, `MuteSync`); calls of `Mute` come one at a
time. The fields of `rtx` that carry a promise (`promised`, `lapse`) and `ungated`
are history. Timestamps are renumbered by the same formula as numbers and left out.

**RtpStats** identifies a packet with its index in the stream, of which the code
sees only the remainder; the properties compare the code's view with the set of
indices. There is one action per case of the switch in `Update`. `counted` is the
set a receiver with that much memory can take into account.

**Router** knows a producer or consumer as the pair of transport and number; the
router's maps see the number only. `Produce` and `Consume` are cut where another
goroutine can get in between: number, each of the router's maps (`AddProducer` stores the
producer before it makes the list, `AddConsumer` the consumer before it reads the list),
own map. `AddConsumer` reads the list and appends to it in one step and writes it back in
another; two calls that read the same list may share its memory, as slices do, so that
one overwrites the number the other appended (`sharing`). When the list is missing
`AddConsumer` returns an error and `Consume` stores the consumer all the same
(`refused`). `Router.Close` is a loop over the transports, each with the steps of its
`Close`, and then sets one map after another to nil; it is one of three goroutines that may close
a transport (`closer`). A write to a map that was set to nil panics; net/http recovers
the panic, so the session of the peer is over (its call is `gone`) while the process,
and the workers that the call had started, go on. A map that one goroutine writes while another uses
it may stop the process (`fatal`), which Go does not let anyone recover.
`lateProducers`, `lateConsumers`, `refused` and `overlap` are history.

**Buffer** has a slab of memory per bucket and counts how often a slab is in a
pool. `ReadExtended` is cut between its look at `closed` and the lock. The loop of
`Bind` over the pending packets is one step per packet (`BindNext`, `BindEnd`) under
the buffer's lock (`Locked`), which `Close` too holds until `onClose` has run. What comes
of a packet's bytes is one of three outcomes: they are no RTP packet (nothing is counted),
the payload is refused (it is counted but not handed on), or it is read. The bucket
(a library) is modelled by what the code uses: it accepts a number that is newer or
that it lacks and has a place for. The library's NACK queue gives up after some
attempts; here it does not, which only makes the set of numbers asked for larger.

**KeyFrames** composes the pieces of the loop that brings a key frame: the read
worker that writes a frame to one track after another, `writeSimpleRTP` that drops
and forces a PLI, `handleRTCP` that asks for one whenever a receiver that is bound sends a
PLI or FIR, with or without a reason, and `SendPLI`, cut between its
test of the throttle and its note of the time because it holds only a read lock. The
encoder, both networks and the decoders are the environment; all may lose what they
carry. A track that is muted, for which `handleRTCP` does nothing, is left out (nothing
calls `Mute`). `raced` and `gap` are history.

**Reports** follows one publisher and one down track. Time is in ticks, and the
publisher's clock is `Skew` ahead. `CreateSenderReport` is cut between the copy of
the buffer's data and the report. Packet counts and loss are in RtpStats. A sender
report's RTP time is not shifted by `tsOffset`, so the model is of a track that was
never muted (nothing in the program calls `Mute`).

**DataChannels** has the listener of `OnDataChannel` and `ProduceData` as two
goroutines over the transport's maps, cut at every access. A stream may be closed
and opened again. `ConsumeData` ends the session: `NewDataConsumer` dereferences two
limits of which a channel has at most one, which is how "only data producer working"
(`README.md:17`) comes about. Data producer and channel are named by number; a map
used by both goroutines at once may end the process (`fatal`).

**Payloads** works on bytes. The encoder packs units into a payload as the RFCs say
(external): lengths have all their bits (16 for H264, one byte or two of LEB128 for
AV1) and count the unit alone, in an MTAP too; an AV1 payload counts its units, the last of
which then has no length, or has a count of 0 and a length before every unit. Not packed are
OBUs with an extension byte or a size field and lengths of three bytes or more. `MarshalTo` refuses a
destination that is too short; the parsers are translated, loops as recursive functions over positions.
`getExtPacket` puts them together.

**FrameRate** identifies a frame with its index, of which the code sees the
remainder. The rate is kept as a count of frames and the time they took; the
floating-point quotient adds nothing.

**WsSession** reduces a peer to what its handlers test and a request to how often
its handler calls back, or to a panic: of `ConsumeData`, and of `Produce` and `Consume` on
a transport that was closed. net/http recovers it, and the session ends without a reply. A callback writes the reply
and then sends to `errCh`, which has room for one: a second callback of the same
handler writes its reply and blocks (`blocked`).

## 3. Runs

All runs finish within about three minutes on two cores. The "violation" run
shows a disagreement between the code and one of its own comments (section 6).

| Run | Checks | Bounds, and why they are enough |
|---|---|---|
| `sequencer` | `SeqTypeOK`, `ImplementsWindow` | 6 numbers, 2 records, 3 slots: the rings wrap at different times, a record is reused while a slot points to it, and a number can be newest, late, too late or skipped; a clock to 3, so that a packet is asked for on both sides of the threshold. The proof covers all sizes, and thresholds that change with the round-trip time. |
| `downtrack` | `TypeOK`, `RetransmitsWhatWasAsked`, `KeyFrameFirst`, `NumbersNotShared` | 3 packets across the wrap, 2 records, one NACK goroutine: enough to overwrite a record in every gap of the goroutine; `Mute` and `Bind` in every gap of the writer, and a packet between the two stores of `Mute`. |
| `rtpstats` | six properties | cycle of 8 numbers, indices 0 to 17 (two wraps), ring of 3, five packets, one snapshot. |
| `router` | `TypeOK`, `ForwardedRight`, `ConsumersReachable` | one transport that produces, with two producers, and two that consume, with two consumer numbers each and two consumers made in the room; a number is also used up by a `Consume` that fails, so that the two consumers have different numbers or the same one. That is enough for every overlap of two `AddConsumer`s; nothing is closed here. |
| `router_close` | `ClosedOnce`, `NoOrphans`, `WorkersEnd` | one transport that produces and consumes, closed by the peer, the ICE callback and the router's loop at once, also in the middle of a `Produce` or `Consume`; nothing is needed of a second transport, because `Close` touches only its own. |
| `buffer` | `TypeOK`, `MemoryNotShared`, `NoUseAfterClose`, `ForwardedOnce`, `NacksOnlyMissing`, `FactoryFindsOpen`, `CloseIsSeen` | a video stream and one of audio or audio/red, two buffers over two pools (sharing needs two owners), three packets in all over numbers 1 to 3 (a gap and the late packet that fills it, a duplicate, one whose bytes are no RTP packet or whose payload is refused), a bucket of two. |
| `ws_session` | `OneReply`, `RequestsEnd` | two sessions under one peer id, three peers made in all (one per connection and one by `JoinRoom`); one session sends every type of message. |
| `key_frames` | `PliThrottled`, `Synced`, `KeyFrameArrives` | two tracks that both ask (the throttle is shared, and a race needs two), a throttle of two ticks: a request can come at once, in the middle and after it, from a receiver that needs a key frame or from one that does not. |
| `reports` | `NamesNewestReport`, `MediaTimeTrue`, `RttAgrees` | delays of 1 to 3 ticks (reports overtake each other by one or two), five ticks, a skew of 5: greater than any delay, so that one-way delays are negative. |
| `data_channels` | `ReadyWhenListed`, `MessageReachesRouter` | two streams, four channels: one stream can be opened three times while the other is used. |
| `frames` | `RateIsTrue`, `RateMeasured`, `VP8RoundTrip`, `KeyFramesFound` | picture identifiers at the limits of 7 and 15 bits and of a byte, every combination of optional fields, three units per payload, as short as they may be or with a length of more than one byte (256 of H264, 128 of AV1), AV1 payloads with and without a count of their units, payloads cut at every byte. For the rate: 16 identifiers within 32, a ring of 5, 3 frames needed, 2 lost in a row, 1 late; the ratios of the code's constants are kept (identifiers wrap at half the range of the subtraction or earlier). |
| `router_ids` | `NoCrossTalk` | violation |

Deadlock checking is off where a bounded environment, a closed router or a
disconnected client really stops; the sequencer's run leaves it on.

What the properties mean:

* `RetransmitsWhatWasAsked`: the race in `retransmitPackets` is harmless as long as
  fewer than `MaxTrack` (500) packets are pushed after the one asked for.
* `KeyFrameFirst`: at most one delta frame, the one already past the check, is sent
  after `syncRequired` was set and before a key frame. The count begins with the
  second store of `Mute`: what is sent between its two stores is not covered.
* `SpanIsTrue`, `LostIsMissing`, `SenderCountExact`: whatever the order of arrival,
  extended numbers, loss and the sender report's count are those of the stream.
* `ReportedLossIsTrue`, `SnapshotsOnlyAdvance`: consecutive reports partition the
  stream, also over a full cycle, and their loss rate stays below 1.
* `NoOrphans`: after `Close` nothing stays open but what a `Produce` or `Consume` added
  late: one that ended, or panicked over a nil map, when the transport was already marked
  closed. That exception is real (the code leaves such a worker running); what is checked is that there
  is no other, and that a producer is left so only when the ICE callback or the router closed
  the transport, never the peer, whose own goroutine produces.
* `ForwardedRight`, `ConsumersReachable`: whatever the order of the peers' calls, a
  packet reaches only consumers of its producer, and a consumer that was made stays in the
  router's maps and in its producer's list. The exceptions are named and are the code's: a number
  that two transports gave out (`ownProducer`, `ownConsumer`; `router_ids` shows the
  result), an `AddConsumer` that returned an error (`refused`), and one that overlapped another
  for the same producer (`overlap`).
* `RequestsEnd` names exactly the requests after which a session hangs.
* `NumbersNotShared`: between two syncs the offset maps distinct source numbers to
  distinct outgoing ones.
* `FactoryFindsOpen`: the removal by SSRC in `OnClose` never hits a later buffer.
* `PliThrottled`: the only PLIs closer than the throttle are forced ones and those of
  requests that overlap inside `SendPLI`. `Synced`, `KeyFrameArrives`: neither the
  throttle nor loss keeps a served receiver without a key frame for ever. This also
  covers `Consumer.Resume`, after which the receiver depends on its own PLIs.
* `NamesNewestReport`, `MediaTimeTrue`, `RttAgrees`: whatever the skew and order,
  the clocks in the reports are right to within one network delay. `RttAgrees` states
  its exception: after a report that came out of order the sequencer may use a
  round-trip time the statistics refused.
* `MessageReachesRouter`: channels are handed over when a stream is opened again;
  the exception, a channel announced during `ProduceData` for its stream, is real.
* `RateIsTrue`, `RateMeasured`: the run measured has no hidden gap, and a steady
  stream is measured; the exception is a base frame near the wrap of the identifiers.
* `VP8RoundTrip`: `Unmarshal` reads what `MarshalTo` wrote, and refuses every cut before
  the first byte of video.
* `KeyFramesFound`: every key frame that the parsers are able to see (`seen`) is found, and
  truncation never makes a key frame of what is none. Not seen are the key frames of section 6: AV1
  payloads without a count of units, and parameter sets after the first unit of an MTAP.

**Fairness.** Router: weak fairness on the steps a worker can take on its own
(`WorkerSelect`, `WorkerEOF`, `Forward`, the end of a consumer's worker), because
the Go scheduler runs every runnable goroutine, `ReadExtended` polls every 10 ms
and the RTCP workers come round to `closeCh` at least every five seconds (the RTCP
reader's `Read` does not block). Nothing is assumed of packets, peers or ICE.
Buffer: the worker polls, and a `Close` or a `Bind` that has begun ends. WsSession: a handler that
can call back does, and `handle` receives; nothing is assumed of clients.
KeyFrames: goroutines that can run do, and time passes (weak fairness). Of the
outside: the producer goes on sending frames; a receiver whose decoder is broken and
whose track is past its first key frame goes on asking; and what is repeated without
end (a PLI, the key frame an encoder was asked for, a key frame to one receiver)
arrives some time (strong fairness). Key frames nobody asked for are not assumed, and
`Synced` does not rely on any receiver's requests before the first key frame. MCFrames:
frames go on coming. DataChannels and Reports are checked for safety only.

## 4. Proofs

Each theorem has the form `Spec => []P` (or `Spec => P`, for a refinement or an action
property) and holds for every value of the constants that satisfies the named
assumption of its module. Where `P` is a property of a run, the run shows it on a small
instance and the theorem for all of them. The bounds that make TLC's runs finite
(`MaxTime`, `MaxBuffers`, `MaxChannels`, ...) are constants too, so the theorems hold
however large they are.

| Module | Theorems | States |
|---|---|---|
| DownTrackProofs | `SequencerTypes`, `SequencerImplementsWindow` | `SeqTypeOK`, the refinement `ImplementsWindow` |
| | `TypeCorrect`, `SendsAgainWhatWasAsked`, `KeyFrameComesFirst`, `NumbersAreNotShared` | all four invariants of `downtrack` |
| RtpStatsProofs | `TypeCorrect`, `SpanStaysTrue`, `LossIsExact`, `CountIsExact`, `ReportsAreTrue`, `SnapshotsAdvance` | all five invariants and the action property of `rtpstats` |
| BufferProofs | `TypeCorrect`, `MemoryIsNotShared`, `MemoryIsNotUsedAfterClose`, `ReadOnce`, `NacksNameMissing`, `OpenIsFound` | all six invariants of `buffer` |
| RouterProofs | `TypeCorrect`, `ClosedAtMostOnce`, `CloseLeavesNothing` | `TypeOK`, `ClosedOnce`, `NoOrphans`, for any room |
| | `OwnConsumersOnly`, `ConsumersStayReachable` | `ForwardedRight`, `ConsumersReachable`, for any number of producing and consuming peers |
| FramesProofs | `TypeCorrect`, `Throttled` | `TypeOK`, `PliThrottled` |
| | `RateStaysTrue`, `VP8IsReadBack`, `KeyFramesAreFound` | the three invariants of `frames` |
| ReportsProofs | `TypeCorrect`, `NewestIsNamed`, `MediaTimeIsTrue`, `RttsAgree` | `TypeOK` and the three invariants of `reports` |
| DataChannelsProofs | `TypeCorrect`, `ListedIsReady`, `MessagesReachRouter` | `TypeOK` and the two invariants of `data_channels` |
| WsSessionProofs | `TypeCorrect`, `ExactlyOneReply` | `TypeOK`, `OneReply` |

`TypeOK` of KeyFrames, Reports, DataChannels and WsSession is in no run: it says little
of its own, and it is proved because the other theorems rest on it.

**Sequencer.** Of `SequencerConstants` the assumption that matters is `2 * Max <= SNMod`:
the window is at most half the number range, so that a late number's distance is
unambiguous (the code passes 500 as `maxTrack` and 2000 as `maxPadding`, against 65536
numbers). The inductive invariant is `SeqInv == SeqTypeOK /\ NothingBeforeInit`. The
second part is needed because the first call of `getSlot` moves `headSN` without
touching any slot: if a slot were already set, the move would change which number it
answers for. Everything else about stale pointers follows from the comparison of
`targetSeqNo` in `getPacketsMeta`, which the mapping uses too. The argument: modular
arithmetic (`ModUnique`, `ModAdd`, `ModInjective`); then where the slot `b` back lies
after an in-order number (`InOrderSlots`: just written, invalidated, or the one that was
`b - d` back) and after a late one (`LateSlots`); then how records age (`Ages`: `push`
overwrites exactly the oldest). With these each operation is shown to be the abstract
one (`PushIsSend`, `PaddingIsPad`, `NackIsNack`), and `StepImplements` puts them together.

**DownTrack** builds on the Sequencer's lemmas. `DownTrackConstants` bounds a run to less
than half a cycle of source numbers, the range in which the code's comparison of numbers
is unambiguous. `RtxFits` is what makes the race of `retransmitPackets` harmless: by a
goroutine's own count (the age a record had when it was looked up, plus the pushes
since) a record is never older than the ring makes it, so while the count is below
`MaxTrack` the record still holds what it held (`Kept`), and so does the packet that was
already read from it (`ReadRight`). `SyncFits` says who is responsible for the next key
frame: the flag, or a writer past the test. `NumbersFit` says that every number in use is
that of a packet that came, shifted by the present offset, and that the packet being
written is none of them; with `OffsetInjective` no number is given out twice.

**RtpStats.** For any range of numbers and any ring shorter than half of it (the code's ring
has 2048 slots against 65536 numbers). `RtpStatsConstants` makes two restrictions, and both
are limits of the code: a stream has no packet before the cycle it starts in (section 6), and
it ends before its 32-bit numbers wrap (`MaxIdx`). The invariant has one part for each of the
code's counters. `SpanFits`: the extended start is the oldest packet and lies in the first
cycle, and the highest number is the newest packet. Without the first cycle a late packet
that `maybeAdjustStartSN` takes as the start could not be told from one a cycle later.
`RingFits`: the slot `k` behind the write pointer says "lost" exactly when the packet `k`
before the newest was not counted. This is what makes `LostIsMissing` inductive, because
`Update` decides from the slot alone whether a late packet fills a hole or is a duplicate.
`CountsFit`: updates are expected less lost plus duplicate packets. `SnapshotsFit`: a snapshot
starts within the stream or right after it. `SetRing` and `AdvanceRing` say what a step does to
every slot; `MissingAfter`, `MissingBefore` and `MissingFound` what it does to the number of
missing packets; `LostInInterval` counts by a bijection from the 16-bit numbers over which
`getIntervalStats` loops to the packets of the interval.

**Buffer.** `SlabsFit` counts owners: a slab that exists is in one pool once, or one
buffer that is open or in the loop of `Bind` may use it (`Holds`), or it is lost to a
buffer bound after its `Close`. `BindHasSlab` is needed because the loop of `Bind` uses
the memory over several steps. `ClosingFound` ties a `Close` under way to the entry it
will remove; without it the removal by SSRC could hit a later buffer. `StreamsFit` says
that what was handed on or waits to be is `Known` to the bucket (stored, or too old to be
taken again), which is why no packet is read twice, and that no number is both asked for
and seen.

**Router.** For any transports, closers and bounds. `ClosesCount`, `CloseOrder`, `ClosedAll` and
`Owned` follow the closers of a transport through `Close`: what runs is closed, in the
transport's maps, still in the hands of the call that makes it, or late. `Blame` and
`LateFits` say whose `Close` a late producer met. `OwnConsumersOnly` and
`ConsumersStayReachable` have no hypothesis on the number of peers; the exceptions are in the
properties. Their invariant is `Room`: numbers are in no list before their producer is
added (`SidesFit`, `NumbersFit`); every list, and every copy of one that a worker or a call
holds, names consumers of producers with the list's number (`ListsFit`); a producer or
consumer whose number is its own keeps its place in the router's maps (`InProducers`,
`InConsumers`); a consumer that was listed is in the list and in every list that is about to be
written back (`InList`, by `Settled`); and a call that overlaps no other holds a copy that nobody
else changes (`Alone`). `Settled` is what makes the lost entry precise: a list read before
another call's write-back, and written back after it, would lack that call's consumer, and
then both calls overlap.

**KeyFrames.** For any number of tracks and any throttle. The time kept by the statistics is
the time since the last PLI (`TimeIsTrue`), and a callback past its test has a right to be
there until another PLI is noted (`PassedRightly`), which is when it counts as overtaken.

**FrameRate.** For a ring, identifiers and picture numbers of any size. `Width` is how far
the newest frame may be ahead of a base that is kept, and `Reach` how far the next one:
`FrameRateConstants` asks that frames within `Reach` be taken neither for late ones
(`Reach <= Far`) nor for frames of another cycle (`Reach + Reorder <= PicMod`). Both depend
on how late a frame may come. With `Ring` in the place of `Width` the invariant fails once
frames come as late as the ring is long: late frames then keep a base alive while the stream
has moved on. The code's ring has 64 entries and `Far` is 0x4000: with
identifiers of 15 bits thousands of frames may be lost or late, with those of 7 bits up to 64,
loss and delay taken together (if frames are late by less than the ring). The inductive invariant is
`RateInv`: the types, `BaseFits` and the property. `BaseFits` says that, from a base that is not near
the wrap, the newest frame is less than `Width` ahead and that the entry at each index of the
ring is the frame at that distance (`PlacesFit`). `RunIsInterval` (from `LeastNumber`) says
that `calc` counts an interval from 1, whence as many frames as the time they took.

**Payloads, VP8.** `UnmarshalFacts` goes through `Unmarshal` field by field for a descriptor
`v` and any payload that begins with the bytes of `MarshalTo(v)`, or with some of them: the
flags are those of `v` as far as their byte is there, each optional field lies where the
fields before it end, and what ends before the first byte of video is refused. The picture
identifiers are any subset of those of 15 bits.

**Payloads, H264 and AV1.** A loop over units is a function of the position it has reached.
What such a function computes is settled in two steps that need no induction over an
operator. First, the function exists: `LoopExists` takes the least set of positions that
has every position at which the loop says yes and every position from which it goes on to one
in the set. Second, `Places` gives every unit its position in what `FlattenSeq` joins, and
`CountUp` goes from unit to unit; it is an induction over a set of numbers, and follows from `LeastNumber`,
the library's well-foundedness of `<`. `UnitStep` and `ObuStep` say what the loop does at
one unit of what is left of a payload (`CutOf`): it finds a key frame only if this unit or
the loop at the next one does, and in the whole payload exactly then. For AV1 payloads that do
not count their units the loop is followed through its two turns only. `Finds` puts the two
together and `Framed` is the inductive invariant that says which frames an encoder packs.
`MaxUnits` is any number, and the units are any whose length the packing can express: 16
bits for H264 (`MaxNalu`), one byte or two of LEB128 for AV1 (`MaxObu`), the
shorter form or a padded one (`wide`).

**Reports.** For any skew of the clocks and any range of delays. `ReportsConstants` asks that
the default round-trip time be no sum of two delays, which only serves to tell it from a
measured one. What the statistics keep lies within one network delay of the truth, the
smoothed one-way delay included (`KeptFits`, by `HalfBetween`: the mean of two values of a
range is in it); the same of the copy that `CreateSenderReport` holds while it has no lock
(`ReadFits`) and of the newest packet (`HighestFits`).

**DataChannels.** A stream has one open channel at most (`LastOpen`), so what the listener
stored last is what is open (`OpenIsPending`); `ProduceData` takes that one
(`ProducingFits`), and whatever is announced before it has stored its data producer counts
as overlapping (`AnnouncedOverlaps`), the exception that `MessageReachesRouter` states.

**WsSession.** `Sound` ties `errCh` to the replies written: empty and none, or full and
one.

**Only model-checked.** The six liveness properties (`WorkersEnd`, `CloseIsSeen`,
`RequestsEnd`, `Synced`, `KeyFrameArrives`, `RateMeasured`): liveness under fairness is out
of the prover's reach. Every invariant and action property of a passing run has a theorem.

## 5. Not modelled

* RTP parameters, media engine and `utils.go`: field-by-field conversions between the
  program's structures and pion's, with no state a property could relate.
* The RTCP readers' map in the factory: a callback holder per SSRC, used like the
  buffers' map but without memory or order to get wrong. The map of rooms.
* `generateCapabilitites`: a one-time wait for pion's gatherer. TWCC, congestion
  control, ICE, DTLS and SCTP are libraries.
* In the statistics: bytes, jitter, gap histogram, the counters of NACKs, FIRs and
  layer locks, `DeltaInfo`, `ToString`, `ToProto`: sums and text nothing depends on.
* Data consumers, which cannot come to exist (section 2). `Seed`,
  `ResyncOnNextPacket`, `RemovePeer`, `VP8PictureIdSizeDiff` and the callers of
  `pushPadding` and `Mute` are missing in the program; `pushPadding` and `Mute` are
  modelled all the same. `Buffer.Read` is pion's way to the pending packets; the
  program reads through `ReadExtended`.
* Higher temporal layers in `fps.go`: `getExtPacket` gives every packet layer 0.
* Audio level (floating-point smoothing nothing reads), recording, logging and
  configuration.

## 6. Where the code falls short

`router_ids` is the violation run: `getNextId` numbers producers per transport, and
the router's maps use the numbers for the whole room. Two peers' first producers share
the number 1, and consumers of one receive the other's packets.

The passing properties stop at the following limits, each visible in the model:

* over `Mute` and unmute outgoing numbers are used again, because only the first
  packet sets `lastSN` (`NumbersNotShared` speaks of one sync);
* when `MaxTrack` or more packets follow the one asked for, `retransmitPackets` may
  read two packets' fields from one reused record (`RetransmitsWhatWasAsked` is about
  younger records);
* a stream that starts at number 0 and whose earlier packets (65535, ...) come late
  gets a start ahead of its highest number (the `rtpstats` run has no packets before
  cycle 0);
* for audio/red with NACK feedback `Bind` returns before it works off what is pending;
* two requests that overlap in `SendPLI` send two PLIs within the throttle;
* a receiver report out of order sets the sequencer's round-trip time;
* a channel announced during `ProduceData` for its stream loses its messages;
* a consumer is lost from its producer's list when two `AddConsumer`s for that producer
  overlap, and from the router's map when its number was given out twice;
* a `Produce` or `Consume` that ends while its transport is being closed leaves a worker
  that nothing stops, also when it ends in the panic over a nil map (`webrtc_transport.go:203`,
  `273`), which net/http recovers;
* between the two stores of `Mute(false)` (`downtrack.go:174-175`) delta frames may be sent before the
  track waits for a key frame; nothing calls `Mute`;
* a base frame among the last picture identifiers of a cycle (`NearWrap`) is kept: frames after the
  wrap look late, because identifiers of 15 bits are subtracted in 16. With a base in the last
  `MinFrames` identifiers a stream that loses nothing is never measured at all; after a
  loss the rate may be wrong. The case "frame number and timestamp wrap" of `fps_test.go:120`
  shows a rate measured across 2^15, but lets the number pass 15 bits, which an
  identifier read by `Unmarshal` does not;
* the key frame in an AV1 payload whose header does not count its units (W = 0) is not seen, because
  `i >= int(w)` (`helpers.go:344`) holds after the first unit: a down track that waits for
  one goes on waiting;
* in an MTAP the length of a unit is taken to count the bytes before the NALU
  (`helpers.go:243-252`): a first unit not longer than those bytes is given up, and units after the
  first are looked for at the wrong place.

## 7. Plan

1. Done, models and runs: Sequencer with its abstract specification, DownTrack, RtpStats,
   Reports, KeyFrames, Router, DataChannels, Buffer, Payloads, FrameRate, WsSession.
2. Done, proofs: every safety property that a passing run checks.
3. Left: nothing that the prover can reach. Of the parts in section 5, the RTCP readers' map and
   the map of rooms would be the next to model.
