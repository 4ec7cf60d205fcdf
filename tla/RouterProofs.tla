---------------------------- MODULE RouterProofs ----------------------------
(***************************************************************************)
(* Proofs about Router, for any transports and any number of producers and *)
(* consumers: a producer's channel is closed once, a transport that was    *)
(* closed leaves nothing open but what came too late, packets go only to   *)
(* consumers of their producer, and consumers stay reachable, as far as    *)
(* numbers are given out once and AddConsumers do not overlap.             *)
(***************************************************************************)
EXTENDS Router, TLAPS

producing(t) == call[t].pc \in {"addProducer", "addList", "produced"}
consuming(t) == call[t].pc \in {"addConsumer", "readList", "append", "consumed"}

\* A call has its number; a Consume has found its producer.
CallsFit == \A t \in Transports :
    /\ producing(t) => call[t].id \in Ids /\ t \in Producing
    /\ consuming(t) => call[t].id \in Ids /\ t \in Consuming /\ call[t].producer \in Objects

\* The channel of a producer was closed when, and only when, it is closed.
ClosesCount == \A p \in Objects : closes[p] = IF pClosed[p] THEN 1 ELSE 0

\* A transport past the loop of Close is marked closed; one whose maps are nil
\* has none.
CloseOrder == \A t \in Transports :
    /\ \A k \in Closers : closer[t][k] \in {"stop", "done"} => tClosed[t]
    /\ tNil[t] => tClosed[t] /\ tProducers[t] = {} /\ tConsumers[t] = {}

\* What a closed transport still has is closed, or came late.
ClosedAll == \A t \in Transports : tClosed[t] =>
    /\ \A n \in tProducers[t] : pClosed[<<t, n>>] \/ <<t, n>> \in lateProducers
    /\ \A n \in tConsumers[t] : cClosed[<<t, n>>] \/ <<t, n>> \in lateConsumers

\* What runs is closed, or in its transport's maps, or still being made, or late.
Owned == \A t \in Transports : \A n \in Ids :
    /\ worker[<<t, n>>] # "none" =>
         pClosed[<<t, n>>] \/ n \in tProducers[t] \/ <<t, n>> \in lateProducers
    /\ cWorkers[<<t, n>>] # {} =>
         \/ cClosed[<<t, n>>] \/ n \in tConsumers[t] \/ <<t, n>> \in lateConsumers
         \/ consuming(t) /\ call[t].id = n

\* Someone closed a transport that is closed.  While the peer is in Produce it has
\* not closed the transport itself, because Close stops what Produce needs.
Blame == \A t \in Transports :
    /\ tClosed[t] => \E k \in Closers : closer[t][k] \in {"stop", "done"}
    /\ \A k \in Closers : closer[t][k] # "idle" => ice[t] # "none"
    /\ "api" \in Closers =>
         /\ producing(t) => closer[t]["api"] = "idle"
         /\ closer[t]["api"] = "done" => ice[t] = "stopped"

\* A late producer's transport was closed by another goroutine than the peer's.
LateFits == \A p \in lateProducers :
    \E k \in Closers \ {"api"} : closer[p[1]][k] \in {"stop", "done"}

Shape == TypeOK /\ CallsFit

IInv == Shape /\ ClosesCount /\ CloseOrder /\ ClosedAll /\ Owned /\ Blame /\ LateFits

-----------------------------------------------------------------------------
\* Numbers are positive, and every number that is given out is one of them.
LEMMA IdFacts ==
    /\ \A n \in Ids : n \in Nat /\ n # 0
    /\ \A n \in Nat \ {0} : n <= MaxProducers \/ n <= MaxConsumers => n \in Ids
BY RouterConstants DEF Ids

\* A producer or consumer is a transport and a number.
LEMMA ObjectFacts ==
    /\ \A t \in Transports, n \in Ids : <<t, n>> \in Objects
    /\ \A o \in Objects : o[1] \in Transports /\ o[2] \in Ids /\ o = <<o[1], o[2]>>
    /\ \A o \in Objects : o # None
    /\ None \notin Objects
BY DEF Objects, None

\* A Produce and a Consume that have begun.
ProduceCall(n) == [NoCall EXCEPT !.pc = "addProducer", !.id = n]
ConsumeCall(n, p) == [NoCall EXCEPT !.pc = "addConsumer", !.id = n, !.producer = p]

\* The fields of calls that have not begun, have just begun, or are over.
LEMMA CallFacts ==
    /\ NoCall \in Call /\ NoCall.pc = "idle"
    /\ GoneCall \in Call /\ GoneCall.pc = "gone"
    /\ \A n \in Ids : /\ ProduceCall(n) \in Call /\ ProduceCall(n).pc = "addProducer"
                      /\ ProduceCall(n).id = n
    /\ \A n \in Ids, p \in Objects :
         /\ ConsumeCall(n, p) \in Call /\ ConsumeCall(n, p).pc = "addConsumer"
         /\ ConsumeCall(n, p).id = n /\ ConsumeCall(n, p).producer = p
<1>1. <<>> \in Seq(Ids)
  OBVIOUS
<1>2. NoCall \in Call /\ NoCall.pc = "idle"
  BY <1>1 DEF NoCall, Call
<1>a. GoneCall \in Call /\ GoneCall.pc = "gone"
  BY <1>2 DEF GoneCall, Call
<1>3. ASSUME NEW n \in Ids
      PROVE  /\ ProduceCall(n) \in Call /\ ProduceCall(n).pc = "addProducer"
             /\ ProduceCall(n).id = n
  <2> DEFINE y == [NoCall EXCEPT !.pc = "addProducer"]
  <2>1. y \in Call /\ y.pc = "addProducer"
    BY <1>2 DEF Call
  <2>2. ProduceCall(n) = [y EXCEPT !.id = n]
    BY DEF ProduceCall
  <2> HIDE DEF y
  <2>3. QED
    BY <2>1, <2>2 DEF Call
<1>4. ASSUME NEW n \in Ids, NEW p \in Objects
      PROVE  /\ ConsumeCall(n, p) \in Call /\ ConsumeCall(n, p).pc = "addConsumer"
             /\ ConsumeCall(n, p).id = n /\ ConsumeCall(n, p).producer = p
  <2> DEFINE y == [NoCall EXCEPT !.pc = "addConsumer"]
             z == [y EXCEPT !.id = n]
  <2>1. y \in Call /\ y.pc = "addConsumer"
    BY <1>2 DEF Call
  <2>2. ConsumeCall(n, p) = [z EXCEPT !.producer = p]
    BY DEF ConsumeCall
  <2> HIDE DEF y
  <2>3. z \in Call /\ z.pc = "addConsumer" /\ z.id = n
    BY <2>1 DEF Call
  <2> HIDE DEF z
  <2>4. QED
    BY <2>2, <2>3 DEF Call
<1>5. QED
  BY <1>2, <1>a, <1>3, <1>4

\* A call that goes on to its next step, and one whose list changes.
GoOn(x, pc) == [x EXCEPT !.pc = pc]
Relist(x, list) == [x EXCEPT !.list = list]
GoAppend(x, list) == [x EXCEPT !.pc = "append", !.list = list]

\* A call keeps its number and its producer.
LEMMA CallGoesOn ==
    ASSUME NEW x \in Call
    PROVE  /\ \A pc \in {"addList", "produced", "readList", "consumed"} :
                /\ GoOn(x, pc) \in Call /\ GoOn(x, pc).pc = pc /\ GoOn(x, pc).id = x.id
                /\ GoOn(x, pc).producer = x.producer
           /\ \A list \in Seq(Ids) :
                /\ GoAppend(x, list) \in Call /\ GoAppend(x, list).pc = "append"
                /\ GoAppend(x, list).id = x.id /\ GoAppend(x, list).producer = x.producer
                /\ GoAppend(x, list).list = list
           /\ \A list \in Seq(Ids) :
                /\ Relist(x, list) \in Call /\ Relist(x, list).pc = x.pc
                /\ Relist(x, list).id = x.id /\ Relist(x, list).producer = x.producer
                /\ Relist(x, list).list = list
<1>1. ASSUME NEW pc \in {"addList", "produced", "readList", "consumed"}
      PROVE  /\ GoOn(x, pc) \in Call /\ GoOn(x, pc).pc = pc /\ GoOn(x, pc).id = x.id
             /\ GoOn(x, pc).producer = x.producer
  BY DEF Call, GoOn
<1>2. ASSUME NEW list \in Seq(Ids)
      PROVE  /\ GoAppend(x, list) \in Call /\ GoAppend(x, list).pc = "append"
             /\ GoAppend(x, list).id = x.id /\ GoAppend(x, list).producer = x.producer
             /\ GoAppend(x, list).list = list
  <2> DEFINE z == [x EXCEPT !.pc = "append"]
  <2>1. z \in Call /\ z.pc = "append" /\ z.id = x.id /\ z.producer = x.producer
    BY DEF Call
  <2>2. GoAppend(x, list) = [z EXCEPT !.list = list]
    BY DEF GoAppend
  <2> HIDE DEF z
  <2>3. QED
    BY <2>1, <2>2 DEF Call
<1>3. ASSUME NEW list \in Seq(Ids)
      PROVE  /\ Relist(x, list) \in Call /\ Relist(x, list).pc = x.pc
             /\ Relist(x, list).id = x.id /\ Relist(x, list).producer = x.producer
             /\ Relist(x, list).list = list
  BY DEF Call, Relist
<1>4. QED
  BY <1>1, <1>2, <1>3

\* Appending a number to a list of numbers.
LEMMA AppendedList ==
    ASSUME NEW list \in Seq(Ids), NEW n \in Ids
    PROVE  appended(list, n) \in Seq(Ids)
BY DEF appended

-----------------------------------------------------------------------------
(* The shape of the state.                                                 *)

HistoryOK == /\ lateProducers \subseteq Objects /\ lateConsumers \subseteq Objects
             /\ refused \subseteq Objects /\ overlap \subseteq Objects
             /\ fatal \in BOOLEAN

\* The parts of the shape.
LEMMA ShapeParts ==
    Shape <=> RouterOK /\ TransportOK /\ ProducerOK /\ ConsumerOK /\ HistoryOK /\ CallsFit
BY DEF Shape, TypeOK, HistoryOK

\* The parts of the shape after a step.
LEMMA ShapePartsAfter ==
    Shape' <=> /\ RouterOK' /\ TransportOK' /\ ProducerOK' /\ ConsumerOK' /\ HistoryOK'
               /\ CallsFit'
BY DEF Shape, TypeOK, HistoryOK

\* The router is made empty.
LEMMA InitShape == NewRouter => Shape
<1> SUFFICES ASSUME NewRouter PROVE Shape
  OBVIOUS
<1>1. RouterOK
  BY DEF NewRouter, RouterOK
<1>2. TransportOK
  <2>1. \A t \in Transports : [producer |-> 0, consumer |-> 0]
                               \in [producer : 0 .. MaxProducers, consumer : 0 .. MaxConsumers]
    BY RouterConstants
  <2>2. lastId \in [Transports -> [producer : 0 .. MaxProducers, consumer : 0 .. MaxConsumers]]
    BY <2>1 DEF NewRouter
  <2>3. call \in [Transports -> Call]
    BY CallFacts DEF NewRouter
  <2>4. QED
    BY <2>2, <2>3 DEF NewRouter, TransportOK
<1>3. ProducerOK
  BY DEF NewRouter, ProducerOK
<1>4. ConsumerOK
  BY DEF NewRouter, ConsumerOK
<1>5. HistoryOK
  BY DEF NewRouter, HistoryOK
<1>6. CallsFit
  BY CallFacts DEF NewRouter, CallsFit, consuming, producing
<1>7. QED
  BY <1>1, <1>2, <1>3, <1>4, <1>5, <1>6, ShapeParts

\* What a step leaves alone keeps its shape.
LEMMA SameParts ==
    ASSUME Shape
    PROVE  /\ UNCHANGED routerVars => RouterOK'
           /\ UNCHANGED producerVars => ProducerOK'
           /\ UNCHANGED consumerVars => ConsumerOK'
           /\ UNCHANGED <<late, listing, fatal>> => HistoryOK'
           /\ UNCHANGED call => CallsFit'
           /\ UNCHANGED transportVars => TransportOK'
<1>1. UNCHANGED routerVars => RouterOK'
  BY DEF Shape, TypeOK, RouterOK, routerVars
<1>2. UNCHANGED producerVars => ProducerOK'
  BY DEF Shape, TypeOK, ProducerOK, producerVars
<1>3. UNCHANGED consumerVars => ConsumerOK'
  BY DEF Shape, TypeOK, ConsumerOK, consumerVars
<1>4. UNCHANGED <<late, listing, fatal>> => HistoryOK'
  BY DEF Shape, TypeOK, HistoryOK, late, listing
<1>5. UNCHANGED call => CallsFit'
  BY DEF Shape, CallsFit, consuming, producing
<1>6. UNCHANGED transportVars => TransportOK'
  BY DEF Shape, TypeOK, TransportOK, transportVars
<1>7. QED
  BY <1>1, <1>2, <1>3, <1>4, <1>5, <1>6

\* The call of one transport as it has to be.
CallFits(t, x) ==
    /\ x.pc \in {"addProducer", "addList", "produced"} => x.id \in Ids /\ t \in Producing
    /\ x.pc \in {"addConsumer", "readList", "append", "consumed"} =>
         x.id \in Ids /\ t \in Consuming /\ x.producer \in Objects

\* One transport's call changes and fits.
LEMMA CallChanges ==
    ASSUME Shape, NEW t \in Transports, NEW x \in Call, call' = [call EXCEPT ![t] = x],
           CallFits(t, x)
    PROVE  /\ call' \in [Transports -> Call] /\ CallsFit'
           /\ \A u \in Transports : call'[u] = IF u = t THEN x ELSE call[u]
<1>1. call \in [Transports -> Call]
  BY DEF Shape, TypeOK, TransportOK
<1>2. call' \in [Transports -> Call]
  BY <1>1
<1>3. \A u \in Transports : call'[u] = IF u = t THEN x ELSE call[u]
  BY <1>1
<1>4. QED
  BY <1>2, <1>3 DEF Shape, CallsFit, CallFits, consuming, producing

\* A session that ends, or a call that does.
LEMMA CallEnds ==
    ASSUME Shape, NEW t \in Transports,
           Panic(t) \/ call' = [call EXCEPT ![t] = NoCall]
    PROVE  /\ call' \in [Transports -> Call] /\ CallsFit'
           /\ \A u \in Transports \ {t} : call'[u] = call[u]
           /\ call'[t].pc \in {"idle", "gone"}
<1>1. PICK x \in {NoCall, GoneCall} : call' = [call EXCEPT ![t] = x]
  BY DEF Panic
<1>2. x \in Call /\ x.pc \in {"idle", "gone"}
  BY CallFacts
<1>3. CallFits(t, x)
  BY <1>2 DEF CallFits
<1>4. QED
  BY <1>1, <1>2, <1>3, CallChanges

\* A step of a call.
LEMMA CallGoes ==
    ASSUME Shape, NEW t \in Transports,
           NEW pc \in {"addList", "produced", "readList", "consumed"},
           call' = [call EXCEPT ![t] = GoOn(call[t], pc)],
           CallFits(t, GoOn(call[t], pc))
    PROVE  /\ call' \in [Transports -> Call] /\ CallsFit'
           /\ \A u \in Transports \ {t} : call'[u] = call[u]
           /\ call'[t].pc = pc /\ call'[t].id = call[t].id
           /\ call'[t].producer = call[t].producer
<1> DEFINE x == GoOn(call[t], pc)
<1>1. call[t] \in Call
  BY DEF Shape, TypeOK, TransportOK
<1>2. x \in Call /\ x.pc = pc /\ x.id = call[t].id /\ x.producer = call[t].producer
  BY <1>1, CallGoesOn
<1> HIDE DEF x
<1>3. QED
  BY <1>2, CallChanges DEF x

\* The state of the calls of Close.
ClosersOK == closer \in [Transports -> [Closers -> {"idle", "loop", "stop", "done", "skipped"}]]

\* Router.Close passes by a transport, or not.
LEMMA SkipShape ==
    ASSUME Shape, NEW t \in Transports,
           closer' = closer \/ closer' = [closer EXCEPT ![t]["router"] = "skipped"]
    PROVE  /\ ClosersOK'
           /\ \A u \in Transports, k \in Closers :
                \/ closer'[u][k] = closer[u][k]
                \/ u = t /\ k = "router" /\ closer'[u][k] = "skipped"
<1> DEFINE States == {"idle", "loop", "stop", "done", "skipped"}
           z == [closer[t] EXCEPT !["router"] = "skipped"]
<1>1. closer \in [Transports -> [Closers -> States]] /\ closer[t] \in [Closers -> States]
  BY DEF Shape, TypeOK, TransportOK
<1>2. z \in [Closers -> States]
  BY <1>1
<1>3. \A k \in Closers : z[k] = closer[t][k] \/ (k = "router" /\ z[k] = "skipped")
  BY <1>1
<1>4. CASE closer' = closer
  BY <1>1, <1>4 DEF ClosersOK
<1>5. CASE closer' = [closer EXCEPT ![t]["router"] = "skipped"]
  <2>1. closer' = [closer EXCEPT ![t] = z]
    BY <1>1, <1>5
  <2> HIDE DEF z
  <2>2. QED
    BY <1>1, <1>2, <1>3, <2>1 DEF ClosersOK
<1>6. QED
  BY <1>4, <1>5

\* Steps that change a transport's ICE state only, or end a session.
LEMMA ConnectShape ==
    ASSUME Shape, NEW t \in Transports, NewWebRTCTransport(t) \/ Connect(t)
    PROVE  Shape'
<1>1. /\ \/ ice' = ice
         \/ \E state \in {"new", "connected", "stopped"} : ice' = [ice EXCEPT ![t] = state]
      /\ closer' = closer \/ closer' = [closer EXCEPT ![t]["router"] = "skipped"]
      /\ call' = call \/ Panic(t)
      /\ UNCHANGED <<routerVars, tClosed, tNil, tProducers, tConsumers, lastId,
                     producerVars, consumerVars, late, listing, fatal>>
  BY DEF NewWebRTCTransport, Connect
<1>2. call' \in [Transports -> Call] /\ CallsFit'
  <2>1. CASE call' = call
    BY <2>1, SameParts DEF Shape, TypeOK, TransportOK
  <2>2. CASE Panic(t)
    BY <2>2, CallEnds
  <2>3. QED
    BY <1>1, <2>1, <2>2
<1>3. ClosersOK'
  BY <1>1, SkipShape
<1>4. ice' \in [Transports -> {"none", "new", "connected", "stopped"}]
  BY <1>1 DEF Shape, TypeOK, TransportOK
<1>5. TransportOK'
  BY <1>1, <1>2, <1>3, <1>4 DEF Shape, TypeOK, TransportOK, ClosersOK
<1>6. QED
  BY <1>1, <1>2, <1>5, SameParts, ShapePartsAfter

\* Closing producers and consumers changes no shape.
LEMMA ClosingShape ==
    ASSUME Shape, NEW ps, NEW cs, ProducerClose(ps), ConsumerClose(cs),
           UNCHANGED <<pPaused, worker, queue, cProducer, cPaused, cWorkers>>
    PROVE  ProducerOK' /\ ConsumerOK'
<1>1. pClosed' \in [Objects -> BOOLEAN] /\ bufClosed' \in [Objects -> BOOLEAN]
  BY DEF ProducerClose
<1>2. closes' \in [Objects -> Nat]
  <2>1. closes \in [Objects -> Nat]
    BY DEF Shape, TypeOK, ProducerOK
  <2>2. \A p \in Objects : closes'[p] \in Nat
    BY <2>1 DEF ProducerClose
  <2>3. QED
    BY <2>2 DEF ProducerClose
<1>3. cClosed' \in [Objects -> BOOLEAN]
  BY DEF ConsumerClose
<1>4. QED
  BY <1>1, <1>2, <1>3 DEF Shape, TypeOK, ProducerOK, ConsumerOK

\* The steps of WebRTCTransport.Close.
LEMMA CloseShape ==
    ASSUME Shape, NEW t \in Transports, NEW k \in Closers,
           CloseCheck(t, k) \/ CloseLoop(t, k) \/ CloseStop(t, k)
    PROVE  Shape'
<1>1. \A pc \in {"loop", "stop", "done"} :
        [closer EXCEPT ![t][k] = pc]
          \in [Transports -> [Closers -> {"idle", "loop", "stop", "done", "skipped"}]]
  BY DEF Shape, TypeOK, TransportOK
<1>2. UNCHANGED <<routerVars, call, late, listing, fatal>>
  BY DEF CloseCheck, CloseLoop, CloseStop
<1>3. ProducerOK' /\ ConsumerOK'
  <2>1. CASE CloseCheck(t, k) \/ CloseStop(t, k)
    BY <2>1, SameParts DEF CloseCheck, CloseStop
  <2>2. CASE CloseLoop(t, k)
    BY <2>2, ClosingShape DEF CloseLoop
  <2>3. QED
    BY <2>1, <2>2
<1>4. TransportOK'
  <2>1. CASE CloseCheck(t, k)
    BY <1>1, <2>1 DEF CloseCheck, Shape, TypeOK, TransportOK
  <2>2. CASE CloseLoop(t, k)
    BY <1>1, <2>2 DEF CloseLoop, Shape, TypeOK, TransportOK
  <2>3. CASE CloseStop(t, k)
    BY <1>1, <2>3 DEF CloseStop, Shape, TypeOK, TransportOK
  <2>4. QED
    BY <2>1, <2>2, <2>3
<1>5. QED
  BY <1>2, <1>3, <1>4, SameParts, ShapePartsAfter

\* The steps of Router.Close itself.
LEMMA RouterCloseShape ==
    ASSUME Shape, RouterClose \/ RouterDrop \/ \E t \in Transports : RouterSkip(t)
    PROVE  Shape'
<1>1. UNCHANGED <<ice, tClosed, tNil, tProducers, tConsumers, lastId, call,
                  producerVars, consumerVars, late, listing, fatal>>
  BY DEF RouterClose, RouterDrop, RouterSkip, RouterStep
<1>2. ClosersOK'
  <2>1. CASE UNCHANGED closer
    BY <2>1 DEF Shape, TypeOK, TransportOK, ClosersOK
  <2>2. CASE \E t \in Transports : RouterSkip(t)
    BY <2>2, SkipShape DEF RouterSkip
  <2>3. QED
    BY <2>1, <2>2 DEF RouterClose, RouterDrop
<1>3. RouterOK'
  <2>1. CASE RouterClose
    BY <2>1 DEF RouterClose, Shape, TypeOK, RouterOK
  <2>2. CASE RouterDrop
    <3>1. stage' \in 0 .. 5
      BY <2>2 DEF RouterDrop
    <3>2. /\ DOMAIN fwd' \subseteq DOMAIN fwd
          /\ \A n \in DOMAIN fwd' : fwd'[n] = fwd[n]
      BY <2>2 DEF RouterDrop
    <3>3. /\ \A n \in Ids : producers'[n] = None \/ producers'[n] = producers[n]
          /\ \A n \in Ids : consumers'[n] = None \/ consumers'[n] = consumers[n]
          /\ producers' \in [Ids -> {None} \cup Objects]
          /\ consumers' \in [Ids -> {None} \cup Objects]
      BY <2>2 DEF RouterDrop, Shape, TypeOK, RouterOK
    <3>4. QED
      BY <3>1, <3>2, <3>3 DEF Shape, TypeOK, RouterOK
  <2>3. CASE \E t \in Transports : RouterSkip(t)
    BY <2>3, SameParts DEF RouterSkip
  <2>4. QED
    BY <2>1, <2>2, <2>3
<1>4. TransportOK'
  BY <1>1, <1>2 DEF Shape, TypeOK, TransportOK, ClosersOK
<1>5. QED
  BY <1>1, <1>3, <1>4, SameParts, ShapePartsAfter

\* What a Produce that begins does.
LEMMA ProduceStartFacts ==
    ASSUME Shape, NEW t \in Transports, ProduceStart(t)
    PROVE  LET n == getNextId(t, "producer")
           IN  /\ n \in Ids /\ n = lastId[t].producer + 1 /\ lastId[t].producer \in Nat
               /\ t \in Producing /\ free(t) /\ ice[t] = "connected"
               /\ call' = [call EXCEPT ![t] = ProduceCall(n)]
               /\ call' \in [Transports -> Call] /\ CallsFit'
               /\ call'[t].pc = "addProducer" /\ call'[t].id = n
               /\ \A u \in Transports \ {t} : call'[u] = call[u]
               /\ lastId' = [lastId EXCEPT ![t].producer = n]
               /\ lastId' \in [Transports -> [producer : 0 .. MaxProducers,
                                              consumer : 0 .. MaxConsumers]]
               /\ UNCHANGED <<routerVars, ice, tClosed, tNil, tProducers, tConsumers,
                              closer, producerVars, consumerVars, late, listing, fatal>>
<1> DEFINE n == getNextId(t, "producer")
<1>1. lastId \in [Transports -> [producer : 0 .. MaxProducers, consumer : 0 .. MaxConsumers]]
  BY DEF Shape, TypeOK, TransportOK
<1>2. n = lastId[t].producer + 1 /\ lastId[t].producer \in Nat
  BY <1>1, RouterConstants DEF getNextId
<1>3. /\ n <= MaxProducers /\ t \in Producing /\ free(t) /\ ice[t] = "connected"
      /\ call' = [call EXCEPT ![t] = ProduceCall(n)]
      /\ lastId' = [lastId EXCEPT ![t].producer = n]
      /\ UNCHANGED <<routerVars, ice, tClosed, tNil, tProducers, tConsumers,
                     closer, producerVars, consumerVars, late, listing, fatal>>
  BY DEF ProduceStart, ProduceCall
<1> HIDE DEF n
<1>4. n \in Ids /\ n \in 0 .. MaxProducers
  BY <1>2, <1>3, IdFacts, RouterConstants
<1>5. lastId' \in [Transports -> [producer : 0 .. MaxProducers, consumer : 0 .. MaxConsumers]]
  BY <1>1, <1>3, <1>4
<1>6. /\ ProduceCall(n) \in Call /\ CallFits(t, ProduceCall(n))
      /\ ProduceCall(n).pc = "addProducer" /\ ProduceCall(n).id = n
  BY <1>3, <1>4, CallFacts DEF CallFits
<1>7. /\ call' \in [Transports -> Call] /\ CallsFit'
      /\ \A u \in Transports : call'[u] = IF u = t THEN ProduceCall(n) ELSE call[u]
  BY <1>3, <1>6, CallChanges
<1>8. call'[t].pc = "addProducer" /\ call'[t].id = n /\ \A u \in Transports \ {t} : call'[u] = call[u]
  BY <1>6, <1>7
<1>9. QED
  BY <1>2, <1>3, <1>4, <1>5, <1>7, <1>8 DEF n

\* What a Consume that begins does.
LEMMA ConsumeStartFacts ==
    ASSUME Shape, NEW t \in Transports, NEW m \in Ids, NEW paused \in BOOLEAN,
           ConsumeStart(t, m, paused)
    PROVE  LET n == getNextId(t, "consumer")
               p == producers[m]
               c == <<t, n>>
           IN  /\ n \in Ids /\ n = lastId[t].consumer + 1 /\ lastId[t].consumer \in Nat
               /\ p \in Objects /\ p[2] = m /\ t \in Consuming /\ free(t)
               /\ c \in Objects
               /\ lastId' = [lastId EXCEPT ![t].consumer = n]
               /\ lastId' \in [Transports -> [producer : 0 .. MaxProducers,
                                              consumer : 0 .. MaxConsumers]]
               /\ \/ /\ call' \in [Transports -> Call] /\ CallsFit'
                     /\ call'[t].pc = "addConsumer" /\ call'[t].id = n /\ call'[t].producer = p
                     /\ \A u \in Transports \ {t} : call'[u] = call[u]
                     /\ cProducer' = [cProducer EXCEPT ![c] = p]
                     /\ cPaused' = [cPaused EXCEPT ![c] = paused]
                     /\ cWorkers' = [cWorkers EXCEPT ![c] = {"read", "write"}]
                  \/ UNCHANGED <<call, cProducer, cPaused, cWorkers>>
               /\ UNCHANGED <<routerVars, ice, tClosed, tNil, tProducers, tConsumers,
                              closer, producerVars, cClosed, late, listing, fatal>>
<1> DEFINE n == getNextId(t, "consumer")
           p == producers[m]
           c == <<t, n>>
<1>1. lastId \in [Transports -> [producer : 0 .. MaxProducers, consumer : 0 .. MaxConsumers]]
  BY DEF Shape, TypeOK, TransportOK
<1>2. n = lastId[t].consumer + 1 /\ lastId[t].consumer \in Nat
  BY <1>1, RouterConstants DEF getNextId
<1>3. /\ n <= MaxConsumers /\ t \in Consuming /\ free(t) /\ p # None
      /\ lastId' = [lastId EXCEPT ![t].consumer = n]
      /\ UNCHANGED <<routerVars, ice, tClosed, tNil, tProducers, tConsumers,
                     closer, producerVars, cClosed, late, listing, fatal>>
  BY DEF ConsumeStart
<1>4. \/ /\ call' = [call EXCEPT ![t] = ConsumeCall(n, p)]
         /\ cProducer' = [cProducer EXCEPT ![c] = p]
         /\ cPaused' = [cPaused EXCEPT ![c] = paused]
         /\ cWorkers' = [cWorkers EXCEPT ![c] = {"read", "write"}]
      \/ UNCHANGED <<call, cProducer, cPaused, cWorkers>>
  BY DEF ConsumeStart, ConsumeCall
<1>5. p \in Objects /\ p[2] = m
  BY <1>3 DEF Shape, TypeOK, RouterOK
<1> HIDE DEF n, p
<1>6. n \in Ids /\ n \in 0 .. MaxConsumers
  BY <1>2, <1>3, IdFacts, RouterConstants
<1>7. lastId' \in [Transports -> [producer : 0 .. MaxProducers, consumer : 0 .. MaxConsumers]]
  BY <1>1, <1>3, <1>6
<1>8. /\ ConsumeCall(n, p) \in Call /\ CallFits(t, ConsumeCall(n, p))
      /\ ConsumeCall(n, p).pc = "addConsumer" /\ ConsumeCall(n, p).id = n
      /\ ConsumeCall(n, p).producer = p
  BY <1>3, <1>5, <1>6, CallFacts DEF CallFits
<1>9. CASE call' = [call EXCEPT ![t] = ConsumeCall(n, p)]
  <2>1. /\ call' \in [Transports -> Call] /\ CallsFit'
        /\ \A u \in Transports : call'[u] = IF u = t THEN ConsumeCall(n, p) ELSE call[u]
    BY <1>8, <1>9, CallChanges
  <2>2. /\ call'[t].pc = "addConsumer" /\ call'[t].id = n /\ call'[t].producer = p
        /\ \A u \in Transports \ {t} : call'[u] = call[u]
    BY <1>8, <2>1
  <2>3. QED
    BY <1>2, <1>3, <1>4, <1>5, <1>6, <1>7, <2>1, <2>2, ObjectFacts DEF n, p
<1>10. CASE UNCHANGED <<call, cProducer, cPaused, cWorkers>>
  BY <1>2, <1>3, <1>5, <1>6, <1>7, <1>10, ObjectFacts DEF n, p
<1>11. QED
  BY <1>4, <1>9, <1>10

\* The steps of AddProducer, and how they change the calls.
LEMMA AddProducerFacts ==
    ASSUME Shape, NEW t \in Transports, AddProducer(t) \/ AddList(t)
    PROVE  LET n == call[t].id
           IN  /\ n \in Ids /\ t \in Producing /\ <<t, n>> \in Objects /\ producing(t)
               /\ call' \in [Transports -> Call] /\ CallsFit'
               /\ \A u \in Transports \ {t} : call'[u] = call[u]
               /\ \/ call'[t].pc \in {"idle", "gone"} /\ UNCHANGED <<producers, fwd>>
                  \/ /\ AddProducer(t) /\ stage < 5
                     /\ call'[t].pc = "addList" /\ call'[t].id = n
                     /\ producers' = [producers EXCEPT ![n] = <<t, n>>]
                     /\ UNCHANGED fwd
                  \/ /\ AddList(t) /\ stage < 3
                     /\ call'[t].pc = "produced" /\ call'[t].id = n
                     /\ fwd' = [m \in DOMAIN fwd \cup {n} |-> IF m = n THEN <<>> ELSE fwd[m]]
                     /\ UNCHANGED producers
               /\ UNCHANGED <<stage, consumers, ice, tClosed, tNil, tProducers, tConsumers,
                              lastId, closer, producerVars, consumerVars, late, listing, fatal>>
<1> DEFINE n == call[t].id
<1>1. n \in Ids /\ t \in Producing /\ producing(t)
  BY DEF AddProducer, AddList, Shape, CallsFit, producing
<1>2. /\ UNCHANGED <<stage, consumers, ice, tClosed, tNil, tProducers, tConsumers,
                     lastId, closer, pClosed, pPaused, bufClosed, worker, queue, closes,
                     consumerVars, listing, lateProducers, lateConsumers, fatal>>
      /\ \/ (Panic(t) \/ call' = [call EXCEPT ![t] = NoCall]) /\ UNCHANGED <<producers, fwd>>
         \/ /\ AddProducer(t) /\ stage < 5
            /\ call' = [call EXCEPT ![t] = GoOn(call[t], "addList")]
            /\ producers' = [producers EXCEPT ![n] = <<t, n>>]
            /\ UNCHANGED fwd
         \/ /\ AddList(t) /\ stage < 3
            /\ call' = [call EXCEPT ![t] = GoOn(call[t], "produced")]
            /\ fwd' = [m \in DOMAIN fwd \cup {n} |-> IF m = n THEN <<>> ELSE fwd[m]]
            /\ UNCHANGED producers
  BY DEF AddProducer, AddList, ProduceStep, GoOn
<1>3. UNCHANGED <<producerVars, late>>
  BY <1>2 DEF producerVars, late
<1>4. \A pc \in {"addList", "produced"} : CallFits(t, GoOn(call[t], pc))
  <2>1. call[t] \in Call
    BY DEF Shape, TypeOK, TransportOK
  <2>2. QED
    BY <1>1, <2>1, CallGoesOn DEF CallFits
<1>5. /\ call' \in [Transports -> Call] /\ CallsFit'
      /\ \A u \in Transports \ {t} : call'[u] = call[u]
      /\ \/ call'[t].pc \in {"idle", "gone"} /\ UNCHANGED <<producers, fwd>>
         \/ /\ AddProducer(t) /\ stage < 5
            /\ call'[t].pc = "addList" /\ call'[t].id = n
            /\ producers' = [producers EXCEPT ![n] = <<t, n>>]
            /\ UNCHANGED fwd
         \/ /\ AddList(t) /\ stage < 3
            /\ call'[t].pc = "produced" /\ call'[t].id = n
            /\ fwd' = [m \in DOMAIN fwd \cup {n} |-> IF m = n THEN <<>> ELSE fwd[m]]
            /\ UNCHANGED producers
  <2>1. CASE (Panic(t) \/ call' = [call EXCEPT ![t] = NoCall]) /\ UNCHANGED <<producers, fwd>>
    BY <2>1, CallEnds
  <2>2. CASE /\ AddProducer(t) /\ stage < 5
             /\ call' = [call EXCEPT ![t] = GoOn(call[t], "addList")]
             /\ producers' = [producers EXCEPT ![n] = <<t, n>>]
             /\ UNCHANGED fwd
    BY <1>4, <2>2, CallGoes
  <2>3. CASE /\ AddList(t) /\ stage < 3
             /\ call' = [call EXCEPT ![t] = GoOn(call[t], "produced")]
             /\ fwd' = [m \in DOMAIN fwd \cup {n} |-> IF m = n THEN <<>> ELSE fwd[m]]
             /\ UNCHANGED producers
    BY <1>4, <2>3, CallGoes
  <2>4. QED
    BY <1>2, <2>1, <2>2, <2>3
<1>6. QED
  BY <1>1, <1>2, <1>3, <1>5, ObjectFacts

\* The end of Produce.
LEMMA ProduceEndFacts ==
    ASSUME Shape, NEW t \in Transports, ProduceEnd(t)
    PROVE  LET n == call[t].id
           IN  /\ n \in Ids /\ t \in Producing /\ <<t, n>> \in Objects /\ producing(t)
               /\ call[t].pc = "produced"
               /\ worker' = [worker EXCEPT ![<<t, n>>] = "select"]
               /\ call' \in [Transports -> Call] /\ CallsFit'
               /\ \A u \in Transports \ {t} : call'[u] = call[u]
               /\ call'[t].pc \in {"idle", "gone"}
               /\ \/ tNil[t] /\ UNCHANGED tProducers
                  \/ ~tNil[t] /\ tProducers' = [tProducers EXCEPT ![t] = @ \cup {n}]
               /\ lateProducers' = lateProducers \cup (IF tClosed[t] THEN {<<t, n>>} ELSE {})
               /\ UNCHANGED <<routerVars, ice, tClosed, tNil, tConsumers, lastId, closer, pClosed,
                              pPaused, bufClosed, queue, closes, consumerVars,
                              lateConsumers, listing, fatal>>
<1>1. call[t].id \in Ids /\ t \in Producing /\ producing(t)
  BY DEF ProduceEnd, Shape, CallsFit, producing
<1>2. Panic(t) \/ call' = [call EXCEPT ![t] = NoCall]
  BY DEF ProduceEnd
<1>3. QED
  BY <1>1, <1>2, CallEnds, ObjectFacts DEF ProduceEnd, ProduceStep

\* Produce.
LEMMA ProduceShape ==
    ASSUME Shape, NEW t \in Transports,
           ProduceStart(t) \/ AddProducer(t) \/ AddList(t) \/ ProduceEnd(t)
    PROVE  Shape'
<1>1. CASE ProduceStart(t)
  <2>1. /\ call' \in [Transports -> Call] /\ CallsFit'
        /\ lastId' \in [Transports -> [producer : 0 .. MaxProducers, consumer : 0 .. MaxConsumers]]
        /\ UNCHANGED <<routerVars, ice, tClosed, tNil, tProducers, tConsumers,
                       closer, producerVars, consumerVars, late, listing, fatal>>
    BY <1>1, ProduceStartFacts
  <2>2. TransportOK'
    BY <2>1 DEF Shape, TypeOK, TransportOK
  <2>3. QED
    BY <2>1, <2>2, SameParts, ShapePartsAfter
<1>2. CASE AddProducer(t) \/ AddList(t)
  <2> DEFINE n == call[t].id
  <2>1. /\ n \in Ids /\ <<t, n>> \in Objects
        /\ call' \in [Transports -> Call] /\ CallsFit'
        /\ producers' = producers \/ producers' = [producers EXCEPT ![n] = <<t, n>>]
        /\ fwd' = fwd \/ fwd' = [m \in DOMAIN fwd \cup {n} |-> IF m = n THEN <<>> ELSE fwd[m]]
        /\ UNCHANGED <<stage, consumers, ice, tClosed, tNil, tProducers, tConsumers,
                       lastId, closer, producerVars, consumerVars, late, listing, fatal>>
    BY <1>2, AddProducerFacts
  <2> HIDE DEF n
  <2>2. TransportOK'
    BY <2>1 DEF Shape, TypeOK, TransportOK
  <2>3. /\ producers' \in [Ids -> {None} \cup Objects]
        /\ \A m \in Ids : producers'[m] = producers[m] \/ (m = n /\ producers'[m] = <<t, n>>)
    BY <2>1 DEF Shape, TypeOK, RouterOK
  <2>4. <<>> \in Seq(Ids)
    OBVIOUS
  <2>5. DOMAIN fwd' \subseteq Ids /\ \A m \in DOMAIN fwd' : fwd'[m] \in Seq(Ids)
    BY <2>1, <2>4 DEF Shape, TypeOK, RouterOK
  <2>6. RouterOK'
    BY <2>1, <2>3, <2>5 DEF Shape, TypeOK, RouterOK
  <2>7. QED
    BY <2>1, <2>2, <2>6, SameParts, ShapePartsAfter
<1>3. CASE ProduceEnd(t)
  <2> DEFINE n == call[t].id
  <2>1. /\ n \in Ids /\ <<t, n>> \in Objects
        /\ worker' = [worker EXCEPT ![<<t, n>>] = "select"]
        /\ call' \in [Transports -> Call] /\ CallsFit'
        /\ tProducers' = tProducers \/ tProducers' = [tProducers EXCEPT ![t] = @ \cup {n}]
        /\ lateProducers' = lateProducers \cup (IF tClosed[t] THEN {<<t, n>>} ELSE {})
        /\ UNCHANGED <<routerVars, ice, tClosed, tNil, tConsumers, lastId, closer, pClosed,
                       pPaused, bufClosed, queue, closes, consumerVars,
                       lateConsumers, listing, fatal>>
    BY <1>3, ProduceEndFacts
  <2> HIDE DEF n
  <2>a. tProducers' \in [Transports -> SUBSET Ids]
    BY <2>1 DEF Shape, TypeOK, TransportOK
  <2>2. TransportOK'
    BY <2>1, <2>a DEF Shape, TypeOK, TransportOK
  <2>3. ProducerOK'
    BY <2>1 DEF Shape, TypeOK, ProducerOK
  <2>4. HistoryOK'
    BY <2>1 DEF Shape, TypeOK, HistoryOK, listing
  <2>5. QED
    BY <2>1, <2>2, <2>3, <2>4, SameParts, ShapePartsAfter
<1>4. QED
  BY <1>1, <1>2, <1>3

\* The beginning of Consume.
LEMMA ConsumeStartShape ==
    ASSUME Shape, NEW t \in Transports, NEW m \in Ids, NEW paused \in BOOLEAN,
           ConsumeStart(t, m, paused)
    PROVE  Shape'
<1> DEFINE n == getNextId(t, "consumer")
           p == producers[m]
           c == <<t, n>>
<1>1. /\ p \in Objects /\ c \in Objects
      /\ lastId' \in [Transports -> [producer : 0 .. MaxProducers, consumer : 0 .. MaxConsumers]]
      /\ \/ /\ call' \in [Transports -> Call] /\ CallsFit'
            /\ cProducer' = [cProducer EXCEPT ![c] = p]
            /\ cPaused' = [cPaused EXCEPT ![c] = paused]
            /\ cWorkers' = [cWorkers EXCEPT ![c] = {"read", "write"}]
         \/ UNCHANGED <<call, cProducer, cPaused, cWorkers>>
      /\ UNCHANGED <<routerVars, ice, tClosed, tNil, tProducers, tConsumers,
                     closer, producerVars, cClosed, late, listing, fatal>>
  BY ConsumeStartFacts
<1> HIDE DEF n, p, c
<1>2. call' \in [Transports -> Call] /\ CallsFit'
  BY <1>1, SameParts DEF Shape, TypeOK, TransportOK
<1>3. TransportOK'
  BY <1>1, <1>2 DEF Shape, TypeOK, TransportOK
<1>4. ConsumerOK'
  <2>1. ConsumerOK
    BY DEF Shape, TypeOK
  <2>2. QED
    BY <1>1, <2>1 DEF ConsumerOK
<1>5. QED
  BY <1>1, <1>2, <1>3, <1>4, SameParts, ShapePartsAfter

\* The steps of Consume but ReadList.
LEMMA ConsumeFacts ==
    ASSUME Shape, NEW t \in Transports, AddConsumer(t) \/ AppendConsumer(t) \/ ConsumeEnd(t)
    PROVE  LET n == call[t].id
               c == <<t, n>>
           IN  /\ n \in Ids /\ t \in Consuming /\ c \in Objects /\ consuming(t)
               /\ call[t].producer \in Objects
               /\ call' \in [Transports -> Call] /\ CallsFit'
               /\ \A u \in Transports \ {t} : call'[u] = call[u]
               /\ \/ /\ \/ AddConsumer(t) /\ stage >= 4
                        \/ AppendConsumer(t) /\ stage >= 3
                     /\ call'[t].pc \in {"idle", "gone"}
                     /\ lateConsumers' = lateConsumers \cup {c}
                     /\ UNCHANGED <<consumers, fwd, tConsumers>>
                  \/ /\ AddConsumer(t) /\ call[t].pc = "addConsumer" /\ stage < 4
                     /\ call'[t].pc = "readList" /\ call'[t].id = n
                     /\ call'[t].producer = call[t].producer
                     /\ consumers' = [consumers EXCEPT ![n] = c]
                     /\ UNCHANGED <<fwd, tConsumers, lateConsumers>>
                  \/ /\ AppendConsumer(t) /\ call[t].pc = "append" /\ stage < 3
                     /\ call'[t].pc = "consumed" /\ call'[t].id = n
                     /\ call'[t].producer = call[t].producer
                     /\ fwd' = [fwd EXCEPT ![call[t].producer[2]] = call[t].list]
                     /\ UNCHANGED <<consumers, tConsumers, lateConsumers>>
                  \/ /\ ConsumeEnd(t) /\ call[t].pc = "consumed"
                     /\ call'[t].pc \in {"idle", "gone"}
                     /\ \/ tNil[t] /\ UNCHANGED tConsumers
                        \/ ~tNil[t] /\ tConsumers' = [tConsumers EXCEPT ![t] = @ \cup {n}]
                     /\ lateConsumers' = lateConsumers \cup (IF tClosed[t] THEN {c} ELSE {})
                     /\ UNCHANGED <<consumers, fwd>>
               /\ UNCHANGED <<stage, producers, ice, tClosed, tNil, tProducers, lastId, closer,
                              producerVars, consumerVars, lateProducers, listing, fatal>>
<1> DEFINE n == call[t].id
           c == <<t, n>>
<1>1. /\ n \in Ids /\ t \in Consuming /\ consuming(t) /\ c \in Objects
      /\ call[t].producer \in Objects
  BY ObjectFacts DEF AddConsumer, AppendConsumer, ConsumeEnd, Shape, CallsFit, consuming
<1>2. \A pc \in {"readList", "consumed"} : CallFits(t, GoOn(call[t], pc))
  <2>1. call[t] \in Call
    BY DEF Shape, TypeOK, TransportOK
  <2>2. QED
    BY <1>1, <2>1, CallGoesOn DEF CallFits
<1>3. CASE AddConsumer(t)
  <2>1. /\ call[t].pc = "addConsumer"
        /\ \/ /\ stage >= 4 /\ Panic(t)
              /\ lateConsumers' = lateConsumers \cup {c}
              /\ UNCHANGED consumers
           \/ /\ stage < 4
              /\ consumers' = [consumers EXCEPT ![n] = c]
              /\ call' = [call EXCEPT ![t] = GoOn(call[t], "readList")]
              /\ UNCHANGED lateConsumers
        /\ ConsumeStep /\ UNCHANGED <<fwd, tConsumers, listing>>
    BY <1>3 DEF AddConsumer, GoOn
  <2>2. CASE /\ stage >= 4 /\ Panic(t)
             /\ lateConsumers' = lateConsumers \cup {c} /\ UNCHANGED consumers
    BY <1>1, <1>3, <2>1, <2>2, CallEnds DEF ConsumeStep
  <2>3. CASE /\ stage < 4
             /\ consumers' = [consumers EXCEPT ![n] = c]
             /\ call' = [call EXCEPT ![t] = GoOn(call[t], "readList")]
             /\ UNCHANGED lateConsumers
    BY <1>1, <1>2, <1>3, <2>1, <2>3, CallGoes DEF ConsumeStep
  <2>4. QED
    BY <2>1, <2>2, <2>3
<1>4. CASE AppendConsumer(t)
  <2>1. /\ call[t].pc = "append"
        /\ \/ /\ stage >= 3 /\ Panic(t)
              /\ lateConsumers' = lateConsumers \cup {c}
              /\ UNCHANGED fwd
           \/ /\ stage < 3
              /\ fwd' = [fwd EXCEPT ![call[t].producer[2]] = call[t].list]
              /\ call' = [call EXCEPT ![t] = GoOn(call[t], "consumed")]
              /\ UNCHANGED lateConsumers
        /\ ConsumeStep /\ UNCHANGED <<consumers, tConsumers, listing>>
    BY <1>4 DEF AppendConsumer, GoOn
  <2>2. CASE /\ stage >= 3 /\ Panic(t)
             /\ lateConsumers' = lateConsumers \cup {c} /\ UNCHANGED fwd
    BY <1>1, <1>4, <2>1, <2>2, CallEnds DEF ConsumeStep
  <2>3. CASE /\ stage < 3
             /\ fwd' = [fwd EXCEPT ![call[t].producer[2]] = call[t].list]
             /\ call' = [call EXCEPT ![t] = GoOn(call[t], "consumed")]
             /\ UNCHANGED lateConsumers
    BY <1>1, <1>2, <1>4, <2>1, <2>3, CallGoes DEF ConsumeStep
  <2>4. QED
    BY <2>1, <2>2, <2>3
<1>5. CASE ConsumeEnd(t)
  <2>1. Panic(t) \/ call' = [call EXCEPT ![t] = NoCall]
    BY <1>5 DEF ConsumeEnd
  <2>2. QED
    BY <1>1, <1>5, <2>1, CallEnds DEF ConsumeEnd, ConsumeStep
<1>6. QED
  BY <1>3, <1>4, <1>5

\* A Consume reads a list that is missing, or appends its number to it; other calls
\* about to write back may find their lists changed.
LEMMA ReadListFacts ==
    ASSUME Shape, NEW t \in Transports, ReadList(t)
    PROVE  LET n == call[t].id
               c == <<t, n>>
               key == call[t].producer[2]
               list == appended(fwd[key], n)
           IN  /\ n \in Ids /\ t \in Consuming /\ c \in Objects /\ consuming(t)
               /\ call[t].pc = "readList"
               /\ call[t].producer \in Objects /\ key \in Ids
               /\ call' \in [Transports -> Call] /\ CallsFit'
               /\ call'[t].id = n /\ call'[t].producer = call[t].producer
               /\ \/ /\ key \notin DOMAIN fwd /\ call'[t].pc = "consumed"
                     /\ \A u \in Transports \ {t} : call'[u] = call[u]
                     /\ refused' = refused \cup {c} /\ UNCHANGED overlap
                  \/ /\ key \in DOMAIN fwd /\ list \in Seq(Ids)
                     /\ call'[t].pc = "append" /\ call'[t].list = list
                     /\ \A u \in Transports \ {t} :
                          \/ call'[u] = call[u]
                          \/ /\ u \in appending(t)
                             /\ call'[u].pc = call[u].pc /\ call'[u].id = call[u].id
                             /\ call'[u].producer = call[u].producer
                             /\ call'[u].list = list
                     /\ overlap' = overlap \cup (IF appending(t) = {} THEN {} ELSE
                                      {<<u, call[u].id>> : u \in appending(t) \cup {t}})
                     /\ UNCHANGED refused
               /\ UNCHANGED <<routerVars, ice, tClosed, tNil, tProducers, tConsumers, lastId,
                              closer, producerVars, consumerVars, late, fatal>>
<1> DEFINE n == call[t].id
           c == <<t, n>>
           x == call[t]
           key == call[t].producer[2]
           list == appended(fwd[key], n)
<1>1. /\ n \in Ids /\ t \in Consuming /\ consuming(t) /\ c \in Objects /\ x.pc = "readList"
      /\ call[t].producer \in Objects /\ key \in Ids
  BY ObjectFacts DEF ReadList, Shape, CallsFit, consuming
<1>2. UNCHANGED <<routerVars, ice, tClosed, tNil, tProducers, tConsumers, lastId,
                  closer, producerVars, consumerVars, late, fatal>>
  BY DEF ReadList, ConsumeStep, routerVars, late
<1>3. call \in [Transports -> Call] /\ x \in Call
  BY DEF Shape, TypeOK, TransportOK
<1>4. CASE /\ key \notin DOMAIN fwd
           /\ call' = [call EXCEPT ![t] = GoOn(x, "consumed")]
           /\ refused' = refused \cup {c} /\ UNCHANGED overlap
  <2>1. CallFits(t, GoOn(x, "consumed"))
    BY <1>1, <1>3, CallGoesOn DEF CallFits
  <2>2. QED
    BY <1>1, <1>2, <1>4, <2>1, CallGoes
<1>5. ASSUME key \in DOMAIN fwd,
             NEW same \in {{}, sharing(t, fwd[key])},
             call' = [u \in Transports |->
                        CASE u = t -> GoAppend(x, list)
                          [] u \in same -> Relist(call[u], list)
                          [] OTHER -> call[u]]
      PROVE  /\ list \in Seq(Ids)
             /\ call' \in [Transports -> Call] /\ CallsFit'
             /\ call'[t].id = n /\ call'[t].producer = call[t].producer
             /\ call'[t].pc = "append" /\ call'[t].list = list
             /\ \A u \in Transports \ {t} :
                  \/ call'[u] = call[u]
                  \/ /\ u \in appending(t)
                     /\ call'[u].pc = call[u].pc /\ call'[u].id = call[u].id
                     /\ call'[u].producer = call[u].producer
                     /\ call'[u].list = list
  <2>1. list \in Seq(Ids)
    BY <1>1, <1>5, AppendedList DEF Shape, TypeOK, RouterOK
  <2>2. t \notin same /\ same \subseteq appending(t)
    BY <1>5 DEF sharing, appending
  <2> HIDE DEF list, n, x
  <2>3. /\ GoAppend(x, list) \in Call /\ GoAppend(x, list).pc = "append"
        /\ GoAppend(x, list).id = x.id /\ GoAppend(x, list).producer = x.producer
        /\ GoAppend(x, list).list = list
    BY <1>3, <2>1, CallGoesOn
  <2>4. \A u \in Transports :
          /\ Relist(call[u], list) \in Call /\ Relist(call[u], list).pc = call[u].pc
          /\ Relist(call[u], list).id = call[u].id
          /\ Relist(call[u], list).producer = call[u].producer
          /\ Relist(call[u], list).list = list
    <3>1. ASSUME NEW u \in Transports
          PROVE  /\ Relist(call[u], list) \in Call /\ Relist(call[u], list).pc = call[u].pc
                 /\ Relist(call[u], list).id = call[u].id
                 /\ Relist(call[u], list).producer = call[u].producer
                 /\ Relist(call[u], list).list = list
      <4>1. call[u] \in Call
        BY <1>3
      <4>2. QED
        BY <2>1, <4>1, CallGoesOn
    <3>2. QED
      BY <3>1
  <2>5. /\ call'[t] = GoAppend(x, list)
        /\ \A u \in Transports \ {t} :
             call'[u] = call[u] \/ (u \in same /\ call'[u] = Relist(call[u], list))
        /\ call' = [u \in Transports |-> call'[u]]
    <3> DEFINE next(u) == CASE u = t -> GoAppend(x, list)
                            [] u \in same -> Relist(call[u], list)
                            [] OTHER -> call[u]
    <3>1. next(t) = GoAppend(x, list)
      BY <2>2
    <3>2. \A u \in Transports \ {t} :
            next(u) = call[u] \/ (u \in same /\ next(u) = Relist(call[u], list))
      OBVIOUS
    <3>3. call' = [u \in Transports |-> next(u)]
      BY <1>5
    <3> HIDE DEF next
    <3>4. QED
      BY <3>1, <3>2, <3>3
  <2>6. \A u \in Transports : call'[u] \in Call
    BY <1>3, <2>3, <2>4, <2>5
  <2>7. call' \in [Transports -> Call]
    BY <2>5, <2>6
  <2>8. \A u \in Transports \ {t} :
          /\ call'[u].pc = call[u].pc /\ call'[u].id = call[u].id
          /\ call'[u].producer = call[u].producer
    BY <2>4, <2>5
  <2>9. /\ call'[t].pc = "append" /\ call'[t].id = n /\ call'[t].producer = call[t].producer
        /\ call'[t].list = list
    BY <2>3, <2>5 DEF x, n
  <2>10. CallsFit'
    BY <1>1, <2>8, <2>9 DEF Shape, CallsFit, consuming, producing, n
  <2>11. QED
    BY <2>1, <2>2, <2>4, <2>5, <2>7, <2>8, <2>9, <2>10
<1>6. CASE /\ key \in DOMAIN fwd
           /\ \E same \in {{}, sharing(t, fwd[key])} :
                call' = [u \in Transports |->
                           CASE u = t -> GoAppend(x, list)
                             [] u \in same -> Relist(call[u], list)
                             [] OTHER -> call[u]]
           /\ overlap' = overlap \cup (IF appending(t) = {} THEN {} ELSE
                           {<<u, call[u].id>> : u \in appending(t) \cup {t}})
           /\ UNCHANGED refused
  <2>1. /\ list \in Seq(Ids)
        /\ call' \in [Transports -> Call] /\ CallsFit'
        /\ call'[t].id = n /\ call'[t].producer = call[t].producer
        /\ call'[t].pc = "append" /\ call'[t].list = list
        /\ \A u \in Transports \ {t} :
             \/ call'[u] = call[u]
             \/ /\ u \in appending(t)
                /\ call'[u].pc = call[u].pc /\ call'[u].id = call[u].id
                /\ call'[u].producer = call[u].producer
                /\ call'[u].list = list
    BY <1>5, <1>6
  <2>2. QED
    BY <1>1, <1>2, <1>6, <2>1
<1>7. QED
  <2>1. \/ /\ key \notin DOMAIN fwd
           /\ call' = [call EXCEPT ![t] = GoOn(x, "consumed")]
           /\ refused' = refused \cup {c} /\ UNCHANGED overlap
        \/ /\ key \in DOMAIN fwd
           /\ \E same \in {{}, sharing(t, fwd[key])} :
                call' = [u \in Transports |->
                           CASE u = t -> GoAppend(x, list)
                             [] u \in same -> Relist(call[u], list)
                             [] OTHER -> call[u]]
           /\ overlap' = overlap \cup (IF appending(t) = {} THEN {} ELSE
                           {<<u, call[u].id>> : u \in appending(t) \cup {t}})
           /\ UNCHANGED refused
    BY DEF ReadList, GoOn, GoAppend, Relist
  <2>2. QED
    BY <1>4, <1>6, <2>1

\* The rest of Consume.
LEMMA ConsumeShape ==
    ASSUME Shape, NEW t \in Transports,
           AddConsumer(t) \/ ReadList(t) \/ AppendConsumer(t) \/ ConsumeEnd(t)
    PROVE  Shape'
<1> DEFINE n == call[t].id
           c == <<t, n>>
<1>1. CASE ReadList(t)
  <2>1. /\ call' \in [Transports -> Call] /\ CallsFit'
        /\ UNCHANGED <<routerVars, ice, tClosed, tNil, tProducers, tConsumers, lastId,
                       closer, producerVars, consumerVars, late, fatal>>
    BY <1>1, ReadListFacts
  <2>2. /\ c \in Objects
        /\ refused' \in {refused, refused \cup {c}}
        /\ \/ UNCHANGED overlap
           \/ overlap' = overlap \cup (IF appending(t) = {} THEN {} ELSE
                           {<<u, call[u].id>> : u \in appending(t) \cup {t}})
    BY <1>1, ReadListFacts
  <2>3. \A u \in appending(t) \cup {t} : <<u, call[u].id>> \in Objects
    <3>1. \A u \in appending(t) : u \in Transports /\ call[u].id \in Ids
      BY DEF appending, Shape, CallsFit, consuming
    <3>2. QED
      BY <2>2, <3>1, ObjectFacts
  <2>4. HistoryOK'
    BY <2>1, <2>2, <2>3 DEF Shape, TypeOK, HistoryOK, late
  <2>5. TransportOK'
    BY <2>1 DEF Shape, TypeOK, TransportOK
  <2>6. QED
    BY <2>1, <2>4, <2>5, SameParts, ShapePartsAfter
<1>2. CASE AddConsumer(t) \/ AppendConsumer(t) \/ ConsumeEnd(t)
  <2>1. /\ n \in Ids /\ c \in Objects
        /\ call' \in [Transports -> Call] /\ CallsFit'
        /\ consumers' = consumers \/ consumers' = [consumers EXCEPT ![n] = c]
        /\ fwd' = fwd \/ fwd' = [fwd EXCEPT ![call[t].producer[2]] = call[t].list]
        /\ tConsumers' = tConsumers \/ tConsumers' = [tConsumers EXCEPT ![t] = @ \cup {n}]
        /\ lateConsumers' \in {lateConsumers, lateConsumers \cup {c}}
        /\ UNCHANGED <<stage, producers, ice, tClosed, tNil, tProducers, lastId, closer,
                       producerVars, consumerVars, lateProducers, listing, fatal>>
    BY <1>2, ConsumeFacts
  <2>2. call[t].list \in Seq(Ids)
    BY DEF Shape, TypeOK, TransportOK, Call
  <2> HIDE DEF n
  <2>3. tConsumers' \in [Transports -> SUBSET Ids]
    BY <2>1 DEF Shape, TypeOK, TransportOK
  <2>4. TransportOK'
    BY <2>1, <2>3 DEF Shape, TypeOK, TransportOK
  <2>5. /\ consumers' \in [Ids -> {None} \cup Objects]
        /\ \A m \in Ids : consumers'[m] = consumers[m] \/ (m = n /\ consumers'[m] = c)
    BY <2>1 DEF Shape, TypeOK, RouterOK
  <2>6. DOMAIN fwd' \subseteq Ids /\ \A m \in DOMAIN fwd' : fwd'[m] \in Seq(Ids)
    BY <2>1, <2>2 DEF Shape, TypeOK, RouterOK
  <2>7. RouterOK'
    BY <2>1, <2>5, <2>6 DEF Shape, TypeOK, RouterOK
  <2>8. HistoryOK'
    BY <2>1 DEF Shape, TypeOK, HistoryOK, listing
  <2>9. QED
    BY <2>1, <2>4, <2>7, <2>8, SameParts, ShapePartsAfter
<1>3. QED
  BY <1>1, <1>2

\* The read worker of a producer.
LEMMA WorkerShape ==
    ASSUME Shape, NEW p \in Objects, Work(p) \/ WorkerPacket(p)
    PROVE  Shape'
<1>1. UNCHANGED <<routerVars, transportVars, pPaused, consumerVars, late, listing, fatal>>
  BY DEF Work, WorkerSelect, WorkerEOF, WorkerPacket, Forward, WorkerStep
<1>2. ConsumerOK'
  BY <1>1 DEF Shape, TypeOK, ConsumerOK, consumerVars
<1>3. worker' \in [Objects -> {"none", "select", "read", "forward", "done"}]
  BY DEF Work, WorkerSelect, WorkerEOF, WorkerPacket, Forward, Shape, TypeOK, ProducerOK
<1>4. queue' \in [Objects -> Seq(Ids)]
  <2>1. queue \in [Objects -> Seq(Ids)]
    BY DEF Shape, TypeOK, ProducerOK
  <2>2. <<>> \in Seq(Ids)
    OBVIOUS
  <2>3. \A n \in DOMAIN fwd : fwd[n] \in Seq(Ids)
    BY DEF Shape, TypeOK, RouterOK
  <2>4. CASE WorkerSelect(p) \/ WorkerEOF(p)
    BY <2>1, <2>4 DEF WorkerSelect, WorkerEOF
  <2>5. CASE WorkerPacket(p)
    BY <2>1, <2>3, <2>5 DEF WorkerPacket
  <2>6. CASE Forward(p)
    <3>1. CASE hasNext(p)
      <4>1. queue[p] \in Seq(Ids) /\ queue[p] # <<>>
        BY <2>1, <3>1 DEF hasNext
      <4>2. Tail(queue[p]) \in Seq(Ids)
        BY <4>1
      <4>3. queue' = [queue EXCEPT ![p] = Tail(queue[p])]
        BY <2>6, <3>1 DEF Forward
      <4>4. QED
        BY <2>1, <4>2, <4>3
    <3>2. CASE ~hasNext(p)
      BY <2>1, <2>2, <2>6, <3>2 DEF Forward
    <3>3. QED
      BY <3>1, <3>2
  <2>7. QED
    BY <2>4, <2>5, <2>6 DEF Work
<1>5. /\ pClosed' \in [Objects -> BOOLEAN] /\ bufClosed' \in [Objects -> BOOLEAN]
      /\ closes' \in [Objects -> Nat]
  <2>1. CASE WorkerEOF(p)
    <3>1. closes \in [Objects -> Nat]
      BY DEF Shape, TypeOK, ProducerOK
    <3>2. QED
      BY <2>1, <3>1 DEF WorkerEOF, ProducerClose
  <2>2. CASE ~WorkerEOF(p)
    BY <2>2 DEF Work, WorkerSelect, WorkerPacket, Forward, Shape, TypeOK, ProducerOK
  <2>3. QED
    BY <2>1, <2>2
<1>6. ProducerOK'
  BY <1>1, <1>3, <1>4, <1>5 DEF Shape, TypeOK, ProducerOK
<1>7. QED
  BY <1>1, <1>2, <1>6, SameParts, ShapePartsAfter DEF transportVars

\* Pausing and resuming, and the RTCP workers of a consumer.
LEMMA ToggleShape ==
    ASSUME Shape, NEW p \in Objects,
           \/ \E value \in BOOLEAN : Pause(p, value)
           \/ ConsumerToggle(p)
           \/ \E w \in {"read", "write"} : ConsumerWorkerEnd(p, w) \/ ConsumerWorkerFails(p, w)
    PROVE  Shape'
<1>1. UNCHANGED <<routerVars, transportVars, late, listing, fatal>>
  BY DEF Pause, ConsumerToggle, ConsumerWorkerEnd, ConsumerWorkerFails
<1>2. ProducerOK'
  BY DEF Pause, ConsumerToggle, ConsumerWorkerEnd, ConsumerWorkerFails, Shape, TypeOK,
         ProducerOK, producerVars
<1>3. ConsumerOK'
  <2>1. CASE \E value \in BOOLEAN : Pause(p, value)
    BY <2>1 DEF Pause, Shape, TypeOK, ConsumerOK, consumerVars
  <2>2. CASE ConsumerToggle(p)
    <3>1. cPaused' = [cPaused EXCEPT ![p] = ~cPaused[p]]
      BY <2>2 DEF ConsumerToggle
    <3>2. cPaused' \in [Objects -> BOOLEAN]
      BY <3>1 DEF Shape, TypeOK, ConsumerOK
    <3>3. QED
      BY <2>2, <3>2 DEF ConsumerToggle, Shape, TypeOK, ConsumerOK
  <2>3. CASE \E w \in {"read", "write"} : ConsumerWorkerEnd(p, w) \/ ConsumerWorkerFails(p, w)
    <3>1. PICK w \in {"read", "write"} : cWorkers' = [cWorkers EXCEPT ![p] = @ \ {w}]
      BY <2>3 DEF ConsumerWorkerEnd, ConsumerWorkerFails
    <3>2. UNCHANGED <<cProducer, cClosed, cPaused>>
      BY <2>3 DEF ConsumerWorkerEnd, ConsumerWorkerFails
    <3>3. cWorkers' \in [Objects -> SUBSET {"read", "write"}]
      BY <3>1 DEF Shape, TypeOK, ConsumerOK
    <3>4. QED
      BY <3>2, <3>3 DEF Shape, TypeOK, ConsumerOK
  <2>4. QED
    BY <2>1, <2>2, <2>3
<1>4. QED
  BY <1>1, <1>2, <1>3, SameParts, ShapePartsAfter DEF transportVars

\* Every step keeps the shape of the state.
LEMMA StepShape == Shape /\ [Next]_vars => Shape'
<1> SUFFICES ASSUME Shape, [Next]_vars PROVE Shape'
  OBVIOUS
<1>1. CASE UNCHANGED vars
  BY <1>1, SameParts, ShapePartsAfter DEF vars, transportVars
<1>2. CASE Next
  <2>1. CASE \E t \in Transports :
               \/ NewWebRTCTransport(t) \/ Connect(t)
               \/ ProduceStart(t) \/ AddProducer(t) \/ AddList(t) \/ ProduceEnd(t)
               \/ \E n \in Ids, paused \in BOOLEAN : ConsumeStart(t, n, paused)
               \/ AddConsumer(t) \/ ReadList(t) \/ AppendConsumer(t) \/ ConsumeEnd(t)
               \/ \E k \in Closers : CloseCheck(t, k) \/ CloseLoop(t, k) \/ CloseStop(t, k)
    BY <2>1, ConnectShape, ProduceShape, ConsumeStartShape, ConsumeShape, CloseShape
  <2>2. CASE RouterClose \/ RouterDrop \/ \E t \in Transports : RouterSkip(t)
    BY <2>2, RouterCloseShape
  <2>3. CASE \E p \in Objects : Work(p) \/ WorkerPacket(p)
    BY <2>3, WorkerShape
  <2>4. CASE \E p \in Objects : \E value \in BOOLEAN : Pause(p, value)
    BY <2>4, ToggleShape
  <2>5. CASE \E c \in Objects :
               \/ ConsumerToggle(c)
               \/ \E w \in {"read", "write"} : ConsumerWorkerEnd(c, w) \/ ConsumerWorkerFails(c, w)
    BY <2>5, ToggleShape
  <2>6. CASE MapRace
    <3>1. /\ UNCHANGED <<routerVars, transportVars, producerVars, consumerVars, late, listing>>
          /\ fatal' = TRUE
      BY <2>6 DEF MapRace
    <3>2. HistoryOK'
      BY <3>1 DEF Shape, TypeOK, HistoryOK, late, listing
    <3>3. QED
      BY <3>1, <3>2, SameParts, ShapePartsAfter DEF transportVars
  <2>7. QED
    BY <1>2, <2>1, <2>2, <2>3, <2>4, <2>5, <2>6 DEF Next
<1>3. QED
  BY <1>1, <1>2

-----------------------------------------------------------------------------
(* Closing.                                                                *)

Closing == ClosesCount /\ CloseOrder /\ ClosedAll /\ Owned

\* A new room has nothing to close.
LEMMA InitClosing == NewRouter => Closing
<1> SUFFICES ASSUME NewRouter PROVE Closing
  OBVIOUS
<1>1. ClosesCount
  BY DEF NewRouter, ClosesCount
<1>2. CloseOrder
  BY DEF NewRouter, CloseOrder
<1>3. ClosedAll
  BY DEF NewRouter, ClosedAll
<1>4. Owned
  BY ObjectFacts DEF NewRouter, Owned
<1>5. QED
  BY <1>1, <1>2, <1>3, <1>4 DEF Closing

\* Steps that close nothing, start no worker and end no call but late.
LEMMA NothingCloses ==
    ASSUME Closing,
           UNCHANGED <<tClosed, tNil, tProducers, tConsumers, pClosed, closes, cClosed>>,
           lateProducers \subseteq lateProducers', lateConsumers \subseteq lateConsumers',
           \A t \in Transports, k \in Closers :
               closer'[t][k] \in {"stop", "done"} => closer[t][k] \in {"stop", "done"},
           \A p \in Objects : /\ worker'[p] # "none" => worker[p] # "none"
                              /\ cWorkers'[p] # {} => cWorkers[p] # {},
           \A t \in Transports : consuming(t) => \/ consuming(t)' /\ call'[t].id = call[t].id
                                                 \/ <<t, call[t].id>> \in lateConsumers'
    PROVE  Closing'
<1>1. ClosesCount'
  BY DEF Closing, ClosesCount
<1>2. CloseOrder'
  BY DEF Closing, CloseOrder
<1>3. ClosedAll'
  BY DEF Closing, ClosedAll
<1>4. Owned'
  <2>1. SUFFICES ASSUME NEW u \in Transports, NEW n \in Ids
                 PROVE  /\ worker'[<<u, n>>] # "none" =>
                             \/ pClosed'[<<u, n>>] \/ n \in tProducers'[u]
                             \/ <<u, n>> \in lateProducers'
                        /\ cWorkers'[<<u, n>>] # {} =>
                             \/ cClosed'[<<u, n>>] \/ n \in tConsumers'[u]
                             \/ <<u, n>> \in lateConsumers'
                             \/ consuming(u)' /\ call'[u].id = n
    BY Zenon DEF Owned
  <2>2. <<u, n>> \in Objects
    BY ObjectFacts
  <2>3. QED
    BY <2>2 DEF Closing, Owned
<1>5. QED
  BY <1>1, <1>2, <1>3, <1>4 DEF Closing

\* A step that starts or ends nothing, and in which all calls stay.
LEMMA CallsStay ==
    ASSUME Closing, UNCHANGED <<transportVars, pClosed, closes, cClosed, late>>,
           \A p \in Objects : /\ worker'[p] # "none" => worker[p] # "none"
                              /\ cWorkers'[p] # {} => cWorkers[p] # {}
    PROVE  Closing'
<1>1. UNCHANGED <<tClosed, tNil, tProducers, tConsumers, closer, call, lateProducers, lateConsumers>>
  BY DEF transportVars, late
<1>2. \A t \in Transports : consuming(t) => consuming(t)' /\ call'[t].id = call[t].id
  BY <1>1 DEF consuming
<1>3. QED
  BY <1>1, <1>2, NothingCloses

\* What closing producers does to the count.
LEMMA CloseCounts ==
    ASSUME Shape, ClosesCount, NEW ps, ProducerClose(ps)
    PROVE  /\ ClosesCount'
           /\ \A p \in Objects : pClosed'[p] <=> (pClosed[p] \/ p \in ps)
<1>1. \A p \in Objects : pClosed'[p] <=> (pClosed[p] \/ p \in ps)
  BY DEF ProducerClose
<1>2. ASSUME NEW p \in Objects PROVE closes'[p] = IF pClosed'[p] THEN 1 ELSE 0
  <2>1. closes'[p] = IF p \in ps /\ ~pClosed[p] THEN closes[p] + 1 ELSE closes[p]
    BY DEF ProducerClose
  <2>2. pClosed[p] \in BOOLEAN
    BY DEF Shape, TypeOK, ProducerOK
  <2>3. closes[p] = IF pClosed[p] THEN 1 ELSE 0
    BY DEF ClosesCount
  <2>4. CASE pClosed[p]
    BY <1>1, <2>1, <2>3, <2>4
  <2>5. CASE ~pClosed[p] /\ p \in ps
    BY <1>1, <2>1, <2>3, <2>5
  <2>6. CASE ~pClosed[p] /\ p \notin ps
    BY <1>1, <2>1, <2>3, <2>6
  <2>7. QED
    BY <2>4, <2>5, <2>6
<1>3. QED
  BY <1>1, <1>2 DEF ClosesCount

\* The loop of WebRTCTransport.Close closes what the transport has.
LEMMA LoopClosing ==
    ASSUME Shape, Closing, NEW t \in Transports, NEW k \in Closers, CloseLoop(t, k)
    PROVE  Closing'
<1> DEFINE ps == {<<t, n>> : n \in tProducers[t]}
           cs == {<<t, n>> : n \in tConsumers[t]}
<1>1. /\ tClosed' = [tClosed EXCEPT ![t] = TRUE]
      /\ ProducerClose(ps) /\ ConsumerClose(cs)
      /\ closer' = [closer EXCEPT ![t][k] = "stop"]
      /\ UNCHANGED <<tNil, tProducers, tConsumers, call, worker, cWorkers, lateProducers,
                     lateConsumers>>
  BY DEF CloseLoop, late
<1>2. /\ ClosesCount'
      /\ \A p \in Objects : pClosed'[p] <=> (pClosed[p] \/ p \in ps)
      /\ \A c \in Objects : cClosed'[c] <=> (cClosed[c] \/ c \in cs)
  BY <1>1, CloseCounts DEF Closing, ConsumerClose
<1>3. \A u \in Transports : tClosed'[u] <=> (u = t \/ tClosed[u])
  BY <1>1 DEF Shape, TypeOK, TransportOK
<1>4. CloseOrder'
  <2>1. \A u \in Transports, j \in Closers :
          closer'[u][j] = IF u = t /\ j = k THEN "stop" ELSE closer[u][j]
    BY <1>1 DEF Shape, TypeOK, TransportOK
  <2>2. QED
    BY <1>1, <1>3, <2>1 DEF Closing, CloseOrder
<1>5. \A u \in Transports : tProducers[u] \subseteq Ids /\ tConsumers[u] \subseteq Ids
  BY DEF Shape, TypeOK, TransportOK
<1>6. ASSUME NEW u \in Transports, tClosed'[u]
      PROVE  /\ \A n \in tProducers[u] : pClosed'[<<u, n>>] \/ <<u, n>> \in lateProducers
             /\ \A n \in tConsumers[u] : cClosed'[<<u, n>>] \/ <<u, n>> \in lateConsumers
  <2>1. CASE u = t
    BY <1>2, <1>5, <2>1, ObjectFacts
  <2>2. CASE u # t
    BY <1>2, <1>3, <1>5, <1>6, <2>2, ObjectFacts DEF Closing, ClosedAll
  <2>3. QED
    BY <2>1, <2>2
<1>7. ClosedAll'
  BY <1>1, <1>6 DEF ClosedAll
<1> HIDE DEF ps, cs
<1>8. Owned'
  BY <1>1, <1>2, ObjectFacts DEF Closing, Owned, consuming
<1>9. QED
  BY <1>2, <1>4, <1>7, <1>8 DEF Closing

\* The end of WebRTCTransport.Close drops only what was closed.
LEMMA StopClosing ==
    ASSUME Shape, Closing, NEW t \in Transports, NEW k \in Closers, CloseStop(t, k)
    PROVE  Closing'
<1>1. /\ closer[t][k] = "stop"
      /\ tNil' = [tNil EXCEPT ![t] = TRUE]
      /\ tProducers' = [tProducers EXCEPT ![t] = {}]
      /\ tConsumers' = [tConsumers EXCEPT ![t] = {}]
      /\ closer' = [closer EXCEPT ![t][k] = "done"]
      /\ UNCHANGED <<tClosed, call, pClosed, closes, worker, cClosed, cWorkers, lateProducers,
                     lateConsumers>>
  BY DEF CloseStop, producerVars, consumerVars, late
<1>2. \A u \in Transports :
        /\ tNil'[u] <=> (u = t \/ tNil[u])
        /\ tProducers'[u] = IF u = t THEN {} ELSE tProducers[u]
        /\ tConsumers'[u] = IF u = t THEN {} ELSE tConsumers[u]
        /\ \A j \in Closers : closer'[u][j] = IF u = t /\ j = k THEN "done" ELSE closer[u][j]
  BY <1>1 DEF Shape, TypeOK, TransportOK
<1>3. ClosesCount'
  BY <1>1 DEF Closing, ClosesCount
<1>4. tClosed[t]
  BY <1>1 DEF Closing, CloseOrder
<1>5. CloseOrder'
  BY <1>1, <1>2, <1>4 DEF Closing, CloseOrder
<1>6. ClosedAll'
  BY <1>1, <1>2 DEF Closing, ClosedAll
<1>7. Owned'
  <2>1. SUFFICES ASSUME NEW u \in Transports, NEW n \in Ids
                 PROVE  /\ worker[<<u, n>>] # "none" =>
                             \/ pClosed[<<u, n>>] \/ n \in tProducers'[u]
                             \/ <<u, n>> \in lateProducers
                        /\ cWorkers[<<u, n>>] # {} =>
                             \/ cClosed[<<u, n>>] \/ n \in tConsumers'[u]
                             \/ <<u, n>> \in lateConsumers
                             \/ consuming(u) /\ call[u].id = n
    BY <1>1 DEF Owned, consuming
  <2>2. CASE u = t
    BY <1>4, <2>2 DEF Closing, ClosedAll, Owned
  <2>3. CASE u # t
    BY <1>2, <2>3 DEF Closing, Owned
  <2>4. QED
    BY <2>2, <2>3
<1>8. QED
  BY <1>3, <1>5, <1>6, <1>7 DEF Closing

\* The end of Produce: the producer's worker starts, and the transport has the
\* producer, unless it was closed.
LEMMA ProduceEndClosing ==
    ASSUME Shape, Closing, NEW t \in Transports, ProduceEnd(t)
    PROVE  Closing'
<1> DEFINE n == call[t].id
           p == <<t, n>>
<1>1. /\ n \in Ids /\ p \in Objects /\ call[t].pc = "produced"
      /\ worker' = [worker EXCEPT ![p] = "select"]
      /\ \A u \in Transports \ {t} : call'[u] = call[u]
      /\ \/ tNil[t] /\ UNCHANGED tProducers
         \/ ~tNil[t] /\ tProducers' = [tProducers EXCEPT ![t] = @ \cup {n}]
      /\ lateProducers' = lateProducers \cup (IF tClosed[t] THEN {p} ELSE {})
      /\ UNCHANGED <<tClosed, tNil, tConsumers, closer, pClosed, closes, consumerVars,
                     lateConsumers>>
  BY ProduceEndFacts
<1>2. UNCHANGED <<cClosed, cWorkers>>
  BY <1>1 DEF consumerVars
<1>3. /\ tProducers[t] \subseteq tProducers'[t] /\ tProducers'[t] \subseteq tProducers[t] \cup {n}
      /\ \A u \in Transports \ {t} : tProducers'[u] = tProducers[u]
      /\ ~tNil[t] => n \in tProducers'[t]
      /\ tNil[t] => tProducers'[t] = tProducers[t]
  BY <1>1 DEF Shape, TypeOK, TransportOK
<1>4. \A q \in Objects : worker'[q] # "none" => worker[q] # "none" \/ q = p
  BY <1>1 DEF Shape, TypeOK, ProducerOK
<1>5. \A u \in Transports : consuming(u) => consuming(u)' /\ call'[u] = call[u]
  BY <1>1 DEF consuming
<1> HIDE DEF n
<1>6. ClosesCount'
  BY <1>1 DEF Closing, ClosesCount
<1>7. CloseOrder'
  BY <1>1, <1>3 DEF Closing, CloseOrder
<1>8. ClosedAll'
  BY <1>1, <1>2, <1>3 DEF Closing, ClosedAll
<1>9. Owned'
  <2>1. SUFFICES ASSUME NEW u \in Transports, NEW m \in Ids
                 PROVE  /\ worker'[<<u, m>>] # "none" =>
                             \/ pClosed[<<u, m>>] \/ m \in tProducers'[u]
                             \/ <<u, m>> \in lateProducers'
                        /\ cWorkers[<<u, m>>] # {} =>
                             \/ cClosed[<<u, m>>] \/ m \in tConsumers[u]
                             \/ <<u, m>> \in lateConsumers
                             \/ consuming(u)' /\ call'[u].id = m
    BY <1>1, <1>2 DEF Owned
  <2>2. worker'[<<u, m>>] # "none" =>
          pClosed[<<u, m>>] \/ m \in tProducers'[u] \/ <<u, m>> \in lateProducers'
    <3>1. CASE <<u, m>> = p
      <4>1. u = t /\ m = n
        BY <3>1
      <4>2. CASE tNil[t]
        BY <1>1, <4>1, <4>2 DEF Closing, CloseOrder
      <4>3. CASE ~tNil[t]
        BY <1>3, <4>1, <4>3
      <4>4. QED
        BY <4>2, <4>3
    <3>2. CASE <<u, m>> # p
      <4>1. <<u, m>> \in Objects
        BY ObjectFacts
      <4>2. QED
        BY <1>1, <1>3, <1>4, <3>2, <4>1 DEF Closing, Owned
    <3>3. QED
      BY <3>1, <3>2
  <2>3. QED
    BY <1>5, <2>2 DEF Closing, Owned
<1>10. QED
  BY <1>6, <1>7, <1>8, <1>9 DEF Closing

\* The beginning of Consume: the consumer's workers start.
LEMMA ConsumeStartClosing ==
    ASSUME Shape, Closing, NEW t \in Transports, NEW m \in Ids, NEW paused \in BOOLEAN,
           ConsumeStart(t, m, paused)
    PROVE  Closing'
<1> DEFINE n == getNextId(t, "consumer")
           c == <<t, n>>
<1>1. /\ n \in Ids /\ c \in Objects /\ free(t)
      /\ \/ /\ call'[t].pc = "addConsumer" /\ call'[t].id = n
            /\ \A u \in Transports \ {t} : call'[u] = call[u]
            /\ cWorkers' = [cWorkers EXCEPT ![c] = {"read", "write"}]
         \/ UNCHANGED <<call, cWorkers>>
      /\ UNCHANGED <<tClosed, tNil, tProducers, tConsumers, closer, producerVars, cClosed, late>>
  BY ConsumeStartFacts
<1>2. UNCHANGED <<pClosed, worker, closes, lateProducers, lateConsumers>> /\ ~consuming(t)
  BY <1>1 DEF producerVars, late, consuming, free
<1> HIDE DEF n
<1>3. CASE UNCHANGED <<call, cWorkers>>
  BY <1>1, <1>2, <1>3, NothingCloses DEF consuming
<1>4. CASE /\ call'[t].pc = "addConsumer" /\ call'[t].id = n
           /\ \A u \in Transports \ {t} : call'[u] = call[u]
           /\ cWorkers' = [cWorkers EXCEPT ![c] = {"read", "write"}]
  <2>1. consuming(t)' /\ call'[t].id = n
    BY <1>4 DEF consuming
  <2>2. \A u \in Transports : consuming(u) => consuming(u)' /\ call'[u].id = call[u].id
    BY <1>2, <1>4 DEF consuming
  <2>3. \A d \in Objects : cWorkers'[d] # {} => cWorkers[d] # {} \/ d = c
    BY <1>1, <1>4 DEF Shape, TypeOK, ConsumerOK
  <2>4. ClosesCount' /\ CloseOrder' /\ ClosedAll'
    BY <1>1, <1>2 DEF Closing, ClosesCount, CloseOrder, ClosedAll
  <2>5. Owned'
    <3>1. SUFFICES ASSUME NEW u \in Transports, NEW i \in Ids
                   PROVE  /\ worker[<<u, i>>] # "none" =>
                               \/ pClosed[<<u, i>>] \/ i \in tProducers[u]
                               \/ <<u, i>> \in lateProducers
                          /\ cWorkers'[<<u, i>>] # {} =>
                               \/ cClosed[<<u, i>>] \/ i \in tConsumers[u]
                               \/ <<u, i>> \in lateConsumers
                               \/ consuming(u)' /\ call'[u].id = i
      BY <1>1, <1>2 DEF Owned
    <3>2. CASE <<u, i>> = c
      BY <2>1, <3>2 DEF Closing, Owned
    <3>3. CASE <<u, i>> # c
      BY <2>2, <2>3, <3>3, ObjectFacts DEF Closing, Owned
    <3>4. QED
      BY <3>2, <3>3
  <2>6. QED
    BY <2>4, <2>5 DEF Closing
<1>5. QED
  BY <1>1, <1>3, <1>4

\* The end of Consume: the transport has the consumer, unless it was closed.
LEMMA ConsumeEndClosing ==
    ASSUME Shape, Closing, NEW t \in Transports, ConsumeEnd(t)
    PROVE  Closing'
<1> DEFINE n == call[t].id
           c == <<t, n>>
<1>1. /\ n \in Ids /\ c \in Objects /\ call[t].pc = "consumed"
      /\ \A u \in Transports \ {t} : call'[u] = call[u]
      /\ \/ tNil[t] /\ UNCHANGED tConsumers
         \/ ~tNil[t] /\ tConsumers' = [tConsumers EXCEPT ![t] = @ \cup {n}]
      /\ lateConsumers' = lateConsumers \cup (IF tClosed[t] THEN {c} ELSE {})
      /\ UNCHANGED <<tClosed, tNil, tProducers, closer, producerVars, consumerVars, lateProducers>>
  BY ConsumeFacts DEF AddConsumer, AppendConsumer, ConsumeEnd
<1>2. UNCHANGED <<pClosed, worker, closes, cClosed, cWorkers>>
  BY <1>1 DEF producerVars, consumerVars
<1>3. /\ tConsumers[t] \subseteq tConsumers'[t] /\ tConsumers'[t] \subseteq tConsumers[t] \cup {n}
      /\ \A u \in Transports \ {t} : tConsumers'[u] = tConsumers[u]
      /\ ~tNil[t] => n \in tConsumers'[t]
      /\ tNil[t] => tConsumers'[t] = tConsumers[t]
  BY <1>1 DEF Shape, TypeOK, TransportOK
<1> HIDE DEF n
<1>4. ClosesCount'
  BY <1>2 DEF Closing, ClosesCount
<1>5. CloseOrder'
  BY <1>1, <1>3 DEF Closing, CloseOrder
<1>6. ClosedAll'
  BY <1>1, <1>2, <1>3 DEF Closing, ClosedAll
<1>7. Owned'
  <2>1. SUFFICES ASSUME NEW u \in Transports, NEW m \in Ids
                 PROVE  /\ worker[<<u, m>>] # "none" =>
                             \/ pClosed[<<u, m>>] \/ m \in tProducers[u]
                             \/ <<u, m>> \in lateProducers
                        /\ cWorkers[<<u, m>>] # {} =>
                             \/ cClosed[<<u, m>>] \/ m \in tConsumers'[u]
                             \/ <<u, m>> \in lateConsumers'
                             \/ consuming(u)' /\ call'[u].id = m
    BY <1>1, <1>2 DEF Owned
  <2>2. CASE <<u, m>> = c
    <3>1. CASE tNil[t]
      BY <1>1, <2>2, <3>1 DEF Closing, CloseOrder, Owned
    <3>2. CASE ~tNil[t]
      BY <1>3, <2>2, <3>2 DEF Closing, Owned
    <3>3. QED
      BY <3>1, <3>2
  <2>3. CASE u = t /\ m # n
    BY <1>1, <1>3, <2>3 DEF Closing, Owned, n
  <2>4. CASE u # t
    BY <1>1, <1>3, <2>4 DEF Closing, Owned, consuming
  <2>5. QED
    BY <2>2, <2>3, <2>4
<1>8. QED
  BY <1>4, <1>5, <1>6, <1>7 DEF Closing

\* The middle of Produce and Consume.
LEMMA CallClosing ==
    ASSUME Shape, Closing, NEW t \in Transports,
           \/ ProduceStart(t) \/ AddProducer(t) \/ AddList(t)
           \/ AddConsumer(t) \/ ReadList(t) \/ AppendConsumer(t)
    PROVE  Closing'
<1>1. CASE ProduceStart(t)
  <2>1. /\ free(t) /\ \A u \in Transports \ {t} : call'[u] = call[u]
        /\ UNCHANGED <<tClosed, tNil, tProducers, tConsumers, closer, producerVars,
                       consumerVars, late>>
    BY <1>1, ProduceStartFacts
  <2>2. \A u \in Transports : consuming(u) => consuming(u)' /\ call'[u].id = call[u].id
    BY <2>1 DEF consuming, free
  <2>3. QED
    BY <2>1, <2>2, NothingCloses DEF producerVars, consumerVars, late
<1>2. CASE AddProducer(t) \/ AddList(t)
  <2>1. /\ producing(t) /\ \A u \in Transports \ {t} : call'[u] = call[u]
        /\ UNCHANGED <<tClosed, tNil, tProducers, tConsumers, closer, producerVars,
                       consumerVars, late>>
    BY <1>2, AddProducerFacts
  <2>2. \A u \in Transports : consuming(u) => consuming(u)' /\ call'[u].id = call[u].id
    BY <2>1 DEF consuming, producing
  <2>3. QED
    BY <2>1, <2>2, NothingCloses DEF producerVars, consumerVars, late
<1>3. CASE AddConsumer(t) \/ AppendConsumer(t)
  <2> DEFINE n == call[t].id
  <2>1. /\ \A u \in Transports \ {t} : call'[u] = call[u]
        /\ \/ call'[t].pc \in {"readList", "consumed"} /\ call'[t].id = n
              /\ lateConsumers' = lateConsumers
           \/ lateConsumers' = lateConsumers \cup {<<t, n>>}
        /\ UNCHANGED <<tClosed, tNil, tProducers, tConsumers, closer, producerVars,
                       consumerVars, lateProducers>>
    <3>1. ~ConsumeEnd(t)
      BY <1>3 DEF AddConsumer, AppendConsumer, ConsumeEnd
    <3>2. QED
      BY <1>3, <3>1, ConsumeFacts
  <2>2. \A u \in Transports : consuming(u) => \/ consuming(u)' /\ call'[u].id = call[u].id
                                             \/ <<u, call[u].id>> \in lateConsumers'
    BY <2>1 DEF consuming
  <2>3. QED
    BY <2>1, <2>2, NothingCloses DEF producerVars, consumerVars
<1>4. CASE ReadList(t)
  <2>1. /\ call'[t].pc \in {"append", "consumed"} /\ call'[t].id = call[t].id
        /\ \A u \in Transports \ {t} : call'[u].pc = call[u].pc /\ call'[u].id = call[u].id
        /\ UNCHANGED <<tClosed, tNil, tProducers, tConsumers, closer, producerVars,
                       consumerVars, late>>
    BY <1>4, ReadListFacts
  <2>2. \A u \in Transports : consuming(u) => consuming(u)' /\ call'[u].id = call[u].id
    BY <2>1 DEF consuming
  <2>3. QED
    BY <2>1, <2>2, NothingCloses DEF producerVars, consumerVars, late
<1>5. QED
  BY <1>1, <1>2, <1>3, <1>4

\* The read worker; it closes its producer when the buffer ends.
LEMMA WorkerClosing ==
    ASSUME Shape, Closing, NEW p \in Objects, Work(p) \/ WorkerPacket(p)
    PROVE  Closing'
<1>1. UNCHANGED <<transportVars, cWorkers, cClosed, late>>
  BY DEF Work, WorkerSelect, WorkerEOF, WorkerPacket, Forward, WorkerStep, consumerVars
<1>2. \A o \in Objects : worker'[o] # "none" => worker[o] # "none"
  BY DEF Work, WorkerSelect, WorkerEOF, WorkerPacket, Forward, Shape, TypeOK, ProducerOK
<1>3. CASE ~WorkerEOF(p)
  <2>1. UNCHANGED <<pClosed, closes>>
    BY <1>3 DEF Work, WorkerSelect, WorkerPacket, Forward
  <2>2. QED
    BY <1>1, <1>2, <2>1, CallsStay
<1>4. CASE WorkerEOF(p)
  <2>1. ClosesCount' /\ \A o \in Objects : pClosed[o] => pClosed'[o]
    BY <1>4, CloseCounts DEF WorkerEOF, Closing
  <2>2. CloseOrder'
    BY <1>1 DEF Closing, CloseOrder, transportVars
  <2>3. \A t \in Transports : tProducers[t] \subseteq Ids /\ tConsumers[t] \subseteq Ids
    BY DEF Shape, TypeOK, TransportOK
  <2>4. ClosedAll'
    BY <1>1, <2>1, <2>3, ObjectFacts DEF Closing, ClosedAll, transportVars, late
  <2>5. Owned'
    BY <1>1, <1>2, <2>1, ObjectFacts DEF Closing, Owned, transportVars, consuming, late
  <2>6. QED
    BY <2>1, <2>2, <2>4, <2>5 DEF Closing
<1>5. QED
  BY <1>3, <1>4

\* Steps that neither close nor start anything.
LEMMA QuietClosing ==
    ASSUME Shape, Closing,
           \/ \E t \in Transports : NewWebRTCTransport(t) \/ Connect(t) \/ RouterSkip(t)
           \/ RouterClose \/ RouterDrop \/ MapRace
           \/ \E p \in Objects, value \in BOOLEAN : Pause(p, value)
           \/ \E c \in Objects : ConsumerToggle(c)
           \/ \E c \in Objects, w \in {"read", "write"} :
                 ConsumerWorkerEnd(c, w) \/ ConsumerWorkerFails(c, w)
           \/ \E t \in Transports, k \in Closers : CloseCheck(t, k)
    PROVE  Closing'
<1>1. CASE \E t \in Transports : NewWebRTCTransport(t)
  <2>1. PICK t \in Transports : NewWebRTCTransport(t)
    BY <1>1
  <2>2. /\ free(t)
        /\ closer' = closer \/ closer' = [closer EXCEPT ![t]["router"] = "skipped"]
        /\ call' = call \/ Panic(t)
        /\ UNCHANGED <<tClosed, tNil, tProducers, tConsumers, producerVars, consumerVars, late>>
    BY <2>1 DEF NewWebRTCTransport
  <2>3. \A u \in Transports : call'[u] = call[u] \/ (u = t /\ call[u].pc = "idle")
    BY <2>2, CallEnds DEF free
  <2>4. \A u \in Transports : consuming(u) => consuming(u)' /\ call'[u].id = call[u].id
    BY <2>3 DEF consuming
  <2>5. \A u \in Transports, k \in Closers :
          closer'[u][k] \in {"stop", "done"} => closer[u][k] \in {"stop", "done"}
    BY <2>2, SkipShape
  <2>6. QED
    BY <2>2, <2>4, <2>5, NothingCloses DEF producerVars, consumerVars, late
<1>2. CASE \/ \E t \in Transports, k \in Closers : CloseCheck(t, k)
           \/ \E t \in Transports : Connect(t) \/ RouterSkip(t)
           \/ RouterClose \/ RouterDrop
  <2>1. UNCHANGED <<tClosed, tNil, tProducers, tConsumers, call, producerVars, consumerVars, late>>
    BY <1>2 DEF CloseCheck, Connect, RouterClose, RouterSkip, RouterDrop, RouterStep
  <2>2. \A u \in Transports, k \in Closers :
          closer'[u][k] \in {"stop", "done"} => closer[u][k] \in {"stop", "done"}
    <3>1. CASE \E t \in Transports, k \in Closers : CloseCheck(t, k)
      BY <3>1 DEF CloseCheck, Shape, TypeOK, TransportOK
    <3>2. CASE \E t \in Transports : RouterSkip(t)
      BY <3>2, SkipShape DEF RouterSkip
    <3>3. CASE UNCHANGED closer
      BY <3>3
    <3>4. QED
      BY <1>2, <3>1, <3>2, <3>3 DEF Connect, RouterClose, RouterDrop
  <2>3. QED
    BY <2>1, <2>2, NothingCloses DEF producerVars, consumerVars, late, consuming
<1>3. CASE \/ \E p \in Objects, value \in BOOLEAN : Pause(p, value)
           \/ \E c \in Objects : ConsumerToggle(c)
           \/ MapRace
  <2>1. UNCHANGED <<transportVars, pClosed, closes, worker, cClosed, cWorkers, late>>
    BY <1>3 DEF Pause, ConsumerToggle, MapRace, producerVars, consumerVars
  <2>2. QED
    BY <2>1, CallsStay
<1>4. CASE \E c \in Objects, w \in {"read", "write"} :
             ConsumerWorkerEnd(c, w) \/ ConsumerWorkerFails(c, w)
  <2>1. UNCHANGED <<transportVars, pClosed, closes, worker, cClosed, late>>
    BY <1>4 DEF ConsumerWorkerEnd, ConsumerWorkerFails, producerVars
  <2>2. \A o \in Objects : cWorkers'[o] # {} => cWorkers[o] # {}
    BY <1>4 DEF ConsumerWorkerEnd, ConsumerWorkerFails, Shape, TypeOK, ConsumerOK
  <2>3. QED
    BY <2>1, <2>2, CallsStay
<1>5. QED
  BY <1>1, <1>2, <1>3, <1>4

\* Every step keeps the closing invariant.
LEMMA StepClosing == Shape /\ Closing /\ [Next]_vars => Closing'
<1> SUFFICES ASSUME Shape, Closing, [Next]_vars PROVE Closing'
  OBVIOUS
<1>1. CASE UNCHANGED vars
  BY <1>1, CallsStay DEF vars, producerVars, consumerVars
<1>2. CASE Next
  <2>1. ASSUME NEW t \in Transports,
               \/ ProduceStart(t) \/ AddProducer(t) \/ AddList(t) \/ ProduceEnd(t)
               \/ \E n \in Ids, paused \in BOOLEAN : ConsumeStart(t, n, paused)
               \/ AddConsumer(t) \/ ReadList(t) \/ AppendConsumer(t) \/ ConsumeEnd(t)
               \/ \E k \in Closers : CloseLoop(t, k) \/ CloseStop(t, k)
        PROVE  Closing'
    BY <2>1, ProduceEndClosing, ConsumeStartClosing, ConsumeEndClosing, CallClosing, LoopClosing,
       StopClosing
  <2>2. CASE \E p \in Objects : Work(p) \/ WorkerPacket(p)
    BY <2>2, WorkerClosing
  <2>3. CASE \/ \E t \in Transports : NewWebRTCTransport(t) \/ Connect(t) \/ RouterSkip(t)
             \/ RouterClose \/ RouterDrop \/ MapRace
             \/ \E p \in Objects, value \in BOOLEAN : Pause(p, value)
             \/ \E c \in Objects : ConsumerToggle(c)
             \/ \E c \in Objects, w \in {"read", "write"} :
                   ConsumerWorkerEnd(c, w) \/ ConsumerWorkerFails(c, w)
             \/ \E t \in Transports, k \in Closers : CloseCheck(t, k)
    BY <2>3, QuietClosing
  <2>4. QED
    BY <1>2, <2>1, <2>2, <2>3 DEF Next
<1>3. QED
  BY <1>1, <1>2

-----------------------------------------------------------------------------
(* Who closed a transport.                                                 *)

Blamed == Blame /\ LateFits

\* Calls of Close that are past the loop, or over, stay so.
GoneOn == \A u \in Transports, k \in Closers :
    closer[u][k] \in {"stop", "done"} => closer'[u][k] \in {"stop", "done"}

\* A new room has no transport that was closed.
LEMMA InitBlamed == NewRouter => Blamed
<1> SUFFICES ASSUME NewRouter PROVE Blamed
  OBVIOUS
<1>1. \A t \in Transports : ~producing(t)
  BY CallFacts DEF NewRouter, producing
<1>2. QED
  BY <1>1 DEF NewRouter, Blamed, Blame, LateFits

\* Steps that close nothing and begin no Produce.
LEMMA BlameStays ==
    ASSUME Shape, Blamed, UNCHANGED <<ice, tClosed, closer>>,
           lateProducers' \subseteq lateProducers,
           \A t \in Transports : producing(t)' => producing(t)
    PROVE  Blamed'
<1>1. Blame'
  BY DEF Blamed, Blame
<1>2. LateFits'
  BY DEF Blamed, LateFits
<1>3. QED
  BY <1>1, <1>2 DEF Blamed

\* The steps of a transport's life.
LEMMA TransportBlamed ==
    ASSUME Shape, Blamed, NEW t \in Transports, NewWebRTCTransport(t) \/ Connect(t) \/ RouterSkip(t)
    PROVE  Blamed'
<1>1. /\ closer' = closer \/ closer' = [closer EXCEPT ![t]["router"] = "skipped"]
      /\ call' = call \/ Panic(t)
      /\ UNCHANGED <<tClosed, lateProducers>>
      /\ \/ UNCHANGED ice /\ ice[t] # "none" /\ closer[t]["router"] = "idle"
         \/ UNCHANGED ice /\ UNCHANGED closer
         \/ ice[t] \in {"none", "new"} /\ \E state \in {"new", "connected", "stopped"} :
               ice' = [ice EXCEPT ![t] = state]
      /\ ice[t] = "new" => UNCHANGED closer \/ closer[t]["router"] = "idle"
  BY DEF NewWebRTCTransport, Connect, RouterSkip, RouterStep, MayClose, late
<1>2. \A u \in Transports : producing(u)' => producing(u)
  BY <1>1, CallEnds DEF producing
<1>3. /\ \A u \in Transports \ {t} : ice'[u] = ice[u]
      /\ ice'[t] = ice[t] \/ (ice[t] \in {"none", "new"} /\ ice'[t] # "none")
      /\ \A u \in Transports : ice[u] # "none" => ice'[u] # "none"
  BY <1>1 DEF Shape, TypeOK, TransportOK
<1>4. \A u \in Transports, k \in Closers :
        \/ closer'[u][k] = closer[u][k]
        \/ u = t /\ k = "router" /\ closer'[u][k] = "skipped"
  BY <1>1, SkipShape
<1>5. ASSUME NEW k \in Closers
      PROVE  closer[t][k] \in {"stop", "done"} => closer'[t][k] = closer[t][k]
  <2>1. CASE UNCHANGED closer
    BY <2>1
  <2>2. CASE closer[t]["router"] = "idle"
    BY <1>4, <2>2
  <2>3. CASE ice[t] = "none"
    BY <2>3 DEF Blamed, Blame
  <2>4. QED
    BY <1>1, <2>1, <2>2, <2>3
<1>6. GoneOn
  BY <1>4, <1>5 DEF GoneOn
<1>7. ASSUME NEW u \in Transports
      PROVE  /\ tClosed'[u] => \E k \in Closers : closer'[u][k] \in {"stop", "done"}
             /\ \A k \in Closers : closer'[u][k] # "idle" => ice'[u] # "none"
             /\ "api" \in Closers =>
                  /\ producing(u)' => closer'[u]["api"] = "idle"
                  /\ closer'[u]["api"] = "done" => ice'[u] = "stopped"
  <2>1. tClosed'[u] => \E k \in Closers : closer'[u][k] \in {"stop", "done"}
    BY <1>1, <1>6 DEF Blamed, Blame, GoneOn
  <2>2. ASSUME NEW k \in Closers, closer'[u][k] # "idle" PROVE ice'[u] # "none"
    <3>1. CASE closer'[u][k] = closer[u][k]
      BY <1>3, <2>2, <3>1 DEF Blamed, Blame
    <3>2. CASE u = t /\ closer' # closer
      BY <1>1, <1>3, <3>2 DEF Shape, TypeOK, TransportOK
    <3>3. QED
      BY <1>4, <3>1, <3>2
  <2>3. "api" \in Closers => closer'[u]["api"] = closer[u]["api"]
    BY <1>4
  <2>4. "api" \in Closers /\ closer[u]["api"] = "done" => ice'[u] = "stopped"
    BY <1>3 DEF Blamed, Blame
  <2>5. QED
    BY <1>2, <2>1, <2>2, <2>3, <2>4 DEF Blamed, Blame
<1>8. Blame'
  BY <1>7 DEF Blame
<1>9. LateFits'
  <2>1. \A p \in lateProducers : p[1] \in Transports
    BY ObjectFacts DEF Shape, TypeOK
  <2>2. QED
    BY <1>1, <1>6, <2>1 DEF Blamed, LateFits, GoneOn
<1>10. QED
  BY <1>8, <1>9 DEF Blamed

\* The steps of WebRTCTransport.Close.
LEMMA CloseBlamed ==
    ASSUME Shape, Blamed, NEW t \in Transports, NEW k \in Closers,
           CloseCheck(t, k) \/ CloseLoop(t, k) \/ CloseStop(t, k)
    PROVE  Blamed'
<1>1. UNCHANGED <<call, lateProducers>>
  BY DEF CloseCheck, CloseLoop, CloseStop, late
<1>2. \/ /\ closer[t][k] = "idle" /\ closer' = [closer EXCEPT ![t][k] = "loop"]
         /\ ice[t] # "none" /\ (k = "api" => ~producing(t))
         /\ UNCHANGED <<ice, tClosed>>
      \/ /\ closer[t][k] = "loop" /\ closer' = [closer EXCEPT ![t][k] = "stop"]
         /\ tClosed' = [tClosed EXCEPT ![t] = TRUE] /\ UNCHANGED ice
      \/ /\ closer[t][k] = "stop" /\ closer' = [closer EXCEPT ![t][k] = "done"]
         /\ ice' = [ice EXCEPT ![t] = "stopped"] /\ UNCHANGED tClosed
  <2>1. CloseCheck(t, k) => ice[t] # "none" /\ (k = "api" => ~producing(t))
    <3>1. k \in {"ice", "api", "router"}
      BY RouterConstants
    <3>2. QED
      BY <3>1 DEF CloseCheck, MayClose, free, producing
  <2>2. QED
    BY <2>1 DEF CloseCheck, CloseLoop, CloseStop
<1>3. \A u \in Transports, j \in Closers : ~(u = t /\ j = k) => closer'[u][j] = closer[u][j]
  BY <1>2 DEF Shape, TypeOK, TransportOK
<1>4. \/ closer[t][k] = "idle" /\ closer'[t][k] = "loop"
         /\ ice[t] # "none" /\ (k = "api" => ~producing(t)) /\ UNCHANGED <<ice, tClosed>>
      \/ closer[t][k] = "loop" /\ closer'[t][k] = "stop" /\ UNCHANGED ice
         /\ \A u \in Transports : tClosed'[u] => tClosed[u] \/ u = t
      \/ closer[t][k] = "stop" /\ closer'[t][k] = "done" /\ UNCHANGED tClosed
         /\ ice'[t] = "stopped" /\ \A u \in Transports : ice'[u] \in {ice[u], "stopped"}
  BY <1>2 DEF Shape, TypeOK, TransportOK
<1>5. GoneOn
  BY <1>3, <1>4 DEF GoneOn
<1>6. ASSUME NEW u \in Transports
      PROVE  /\ tClosed'[u] => \E j \in Closers : closer'[u][j] \in {"stop", "done"}
             /\ \A j \in Closers : closer'[u][j] # "idle" => ice'[u] # "none"
             /\ "api" \in Closers =>
                  /\ producing(u)' => closer'[u]["api"] = "idle"
                  /\ closer'[u]["api"] = "done" => ice'[u] = "stopped"
  <2>1. tClosed'[u] => \E j \in Closers : closer'[u][j] \in {"stop", "done"}
    BY <1>4, <1>5 DEF Blamed, Blame, GoneOn
  <2>2. ASSUME NEW j \in Closers, closer'[u][j] # "idle" PROVE ice'[u] # "none"
    <3>1. \/ closer[u][j] # "idle"
          \/ ice[u] # "none"
      BY <1>3, <1>4, <2>2
    <3>2. ice[u] # "none"
      BY <3>1 DEF Blamed, Blame
    <3>3. QED
      BY <1>4, <3>2
  <2>3. ASSUME "api" \in Closers, producing(u)' PROVE closer'[u]["api"] = "idle"
    <3>1. producing(u) /\ closer[u]["api"] = "idle"
      BY <1>1, <2>3 DEF producing, Blamed, Blame
    <3>2. QED
      BY <1>3, <1>4, <2>3, <3>1
  <2>4. ASSUME "api" \in Closers, closer'[u]["api"] = "done" PROVE ice'[u] = "stopped"
    <3>1. CASE closer[u]["api"] = "done"
      <4>1. ice[u] = "stopped"
        BY <2>4, <3>1 DEF Blamed, Blame
      <4>2. QED
        BY <1>4, <4>1
    <3>2. CASE closer[u]["api"] # "done"
      BY <1>3, <1>4, <2>4, <3>2
    <3>3. QED
      BY <3>1, <3>2
  <2>5. QED
    BY <2>1, <2>2, <2>3, <2>4
<1>7. Blame'
  BY <1>6 DEF Blame
<1>8. LateFits'
  <2>1. \A p \in lateProducers : p[1] \in Transports
    BY ObjectFacts DEF Shape, TypeOK
  <2>2. QED
    BY <1>1, <1>5, <2>1 DEF Blamed, LateFits, GoneOn
<1>9. QED
  BY <1>7, <1>8 DEF Blamed

\* A Produce begins only on a transport that runs, and a late one ends only on one
\* that another goroutine closed.
LEMMA ProduceBlamed ==
    ASSUME Shape, Blamed, NEW t \in Transports, ProduceStart(t) \/ ProduceEnd(t)
    PROVE  Blamed'
<1>1. CASE ProduceStart(t)
  <2>1. /\ free(t) /\ ice[t] = "connected" /\ \A u \in Transports \ {t} : call'[u] = call[u]
        /\ UNCHANGED <<ice, tClosed, closer, late>>
    BY <1>1, ProduceStartFacts
  <2>2. "api" \in Closers => closer[t]["api"] = "idle"
    BY <2>1 DEF free, Blamed, Blame
  <2>3. Blame'
    BY <2>1, <2>2 DEF Blamed, Blame, producing
  <2>4. LateFits'
    BY <2>1 DEF Blamed, LateFits, late
  <2>5. QED
    BY <2>3, <2>4 DEF Blamed
<1>2. CASE ProduceEnd(t)
  <2> DEFINE n == call[t].id
  <2>1. /\ producing(t) /\ \A u \in Transports \ {t} : call'[u] = call[u]
        /\ call'[t].pc \in {"idle", "gone"}
        /\ lateProducers' = lateProducers \cup (IF tClosed[t] THEN {<<t, n>>} ELSE {})
        /\ UNCHANGED <<ice, tClosed, closer>>
    BY <1>2, ProduceEndFacts
  <2>2. tClosed[t] => \E k \in Closers \ {"api"} : closer[t][k] \in {"stop", "done"}
    BY <2>1 DEF Blamed, Blame
  <2>3. Blame'
    BY <2>1 DEF Blamed, Blame, producing
  <2>4. LateFits'
    BY <2>1, <2>2 DEF Blamed, LateFits
  <2>5. QED
    BY <2>3, <2>4 DEF Blamed
<1>3. QED
  BY <1>1, <1>2

\* The other steps of calls.
LEMMA CallBlamed ==
    ASSUME Shape, Blamed, NEW t \in Transports,
           \/ AddProducer(t) \/ AddList(t)
           \/ \E n \in Ids, paused \in BOOLEAN : ConsumeStart(t, n, paused)
           \/ AddConsumer(t) \/ ReadList(t) \/ AppendConsumer(t) \/ ConsumeEnd(t)
    PROVE  Blamed'
<1>1. CASE AddProducer(t) \/ AddList(t)
  <2>1. /\ producing(t) /\ \A u \in Transports \ {t} : call'[u] = call[u]
        /\ UNCHANGED <<ice, tClosed, closer, late>>
    BY <1>1, AddProducerFacts
  <2>2. QED
    BY <2>1, BlameStays DEF late, producing
<1>2. CASE \E n \in Ids, paused \in BOOLEAN : ConsumeStart(t, n, paused)
  <2>1. PICK m \in Ids, paused \in BOOLEAN : ConsumeStart(t, m, paused)
    BY <1>2
  <2>2. /\ \/ call'[t].pc = "addConsumer" /\ \A u \in Transports \ {t} : call'[u] = call[u]
           \/ UNCHANGED call
        /\ UNCHANGED <<ice, tClosed, closer, late>>
    <3>1. UNCHANGED <<ice, tClosed, closer, late>>
      BY <2>1 DEF ConsumeStart
    <3>2. \/ UNCHANGED call
          \/ /\ free(t)
             /\ call' = [call EXCEPT ![t] = ConsumeCall(getNextId(t, "consumer"), producers[m])]
      BY <2>1 DEF ConsumeStart, ConsumeCall
    <3>3. \A n, p : ConsumeCall(n, p).pc = "addConsumer"
      BY DEF ConsumeCall, NoCall
    <3>4. call \in [Transports -> Call]
      BY DEF Shape, TypeOK, TransportOK
    <3>5. QED
      BY <3>1, <3>2, <3>3, <3>4
  <2>3. \A u \in Transports : producing(u)' => producing(u)
    BY <2>2 DEF producing
  <2>4. QED
    BY <2>2, <2>3, BlameStays DEF late
<1>3. CASE AddConsumer(t) \/ AppendConsumer(t) \/ ConsumeEnd(t)
  <2>1. /\ call'[t].pc \in {"idle", "gone", "readList", "consumed"}
        /\ \A u \in Transports \ {t} : call'[u] = call[u]
        /\ UNCHANGED <<ice, tClosed, closer, lateProducers>>
    BY <1>3, ConsumeFacts
  <2>2. \A u \in Transports : producing(u)' => producing(u)
    BY <2>1 DEF producing
  <2>3. QED
    BY <2>1, <2>2, BlameStays
<1>4. CASE ReadList(t)
  <2>1. /\ call'[t].pc \in {"append", "consumed"}
        /\ \A u \in Transports \ {t} : call'[u].pc = call[u].pc
        /\ UNCHANGED <<ice, tClosed, closer, late>>
    BY <1>4, ReadListFacts
  <2>2. \A u \in Transports : producing(u)' => producing(u)
    BY <2>1 DEF producing
  <2>3. QED
    BY <2>1, <2>2, BlameStays DEF late
<1>5. QED
  BY <1>1, <1>2, <1>3, <1>4

\* Every step keeps what is known of who closed.
LEMMA StepBlamed == Shape /\ Blamed /\ [Next]_vars => Blamed'
<1> SUFFICES ASSUME Shape, Blamed, [Next]_vars PROVE Blamed'
  OBVIOUS
<1>1. CASE UNCHANGED <<transportVars, late>>
  <2>1. UNCHANGED <<ice, tClosed, closer, call, lateProducers>>
    BY <1>1 DEF transportVars, late
  <2>2. QED
    BY <2>1, BlameStays DEF producing
<1>2. CASE RouterClose \/ RouterDrop
  <2>1. UNCHANGED <<ice, tClosed, closer, call, lateProducers>>
    BY <1>2 DEF RouterClose, RouterDrop, RouterStep, late
  <2>2. QED
    BY <2>1, BlameStays DEF producing
<1>3. CASE Next
  <2>1. ASSUME NEW t \in Transports,
               \/ NewWebRTCTransport(t) \/ Connect(t)
               \/ ProduceStart(t) \/ AddProducer(t) \/ AddList(t) \/ ProduceEnd(t)
               \/ \E n \in Ids, paused \in BOOLEAN : ConsumeStart(t, n, paused)
               \/ AddConsumer(t) \/ ReadList(t) \/ AppendConsumer(t) \/ ConsumeEnd(t)
               \/ \E k \in Closers : CloseCheck(t, k) \/ CloseLoop(t, k) \/ CloseStop(t, k)
               \/ RouterSkip(t)
        PROVE  Blamed'
    BY <2>1, TransportBlamed, ProduceBlamed, CallBlamed, CloseBlamed
  <2>2. CASE \/ \E p \in Objects : \/ Work(p) \/ WorkerPacket(p)
                                   \/ \E value \in BOOLEAN : Pause(p, value)
             \/ \E c \in Objects : \/ ConsumerToggle(c)
                                   \/ \E w \in {"read", "write"} :
                                        ConsumerWorkerEnd(c, w) \/ ConsumerWorkerFails(c, w)
             \/ MapRace
    <3>1. UNCHANGED <<transportVars, late>>
      BY <2>2 DEF Work, WorkerSelect, WorkerEOF, WorkerPacket, Forward, WorkerStep, Pause,
                  ConsumerToggle, ConsumerWorkerEnd, ConsumerWorkerFails, MapRace
    <3>2. QED
      BY <1>1, <3>1
  <2>3. QED
    BY <1>2, <1>3, <2>1, <2>2 DEF Next
<1>4. QED
  BY <1>1, <1>3 DEF vars

\* The invariant, for any room.
LEMMA RoomInvariant == Spec => []IInv
<1>1. NewRouter => Shape /\ Closing /\ Blamed
  BY InitShape, InitClosing, InitBlamed
<1>2. Shape /\ Closing /\ Blamed /\ [Next]_vars => (Shape /\ Closing /\ Blamed)'
  BY StepShape, StepClosing, StepBlamed
<1>3. Shape /\ Closing /\ Blamed => IInv
  BY DEF Closing, Blamed, IInv
<1>4. QED
  BY <1>1, <1>2, <1>3, PTL DEF Spec

\* The state of a room keeps its shape, and the router's maps hold producers and
\* consumers of the right number only.
THEOREM TypeCorrect == Spec => []TypeOK
<1>1. IInv => TypeOK
  BY DEF IInv, Shape
<1>2. QED
  BY <1>1, RoomInvariant, PTL

\* Whichever goroutines close a producer, and in whatever order, its closeCh is
\* closed at most once, so Producer.Close never panics.
THEOREM ClosedAtMostOnce == Spec => []ClosedOnce
<1>1. IInv => ClosedOnce
  <2>1. ASSUME IInv, NEW p \in Objects PROVE closes[p] <= 1
    <3>1. closes[p] = IF pClosed[p] THEN 1 ELSE 0
      BY <2>1 DEF IInv, ClosesCount
    <3>2. QED
      BY <3>1
  <2>2. QED
    BY <2>1 DEF ClosedOnce
<1>2. QED
  BY <1>1, RoomInvariant, PTL

\* A transport whose Close is through has left neither a producer nor a consumer
\* running and open but those whose Produce or Consume met a closed transport or
\* router, however the calls of Close interleave with each other and with calls
\* that a nil map ends in a panic; and a producer was left so only by the ICE
\* callback or the router.
THEOREM CloseLeavesNothing == Spec => []NoOrphans
<1>1. IInv => NoOrphans
  <2>1. ASSUME IInv, NEW t \in Transports, tNil[t], NEW n \in Ids
        PROVE  /\ worker[<<t, n>>] # "none" => pClosed[<<t, n>>] \/ <<t, n>> \in lateProducers
               /\ cWorkers[<<t, n>>] # {} =>
                    \/ cClosed[<<t, n>>] \/ <<t, n>> \in lateConsumers
                    \/ call[t].pc # "idle" /\ call[t].id = n
    <3>1. tProducers[t] = {} /\ tConsumers[t] = {}
      BY <2>1 DEF IInv, CloseOrder
    <3>2. consuming(t) => call[t].pc # "idle"
      BY DEF consuming
    <3>3. QED
      BY <2>1, <3>1, <3>2 DEF IInv, Owned
  <2>2. QED
    BY <2>1 DEF NoOrphans, IInv, LateFits
<1>2. QED
  BY <1>1, RoomInvariant, PTL

-----------------------------------------------------------------------------
(* Forwarding.                                                             *)

\* Numbers were given out, and the maps name producers and consumers of their
\* side of the room.
SidesFit ==
    /\ \A n \in Ids : consumers[n] # None => consumers[n][1] \in Consuming
    /\ \A c \in Objects : cProducer[c] # None =>
         /\ c[1] \in Consuming /\ c[2] <= lastId[c[1]].consumer
         /\ cProducer[c][1] \in Producing
         /\ cProducer[c][2] <= lastId[cProducer[c][1]].producer
    /\ \A n \in Ids : producers[n] # None =>
         producers[n][1] \in Producing /\ n <= lastId[producers[n][1]].producer
    /\ \A t \in Transports :
         /\ consuming(t) => cProducer[<<t, call[t].id>>] = call[t].producer
         /\ producing(t) => call[t].id <= lastId[t].producer
         /\ \A n \in tConsumers[t] : /\ cProducer[<<t, n>>] # None
                                     /\ ~(consuming(t) /\ call[t].id = n)

\* Transport t has given the number n to a producer, which is past AddProducer.
Added(t, n) ==
    /\ n <= lastId[t].producer
    /\ ~(call[t].pc \in {"addProducer", "addList"} /\ call[t].id = n)

\* A number that has a list belongs to a producer that was added.
NumbersFit == \A n \in DOMAIN fwd : \E t \in Producing : Added(t, n)

\* Number m belongs to a consumer of a producer with number n.
Listed(m, n) == \E t \in Consuming :
    cProducer[<<t, m>>] # None /\ cProducer[<<t, m>>][2] = n

names(list, m) == \E i \in 1 .. Len(list) : list[i] = m

\* The lists, and the copies of them that workers and calls hold, name consumers of
\* producers with the list's number.
ListsFit ==
    /\ \A n \in DOMAIN fwd, m \in Ids : names(fwd[n], m) => Listed(m, n)
    /\ \A p \in Objects, m \in Ids : names(queue[p], m) => Listed(m, p[2])
    /\ \A t \in Transports, n \in Ids, m \in Ids :
         call[t].pc = "append" /\ call[t].producer[2] = n /\ names(call[t].list, m) => Listed(m, n)

\* Number m is in the list of n, and in every list that is about to replace it.
Settled(n, m) ==
    /\ n \in DOMAIN fwd /\ names(fwd[n], m)
    /\ \A t \in Transports : call[t].pc = "append" /\ call[t].producer[2] = n =>
         names(call[t].list, m)

\* The Consume that makes c is not past storing it, or not past listing it.
unstored(c) == call[c[1]].pc = "addConsumer" /\ call[c[1]].id = c[2]
unlisted(c) == call[c[1]].pc \in {"addConsumer", "readList", "append"} /\ call[c[1]].id = c[2]

\* Until Router.Close drops the lists, a producer with consumers and a consumer stay
\* in the router's maps, and a consumer that was listed stays in the list.
InProducers == stage < 3 => \A c \in Objects, p \in Objects :
    cProducer[c] = p /\ ownProducer(p) => producers[p[2]] = p

InConsumers == stage < 3 => \A c \in Objects :
    cProducer[c] # None /\ ownConsumer(c) /\ ~unstored(c) => consumers[c[2]] = c

InList == stage < 3 => \A c \in Objects, p \in Objects :
    cProducer[c] = p /\ ownProducer(p) /\ ~unlisted(c) /\ c \notin refused \cup overlap
    => Settled(p[2], c[2])

\* A Consume that did not overlap another is alone with the list it has read.
Alone == stage < 3 => \A t \in Transports : call[t].pc = "append" =>
    /\ call[t].producer[2] \in DOMAIN fwd
    /\ <<t, call[t].id>> \notin overlap =>
         appending(t) = {} /\ names(call[t].list, call[t].id)

Places == SidesFit /\ NumbersFit /\ ListsFit
Room == Places /\ InProducers /\ InConsumers /\ InList /\ Alone

\* A new room has no producers and no consumers.
LEMMA InitRoom == NewRouter => Room /\ ForwardedRight
<1> SUFFICES ASSUME NewRouter PROVE Room /\ ForwardedRight
  OBVIOUS
<1>1. \A t \in Transports : /\ ~consuming(t) /\ ~producing(t) /\ call[t].pc = "idle"
                            /\ tConsumers[t] = {}
  BY CallFacts DEF NewRouter, consuming, producing
<1>2. /\ \A c \in Objects : cProducer[c] = None
      /\ \A n \in Ids : producers[n] = None /\ consumers[n] = None
      /\ DOMAIN fwd = {} /\ \A p \in Objects : queue[p] = <<>>
  BY DEF NewRouter
<1>3. Places
  <2>1. \A m : ~names(<<>>, m)
    BY DEF names
  <2>2. QED
    BY <1>1, <1>2, <2>1 DEF Places, SidesFit, NumbersFit, ListsFit
<1>4. InProducers /\ InConsumers /\ InList
  BY <1>2, ObjectFacts DEF InProducers, InConsumers, InList
<1>5. Alone
  BY <1>1 DEF Alone
<1>6. ForwardedRight
  BY DEF NewRouter, ForwardedRight, Quiet
<1>7. QED
  BY <1>3, <1>4, <1>5, <1>6 DEF Room

\* Numbers of producers and consumers.
LEMMA LastIds ==
    ASSUME Shape, NEW t \in Transports
    PROVE  lastId[t].consumer \in Nat /\ lastId[t].producer \in Nat
BY RouterConstants DEF Shape, TypeOK, TransportOK

\* Numbers only grow.
Grow == \A t \in Transports :
    /\ lastId'[t].consumer \in Nat /\ lastId[t].consumer <= lastId'[t].consumer
    /\ lastId'[t].producer \in Nat /\ lastId[t].producer <= lastId'[t].producer

\* They do when no number is given out.
LEMMA NoGrowth == Shape /\ UNCHANGED lastId => Grow
BY LastIds DEF Grow

\* A number that only one transport has given out was so before.
LEMMA OwnBefore ==
    ASSUME Shape, Grow, NEW o \in Objects
    PROVE  /\ ownProducer(o)' => ownProducer(o)
           /\ ownConsumer(o)' => ownConsumer(o)
<1>1. o[2] \in Nat
  BY ObjectFacts, IdFacts
<1>2. \A t \in Transports : lastId[t].consumer \in Nat /\ lastId[t].producer \in Nat
  BY LastIds
<1>3. ASSUME ownProducer(o)' PROVE ownProducer(o)
  BY <1>1, <1>2, <1>3 DEF ownProducer, Grow, Transports
<1>4. ASSUME ownConsumer(o)' PROVE ownConsumer(o)
  BY <1>1, <1>2, <1>4 DEF ownConsumer, Grow, Transports
<1>5. QED
  BY <1>3, <1>4

\* Who has given out the number of an own producer, or consumer, is its transport.
LEMMA OwnIs ==
    ASSUME Shape, NEW o \in Objects
    PROVE  /\ \A t \in Producing : ownProducer(o) /\ o[2] <= lastId[t].producer => t = o[1]
           /\ \A t \in Consuming : ownConsumer(o) /\ o[2] <= lastId[t].consumer => t = o[1]
<1>1. o[2] \in Nat
  BY ObjectFacts, IdFacts
<1>2. \A t \in Transports : lastId[t].consumer \in Nat /\ lastId[t].producer \in Nat
  BY LastIds
<1>3. QED
  BY <1>1, <1>2 DEF ownProducer, ownConsumer, Transports

\* Consumers keep their producers.
Kept == \A c \in Objects : cProducer[c] # None => cProducer'[c] = cProducer[c]

\* Then what was listed stays listed.
LEMMA StaysListed ==
    ASSUME Kept, NEW m \in Ids, NEW n, Listed(m, n)
    PROVE  Listed(m, n)'
<1>1. PICK t \in Consuming : cProducer[<<t, m>>] # None /\ cProducer[<<t, m>>][2] = n
  BY DEF Listed
<1>2. <<t, m>> \in Objects
  BY ObjectFacts DEF Transports
<1>3. QED
  BY <1>1, <1>2 DEF Kept, Listed

\* Steps that only take from the router's maps, and after which every Consume is
\* where it was, or over.
Keeps ==
    /\ \A n \in Ids : /\ producers'[n] \in {None, producers[n]}
                      /\ consumers'[n] \in {None, consumers[n]}
    /\ DOMAIN fwd' \subseteq DOMAIN fwd /\ \A n \in DOMAIN fwd' : fwd'[n] = fwd[n]
    /\ stage' < 3 => stage < 3 /\ UNCHANGED <<producers, consumers, fwd>>
    /\ UNCHANGED <<cProducer, refused, overlap>>
    /\ \A t \in Transports :
         /\ consuming(t)' => consuming(t) /\ call'[t] = call[t]
         /\ stage' < 3 /\ consuming(t) /\ ~consuming(t)' => call[t].pc = "consumed"
         /\ producing(t)' => call'[t].id <= lastId'[t].producer
         /\ \A n \in tConsumers'[t] : /\ n \in tConsumers[t] \/ (consuming(t) /\ call[t].id = n)
                                      /\ ~(consuming(t)' /\ call'[t].id = n)

\* They keep the places.
LEMMA KeepPlaces ==
    ASSUME Shape, Places, Grow, Keeps, NumbersFit',
           \A p \in Objects, m \in Ids : names(queue'[p], m) => Listed(m, p[2])
    PROVE  Places'
<1>1. SidesFit'
  <2>1. \A n \in Ids : consumers'[n] # None => consumers'[n][1] \in Consuming
    BY DEF Places, SidesFit, Keeps
  <2>2. ASSUME NEW c \in Objects, cProducer'[c] # None
        PROVE  /\ c[1] \in Consuming /\ c[2] <= lastId'[c[1]].consumer
               /\ cProducer'[c][1] \in Producing
               /\ cProducer'[c][2] <= lastId'[cProducer'[c][1]].producer
    <3>1. cProducer'[c] = cProducer[c] /\ cProducer[c] \in Objects
      BY <2>2 DEF Keeps, Shape, TypeOK, ConsumerOK
    <3>2. /\ c[1] \in Consuming /\ c[2] <= lastId[c[1]].consumer
          /\ cProducer[c][1] \in Producing
          /\ cProducer[c][2] <= lastId[cProducer[c][1]].producer
      BY <2>2, <3>1 DEF Places, SidesFit
    <3>3. c[1] \in Transports /\ c[2] \in Nat /\ cProducer[c][1] \in Transports
          /\ cProducer[c][2] \in Nat
      BY <3>1, ObjectFacts, IdFacts
    <3>4. QED
      BY <3>1, <3>2, <3>3, LastIds DEF Grow
  <2>3. ASSUME NEW n \in Ids, producers'[n] # None
        PROVE  producers'[n][1] \in Producing /\ n <= lastId'[producers'[n][1]].producer
    <3>1. producers'[n] = producers[n]
      BY <2>3 DEF Keeps
    <3>2. producers[n][1] \in Producing /\ n <= lastId[producers[n][1]].producer
      BY <2>3, <3>1 DEF Places, SidesFit
    <3>3. n \in Nat /\ producers[n][1] \in Transports
      BY <3>2, IdFacts DEF Transports
    <3>4. QED
      BY <3>1, <3>2, <3>3, LastIds DEF Grow
  <2>4. ASSUME NEW t \in Transports
        PROVE  /\ consuming(t)' => cProducer'[<<t, call'[t].id>>] = call'[t].producer
               /\ producing(t)' => call'[t].id <= lastId'[t].producer
               /\ \A n \in tConsumers'[t] : /\ cProducer'[<<t, n>>] # None
                                            /\ ~(consuming(t)' /\ call'[t].id = n)
    <3>1. consuming(t)' => cProducer'[<<t, call'[t].id>>] = call'[t].producer
      BY DEF Places, SidesFit, Keeps
    <3>2. ASSUME NEW n \in tConsumers'[t] PROVE cProducer'[<<t, n>>] # None
      <4>1. CASE n \in tConsumers[t]
        BY <4>1 DEF Places, SidesFit, Keeps
      <4>2. CASE consuming(t) /\ call[t].id = n
        <5>1. call[t].producer # None
          BY <4>2, ObjectFacts DEF Shape, CallsFit
        <5>2. QED
          BY <4>2, <5>1 DEF Places, SidesFit, Keeps
      <4>3. QED
        BY <3>2, <4>1, <4>2 DEF Keeps
    <3>3. QED
      BY <3>1, <3>2 DEF Keeps
  <2>5. QED
    BY <2>1, <2>2, <2>3, <2>4 DEF SidesFit
<1>2. ListsFit'
  <2>1. \A m, n : Listed(m, n)' <=> Listed(m, n)
    BY DEF Keeps, Listed
  <2>2. \A n \in DOMAIN fwd', m \in Ids : names(fwd'[n], m) => Listed(m, n)
    BY DEF Places, ListsFit, Keeps
  <2>3. ASSUME NEW t \in Transports, NEW n \in Ids, NEW m \in Ids, call'[t].pc = "append",
               call'[t].producer[2] = n, names(call'[t].list, m)
        PROVE  Listed(m, n)
    <3>1. call'[t] = call[t]
      BY <2>3 DEF Keeps, consuming
    <3>2. QED
      BY <2>3, <3>1 DEF Places, ListsFit
  <2>4. QED
    BY <2>1, <2>2, <2>3 DEF ListsFit
<1>3. QED
  BY <1>1, <1>2 DEF Places

\* They keep the room.
LEMMA KeepRoom ==
    ASSUME Shape, Room, Grow, Keeps, NumbersFit',
           \A p \in Objects, m \in Ids : names(queue'[p], m) => Listed(m, p[2])
    PROVE  Room'
<1>1. Places'
  BY KeepPlaces DEF Room
<1> SUFFICES ASSUME stage' < 3
             PROVE  InProducers' /\ InConsumers' /\ InList' /\ Alone'
  BY <1>1 DEF Room, InProducers, InConsumers, InList, Alone
<1>2. /\ stage < 3 /\ UNCHANGED <<producers, consumers, fwd, cProducer, refused, overlap>>
      /\ \A t \in Transports :
           /\ consuming(t)' => consuming(t) /\ call'[t] = call[t]
           /\ consuming(t) /\ ~consuming(t)' => call[t].pc = "consumed"
  BY DEF Keeps
<1>4. InProducers'
  BY <1>2, OwnBefore DEF Room, InProducers
<1>5. \A t \in Transports : call'[t].pc = "append" => call[t] = call'[t]
  BY <1>2 DEF consuming
<1>6. \A c \in Objects : /\ ~unstored(c)' => ~unstored(c)
                         /\ ~unlisted(c)' => ~unlisted(c)
  <2>1. ASSUME NEW c \in Objects, unlisted(c) PROVE call'[c[1]] = call[c[1]]
    BY <1>2, <2>1, ObjectFacts DEF unlisted, consuming
  <2>2. ASSUME NEW c \in Objects, unstored(c) PROVE unlisted(c)
    BY <2>2 DEF unlisted, unstored
  <2>3. QED
    BY <2>1, <2>2 DEF unlisted, unstored
<1>7. InConsumers'
  BY <1>2, <1>6, OwnBefore DEF Room, InConsumers
<1>8. \A n, m : Settled(n, m) => Settled(n, m)'
  BY <1>2, <1>5 DEF Settled
<1>9. InList'
  <2>1. SUFFICES ASSUME NEW c \in Objects, NEW p \in Objects, cProducer[c] = p, ownProducer(p)',
                        ~unlisted(c)', c \notin refused \cup overlap
                 PROVE  Settled(p[2], c[2])'
    BY <1>2 DEF InList
  <2>2. ownProducer(p) /\ ~unlisted(c)
    BY <1>6, <2>1, OwnBefore
  <2>3. QED
    BY <1>2, <1>8, <2>1, <2>2 DEF Room, InList
<1>10. Alone'
  <2>1. ASSUME NEW t \in Transports, call'[t].pc = "append"
        PROVE  /\ call'[t].producer[2] \in DOMAIN fwd
               /\ <<t, call'[t].id>> \notin overlap =>
                    appending(t)' = {} /\ names(call'[t].list, call'[t].id)
    <3>1. call'[t] = call[t]
      BY <1>5, <2>1
    <3>2. appending(t) = {} => appending(t)' = {}
      BY <1>5, <3>1 DEF appending
    <3>3. QED
      BY <1>2, <2>1, <3>1, <3>2 DEF Room, Alone
  <2>2. QED
    BY <1>2, <2>1 DEF Alone
<1>11. QED
  BY <1>4, <1>7, <1>9, <1>10

\* Steps that give out no number and leave lists and calls alone.
LEMMA KeepCalls ==
    ASSUME Shape, Room,
           UNCHANGED <<lastId, call, cProducer, refused, overlap>>,
           \A n \in Ids : /\ producers'[n] \in {None, producers[n]}
                          /\ consumers'[n] \in {None, consumers[n]},
           DOMAIN fwd' \subseteq DOMAIN fwd, \A n \in DOMAIN fwd' : fwd'[n] = fwd[n],
           stage' < 3 => stage < 3 /\ UNCHANGED <<producers, consumers, fwd>>,
           \A t \in Transports : tConsumers'[t] \subseteq tConsumers[t],
           \A p \in Objects, m \in Ids : names(queue'[p], m) => Listed(m, p[2])
    PROVE  Room'
<1>1. Grow
  BY NoGrowth
<1>2. Keeps
  <2>1. ASSUME NEW t \in Transports
        PROVE  /\ consuming(t)' <=> consuming(t)
               /\ call'[t] = call[t]
               /\ producing(t)' => call'[t].id <= lastId'[t].producer
               /\ \A n \in tConsumers'[t] : ~(consuming(t)' /\ call'[t].id = n)
    BY DEF Room, Places, SidesFit, consuming, producing
  <2>2. QED
    BY <2>1 DEF Keeps
<1>3. NumbersFit'
  BY DEF Room, Places, NumbersFit, Added
<1>4. QED
  BY <1>1, <1>2, <1>3, KeepRoom

\* ... and the workers' lists.
LEMMA KeepQueues ==
    ASSUME Shape, Room, UNCHANGED <<routerVars, lastId, call, cProducer, queue, listing>>,
           \A t \in Transports : tConsumers'[t] \subseteq tConsumers[t]
    PROVE  Room'
<1>1. \A p \in Objects, m \in Ids : names(queue'[p], m) => Listed(m, p[2])
  BY DEF Room, Places, ListsFit
<1>2. UNCHANGED <<stage, producers, consumers, fwd, refused, overlap>>
  BY DEF routerVars, listing
<1>3. QED
  BY <1>1, <1>2, KeepCalls

\* Steps that touch neither numbers, calls nor lists.
LEMMA QuietRoom ==
    ASSUME Shape, Room,
           \/ \E t \in Transports : Connect(t) \/ RouterSkip(t)
           \/ \E t \in Transports, k \in Closers :
                 CloseCheck(t, k) \/ CloseLoop(t, k) \/ CloseStop(t, k)
           \/ \E p \in Objects : WorkerSelect(p) \/ WorkerEOF(p)
           \/ \E p \in Objects, value \in BOOLEAN : Pause(p, value)
           \/ \E c \in Objects : ConsumerToggle(c)
           \/ \E c \in Objects, w \in {"read", "write"} :
                 ConsumerWorkerEnd(c, w) \/ ConsumerWorkerFails(c, w)
           \/ MapRace \/ UNCHANGED vars
    PROVE  Room'
<1>1. UNCHANGED <<routerVars, lastId, call, cProducer, queue, listing>>
  BY DEF Connect, RouterSkip, RouterStep, CloseCheck, CloseLoop, CloseStop, WorkerSelect, WorkerEOF,
         WorkerStep, Pause, ConsumerToggle, ConsumerWorkerEnd, ConsumerWorkerFails, MapRace,
         transportVars, producerVars, consumerVars, vars
<1>2. \A u \in Transports : tConsumers'[u] \subseteq tConsumers[u]
  <2>1. CASE \E t \in Transports, k \in Closers : CloseStop(t, k)
    BY <2>1 DEF CloseStop, Shape, TypeOK, TransportOK
  <2>2. CASE ~\E t \in Transports, k \in Closers : CloseStop(t, k)
    <3>1. UNCHANGED tConsumers
      BY <2>2 DEF Connect, RouterSkip, RouterStep, CloseCheck, CloseLoop, WorkerSelect, WorkerEOF,
           WorkerStep, Pause, ConsumerToggle, ConsumerWorkerEnd, ConsumerWorkerFails, MapRace,
           transportVars, vars
    <3>2. QED
      BY <3>1
  <2>3. QED
    BY <2>1, <2>2
<1>3. QED
  BY <1>1, <1>2, KeepQueues

\* A worker takes the list of its producer's number, and works through it.
LEMMA WorkerRoom ==
    ASSUME Shape, Room, NEW p \in Objects, WorkerPacket(p) \/ Forward(p)
    PROVE  Room'
<1>1. UNCHANGED <<stage, producers, consumers, fwd, lastId, call, cProducer, tConsumers,
                  refused, overlap>>
  BY DEF WorkerPacket, Forward, WorkerStep, routerVars, transportVars, consumerVars, listing
<1>2. queue \in [Objects -> Seq(Ids)]
  BY DEF Shape, TypeOK, ProducerOK
<1>3. \A o \in Objects \ {p} : queue'[o] = queue[o]
  BY <1>2 DEF WorkerPacket, Forward
<1>4. \A m \in Ids : names(queue'[p], m) => Listed(m, p[2])
  <2>1. CASE queue'[p] = queue[p]
    BY <2>1 DEF Room, Places, ListsFit
  <2>2. CASE p[2] \in DOMAIN fwd /\ queue'[p] = fwd[p[2]]
    BY <2>2 DEF Room, Places, ListsFit
  <2>3. CASE queue'[p] = <<>>
    BY <2>3 DEF names
  <2>4. CASE queue[p] # <<>> /\ queue'[p] = Tail(queue[p])
    <3>1. queue[p] \in Seq(Ids)
      BY <1>2
    <3>2. ASSUME NEW i \in 1 .. Len(queue'[p])
          PROVE  i + 1 \in 1 .. Len(queue[p]) /\ queue'[p][i] = queue[p][i + 1]
      BY <2>4, <3>1, <3>2
    <3>3. \A m \in Ids : names(queue'[p], m) => names(queue[p], m)
      BY <3>2 DEF names
    <3>4. QED
      BY <3>3 DEF Room, Places, ListsFit
  <2>5. QED
    BY <1>2, <2>1, <2>2, <2>3, <2>4 DEF WorkerPacket, Forward, hasNext
<1>5. \A o \in Objects, m \in Ids : names(queue'[o], m) => Listed(m, o[2])
  BY <1>3, <1>4 DEF Room, Places, ListsFit
<1>6. QED
  BY <1>1, <1>5, KeepCalls

\* Router.Close only takes from the router's maps, and the lists go first.
LEMMA RouterCloseRoom ==
    ASSUME Shape, Room, RouterClose \/ RouterDrop
    PROVE  Room'
<1>1. UNCHANGED <<lastId, call, cProducer, refused, overlap, queue, tConsumers>>
  BY DEF RouterClose, RouterDrop, RouterStep, producerVars, consumerVars, listing
<1>2. stage \in 0 .. 5
  BY DEF Shape, TypeOK, RouterOK
<1>3. stage' < 3 => stage < 3 /\ UNCHANGED <<producers, consumers, fwd>>
  BY <1>2 DEF RouterClose, RouterDrop
<1>4. /\ \A n \in Ids : /\ producers'[n] \in {None, producers[n]}
                        /\ consumers'[n] \in {None, consumers[n]}
      /\ DOMAIN fwd' \subseteq DOMAIN fwd /\ \A n \in DOMAIN fwd' : fwd'[n] = fwd[n]
  BY DEF RouterClose, RouterDrop
<1>5. \A p \in Objects, m \in Ids : names(queue'[p], m) => Listed(m, p[2])
  BY <1>1 DEF Room, Places, ListsFit
<1>6. QED
  BY <1>1, <1>3, <1>4, <1>5, KeepCalls

\* Steps of a call that begins or ends, and takes no number but for a producer that
\* is not added yet.
LEMMA KeepStart ==
    ASSUME Shape, Room, Grow, NEW t \in Transports,
           UNCHANGED <<routerVars, cProducer, queue, listing>>,
           \A u \in Transports \ {t} : /\ call'[u] = call[u] /\ lastId'[u] = lastId[u]
                                       /\ tConsumers'[u] = tConsumers[u],
           ~consuming(t)',
           producing(t)' => call'[t].id <= lastId'[t].producer,
           stage < 3 /\ consuming(t) => call[t].pc = "consumed",
           \A n \in tConsumers'[t] : n \in tConsumers[t] \/ (consuming(t) /\ call[t].id = n),
           \A n \in Ids : Added(t, n) => Added(t, n)'
    PROVE  Room'
<1>1. UNCHANGED <<stage, producers, consumers, fwd, refused, overlap>>
  BY DEF routerVars, listing
<1>2. Keeps
  <2>1. ASSUME NEW u \in Transports
        PROVE  /\ consuming(u)' => consuming(u) /\ call'[u] = call[u]
               /\ stage < 3 /\ consuming(u) /\ ~consuming(u)' => call[u].pc = "consumed"
               /\ producing(u)' => call'[u].id <= lastId'[u].producer
               /\ \A n \in tConsumers'[u] : /\ n \in tConsumers[u] \/ (consuming(u) /\ call[u].id = n)
                                            /\ ~(consuming(u)' /\ call'[u].id = n)
    <3>1. CASE u = t
      BY <1>1, <3>1
    <3>2. CASE u # t
      <4>1. /\ call'[u] = call[u] /\ lastId'[u] = lastId[u] /\ tConsumers'[u] = tConsumers[u]
            /\ consuming(u)' <=> consuming(u)
            /\ producing(u)' <=> producing(u)
        BY <3>2 DEF consuming, producing
      <4>2. QED
        BY <4>1 DEF Room, Places, SidesFit
    <3>3. QED
      BY <3>1, <3>2
  <2>2. QED
    BY <1>1, <2>1 DEF Keeps
<1>3. NumbersFit'
  <2>1. SUFFICES ASSUME NEW n \in DOMAIN fwd
                 PROVE  \E u \in Producing : Added(u, n)'
    BY <1>1 DEF NumbersFit
  <2>2. PICK u \in Producing : Added(u, n)
    BY DEF Room, Places, NumbersFit
  <2>3. n \in Ids
    BY DEF Shape, TypeOK, RouterOK
  <2>4. Added(u, n)'
    <3>1. CASE u = t
      BY <2>2, <2>3, <3>1
    <3>2. CASE u # t
      BY <2>2, <3>2 DEF Added, Transports
    <3>3. QED
      BY <3>1, <3>2
  <2>5. QED
    BY <2>4
<1>4. \A p \in Objects, m \in Ids : names(queue'[p], m) => Listed(m, p[2])
  BY DEF Room, Places, ListsFit
<1>5. QED
  BY <1>2, <1>3, <1>4, KeepRoom

\* A transport that is made, or whose session ends over the router's nil map.
LEMMA NewTransportRoom ==
    ASSUME Shape, Room, NEW t \in Transports, NewWebRTCTransport(t)
    PROVE  Room'
<1>1. /\ free(t)
      /\ call' = call \/ Panic(t)
      /\ UNCHANGED <<routerVars, cProducer, queue, listing, lastId, tConsumers>>
  BY DEF NewWebRTCTransport, producerVars, consumerVars
<1>2. Grow
  BY <1>1, NoGrowth
<1>3. /\ call'[t].pc \in {"idle", "gone"} /\ call[t].pc = "idle"
      /\ \A u \in Transports \ {t} : call'[u] = call[u]
  <2>1. CASE call' = call
    BY <1>1, <2>1 DEF free
  <2>2. CASE Panic(t)
    BY <1>1, <2>2, CallEnds DEF free
  <2>3. QED
    BY <1>1, <2>1, <2>2
<1>4. QED
  BY <1>1, <1>2, <1>3, KeepStart DEF consuming, producing, Added

\* The beginning and the end of Produce.
LEMMA ProduceRoom ==
    ASSUME Shape, Room, NEW t \in Transports, ProduceStart(t) \/ ProduceEnd(t)
    PROVE  Room'
<1>1. CASE ProduceStart(t)
  <2> DEFINE n == getNextId(t, "producer")
  <2>1. /\ n \in Ids /\ n = lastId[t].producer + 1 /\ lastId[t].producer \in Nat
        /\ free(t) /\ call'[t].pc = "addProducer" /\ call'[t].id = n
        /\ \A u \in Transports \ {t} : call'[u] = call[u]
        /\ lastId' = [lastId EXCEPT ![t].producer = n]
        /\ UNCHANGED <<routerVars, tConsumers, producerVars, consumerVars, listing>>
    BY <1>1, ProduceStartFacts
  <2> HIDE DEF n
  <2>2. /\ lastId'[t].producer = n /\ lastId'[t].consumer = lastId[t].consumer
        /\ \A u \in Transports \ {t} : lastId'[u] = lastId[u]
    BY <2>1 DEF Shape, TypeOK, TransportOK
  <2>3. Grow
    BY <2>1, <2>2, LastIds DEF Grow
  <2>4. \A m \in Ids : Added(t, m) => Added(t, m)'
    BY <2>1, <2>2, IdFacts DEF Added
  <2>5. ~consuming(t) /\ ~consuming(t)' /\ call'[t].id <= lastId'[t].producer
    BY <2>1, <2>2, IdFacts DEF consuming, free
  <2>6. QED
    BY <2>1, <2>2, <2>3, <2>4, <2>5, KeepStart DEF producerVars, consumerVars
<1>2. CASE ProduceEnd(t)
  <2>1. /\ call[t].pc = "produced" /\ call'[t].pc \in {"idle", "gone"}
        /\ \A u \in Transports \ {t} : call'[u] = call[u]
        /\ UNCHANGED <<routerVars, tConsumers, lastId, queue, consumerVars, listing>>
    BY <1>2, ProduceEndFacts
  <2>2. Grow
    BY <2>1, NoGrowth
  <2>3. ~consuming(t) /\ ~consuming(t)' /\ ~producing(t)'
    BY <2>1 DEF consuming, producing
  <2>4. \A m \in Ids : Added(t, m) => Added(t, m)'
    BY <2>1 DEF Added
  <2>5. QED
    BY <2>1, <2>2, <2>3, <2>4, KeepStart DEF consumerVars
<1>3. QED
  BY <1>1, <1>2

\* A Consume that ends, by itself or in a panic over a map that the router dropped.
LEMMA ConsumeEndRoom ==
    ASSUME Shape, Room, NEW t \in Transports,
           AddConsumer(t) \/ AppendConsumer(t) \/ ConsumeEnd(t),
           call'[t].pc \in {"idle", "gone"}
    PROVE  Room'
<1> DEFINE n == call[t].id
<1>1. /\ consuming(t) /\ \A u \in Transports \ {t} : call'[u] = call[u]
      /\ UNCHANGED <<stage, producers, consumers, fwd, lastId, producerVars, consumerVars, listing>>
      /\ tConsumers' = tConsumers \/ tConsumers' = [tConsumers EXCEPT ![t] = @ \cup {n}]
  BY ConsumeFacts
<1>2. stage < 3 => call[t].pc = "consumed"
  <2>1. \/ AddConsumer(t) /\ stage >= 4
        \/ AppendConsumer(t) /\ stage >= 3
        \/ call[t].pc = "consumed"
    BY ConsumeFacts
  <2>2. stage \in Nat
    BY DEF Shape, TypeOK, RouterOK
  <2>3. QED
    BY <2>1, <2>2
<1>3. Grow
  BY <1>1, NoGrowth
<1>4. /\ \A u \in Transports \ {t} : tConsumers'[u] = tConsumers[u]
      /\ \A m \in tConsumers'[t] : m \in tConsumers[t] \/ m = n
  BY <1>1 DEF Shape, TypeOK, TransportOK
<1>5. UNCHANGED <<routerVars, queue, cProducer>>
  BY <1>1 DEF routerVars, producerVars, consumerVars
<1>6. \A m \in Ids : Added(t, m) => Added(t, m)'
  BY <1>1 DEF Added
<1>7. ~consuming(t)' /\ ~producing(t)'
  BY DEF consuming, producing
<1>8. QED
  BY <1>1, <1>2, <1>3, <1>4, <1>5, <1>6, <1>7, KeepStart

\* Consume: the new consumer has a producer that the router knows.
LEMMA ConsumeStartRoom ==
    ASSUME Shape, Room, NEW t \in Transports, NEW m \in Ids, NEW paused \in BOOLEAN,
           ConsumeStart(t, m, paused)
    PROVE  Room'
<1>1. PICK n \in Ids, p \in Objects, c \in Objects :
        /\ n = lastId[t].consumer + 1 /\ lastId[t].consumer \in Nat /\ c = <<t, n>>
        /\ p = producers[m] /\ p[2] = m /\ t \in Consuming /\ free(t)
        /\ lastId' = [lastId EXCEPT ![t].consumer = n]
        /\ \/ /\ call'[t].pc = "addConsumer" /\ call'[t].id = n /\ call'[t].producer = p
              /\ \A u \in Transports \ {t} : call'[u] = call[u]
              /\ cProducer' = [cProducer EXCEPT ![c] = p]
           \/ UNCHANGED <<call, cProducer>>
        /\ UNCHANGED <<routerVars, tConsumers, producerVars, listing>>
  <2> DEFINE n == getNextId(t, "consumer")
             p == producers[m]
             c == <<t, n>>
  <2>1. /\ n \in Ids /\ n = lastId[t].consumer + 1 /\ lastId[t].consumer \in Nat
        /\ p \in Objects /\ p[2] = m /\ t \in Consuming /\ free(t) /\ c \in Objects
        /\ lastId' = [lastId EXCEPT ![t].consumer = n]
        /\ \/ /\ call'[t].pc = "addConsumer" /\ call'[t].id = n /\ call'[t].producer = p
              /\ \A u \in Transports \ {t} : call'[u] = call[u]
              /\ cProducer' = [cProducer EXCEPT ![c] = p]
           \/ UNCHANGED <<call, cProducer>>
        /\ UNCHANGED <<routerVars, tConsumers, producerVars, listing>>
    BY ConsumeStartFacts
  <2> HIDE DEF n
  <2>2. QED
    BY <2>1
<1>2. producers[m] = p
  BY <1>1
<1>3. /\ lastId'[t].consumer = n /\ lastId'[t].producer = lastId[t].producer
      /\ \A u \in Transports \ {t} : lastId'[u] = lastId[u]
  BY <1>1 DEF Shape, TypeOK, TransportOK
<1>4. Grow
  BY <1>1, <1>3, LastIds DEF Grow
<1>5. /\ UNCHANGED <<stage, producers, consumers, fwd, tConsumers, queue, refused, overlap>>
      /\ ~consuming(t) /\ ~producing(t) /\ call[t].pc = "idle"
  BY <1>1 DEF routerVars, producerVars, listing, consuming, producing, free
<1>6. CASE UNCHANGED <<call, cProducer>>
  <2>1. \A i \in Ids : Added(t, i) => Added(t, i)'
    BY <1>3, <1>6 DEF Added
  <2>2. ~consuming(t)' /\ ~producing(t)'
    BY <1>5, <1>6 DEF consuming, producing
  <2>3. QED
    BY <1>1, <1>3, <1>4, <1>5, <1>6, <2>1, <2>2, KeepStart
<1>7. CASE /\ call'[t].pc = "addConsumer" /\ call'[t].id = n /\ call'[t].producer = p
           /\ \A u \in Transports \ {t} : call'[u] = call[u]
           /\ cProducer' = [cProducer EXCEPT ![c] = p]
  <2>1. cProducer[c] = None
    <3>1. SUFFICES ASSUME cProducer[c] # None PROVE FALSE
      OBVIOUS
    <3>2. n <= lastId[t].consumer
      BY <1>1, <3>1 DEF Room, Places, SidesFit
    <3>3. QED
      BY <1>1, <3>2
  <2>2. \A o \in Objects : cProducer'[o] = IF o = c THEN p ELSE cProducer[o]
    BY <1>1, <1>7 DEF Shape, TypeOK, ConsumerOK
  <2>3. Kept
    BY <2>1, <2>2 DEF Kept
  <2>4. \A u \in Transports : /\ producing(u)' <=> producing(u)
                              /\ producing(u) => call'[u] = call[u]
                              /\ consuming(u)' <=> consuming(u) \/ u = t
                              /\ call'[u].pc = "append" => u # t /\ call'[u] = call[u]
    BY <1>5, <1>7 DEF producing, consuming
  <2>5. p[1] \in Producing /\ p[2] <= lastId[p[1]].producer
    BY <1>1, <1>2, ObjectFacts DEF Room, Places, SidesFit
  <2>6. SidesFit'
    <3>1. ASSUME NEW o \in Objects, cProducer'[o] # None
          PROVE  /\ o[1] \in Consuming /\ o[2] <= lastId'[o[1]].consumer
                 /\ cProducer'[o][1] \in Producing
                 /\ cProducer'[o][2] <= lastId'[cProducer'[o][1]].producer
      <4>1. CASE o = c
        <5>1. /\ o[1] = t /\ o[2] = n /\ cProducer'[o] = p
              /\ lastId'[p[1]].producer = lastId[p[1]].producer
          BY <1>1, <1>3, <2>2, <2>5, <4>1 DEF Transports
        <5>2. QED
          BY <1>1, <1>3, <2>5, <5>1, IdFacts
      <4>2. CASE o # c
        <5>1. /\ cProducer[o] # None /\ cProducer'[o] = cProducer[o]
              /\ cProducer[o] \in Objects
          BY <2>2, <3>1, <4>2 DEF Shape, TypeOK, ConsumerOK
        <5>2. /\ o[1] \in Consuming /\ o[2] <= lastId[o[1]].consumer
              /\ cProducer[o][1] \in Producing
              /\ cProducer[o][2] <= lastId[cProducer[o][1]].producer
          BY <5>1 DEF Room, Places, SidesFit
        <5>3. /\ o[1] \in Transports /\ o[2] \in Nat /\ cProducer[o][1] \in Transports
              /\ cProducer[o][2] \in Nat
          BY <5>1, ObjectFacts, IdFacts
        <5>4. QED
          BY <1>4, <5>1, <5>2, <5>3, LastIds DEF Grow
      <4>3. QED
        BY <4>1, <4>2
    <3>2. ASSUME NEW u \in Transports
          PROVE  /\ consuming(u)' => cProducer'[<<u, call'[u].id>>] = call'[u].producer
                 /\ producing(u)' => call'[u].id <= lastId'[u].producer
                 /\ \A k \in tConsumers[u] : /\ cProducer'[<<u, k>>] # None
                                             /\ ~(consuming(u)' /\ call'[u].id = k)
      <4>1. tConsumers[u] \subseteq Ids
        BY DEF Shape, TypeOK, TransportOK
      <4>2. \A k \in tConsumers[u] : /\ cProducer[<<u, k>>] # None /\ <<u, k>> \in Objects
                                     /\ ~(consuming(u) /\ call[u].id = k)
        BY <4>1, ObjectFacts DEF Room, Places, SidesFit
      <4>3. CASE u = t
        <5>1. cProducer'[c] = p /\ c = <<t, n>>
          BY <1>1, <2>2
        <5>2. \A k \in tConsumers[u] : k # n /\ cProducer'[<<u, k>>] # None
          BY <2>1, <2>3, <4>2, <4>3, <5>1 DEF Kept
        <5>3. QED
          BY <1>5, <1>7, <2>4, <4>3, <5>1, <5>2
      <4>4. CASE u # t
        <5>1. consuming(u) => /\ <<u, call[u].id>> \in Objects /\ <<u, call[u].id>> # c
          BY <1>1, <4>4, ObjectFacts DEF Shape, CallsFit
        <5>2. call'[u] = call[u] /\ lastId'[u] = lastId[u]
          BY <1>3, <1>7, <4>4
        <5>3. consuming(u)' => cProducer'[<<u, call'[u].id>>] = call'[u].producer
          BY <2>2, <2>4, <4>4, <5>1, <5>2 DEF Room, Places, SidesFit
        <5>4. producing(u)' => call'[u].id <= lastId'[u].producer
          BY <2>4, <5>2 DEF Room, Places, SidesFit
        <5>5. QED
          BY <2>3, <2>4, <4>2, <4>4, <5>2, <5>3, <5>4 DEF Kept
      <4>5. QED
        BY <4>3, <4>4
    <3>3. ASSUME NEW k \in Ids, producers[k] # None
          PROVE  producers[k][1] \in Producing /\ k <= lastId'[producers[k][1]].producer
      <4>1. producers[k][1] \in Producing /\ k <= lastId[producers[k][1]].producer
        BY <3>3 DEF Room, Places, SidesFit
      <4>2. QED
        BY <1>3, <4>1 DEF Transports
    <3>4. \A k \in Ids : consumers[k] # None => consumers[k][1] \in Consuming
      BY DEF Room, Places, SidesFit
    <3>5. QED
      BY <1>5, <3>1, <3>2, <3>3, <3>4 DEF SidesFit
  <2>7. NumbersFit'
    <3>1. ASSUME NEW u \in Producing, NEW i, Added(u, i) PROVE Added(u, i)'
      BY <1>3, <1>5, <1>7, <3>1 DEF Added, Transports
    <3>2. QED
      BY <1>5, <3>1 DEF Room, Places, NumbersFit
  <2>8. ListsFit'
    <3>1. \A k \in DOMAIN fwd, i \in Ids : names(fwd[k], i) => Listed(i, k)'
      BY <2>3, StaysListed DEF Room, Places, ListsFit
    <3>2. \A o \in Objects, i \in Ids : names(queue[o], i) => Listed(i, o[2])'
      BY <2>3, StaysListed DEF Room, Places, ListsFit
    <3>3. ASSUME NEW u \in Transports, NEW k \in Ids, NEW i \in Ids, call'[u].pc = "append",
                 call'[u].producer[2] = k, names(call'[u].list, i)
          PROVE  Listed(i, k)'
      BY <2>3, <2>4, <3>3, StaysListed DEF Room, Places, ListsFit
    <3>4. QED
      BY <1>5, <3>1, <3>2, <3>3 DEF ListsFit
  <2>9. ASSUME NEW o \in Objects, cProducer'[o] # None, o # c
        PROVE  cProducer[o] # None /\ cProducer'[o] = cProducer[o] /\ cProducer[o] \in Objects
    BY <2>2, <2>9 DEF Shape, TypeOK, ConsumerOK
  <2>10. InProducers'
    <3>1. SUFFICES ASSUME stage < 3, NEW o \in Objects, NEW q \in Objects, cProducer'[o] = q,
                          ownProducer(q)'
                   PROVE  producers[q[2]] = q
      BY <1>5 DEF InProducers
    <3>2. CASE o = c
      BY <1>1, <1>2, <2>2, <3>1, <3>2
    <3>3. CASE o # c
      <4>1. cProducer[o] = q
        BY <2>2, <3>1, <3>3
      <4>2. ownProducer(q)
        BY <1>4, <3>1, OwnBefore
      <4>3. QED
        BY <3>1, <4>1, <4>2 DEF Room, InProducers
    <3>4. QED
      BY <3>2, <3>3
  <2>11. unstored(c)' /\ unlisted(c)'
    BY <1>1, <1>7 DEF unstored, unlisted
  <2>12. \A o \in Objects : o # c => (unstored(o)' <=> unstored(o)) /\ (unlisted(o)' <=> unlisted(o))
    <3>1. ASSUME NEW o \in Objects, o # c
          PROVE  (unstored(o)' <=> unstored(o)) /\ (unlisted(o)' <=> unlisted(o))
      <4>1. CASE o[1] = t
        <5>1. o[2] # n
          BY <1>1, <3>1, <4>1, ObjectFacts
        <5>2. QED
          BY <1>5, <1>7, <4>1, <5>1 DEF unstored, unlisted
      <4>2. CASE o[1] # t
        <5>1. call'[o[1]] = call[o[1]]
          BY <1>7, <4>2, ObjectFacts
        <5>2. QED
          BY <5>1 DEF unstored, unlisted
      <4>3. QED
        BY <4>1, <4>2
    <3>2. QED
      BY <3>1
  <2>13. InConsumers'
    <3>1. SUFFICES ASSUME stage < 3, NEW o \in Objects, cProducer'[o] # None, ownConsumer(o)',
                          ~unstored(o)'
                   PROVE  consumers[o[2]] = o
      BY <1>5 DEF InConsumers
    <3>2. o # c
      BY <2>11, <3>1
    <3>3. QED
      BY <1>4, <2>9, <2>12, <3>1, <3>2, OwnBefore DEF Room, InConsumers
  <2>14. \A k, i : Settled(k, i) => Settled(k, i)'
    BY <1>5, <2>4 DEF Settled
  <2>15. InList'
    <3>1. SUFFICES ASSUME stage < 3, NEW o \in Objects, NEW q \in Objects, cProducer'[o] = q,
                          ownProducer(q)', ~unlisted(o)', o \notin refused \cup overlap
                   PROVE  Settled(q[2], o[2])'
      BY <1>5 DEF InList
    <3>2. o # c
      BY <2>11, <3>1
    <3>3. cProducer[o] = q
      BY <2>2, <3>1, <3>2
    <3>4. ownProducer(q)
      BY <1>4, <3>1, OwnBefore
    <3>5. QED
      BY <2>12, <2>14, <3>1, <3>2, <3>3, <3>4 DEF Room, InList
  <2>16. Alone'
    <3>1. ASSUME stage < 3, NEW u \in Transports, call'[u].pc = "append"
          PROVE  /\ call'[u].producer[2] \in DOMAIN fwd
                 /\ <<u, call'[u].id>> \notin overlap =>
                      appending(u)' = {} /\ names(call'[u].list, call'[u].id)
      <4>1. call'[u] = call[u]
        BY <2>4, <3>1
      <4>2. appending(u) = {} => appending(u)' = {}
        BY <2>4, <4>1 DEF appending
      <4>3. QED
        BY <3>1, <4>1, <4>2 DEF Room, Alone
    <3>2. QED
      BY <1>5, <3>1 DEF Alone
  <2>17. QED
    BY <2>6, <2>7, <2>8, <2>10, <2>13, <2>15, <2>16 DEF Room, Places
<1>8. QED
  BY <1>1, <1>6, <1>7


\* Produce: the router stores the producer, and then a list for its number.
LEMMA AddProducerRoom ==
    ASSUME Shape, Room, NEW t \in Transports, AddProducer(t) \/ AddList(t)
    PROVE  Room'
<1>1. PICK n \in Ids, q \in Objects :
        /\ n = call[t].id /\ q = <<t, n>> /\ t \in Producing /\ producing(t)
        /\ \A u \in Transports \ {t} : call'[u] = call[u]
        /\ \/ call'[t].pc \in {"idle", "gone"} /\ UNCHANGED <<producers, fwd>>
           \/ /\ call[t].pc = "addProducer" /\ call'[t].pc = "addList" /\ call'[t].id = n
              /\ producers' = [producers EXCEPT ![n] = q]
              /\ UNCHANGED fwd
           \/ /\ call[t].pc = "addList" /\ call'[t].pc = "produced" /\ call'[t].id = n
              /\ fwd' = [m \in DOMAIN fwd \cup {n} |-> IF m = n THEN <<>> ELSE fwd[m]]
              /\ UNCHANGED producers
        /\ UNCHANGED <<stage, consumers, tConsumers, lastId, producerVars, consumerVars, listing>>
  <2> DEFINE n == call[t].id
             q == <<t, n>>
  <2>1. /\ n \in Ids /\ q \in Objects /\ t \in Producing /\ producing(t)
        /\ \A u \in Transports \ {t} : call'[u] = call[u]
        /\ \/ call'[t].pc \in {"idle", "gone"} /\ UNCHANGED <<producers, fwd>>
           \/ /\ AddProducer(t) /\ call'[t].pc = "addList" /\ call'[t].id = n
              /\ producers' = [producers EXCEPT ![n] = q]
              /\ UNCHANGED fwd
           \/ /\ AddList(t) /\ call'[t].pc = "produced" /\ call'[t].id = n
              /\ fwd' = [m \in DOMAIN fwd \cup {n} |-> IF m = n THEN <<>> ELSE fwd[m]]
              /\ UNCHANGED producers
        /\ UNCHANGED <<stage, consumers, tConsumers, lastId, producerVars, consumerVars, listing>>
    BY AddProducerFacts
  <2>2. /\ AddProducer(t) => call[t].pc = "addProducer"
        /\ AddList(t) => call[t].pc = "addList"
    BY DEF AddProducer, AddList
  <2> HIDE DEF n
  <2>3. QED
    BY <2>1, <2>2 DEF n
<1>2. Grow
  BY <1>1, NoGrowth
<1>3. UNCHANGED <<cProducer, queue, refused, overlap>> /\ ~consuming(t)
  BY <1>1 DEF producerVars, consumerVars, listing, producing, consuming
<1>4. n <= lastId[t].producer
  BY <1>1 DEF Room, Places, SidesFit
<1>5. CASE call'[t].pc \in {"idle", "gone"} /\ UNCHANGED <<producers, fwd>>
  <2>1. UNCHANGED routerVars /\ ~consuming(t)' /\ ~producing(t)'
    BY <1>1, <1>5 DEF routerVars, consuming, producing
  <2>2. \A m \in Ids : Added(t, m) => Added(t, m)'
    BY <1>1, <1>5 DEF Added
  <2>3. QED
    BY <1>1, <1>2, <1>3, <2>1, <2>2, KeepStart
<1>6. CASE \/ /\ call[t].pc = "addProducer" /\ call'[t].pc = "addList" /\ call'[t].id = n
              /\ producers' = [producers EXCEPT ![n] = q]
              /\ UNCHANGED fwd
           \/ /\ call[t].pc = "addList" /\ call'[t].pc = "produced" /\ call'[t].id = n
              /\ fwd' = [m \in DOMAIN fwd \cup {n} |-> IF m = n THEN <<>> ELSE fwd[m]]
              /\ UNCHANGED producers
  <2>1. \A m \in Ids : producers'[m] = producers[m] \/ (m = n /\ producers'[m] = q)
    BY <1>6 DEF Shape, TypeOK, RouterOK
  <2>2. \A u \in Transports : /\ consuming(u)' <=> consuming(u)
                              /\ producing(u)' <=> producing(u)
                              /\ call'[u].id = call[u].id
                              /\ consuming(u) => call'[u] = call[u]
                              /\ call'[u].pc = "append" <=> call[u].pc = "append"
    BY <1>1, <1>6 DEF consuming, producing
  <2>3. SidesFit'
    <3>1. ASSUME NEW m \in Ids, producers'[m] # None
          PROVE  producers'[m][1] \in Producing /\ m <= lastId[producers'[m][1]].producer
      BY <1>1, <1>4, <2>1, <3>1 DEF Room, Places, SidesFit
    <3>2. QED
      BY <1>1, <1>3, <2>2, <3>1 DEF Room, Places, SidesFit
  <2>4. NumbersFit'
    <3>1. \A u \in Producing, m \in Ids : Added(u, m) => Added(u, m)'
      BY <1>1, <1>6 DEF Added, Transports
    <3>2. \A m \in DOMAIN fwd : m \in Ids
      BY DEF Shape, TypeOK, RouterOK
    <3>3. n \in DOMAIN fwd' => n \in DOMAIN fwd \/ Added(t, n)'
      BY <1>1, <1>4, <1>6 DEF Added
    <3>4. DOMAIN fwd' \subseteq DOMAIN fwd \cup {n}
      BY <1>6
    <3>5. ASSUME NEW m \in DOMAIN fwd' PROVE \E u \in Producing : Added(u, m)'
      <4>1. CASE m \in DOMAIN fwd
        BY <3>1, <3>2, <4>1 DEF Room, Places, NumbersFit
      <4>2. CASE m \notin DOMAIN fwd
        BY <1>1, <3>3, <3>4, <3>5, <4>2
      <4>3. QED
        BY <4>1, <4>2
    <3>6. QED
      BY <3>5 DEF NumbersFit
  <2>5. ListsFit'
    <3>1. \A m, k : Listed(m, k)' <=> Listed(m, k)
      BY <1>3 DEF Listed
    <3>2. ASSUME NEW k \in DOMAIN fwd', NEW m \in Ids, names(fwd'[k], m) PROVE Listed(m, k)
      <4>1. k \in DOMAIN fwd /\ fwd'[k] = fwd[k]
        BY <1>6, <3>2 DEF names
      <4>2. QED
        BY <3>2, <4>1 DEF Room, Places, ListsFit
    <3>3. \A u \in Transports : call'[u].pc = "append" => call'[u] = call[u]
      BY <2>2 DEF consuming
    <3>4. QED
      BY <1>3, <3>1, <3>2, <3>3 DEF Room, Places, ListsFit
  <2>6. \A p \in Objects : ownProducer(p) /\ p[2] = n => p = q
    BY <1>1, <1>4, OwnIs, ObjectFacts
  <2>7. InProducers'
    <3>1. SUFFICES ASSUME stage < 3, NEW c \in Objects, NEW p \in Objects, cProducer[c] = p,
                          ownProducer(p)'
                   PROVE  producers'[p[2]] = p
      BY <1>1, <1>3 DEF InProducers
    <3>2. ownProducer(p)
      BY <1>2, <3>1, OwnBefore
    <3>3. producers[p[2]] = p /\ p[2] \in Ids
      BY <3>1, <3>2, ObjectFacts DEF Room, InProducers
    <3>4. QED
      BY <2>1, <2>6, <3>2, <3>3
  <2>8. \A c \in Objects : (unstored(c)' <=> unstored(c)) /\ (unlisted(c)' <=> unlisted(c))
    BY <2>2, ObjectFacts DEF unstored, unlisted, consuming
  <2>9. InConsumers'
    BY <1>1, <1>2, <1>3, <2>8, OwnBefore DEF Room, InConsumers
  <2>10. InList'
    <3>1. SUFFICES ASSUME stage < 3, NEW c \in Objects, NEW p \in Objects, cProducer[c] = p,
                          ownProducer(p)', ~unlisted(c), c \notin refused \cup overlap
                   PROVE  Settled(p[2], c[2])'
      BY <1>1, <1>3, <2>8 DEF InList
    <3>2. ownProducer(p)
      BY <1>2, <3>1, OwnBefore
    <3>3. Settled(p[2], c[2])
      BY <3>1, <3>2 DEF Room, InList
    <3>4. call[t].pc = "addList" => p[2] # n
      <4>1. SUFFICES ASSUME call[t].pc = "addList", p[2] = n PROVE FALSE
        OBVIOUS
      <4>2. n \in DOMAIN fwd /\ p = q
        BY <2>6, <3>2, <3>3, <4>1 DEF Settled
      <4>3. PICK u \in Producing : Added(u, n)
        BY <4>2 DEF Room, Places, NumbersFit
      <4>4. u = t
        BY <1>1, <3>2, <4>1, <4>2, <4>3, OwnIs, ObjectFacts DEF Added
      <4>5. QED
        BY <1>1, <4>1, <4>3, <4>4 DEF Added
    <3>5. p[2] \in DOMAIN fwd' /\ fwd'[p[2]] = fwd[p[2]]
      BY <1>6, <3>3, <3>4 DEF Settled
    <3>6. \A u \in Transports : call'[u].pc = "append" => call'[u] = call[u]
      BY <2>2 DEF consuming
    <3>7. QED
      BY <3>3, <3>5, <3>6 DEF Settled
  <2>11. Alone'
    <3>1. DOMAIN fwd \subseteq DOMAIN fwd'
      BY <1>6
    <3>2. \A u \in Transports : call'[u].pc = "append" => call'[u] = call[u]
      BY <2>2 DEF consuming
    <3>3. ASSUME stage < 3, NEW u \in Transports, call'[u].pc = "append"
          PROVE  /\ call'[u].producer[2] \in DOMAIN fwd'
                 /\ <<u, call'[u].id>> \notin overlap =>
                      appending(u)' = {} /\ names(call'[u].list, call'[u].id)
      <4>1. call'[u] = call[u]
        BY <3>2, <3>3
      <4>2. appending(u) = {} => appending(u)' = {}
        BY <3>2, <4>1 DEF appending
      <4>3. QED
        BY <3>1, <3>3, <4>1, <4>2 DEF Room, Alone
    <3>4. QED
      BY <1>1, <1>3, <3>3 DEF Alone
  <2>12. QED
    BY <2>3, <2>4, <2>5, <2>7, <2>9, <2>10, <2>11 DEF Room, Places
<1>7. QED
  BY <1>1, <1>5, <1>6

\* Steps of Consume in which every call keeps its number and its producer.
CallsGoOn == \A u \in Transports :
    /\ call'[u].id = call[u].id /\ call'[u].producer = call[u].producer
    /\ call'[u].pc = call[u].pc \/ (consuming(u) /\ consuming(u)')

LEMMA GoOnPlaces ==
    ASSUME Shape, Room, CallsGoOn, UNCHANGED <<stage, producers, lastId, tConsumers, cProducer>>,
           DOMAIN fwd' = DOMAIN fwd,
           \A n \in Ids : consumers'[n] = consumers[n] \/ consumers'[n][1] \in Consuming
    PROVE  SidesFit' /\ NumbersFit' /\ InProducers'
<1>1. \A u \in Transports : /\ consuming(u)' <=> consuming(u)
                            /\ producing(u)' <=> producing(u)
  BY DEF CallsGoOn, consuming, producing
<1>2. SidesFit'
  BY <1>1 DEF Room, Places, SidesFit, CallsGoOn
<1>3. \A u \in Producing : \A n : Added(u, n) => Added(u, n)'
  BY DEF Added, CallsGoOn, consuming, Transports
<1>4. NumbersFit'
  BY <1>3 DEF Room, Places, NumbersFit
<1>5. Grow
  BY NoGrowth
<1>6. InProducers'
  BY <1>5, OwnBefore DEF Room, InProducers
<1>7. QED
  BY <1>2, <1>4, <1>6

\* A new consumer is stored.
LEMMA AddConsumerRoom ==
    ASSUME Shape, Room, NEW t \in Transports, AddConsumer(t)
    PROVE  Room'
<1>1. CASE call'[t].pc \in {"idle", "gone"}
  BY <1>1, ConsumeEndRoom
<1>2. CASE call'[t].pc \notin {"idle", "gone"}
  <2>1. PICK n \in Ids, c \in Objects :
          /\ n = call[t].id /\ c = <<t, n>> /\ t \in Consuming /\ consuming(t)
          /\ call[t].producer \in Objects
          /\ \A u \in Transports \ {t} : call'[u] = call[u]
          /\ call[t].pc = "addConsumer"
          /\ call'[t].pc = "readList" /\ call'[t].id = n
          /\ call'[t].producer = call[t].producer
          /\ consumers' = [consumers EXCEPT ![n] = c]
          /\ UNCHANGED <<stage, producers, fwd, tConsumers, lastId, producerVars, consumerVars,
                         listing>>
    <3> DEFINE n == call[t].id
               c == <<t, n>>
    <3>1. /\ n \in Ids /\ t \in Consuming /\ c \in Objects /\ consuming(t)
          /\ call[t].producer \in Objects
          /\ \A u \in Transports \ {t} : call'[u] = call[u]
          /\ \/ call'[t].pc \in {"idle", "gone"}
             \/ /\ call[t].pc = "addConsumer"
                /\ call'[t].pc = "readList" /\ call'[t].id = n
                /\ call'[t].producer = call[t].producer
                /\ consumers' = [consumers EXCEPT ![n] = c]
                /\ UNCHANGED <<fwd, tConsumers>>
             \/ AppendConsumer(t) /\ call[t].pc = "append"
             \/ ConsumeEnd(t) /\ call[t].pc = "consumed"
          /\ UNCHANGED <<stage, producers, lastId, producerVars, consumerVars, listing>>
      BY ConsumeFacts
    <3>2. call[t].pc = "addConsumer"
      BY DEF AddConsumer
    <3> HIDE DEF n
    <3>3. QED
      BY <1>2, <3>1, <3>2 DEF n
  <2>2. UNCHANGED <<cProducer, queue, refused, overlap>>
    BY <2>1 DEF producerVars, consumerVars, listing
  <2>3. CallsGoOn
    BY <2>1 DEF CallsGoOn, consuming
  <2>4. /\ \A m \in Ids : m # n => consumers'[m] = consumers[m]
        /\ consumers'[n] = c /\ c[1] \in Consuming
    BY <2>1 DEF Shape, TypeOK, RouterOK
  <2>5. SidesFit' /\ NumbersFit' /\ InProducers'
    <3>1. \A m \in Ids : consumers'[m] = consumers[m] \/ consumers'[m][1] \in Consuming
      BY <2>4
    <3>2. QED
      BY <2>1, <2>2, <2>3, <3>1, GoOnPlaces
  <2>6. \A u \in Transports : call'[u].pc = "append" <=> call[u].pc = "append"
    BY <2>1
  <2>7. \A u \in Transports : call[u].pc = "append" => call'[u] = call[u]
    BY <2>1
  <2>8. ListsFit'
    <3>1. \A m, k : Listed(m, k)' <=> Listed(m, k)
      BY <2>2 DEF Listed
    <3>2. QED
      BY <2>1, <2>2, <2>6, <2>7, <3>1 DEF Room, Places, ListsFit
  <2>9. Grow
    BY <2>1, NoGrowth
  <2>10. InConsumers'
    <3>1. SUFFICES ASSUME stage < 3, NEW o \in Objects, cProducer[o] # None, ownConsumer(o)',
                          ~unstored(o)'
                   PROVE  consumers'[o[2]] = o
      BY <2>1, <2>2 DEF InConsumers
    <3>2. ownConsumer(o)
      BY <2>9, <3>1, OwnBefore
    <3>3. CASE o[2] = n
      <4>1. cProducer[c] # None
        BY <2>1, ObjectFacts DEF Room, Places, SidesFit
      <4>2. n <= lastId[t].consumer
        BY <2>1, <4>1 DEF Room, Places, SidesFit
      <4>3. t = o[1]
        BY <2>1, <3>2, <3>3, <4>2, OwnIs
      <4>4. QED
        BY <2>1, <2>4, <3>3, <4>3, ObjectFacts
    <3>4. CASE o[2] # n
      <4>1. ~unstored(o)
        BY <2>1, <3>1, <3>4, ObjectFacts DEF unstored
      <4>2. QED
        BY <2>4, <3>1, <3>2, <3>4, <4>1, ObjectFacts DEF Room, InConsumers
    <3>5. QED
      BY <3>3, <3>4
  <2>11. \A o \in Objects : unlisted(o)' <=> unlisted(o)
    BY <2>1, ObjectFacts DEF unlisted
  <2>12. \A k, i : Settled(k, i) => Settled(k, i)'
    BY <2>1, <2>6, <2>7 DEF Settled
  <2>13. InList'
    <3>1. SUFFICES ASSUME stage < 3, NEW o \in Objects, NEW p \in Objects, cProducer[o] = p,
                          ownProducer(p)', ~unlisted(o), o \notin refused \cup overlap
                   PROVE  Settled(p[2], o[2])'
      BY <2>1, <2>2, <2>11 DEF InList
    <3>2. ownProducer(p)
      BY <2>9, <3>1, OwnBefore
    <3>3. QED
      BY <2>12, <3>1, <3>2 DEF Room, InList
  <2>14. Alone'
    <3>1. ASSUME stage < 3, NEW u \in Transports, call'[u].pc = "append"
          PROVE  /\ call'[u].producer[2] \in DOMAIN fwd
                 /\ <<u, call'[u].id>> \notin overlap =>
                      appending(u)' = {} /\ names(call'[u].list, call'[u].id)
      <4>1. call'[u] = call[u]
        BY <2>6, <2>7, <3>1
      <4>2. appending(u) = {} => appending(u)' = {}
        BY <2>6, <2>7, <4>1 DEF appending
      <4>3. QED
        BY <3>1, <4>1, <4>2 DEF Room, Alone
    <3>2. QED
      BY <2>1, <2>2, <3>1 DEF Alone
  <2>15. QED
    BY <2>5, <2>8, <2>10, <2>13, <2>14 DEF Room, Places
<1>3. QED
  BY <1>1, <1>2

\* A Consume reads the list of its producer's number.
LEMMA ReadListRoom ==
    ASSUME Shape, Room, NEW t \in Transports, ReadList(t)
    PROVE  Room'
<1>1. PICK n, c, key, list :
        /\ n \in Ids /\ c \in Objects /\ key \in Ids
        /\ n = call[t].id /\ c = <<t, n>> /\ key = call[t].producer[2]
        /\ list = appended(fwd[key], n)
        /\ t \in Consuming /\ consuming(t)
        /\ call[t].pc = "readList"
        /\ call[t].producer \in Objects
        /\ call'[t].id = n /\ call'[t].producer = call[t].producer
        /\ \/ /\ key \notin DOMAIN fwd /\ call'[t].pc = "consumed"
              /\ \A u \in Transports \ {t} : call'[u] = call[u]
              /\ refused' = refused \cup {c} /\ UNCHANGED overlap
           \/ /\ key \in DOMAIN fwd
              /\ call'[t].pc = "append" /\ call'[t].list = list
              /\ \A u \in Transports \ {t} :
                   \/ call'[u] = call[u]
                   \/ /\ u \in appending(t)
                      /\ call'[u].pc = call[u].pc /\ call'[u].id = call[u].id
                      /\ call'[u].producer = call[u].producer
                      /\ call'[u].list = list
              /\ overlap' = overlap \cup (IF appending(t) = {} THEN {} ELSE
                               {<<u, call[u].id>> : u \in appending(t) \cup {t}})
              /\ UNCHANGED refused
        /\ UNCHANGED <<routerVars, tConsumers, lastId, producerVars, consumerVars>>
  <2> DEFINE n == call[t].id
             c == <<t, n>>
             key == call[t].producer[2]
             list == appended(fwd[key], n)
  <2>1. /\ n \in Ids /\ t \in Consuming /\ c \in Objects /\ consuming(t)
        /\ call[t].pc = "readList"
        /\ call[t].producer \in Objects /\ key \in Ids
        /\ call'[t].id = n /\ call'[t].producer = call[t].producer
        /\ \/ /\ key \notin DOMAIN fwd /\ call'[t].pc = "consumed"
              /\ \A u \in Transports \ {t} : call'[u] = call[u]
              /\ refused' = refused \cup {c} /\ UNCHANGED overlap
           \/ /\ key \in DOMAIN fwd
              /\ call'[t].pc = "append" /\ call'[t].list = list
              /\ \A u \in Transports \ {t} :
                   \/ call'[u] = call[u]
                   \/ /\ u \in appending(t)
                      /\ call'[u].pc = call[u].pc /\ call'[u].id = call[u].id
                      /\ call'[u].producer = call[u].producer
                      /\ call'[u].list = list
              /\ overlap' = overlap \cup (IF appending(t) = {} THEN {} ELSE
                               {<<u, call[u].id>> : u \in appending(t) \cup {t}})
              /\ UNCHANGED refused
        /\ UNCHANGED <<routerVars, tConsumers, lastId, producerVars, consumerVars>>
    BY ReadListFacts
  <2> HIDE DEF n, key, list
  <2>2. QED
    BY <2>1 DEF n, key, list
<1>2. UNCHANGED <<stage, producers, consumers, fwd, cProducer, queue>>
  BY <1>1 DEF routerVars, producerVars, consumerVars
<1>3. \A u \in appending(t) : u # t /\ call[u].pc = "append" /\ call[u].producer[2] = key
  BY <1>1 DEF appending
<1>4. CallsGoOn
  BY <1>1, <1>3 DEF CallsGoOn, consuming
<1>5. SidesFit' /\ NumbersFit' /\ InProducers'
  BY <1>1, <1>2, <1>4, GoOnPlaces
<1>6. Grow
  BY <1>1, NoGrowth
<1>7. \A o \in Objects : unstored(o)' <=> unstored(o)
  <2>1. \A u \in Transports : call'[u].pc = "addConsumer" <=> call[u].pc = "addConsumer"
    BY <1>1
  <2>2. QED
    BY <1>4, <2>1, ObjectFacts DEF unstored, CallsGoOn
<1>8. InConsumers'
  BY <1>2, <1>6, <1>7, OwnBefore DEF Room, InConsumers
<1>9. \A o \in Objects : o # c => (unlisted(o)' <=> unlisted(o))
  <2>1. ASSUME NEW o \in Objects, o # c PROVE unlisted(o)' <=> unlisted(o)
    <3>1. CASE o[1] = t
      BY <1>1, <2>1, <3>1, ObjectFacts DEF unlisted
    <3>2. CASE o[1] # t
      <4>1. call'[o[1]].pc = call[o[1]].pc /\ call'[o[1]].id = call[o[1]].id
        BY <1>1, <3>2, ObjectFacts
      <4>2. QED
        BY <4>1 DEF unlisted
    <3>3. QED
      BY <3>1, <3>2
  <2>2. QED
    BY <2>1
<1>10. \A m, k : Listed(m, k)' <=> Listed(m, k)
  BY <1>2 DEF Listed
<1>11. CASE /\ key \notin DOMAIN fwd /\ call'[t].pc = "consumed"
            /\ \A u \in Transports \ {t} : call'[u] = call[u]
            /\ refused' = refused \cup {c} /\ UNCHANGED overlap
  <2>1. \A u \in Transports : call'[u].pc = "append" => call'[u] = call[u]
    BY <1>11
  <2>2. ListsFit'
    BY <1>2, <1>10, <2>1 DEF Room, Places, ListsFit
  <2>3. \A k, i : Settled(k, i) => Settled(k, i)'
    BY <1>2, <2>1 DEF Settled
  <2>4. InList'
    <3>1. SUFFICES ASSUME stage < 3, NEW o \in Objects, NEW p \in Objects, cProducer[o] = p,
                          ownProducer(p)', ~unlisted(o)', o \notin refused' \cup overlap'
                   PROVE  Settled(p[2], o[2])'
      BY <1>2 DEF InList
    <3>2. ownProducer(p)
      BY <1>6, <3>1, OwnBefore
    <3>3. o # c /\ o \notin refused \cup overlap
      BY <1>11, <3>1
    <3>4. QED
      BY <1>9, <2>3, <3>1, <3>2, <3>3 DEF Room, InList
  <2>5. Alone'
    <3>1. ASSUME stage < 3, NEW u \in Transports, call'[u].pc = "append"
          PROVE  /\ call'[u].producer[2] \in DOMAIN fwd
                 /\ <<u, call'[u].id>> \notin overlap =>
                      appending(u)' = {} /\ names(call'[u].list, call'[u].id)
      <4>1. call'[u] = call[u]
        BY <2>1, <3>1
      <4>2. appending(u) = {} => appending(u)' = {}
        BY <2>1, <4>1 DEF appending
      <4>3. QED
        BY <3>1, <4>1, <4>2 DEF Room, Alone
    <3>2. QED
      BY <1>2, <1>11, <3>1 DEF Alone
  <2>6. QED
    BY <1>5, <1>8, <2>2, <2>4, <2>5 DEF Room, Places
<1>12. CASE /\ key \in DOMAIN fwd
            /\ call'[t].pc = "append" /\ call'[t].list = list
            /\ \A u \in Transports \ {t} :
                 \/ call'[u] = call[u]
                 \/ /\ u \in appending(t)
                    /\ call'[u].pc = call[u].pc /\ call'[u].id = call[u].id
                    /\ call'[u].producer = call[u].producer
                    /\ call'[u].list = list
            /\ overlap' = overlap \cup (IF appending(t) = {} THEN {} ELSE
                             {<<u, call[u].id>> : u \in appending(t) \cup {t}})
            /\ UNCHANGED refused
  <2>1. /\ names(list, n) /\ \A m : names(fwd[key], m) => names(list, m)
        /\ \A m : names(list, m) => m = n \/ names(fwd[key], m)
    <3> DEFINE old == fwd[key]
    <3>1. old \in Seq(Ids) /\ list = Append(old, n) /\ n \in Ids
      BY <1>1, <1>12 DEF Shape, TypeOK, RouterOK, appended
    <3> HIDE DEF old
    <3>2. Len(old) \in Nat /\ Len(list) = Len(old) + 1
      BY <3>1
    <3>3. list[Len(old) + 1] = n /\ \A i \in 1 .. Len(old) : list[i] = old[i]
      BY <3>1
    <3>4. /\ names(list, n) /\ \A m : names(old, m) => names(list, m)
          /\ \A m : names(list, m) => m = n \/ names(old, m)
      BY <3>2, <3>3 DEF names
    <3>5. QED
      BY <3>4 DEF old
  <2>2. \A u \in Transports : call'[u].pc = "append" =>
          \/ u # t /\ call[u].pc = "append" /\ call'[u] = call[u]
          \/ call'[u].producer[2] = key /\ call'[u].list = list
    BY <1>1, <1>3, <1>12
  <2>3. Listed(n, key)
    <3>1. cProducer[c] = call[t].producer
      BY <1>1 DEF Room, Places, SidesFit
    <3>2. QED
      BY <1>1, <3>1, ObjectFacts DEF Listed
  <2>4. ListsFit'
    <3>1. \A m \in Ids : names(list, m) => Listed(m, key)
      BY <1>12, <2>1, <2>3 DEF Room, Places, ListsFit
    <3>2. ASSUME NEW u \in Transports, NEW k \in Ids, NEW m \in Ids, call'[u].pc = "append",
                 call'[u].producer[2] = k, names(call'[u].list, m)
          PROVE  Listed(m, k)
      BY <2>2, <3>1, <3>2 DEF Room, Places, ListsFit
    <3>3. QED
      BY <1>2, <1>10, <3>2 DEF Room, Places, ListsFit
  <2>5. ASSUME NEW k, NEW i, Settled(k, i) PROVE Settled(k, i)'
    <3>1. ASSUME NEW u \in Transports, call'[u].pc = "append", call'[u].producer[2] = k
          PROVE  names(call'[u].list, i)
      BY <2>1, <2>2, <2>5, <3>1 DEF Settled
    <3>2. QED
      BY <1>2, <2>5, <3>1 DEF Settled
  <2>6. unlisted(c)' /\ unlisted(c)
    BY <1>1, <1>12 DEF unlisted
  <2>7. overlap \subseteq overlap'
    BY <1>12
  <2>8. InList'
    <3>1. SUFFICES ASSUME stage < 3, NEW o \in Objects, NEW p \in Objects, cProducer[o] = p,
                          ownProducer(p)', ~unlisted(o)', o \notin refused' \cup overlap'
                   PROVE  Settled(p[2], o[2])'
      BY <1>2 DEF InList
    <3>2. ownProducer(p)
      BY <1>6, <3>1, OwnBefore
    <3>3. o # c /\ o \notin refused \cup overlap
      BY <1>12, <2>6, <2>7, <3>1
    <3>4. Settled(p[2], o[2])
      BY <1>9, <3>1, <3>2, <3>3 DEF Room, InList
    <3>5. QED
      BY <2>5, <3>4
  <2>9. Alone'
    <3>1. ASSUME stage < 3, NEW u \in Transports, call'[u].pc = "append"
          PROVE  /\ call'[u].producer[2] \in DOMAIN fwd
                 /\ <<u, call'[u].id>> \notin overlap' =>
                      appending(u)' = {} /\ names(call'[u].list, call'[u].id)
      <4>1. CASE u = t
        <5>1. c \notin overlap' => appending(t) = {}
          BY <1>1, <1>12
        <5>2. appending(t) = {} => appending(t)' = {}
          BY <1>1, <1>12 DEF appending
        <5>3. QED
          BY <1>1, <1>12, <2>1, <4>1, <5>1, <5>2
      <4>2. CASE u # t /\ u \in appending(t)
        <5>1. <<u, call[u].id>> \in overlap'
          BY <1>12, <4>2
        <5>2. call'[u].id = call[u].id /\ call'[u].producer[2] = key
          BY <1>3, <1>4, <4>2 DEF CallsGoOn
        <5>3. QED
          BY <1>12, <5>1, <5>2
      <4>3. CASE u # t /\ u \notin appending(t)
        <5>1. call'[u] = call[u] /\ call[u].pc = "append"
          BY <1>12, <3>1, <4>3
        <5>2. call[u].producer[2] # key
          BY <1>1, <4>3, <5>1 DEF appending
        <5>3. ASSUME NEW v \in appending(u)' PROVE v \in appending(u)
          <6>1. v # t
            BY <1>1, <5>1, <5>2, <5>3 DEF appending
          <6>2. QED
            BY <1>12, <5>1, <5>3, <6>1 DEF appending
        <5>4. appending(u) = {} => appending(u)' = {}
          BY <5>3
        <5>5. QED
          BY <2>7, <3>1, <5>1, <5>4 DEF Room, Alone
      <4>4. QED
        BY <4>1, <4>2, <4>3
    <3>2. QED
      BY <1>2, <3>1 DEF Alone
  <2>10. QED
    BY <1>5, <1>8, <2>4, <2>8, <2>9 DEF Room, Places
<1>13. QED
  BY <1>1, <1>11, <1>12

\* A Consume writes its list back.
LEMMA AppendConsumerRoom ==
    ASSUME Shape, Room, NEW t \in Transports, AppendConsumer(t)
    PROVE  Room'
<1>1. CASE call'[t].pc \in {"idle", "gone"}
  BY <1>1, ConsumeEndRoom
<1>2. CASE call'[t].pc \notin {"idle", "gone"}
  <2>1. PICK n, c, key, list :
          /\ n \in Ids /\ c \in Objects /\ key \in Ids
          /\ n = call[t].id /\ c = <<t, n>> /\ key = call[t].producer[2] /\ list = call[t].list
          /\ t \in Consuming /\ consuming(t)
          /\ call[t].producer \in Objects
          /\ \A u \in Transports \ {t} : call'[u] = call[u]
          /\ call[t].pc = "append" /\ stage < 3
          /\ call'[t].pc = "consumed" /\ call'[t].id = n
          /\ call'[t].producer = call[t].producer
          /\ fwd' = [fwd EXCEPT ![key] = list]
          /\ UNCHANGED <<stage, producers, consumers, tConsumers, lastId, producerVars,
                         consumerVars, listing>>
    <3> DEFINE n == call[t].id
               c == <<t, n>>
    <3>1. /\ n \in Ids /\ t \in Consuming /\ c \in Objects /\ consuming(t)
          /\ call[t].producer \in Objects
          /\ \A u \in Transports \ {t} : call'[u] = call[u]
          /\ \/ call'[t].pc \in {"idle", "gone"}
             \/ AddConsumer(t) /\ call[t].pc = "addConsumer"
             \/ /\ call[t].pc = "append" /\ stage < 3
                /\ call'[t].pc = "consumed" /\ call'[t].id = n
                /\ call'[t].producer = call[t].producer
                /\ fwd' = [fwd EXCEPT ![call[t].producer[2]] = call[t].list]
                /\ UNCHANGED <<consumers, tConsumers>>
             \/ ConsumeEnd(t) /\ call[t].pc = "consumed"
          /\ UNCHANGED <<stage, producers, lastId, producerVars, consumerVars, listing>>
      BY ConsumeFacts
    <3>2. call[t].pc = "append"
      BY DEF AppendConsumer
    <3>3. call[t].producer[2] \in Ids
      BY <3>1, ObjectFacts
    <3> HIDE DEF n
    <3>4. QED
      BY <1>2, <3>1, <3>2, <3>3 DEF n
  <2>2. UNCHANGED <<cProducer, queue, refused, overlap>>
    BY <2>1 DEF producerVars, consumerVars, listing
  <2>3. CallsGoOn
    BY <2>1 DEF CallsGoOn, consuming
  <2>4. key \in DOMAIN fwd
    BY <2>1 DEF Room, Alone
  <2>5. /\ DOMAIN fwd' = DOMAIN fwd /\ fwd'[key] = list
        /\ \A k \in DOMAIN fwd : k # key => fwd'[k] = fwd[k]
    BY <2>1, <2>4
  <2>6. SidesFit' /\ NumbersFit' /\ InProducers'
    BY <2>1, <2>2, <2>3, <2>5, GoOnPlaces
  <2>7. \A u \in Transports : call'[u].pc = "append" => u # t /\ call'[u] = call[u]
    BY <2>1
  <2>8. Grow
    BY <2>1, NoGrowth
  <2>9. ListsFit'
    <3>1. \A m, k : Listed(m, k)' <=> Listed(m, k)
      BY <2>2 DEF Listed
    <3>2. \A m \in Ids : names(list, m) => Listed(m, key)
      BY <2>1 DEF Room, Places, ListsFit
    <3>3. \A k \in DOMAIN fwd', m \in Ids : names(fwd'[k], m) => Listed(m, k)
      BY <2>5, <3>2 DEF Room, Places, ListsFit
    <3>4. QED
      BY <2>2, <2>7, <3>1, <3>3 DEF Room, Places, ListsFit
  <2>10. \A o \in Objects : unstored(o)' <=> unstored(o)
    BY <2>1, ObjectFacts DEF unstored
  <2>11. InConsumers'
    BY <2>1, <2>2, <2>8, <2>10, OwnBefore DEF Room, InConsumers
  <2>12. ASSUME NEW k, NEW i, Settled(k, i) PROVE Settled(k, i)'
    <3>1. k \in DOMAIN fwd' /\ names(fwd'[k], i)
      BY <2>1, <2>5, <2>12 DEF Settled
    <3>2. QED
      BY <2>7, <2>12, <3>1 DEF Settled
  <2>13. \A o \in Objects : o # c => (unlisted(o)' <=> unlisted(o))
    <3>1. ASSUME NEW o \in Objects, o # c PROVE unlisted(o)' <=> unlisted(o)
      <4>1. CASE o[1] = t
        BY <2>1, <3>1, <4>1, ObjectFacts DEF unlisted
      <4>2. CASE o[1] # t
        BY <2>1, <4>2, ObjectFacts DEF unlisted
      <4>3. QED
        BY <4>1, <4>2
    <3>2. QED
      BY <3>1
  <2>14. InList'
    <3>1. SUFFICES ASSUME NEW o \in Objects, NEW p \in Objects, cProducer[o] = p,
                          ownProducer(p)', ~unlisted(o)', o \notin refused \cup overlap
                   PROVE  Settled(p[2], o[2])'
      BY <2>1, <2>2 DEF InList
    <3>2. ownProducer(p)
      BY <2>8, <3>1, OwnBefore
    <3>3. CASE o # c
      <4>1. Settled(p[2], o[2])
        BY <2>1, <2>13, <3>1, <3>2, <3>3 DEF Room, InList
      <4>2. QED
        BY <2>12, <4>1
    <3>4. CASE o = c
      <4>1. p[2] = key /\ o[2] = n
        BY <2>1, <3>1, <3>4 DEF Room, Places, SidesFit
      <4>2. appending(t) = {} /\ names(list, n)
        BY <2>1, <3>1, <3>4 DEF Room, Alone
      <4>3. \A u \in Transports : ~(call'[u].pc = "append" /\ call'[u].producer[2] = key)
        BY <2>1, <2>7, <4>2 DEF appending
      <4>4. QED
        BY <2>4, <2>5, <4>1, <4>2, <4>3 DEF Settled
    <3>5. QED
      BY <3>3, <3>4
  <2>15. Alone'
    <3>1. ASSUME NEW u \in Transports, call'[u].pc = "append"
          PROVE  /\ call'[u].producer[2] \in DOMAIN fwd'
                 /\ <<u, call'[u].id>> \notin overlap =>
                      appending(u)' = {} /\ names(call'[u].list, call'[u].id)
      <4>1. call'[u] = call[u]
        BY <2>7, <3>1
      <4>2. appending(u) = {} => appending(u)' = {}
        BY <2>7, <4>1 DEF appending
      <4>3. QED
        BY <2>1, <2>5, <3>1, <4>1, <4>2 DEF Room, Alone
    <3>2. QED
      BY <2>1, <2>2, <3>1 DEF Alone
  <2>16. QED
    BY <2>6, <2>9, <2>11, <2>14, <2>15 DEF Room, Places
<1>3. QED
  BY <1>1, <1>2

\* Every step keeps the room.
LEMMA StepRoom == Shape /\ Room /\ [Next]_vars => Room'
<1> SUFFICES ASSUME Shape, Room, [Next]_vars PROVE Room'
  OBVIOUS
<1>1. CASE \/ \E t \in Transports : Connect(t) \/ RouterSkip(t)
           \/ \E t \in Transports, k \in Closers :
                 CloseCheck(t, k) \/ CloseLoop(t, k) \/ CloseStop(t, k)
           \/ \E p \in Objects : WorkerSelect(p) \/ WorkerEOF(p)
           \/ \E p \in Objects, value \in BOOLEAN : Pause(p, value)
           \/ \E c \in Objects : ConsumerToggle(c)
           \/ \E c \in Objects, w \in {"read", "write"} :
                 ConsumerWorkerEnd(c, w) \/ ConsumerWorkerFails(c, w)
           \/ MapRace \/ UNCHANGED vars
  BY <1>1, QuietRoom
<1>2. CASE \E t \in Transports :
             \/ NewWebRTCTransport(t)
             \/ ProduceStart(t) \/ AddProducer(t) \/ AddList(t) \/ ProduceEnd(t)
  BY <1>2, NewTransportRoom, ProduceRoom, AddProducerRoom
<1>3. CASE \E t \in Transports :
             \/ \E n \in Ids, paused \in BOOLEAN : ConsumeStart(t, n, paused)
             \/ AddConsumer(t) \/ ReadList(t) \/ AppendConsumer(t)
  BY <1>3, ConsumeStartRoom, AddConsumerRoom, ReadListRoom, AppendConsumerRoom
<1>4. CASE \E t \in Transports : ConsumeEnd(t)
  <2>1. PICK t \in Transports : ConsumeEnd(t)
    BY <1>4
  <2>2. call'[t].pc \in {"idle", "gone"}
    <3>1. /\ call[t].pc = "consumed"
          /\ Panic(t) \/ call' = [call EXCEPT ![t] = NoCall]
      BY <2>1 DEF ConsumeEnd
    <3>2. QED
      BY <3>1, CallEnds
  <2>3. QED
    BY <2>1, <2>2, ConsumeEndRoom
<1>5. CASE RouterClose \/ RouterDrop
  BY <1>5, RouterCloseRoom
<1>6. CASE \E p \in Objects : WorkerPacket(p) \/ Forward(p)
  BY <1>6, WorkerRoom
<1>7. QED
  BY <1>1, <1>2, <1>3, <1>4, <1>5, <1>6 DEF Next, Work

\* Who is served was made for the producer it is served from, if the numbers of both
\* were given out once.
LEMMA StepForwarded ==
    ASSUME Shape, Room, ForwardedRight, [Next]_vars
    PROVE  ForwardedRight'
<1>1. CASE out' = Quiet \/ UNCHANGED vars
  <2>1. CASE out' = Quiet
    BY <2>1 DEF ForwardedRight, Quiet
  <2>2. CASE UNCHANGED vars
    BY <2>2 DEF ForwardedRight, ownProducer, ownConsumer, vars, transportVars, consumerVars
  <2>3. QED
    BY <1>1, <2>1, <2>2
<1>2. CASE \E p \in Objects : Forward(p)
  <2>1. PICK p \in Objects : Forward(p)
    BY <1>2
  <2>2. UNCHANGED <<cProducer, lastId>>
    BY <2>1 DEF Forward, WorkerStep, transportVars, consumerVars
  <2>3. CASE out' = Quiet
    BY <2>3 DEF ForwardedRight, Quiet
  <2>4. CASE out' # Quiet
    <3>1. queue[p] \in Seq(Ids) /\ queue[p] # <<>> /\ consumers[Head(queue[p])] # None
      BY <2>1, <2>4 DEF Forward, hasNext, Shape, TypeOK, ProducerOK
    <3>2. Head(queue[p]) \in Ids /\ names(queue[p], Head(queue[p]))
      BY <3>1 DEF names
    <3>3. PICK m \in Ids, c \in Objects :
            /\ m = Head(queue[p]) /\ c = consumers[m] /\ names(queue[p], m)
            /\ out' = [from |-> p, to |-> c]
      <4>1. out' = [from |-> p, to |-> consumers[Head(queue[p])]]
        BY <2>1, <2>4, <3>1 DEF Forward
      <4>2. consumers[Head(queue[p])] \in Objects
        BY <3>1, <3>2 DEF Shape, TypeOK, RouterOK
      <4>3. QED
        BY <3>2, <4>1, <4>2
    <3>4. c[2] = m /\ c[1] \in Consuming
      <4>1. consumers[m] # None
        BY <3>1, <3>3
      <4>2. QED
        BY <3>3, <4>1 DEF Room, Places, SidesFit, Shape, TypeOK, RouterOK
    <3>5. PICK t \in Consuming : cProducer[<<t, m>>] # None /\ cProducer[<<t, m>>][2] = p[2]
      BY <3>3 DEF Room, Places, ListsFit, Listed
    <3>6. PICK d \in Objects, q \in Objects : d = <<t, m>> /\ q = cProducer[d]
      BY <3>5, ObjectFacts DEF Shape, TypeOK, ConsumerOK, Transports
    <3>7. /\ m <= lastId[t].consumer /\ q[2] = p[2]
          /\ q[1] \in Producing /\ q[2] <= lastId[q[1]].producer
      BY <3>5, <3>6 DEF Room, Places, SidesFit
    <3>8. ASSUME ownProducer(p), ownConsumer(c) PROVE cProducer[c] = p
      <4>1. t = c[1]
        BY <3>4, <3>7, <3>8, OwnIs
      <4>2. d = c
        BY <3>4, <3>6, <4>1, ObjectFacts
      <4>3. q[1] = p[1]
        BY <3>7, <3>8, OwnIs
      <4>4. q = p
        BY <3>7, <4>3, ObjectFacts
      <4>5. QED
        BY <3>6, <4>2, <4>4
    <3>9. QED
      BY <2>2, <3>3, <3>8 DEF ForwardedRight, ownProducer, ownConsumer
  <2>5. QED
    BY <2>3, <2>4
<1>3. QED
  <2>1. CASE \E t \in Transports :
               \/ NewWebRTCTransport(t) \/ Connect(t)
               \/ ProduceStart(t) \/ AddProducer(t) \/ AddList(t) \/ ProduceEnd(t)
               \/ \E n \in Ids, paused \in BOOLEAN : ConsumeStart(t, n, paused)
    <3>1. out' = Quiet
      <4>1. ASSUME NEW t \in Transports, NewWebRTCTransport(t) \/ Connect(t) PROVE out' = Quiet
        BY <4>1 DEF NewWebRTCTransport, Connect
      <4>2. ASSUME NEW t \in Transports, ProduceStart(t) PROVE out' = Quiet
        BY <4>2 DEF ProduceStart
      <4>3. ASSUME NEW t \in Transports, AddProducer(t) \/ AddList(t) \/ ProduceEnd(t)
            PROVE  out' = Quiet
        BY <4>3 DEF AddProducer, AddList, ProduceEnd
      <4>4. ASSUME NEW t \in Transports, NEW n \in Ids, NEW paused \in BOOLEAN,
                   ConsumeStart(t, n, paused)
            PROVE  out' = Quiet
        BY <4>4 DEF ConsumeStart
      <4>5. QED
        BY <2>1, <4>1, <4>2, <4>3, <4>4
    <3>2. QED
      BY <1>1, <3>1
  <2>2. CASE \E t \in Transports :
               \/ AddConsumer(t) \/ ReadList(t) \/ AppendConsumer(t) \/ ConsumeEnd(t)
               \/ \E k \in Closers : CloseCheck(t, k) \/ CloseLoop(t, k) \/ CloseStop(t, k)
               \/ RouterSkip(t)
    <3>1. out' = Quiet
      BY <2>2 DEF AddConsumer, ReadList, AppendConsumer, ConsumeEnd, ConsumeStep, CloseCheck,
           CloseLoop, CloseStop, RouterSkip, RouterStep
    <3>2. QED
      BY <1>1, <3>1
  <2>3. CASE \/ RouterClose \/ RouterDrop
             \/ \E p \in Objects : \/ WorkerSelect(p) \/ WorkerEOF(p) \/ WorkerPacket(p)
                                   \/ \E value \in BOOLEAN : Pause(p, value)
             \/ \E c \in Objects : \/ ConsumerToggle(c)
                                   \/ \E w \in {"read", "write"} :
                                        ConsumerWorkerEnd(c, w) \/ ConsumerWorkerFails(c, w)
             \/ MapRace
    <3>1. out' = Quiet
      BY <2>3 DEF RouterClose, RouterDrop, RouterStep, WorkerSelect, WorkerEOF, WorkerPacket, Pause,
           ConsumerToggle, ConsumerWorkerEnd, ConsumerWorkerFails, MapRace
    <3>2. QED
      BY <1>1, <3>1
  <2>4. QED
    BY <1>1, <1>2, <2>1, <2>2, <2>3 DEF Next, Work

\* The places in the router's maps, for any room.
LEMMA PlacesInvariant == Spec => [](Shape /\ Room /\ ForwardedRight)
<1>1. NewRouter => Shape /\ Room /\ ForwardedRight
  BY InitShape, InitRoom
<1>2. Shape /\ Room /\ ForwardedRight /\ [Next]_vars => (Shape /\ Room /\ ForwardedRight)'
  BY StepShape, StepRoom, StepForwarded
<1>3. QED
  BY <1>1, <1>2, PTL DEF Spec

\* A packet is written only to consumers of its producer, however the peers' calls,
\* the workers and Router.Close interleave, as long as getNextId has given the
\* numbers of the two out once in the room.
THEOREM OwnConsumersOnly == Spec => []ForwardedRight
BY PlacesInvariant, PTL

\* Consumers stay reachable from their producers while any number of peers produce
\* and consume in the room and until Router.Close drops the lists: the router's maps
\* lose a consumer only to one that was given the same number, and a list loses it
\* only when another AddConsumer for the same producer came between its reading of
\* the list and its writing it back, or read in that gap.
THEOREM ConsumersStayReachable == Spec => []ConsumersReachable
<1>1. Shape /\ Room => ConsumersReachable
  <2> DEFINE Reached(n, c, p) ==
               /\ ownConsumer(c) => consumers[n] = c
               /\ ownProducer(p) =>
                    /\ producers[p[2]] = p
                    /\ c \notin refused \cup overlap =>
                         \E i \in 1 .. Len(fwd[p[2]]) : fwd[p[2]][i] = n
  <2> SUFFICES ASSUME Shape, Room, stage < 3, NEW t \in Transports, NEW n \in tConsumers[t]
               PROVE  Reached(n, <<t, n>>, cProducer[<<t, n>>])
    BY Zenon DEF ConsumersReachable
  <2> DEFINE c == <<t, n>>
             p == cProducer[c]
  <2>1. n \in Ids
    BY DEF Shape, TypeOK, TransportOK
  <2>2. c \in Objects /\ c[1] = t /\ c[2] = n
    BY <2>1, ObjectFacts
  <2>3. p # None /\ p \in Objects /\ ~(consuming(t) /\ call[t].id = n)
    BY <2>2 DEF Room, Places, SidesFit, Shape, TypeOK, ConsumerOK
  <2>4. ~unstored(c) /\ ~unlisted(c)
    BY <2>2, <2>3 DEF unstored, unlisted, consuming
  <2>5. ownConsumer(c) => consumers[n] = c
    BY <2>2, <2>3, <2>4 DEF Room, InConsumers
  <2>6. ownProducer(p) => producers[p[2]] = p
    BY <2>2, <2>3 DEF Room, InProducers
  <2>7. ownProducer(p) /\ c \notin refused \cup overlap => Settled(p[2], n)
    BY <2>2, <2>3, <2>4 DEF Room, InList
  <2> HIDE DEF c, p
  <2>8. ownProducer(p) /\ c \notin refused \cup overlap =>
          \E i \in 1 .. Len(fwd[p[2]]) : fwd[p[2]][i] = n
    BY <2>7 DEF Settled, names
  <2>9. Reached(n, c, p)
    BY <2>5, <2>6, <2>8
  <2>10. QED
    BY <2>9 DEF c, p
<1>2. QED
  BY <1>1, PlacesInvariant, PTL
=============================================================================
