------------------------------- MODULE Router -------------------------------
(***************************************************************************)
(* A room of the SFU: a router (pkg/rtc/router.go), its WebRTC transports  *)
(* (webrtc_transport.go) and their producers and consumers (producer.go,   *)
(* consumer.go), from creation to the end of their goroutines.             *)
(*                                                                         *)
(* A transport is driven by its peer's goroutine (Produce, Consume, cut    *)
(* between their steps), and closed by that goroutine, by the ICE callback *)
(* or by Router.Close; each producer has a read worker that forwards its   *)
(* packets, each consumer two RTCP workers.  None of the maps they share   *)
(* has a lock.                                                             *)
(*                                                                         *)
(* A producer or consumer is the pair of its transport and its number; the *)
(* router's maps know it by the number alone.  A Go map that was set to    *)
(* nil panics when written.  The panic is recovered by net/http, which     *)
(* runs the session: the session is over (its calls are "gone"), and what  *)
(* it had started goes on.  A map that is written while another goroutine  *)
(* uses it may stop the process (fatal), which nothing recovers.           *)
(***************************************************************************)
EXTENDS Integers, Sequences, FiniteSets

CONSTANTS Producing,    \* transports whose peers call Produce
          Consuming,    \* transports whose peers call Consume
          Closers,      \* who calls WebRTCTransport.Close: the peer's goroutine
                        \* ("api"), the ICE callback ("ice"), Router.Close ("router")
          Pausing,      \* whether producers and consumers are ever paused
          MaxProducers, \* bound on the producers of a transport
          MaxConsumers, \* bound on the consumer numbers of a transport
          MaxInRoom     \* bound on the consumers made in the room

Transports == Producing \cup Consuming

ASSUME RouterConstants == /\ MaxProducers \in Nat /\ MaxConsumers \in Nat /\ MaxInRoom \in Nat
                          /\ Closers \subseteq {"ice", "api", "router"} /\ Pausing \in BOOLEAN

Ids == 1 .. IF MaxProducers > MaxConsumers THEN MaxProducers ELSE MaxConsumers
Objects == Transports \X Ids
None == <<>>
NoCall == [pc |-> "idle", id |-> 0, producer |-> None, list |-> <<>>]
GoneCall == [NoCall EXCEPT !.pc = "gone"]

VARIABLES
    \* the router
    stage,            \* how far Router.Close has come: 0 not called, 1 in the loop
                      \* over the transports, and from 2 to 5 the maps of transports,
                      \* lists, consumers and producers are nil, one after another
    producers,        \* producers: number -> producer
    consumers,        \* consumers: number -> consumer
    fwd,              \* producerIdToConsumerIdsMap
    \* the transports
    ice,              \* "none", "new", "connected" or "stopped"
    tClosed,          \* WebRTCTransport.closed
    tNil,             \* WebRTCTransport.producers and consumers are nil
    tProducers, tConsumers,
    lastId,           \* idsMap, for producers and for consumers
    call,             \* the Produce or Consume in progress
    closer,           \* the calls of Close in progress
    \* producers and consumers
    pClosed, pPaused,
    bufClosed,        \* the producer's buffer is closed
    worker,           \* readRTPWorker
    queue,            \* consumer numbers the worker has still to serve
    cProducer,        \* the producer a consumer was made for
    cClosed, cPaused,
    cWorkers,         \* the RTCP workers of a consumer that run
    \* what happened
    out,              \* the consumer the last step wrote a packet to
    closes,           \* history: how often a producer's closeCh was closed
    lateProducers,    \* history: producers whose Produce ended after the transport
                      \* was marked closed
    lateConsumers,    \* history: consumers whose Consume ended so, or in a panic
    refused,          \* history: consumers whose Consume returned an error
    overlap,          \* history: consumers that were appended to a list while
                      \* another one was
    fatal             \* the process has stopped

routerVars == <<stage, producers, consumers, fwd>>
transportVars == <<ice, tClosed, tNil, tProducers, tConsumers, lastId, call, closer>>
producerVars == <<pClosed, pPaused, bufClosed, worker, queue, closes>>
consumerVars == <<cProducer, cClosed, cPaused, cWorkers>>
late == <<lateProducers, lateConsumers>>
listing == <<refused, overlap>>
vars == <<routerVars, transportVars, producerVars, consumerVars, out, late, listing, fatal>>

Quiet == [from |-> None, to |-> None]

NewRouter ==
    /\ stage = 0
    /\ producers = [n \in Ids |-> None] /\ consumers = [n \in Ids |-> None]
    /\ fwd = [n \in {} |-> <<>>]
    /\ ice = [t \in Transports |-> "none"]
    /\ tClosed = [t \in Transports |-> FALSE] /\ tNil = [t \in Transports |-> FALSE]
    /\ tProducers = [t \in Transports |-> {}] /\ tConsumers = [t \in Transports |-> {}]
    /\ lastId = [t \in Transports |-> [producer |-> 0, consumer |-> 0]]
    /\ call = [t \in Transports |-> NoCall]
    /\ closer = [t \in Transports |-> [k \in Closers |-> "idle"]]
    /\ pClosed = [p \in Objects |-> FALSE] /\ pPaused = [p \in Objects |-> FALSE]
    /\ bufClosed = [p \in Objects |-> FALSE]
    /\ worker = [p \in Objects |-> "none"]
    /\ queue = [p \in Objects |-> <<>>]
    /\ cProducer = [c \in Objects |-> None]
    /\ cClosed = [c \in Objects |-> FALSE] /\ cPaused = [c \in Objects |-> FALSE]
    /\ cWorkers = [c \in Objects |-> {}]
    /\ out = Quiet
    /\ closes = [p \in Objects |-> 0]
    /\ lateProducers = {} /\ lateConsumers = {}
    /\ refused = {} /\ overlap = {}
    /\ fatal = FALSE

\* The peer's goroutine is in none of its calls.
free(t) == /\ call[t].pc = "idle"
           /\ "api" \in Closers => closer[t]["api"] \in {"idle", "done"}

\* A write to a nil map: the panic ends the session that made the call.
Panic(t) == call' = [call EXCEPT ![t] = GoneCall]

-----------------------------------------------------------------------------
(* Transports.                                                             *)

\* A transport that is made while Router.Close loops over the map may or may not
\* be visited by the loop.
NewWebRTCTransport(t) ==
    /\ ice[t] = "none" /\ free(t)
    /\ \/ /\ stage >= 2 /\ Panic(t)
          /\ UNCHANGED <<ice, closer>>
       \/ /\ stage < 2
          /\ ice' = [ice EXCEPT ![t] = "new"]
          /\ \/ closer' = closer
             \/ stage = 1 /\ closer' = [closer EXCEPT ![t]["router"] = "skipped"]
          /\ UNCHANGED call
    /\ out' = Quiet
    /\ UNCHANGED <<routerVars, tClosed, tNil, tProducers, tConsumers, lastId,
                   producerVars, consumerVars, late, listing, fatal>>

\* ICE, DTLS and SCTP start; one of them may fail, and what had started stops.
Connect(t) ==
    /\ ice[t] = "new" /\ free(t)
    /\ \E state \in {"connected", "stopped"} : ice' = [ice EXCEPT ![t] = state]
    /\ out' = Quiet
    /\ UNCHANGED <<routerVars, tClosed, tNil, tProducers, tConsumers, lastId,
                   call, closer, producerVars, consumerVars, late, listing, fatal>>

\* Mutant: Close does not test whether the producer was closed before.
ProducerCloseAgain(ps) ==
    /\ pClosed' = [p \in Objects |-> pClosed[p] \/ p \in ps]
    /\ closes' = [p \in Objects |-> IF p \in ps THEN closes[p] + 1 ELSE closes[p]]
    /\ bufClosed' = [p \in Objects |-> bufClosed[p] \/ p \in ps]

\* Mutant: Close leaves the receiver, and with it the buffer, running.
ProducerCloseOnlyChannel(ps) ==
    /\ pClosed' = [p \in Objects |-> pClosed[p] \/ p \in ps]
    /\ closes' = [p \in Objects |-> IF p \in ps /\ ~pClosed[p] THEN closes[p] + 1
                                                               ELSE closes[p]]
    /\ bufClosed' = bufClosed

\* Producer.Close for the producers in ps: the ones that were open close their
\* channel and stop their receiver, which closes the buffer.
ProducerClose(ps) ==
    /\ pClosed' = [p \in Objects |-> pClosed[p] \/ p \in ps]
    /\ closes' = [p \in Objects |-> IF p \in ps /\ ~pClosed[p] THEN closes[p] + 1
                                                               ELSE closes[p]]
    /\ bufClosed' = [p \in Objects |-> bufClosed[p] \/ (p \in ps /\ ~pClosed[p])]

\* Mutant: the transport does not close its consumers.
ConsumerCloseNone(cs) == cClosed' = cClosed

ConsumerClose(cs) == cClosed' = [c \in Objects |-> cClosed[c] \/ c \in cs]

\* The router's loop is in no transport's Close.
RouterBetween == \A t \in Transports : closer[t]["router"] \notin {"loop", "stop"}

\* Where a Close may begin: the ICE callback on a transport that was connected, the
\* peer when it is in no other call, the router's loop one transport at a time.
MayClose(t, k) ==
    /\ k = "ice" => ice[t] = "connected"
    /\ k = "api" => ice[t] # "none" /\ free(t)
    /\ k = "router" => ice[t] # "none" /\ stage = 1 /\ RouterBetween

\* WebRTCTransport.Close: closed is read and set without a lock, so two
\* goroutines may both go on.
CloseCheck(t, k) ==
    /\ closer[t][k] = "idle"
    /\ MayClose(t, k)
    /\ ~tClosed[t]
    /\ closer' = [closer EXCEPT ![t][k] = "loop"]
    /\ out' = Quiet
    /\ UNCHANGED <<routerVars, ice, tClosed, tNil, tProducers, tConsumers, lastId,
                   call, producerVars, consumerVars, late, listing, fatal>>

CloseLoop(t, k) ==
    /\ closer[t][k] = "loop"
    /\ tClosed' = [tClosed EXCEPT ![t] = TRUE]
    /\ ProducerClose({<<t, n>> : n \in tProducers[t]})
    /\ ConsumerClose({<<t, n>> : n \in tConsumers[t]})
    /\ closer' = [closer EXCEPT ![t][k] = "stop"]
    /\ out' = Quiet
    /\ UNCHANGED <<routerVars, ice, tNil, tProducers, tConsumers, lastId, call,
                   pPaused, worker, queue, cProducer, cPaused, cWorkers, late, listing, fatal>>

CloseStop(t, k) ==
    /\ closer[t][k] = "stop"
    /\ tNil' = [tNil EXCEPT ![t] = TRUE]
    /\ tProducers' = [tProducers EXCEPT ![t] = {}]
    /\ tConsumers' = [tConsumers EXCEPT ![t] = {}]
    /\ ice' = [ice EXCEPT ![t] = "stopped"]
    /\ closer' = [closer EXCEPT ![t][k] = "done"]
    /\ out' = Quiet
    /\ UNCHANGED <<routerVars, tClosed, lastId, call, producerVars, consumerVars,
                   late, listing, fatal>>

RouterStep == /\ out' = Quiet
              /\ UNCHANGED <<ice, tClosed, tNil, tProducers, tConsumers, lastId, call,
                             producerVars, consumerVars, late, listing, fatal>>

\* Router.Close begins; who calls it again returns at once.
RouterClose ==
    /\ "router" \in Closers /\ stage = 0
    /\ stage' = 1
    /\ RouterStep /\ UNCHANGED <<producers, consumers, fwd, closer>>

\* Its loop comes to a transport that was closed before, whose Close returns.
RouterSkip(t) ==
    /\ "router" \in Closers /\ closer[t]["router"] = "idle"
    /\ MayClose(t, "router")
    /\ tClosed[t]
    /\ closer' = [closer EXCEPT ![t]["router"] = "skipped"]
    /\ RouterStep /\ UNCHANGED routerVars

\* After the loop the router's maps are set to nil, one by one.
RouterDrop ==
    /\ stage \in 1 .. 4
    /\ stage = 1 => \A t \in Transports : ice[t] # "none" => closer[t]["router"] \in {"done", "skipped"}
    /\ stage' = stage + 1
    /\ fwd' = IF stage' = 3 THEN [n \in {} |-> <<>>] ELSE fwd
    /\ consumers' = IF stage' = 4 THEN [n \in Ids |-> None] ELSE consumers
    /\ producers' = IF stage' = 5 THEN [n \in Ids |-> None] ELSE producers
    /\ RouterStep /\ UNCHANGED closer

-----------------------------------------------------------------------------
(* WebRTCTransport.Produce.                                                *)

\* Mutant: numbers start at 0.
getNextIdFromZero(t, idtype) == lastId[t][idtype]

getNextId(t, idtype) == lastId[t][idtype] + 1

\* The receiver is set up, which needs a running transport, and the producer
\* gets its number.
ProduceStart(t) ==
    LET n == getNextId(t, "producer")
    IN  /\ t \in Producing /\ free(t)
        /\ ice[t] = "connected"
        /\ n <= MaxProducers
        /\ lastId' = [lastId EXCEPT ![t].producer = n]
        /\ call' = [call EXCEPT ![t] = [NoCall EXCEPT !.pc = "addProducer", !.id = n]]
        /\ out' = Quiet
        /\ UNCHANGED <<routerVars, ice, tClosed, tNil, tProducers, tConsumers,
                       closer, producerVars, consumerVars, late, listing, fatal>>

ProduceStep == UNCHANGED <<ice, tClosed, tNil, tConsumers, lastId, closer, pClosed,
                           pPaused, bufClosed, queue, closes, consumerVars,
                           lateConsumers, listing, fatal>>

\* Router.AddProducer stores the producer; it fails when the factory has no buffer
\* for the producer's SSRC.
AddProducer(t) ==
    LET n == call[t].id
    IN  /\ call[t].pc = "addProducer"
        /\ \/ /\ stage = 5 /\ Panic(t)
              /\ UNCHANGED producers
           \/ /\ call' = [call EXCEPT ![t] = NoCall]
              /\ UNCHANGED producers
           \/ /\ stage < 5
              /\ producers' = [producers EXCEPT ![n] = <<t, n>>]
              /\ call' = [call EXCEPT ![t].pc = "addList"]
        /\ out' = Quiet
        /\ ProduceStep /\ UNCHANGED <<stage, consumers, fwd, tProducers, worker, lateProducers>>

\* ... and then gives it an empty list.
AddList(t) ==
    LET n == call[t].id
    IN  /\ call[t].pc = "addList"
        /\ \/ /\ stage >= 3 /\ Panic(t)
              /\ UNCHANGED fwd
           \/ /\ stage < 3
              /\ fwd' = [m \in DOMAIN fwd \cup {n} |-> IF m = n THEN <<>> ELSE fwd[m]]
              /\ call' = [call EXCEPT ![t].pc = "produced"]
        /\ out' = Quiet
        /\ ProduceStep /\ UNCHANGED <<stage, producers, consumers, tProducers, worker,
                                      lateProducers>>

\* The worker starts, and the transport stores the producer.
ProduceEnd(t) ==
    LET n == call[t].id
    IN  /\ call[t].pc = "produced"
        /\ worker' = [worker EXCEPT ![<<t, n>>] = "select"]
        /\ \/ /\ tNil[t] /\ Panic(t)
              /\ UNCHANGED tProducers
           \/ /\ ~tNil[t]
              /\ tProducers' = [tProducers EXCEPT ![t] = @ \cup {n}]
              /\ call' = [call EXCEPT ![t] = NoCall]
        /\ lateProducers' = lateProducers \cup (IF tClosed[t] THEN {<<t, n>>} ELSE {})
        /\ out' = Quiet
        /\ ProduceStep /\ UNCHANGED routerVars

-----------------------------------------------------------------------------
(* WebRTCTransport.Consume.                                                *)

\* The producer is looked up, the consumer gets its number and starts its
\* workers; the sender may fail to start, and the number is used up.
ConsumeStart(t, producerId, paused) ==
    LET n == getNextId(t, "consumer")
        c == <<t, n>>
    IN  /\ t \in Consuming /\ free(t)
        /\ ice[t] # "none" /\ (paused => Pausing)
        /\ producers[producerId] # None
        /\ n <= MaxConsumers
        /\ lastId' = [lastId EXCEPT ![t].consumer = n]
        /\ \/ /\ Cardinality({d \in Objects : cProducer[d] # None}) < MaxInRoom
              /\ call' = [call EXCEPT ![t] = [NoCall EXCEPT !.pc = "addConsumer",
                            !.id = n, !.producer = producers[producerId]]]
              /\ cProducer' = [cProducer EXCEPT ![c] = producers[producerId]]
              /\ cPaused' = [cPaused EXCEPT ![c] = paused]
              /\ cWorkers' = [cWorkers EXCEPT ![c] = {"read", "write"}]
           \/ UNCHANGED <<call, cProducer, cPaused, cWorkers>>
        /\ out' = Quiet
        /\ UNCHANGED <<routerVars, ice, tClosed, tNil, tProducers, tConsumers,
                       closer, producerVars, cClosed, late, listing, fatal>>

ConsumeStep == /\ out' = Quiet
               /\ UNCHANGED <<stage, producers, ice, tClosed, tNil, tProducers, lastId,
                              closer, producerVars, consumerVars, lateProducers, fatal>>

\* Router.AddConsumer stores the consumer ...
AddConsumer(t) ==
    LET c == <<t, call[t].id>>
    IN  /\ call[t].pc = "addConsumer"
        /\ \/ /\ stage >= 4 /\ Panic(t)
              /\ lateConsumers' = lateConsumers \cup {c}
              /\ UNCHANGED consumers
           \/ /\ stage < 4
              /\ consumers' = [consumers EXCEPT ![c[2]] = c]
              /\ call' = [call EXCEPT ![t].pc = "readList"]
              /\ UNCHANGED lateConsumers
        /\ ConsumeStep /\ UNCHANGED <<fwd, tConsumers, listing>>

\* Mutant: the number is put in the place of the others.
appendedAlone(list, id) == <<id>>

\* Mutant: the number that is appended is the next one.
appendedNext(list, id) == Append(list, IF id + 1 \in Ids THEN id + 1 ELSE 1)

appended(list, id) == Append(list, id)

\* The other calls that are about to write back a list of the same producer number.
\* Those that read the same list may share its memory.
appending(t) == {u \in Transports \ {t} :
                    /\ call[u].pc = "append"
                    /\ call[u].producer[2] = call[t].producer[2]}
sharing(t, list) == {u \in appending(t) : \E m \in Ids : call[u].list = appended(list, m)}

\* ... reads the producer's list and appends the consumer's number to it, in memory
\* that another call's list may share ...
ReadList(t) ==
    LET x == call[t]
        key == x.producer[2]
        list == appended(fwd[key], x.id)
    IN  /\ x.pc = "readList"
        /\ \/ /\ key \notin DOMAIN fwd
              /\ call' = [call EXCEPT ![t].pc = "consumed"]
              /\ refused' = refused \cup {<<t, x.id>>}
              /\ UNCHANGED overlap
           \/ /\ key \in DOMAIN fwd
              /\ \E same \in {{}, sharing(t, fwd[key])} :
                   call' = [u \in Transports |->
                              CASE u = t -> [x EXCEPT !.pc = "append", !.list = list]
                                [] u \in same -> [call[u] EXCEPT !.list = list]
                                [] OTHER -> call[u]]
              /\ overlap' = overlap \cup (IF appending(t) = {} THEN {} ELSE
                              {<<u, call[u].id>> : u \in appending(t) \cup {t}})
              /\ UNCHANGED refused
        /\ ConsumeStep /\ UNCHANGED <<consumers, fwd, tConsumers, lateConsumers>>

\* ... and writes the list back.
AppendConsumer(t) ==
    LET x == call[t]
    IN  /\ x.pc = "append"
        /\ \/ /\ stage >= 3 /\ Panic(t)
              /\ lateConsumers' = lateConsumers \cup {<<t, x.id>>}
              /\ UNCHANGED fwd
           \/ /\ stage < 3
              /\ fwd' = [fwd EXCEPT ![x.producer[2]] = x.list]
              /\ call' = [call EXCEPT ![t].pc = "consumed"]
              /\ UNCHANGED lateConsumers
        /\ ConsumeStep /\ UNCHANGED <<consumers, tConsumers, listing>>

\* The transport stores the consumer, whether or not AddConsumer returned an error.
ConsumeEnd(t) ==
    LET n == call[t].id
    IN  /\ call[t].pc = "consumed"
        /\ \/ /\ tNil[t] /\ Panic(t)
              /\ UNCHANGED tConsumers
           \/ /\ ~tNil[t]
              /\ tConsumers' = [tConsumers EXCEPT ![t] = @ \cup {n}]
              /\ call' = [call EXCEPT ![t] = NoCall]
        /\ lateConsumers' = lateConsumers \cup (IF tClosed[t] THEN {<<t, n>>} ELSE {})
        /\ ConsumeStep /\ UNCHANGED <<consumers, fwd, listing>>

-----------------------------------------------------------------------------
(* The goroutines of producers and consumers, and pausing them.            *)

WorkerStep == UNCHANGED <<routerVars, transportVars, pPaused, consumerVars, late, listing, fatal>>

WorkerSelect(p) ==
    /\ worker[p] = "select"
    /\ worker' = [worker EXCEPT ![p] = IF pClosed[p] THEN "done" ELSE "read"]
    /\ out' = Quiet
    /\ WorkerStep /\ UNCHANGED <<pClosed, bufClosed, queue, closes>>

\* ReadExtended returns io.EOF: the worker ends and closes its producer.
WorkerEOF(p) ==
    /\ worker[p] = "read" /\ bufClosed[p]
    /\ worker' = [worker EXCEPT ![p] = "done"]
    /\ ProducerClose({p})
    /\ out' = Quiet
    /\ WorkerStep /\ UNCHANGED queue

\* ReadExtended returns a packet: a paused producer drops it, else OnRTPPacket
\* reads the list of the producer's number.
WorkerPacket(p) ==
    /\ worker[p] = "read" /\ ~bufClosed[p]
    /\ IF pPaused[p] \/ p[2] \notin DOMAIN fwd
         THEN /\ worker' = [worker EXCEPT ![p] = "select"]
              /\ queue' = queue
         ELSE /\ worker' = [worker EXCEPT ![p] = "forward"]
              /\ queue' = [queue EXCEPT ![p] = fwd[p[2]]]
    /\ out' = Quiet
    /\ WorkerStep /\ UNCHANGED <<pClosed, bufClosed, closes>>

\* The next consumer of the loop of OnRTPPacket; a number without a consumer
\* ends the loop.
hasNext(p) == IF queue[p] = <<>> THEN FALSE ELSE consumers[Head(queue[p])] # None

Forward(p) ==
    /\ worker[p] = "forward"
    /\ \/ /\ hasNext(p)
          /\ LET c == consumers[Head(queue[p])]
             IN  out' = IF cPaused[c] THEN Quiet ELSE [from |-> p, to |-> c]
          /\ queue' = [queue EXCEPT ![p] = Tail(@)]
          /\ worker' = worker
       \/ /\ ~hasNext(p)
          /\ out' = Quiet
          /\ queue' = [queue EXCEPT ![p] = <<>>]
          /\ worker' = [worker EXCEPT ![p] = "select"]
    /\ WorkerStep /\ UNCHANGED <<pClosed, bufClosed, closes>>

Pause(p, value) ==
    /\ Pausing /\ worker[p] # "none" /\ ~pClosed[p] /\ pPaused[p] # value
    /\ pPaused' = [pPaused EXCEPT ![p] = value]
    /\ out' = Quiet
    /\ UNCHANGED <<routerVars, transportVars, pClosed, bufClosed, worker, queue,
                   closes, consumerVars, late, listing, fatal>>

\* Consumer.Pause and Consumer.Resume.
ConsumerToggle(c) ==
    /\ Pausing /\ cProducer[c] # None
    /\ cPaused' = [cPaused EXCEPT ![c] = ~@]
    /\ out' = Quiet
    /\ UNCHANGED <<routerVars, transportVars, producerVars, cProducer, cClosed,
                   cWorkers, late, listing, fatal>>

\* rtcpReadWorker and rtcpWriteWorker come round to closeCh after every read
\* and every five seconds.
ConsumerWorkerEnd(c, w) ==
    /\ w \in cWorkers[c] /\ cClosed[c]
    /\ cWorkers' = [cWorkers EXCEPT ![c] = @ \ {w}]
    /\ out' = Quiet
    /\ UNCHANGED <<routerVars, transportVars, producerVars, cProducer, cClosed,
                   cPaused, late, listing, fatal>>

\* A read or a write on a transport that has stopped fails, and the worker ends.
ConsumerWorkerFails(c, w) ==
    /\ w \in cWorkers[c] /\ ice[c[1]] = "stopped"
    /\ cWorkers' = [cWorkers EXCEPT ![c] = @ \ {w}]
    /\ out' = Quiet
    /\ UNCHANGED <<routerVars, transportVars, producerVars, cProducer, cClosed,
                   cPaused, late, listing, fatal>>

\* A peer's goroutine is about to use the router's maps, or may be.
UsesRouter(t) ==
    \/ call[t].pc \in {"addProducer", "addList", "addConsumer", "readList", "append"}
    \/ t \in Consuming /\ ice[t] # "none" /\ free(t)

\* One goroutine is about to write a map that another is about to use: a map of the
\* router that a call or a worker uses, or a map over which Close loops.
MapRace ==
    /\ \E t \in Transports :
         \/ /\ call[t].pc \in {"addProducer", "addList", "addConsumer", "append"}
            /\ \/ \E p \in Objects : worker[p] \in {"read", "forward"}
               \/ \E u \in Transports \ {t} : UsesRouter(u)
         \/ ice[t] = "none" /\ stage = 1
         \/ /\ call[t].pc \in {"produced", "consumed"}
            /\ \E k \in Closers : closer[t][k] = "loop"
    /\ fatal' = TRUE
    /\ out' = Quiet
    /\ UNCHANGED <<routerVars, transportVars, producerVars, consumerVars, late, listing>>

Work(p) == WorkerSelect(p) \/ WorkerEOF(p) \/ Forward(p)

Next ==
    /\ ~fatal
    /\ \/ \E t \in Transports :
            \/ NewWebRTCTransport(t) \/ Connect(t)
            \/ ProduceStart(t) \/ AddProducer(t) \/ AddList(t) \/ ProduceEnd(t)
            \/ \E n \in Ids, paused \in BOOLEAN : ConsumeStart(t, n, paused)
            \/ AddConsumer(t) \/ ReadList(t) \/ AppendConsumer(t) \/ ConsumeEnd(t)
            \/ \E k \in Closers : CloseCheck(t, k) \/ CloseLoop(t, k) \/ CloseStop(t, k)
            \/ RouterSkip(t)
       \/ RouterClose \/ RouterDrop
       \/ \E p \in Objects : \/ Work(p) \/ WorkerPacket(p)
                             \/ \E value \in BOOLEAN : Pause(p, value)
       \/ \E c \in Objects : \/ ConsumerToggle(c)
                             \/ \E w \in {"read", "write"} :
                                  ConsumerWorkerEnd(c, w) \/ ConsumerWorkerFails(c, w)
       \/ MapRace

\* The Go scheduler runs every goroutine that can run.  Nothing is assumed of
\* the arrival of packets, of the peers or of the ICE callback.
Fairness ==
    /\ \A p \in Objects : WF_vars(~fatal /\ Work(p))
    /\ \A c \in Objects, w \in {"read", "write"} :
         WF_vars(~fatal /\ ConsumerWorkerEnd(c, w))

Spec == NewRouter /\ [][Next]_vars /\ Fairness

-----------------------------------------------------------------------------
Call == [pc : {"idle", "addProducer", "addList", "produced", "addConsumer", "readList",
               "append", "consumed", "gone"},
         id : {0} \cup Ids, producer : {None} \cup Objects, list : Seq(Ids)]

RouterOK ==
    /\ stage \in 0 .. 5
    /\ producers \in [Ids -> {None} \cup Objects] /\ consumers \in [Ids -> {None} \cup Objects]
    /\ \A n \in Ids : /\ producers[n] # None => producers[n][2] = n
                      /\ consumers[n] # None => consumers[n][2] = n
    /\ DOMAIN fwd \subseteq Ids /\ \A n \in DOMAIN fwd : fwd[n] \in Seq(Ids)

TransportOK ==
    /\ ice \in [Transports -> {"none", "new", "connected", "stopped"}]
    /\ tClosed \in [Transports -> BOOLEAN] /\ tNil \in [Transports -> BOOLEAN]
    /\ tProducers \in [Transports -> SUBSET Ids] /\ tConsumers \in [Transports -> SUBSET Ids]
    /\ lastId \in [Transports -> [producer : 0 .. MaxProducers, consumer : 0 .. MaxConsumers]]
    /\ call \in [Transports -> Call]
    /\ closer \in [Transports -> [Closers -> {"idle", "loop", "stop", "done", "skipped"}]]

ProducerOK ==
    /\ pClosed \in [Objects -> BOOLEAN] /\ pPaused \in [Objects -> BOOLEAN]
    /\ bufClosed \in [Objects -> BOOLEAN]
    /\ worker \in [Objects -> {"none", "select", "read", "forward", "done"}]
    /\ queue \in [Objects -> Seq(Ids)]
    /\ closes \in [Objects -> Nat]

ConsumerOK ==
    /\ cProducer \in [Objects -> {None} \cup Objects]
    /\ cClosed \in [Objects -> BOOLEAN] /\ cPaused \in [Objects -> BOOLEAN]
    /\ cWorkers \in [Objects -> SUBSET {"read", "write"}]

\* The shape of the state; the router's maps hold only producers and consumers
\* of their number.
TypeOK == /\ RouterOK /\ TransportOK /\ ProducerOK /\ ConsumerOK
          /\ lateProducers \subseteq Objects /\ lateConsumers \subseteq Objects
          /\ refused \subseteq Objects /\ overlap \subseteq Objects
          /\ fatal \in BOOLEAN

\* "all the data for same room can be forwarded to associated to and from
\* consumer and producer respectively" (router.go 15-17): a packet is written
\* only to consumers that were made for its producer.
NoCrossTalk == out.to # None => cProducer[out.to] = out.from

\* No other transport has given the number of this producer, or consumer, to one
\* of its own (getNextId counts per transport).
ownProducer(p) == \A t \in Producing \ {p[1]} : lastId[t].producer < p[2]
ownConsumer(c) == \A t \in Consuming \ {c[1]} : lastId[t].consumer < c[2]

\* A packet is written only to consumers that were made for its producer, unless
\* the number of one of the two was given out twice.
ForwardedRight ==
    out.to # None /\ ownProducer(out.from) /\ ownConsumer(out.to) =>
        cProducer[out.to] = out.from

\* A consumer whose Consume returned is reached from its producer through the
\* router's maps until Router.Close drops them: whatever the order of the peers'
\* calls, only a number that was given out twice takes its place in a map, and
\* only an AddConsumer for the same producer at the same moment its place in the
\* list.
ConsumersReachable ==
    stage < 3 =>
        \A t \in Transports : \A n \in tConsumers[t] :
            LET c == <<t, n>>
                p == cProducer[c]
            IN  /\ ownConsumer(c) => consumers[n] = c
                /\ ownProducer(p) =>
                     /\ producers[p[2]] = p
                     /\ c \notin refused \cup overlap =>
                          \E i \in 1 .. Len(fwd[p[2]]) : fwd[p[2]][i] = n

\* Whichever of the peer, the ICE callback, the router and the read worker
\* close a producer, and in whatever order, its channel is closed once (closing
\* it again panics).
ClosedOnce == \A p \in Objects : closes[p] <= 1

\* Close leaves no producer or consumer of the transport running and open, but
\* those whose Produce or Consume met a transport or a router that was being
\* closed, a panic over a nil map included.  To a producer that happens only when
\* the ICE callback or the router closed its transport, never the peer.
NoOrphans ==
    /\ \A t \in Transports : tNil[t] => \A n \in Ids :
         /\ worker[<<t, n>>] # "none" => pClosed[<<t, n>>] \/ <<t, n>> \in lateProducers
         /\ cWorkers[<<t, n>>] # {} =>
              \/ cClosed[<<t, n>>] \/ <<t, n>> \in lateConsumers
              \/ call[t].pc # "idle" /\ call[t].id = n
    /\ \A p \in lateProducers :
         \E k \in Closers \ {"api"} : closer[p[1]][k] \in {"stop", "done"}

\* A closed producer's read worker and a closed consumer's RTCP workers end,
\* even when no further packet arrives.
WorkersEnd ==
    /\ \A p \in Objects : pClosed[p] ~> (fatal \/ worker[p] \in {"none", "done"})
    /\ \A c \in Objects : cClosed[c] ~> (fatal \/ cWorkers[c] = {})
=============================================================================
