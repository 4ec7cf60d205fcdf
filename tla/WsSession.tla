------------------------------ MODULE WsSession ------------------------------
(***************************************************************************)
(* The signalling server (cmd/ws.go, room.go, peer.go): one goroutine per  *)
(* WebSocket reads a request, lets the room handle it and waits on errCh   *)
(* for the result of the reply before it reads the next.                   *)
(*                                                                         *)
(* The room answers through a callback, which writes the reply and then    *)
(* sends on errCh, a channel with room for one value.  How often a handler *)
(* calls it decides whether the session goes on.                           *)
(*                                                                         *)
(* A peer is reduced to what its handlers test: which transports, which    *)
(* producers and which consumers it has.                                   *)
(***************************************************************************)
EXTENDS Integers, Sequences

CONSTANTS Sessions,     \* WebSocket connections, all to one room
          PeerIds,      \* peer ids the clients connect with
          Methods,      \* message types each client sends
          MaxPeers      \* bound on the peers made

\* MessageType; "unknown" is any other number.
MessageType == {"JoinRoom", "LeaveRoom", "GetRouterCapability", "CreateTransport",
                "CloseTransport", "ConnectTransport", "Produce", "ProduceData",
                "ProducerToggle", "CloseProducer", "Consume", "ConsumeData",
                "ConsumerResume", "ConsumerPause", "unknown"}

ASSUME WsConstants == Methods \in [Sessions -> SUBSET MessageType] /\ MaxPeers \in Nat

VARIABLES peers,        \* Room.peers: id -> peer, 0 for none
          peer,         \* the peers made: id and what they have
          session       \* per connection: its peer, its request and errCh

vars == <<peers, peer, session>>

Things == {"producingTransport", "consumingTransport", "producer", "consumer"}

\* How the handling of a request ends: its payload cannot be parsed, or the peer
\* lacks what it needs or its transport refuses, or the handler panics.
Outcome == {"ok", "malformed", "refused", "panic"}

\* method is "none" before the first request and "done" between requests.
NoSession == [pc |-> "closed", peer |-> 0, method |-> "none", outcome |-> "ok",
              calls |-> 0, errCh |-> {}, replies |-> 0]

Init == /\ peers = [id \in PeerIds |-> 0]
        /\ peer = <<>>
        /\ session = [s \in Sessions |-> NoSession]

NewPeer(id) == [id |-> id, has |-> {}]

\* AddPeer and JoinRoom: a new peer takes the place of the one the room has
\* under the id.  (Peer.Close on that one sets a flag that nothing reads.)
replacePeer(id) ==
    /\ Len(peer) < MaxPeers
    /\ peer' = Append(peer, NewPeer(id))
    /\ peers' = [peers EXCEPT ![id] = Len(peer) + 1]

\* The peer a connection is opened with is a new one.
AddPeer(id) == replacePeer(id)

\* ServeHTTP up to its loop.
ServeHTTP(s, id) ==
    /\ session[s].pc = "closed" /\ session[s].peer = 0
    /\ AddPeer(id)
    /\ session' = [session EXCEPT ![s].pc = "read", ![s].peer = peers'[id]]

-----------------------------------------------------------------------------
(* HandleIncomingMessage.                                                  *)

\* The handlers without a body and the messages without a handler.
Silent == {"LeaveRoom", "CloseProducer", "ConsumerPause", "unknown"}

\* What the peer must have for a request to succeed, and what it then gets.
Needs(m) == CASE m \in {"Produce", "ProduceData"} -> {"producingTransport"}
              [] m = "ProducerToggle" -> {"producer"}
              [] m = "Consume" -> {"producer", "consumingTransport"}
              [] m = "ConsumeData" -> {"consumingTransport"}
              [] m = "ConsumerResume" -> {"consumer"}
              [] OTHER -> {}

Gains(m) == CASE m = "CreateTransport" -> {{"producingTransport"}, {"consumingTransport"}}
              [] m = "Produce" -> {{"producer"}}
              [] m = "Consume" -> {{"consumer"}}
              [] OTHER -> {{}}

hasTransport(has) == has \cap {"producingTransport", "consumingTransport"} # {}

possible(m, has) == /\ Needs(m) \subseteq has
                    /\ m \in {"ConnectTransport", "CloseTransport"} => hasTransport(has)

\* Mutant: no error is followed by a return.
callbacksNoReturn(m, outcome) == IF m \in Silent THEN 0 ELSE IF outcome # "ok" THEN 2 ELSE 1

\* How often the handler calls back: when ConnectTransport is refused, the error
\* is not followed by a return.
callbacks(m, outcome) == IF m \in Silent THEN 0
                         ELSE IF m = "ConnectTransport" /\ outcome = "refused" THEN 2
                         ELSE 1

\* The messages whose payload is not parsed, and which nothing can refuse.
NoPayload == Silent \cup {"GetRouterCapability"}

\* The requests that may end in a panic, which net/http recovers: the session is
\* over without a reply.  A transport that the client or the ICE callback closed has
\* no maps to store a producer or consumer in (see Router); a ConsumeData that is
\* not refused always panics (see DataChannels).
Panics == {"Produce", "Consume", "ConsumeData"}

HandleIncomingMessage(s, m, outcome) ==
    LET has == peer[session[s].peer].has
    IN  /\ session[s].pc = "read"
        /\ session' = [session EXCEPT ![s].pc = IF outcome = "panic" THEN "closed" ELSE "handle",
                         ![s].method = m,
                         ![s].outcome = outcome, ![s].calls = callbacks(m, outcome),
                         ![s].replies = 0]
        /\ \/ /\ outcome \in {"malformed", "refused"} /\ m \notin NoPayload
              /\ m = "JoinRoom" => outcome = "malformed"
              /\ UNCHANGED <<peers, peer>>
           \/ /\ outcome = "panic" /\ m \in Panics /\ possible(m, has)
              /\ UNCHANGED <<peers, peer>>
           \/ /\ outcome = "ok" /\ m \notin {"JoinRoom", "ConsumeData"} /\ possible(m, has)
              /\ \E gain \in Gains(m) :
                   peer' = [peer EXCEPT ![session[s].peer].has = @ \cup gain]
              /\ UNCHANGED peers
           \/ /\ outcome = "ok" /\ m = "JoinRoom"
              /\ \E id \in PeerIds : replacePeer(id)

\* Mutant: errCh has room for a second value.
CallbackUnbounded(s, result) ==
    /\ session[s].pc = "handle" /\ session[s].calls > 0
    /\ session' = [session EXCEPT ![s].calls = @ - 1, ![s].errCh = @ \cup {result},
                                  ![s].replies = @ + 1]
    /\ UNCHANGED <<peers, peer>>

\* cb: the reply is written, then its result is sent on errCh.  With a result in
\* it already the send blocks, for good: the receive comes after the handler.
Callback(s, result) ==
    LET r == session[s]
    IN  /\ r.pc = "handle" /\ r.calls > 0
        /\ session' = IF r.errCh = {}
                        THEN [session EXCEPT ![s].calls = r.calls - 1, ![s].errCh = {result},
                                             ![s].replies = r.replies + 1]
                        ELSE [session EXCEPT ![s].pc = "blocked", ![s].replies = r.replies + 1]
        /\ UNCHANGED <<peers, peer>>

\* The handler has returned and handle receives from errCh; an error ends the
\* session.
Return(s) ==
    /\ session[s].pc = "handle" /\ session[s].calls = 0
    /\ \E result \in session[s].errCh :
         session' = [session EXCEPT ![s].errCh = {}, ![s].method = "done", ![s].outcome = "ok",
                       ![s].pc = IF result = "ok" THEN "read" ELSE "closed"]
    /\ UNCHANGED <<peers, peer>>

\* wsjson.Read fails: the client is gone.
Disconnect(s) ==
    /\ session[s].pc = "read"
    /\ session' = [session EXCEPT ![s].pc = "closed"]
    /\ UNCHANGED <<peers, peer>>

Next == \E s \in Sessions :
          \/ \E id \in PeerIds : ServeHTTP(s, id)
          \/ \E m \in Methods[s], outcome \in Outcome : HandleIncomingMessage(s, m, outcome)
          \/ \E result \in {"ok", "error"} : Callback(s, result)
          \/ Return(s) \/ Disconnect(s)

\* A request that was read is handled; nothing is assumed of the clients.
Fairness == \A s \in Sessions :
    /\ WF_vars(\E result \in {"ok", "error"} : Callback(s, result))
    /\ WF_vars(Return(s))

Spec == Init /\ [][Next]_vars /\ Fairness

-----------------------------------------------------------------------------
\* The shape of peers and sessions.
TypeOK ==
    /\ peer \in Seq([id : PeerIds, has : SUBSET Things]) /\ Len(peer) <= MaxPeers
    /\ peers \in [PeerIds -> 0 .. Len(peer)]
    /\ session \in [Sessions -> [pc : {"closed", "read", "handle", "blocked"},
                                 peer : 0 .. Len(peer),
                                 method : MessageType \cup {"none", "done"},
                                 outcome : Outcome, calls : 0 .. 2,
                                 errCh : {{}, {"ok"}, {"error"}}, replies : 0 .. 2]]

\* The reply to a request has been written exactly once when the session takes
\* the next request, whatever the handler did before.
OneReply ==
    \A s \in Sessions : session[s].pc = "read" /\ session[s].method = "done" =>
                            session[s].replies = 1 /\ session[s].errCh = {}

\* Every request ends, and with it the wait on errCh, except for the message
\* types no handler answers and for a ConnectTransport that is refused: its second
\* callback blocks.
RequestsEnd ==
    \A s \in Sessions :
        (session[s].pc = "handle" /\ session[s].method \notin Silent
           /\ ~(session[s].method = "ConnectTransport" /\ session[s].outcome = "refused"))
            ~> session[s].pc \in {"read", "closed"}
=============================================================================
