--------------------------- MODULE WsSessionProofs ---------------------------
(***************************************************************************)
(* Proofs about WsSession, for any connections, peer ids and messages: a   *)
(* session takes its next request only after one reply.                    *)
(***************************************************************************)
EXTENDS WsSession, TLAPS

\* What a session satisfies by itself.  One that was never served is as it was at
\* first.  While a request is handled, errCh holds the result of the one reply
\* that was written, or nothing was written yet; between requests errCh is empty,
\* and one reply was written to the request before.
Sound(r) == /\ r.peer = 0 => r.pc = "closed" /\ r.method = "none" /\ r.errCh = {}
            /\ r.pc = "handle" => \/ r.errCh = {} /\ r.replies = 0
                                  \/ r.errCh # {} /\ r.replies = 1
            /\ r.pc = "read" => r.errCh = {}
            /\ r.pc = "read" /\ r.method = "done" => r.replies = 1

IInv == /\ TypeOK
        /\ \A s \in Sessions : Sound(session[s])

\* The sets of TypeOK.
Peer == [id : PeerIds, has : SUBSET Things]
Session(n) == [pc : {"closed", "read", "handle", "blocked"}, peer : 0 .. n,
               method : MessageType \cup {"none", "done"}, outcome : Outcome,
               calls : 0 .. 2, errCh : {{}, {"ok"}, {"error"}}, replies : 0 .. 2]

\* No peer is lost or moved in the room's list.
PeersGrow == /\ peer' \in Seq(Peer) /\ Len(peer) <= Len(peer') /\ Len(peer') <= MaxPeers
             /\ peers' \in [PeerIds -> 0 .. Len(peer')]

-----------------------------------------------------------------------------
\* Each field of a session may take any value of its set.
LEMMA SessionFields ==
    ASSUME NEW n \in Nat, NEW x \in Session(n)
    PROVE  /\ \A v \in {"closed", "read", "handle", "blocked"} : [x EXCEPT !.pc = v] \in Session(n)
           /\ \A v \in MessageType : [x EXCEPT !.method = v] \in Session(n)
           /\ \A v \in Outcome : [x EXCEPT !.outcome = v] \in Session(n)
           /\ \A v \in 0 .. 2 : [x EXCEPT !.calls = v] \in Session(n)
           /\ \A v \in {{}, {"ok"}, {"error"}} : [x EXCEPT !.errCh = v] \in Session(n)
           /\ \A v \in 0 .. 2 : [x EXCEPT !.replies = v] \in Session(n)
BY DEF Session

\* A session that has taken a request.
Handled(x, pc, m, outcome, calls) ==
    [x EXCEPT !.pc = pc, !.method = m, !.outcome = outcome, !.calls = calls, !.replies = 0]

\* No reply is written yet when the request is handed to its handler.
LEMMA HandledSession ==
    ASSUME NEW n \in Nat, NEW x \in Session(n), Sound(x), x.pc = "read",
           NEW pc \in {"closed", "handle"}, NEW m \in MessageType,
           NEW outcome \in Outcome, NEW calls \in 0 .. 2
    PROVE  /\ Handled(x, pc, m, outcome, calls) \in Session(n)
           /\ Sound(Handled(x, pc, m, outcome, calls))
           /\ Handled(x, pc, m, outcome, calls).peer = x.peer
<1> DEFINE zero == 0
           y1 == [x EXCEPT !.pc = pc]
           y2 == [y1 EXCEPT !.method = m]
           y3 == [y2 EXCEPT !.outcome = outcome]
           y4 == [y3 EXCEPT !.calls = calls]
           y5 == [y4 EXCEPT !.replies = zero]
<1>1. Handled(x, pc, m, outcome, calls) = y5 /\ zero \in 0 .. 2 /\ zero = 0
  BY DEF Handled
<1> HIDE DEF zero
<1>2. y1 \in Session(n) /\ y1.peer = x.peer /\ y1.pc = pc /\ y1.errCh = x.errCh
  <2>1. y1 \in Session(n)
    BY SessionFields
  <2>2. y1.peer = x.peer /\ y1.pc = pc /\ y1.errCh = x.errCh
    BY DEF Session
  <2>3. QED
    BY <2>1, <2>2
<1> HIDE DEF y1
<1>3. y2 \in Session(n) /\ y2.peer = x.peer /\ y2.pc = pc /\ y2.errCh = x.errCh
  <2>1. y2 \in Session(n)
    BY <1>2, SessionFields
  <2>2. y2.peer = x.peer /\ y2.pc = pc /\ y2.errCh = x.errCh
    BY <1>2 DEF Session
  <2>3. QED
    BY <2>1, <2>2
<1> HIDE DEF y2
<1>4. y3 \in Session(n) /\ y3.peer = x.peer /\ y3.pc = pc /\ y3.errCh = x.errCh
  <2>1. y3 \in Session(n)
    BY <1>3, SessionFields
  <2>2. y3.peer = x.peer /\ y3.pc = pc /\ y3.errCh = x.errCh
    BY <1>3 DEF Session
  <2>3. QED
    BY <2>1, <2>2
<1> HIDE DEF y3
<1>5. y4 \in Session(n) /\ y4.peer = x.peer /\ y4.pc = pc /\ y4.errCh = x.errCh
  <2>1. y4 \in Session(n)
    BY <1>4, SessionFields
  <2>2. y4.peer = x.peer /\ y4.pc = pc /\ y4.errCh = x.errCh
    BY <1>4 DEF Session
  <2>3. QED
    BY <2>1, <2>2
<1> HIDE DEF y4
<1>6. y5 \in Session(n) /\ y5.peer = x.peer /\ y5.pc = pc /\ y5.errCh = x.errCh /\ y5.replies = 0
  <2>1. y5 \in Session(n)
    BY <1>1, <1>5, SessionFields
  <2>2. y5.peer = x.peer /\ y5.pc = pc /\ y5.errCh = x.errCh /\ y5.replies = 0
    BY <1>1, <1>5 DEF Session
  <2>3. QED
    BY <2>1, <2>2
<1> HIDE DEF y5
<1>7. QED
  BY <1>1, <1>6 DEF Sound

\* A callback writes a reply; the first one leaves its result in errCh, and a
\* second one blocks there.
LEMMA CalledBackSession ==
    ASSUME NEW n \in Nat, NEW x \in Session(n), Sound(x), x.pc = "handle", x.calls > 0,
           NEW result \in {"ok", "error"}
    PROVE  /\ x.errCh = {} => \A y :
                y = [x EXCEPT !.calls = x.calls - 1, !.errCh = {result},
                              !.replies = x.replies + 1]
                  => y \in Session(n) /\ Sound(y) /\ y.peer = x.peer
           /\ x.errCh # {} => \A y :
                y = [x EXCEPT !.pc = "blocked", !.replies = x.replies + 1]
                  => y \in Session(n) /\ Sound(y) /\ y.peer = x.peer
<1>1. ASSUME x.errCh = {}, NEW y,
             y = [x EXCEPT !.calls = x.calls - 1, !.errCh = {result},
                           !.replies = x.replies + 1]
      PROVE  y \in Session(n) /\ Sound(y) /\ y.peer = x.peer
  <2> DEFINE c == x.calls - 1
             ch == {result}
             y1 == [x EXCEPT !.calls = c]
             y2 == [y1 EXCEPT !.errCh = ch]
             k == x.replies + 1
             y3 == [y2 EXCEPT !.replies = k]
  <2>1. y = y3
    BY <1>1
  <2>2. c \in 0 .. 2 /\ k = 1 /\ k \in 0 .. 2 /\ ch # {} /\ ch \in {{}, {"ok"}, {"error"}}
    BY <1>1 DEF Session, Sound
  <2> HIDE DEF c, ch, k
  <2>3. y1 \in Session(n) /\ y1.peer = x.peer /\ y1.pc = "handle"
    <3>1. y1 \in Session(n)
      BY <2>2, SessionFields
    <3>2. y1.peer = x.peer /\ y1.pc = "handle"
      BY <2>2 DEF Session
    <3>3. QED
      BY <3>1, <3>2
  <2> HIDE DEF y1
  <2>4. y2 \in Session(n) /\ y2.peer = x.peer /\ y2.pc = "handle" /\ y2.errCh = ch
    <3>1. y2 \in Session(n)
      BY <2>2, <2>3, SessionFields
    <3>2. y2.peer = x.peer /\ y2.pc = "handle" /\ y2.errCh = ch
      BY <2>2, <2>3 DEF Session
    <3>3. QED
      BY <3>1, <3>2
  <2> HIDE DEF y2
  <2>5. y3 \in Session(n) /\ y3.peer = x.peer /\ y3.pc = "handle" /\ y3.errCh = ch /\ y3.replies = 1
    <3>1. y3 \in Session(n)
      BY <2>2, <2>4, SessionFields
    <3>2. y3.peer = x.peer /\ y3.pc = "handle" /\ y3.errCh = ch /\ y3.replies = 1
      BY <2>2, <2>4 DEF Session
    <3>3. QED
      BY <3>1, <3>2
  <2> HIDE DEF y3
  <2>6. QED
    BY <2>1, <2>2, <2>5 DEF Sound
<1>2. ASSUME x.errCh # {}, NEW y, y = [x EXCEPT !.pc = "blocked", !.replies = x.replies + 1]
      PROVE  y \in Session(n) /\ Sound(y) /\ y.peer = x.peer
  <2> DEFINE y1 == [x EXCEPT !.pc = "blocked"]
             k == x.replies + 1
             y2 == [y1 EXCEPT !.replies = k]
  <2>1. y = y2
    BY <1>2
  <2>2. k \in 0 .. 2 /\ x.peer # 0
    BY <1>2 DEF Sound
  <2> HIDE DEF k
  <2>3. y1 \in Session(n) /\ y1.peer = x.peer /\ y1.pc = "blocked"
    <3>1. y1 \in Session(n)
      BY SessionFields
    <3>2. y1.peer = x.peer /\ y1.pc = "blocked"
      BY DEF Session
    <3>3. QED
      BY <3>1, <3>2
  <2> HIDE DEF y1
  <2>4. y2 \in Session(n) /\ y2.peer = x.peer /\ y2.pc = "blocked"
    <3>1. y2 \in Session(n)
      BY <2>2, <2>3, SessionFields
    <3>2. y2.peer = x.peer /\ y2.pc = "blocked"
      BY <2>2, <2>3 DEF Session
    <3>3. QED
      BY <3>1, <3>2
  <2> HIDE DEF y2
  <2>5. QED
    BY <2>1, <2>2, <2>4 DEF Sound
<1>3. QED
  BY <1>1, <1>2

\* A step of one session keeps the invariant when the session is sound after it.
LEMMA OwnStep ==
    ASSUME IInv, NEW s \in Sessions, NEW r, PeersGrow,
           session' = [session EXCEPT ![s] = r],
           r \in Session(Len(peer')), Sound(r)
    PROVE  IInv'
<1>a. Len(peer) \in Nat /\ Len(peer') \in Nat
  BY DEF IInv, TypeOK, PeersGrow
<1>b. session \in [Sessions -> Session(Len(peer))]
  BY DEF IInv, TypeOK, Session
<1>1. session \in [Sessions -> Session(Len(peer))] /\ Len(peer) \in Nat /\ Len(peer') \in Nat
  BY <1>a, <1>b
<1>2. session' \in [Sessions -> Session(Len(peer'))]
  <2>1. 0 .. Len(peer) \subseteq 0 .. Len(peer')
    BY <1>1 DEF PeersGrow
  <2>2. ASSUME NEW q \in Session(Len(peer)) PROVE q \in Session(Len(peer'))
    BY <2>1 DEF Session
  <2>3. QED
    BY <1>1, <2>2
<1>3. TypeOK'
  BY <1>2 DEF IInv, TypeOK, Session, PeersGrow, Peer
<1>4. \A t \in Sessions : Sound(session'[t])
  BY <1>1 DEF IInv
<1>5. QED
  BY <1>3, <1>4 DEF IInv, Sound

\* Nothing happens to the room when its variables stay.
LEMMA SamePeers == IInv /\ UNCHANGED <<peers, peer>> => PeersGrow
BY DEF IInv, TypeOK, PeersGrow, Peer

\* AddPeer and JoinRoom make one peer, and the room names it.
LEMMA ReplacePeerGrows ==
    ASSUME IInv, NEW id \in PeerIds, replacePeer(id)
    PROVE  /\ PeersGrow /\ Len(peer') = Len(peer) + 1
           /\ peers'[id] = Len(peer) + 1
<1>1. peer \in Seq(Peer) /\ Len(peer) \in Nat /\ peers \in [PeerIds -> 0 .. Len(peer)]
  BY DEF IInv, TypeOK, Peer
<1>2. NewPeer(id) \in Peer
  BY DEF NewPeer, Peer, Things
<1>3. peer' \in Seq(Peer) /\ Len(peer') = Len(peer) + 1
  BY <1>1, <1>2 DEF replacePeer
<1>4. Len(peer') <= MaxPeers
  BY <1>1, <1>3, WsConstants DEF replacePeer
<1>5. peers' \in [PeerIds -> 0 .. Len(peer')] /\ peers'[id] = Len(peer) + 1
  BY <1>1, <1>3 DEF replacePeer
<1>6. QED
  BY <1>1, <1>3, <1>4, <1>5 DEF PeersGrow

\* A handler that gives its peer something leaves the list of peers as long as
\* it is.
LEMMA GainGrows ==
    ASSUME IInv, NEW i \in 1 .. Len(peer), NEW m \in MessageType, NEW gain \in Gains(m),
           peer' = [peer EXCEPT ![i].has = @ \cup gain], UNCHANGED peers
    PROVE  PeersGrow
<1>1. peer \in Seq(Peer) /\ Len(peer) \in Nat
  BY DEF IInv, TypeOK, Peer
<1>2. gain \subseteq Things
  BY DEF Gains, Things
<1>3. [peer[i] EXCEPT !.has = @ \cup gain] \in Peer
  <2>1. peer[i] \in Peer
    BY <1>1
  <2>2. QED
    BY <1>2, <2>1 DEF Peer
<1>4. peer' \in Seq(Peer) /\ Len(peer') = Len(peer)
  <2>1. peer' = [peer EXCEPT ![i] = [peer[i] EXCEPT !.has = @ \cup gain]]
    OBVIOUS
  <2>2. QED
    BY <1>1, <1>3, <2>1
<1>5. QED
  BY <1>1, <1>4 DEF IInv, TypeOK, PeersGrow

\* The invariant holds before anybody connects.
LEMMA InitIInv == Init => IInv
<1> SUFFICES ASSUME Init PROVE IInv
  OBVIOUS
<1>1. NoSession \in Session(0) /\ Sound(NoSession)
  BY DEF NoSession, Session, Sound, Outcome
<1>2. Len(peer) = 0 /\ peer \in Seq(Peer)
  BY DEF Init
<1>3. peers \in [PeerIds -> 0 .. 0] /\ session \in [Sessions -> Session(0)]
  BY <1>1 DEF Init
<1>4. TypeOK
  BY <1>2, <1>3, WsConstants DEF TypeOK, Peer, Session
<1>5. \A s \in Sessions : Sound(session[s]) /\ session[s].peer = 0
  BY <1>1 DEF Init, NoSession
<1>6. QED
  BY <1>4, <1>5 DEF IInv

\* Every step keeps the invariant.
LEMMA StepIInv == IInv /\ [Next]_vars => IInv'
<1> SUFFICES ASSUME IInv, [Next]_vars PROVE IInv'
  OBVIOUS
<1>a. Len(peer) \in Nat /\ session \in [Sessions -> Session(Len(peer))]
  <2>1. Len(peer) \in Nat
    BY DEF IInv, TypeOK
  <2>2. session \in [Sessions -> Session(Len(peer))]
    BY DEF IInv, TypeOK, Session
  <2>3. QED
    BY <2>1, <2>2
<1>b. \A s \in Sessions : session[s] \in Session(Len(peer)) /\ Sound(session[s])
  BY <1>a DEF IInv
<1>1. ASSUME NEW s \in Sessions, NEW id \in PeerIds, ServeHTTP(s, id) PROVE IInv'
  <2> DEFINE r == [session[s] EXCEPT !.pc = "read", !.peer = Len(peer) + 1]
  <2>1. PeersGrow /\ Len(peer') = Len(peer) + 1 /\ peers'[id] = Len(peer) + 1
    BY <1>1, ReplacePeerGrows DEF ServeHTTP, AddPeer
  <2>2. session' = [session EXCEPT ![s] = r]
    BY <1>1, <1>a, <2>1 DEF ServeHTTP, Session
  <2>3. r \in Session(Len(peer')) /\ r.peer = Len(peer) + 1
    <3>1. Len(peer) + 1 \in 0 .. Len(peer')
      BY <1>a, <2>1
    <3>2. QED
      BY <1>b, <3>1 DEF Session
  <2>4. Sound(r)
    BY <1>1, <1>a, <1>b DEF ServeHTTP, Sound, Session
  <2> HIDE DEF r
  <2>5. QED
    BY <2>1, <2>2, <2>3, <2>4, OwnStep
<1>2. ASSUME NEW s \in Sessions, NEW m \in Methods[s], NEW outcome \in Outcome,
             HandleIncomingMessage(s, m, outcome)
      PROVE  IInv'
  <2> DEFINE pc == IF outcome = "panic" THEN "closed" ELSE "handle"
             calls == callbacks(m, outcome)
             r == Handled(session[s], pc, m, outcome, calls)
  <2>1. m \in MessageType
    BY WsConstants
  <2>2. session[s].pc = "read" /\ session[s].peer \in 1 .. Len(peer)
    BY <1>2, <1>a, <1>b DEF HandleIncomingMessage, Sound, Session
  <2>3. PeersGrow
    <3>1. CASE UNCHANGED <<peers, peer>>
      BY <3>1, SamePeers
    <3>2. CASE \E id \in PeerIds : replacePeer(id)
      BY <3>2, ReplacePeerGrows
    <3>3. CASE /\ \E gain \in Gains(m) :
                    peer' = [peer EXCEPT ![session[s].peer].has = @ \cup gain]
               /\ UNCHANGED peers
      BY <2>1, <2>2, <3>3, GainGrows
    <3>4. QED
      BY <1>2, <3>1, <3>2, <3>3 DEF HandleIncomingMessage
  <2>4. session' = [session EXCEPT ![s] = r]
    BY <1>2, <1>a DEF HandleIncomingMessage, Session, Handled
  <2>5. r \in Session(Len(peer)) /\ Sound(r) /\ r.peer = session[s].peer
    <3>1. calls \in 0 .. 2 /\ pc \in {"closed", "handle"}
      BY DEF callbacks
    <3>2. session[s] \in Session(Len(peer)) /\ Sound(session[s])
      BY <1>b
    <3> HIDE DEF pc, calls
    <3>3. QED
      BY <1>a, <2>1, <2>2, <3>1, <3>2, HandledSession
  <2> HIDE DEF r
  <2>6. r \in Session(Len(peer'))
    BY <1>a, <2>3, <2>5 DEF PeersGrow, Session
  <2>7. QED
    BY <2>3, <2>4, <2>5, <2>6, OwnStep
<1>3. ASSUME NEW s \in Sessions, NEW result \in {"ok", "error"}, Callback(s, result)
      PROVE  IInv'
  <2> DEFINE x == session[s]
             r == IF x.errCh = {}
                    THEN [x EXCEPT !.calls = x.calls - 1, !.errCh = {result},
                                   !.replies = x.replies + 1]
                    ELSE [x EXCEPT !.pc = "blocked", !.replies = x.replies + 1]
  <2>1. PeersGrow /\ Len(peer') = Len(peer)
    BY <1>3, SamePeers DEF Callback
  <2>2. session' = [session EXCEPT ![s] = r]
    BY <1>3, <1>a DEF Callback, Session
  <2>3. r.peer = x.peer /\ r \in Session(Len(peer)) /\ Sound(r)
    <3>1. x \in Session(Len(peer)) /\ Sound(x) /\ x.pc = "handle" /\ x.calls > 0
      BY <1>3, <1>b DEF Callback
    <3> HIDE DEF x
    <3>2. CASE x.errCh = {}
      BY <1>a, <3>1, <3>2, CalledBackSession, ZenonT(30)
    <3>3. CASE x.errCh # {}
      BY <1>a, <3>1, <3>3, CalledBackSession
    <3>4. QED
      BY <3>2, <3>3
  <2> HIDE DEF r
  <2>4. QED
    BY <2>1, <2>2, <2>3, OwnStep
<1>4. ASSUME NEW s \in Sessions, Return(s) PROVE IInv'
  <2>1. PICK result \in session[s].errCh :
          session' = [session EXCEPT ![s].errCh = {}, ![s].method = "done", ![s].outcome = "ok",
                        ![s].pc = IF result = "ok" THEN "read" ELSE "closed"]
    BY <1>4 DEF Return
  <2> DEFINE r == [session[s] EXCEPT !.errCh = {}, !.method = "done", !.outcome = "ok",
                     !.pc = IF result = "ok" THEN "read" ELSE "closed"]
  <2>2. PeersGrow /\ Len(peer') = Len(peer)
    BY <1>4, SamePeers DEF Return
  <2>3. session' = [session EXCEPT ![s] = r]
    BY <2>1, <1>a DEF Session
  <2>4. r.peer = session[s].peer /\ r \in Session(Len(peer'))
    BY <1>b, <2>2 DEF Session, Outcome
  <2>5. Sound(r)
    BY <1>4, <1>b, <2>1 DEF Return, Sound, Session
  <2> HIDE DEF r
  <2>6. QED
    BY <2>2, <2>3, <2>4, <2>5, OwnStep
<1>5. ASSUME NEW s \in Sessions, Disconnect(s) PROVE IInv'
  <2> DEFINE r == [session[s] EXCEPT !.pc = "closed"]
  <2>1. PeersGrow /\ Len(peer') = Len(peer)
    BY <1>5, SamePeers DEF Disconnect
  <2>2. session' = [session EXCEPT ![s] = r]
    BY <1>5, <1>a DEF Disconnect, Session
  <2>3. r.peer = session[s].peer /\ r \in Session(Len(peer')) /\ Sound(r)
    BY <1>5, <1>b, <2>1 DEF Disconnect, Sound, Session
  <2> HIDE DEF r
  <2>4. QED
    BY <2>1, <2>2, <2>3, OwnStep
<1>6. CASE UNCHANGED vars
  BY <1>6 DEF vars, IInv, TypeOK, Sound
<1>7. QED
  BY <1>1, <1>2, <1>3, <1>4, <1>5, <1>6 DEF Next

-----------------------------------------------------------------------------
\* The state of the signalling server keeps its shape: errCh never holds more
\* than the one value it has room for.
THEOREM TypeCorrect == Spec => []TypeOK
<1>1. IInv => TypeOK
  BY DEF IInv
<1>2. QED
  BY <1>1, InitIInv, StepIInv, PTL DEF Spec

\* handle returns to the loop of ServeHTTP, which reads the next request, only
\* after the handler's callback has written one reply.
THEOREM ExactlyOneReply == Spec => []OneReply
<1>1. IInv => OneReply
  BY DEF IInv, OneReply, Sound
<1>2. QED
  BY <1>1, InitIInv, StepIInv, PTL DEF Spec
=============================================================================
