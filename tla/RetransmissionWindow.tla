------------------------ MODULE RetransmissionWindow ------------------------
(***************************************************************************)
(* What the sequencer of a down track promises, with no ring buffer, no    *)
(* pointer and no slot arithmetic: a memory of the packets sent lately,    *)
(* indexed by how far back from the newest sequence number they lie.       *)
(*                                                                         *)
(* A sent packet is answered for a NACK until one of three things happens: *)
(* Memory further packets are sent, the newest number moves Window ahead   *)
(* of it, or its number is used again.                                     *)
(***************************************************************************)
EXTENDS Integers

CONSTANTS SNMod,        \* sequence numbers are 0 .. SNMod-1 (2^16 in RTP)
          Window,       \* how far back from the newest number a NACK reaches
          Memory,       \* how many sent packets are remembered
          Packets,      \* what is remembered of a packet
          NackLists,    \* sets of numbers a receiver reports lost at once
          RTTs,         \* round-trip times a receiver report may bring
          DefaultRtt, IgnoreRetransmission,
          NackMod,      \* width of the per-packet NACK counter
          MaxTime       \* bound of the clock

VARIABLES started,      \* has any number been used yet
          newest,       \* the newest number used
          hist,         \* partial function: distance back |-> what is remembered
          rtt, now,
          reply         \* what the last step answered

vars == <<started, newest, hist, rtt, now, reply>>

SN == 0 .. SNMod - 1
Back == 0 .. Window - 1

\* A remembered packet, how many packets were sent since, and its NACK history.
Entry == [pkt : Packets, age : 0 .. Memory - 1,
          lastNack : 0 .. MaxTime, nacked : 0 .. NackMod - 1]

Init == /\ started = FALSE
        /\ newest = 0
        /\ hist = [b \in {} |-> 0]
        /\ rtt = DefaultRtt
        /\ now = 0
        /\ reply = {}

Ahead(sn) == IF started THEN (sn - newest) % SNMod ELSE 1
Behind(sn) == IF started THEN (newest - sn) % SNMod ELSE SNMod - 1

IsNewer(sn) == Ahead(sn) \in 1 .. SNMod \div 2
IsLate(sn) == Ahead(sn) > SNMod \div 2 /\ Behind(sn) < Window

\* The memory after the newest number has moved d ahead.
Shifted(d) == [b \in {c \in Back : c - d \in DOMAIN hist} |-> hist[b - d]]

\* h after one more packet: everything is one packet older, the oldest is gone.
Aged(h) == [b \in {c \in DOMAIN h : h[c].age < Memory - 1} |->
              [h[b] EXCEPT !.age = @ + 1]]

Fresh(pkt) == [pkt |-> pkt, age |-> 0, lastNack |-> 0, nacked |-> 0]

With(h, b, e) == [c \in DOMAIN h \cup {b} |-> IF c = b THEN e ELSE h[c]]
Without(h, b) == [c \in DOMAIN h \ {b} |-> h[c]]

\* A packet is sent under the number sn.
Send(sn, pkt) ==
    /\ \/ /\ IsNewer(sn)
          /\ newest' = sn
          /\ hist' = With(Aged(Shifted(Ahead(sn))), 0, Fresh(pkt))
       \/ /\ IsLate(sn)
          /\ newest' = newest
          /\ hist' = With(Aged(hist), Behind(sn), Fresh(pkt))
    /\ started' = TRUE
    /\ reply' = {}
    /\ UNCHANGED <<rtt, now>>

\* The number sn is used for padding: there is nothing to retransmit under it.
Pad(sn) ==
    /\ \/ /\ IsNewer(sn)
          /\ newest' = sn
          /\ hist' = Without(Shifted(Ahead(sn)), 0)
       \/ /\ IsLate(sn)
          /\ newest' = newest
          /\ hist' = Without(hist, Behind(sn))
    /\ started' = TRUE
    /\ reply' = {}
    /\ UNCHANGED <<rtt, now>>

\* The number is the newest one, or too old: it is ignored.
Ignore(sn) == /\ ~IsNewer(sn) /\ ~IsLate(sn)
              /\ reply' = {}
              /\ UNCHANGED <<started, newest, hist, rtt, now>>

SetRTT(r) == /\ rtt' = IF r = 0 THEN DefaultRtt ELSE r
             /\ reply' = {}
             /\ UNCHANGED <<started, newest, hist, now>>

Threshold == IF 2 * rtt < IgnoreRetransmission THEN 2 * rtt
                                               ELSE IgnoreRetransmission

\* The packet b back may be written again: it was not, or long enough ago.
Due(b) == hist[b].lastNack = 0 \/ now - hist[b].lastNack > Threshold

Nacked(e) == [pkt |-> e.pkt, age |-> e.age,
              lastNack |-> now, nacked |-> (e.nacked + 1) % NackMod]

\* The receiver reports the numbers of sns lost.
Nack(sns) ==
    LET due == {b \in DOMAIN hist : (newest - b) % SNMod \in sns /\ Due(b)}
    IN  /\ hist' = [b \in DOMAIN hist |->
                      IF b \in due THEN Nacked(hist[b]) ELSE hist[b]]
        /\ reply' = {[sn |-> (newest - b) % SNMod, pkt |-> hist[b].pkt] : b \in due}
        /\ UNCHANGED <<started, newest, rtt, now>>

Tick == /\ now' \in now + 1 .. MaxTime
        /\ reply' = {}
        /\ UNCHANGED <<started, newest, hist, rtt>>

Next == \/ \E sn \in SN, pkt \in Packets : Send(sn, pkt)
        \/ \E sn \in SN : Pad(sn) \/ Ignore(sn)
        \/ \E r \in RTTs : SetRTT(r)
        \/ \E sns \in NackLists : Nack(sns)
        \/ Tick

Spec == Init /\ [][Next]_vars
=============================================================================
