-------------------------- MODULE ReliableDelivery --------------------------
(***************************************************************************)
(* Packets the phone sends with want_ack: transmit_from_ble_packet tracks  *)
(* them in pending_packets, tick_retransmissions resends them, and the     *)
(* dispatch of received frames resolves them by an implicit ACK (our own   *)
(* packet overheard) or by a routing packet whose request_id names them.   *)
(* The phone learns the outcome from a routing result.                     *)
(*                                                                         *)
(* The mesh task owns all of this, so each handler is one step.  A         *)
(* deadline is the number of ticks left and stops at 0.  The destination   *)
(* and the channel are the environment: any copy sent may reach the peer,  *)
(* late, repeatedly or never, and its answer may be lost.                  *)
(***************************************************************************)
EXTENDS MeshRouter, Sequences

CONSTANTS
  Slot, Free,  \* the places of pending_packets, and an empty one
  Retries,     \* NUM_RELIABLE_RETX
  Timeout,     \* WANT_ACK_TIMEOUT_MS, in ticks of RETX_AIRTIME_EXTENSION_MS
  Dest,        \* [Packet -> Peer]: where the phone sends each packet
  Peer,        \* the destinations
  PeerByte,    \* [Peer -> Byte]
  Unreadable,  \* the packets their destination cannot decrypt
  MaxRx        \* bound: the frames received while this node has packets pending

Entry == [packet : Packet, due : 0..Timeout+MaxRx, retries_left : 0..Retries, next_hop : Byte]

ASSUME DeliveryAssumption ==
  /\ Slot # {} /\ Free \notin Entry
  /\ Retries \in Nat \ {0} /\ Timeout \in Nat \ {0} /\ MaxRx \in Nat
  /\ Dest \in [Packet -> Peer] /\ PeerByte \in [Peer -> Byte]
  /\ Unreadable \subseteq Packet

VARIABLES
  pending,   \* pending_packets
  route,     \* NodeInfoEntry.next_hop of each peer
  sent,      \* frames of each packet handed to the LoRa task
  results,   \* the routing results reported to the phone for each packet
  tracked,   \* history variable: the packets that entered pending_packets
  got,       \* the packets their destination has accepted
  answers,   \* the routing packets on their way to us
  rx         \* frames received so far, up to MaxRx

vars == <<pending, route, sent, results, tracked, got, answers, rx>>

Answer == [request : Packet, nak : BOOLEAN]

-----------------------------------------------------------------------------
Holding(p) == {s \in Slot : pending[s] # Free /\ pending[s].packet = p}

Pending(p) == Holding(p) # {}

Report(p, result) == results' = [results EXCEPT ![p] = Append(@, result)]

\* Every received frame postpones all deadlines (extend_pending_deadlines).
Extended(entries) ==
  [s \in Slot |-> IF entries[s] = Free THEN Free ELSE [entries[s] EXCEPT !.due = @ + 1]]

Received == rx < MaxRx /\ rx' = rx + 1

Init ==
  /\ pending = [s \in Slot |-> Free]
  /\ route \in [Peer -> Byte]
  /\ sent = [p \in Packet |-> 0]
  /\ results = [p \in Packet |-> <<>>]
  /\ tracked = {}
  /\ got = {}
  /\ answers = {}
  /\ rx = 0

\* transmit_from_ble_packet with want_ack to one node.  When the table is full the
\* frame goes out untracked and the phone is told at once.
SendWantAck(p) ==
  /\ sent[p] = 0
  /\ sent' = [sent EXCEPT ![p] = 1]
  /\ IF \E s \in Slot : pending[s] = Free
       THEN /\ pending' = [pending EXCEPT ![CHOOSE s \in Slot : pending[s] = Free] =
                             [packet |-> p, due |-> Timeout, retries_left |-> Retries,
                              next_hop |-> GetNextHop(route[Dest[p]], 0)]]
            /\ tracked' = tracked \cup {p}
            /\ UNCHANGED results
       ELSE /\ Report(p, "None")
            /\ UNCHANGED <<pending, tracked>>
  /\ UNCHANGED <<route, got, answers, rx>>

\* Faulty variant of HearOwnPacket: a relay is reported as a delivery.
HearOwnPacketReports(p) ==
  /\ sent[p] > 0
  /\ Received
  /\ IF Pending(p)
       THEN /\ \E s \in Holding(p) : pending' = [Extended(pending) EXCEPT ![s] = Free]
            /\ Report(p, "None")
       ELSE pending' = Extended(pending) /\ UNCHANGED results
  /\ UNCHANGED <<route, sent, tracked, got, answers>>

\* A relay of our own packet is heard: the pending entry goes, and nothing else.
HearOwnPacket(p) ==
  /\ sent[p] > 0
  /\ Received
  /\ IF Pending(p)
       THEN \E s \in Holding(p) : pending' = [Extended(pending) EXCEPT ![s] = Free]
       ELSE pending' = Extended(pending)
  /\ UNCHANGED <<route, sent, results, tracked, got, answers>>

\* Faulty variant of ResolveBy: the entry stays in the table.
ResolveByKeeping(p) ==
  IF Pending(p) THEN pending' = Extended(pending) /\ Report(p, "None")
                ELSE pending' = Extended(pending) /\ UNCHANGED results

\* routing::handle: a routing packet names the packet it answers.  Its error reason is
\* not looked at.
ResolveBy(p) ==
  IF Pending(p)
    THEN /\ \E s \in Holding(p) : pending' = [Extended(pending) EXCEPT ![s] = Free]
         /\ Report(p, "None")
    ELSE pending' = Extended(pending) /\ UNCHANGED results

\* learn_route fails when the NodeDB has no room for the sender.
HearAnswer(a) ==
  /\ Received
  /\ answers' = answers \ {a}
  /\ ResolveBy(a.request)
  /\ \E relay \in Byte :
       LET peer == Dest[a.request]
       IN  route' \in {route, [route EXCEPT ![peer] = LearnRoute(@, PeerByte[peer], relay)]}
  /\ UNCHANGED <<sent, tracked, got>>

\* Any other frame only postpones the deadlines.
HearOther ==
  /\ \E s \in Slot : pending[s] # Free
  /\ Received
  /\ pending' = Extended(pending)
  /\ UNCHANGED <<route, sent, results, tracked, got, answers>>

-----------------------------------------------------------------------------
\* Faulty variant of Due: an entry without retries left is never looked at again.
DueWithRetries ==
  {s \in Slot : pending[s] # Free /\ pending[s].due = 0 /\ pending[s].retries_left > 0}

Due == {s \in Slot : pending[s] # Free /\ pending[s].due = 0}

Exhausted == {s \in Due : pending[s].retries_left = 0}

\* Faulty variants of Retried: the counter skips one; it never reaches 0.
RetriedTwice(e) ==
  [e EXCEPT !.due = Timeout, !.retries_left = IF @ > 1 THEN @ - 2 ELSE 0,
            !.next_hop = IF e.retries_left <= 2 THEN NoNextHop ELSE @]
RetriedForever(e) ==
  [e EXCEPT !.due = Timeout, !.retries_left = IF @ > 1 THEN @ - 1 ELSE @,
            !.next_hop = IF e.retries_left = 1 THEN NoNextHop ELSE @]

\* The last retry goes out without next_hop, as a flood.
Retried(e) ==
  [e EXCEPT !.due = Timeout, !.retries_left = @ - 1,
            !.next_hop = IF e.retries_left = 1 THEN NoNextHop ELSE @]

\* tick_retransmissions, then the sends and the failure reports of next_event.
TickRetransmissions ==
  LET resent == {pending[s].packet : s \in Due \ Exhausted}
      failed == {pending[s].packet : s \in Exhausted}
      last   == {Dest[pending[s].packet] : s \in {t \in Due : pending[t].retries_left = 1}}
  IN  /\ Due # {}
      /\ pending' = [s \in Slot |-> IF s \in Exhausted THEN Free
                                    ELSE IF s \in Due THEN Retried(pending[s])
                                    ELSE pending[s]]
      /\ route' = [d \in Peer |-> IF d \in last THEN NoNextHop ELSE route[d]]
      /\ sent' = [p \in Packet |-> IF p \in resent THEN sent[p] + 1 ELSE sent[p]]
      /\ results' = [p \in Packet |-> IF p \in failed THEN Append(results[p], "MaxRetransmit")
                                      ELSE results[p]]
      /\ UNCHANGED <<tracked, got, answers, rx>>

\* Time passes.
Tick ==
  /\ \E s \in Slot : pending[s] # Free /\ pending[s].due > 0
  /\ pending' = [s \in Slot |-> IF pending[s] # Free /\ pending[s].due > 0
                                THEN [pending[s] EXCEPT !.due = @ - 1] ELSE pending[s]]
  /\ UNCHANGED <<route, sent, results, tracked, got, answers, rx>>

-----------------------------------------------------------------------------
(* The destination and the channel.                                        *)

\* A first copy is accepted and acknowledged; a later one is a duplicate and is not.
PeerAccepts(p) ==
  /\ sent[p] > 0 /\ p \notin got /\ p \notin Unreadable
  /\ got' = got \cup {p}
  /\ answers' = answers \cup {[request |-> p, nak |-> FALSE]}
  /\ UNCHANGED <<pending, route, sent, results, tracked, rx>>

\* Each copy of a packet the peer has no key for is refused (PKI_UNKNOWN_PUBKEY).
PeerRefuses(p) ==
  /\ sent[p] > 0 /\ p \in Unreadable
  /\ answers' = answers \cup {[request |-> p, nak |-> TRUE]}
  /\ UNCHANGED <<pending, route, sent, results, tracked, got, rx>>

LoseAnswer(a) ==
  /\ answers' = answers \ {a}
  /\ UNCHANGED <<pending, route, sent, results, tracked, got, rx>>

Next ==
  \/ \E p \in Packet : SendWantAck(p) \/ HearOwnPacket(p) \/ PeerAccepts(p) \/ PeerRefuses(p)
  \/ \E a \in answers : HearAnswer(a) \/ LoseAnswer(a)
  \/ HearOther
  \/ TickRetransmissions
  \/ Tick

\* Time passes and the mesh task serves an expired retransmission timer; nothing is
\* assumed of the phone, the peer or the channel.
Fairness == WF_vars(Tick) /\ WF_vars(TickRetransmissions)

Spec == Init /\ [][Next]_vars /\ Fairness

-----------------------------------------------------------------------------
\* The table of tracked packets and what was counted of them (PendingPacket).
TypeOK ==
  /\ pending \in [Slot -> Entry \cup {Free}]
  /\ route \in [Peer -> Byte]
  /\ sent \in [Packet -> 0..Retries+1]
  /\ results \in [Packet -> Seq({"None", "MaxRetransmit"})]
  /\ tracked \subseteq Packet
  /\ got \subseteq Packet
  /\ answers \subseteq Answer
  /\ rx \in 0..MaxRx

\* The phone hears of a packet at most once, and not while the packet is still being
\* retried: an ACK that races the timer cannot yield both a success and a failure.
OneResult ==
  \A p \in Packet : /\ Len(results[p]) <= 1
                    /\ Pending(p) => results[p] = <<>>

\* "Max retransmissions" is reported only after the first transmission and every
\* retransmission were sent (README: 3 retries).
FailureAfterAllAttempts ==
  \A p \in Packet : results[p] = <<"MaxRetransmit">> => sent[p] = Retries + 1

\* Success reported for a tracked packet that its destination can read means that the
\* destination accepted it; lost, late and repeated frames do not fake it.
SuccessMeansAccepted ==
  \A p \in tracked \ Unreadable : results[p] = <<"None">> => p \in got

\* Every tracked packet is resolved: retries end, although each received frame
\* postpones them (for a bounded number of received frames).
EventuallyResolved == \A p \in Packet : Pending(p) ~> ~Pending(p)

=============================================================================
