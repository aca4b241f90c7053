----------------------------- MODULE MeshRouter -----------------------------
(***************************************************************************)
(* The methods of `MeshRouter` (meshtastenstein-core/src/domain/router.rs) *)
(* as operators on values.  The modules that keep a router as state        *)
(* (PacketHistory, RelayScheduler, ReliableDelivery) apply them to their   *)
(* variables.                                                              *)
(*                                                                         *)
(* A packet is identified by (sender, packet_id); that pair is one element *)
(* of Packet.  Node numbers appear on the air only as their last byte, in  *)
(* relay_node and next_hop, where 0 means "unset".                         *)
(***************************************************************************)
EXTENDS Naturals, FiniteSets

CONSTANTS
  Packet,       \* the (sender, packet_id) pairs
  Byte,         \* the last bytes of node numbers, 0 included
  OurByte,      \* our_node_num & 0xFF
  MaxHop,       \* the largest hop_limit of the three-bit header field
  RingSize,     \* DUPLICATE_RING_SIZE
  OpaqueSize,   \* OPAQUE_SEEN_RING_SIZE
  MaxRelayers,  \* MAX_RELAYERS_TRACKED
  NoRecord      \* an unused ring slot (PacketRecord.valid = false)

HopLimit == 0..MaxHop
NoNextHop == 0
Role == {"Client", "ClientMute", "ClientHidden", "Router", "RouterLate"}

Record == [packet : Packet, best_hop_limit : HopLimit, relayed_by : SUBSET Byte]

ASSUME RouterAssumption ==
  /\ Byte \subseteq Nat /\ 0 \in Byte /\ OurByte \in Byte
  /\ MaxHop \in Nat
  /\ RingSize \in Nat \ {0} /\ OpaqueSize \in Nat \ {0}
  /\ MaxRelayers \in Nat \ {0}
  /\ NoRecord \notin Record /\ NoRecord \notin Packet

-----------------------------------------------------------------------------
(* A ring buffer is a function from its indices, the slot written next and *)
(* the number of slots in use.                                             *)

EmptyRing(size) == [slot |-> [i \in 0..size-1 |-> NoRecord], head |-> 0, count |-> 0]

\* Faulty variants of Push: the count is not capped; the head does not advance.
PushUncapped(ring, size, x) ==
  [slot  |-> [ring.slot EXCEPT ![ring.head] = x],
   head  |-> (ring.head + 1) % size,
   count |-> ring.count + 1]

PushInPlace(ring, size, x) ==
  [slot  |-> [ring.slot EXCEPT ![ring.head] = x],
   head  |-> ring.head,
   count |-> IF ring.count < size THEN ring.count + 1 ELSE ring.count]

\* The new element overwrites the oldest one once the ring is full.
Push(ring, size, x) ==
  [slot  |-> [ring.slot EXCEPT ![ring.head] = x],
   head  |-> (ring.head + 1) % size,
   count |-> IF ring.count < size THEN ring.count + 1 ELSE ring.count]

-----------------------------------------------------------------------------
(* The authenticated duplicate ring.                                       *)

\* Faulty variant of FindRecord: the scan stops one slot early.
FindRecordShort(h, p) ==
  {i \in 0..RingSize-1 : i + 1 < h.count /\ h.slot[i] # NoRecord /\ h.slot[i].packet = p}

\* The slots find_record may return: in use and holding packet p.
FindRecord(h, p) ==
  {i \in 0..RingSize-1 : i < h.count /\ h.slot[i] # NoRecord /\ h.slot[i].packet = p}

Seen(h, p) == FindRecord(h, p) # {}

\* relay_node 0 is "unset"; a full list keeps its first MaxRelayers bytes.
AddRelayer(rec, b) ==
  IF b = 0 \/ b \in rec.relayed_by \/ Cardinality(rec.relayed_by) >= MaxRelayers
    THEN rec
    ELSE [rec EXCEPT !.relayed_by = @ \cup {b}]

NewRecord(p, hl) == [packet |-> p, best_hop_limit |-> hl, relayed_by |-> {}]

\* The hop limit of a queued rebroadcast is an Option: a set of at most one.
Better(hl, pending) == \E q \in pending : hl > q

RoleAllowsCancel(role) == role \notin {"Router", "RouterLate"}

\* Faulty variants: a duplicate that brings more hops than the queued relay is taken
\* for new; the roles exempt from cancellation are not.
VerdictBetterIsNew(seen, hl, relay, pending, role) ==
  IF ~seen \/ Better(hl, pending) THEN "New" ELSE "DuplicateDrop"
VerdictCancelsAnyRole(seen, hl, relay, pending, role) ==
  IF ~seen THEN "New" ELSE IF Better(hl, pending) THEN "DuplicateUpgrade"
  ELSE IF relay # 0 /\ relay # OurByte THEN "DuplicateCancelRelay" ELSE "DuplicateDrop"

\* should_filter_received: what the caller is told ...
Verdict(seen, hl, relay, pending, role) ==
  CASE ~seen -> "New"
    [] seen /\ Better(hl, pending) -> "DuplicateUpgrade"
    [] /\ seen /\ ~Better(hl, pending)
       /\ RoleAllowsCancel(role) /\ relay # 0 /\ relay # OurByte -> "DuplicateCancelRelay"
    [] OTHER -> "DuplicateDrop"

\* ... and what it leaves in the ring.  The code changes the first matching slot;
\* a packet never has two (PacketHistory!NoDuplicateRecords).
Touched(rec, p, hl, relay, pending) ==
  LET heard == AddRelayer(rec, relay)
  IN  IF Better(hl, pending) THEN [heard EXCEPT !.best_hop_limit = hl] ELSE heard

\* Faulty variant of Filtered: hearing a packet again records it again.
FilteredRefresh(h, p, hl, relay, pending) ==
  Push(h, RingSize, AddRelayer(NewRecord(p, hl), relay))

Filtered(h, p, hl, relay, pending) ==
  IF Seen(h, p)
    THEN [h EXCEPT !.slot = [i \in 0..RingSize-1 |->
            IF i \in FindRecord(h, p) THEN Touched(@[i], p, hl, relay, pending) ELSE @[i]]]
    ELSE Push(h, RingSize, AddRelayer(NewRecord(p, hl), relay))

-----------------------------------------------------------------------------
(* The seen-set of packets relayed without authentication.                 *)

SeenOpaque(o, p) == \E i \in 0..OpaqueSize-1 : i < o.count /\ o.slot[i] = p

IsOriginatorRetransmit(start, hl) == start > 0 /\ start = hl

ShouldRelayOpaque(o, p, start, hl) == ~SeenOpaque(o, p) \/ IsOriginatorRetransmit(start, hl)

OpaqueRecorded(o, p) == IF SeenOpaque(o, p) THEN o ELSE Push(o, OpaqueSize, p)

-----------------------------------------------------------------------------
(* Relay decision and routes.                                              *)

ShouldRebroadcastForRole(role) == role \notin {"ClientMute", "ClientHidden"}

ShouldRebroadcastUnchecked(ours, hl) == ~ours   \* faulty variant: no hop check

\* should_rebroadcast returns hop_limit - 1 when it allows the relay.
ShouldRebroadcast(ours, hl) == ~ours /\ hl > 0

ShouldRelayDirected(toUs, next) == toUs \/ (next # NoNextHop /\ next = OurByte)

GetNextHop(known, relay) == IF known # NoNextHop /\ known # relay THEN known ELSE NoNextHop

\* learn_route: the byte recorded for a sender heard through relay_node.
LearnRoute(known, fromByte, relay) ==
  LET next == IF relay # 0 THEN relay ELSE fromByte
  IN  IF next = NoNextHop THEN known ELSE next
=============================================================================
