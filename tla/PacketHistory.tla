--------------------------- MODULE PacketHistory ----------------------------
(***************************************************************************)
(* The authenticated duplicate ring of the mesh router, driven by          *)
(* should_filter_received (domain/router.rs).  Every call is one atomic    *)
(* step: the mesh task owns the router and the method does not await.      *)
(*                                                                         *)
(* Each packet may be heard any number of times, with any hop limit, last  *)
(* relayer and queued rebroadcast; RelayScheduler says which of those      *)
(* combinations the dispatcher produces.                                   *)
(***************************************************************************)
EXTENDS MeshRouter, Sequences

CONSTANT OurRole

ASSUME RoleAssumption == OurRole \in Role

VARIABLES
  history,   \* MeshRouter.history, history_head and history_count
  verdict    \* the FilterResult of the last call, with the packet it is about

vars == <<history, verdict>>

FilterResult == {"New", "DuplicateDrop", "DuplicateUpgrade", "DuplicateCancelRelay"}

PendingHop == {{}} \cup {{q} : q \in HopLimit}

Init ==
  /\ history = EmptyRing(RingSize)
  /\ verdict = [packet |-> NoRecord, result |-> "New"]

Filter(p, hl, relay, pending) ==
  /\ verdict' = [packet |-> p, result |-> Verdict(Seen(history, p), hl, relay, pending, OurRole)]
  /\ history' = Filtered(history, p, hl, relay, pending)

Next == \E p \in Packet, hl \in HopLimit, relay \in Byte, pending \in PendingHop :
          Filter(p, hl, relay, pending)

Spec == Init /\ [][Next]_vars

-----------------------------------------------------------------------------
(* Invariants.                                                             *)

\* The ring and the last verdict (PacketRecord, FilterResult).
TypeOK ==
  /\ history \in [slot  : [0..RingSize-1 -> Record \cup {NoRecord}],
                  head  : 0..RingSize-1,
                  count : 0..RingSize]
  /\ verdict \in [packet : Packet \cup {NoRecord}, result : FilterResult]

\* The slots below history_count are the ones written; until the ring wraps,
\* the next slot is the first unused one.
RingShape ==
  /\ \A i \in 0..RingSize-1 : i < history.count <=> history.slot[i] # NoRecord
  /\ history.count < RingSize => history.head = history.count

\* A packet is recorded in at most one slot, so a lookup, an upgrade and an
\* eviction all concern the same record: recording happens only when
\* find_record has scanned every used slot.
NoDuplicateRecords ==
  \A i, j \in 0..RingSize-1 :
    /\ history.slot[i] # NoRecord
    /\ history.slot[j] # NoRecord
    /\ history.slot[i].packet = history.slot[j].packet
    => i = j

-----------------------------------------------------------------------------
(* The ring implements the window of the last RingSize accepted packets.   *)

Oldest == IF history.count < RingSize THEN 0 ELSE history.head

Window == [i \in 1..history.count |-> history.slot[(Oldest + i - 1) % RingSize].packet]

Told == [packet |-> verdict.packet, new |-> verdict.result = "New"]

Abstract == INSTANCE SeenWindow
              WITH window <- Window, told <- Told, Size <- RingSize, NoPacket <- NoRecord

\* Duplicate suppression of the flooding layer: eviction is oldest-first, a
\* duplicate never refreshes, moves or displaces a record, no record is lost to
\* anything but RingSize newer packets, and the caller is told New exactly when
\* the packet was not in the window (router.rs, should_filter_received,
\* find_record and record_packet; README, "no TTL, oldest-first eviction").
ImplementsSeenWindow == Abstract!Spec
=============================================================================
