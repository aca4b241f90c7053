--------------------------- MODULE RelayScheduler ---------------------------
(***************************************************************************)
(* The relaying side of one node: what from_radio::dispatch does with a    *)
(* frame sent by another node, and the timer of the mesh task that puts    *)
(* the queued rebroadcasts on the air.                                     *)
(*                                                                         *)
(* Each dispatch and each timer expiry is one step, because one task owns  *)
(* the router and both queues.  The authenticated ring is represented by   *)
(* the window of packets it remembers (PacketHistory shows that the ring   *)
(* implements it).  A deadline is the number of ticks left; it stops at 0, *)
(* since a busy mesh task may reach an expired deadline late.              *)
(*                                                                         *)
(* Layer 2 of the dispatch (the portnum handlers, NodeDB, phone and ACK)   *)
(* changes none of this state and is not part of this module.              *)
(***************************************************************************)
EXTENDS MeshRouter, Sequences

CONSTANTS
  Slot,      \* the places of pending_rebroadcast; interchangeable
  Free,      \* an empty place
  MaxDelay,  \* the longest contention-window delay, in ticks
  Roles,     \* the device roles to consider
  Dest,      \* [Packet -> {"us", "other", "broadcast"}]
  NextHop,   \* [Packet -> Byte], as the originator set it; relays do not change it
  HopStart,  \* [Packet -> HopLimit]
  Heard,     \* [Packet -> SUBSET HopLimit], the hop limits its copies arrive with
  Private    \* the packets on a channel whose key this node may or may not hold

Entry == [packet : Packet, hop_limit : HopLimit, due : 0..MaxDelay, verified : BOOLEAN]

ASSUME SchedulerAssumption ==
  /\ Slot # {} /\ IsFiniteSet(Slot) /\ Free \notin Entry
  /\ MaxDelay \in Nat
  /\ Roles \subseteq Role
  /\ Dest \in [Packet -> {"us", "other", "broadcast"}]
  /\ NextHop \in [Packet -> Byte]
  /\ HopStart \in [Packet -> HopLimit]
  /\ Heard \in [Packet -> SUBSET HopLimit]
  /\ \A p \in Packet : \A hl \in Heard[p] : hl <= HopStart[p]
  /\ Private \subseteq Packet

VARIABLES
  role,         \* device.role
  hasKey,       \* whether the device has the key of the private channel
  window,       \* the packets router.history remembers, oldest first
  opaque_seen,  \* router.opaque_seen
  queue,        \* pending_rebroadcast
  relayed,      \* history variable: rebroadcasts sent of each verified packet
  overflowed    \* history variable: a full queue has dropped an entry

vars == <<role, hasKey, window, opaque_seen, queue, relayed, overflowed>>

-----------------------------------------------------------------------------
Members == {window[i] : i \in DOMAIN window}

Matching(p) == {s \in Slot : queue[s] # Free /\ queue[s].packet = p}

\* pending_hop_limit: the hop limit of the first matching entry; the place of an
\* entry says nothing about it, so any match may be the first.
PendingHopLimit(p) ==
  IF Matching(p) = {} THEN {{}} ELSE {{queue[s].hop_limit} : s \in Matching(p)}

\* try_decrypt_and_decode succeeds: we hold the channel key.
Decodes(p) == p \in Private => hasKey

Earliest == {s \in Slot : queue[s] # Free /\ \A t \in Slot : queue[t] # Free => queue[s].due <= queue[t].due}

\* Faulty variant of Schedule: the entry keeps the hop limit it was heard with.
ScheduleKeepsHop(p, hl, verified) ==
  \E due \in 0..MaxDelay, s \in Slot :
    /\ queue[s] = Free
    /\ queue' = [queue EXCEPT ![s] = [packet |-> p, hop_limit |-> hl, due |-> due, verified |-> verified]]
    /\ UNCHANGED overflowed

\* schedule_rebroadcast: one hop less, after a random delay.  A full queue drops the
\* entry that is due first to make room.
Schedule(p, hl, verified) ==
  \E due \in 0..MaxDelay :
    LET entry == [packet |-> p, hop_limit |-> hl - 1, due |-> due, verified |-> verified]
    IN  IF \E s \in Slot : queue[s] = Free
          THEN /\ queue' = [queue EXCEPT ![CHOOSE s \in Slot : queue[s] = Free] = entry]
               /\ UNCHANGED overflowed
          ELSE \E s \in Earliest :
                 /\ queue' = [queue EXCEPT ![s] = entry]
                 /\ overflowed' = TRUE

\* Layer 3: the flooding and next-hop conditions for relaying an accepted packet.
Relays(p, hl) ==
  /\ ShouldRebroadcastForRole(role)
  /\ ShouldRebroadcast(FALSE, hl)
  /\ Dest[p] # "broadcast" => ShouldRelayDirected(Dest[p] = "us", NextHop[p])

\* The history variable stops counting at 2, one more than the properties allow.
AtMostTwo(n) == IF n > 2 THEN 2 ELSE n

Remember(p) ==
  window' = IF Len(window) < RingSize THEN Append(window, p) ELSE Append(Tail(window), p)

-----------------------------------------------------------------------------
Init ==
  /\ role \in Roles
  /\ hasKey \in BOOLEAN
  /\ window = <<>>
  /\ opaque_seen = EmptyRing(OpaqueSize)
  /\ queue = [s \in Slot |-> Free]
  /\ relayed = [p \in Packet |-> 0]
  /\ overflowed = FALSE

\* A packet that decodes and is not remembered.
ReceiveNew(p, hl, relay) ==
  /\ Decodes(p)
  /\ \E pending \in PendingHopLimit(p) :
       Verdict(p \in Members, hl, relay, pending, role) = "New"
  /\ Remember(p)
  /\ IF Relays(p, hl) THEN Schedule(p, hl, TRUE) ELSE UNCHANGED <<queue, overflowed>>
  /\ UNCHANGED <<role, hasKey, opaque_seen, relayed>>

\* Faulty variant of Upgraded: the upgraded entry waits for a new delay.
UpgradedLater(entry, hl) == [entry EXCEPT !.hop_limit = hl - 1, !.due = MaxDelay, !.verified = TRUE]

\* The queued frame is replaced by the better copy; its deadline stays.
Upgraded(entry, hl) == [entry EXCEPT !.hop_limit = hl - 1, !.verified = TRUE]

ReceiveUpgrade(p, hl, relay, s) ==
  /\ Decodes(p)
  /\ s \in Matching(p)
  /\ Verdict(p \in Members, hl, relay, {queue[s].hop_limit}, role) = "DuplicateUpgrade"
  /\ queue' = [queue EXCEPT ![s] = Upgraded(@, hl)]
  /\ UNCHANGED <<role, hasKey, window, opaque_seen, relayed, overflowed>>

\* Another node relayed the packet: every queued copy of it goes.
ReceiveCancel(p, hl, relay) ==
  /\ Decodes(p)
  /\ \E pending \in PendingHopLimit(p) :
       Verdict(p \in Members, hl, relay, pending, role) = "DuplicateCancelRelay"
  /\ queue' = [s \in Slot |-> IF s \in Matching(p) THEN Free ELSE queue[s]]
  /\ UNCHANGED <<role, hasKey, window, opaque_seen, relayed, overflowed>>

\* A packet that does not decode and is not for us is relayed blind.
ReceiveOpaque(p, hl) ==
  /\ ~Decodes(p)
  /\ Dest[p] # "us"
  /\ ShouldRebroadcastForRole(role)
  /\ hl > 0
  /\ ShouldRelayOpaque(opaque_seen, p, HopStart[p], hl)
  /\ opaque_seen' = OpaqueRecorded(opaque_seen, p)
  /\ Schedule(p, hl, FALSE)
  /\ UNCHANGED <<role, hasKey, window, relayed>>

\* The rebroadcast timer: the entry due first is removed and sent.
FireRebroadcast(s) ==
  /\ s \in Earliest
  /\ queue[s].due = 0
  /\ queue' = [queue EXCEPT ![s] = Free]
  /\ relayed' = IF queue[s].verified THEN [relayed EXCEPT ![queue[s].packet] = AtMostTwo(@ + 1)] ELSE relayed
  /\ UNCHANGED <<role, hasKey, window, opaque_seen, overflowed>>

\* Time passes.
Tick ==
  /\ \E s \in Slot : queue[s] # Free /\ queue[s].due > 0
  /\ queue' = [s \in Slot |-> IF queue[s] # Free /\ queue[s].due > 0
                              THEN [queue[s] EXCEPT !.due = @ - 1] ELSE queue[s]]
  /\ UNCHANGED <<role, hasKey, window, opaque_seen, relayed, overflowed>>

\* The owner adds or removes the private channel.
SetChannel ==
  /\ hasKey' = ~hasKey
  /\ UNCHANGED <<role, window, opaque_seen, queue, relayed, overflowed>>

Receive ==
  \E p \in Packet : \E hl \in Heard[p] :
    \/ ReceiveOpaque(p, hl)
    \/ \E relay \in Byte : ReceiveNew(p, hl, relay) \/ ReceiveCancel(p, hl, relay)
    \/ \E relay \in Byte, s \in Slot : ReceiveUpgrade(p, hl, relay, s)

Next ==
  \/ Receive
  \/ \E s \in Slot : FireRebroadcast(s)
  \/ Tick
  \/ SetChannel

\* Time passes, and the mesh task reaches an expired deadline: each select gives up
\* mesh_in only while it holds an event, and frames take longer to receive than to
\* dispatch.  A later entry cannot overtake an expired one, so every place is served.
Fairness == WF_vars(Tick) /\ \A s \in Slot : WF_vars(FireRebroadcast(s))

Spec == Init /\ [][Next]_vars /\ Fairness

-----------------------------------------------------------------------------
\* The queue and the seen-sets of the mesh task keep their shape (MeshCtx, MeshRouter).
TypeOK ==
  /\ role \in Roles
  /\ hasKey \in BOOLEAN
  /\ window \in Seq(Packet) /\ Len(window) <= RingSize
  /\ opaque_seen \in [slot  : [0..OpaqueSize-1 -> Packet \cup {NoRecord}],
                      head  : 0..OpaqueSize-1,
                      count : 0..OpaqueSize]
  /\ queue \in [Slot -> Entry \cup {Free}]
  /\ relayed \in [Packet -> 0..2]
  /\ overflowed \in BOOLEAN

\* Verified(p): a verified copy of p is waiting to be relayed.
Verified(p) == \E s \in Matching(p) : queue[s].verified

\* A queued rebroadcast carries at least one hop less than the packet started with,
\* whichever mixture of first copies, better copies and opaque copies wrote it; with
\* it a flood spends its hop budget and ends (with_rewritten_header).
HopBudget ==
  \A s \in Slot : queue[s] # Free => queue[s].hop_limit < HopStart[queue[s].packet]

\* A verified packet is put on the air at most once, and never twice from two queue
\* entries: an upgrade changes the queued entry and does not add another, and a packet
\* relayed or cancelled is not queued again while the ring remembers it.  (A packet
\* of the private channel can be queued both ways when its key comes and goes.)
RelayedOnce ==
  \A p \in Packet \ Private :
    relayed[p] + Cardinality({s \in Matching(p) : queue[s].verified}) <= 1

\* Every scheduled relay leaves the queue: however often better copies of the packet
\* are heard, they do not put off its deadline.
QueueDrains == \A p \in Packet \ Private : Verified(p) ~> ~Verified(p)

\* A ROUTER or ROUTER_LATE relays every verified packet it has scheduled unless its
\* queue has overflowed; no duplicate makes it give up (roleAllowsCancelingDupe).
RouterAlwaysRelays ==
  \A p \in Packet :
    (Verified(p) /\ ~RoleAllowsCancel(role)) ~> (relayed[p] > 0 \/ overflowed)

=============================================================================
