------------------------ MODULE RelaySchedulerProofs ------------------------
(***************************************************************************)
(* Proofs about the rebroadcast queue for any number of packets and        *)
(* places, and any sizes of the rings, delays and hop limits.              *)
(***************************************************************************)
EXTENDS RelayScheduler, FiniteSetTheorems, SequenceTheorems, TLAPS

Used(s) == queue[s] # Free

Public == Packet \ Private

\* A packet that was queued or relayed is remembered.
Remembered ==
  \A p \in Public : relayed[p] > 0 \/ Matching(p) # {} => p \in Members

\* A packet waits in one place, ...
OnePlace ==
  \A s, t \in Slot :
    Used(s) /\ Used(t) /\ queue[s].packet \in Public /\ queue[s].packet = queue[t].packet => s = t

\* ... and in none once it has been relayed.
NotAgain == \A p \in Public : relayed[p] <= 1 /\ (relayed[p] = 1 => Matching(p) = {})

Bounded == TypeOK /\ HopBudget

Once == Remembered /\ OnePlace /\ NotAgain

IInv == Bounded /\ Once

\* The rings have not displaced a packet in this step.
NoneForgotten == Members \subseteq Members'

-----------------------------------------------------------------------------
LEMMA EntryNotFree == \A e \in Entry : e # Free
  BY SchedulerAssumption

LEMMA UsedEntry ==
  ASSUME TypeOK, NEW s \in Slot, Used(s)
  PROVE  /\ queue[s] \in Entry
         /\ queue[s].packet \in Packet
         /\ queue[s].hop_limit \in HopLimit
         /\ queue[s].due \in 0..MaxDelay
         /\ queue[s].verified \in BOOLEAN
  <1>1. queue[s] \in Entry
    BY DEF TypeOK, Used
  <1>2. QED
    BY <1>1 DEF Entry

LEMMA HopTypes ==
  ASSUME NEW p \in Packet, NEW hl \in Heard[p]
  PROVE  hl \in HopLimit /\ hl \in Nat /\ HopStart[p] \in Nat /\ hl <= HopStart[p]
  BY SchedulerAssumption, RouterAssumption DEF HopLimit

\* Whatever place it takes, a scheduled packet becomes one entry with a hop less.
LEMMA ScheduleWrites ==
  ASSUME TypeOK, NEW p \in Packet, NEW hl \in Heard[p], hl > 0, NEW verified \in BOOLEAN,
         Schedule(p, hl, verified)
  PROVE  /\ \E s \in Slot, e \in Entry :
              /\ queue' = [queue EXCEPT ![s] = e]
              /\ e.packet = p /\ e.hop_limit = hl - 1 /\ e.verified = verified
         /\ overflowed' \in BOOLEAN
  <1> DEFINE entry(due) == [packet |-> p, hop_limit |-> hl - 1, due |-> due, verified |-> verified]
  <1>1. PICK due \in 0..MaxDelay :
          \/ /\ \E s \in Slot : queue[s] = Free
             /\ queue' = [queue EXCEPT ![CHOOSE s \in Slot : queue[s] = Free] = entry(due)]
             /\ overflowed' = overflowed
          \/ \E s \in Earliest : queue' = [queue EXCEPT ![s] = entry(due)] /\ overflowed' = TRUE
    BY DEF Schedule
  <1>2. hl - 1 \in HopLimit
    BY HopTypes, RouterAssumption DEF HopLimit
  <1>3. entry(due) \in Entry
    BY <1>2 DEF Entry
  <1>4. /\ entry(due).packet = p /\ entry(due).hop_limit = hl - 1
        /\ entry(due).verified = verified
    OBVIOUS
  <1>5. \E s \in Slot : queue' = [queue EXCEPT ![s] = entry(due)]
    BY <1>1 DEF Earliest
  <1>6. overflowed' \in BOOLEAN
    BY <1>1 DEF TypeOK
  <1> HIDE DEF entry
  <1>7. QED
    BY <1>3, <1>4, <1>5, <1>6

LEMMA RememberKeeps ==
  ASSUME TypeOK, NEW p \in Packet, Remember(p)
  PROVE  /\ window' \in Seq(Packet) /\ Len(window') <= RingSize
         /\ p \in Members'
  <1>1. window \in Seq(Packet) /\ Len(window) \in Nat /\ Len(window) <= RingSize
    BY DEF TypeOK
  <1>2. CASE Len(window) < RingSize
    <2>1. window' = Append(window, p)
      BY <1>2 DEF Remember
    <2>2. /\ window' \in Seq(Packet) /\ Len(window') = Len(window) + 1
          /\ window'[Len(window) + 1] = p
      BY <1>1, <2>1
    <2>3. Len(window) + 1 \in DOMAIN window'
      BY <1>1, <2>2
    <2>4. QED
      BY <1>1, <1>2, <2>2, <2>3, RouterAssumption DEF Members
  <1>3. CASE ~(Len(window) < RingSize)
    <2>1. Len(window) = RingSize /\ window # <<>> /\ window' = Append(Tail(window), p)
      BY <1>1, <1>3, RouterAssumption DEF Remember
    <2>2. Tail(window) \in Seq(Packet) /\ Len(Tail(window)) = RingSize - 1
      BY <1>1, <2>1, HeadTailProperties
    <2>3. /\ window' \in Seq(Packet) /\ Len(window') = RingSize
          /\ window'[RingSize] = p
      BY <2>1, <2>2, RouterAssumption
    <2>4. RingSize \in DOMAIN window'
      BY <2>3, RouterAssumption
    <2>5. QED
      BY <2>3, <2>4, RouterAssumption DEF Members
  <1>4. QED
    BY <1>2, <1>3

LEMMA OpaqueRecordedType ==
  ASSUME TypeOK, NEW p \in Packet
  PROVE  OpaqueRecorded(opaque_seen, p) \in [slot  : [0..OpaqueSize-1 -> Packet \cup {NoRecord}],
                                             head  : 0..OpaqueSize-1,
                                             count : 0..OpaqueSize]
  <1> DEFINE o == opaque_seen
             g == Push(o, OpaqueSize, p)
  <1>1. /\ o.slot \in [0..OpaqueSize-1 -> Packet \cup {NoRecord}]
        /\ o.head \in 0..OpaqueSize-1 /\ o.count \in 0..OpaqueSize
    BY DEF TypeOK
  <1>2. /\ [o.slot EXCEPT ![o.head] = p] \in [0..OpaqueSize-1 -> Packet \cup {NoRecord}]
        /\ (o.head + 1) % OpaqueSize \in 0..OpaqueSize-1
        /\ (IF o.count < OpaqueSize THEN o.count + 1 ELSE o.count) \in 0..OpaqueSize
    BY <1>1, RouterAssumption
  <1>3. g \in [slot  : [0..OpaqueSize-1 -> Packet \cup {NoRecord}],
               head  : 0..OpaqueSize-1,
               count : 0..OpaqueSize]
    BY <1>2 DEF Push
  <1>4. QED
    BY <1>3 DEF OpaqueRecorded, TypeOK

-----------------------------------------------------------------------------
(* Writing one entry.                                                      *)

LEMMA WriteKeepsQueue ==
  ASSUME TypeOK, HopBudget, NEW s \in Slot, NEW e \in Entry, e.hop_limit < HopStart[e.packet],
         queue' = [queue EXCEPT ![s] = e]
  PROVE  queue' \in [Slot -> Entry \cup {Free}] /\ HopBudget'
  <1>1. queue' \in [Slot -> Entry \cup {Free}]
    BY DEF TypeOK
  <1>2. queue'[s] = e /\ \A t \in Slot : t # s => queue'[t] = queue[t]
    BY DEF TypeOK
  <1>3. QED
    BY <1>1, <1>2 DEF HopBudget

\* A packet that waits nowhere and was not relayed may be queued.
LEMMA WriteKeepsOnce ==
  ASSUME TypeOK, Once, NoneForgotten, NEW s \in Slot, NEW e \in Entry,
         queue' = [queue EXCEPT ![s] = e], relayed' = relayed,
         e.packet \in Public => /\ e.packet \in Members'
                                /\ relayed[e.packet] = 0
                                /\ Matching(e.packet) \subseteq {s}
  PROVE  Once'
  <1>1. queue'[s] = e /\ \A t \in Slot : t # s => queue'[t] = queue[t]
    BY DEF TypeOK
  <1>2. \A p \in Packet : p # e.packet => Matching(p)' \subseteq Matching(p)
    BY <1>1 DEF Matching
  <1>3. e.packet \in Packet
    BY DEF Entry
  <1>4. Remembered'
    BY <1>2 DEF Once, Remembered, NoneForgotten, Public
  <1>5. OnePlace'
    BY <1>1 DEF Once, OnePlace, Used, Matching
  <1>6. NotAgain'
    BY <1>2 DEF Once, NotAgain, Public
  <1>7. QED
    BY <1>4, <1>5, <1>6 DEF Once

\* Entries may go, or wait less, without harm.
LEMMA ThinKeepsOnce ==
  ASSUME Once, NoneForgotten, relayed' = relayed,
         \A s \in Slot : Used(s)' => Used(s) /\ queue'[s].packet = queue[s].packet
  PROVE  Once'
  <1>1. \A p \in Packet : Matching(p)' \subseteq Matching(p)
    BY DEF Matching, Used
  <1>2. Remembered'
    BY <1>1 DEF Once, Remembered, NoneForgotten, Public
  <1>3. OnePlace'
    BY DEF Once, OnePlace
  <1>4. NotAgain'
    BY <1>1 DEF Once, NotAgain, Public
  <1>5. QED
    BY <1>2, <1>3, <1>4 DEF Once

-----------------------------------------------------------------------------
LEMMA InitHolds == Init => IInv
  <1> SUFFICES ASSUME Init PROVE IInv
    OBVIOUS
  <1>1. \A s \in Slot : ~Used(s)
    BY DEF Init, Used
  <1>2. opaque_seen \in [slot  : [0..OpaqueSize-1 -> Packet \cup {NoRecord}],
                         head  : 0..OpaqueSize-1,
                         count : 0..OpaqueSize]
    BY RouterAssumption DEF Init, EmptyRing
  <1>3. TypeOK
    <2>1. window \in Seq(Packet) /\ Len(window) = 0
      BY DEF Init
    <2>2. relayed \in [Packet -> 0..2] /\ queue \in [Slot -> Entry \cup {Free}]
      BY DEF Init
    <2>3. role \in Roles /\ hasKey \in BOOLEAN /\ overflowed \in BOOLEAN
      BY DEF Init
    <2>4. QED
      BY <1>2, <2>1, <2>2, <2>3, RouterAssumption DEF TypeOK
  <1>4. QED
    BY <1>1, <1>3 DEF IInv, Bounded, HopBudget, Once, Remembered, OnePlace, NotAgain, Used,
                      Matching, Init, Public

LEMMA NewStep ==
  ASSUME Bounded, NEW p \in Packet, NEW hl \in Heard[p], NEW relay \in Byte,
         ReceiveNew(p, hl, relay)
  PROVE  Bounded' /\ (Once /\ NoneForgotten => Once')
  <1>1. UNCHANGED <<role, hasKey, opaque_seen, relayed>> /\ Remember(p)
    BY DEF ReceiveNew
  <1>2. TypeOK /\ HopBudget
    BY DEF Bounded
  <1>3. window' \in Seq(Packet) /\ Len(window') <= RingSize /\ p \in Members'
    BY <1>1, <1>2, RememberKeeps
  <1>4. p \notin Members
    BY DEF ReceiveNew, Verdict
  <1>5. CASE Relays(p, hl)
    <2>1. hl > 0 /\ Schedule(p, hl, TRUE)
      BY <1>5 DEF ReceiveNew, Relays, ShouldRebroadcast
    <2>2. PICK s \in Slot, e \in Entry :
            /\ queue' = [queue EXCEPT ![s] = e]
            /\ e.packet = p /\ e.hop_limit = hl - 1 /\ e.verified = TRUE
      <3>1. TRUE \in BOOLEAN
        OBVIOUS
      <3>2. QED
        BY <1>2, <2>1, <3>1, ScheduleWrites
    <2>3. overflowed' \in BOOLEAN
      BY <1>2, <2>1, ScheduleWrites, Zenon
    <2>4. e.hop_limit < HopStart[e.packet]
      BY <2>2, HopTypes
    <2>5. queue' \in [Slot -> Entry \cup {Free}] /\ HopBudget'
      BY <1>2, <2>2, <2>4, WriteKeepsQueue
    <2>6. Bounded'
      BY <1>1, <1>2, <1>3, <2>3, <2>5 DEF Bounded, TypeOK
    <2>7. ASSUME Once, NoneForgotten PROVE Once'
      <3>1. p \in Public => relayed[p] = 0 /\ Matching(p) = {}
        BY <1>2, <1>4, <2>7 DEF Once, Remembered, Public, TypeOK
      <3>2. QED
        BY <1>1, <1>2, <1>3, <2>2, <2>7, <3>1, WriteKeepsOnce
    <2>8. QED
      BY <2>6, <2>7
  <1>6. CASE ~Relays(p, hl)
    <2>1. UNCHANGED <<queue, overflowed>>
      BY <1>6 DEF ReceiveNew
    <2>2. Bounded'
      BY <1>1, <1>2, <1>3, <2>1 DEF Bounded, TypeOK, HopBudget
    <2>3. ASSUME Once, NoneForgotten PROVE Once'
      BY <1>1, <2>1, <2>3, ThinKeepsOnce DEF Used
    <2>4. QED
      BY <2>2, <2>3
  <1>7. QED
    BY <1>5, <1>6

LEMMA UpgradeStep ==
  ASSUME Bounded, NEW p \in Packet, NEW hl \in Heard[p], NEW relay \in Byte, NEW s \in Slot,
         ReceiveUpgrade(p, hl, relay, s)
  PROVE  Bounded' /\ (Once /\ NoneForgotten => Once')
  <1>1. UNCHANGED <<role, hasKey, window, opaque_seen, relayed, overflowed>>
    BY DEF ReceiveUpgrade
  <1>2. TypeOK /\ HopBudget
    BY DEF Bounded
  <1>3. Used(s) /\ queue[s].packet = p /\ queue[s] \in Entry /\ queue[s].hop_limit \in HopLimit
    BY <1>2, UsedEntry DEF ReceiveUpgrade, Matching, Used
  <1>4. hl > queue[s].hop_limit
    BY DEF ReceiveUpgrade, Verdict, Better
  <1>5. hl - 1 \in HopLimit /\ hl - 1 < HopStart[p]
    BY <1>3, <1>4, HopTypes, RouterAssumption DEF HopLimit
  <1> DEFINE e == Upgraded(queue[s], hl)
  <1>6. e \in Entry /\ e.packet = p /\ e.hop_limit = hl - 1
    BY <1>3, <1>5 DEF Upgraded, Entry
  <1>7. queue' = [queue EXCEPT ![s] = e]
    BY DEF ReceiveUpgrade
  <1> HIDE DEF e
  <1>8. queue' \in [Slot -> Entry \cup {Free}] /\ HopBudget'
    BY <1>2, <1>5, <1>6, <1>7, WriteKeepsQueue
  <1>9. Bounded'
    BY <1>1, <1>2, <1>8 DEF Bounded, TypeOK
  <1>10. ASSUME Once, NoneForgotten PROVE Once'
    <2>1. queue'[s] = e /\ \A t \in Slot : t # s => queue'[t] = queue[t]
      BY <1>2, <1>7 DEF TypeOK
    <2>2. QED
      BY <1>1, <1>3, <1>6, <1>10, <2>1, ThinKeepsOnce DEF Used
  <1>11. QED
    BY <1>9, <1>10

LEMMA CancelStep ==
  ASSUME Bounded, NEW p \in Packet, NEW hl \in Heard[p], NEW relay \in Byte,
         ReceiveCancel(p, hl, relay)
  PROVE  Bounded' /\ (Once /\ NoneForgotten => Once')
  <1>1. UNCHANGED <<role, hasKey, window, opaque_seen, relayed, overflowed>>
    BY DEF ReceiveCancel
  <1>2. queue' = [s \in Slot |-> IF s \in Matching(p) THEN Free ELSE queue[s]]
    BY DEF ReceiveCancel
  <1>3. Bounded'
    BY <1>1, <1>2 DEF Bounded, TypeOK, HopBudget
  <1>4. ASSUME Once, NoneForgotten PROVE Once'
    BY <1>1, <1>2, <1>4, ThinKeepsOnce DEF Used
  <1>5. QED
    BY <1>3, <1>4

LEMMA OpaqueStep ==
  ASSUME Bounded, NEW p \in Packet, NEW hl \in Heard[p], ReceiveOpaque(p, hl)
  PROVE  Bounded' /\ (Once /\ NoneForgotten => Once')
  <1>1. UNCHANGED <<role, hasKey, window, relayed>>
    BY DEF ReceiveOpaque
  <1>2. TypeOK /\ HopBudget
    BY DEF Bounded
  <1>3. p \notin Public
    BY DEF ReceiveOpaque, Decodes, Public
  <1>4. hl > 0 /\ Schedule(p, hl, FALSE) /\ opaque_seen' = OpaqueRecorded(opaque_seen, p)
    BY DEF ReceiveOpaque
  <1>5. PICK s \in Slot, e \in Entry :
          /\ queue' = [queue EXCEPT ![s] = e]
          /\ e.packet = p /\ e.hop_limit = hl - 1 /\ e.verified = FALSE
    <2>1. FALSE \in BOOLEAN
      OBVIOUS
    <2>2. QED
      BY <1>2, <1>4, <2>1, ScheduleWrites
  <1>6. overflowed' \in BOOLEAN
    BY <1>2, <1>4, ScheduleWrites
  <1>7. queue' \in [Slot -> Entry \cup {Free}] /\ HopBudget'
    <2>1. e.hop_limit < HopStart[e.packet]
      BY <1>5, HopTypes
    <2>2. QED
      BY <1>2, <1>5, <2>1, WriteKeepsQueue
  <1>8. Bounded'
    BY <1>1, <1>2, <1>4, <1>6, <1>7, OpaqueRecordedType DEF Bounded, TypeOK
  <1>9. ASSUME Once, NoneForgotten PROVE Once'
    BY <1>1, <1>2, <1>3, <1>5, <1>9, WriteKeepsOnce
  <1>10. QED
    BY <1>8, <1>9

LEMMA FireStep ==
  ASSUME Bounded, NEW s \in Slot, FireRebroadcast(s)
  PROVE  Bounded' /\ (Once /\ NoneForgotten => Once')
  <1>1. UNCHANGED <<role, hasKey, window, opaque_seen, overflowed>>
    BY DEF FireRebroadcast
  <1>2. TypeOK /\ HopBudget
    BY DEF Bounded
  <1>3. PICK p \in Packet : Used(s) /\ queue[s].packet = p
    BY <1>2, UsedEntry DEF FireRebroadcast, Earliest, Used
  <1>4. ~Used(s)' /\ \A t \in Slot : t # s => queue'[t] = queue[t]
    BY <1>2 DEF FireRebroadcast, TypeOK, Used
  <1>5. /\ relayed' \in [Packet -> 0..2]
        /\ \A q \in Packet : q # p => relayed'[q] = relayed[q]
        /\ relayed[p] = 0 => relayed'[p] \in 0..1
    <2>1. CASE queue[s].verified
      <3>1. relayed' = [relayed EXCEPT ![p] = AtMostTwo(relayed[p] + 1)]
        BY <1>3, <2>1 DEF FireRebroadcast
      <3>2. relayed \in [Packet -> 0..2]
        BY <1>2 DEF TypeOK
      <3>3. AtMostTwo(relayed[p] + 1) \in 0..2 /\ (relayed[p] = 0 => AtMostTwo(relayed[p] + 1) \in 0..1)
        BY <1>3, <3>2 DEF AtMostTwo
      <3>4. QED
        BY <1>3, <3>1, <3>2, <3>3
    <2>2. CASE ~queue[s].verified
      BY <1>2, <2>2 DEF FireRebroadcast, TypeOK
    <2>3. QED
      BY <2>1, <2>2
  <1>6. Bounded'
    BY <1>1, <1>2, <1>5 DEF Bounded, TypeOK, HopBudget, FireRebroadcast
  <1>7. ASSUME Once, NoneForgotten PROVE Once'
    <2>1. \A q \in Packet : Matching(q)' \subseteq Matching(q) \ {s}
      BY <1>4 DEF Matching, Used
    <2>2. p \in Public => p \in Members /\ relayed[p] = 0 /\ Matching(p)' = {}
      <3>1. SUFFICES ASSUME p \in Public PROVE p \in Members /\ relayed[p] = 0 /\ Matching(p)' = {}
        OBVIOUS
      <3>2. s \in Matching(p)
        BY <1>3 DEF Matching, Used
      <3>3. Matching(p) \subseteq {s}
        BY <1>3, <1>7, <3>1 DEF Once, OnePlace, Matching, Used
      <3>4. relayed[p] \in 0..2
        BY <1>2, <1>3 DEF TypeOK
      <3>5. relayed[p] = 0
        BY <1>7, <3>1, <3>2, <3>4 DEF Once, NotAgain
      <3>6. p \in Members
        BY <1>7, <3>1, <3>2 DEF Once, Remembered
      <3>7. Matching(p)' = {}
        BY <1>3, <2>1, <3>3
      <3>8. QED
        BY <3>5, <3>6, <3>7
    <2>3. Remembered'
      BY <1>5, <1>7, <2>1, <2>2 DEF Once, Remembered, NoneForgotten, Public
    <2>4. OnePlace'
      BY <1>4, <1>7 DEF Once, OnePlace, Used
    <2>5. NotAgain'
      <3>1. SUFFICES ASSUME NEW q \in Public
                     PROVE  relayed'[q] <= 1 /\ (relayed'[q] = 1 => Matching(q)' = {})
        BY DEF NotAgain
      <3>2. CASE q = p
        <4>1. relayed'[q] \in 0..1
          BY <1>5, <2>2, <3>2
        <4>2. QED
          BY <2>2, <3>2, <4>1
      <3>3. CASE q # p
        BY <1>5, <1>7, <2>1, <3>3 DEF Once, NotAgain, Public
      <3>4. QED
        BY <3>2, <3>3
    <2>6. QED
      BY <2>3, <2>4, <2>5 DEF Once
  <1>8. QED
    BY <1>6, <1>7

LEMMA TickStep ==
  ASSUME Bounded, Tick
  PROVE  Bounded' /\ (Once /\ NoneForgotten => Once')
  <1>1. UNCHANGED <<role, hasKey, window, opaque_seen, relayed, overflowed>>
    BY DEF Tick
  <1>2. TypeOK /\ HopBudget
    BY DEF Bounded
  <1>3. ASSUME NEW s \in Slot, Used(s)
        PROVE  /\ queue'[s] \in Entry
               /\ queue'[s].packet = queue[s].packet
               /\ queue'[s].hop_limit = queue[s].hop_limit
    <2>1. queue[s] \in Entry /\ queue[s].due \in 0..MaxDelay
      BY <1>2, <1>3, UsedEntry
    <2>2. CASE queue[s].due > 0
      <3>1. queue'[s] = [queue[s] EXCEPT !.due = queue[s].due - 1]
        BY <1>3, <2>2 DEF Tick, Used
      <3>2. queue[s].due - 1 \in 0..MaxDelay
        BY <2>1, <2>2, SchedulerAssumption
      <3>3. QED
        BY <2>1, <3>1, <3>2 DEF Entry
    <2>3. CASE ~(queue[s].due > 0)
      BY <1>3, <2>1, <2>3 DEF Tick, Used
    <2>4. QED
      BY <2>2, <2>3
  <1>4. \A s \in Slot : ~Used(s) => queue'[s] = Free
    BY DEF Tick, Used
  <1>5. queue' \in [Slot -> Entry \cup {Free}]
    <2>1. \A s \in Slot : queue'[s] \in Entry \cup {Free}
      BY <1>3, <1>4
    <2>2. QED
      BY <2>1 DEF Tick
  <1>6. HopBudget'
    BY <1>2, <1>3, <1>4 DEF HopBudget, Used
  <1>7. Bounded'
    BY <1>1, <1>2, <1>5, <1>6 DEF Bounded, TypeOK
  <1>8. ASSUME Once, NoneForgotten PROVE Once'
    BY <1>1, <1>3, <1>4, <1>8, ThinKeepsOnce DEF Used
  <1>9. QED
    BY <1>7, <1>8

LEMMA StepKeeps ==
  ASSUME Bounded, [Next]_vars
  PROVE  Bounded' /\ (Once /\ NoneForgotten => Once')
  <1>1. CASE UNCHANGED vars
    BY <1>1, ThinKeepsOnce DEF vars, Bounded, TypeOK, HopBudget, Used
  <1>2. ASSUME NEW p \in Packet, NEW hl \in Heard[p], ReceiveOpaque(p, hl)
        PROVE  Bounded' /\ (Once /\ NoneForgotten => Once')
    BY <1>2, OpaqueStep
  <1>3. ASSUME NEW p \in Packet, NEW hl \in Heard[p], NEW relay \in Byte,
               ReceiveNew(p, hl, relay) \/ ReceiveCancel(p, hl, relay)
        PROVE  Bounded' /\ (Once /\ NoneForgotten => Once')
    BY <1>3, NewStep, CancelStep
  <1>4. ASSUME NEW p \in Packet, NEW hl \in Heard[p], NEW relay \in Byte, NEW s \in Slot,
               ReceiveUpgrade(p, hl, relay, s)
        PROVE  Bounded' /\ (Once /\ NoneForgotten => Once')
    BY <1>4, UpgradeStep
  <1>5. ASSUME NEW s \in Slot, FireRebroadcast(s)
        PROVE  Bounded' /\ (Once /\ NoneForgotten => Once')
    BY <1>5, FireStep
  <1>6. CASE Tick
    BY <1>6, TickStep
  <1>7. CASE SetChannel
    BY <1>7, ThinKeepsOnce DEF SetChannel, Bounded, TypeOK, HopBudget, Used
  <1>8. QED
    BY <1>1, <1>2, <1>3, <1>4, <1>5, <1>6, <1>7 DEF Next, Receive

-----------------------------------------------------------------------------
\* The queue, the window and the seen-set of blind relays keep their shape, however
\* full they are (MeshCtx.pending_rebroadcast, MeshRouter).
THEOREM SchedulerTypeCorrect == Spec => []TypeOK
  <1>1. Init => Bounded
    BY InitHolds DEF IInv
  <1>2. Bounded /\ [Next]_vars => Bounded'
    BY StepKeeps
  <1>3. Bounded => TypeOK
    BY DEF Bounded
  <1>4. QED
    BY <1>1, <1>2, <1>3, PTL DEF Spec

\* Every queued rebroadcast has spent a hop of its packet's budget, for every hop limit
\* and every order of copies (with_rewritten_header, should_rebroadcast).
THEOREM FloodSpendsHops == Spec => []HopBudget
  <1>1. Init => Bounded
    BY InitHolds DEF IInv
  <1>2. Bounded /\ [Next]_vars => Bounded'
    BY StepKeeps
  <1>3. Bounded => HopBudget
    BY DEF Bounded
  <1>4. QED
    BY <1>1, <1>2, <1>3, PTL DEF Spec

LEMMA OnceSuffices == Bounded /\ Once => RelayedOnce
  <1> SUFFICES ASSUME Bounded, Once, NEW p \in Public
               PROVE  relayed[p] + Cardinality({s \in Matching(p) : queue[s].verified}) <= 1
    BY DEF RelayedOnce, Public
  <1> DEFINE waiting == {s \in Matching(p) : queue[s].verified}
  <1>1. \E s \in Slot : waiting \subseteq {s}
    BY SchedulerAssumption DEF Once, OnePlace, Matching, Used
  <1>2. waiting = {} \/ \E s \in Slot : waiting = {s}
    BY <1>1
  <1>3. Cardinality(waiting) = 0 \/ (Cardinality(waiting) = 1 /\ Matching(p) # {})
    BY <1>2, FS_EmptySet, FS_Singleton
  <1>4. relayed[p] \in 0..2 /\ relayed[p] <= 1 /\ (relayed[p] = 1 => Matching(p) = {})
    BY DEF Bounded, TypeOK, Once, NotAgain, Public
  <1>5. relayed[p] = 1 => Cardinality(waiting) = 0
    BY <1>4, FS_EmptySet
  <1> HIDE DEF waiting
  <1>6. relayed[p] + Cardinality(waiting) <= 1
    BY <1>3, <1>4, <1>5
  <1>7. QED
    BY <1>6 DEF waiting

\* As long as the duplicate ring displaces no packet, a verified packet of a channel
\* whose key does not come and go is put on the air at most once, whatever copies and
\* relays of it are heard (should_filter_received, schedule_rebroadcast).  A ring that
\* holds every packet, as in the run, displaces none.
THEOREM RelayedOnceWhileRemembered ==
  Spec /\ [][Members \subseteq Members']_vars => []RelayedOnce
  <1>1. Init => IInv
    BY InitHolds
  <1>2. IInv /\ [Next]_vars /\ [Members \subseteq Members']_vars => IInv'
    <2>1. ASSUME IInv, [Next]_vars, Members \subseteq Members' PROVE IInv'
      BY <2>1, StepKeeps DEF IInv, NoneForgotten
    <2>2. ASSUME IInv, [Next]_vars, UNCHANGED vars PROVE IInv'
      <3>1. Members \subseteq Members'
        BY <2>2 DEF vars, Members
      <3>2. QED
        BY <2>1, <2>2, <3>1
    <2>3. QED
      BY <2>1, <2>2
  <1>3. IInv => RelayedOnce
    BY OnceSuffices DEF IInv
  <1>4. QED
    BY <1>1, <1>2, <1>3, PTL DEF Spec

-----------------------------------------------------------------------------
(* A ring with a slot for every packet forgets none.                       *)

AllFit == IsFiniteSet(Packet) /\ Cardinality(Packet) <= RingSize

\* A packet enters the window only when it is not in it.
Distinct ==
  \A i, j \in 1..Len(window) : window[i] = window[j] => i = j

\* Distinct packets fill the window only when all of them are in it.
LEMMA RoomForNew ==
  ASSUME AllFit, TypeOK, Distinct, NEW p \in Packet, p \notin Members
  PROVE  Len(window) < RingSize
  <1>1. window \in Seq(Packet) /\ Len(window) \in Nat /\ Len(window) <= RingSize
    BY DEF TypeOK
  <1> SUFFICES ASSUME Len(window) = RingSize PROVE FALSE
    BY <1>1, RouterAssumption
  <1>2. PICK n \in Nat \ {0} : n = RingSize
    BY RouterAssumption
  <1>3. IsFiniteSet(1..n) /\ Cardinality(1..n) = n
    BY FS_Interval
  <1>4. /\ IsFiniteSet(Packet \ {p}) /\ Cardinality(Packet \ {p}) = Cardinality(Packet) - 1
        /\ Cardinality(Packet) \in Nat
    BY FS_RemoveElement, FS_CardinalityType DEF AllFit
  <1>5. Cardinality(Packet \ {p}) < Cardinality(1..n)
    BY <1>2, <1>3, <1>4 DEF AllFit
  <1>6. window \in [1..n -> Packet \ {p}]
    <2>1. window \in [1..n -> Packet] /\ DOMAIN window = 1..n
      BY <1>1, <1>2
    <2>2. \A i \in 1..n : window[i] # p
      BY <2>1 DEF Members
    <2>3. QED
      BY <2>1, <2>2
  <1>7. \E x, y \in 1..n : x # y /\ window[x] = window[y]
    BY <1>3, <1>4, <1>5, <1>6, FS_PigeonHole
  <1>8. QED
    BY <1>2, <1>7 DEF Distinct

LEMMA NewJoins ==
  ASSUME AllFit, TypeOK, Distinct, NEW p \in Packet, p \notin Members, Remember(p)
  PROVE  Distinct' /\ NoneForgotten
  <1>1. window \in Seq(Packet) /\ Len(window) \in Nat /\ DOMAIN window = 1..Len(window)
    BY DEF TypeOK
  <1>2. window' = Append(window, p)
    BY RoomForNew DEF Remember
  <1>3. PICK n \in Nat : n = Len(window)
    BY <1>1
  <1>4. /\ window' \in Seq(Packet) /\ Len(window') = n + 1 /\ DOMAIN window' = 1..(n + 1)
        /\ \A i \in 1..n : window'[i] = window[i]
        /\ window'[n + 1] = p
    BY <1>1, <1>2, <1>3, AppendProperties
  <1>5. \A i \in 1..n : window[i] # p
    BY <1>1, <1>3 DEF Members
  <1>6. \A i \in 1..(n + 1) : i \in 1..n \/ i = n + 1
    BY <1>3
  <1>7. Distinct'
    <2> SUFFICES ASSUME NEW i \in 1..(n + 1), NEW j \in 1..(n + 1), window'[i] = window'[j]
                 PROVE  i = j
      BY <1>4 DEF Distinct
    <2>1. CASE i \in 1..n /\ j \in 1..n
      BY <1>3, <1>4, <2>1 DEF Distinct
    <2>2. CASE i = n + 1 \/ j = n + 1
      BY <1>4, <1>5, <1>6, <2>2
    <2>3. QED
      BY <1>6, <2>1, <2>2
  <1>8. NoneForgotten
    <2> SUFFICES ASSUME NEW i \in 1..n PROVE window[i] \in Members'
      BY <1>1, <1>3 DEF NoneForgotten, Members
    <2>1. i \in 1..(n + 1) /\ window'[i] = window[i]
      BY <1>3, <1>4
    <2>2. QED
      BY <1>4, <2>1 DEF Members
  <1>9. QED
    BY <1>7, <1>8

LEMMA NothingForgotten ==
  ASSUME AllFit, TypeOK, Distinct, [Next]_vars
  PROVE  Distinct' /\ NoneForgotten
  <1>1. CASE UNCHANGED window
    BY <1>1 DEF Distinct, NoneForgotten, Members
  <1>2. ASSUME NEW p \in Packet, NEW hl \in Heard[p], NEW relay \in Byte,
               ReceiveNew(p, hl, relay)
        PROVE  Distinct' /\ NoneForgotten
    <2>1. p \notin Members /\ Remember(p)
      BY <1>2 DEF ReceiveNew, Verdict
    <2>2. QED
      BY <2>1, NewJoins
  <1>3. UNCHANGED window \/ \E p \in Packet : \E hl \in Heard[p], relay \in Byte :
                              ReceiveNew(p, hl, relay)
    BY DEF Next, Receive, ReceiveOpaque, ReceiveCancel, ReceiveUpgrade, FireRebroadcast, Tick,
           SetChannel, vars
  <1>4. QED
    BY <1>1, <1>2, <1>3

\* In a mesh with no more packets than the duplicate ring has slots, every verified packet
\* of a channel whose key does not come and go is relayed at most once, without further
\* assumption (should_filter_received, record_packet, schedule_rebroadcast).
THEOREM RelayedOnceWhenAllFit == ASSUME AllFit PROVE Spec => []RelayedOnce
  <1>1. Init => IInv /\ Distinct
    BY InitHolds DEF Init, Distinct
  <1>2. IInv /\ Distinct /\ [Next]_vars => (IInv /\ Distinct)'
    BY NothingForgotten, StepKeeps DEF IInv, Bounded
  <1>3. IInv => RelayedOnce
    BY OnceSuffices DEF IInv
  <1>4. QED
    BY <1>1, <1>2, <1>3, PTL DEF Spec

=============================================================================
