------------------------ MODULE PacketHistoryProofs -------------------------
(***************************************************************************)
(* Proofs about the duplicate ring for every ring size, set of packets,    *)
(* hop limit and role.                                                     *)
(***************************************************************************)
EXTENDS PacketHistory, FiniteSetTheorems, SequenceTheorems, TLAPS

USE DEF HopLimit

Index == 0..RingSize-1

Ring == [slot : [Index -> Record \cup {NoRecord}], head : Index, count : 0..RingSize]

\* The ring holds a used slot exactly below count, and a packet at most once.
Sound(h) ==
  /\ \A i \in Index : i < h.count <=> h.slot[i] # NoRecord
  /\ h.count < RingSize => h.head = h.count
  /\ \A i, j \in Index :
       /\ h.slot[i] # NoRecord
       /\ h.slot[j] # NoRecord
       /\ h.slot[i].packet = h.slot[j].packet
       => i = j

IInv == TypeOK /\ Sound(history)

\* The head wraps around: advancing it stays inside the ring, by one or to 0.
LEMMA HeadAdvances ==
  ASSUME NEW i \in Index
  PROVE  /\ (i + 1) % RingSize \in Index
         /\ i + 1 < RingSize => (i + 1) % RingSize = i + 1
  BY RouterAssumption DEF Index

\* Noting a relayer keeps a record a record, of the same packet.
LEMMA AddRelayerKeeps ==
  ASSUME NEW rec \in Record, NEW b \in Byte
  PROVE  /\ AddRelayer(rec, b) \in Record
         /\ AddRelayer(rec, b).packet = rec.packet
  BY DEF AddRelayer, Record

LEMMA TouchedKeeps ==
  ASSUME NEW rec \in Record, NEW p \in Packet, NEW hl \in HopLimit, NEW b \in Byte,
         NEW pending
  PROVE  /\ Touched(rec, p, hl, b, pending) \in Record
         /\ Touched(rec, p, hl, b, pending).packet = rec.packet
  <1>1. AddRelayer(rec, b) \in Record /\ AddRelayer(rec, b).packet = rec.packet
    BY AddRelayerKeeps
  <1>2. QED
    BY <1>1 DEF Touched, Record

\* Recording a packet that no used slot holds keeps the ring sound.
LEMMA PushSound ==
  ASSUME NEW h \in Ring, Sound(h), NEW rec \in Record, ~Seen(h, rec.packet)
  PROVE  Push(h, RingSize, rec) \in Ring /\ Sound(Push(h, RingSize, rec))
  <1> DEFINE g == Push(h, RingSize, rec)
  <1>1. /\ g.slot = [h.slot EXCEPT ![h.head] = rec]
        /\ g.head = (h.head + 1) % RingSize
        /\ g.count = IF h.count < RingSize THEN h.count + 1 ELSE h.count
        /\ g = [slot |-> g.slot, head |-> g.head, count |-> g.count]
    BY DEF Push
  <1>2. h.head \in Index /\ h.count \in 0..RingSize /\ h.slot \in [Index -> Record \cup {NoRecord}]
    BY DEF Ring
  <1>3. g \in Ring
    <2>1. g.slot \in [Index -> Record \cup {NoRecord}]
      BY <1>1, <1>2
    <2>2. g.head \in Index
      BY <1>1, <1>2, HeadAdvances
    <2>3. g.count \in 0..RingSize
      BY <1>1, <1>2, RouterAssumption
    <2>4. QED
      BY <1>1, <2>1, <2>2, <2>3 DEF Ring
  <1>4. rec # NoRecord
    BY RouterAssumption
  <1>5. \A i \in Index : g.slot[i] = IF i = h.head THEN rec ELSE h.slot[i]
    BY <1>1, <1>2
  <1>6. \A i \in Index : i < g.count <=> g.slot[i] # NoRecord
    <2>1. CASE h.count < RingSize
      BY <2>1, <1>1, <1>2, <1>4, <1>5, RouterAssumption DEF Sound, Index
    <2>2. CASE h.count = RingSize
      BY <2>2, <1>1, <1>2, <1>4, <1>5, RouterAssumption DEF Sound, Index
    <2>3. QED
      BY <2>1, <2>2, <1>2, RouterAssumption
  <1>7. g.count < RingSize => g.head = g.count
    BY <1>1, <1>2, HeadAdvances, RouterAssumption DEF Sound, Index
  <1>8. \A i \in Index : h.slot[i] # NoRecord => h.slot[i].packet # rec.packet
    BY DEF Seen, FindRecord, Sound, Index
  <1>9. \A i, j \in Index :
          /\ g.slot[i] # NoRecord
          /\ g.slot[j] # NoRecord
          /\ g.slot[i].packet = g.slot[j].packet
          => i = j
    BY <1>5, <1>8 DEF Sound
  <1>10. QED
    BY <1>3, <1>6, <1>7, <1>9 DEF Sound

\* Hearing a recorded packet again changes its record in place.
LEMMA TouchSound ==
  ASSUME NEW h \in Ring, Sound(h), NEW p \in Packet, NEW hl \in HopLimit, NEW b \in Byte,
         NEW pending, Seen(h, p)
  PROVE  /\ Filtered(h, p, hl, b, pending) \in Ring
         /\ Sound(Filtered(h, p, hl, b, pending))
         /\ \A i \in Index : h.slot[i] # NoRecord =>
              Filtered(h, p, hl, b, pending).slot[i].packet = h.slot[i].packet
  <1> DEFINE g == Filtered(h, p, hl, b, pending)
             new(i) == IF i \in FindRecord(h, p) THEN Touched(h.slot[i], p, hl, b, pending)
                       ELSE h.slot[i]
  <1>1. h.head \in Index /\ h.count \in 0..RingSize /\ h.slot \in [Index -> Record \cup {NoRecord}]
    BY DEF Ring
  <1>2. /\ g.slot = [i \in Index |-> new(i)]
        /\ g.head = h.head /\ g.count = h.count
        /\ g = [slot |-> g.slot, head |-> g.head, count |-> g.count]
    BY DEF Filtered, Index, Ring
  <1>3. \A i \in Index : h.slot[i] # NoRecord =>
          new(i) \in Record /\ new(i).packet = h.slot[i].packet
    BY <1>1, TouchedKeeps
  <1>4. \A i \in Index : h.slot[i] = NoRecord => new(i) = NoRecord
    BY DEF FindRecord
  <1>5. \A i \in Index : new(i) \in Record \cup {NoRecord} /\ (new(i) = NoRecord <=> h.slot[i] = NoRecord)
    BY <1>3, <1>4, RouterAssumption
  <1> HIDE DEF new
  <1>6. g \in Ring
    BY <1>1, <1>2, <1>5 DEF Ring
  <1>7. Sound(g)
    BY <1>2, <1>3, <1>5 DEF Sound
  <1>8. QED
    BY <1>2, <1>3, <1>6, <1>7

LEMMA InitSound == Init => IInv
  <1> SUFFICES ASSUME Init PROVE IInv
    OBVIOUS
  <1>1. history = [slot |-> [i \in Index |-> NoRecord], head |-> 0, count |-> 0]
    BY DEF Init, EmptyRing, Index
  <1>2. history \in Ring
    BY <1>1, RouterAssumption DEF Ring, Index
  <1>3. Sound(history)
    BY <1>1 DEF Sound, Index
  <1>4. QED
    BY <1>2, <1>3 DEF Init, IInv, TypeOK, Ring, Index, FilterResult

LEMMA StepSound == IInv /\ [Next]_vars => IInv'
  <1> SUFFICES ASSUME IInv, [Next]_vars PROVE IInv'
    OBVIOUS
  <1>1. history \in Ring /\ Sound(history)
    BY DEF IInv, TypeOK, Ring, Index
  <1>2. ASSUME NEW p \in Packet, NEW hl \in HopLimit, NEW b \in Byte, NEW pending \in PendingHop,
               Filter(p, hl, b, pending)
        PROVE  IInv'
    <2>1. history' = Filtered(history, p, hl, b, pending)
      BY <1>2 DEF Filter
    <2>2. history' \in Ring /\ Sound(history')
      <3>1. CASE Seen(history, p)
        BY <3>1, <2>1, <1>1, TouchSound
      <3>2. CASE ~Seen(history, p)
        <4> DEFINE rec == AddRelayer(NewRecord(p, hl), b)
        <4>1. NewRecord(p, hl) \in Record /\ NewRecord(p, hl).packet = p
          BY DEF NewRecord, Record
        <4>2. rec \in Record /\ rec.packet = p
          BY <4>1, AddRelayerKeeps
        <4>3. history' = Push(history, RingSize, rec)
          BY <3>2, <2>1 DEF Filtered
        <4>4. QED
          BY <3>2, <4>2, <4>3, <1>1, PushSound
      <3>3. QED
        BY <3>1, <3>2
    <2>3. Verdict(Seen(history, p), hl, b, pending, OurRole) \in FilterResult
      BY DEF Verdict, FilterResult
    <2>4. verdict' \in [packet : Packet \cup {NoRecord}, result : FilterResult]
      BY <1>2, <2>3 DEF Filter
    <2>5. QED
      BY <2>2, <2>4 DEF IInv, TypeOK, Ring, Index
  <1>3. CASE UNCHANGED vars
    BY <1>3 DEF vars, IInv, TypeOK, Sound
  <1>4. QED
    BY <1>2, <1>3 DEF Next

\* The ring and the verdict keep their types: head and count stay inside the ring
\* however often record_packet wraps it.
THEOREM TypeCorrect == Spec => []TypeOK
  <1>1. IInv => TypeOK
    BY DEF IInv
  <1>2. QED
    BY InitSound, StepSound, <1>1, PTL DEF Spec

\* No packet is ever recorded in two slots, so find_record's first match is its
\* only match and one eviction forgets the packet.
THEOREM PacketRecordedOnce == Spec => []NoDuplicateRecords
  <1>1. IInv => NoDuplicateRecords
    BY DEF IInv, Sound, NoDuplicateRecords, Index
  <1>2. QED
    BY InitSound, StepSound, <1>1, PTL DEF Spec

\* The used slots of the ring are always the ones below history_count, the range
\* find_record scans.
THEOREM RingKeepsShape == Spec => []RingShape
  <1>1. IInv => RingShape
    BY DEF IInv, Sound, RingShape, Index
  <1>2. QED
    BY InitSound, StepSound, <1>1, PTL DEF Spec

-----------------------------------------------------------------------------
(* The ring implements the window of the packets accepted last.            *)

OldestIn(h) == IF h.count < RingSize THEN 0 ELSE h.head

\* The slot of the i-th packet of the window.
SlotOf(h, i) == (OldestIn(h) + i - 1) % RingSize

WindowOf(h) == [i \in 1..h.count |-> h.slot[SlotOf(h, i)].packet]

LEMMA WindowIs == Window = WindowOf(history)
  BY DEF Window, WindowOf, SlotOf, Oldest, OldestIn

LEMMA Wraps ==
  ASSUME NEW x \in Nat, x < RingSize + RingSize
  PROVE  x % RingSize = IF x < RingSize THEN x ELSE x - RingSize
  <1>1. RingSize \in Nat \ {0}
    BY RouterAssumption
  <1>2. CASE x < RingSize
    BY <1>1, <1>2
  <1>3. CASE ~(x < RingSize)
    <2>1. x - RingSize \in 0..(RingSize - 1) /\ x = 1 * RingSize + (x - RingSize)
      BY <1>1, <1>3
    <2>2. QED
      BY <1>1, <1>3, <2>1
  <1>4. QED
    BY <1>2, <1>3

\* The head goes to the next slot, from the last one to the first.
LEMMA NextHead ==
  ASSUME NEW i \in Index
  PROVE  (i + 1) % RingSize = IF i + 1 < RingSize THEN i + 1 ELSE 0
  <1>1. PICK x \in Nat : x = i + 1 /\ x < RingSize + RingSize /\ x <= RingSize
    BY RouterAssumption DEF Index
  <1>2. x % RingSize = IF x < RingSize THEN x ELSE x - RingSize
    BY <1>1, Wraps
  <1>3. QED
    BY <1>1, <1>2, RouterAssumption

LEMMA RingParts ==
  ASSUME NEW h \in Ring
  PROVE  /\ h.head \in Index /\ h.count \in 0..RingSize /\ RingSize \in Nat \ {0}
         /\ OldestIn(h) \in Index
         /\ \A i \in Index : h.slot[i] \in Record \cup {NoRecord}
  BY RouterAssumption DEF Ring, OldestIn, Index

\* Where the i-th packet is, without the modulus.
LEMMA SlotIs ==
  ASSUME NEW h \in Ring, NEW i \in 1..RingSize
  PROVE  /\ SlotOf(h, i) = IF OldestIn(h) + i - 1 < RingSize THEN OldestIn(h) + i - 1
                           ELSE OldestIn(h) + i - 1 - RingSize
         /\ SlotOf(h, i) \in Index
  <1>1. PICK n \in Index : n = OldestIn(h)
    BY RingParts
  <1>2. PICK x \in Nat : x = n + i - 1 /\ x < RingSize + RingSize
    BY RouterAssumption DEF Index
  <1>3. x % RingSize = IF x < RingSize THEN x ELSE x - RingSize
    BY <1>2, Wraps
  <1>4. SlotOf(h, i) = x % RingSize
    BY <1>1, <1>2 DEF SlotOf
  <1>5. SlotOf(h, i) \in Index
    BY <1>2, <1>3, <1>4, RouterAssumption DEF Index
  <1>6. SlotOf(h, i) = IF x < RingSize THEN x ELSE x - RingSize
    BY <1>3, <1>4
  <1>7. SlotOf(h, i) = IF n + i - 1 < RingSize THEN n + i - 1 ELSE n + i - 1 - RingSize
    BY <1>2, <1>6, RouterAssumption DEF Index
  <1>8. QED
    BY <1>1, <1>5, <1>7, Zenon

\* The window runs over the used slots.
LEMMA SlotUsed ==
  ASSUME NEW h \in Ring, Sound(h), NEW i \in 1..h.count
  PROVE  /\ i \in 1..RingSize /\ SlotOf(h, i) \in Index
         /\ h.slot[SlotOf(h, i)] \in Record
  <1>1. i \in 1..RingSize
    BY RingParts
  <1>2. PICK k \in Index : k = SlotOf(h, i)
    BY <1>1, SlotIs
  <1>3. k < h.count
    <2>1. CASE h.count < RingSize
      <3>1. OldestIn(h) = 0
        BY <2>1 DEF OldestIn
      <3>2. QED
        BY <1>1, <1>2, <2>1, <3>1, SlotIs, RingParts
    <2>2. CASE h.count = RingSize
      BY <2>2, RouterAssumption DEF Index
    <2>3. QED
      BY <2>1, <2>2, RingParts
  <1>4. h.slot[k] # NoRecord
    BY <1>3 DEF Sound
  <1>5. QED
    BY <1>1, <1>2, <1>4, RingParts

\* Every used slot is in the window.
LEMMA SlotReached ==
  ASSUME NEW h \in Ring, NEW k \in Index, k < h.count
  PROVE  \E i \in 1..h.count : SlotOf(h, i) = k
  <1>1. /\ k \in Nat /\ h.count \in Nat /\ h.count <= RingSize /\ RingSize \in Nat /\ k < RingSize
    BY RingParts DEF Index
  <1>2. PICK n \in Index : n = OldestIn(h)
    BY RingParts
  <1>3. CASE h.count < RingSize
    <2>1. n = 0 /\ k + 1 \in 1..h.count /\ k + 1 \in 1..RingSize
      BY <1>1, <1>2, <1>3 DEF OldestIn
    <2>2. PICK i \in 1..RingSize : i = k + 1
      BY <2>1
    <2>3. OldestIn(h) + i - 1 = k
      BY <1>1, <1>2, <2>1, <2>2
    <2>4. SlotOf(h, i) = k
      BY <1>1, <2>3, SlotIs
    <2>5. QED
      BY <2>1, <2>2, <2>4
  <1>4. CASE h.count = RingSize
    <2>1. CASE k >= n
      <3>1. PICK i \in 1..RingSize : i = k - n + 1
        BY <1>1, <2>1 DEF Index
      <3>2. n + i - 1 = k
        BY <1>1, <3>1 DEF Index
      <3>3. SlotOf(h, i) = k
        BY <1>1, <1>2, <3>2, SlotIs
      <3>4. QED
        BY <1>4, <3>3
    <2>2. CASE k < n
      <3>1. PICK i \in 1..RingSize : i = k + RingSize - n + 1
        BY <1>1, <2>2 DEF Index
      <3>2. n + i - 1 = k + RingSize
        BY <1>1, <3>1 DEF Index
      <3>3. SlotOf(h, i) = k
        BY <1>1, <1>2, <3>2, SlotIs
      <3>4. QED
        BY <1>4, <3>3
    <2>3. QED
      BY <1>1, <2>1, <2>2 DEF Index
  <1>5. QED
    BY <1>1, <1>3, <1>4

LEMMA WindowType ==
  ASSUME NEW h \in Ring, Sound(h)
  PROVE  /\ WindowOf(h) \in Seq(Packet) /\ Len(WindowOf(h)) = h.count
         /\ DOMAIN WindowOf(h) = 1..h.count
         /\ \A i \in 1..h.count : WindowOf(h)[i] = h.slot[SlotOf(h, i)].packet
  <1>1. \A i \in 1..h.count : h.slot[SlotOf(h, i)].packet \in Packet
    BY SlotUsed DEF Record
  <1>2. h.count \in Nat
    BY RingParts
  <1>3. QED
    BY <1>1, <1>2 DEF WindowOf

\* The packets of the window are the ones find_record finds.
LEMMA WindowMembers ==
  ASSUME NEW h \in Ring, Sound(h), NEW p
  PROVE  Seen(h, p) <=> \E i \in 1..h.count : WindowOf(h)[i] = p
  <1>1. ASSUME Seen(h, p)
        PROVE  \E i \in 1..h.count : WindowOf(h)[i] = p
    <2>1. PICK k \in Index : k < h.count /\ h.slot[k].packet = p
      BY <1>1 DEF Seen, FindRecord, Index
    <2>2. PICK i \in 1..h.count : SlotOf(h, i) = k
      BY <2>1, SlotReached
    <2>3. QED
      BY <2>1, <2>2, WindowType
  <1>2. ASSUME NEW i \in 1..h.count, WindowOf(h)[i] = p
        PROVE  Seen(h, p)
    <2>1. PICK k \in Index : k = SlotOf(h, i)
      BY SlotUsed
    <2>2. h.slot[k] \in Record /\ h.slot[k].packet = p
      BY <1>2, <2>1, SlotUsed, WindowType
    <2>3. h.slot[k] # NoRecord /\ k < h.count
      BY <2>2, RouterAssumption DEF Sound
    <2>4. QED
      BY <2>2, <2>3 DEF Seen, FindRecord, Index
  <1>3. QED
    BY <1>1, <1>2

\* Hearing a packet again leaves the window alone.
LEMMA WindowTouched ==
  ASSUME NEW h \in Ring, Sound(h), NEW p \in Packet, NEW hl \in HopLimit, NEW b \in Byte,
         NEW pending, Seen(h, p)
  PROVE  WindowOf(Filtered(h, p, hl, b, pending)) = WindowOf(h)
  <1> DEFINE g == Filtered(h, p, hl, b, pending)
  <1>1. g.head = h.head /\ g.count = h.count
    BY DEF Filtered, Ring
  <1>2. /\ g \in Ring /\ Sound(g)
        /\ \A i \in Index : h.slot[i] # NoRecord => g.slot[i].packet = h.slot[i].packet
    BY TouchSound
  <1> HIDE DEF g
  <1>3. \A i \in 1..h.count : SlotOf(g, i) = SlotOf(h, i)
    BY <1>1 DEF SlotOf, OldestIn
  <1>4. \A i \in 1..h.count : g.slot[SlotOf(h, i)].packet = h.slot[SlotOf(h, i)].packet
    <2> SUFFICES ASSUME NEW i \in 1..h.count
                 PROVE  g.slot[SlotOf(h, i)].packet = h.slot[SlotOf(h, i)].packet
      OBVIOUS
    <2>1. SlotOf(h, i) \in Index /\ h.slot[SlotOf(h, i)] # NoRecord
      BY SlotUsed, RouterAssumption
    <2>2. QED
      BY <1>2, <2>1
  <1>5. \A i \in 1..h.count : WindowOf(g)[i] = WindowOf(h)[i]
    BY <1>1, <1>2, <1>3, <1>4, WindowType
  <1>6. /\ WindowOf(g) \in Seq(Packet) /\ WindowOf(h) \in Seq(Packet)
        /\ Len(WindowOf(g)) = Len(WindowOf(h)) /\ Len(WindowOf(h)) = h.count
    BY <1>1, <1>2, WindowType
  <1>7. WindowOf(g) = WindowOf(h)
    BY <1>5, <1>6, SeqEqual
  <1>8. QED
    BY <1>7 DEF g

\* Counting from the next slot is counting from this one, a place further on,
\* and comes back to it at the end of the ring.
LEMMA NextPlace ==
  ASSUME NEW a \in Index, NEW b \in Index, NEW i \in 1..RingSize,
         b = IF a + 1 < RingSize THEN a + 1 ELSE 0
  PROVE  /\ i < RingSize =>
              (IF b + i - 1 < RingSize THEN b + i - 1 ELSE b + i - 1 - RingSize)
                = (IF a + (i + 1) - 1 < RingSize THEN a + (i + 1) - 1
                   ELSE a + (i + 1) - 1 - RingSize)
         /\ i = RingSize =>
              (IF b + i - 1 < RingSize THEN b + i - 1 ELSE b + i - 1 - RingSize) = a
  <1>1. /\ a \in Nat /\ b \in Nat /\ i \in Nat /\ RingSize \in Nat
        /\ a < RingSize /\ i >= 1 /\ i <= RingSize
    BY RouterAssumption DEF Index
  <1>2. CASE a + 1 < RingSize
    BY <1>1, <1>2
  <1>3. CASE ~(a + 1 < RingSize)
    <2>1. b = 0 /\ a + 1 = RingSize
      BY <1>1, <1>3
    <2>2. QED
      BY <1>1, <2>1
  <1>4. QED
    BY <1>2, <1>3

\* A new packet joins the window, and the oldest one leaves a full window.
LEMMA WindowPushed ==
  ASSUME NEW h \in Ring, Sound(h), NEW rec \in Record, ~Seen(h, rec.packet)
  PROVE  WindowOf(Push(h, RingSize, rec)) =
           IF Len(WindowOf(h)) < RingSize THEN Append(WindowOf(h), rec.packet)
           ELSE Append(Tail(WindowOf(h)), rec.packet)
  <1> DEFINE g == Push(h, RingSize, rec)
  <1>1. /\ g.slot = [h.slot EXCEPT ![h.head] = rec]
        /\ g.head = (h.head + 1) % RingSize
        /\ g.count = IF h.count < RingSize THEN h.count + 1 ELSE h.count
    BY DEF Push
  <1>2. g \in Ring /\ Sound(g)
    BY PushSound
  <1>3. h.slot \in [Index -> Record \cup {NoRecord}]
    BY DEF Ring
  <1>4. \A i \in Index : g.slot[i] = IF i = h.head THEN rec ELSE h.slot[i]
    BY <1>1, <1>3
  <1> HIDE DEF g
  <1>5. /\ h.head \in Index /\ h.count \in 0..RingSize /\ RingSize \in Nat \ {0}
        /\ g.head = IF h.head + 1 < RingSize THEN h.head + 1 ELSE 0
    BY <1>1, NextHead, RingParts
  <1>6. PICK v \in Seq(Packet) :
          /\ v = WindowOf(h) /\ Len(v) = h.count
          /\ \A i \in 1..h.count : v[i] = h.slot[SlotOf(h, i)].packet
    BY WindowType
  <1>7. PICK w \in Seq(Packet) :
          /\ w = WindowOf(g) /\ Len(w) = g.count
          /\ \A i \in 1..g.count : w[i] = g.slot[SlotOf(g, i)].packet
    BY <1>2, WindowType
  <1>8. rec.packet \in Packet
    BY DEF Record
  <1>9. CASE h.count < RingSize
    <2>1. h.head = h.count /\ g.count = h.count + 1 /\ OldestIn(h) = 0
      BY <1>1, <1>9 DEF Sound, OldestIn
    <2>2. OldestIn(g) = 0
      BY <1>5, <1>9, <2>1 DEF OldestIn
    <2>3. \A i \in 1..(h.count + 1) : SlotOf(g, i) = i - 1
      <3> SUFFICES ASSUME NEW i \in 1..(h.count + 1) PROVE SlotOf(g, i) = i - 1
        OBVIOUS
      <3>1. i \in 1..RingSize /\ i - 1 < RingSize
        BY <1>5, <1>9
      <3>2. QED
        BY <1>2, <2>2, <3>1, SlotIs
    <2>4. \A i \in 1..h.count : SlotOf(h, i) = i - 1
      <3> SUFFICES ASSUME NEW i \in 1..h.count PROVE SlotOf(h, i) = i - 1
        OBVIOUS
      <3>1. i \in 1..RingSize /\ i - 1 < RingSize
        BY <1>5
      <3>2. QED
        BY <2>1, <3>1, SlotIs
    <2>5. \A i \in 1..h.count : w[i] = v[i]
      <3> SUFFICES ASSUME NEW i \in 1..h.count PROVE w[i] = v[i]
        OBVIOUS
      <3>1. i \in 1..(h.count + 1) /\ i - 1 \in Index /\ i - 1 # h.head
        BY <1>5, <1>9, <2>1 DEF Index
      <3>2. g.slot[i - 1] = h.slot[i - 1]
        BY <1>4, <3>1
      <3>3. w[i] = g.slot[i - 1].packet
        BY <1>7, <2>1, <2>3, <3>1
      <3>4. v[i] = h.slot[i - 1].packet
        BY <1>6, <2>4
      <3>5. QED
        BY <3>2, <3>3, <3>4
    <2>6. w[h.count + 1] = rec.packet
      <3>1. PICK n \in Nat : n = h.count
        BY <1>5
      <3>2. PICK k \in 1..(n + 1) : k = n + 1
        BY <3>1
      <3>3. SlotOf(g, k) = h.head
        <4>1. SlotOf(g, k) = k - 1 /\ k - 1 = n
          BY <2>3, <3>1, <3>2
        <4>2. QED
          BY <2>1, <3>1, <4>1
      <3>4. w[k] = g.slot[h.head].packet
        BY <1>7, <2>1, <3>1, <3>3
      <3>5. w[k] = rec.packet
        BY <1>4, <1>5, <3>4
      <3>6. QED
        BY <3>1, <3>2, <3>5
    <2>7. /\ Append(v, rec.packet) \in Seq(Packet) /\ Len(Append(v, rec.packet)) = h.count + 1
          /\ \A i \in 1..h.count : Append(v, rec.packet)[i] = v[i]
          /\ Append(v, rec.packet)[h.count + 1] = rec.packet
      BY <1>6, <1>8, AppendProperties
    <2>8. \A i \in 1..(h.count + 1) : w[i] = Append(v, rec.packet)[i]
      <3> SUFFICES ASSUME NEW i \in 1..(h.count + 1) PROVE w[i] = Append(v, rec.packet)[i]
        OBVIOUS
      <3>1. i \in 1..h.count \/ i = h.count + 1
        BY <1>5
      <3>2. QED
        BY <2>5, <2>6, <2>7, <3>1
    <2>9. w = Append(v, rec.packet)
      BY <1>7, <2>1, <2>7, <2>8, SeqEqual
    <2>10. QED
      BY <1>6, <1>7, <1>9, <2>9 DEF g
  <1>10. CASE h.count = RingSize
    <2>1. g.count = RingSize /\ OldestIn(h) = h.head /\ OldestIn(g) = g.head
      BY <1>1, <1>10, <1>5 DEF OldestIn
    <2>2. \A i \in 1..RingSize :
            i < RingSize => SlotOf(g, i) = SlotOf(h, i + 1) /\ SlotOf(g, i) # h.head
      <3> SUFFICES ASSUME NEW i \in 1..RingSize, i < RingSize
                   PROVE  SlotOf(g, i) = SlotOf(h, i + 1) /\ SlotOf(g, i) # h.head
        OBVIOUS
      <3>1. SlotOf(g, i) = IF g.head + i - 1 < RingSize THEN g.head + i - 1
                           ELSE g.head + i - 1 - RingSize
        BY <1>2, <2>1, SlotIs
      <3>2. PICK j \in 1..RingSize : j = i + 1
        BY <1>5
      <3>3. SlotOf(h, j) = IF h.head + j - 1 < RingSize THEN h.head + j - 1
                           ELSE h.head + j - 1 - RingSize
        BY <2>1, SlotIs
      <3>4. h.head \in 0..(RingSize - 1)
        BY <1>5 DEF Index
      <3>5. SlotOf(g, i) = SlotOf(h, j)
        <4>1. PICK a \in Index, b \in Index :
                a = h.head /\ b = g.head /\ b = IF a + 1 < RingSize THEN a + 1 ELSE 0
          BY <1>2, <1>5, RingParts
        <4>2. SlotOf(g, i) = IF b + i - 1 < RingSize THEN b + i - 1 ELSE b + i - 1 - RingSize
          BY <3>1, <4>1
        <4>3. SlotOf(h, j) = IF a + (i + 1) - 1 < RingSize THEN a + (i + 1) - 1
                             ELSE a + (i + 1) - 1 - RingSize
          BY <3>2, <3>3, <4>1
        <4>4. QED
          BY <4>1, <4>2, <4>3, NextPlace
      <3>6. SlotOf(g, i) # h.head
        BY <1>5, <3>1, <3>4
      <3>7. QED
        BY <3>2, <3>5, <3>6
    <2>3. SlotOf(g, RingSize) = h.head
      <3>1. RingSize \in 1..RingSize
        BY <1>5
      <3>2. SlotOf(g, RingSize) = IF g.head + RingSize - 1 < RingSize THEN g.head + RingSize - 1
                                  ELSE g.head + RingSize - 1 - RingSize
        BY <1>2, <2>1, <3>1, SlotIs
      <3>3. PICK a \in Index, b \in Index :
              a = h.head /\ b = g.head /\ b = IF a + 1 < RingSize THEN a + 1 ELSE 0
        BY <1>2, <1>5, RingParts
      <3>4. SlotOf(g, RingSize) = IF b + RingSize - 1 < RingSize THEN b + RingSize - 1
                                  ELSE b + RingSize - 1 - RingSize
        BY <3>2, <3>3
      <3>5. QED
        BY <3>1, <3>3, <3>4, NextPlace
    <2>4. v # <<>>
      BY <1>5, <1>6, <1>10
    <2>5. PICK t \in Seq(Packet) :
            /\ t = Tail(v) /\ Len(t) = RingSize - 1
            /\ \A i \in 1..(RingSize - 1) : t[i] = v[i + 1]
      <3>1. /\ Tail(v) \in Seq(Packet) /\ Len(Tail(v)) = Len(v) - 1
            /\ \A i \in 1..Len(Tail(v)) : Tail(v)[i] = v[i + 1]
        BY <2>4, HeadTailProperties
      <3>2. Len(v) = RingSize
        BY <1>6, <1>10
      <3>3. Len(Tail(v)) = RingSize - 1
        BY <3>1, <3>2
      <3>4. \A i \in 1..(RingSize - 1) : Tail(v)[i] = v[i + 1]
        BY <3>1, <3>3
      <3>5. QED
        BY <3>1, <3>3, <3>4, Zenon
    <2>6. \A i \in 1..(RingSize - 1) : w[i] = t[i]
      <3> SUFFICES ASSUME NEW i \in 1..(RingSize - 1) PROVE w[i] = t[i]
        OBVIOUS
      <3>1. i \in 1..RingSize /\ i < RingSize /\ i + 1 \in 1..RingSize
        BY <1>5
      <3>2. PICK k \in Index : k = SlotOf(g, i) /\ k = SlotOf(h, i + 1) /\ k # h.head
        BY <1>2, <2>2, <3>1, SlotIs
      <3>3. w[i] = g.slot[k].packet
        BY <1>7, <2>1, <3>1, <3>2
      <3>4. v[i + 1] = h.slot[k].packet
        BY <1>6, <1>10, <3>1, <3>2
      <3>5. QED
        BY <1>4, <2>5, <3>2, <3>3, <3>4
    <2>7. w[RingSize] = rec.packet
      <3>1. RingSize \in 1..RingSize
        BY <1>5
      <3>2. w[RingSize] = g.slot[h.head].packet
        BY <1>7, <2>1, <2>3, <3>1
      <3>3. QED
        BY <1>4, <1>5, <3>2
    <2>8. /\ Append(t, rec.packet) \in Seq(Packet) /\ Len(Append(t, rec.packet)) = RingSize
          /\ \A i \in 1..(RingSize - 1) : Append(t, rec.packet)[i] = t[i]
          /\ Append(t, rec.packet)[RingSize] = rec.packet
      <3>1. /\ Append(t, rec.packet) \in Seq(Packet) /\ Len(Append(t, rec.packet)) = Len(t) + 1
            /\ \A i \in 1..Len(t) : Append(t, rec.packet)[i] = t[i]
            /\ Append(t, rec.packet)[Len(t) + 1] = rec.packet
        BY <1>8, AppendProperties
      <3>2. Len(t) + 1 = RingSize
        BY <1>5, <2>5
      <3>3. QED
        BY <2>5, <3>1, <3>2
    <2>9. \A i \in 1..RingSize : w[i] = Append(t, rec.packet)[i]
      <3> SUFFICES ASSUME NEW i \in 1..RingSize PROVE w[i] = Append(t, rec.packet)[i]
        OBVIOUS
      <3>1. i \in 1..(RingSize - 1) \/ i = RingSize
        BY <1>5
      <3>2. QED
        BY <2>6, <2>7, <2>8, <3>1
    <2>10. w = Append(t, rec.packet)
      BY <1>7, <2>1, <2>8, <2>9, SeqEqual
    <2>11. QED
      BY <1>5, <1>6, <1>7, <1>10, <2>5, <2>10 DEF g
  <1>11. QED
    BY <1>5, <1>9, <1>10

LEMMA MembersAre ==
  ASSUME IInv, NEW p
  PROVE  p \in Abstract!Members <=> Seen(history, p)
  <1>1. history \in Ring /\ Sound(history)
    BY DEF IInv, TypeOK, Ring, Index
  <1>2. Seen(history, p) <=> \E i \in 1..history.count : WindowOf(history)[i] = p
    BY <1>1, WindowMembers
  <1>3. DOMAIN WindowOf(history) = 1..history.count
    BY <1>1, WindowType
  <1>4. QED
    BY <1>2, <1>3, WindowIs DEF Abstract!Members

LEMMA InitWindow == Init => Abstract!Init
  <1> SUFFICES ASSUME Init PROVE Abstract!Init
    OBVIOUS
  <1>1. history.count = 0
    BY DEF Init, EmptyRing
  <1>2. Window = <<>>
    BY <1>1 DEF Window
  <1>3. Told = [packet |-> NoRecord, new |-> TRUE]
    BY DEF Init, Told
  <1>4. QED
    BY <1>2, <1>3 DEF Abstract!Init

\* A call for a packet of the window repeats it, any other call accepts it.
LEMMA StepWindow == IInv /\ [Next]_vars => [Abstract!Next]_<<Window, Told>>
  <1> SUFFICES ASSUME IInv, [Next]_vars PROVE [Abstract!Next]_<<Window, Told>>
    OBVIOUS
  <1>1. history \in Ring /\ Sound(history)
    BY DEF IInv, TypeOK, Ring, Index
  <1>2. ASSUME NEW p \in Packet, NEW hl \in HopLimit, NEW b \in Byte, NEW pending \in PendingHop,
               Filter(p, hl, b, pending)
        PROVE  Abstract!Next
    <2>1. history' = Filtered(history, p, hl, b, pending)
      BY <1>2 DEF Filter
    <2>2. Window' = WindowOf(history')
      BY DEF Window, WindowOf, SlotOf, Oldest, OldestIn
    <2>3. Told' = [packet |-> p, new |-> ~Seen(history, p)]
      <3>1. Verdict(Seen(history, p), hl, b, pending, OurRole) = "New" <=> ~Seen(history, p)
        BY DEF Verdict
      <3>2. verdict' = [packet |-> p, result |-> Verdict(Seen(history, p), hl, b, pending, OurRole)]
        BY <1>2 DEF Filter
      <3>3. QED
        BY <3>1, <3>2 DEF Told
    <2>4. CASE Seen(history, p)
      <3>1. Window' = Window
        BY <1>1, <2>1, <2>2, <2>4, WindowTouched, WindowIs
      <3>2. Abstract!Repeat(p)
        BY <2>3, <2>4, <3>1, MembersAre DEF Abstract!Repeat
      <3>3. QED
        BY <3>2 DEF Abstract!Next
    <2>5. CASE ~Seen(history, p)
      <3>1. PICK rec \in Record : rec = AddRelayer(NewRecord(p, hl), b) /\ rec.packet = p
        <4>1. NewRecord(p, hl) \in Record /\ NewRecord(p, hl).packet = p
          BY DEF NewRecord, Record
        <4>2. QED
          BY <4>1, AddRelayerKeeps
      <3>2. history' = Push(history, RingSize, rec)
        BY <2>1, <2>5, <3>1 DEF Filtered
      <3>3. Window' = IF Len(Window) < RingSize THEN Append(Window, p) ELSE Append(Tail(Window), p)
        BY <1>1, <2>2, <2>5, <3>1, <3>2, WindowPushed, WindowIs
      <3>4. Abstract!Accept(p)
        BY <2>3, <2>5, <3>3, MembersAre DEF Abstract!Accept
      <3>5. QED
        BY <3>4 DEF Abstract!Next
    <2>6. QED
      BY <2>4, <2>5
  <1>3. CASE UNCHANGED vars
    <2>1. Window' = Window /\ Told' = Told
      BY <1>3 DEF vars, Window, Oldest, Told
    <2>2. QED
      BY <2>1
  <1>4. QED
    BY <1>2, <1>3 DEF Next

\* Duplicate suppression keeps its promise with a ring of any size: what is said to be
\* new, what is remembered and what is forgotten are those of the window of the packets
\* accepted last (should_filter_received, find_record, record_packet).
THEOREM RingIsWindow == Spec => ImplementsSeenWindow
  <1>1. Spec => []IInv
    BY InitSound, StepSound, PTL DEF Spec
  <1>2. QED
    BY <1>1, InitWindow, StepWindow, PTL DEF Spec, ImplementsSeenWindow, Abstract!Spec

=============================================================================
