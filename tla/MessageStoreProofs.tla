------------------------- MODULE MessageStoreProofs -------------------------
(***************************************************************************)
(* Proofs about the message ring for any capacity, any frames, resets at   *)
(* every point, writes that fail or are cut, and any flash driver that     *)
(* does what DriverAssumption says.                                        *)
(***************************************************************************)
EXTENDS MessageStore, SequenceTheorems, TLAPS

Sector == [header : Header \cup {Erased}, slot : [Slot -> Msg \cup {Invalid, Garbled, Erased}]]

Holds(i, m) == slots[i] = m \/ flash.slot[i] = m

Sent(m) == replayed[m] > 0 \/ m \in before

\* A frame has one place, in RAM and in the flash.
OnePlace == \A m \in Msg : \A i, j \in Slot : Holds(i, m) /\ Holds(j, m) => i = j

\* Only frames that came in are stored or replayed.
OnlyArrived == \A m \in Msg : (Sent(m) \/ \E i \in Slot : Holds(i, m)) => m \in arrived

\* A frame sent since the boot is not in RAM, and one sent at any time is in neither copy
\* unless its slot could not be invalidated.
SentGone ==
  \A m \in Msg :
    /\ replayed[m] > 0 => \A i \in Slot : slots[i] # m
    /\ Sent(m) /\ m \notin unstruck => \A i \in Slot : ~Holds(i, m)

\* The frame a pop has taken has left the RAM, and the flash once the slot is written;
\* it has not been sent since the boot.
TakenGone ==
  /\ step = "none" => taken = Invalid
  /\ taken \in Msg =>
       /\ taken \in arrived /\ replayed[taken] = 0
       /\ taken \in before => taken \in unstruck
       /\ slots[at] = Invalid
       /\ \A i \in Slot : slots[i] # taken
       /\ \A i \in Slot : flash.slot[i] = taken =>
            (step = "slot" /\ i = at) \/ taken \in unstruck

Replay == OnePlace /\ OnlyArrived /\ SentGone /\ TakenGone /\ ReplayedOnce

IInv == TypeOK /\ Replay

-----------------------------------------------------------------------------
LEMMA Wraps ==
  ASSUME NEW x \in Nat, x < Size + Size
  PROVE  x % Size = IF x < Size THEN x ELSE x - Size
  <1>1. Size \in Nat \ {0}
    BY StoreAssumption
  <1>2. CASE x < Size
    BY <1>1, <1>2
  <1>3. CASE ~(x < Size)
    <2>1. x - Size \in 0..(Size - 1) /\ x = 1 * Size + (x - Size)
      BY <1>1, <1>3
    <2>2. QED
      BY <1>1, <1>3, <2>1
  <1>4. QED
    BY <1>2, <1>3

LEMMA AfterType ==
  ASSUME NEW i \in Slot
  PROVE  /\ After(i) \in Slot
         /\ After(i) = IF i + 1 < Size THEN i + 1 ELSE 0
  <1>1. PICK x \in Nat : x = i + 1 /\ x < Size + Size /\ x <= Size
    BY StoreAssumption DEF Slot
  <1>2. x % Size = IF x < Size THEN x ELSE x - Size
    BY <1>1, Wraps
  <1>3. After(i) = x % Size
    BY <1>1 DEF After
  <1>4. QED
    BY <1>1, <1>2, <1>3, StoreAssumption DEF Slot

LEMMA AddedType ==
  ASSUME NEW r \in Header
  PROVE  Added(r) \in Header
  <1>1. /\ After(r.head) \in Slot /\ After(r.tail) \in Slot
        /\ r.tail \in Slot /\ r.count \in 0..Size
    BY AfterType DEF Header
  <1>2. (IF r.count >= Size THEN Size ELSE r.count + 1) \in 0..Size
    BY <1>1, StoreAssumption
  <1>3. QED
    BY <1>1, <1>2 DEF Added, Header

LEMMA PoppedType ==
  ASSUME NEW r \in Header, r.count > 0
  PROVE  [r EXCEPT !.tail = After(@), !.count = @ - 1] \in Header
  <1>1. After(r.tail) \in Slot /\ r.count - 1 \in 0..Size
    BY AfterType, StoreAssumption DEF Header
  <1>2. QED
    BY <1>1 DEF Header

LEMMA EmptyHeaderType == EmptyHeader \in Header /\ 0 \in Slot
  BY StoreAssumption DEF EmptyHeader, Header, Slot

LEMMA NoFrame == Invalid \notin Msg /\ Garbled \notin Msg /\ Erased \notin Msg
  BY StoreAssumption

-----------------------------------------------------------------------------
(* What the flash holds after a write.                                     *)

\* A slot of g holds what it held in f, what it holds in new, or no frame.
Between(g, f, new) == \A i \in Slot : g.slot[i] \in {f.slot[i], new.slot[i], Garbled, Erased}

LEMMA SectorPartIs ==
  ASSUME NEW new \in Sector, NEW g \in PartOfSector(new)
  PROVE  /\ g \in Sector
         /\ g.header = Erased \/ g.header = new.header
         /\ \A i \in Slot : g.slot[i] \in {new.slot[i], Garbled, Erased}
  <1>1. /\ new.header \in Header \cup {Erased}
        /\ new.slot \in [Slot -> Msg \cup {Invalid, Garbled, Erased}]
    BY DEF Sector
  <1>2. CASE g = Blank
    BY <1>2 DEF Blank, Sector
  <1>3. ASSUME NEW k \in Slot, NEW x \in Half(new.slot[k]), g = UpTo(new, k, x)
        PROVE  /\ g \in Sector
               /\ g.header = new.header
               /\ \A i \in Slot : g.slot[i] \in {new.slot[i], Garbled, Erased}
    <2> DEFINE s == [i \in Slot |-> IF i < k THEN new.slot[i] ELSE IF i = k THEN x ELSE Erased]
    <2>1. x \in {Garbled, Erased}
      BY <1>3 DEF Half
    <2>2. \A i \in Slot : s[i] \in {new.slot[i], Garbled, Erased}
      BY <2>1
    <2>3. s \in [Slot -> Msg \cup {Invalid, Garbled, Erased}]
      BY <1>1, <2>1
    <2>4. g = [header |-> new.header, slot |-> s]
      BY <1>3 DEF UpTo
    <2> HIDE DEF s
    <2>5. QED
      BY <1>1, <2>2, <2>3, <2>4 DEF Sector
  <1>4. QED
    BY <1>2, <1>3 DEF PartOfSector

LEMMA WordPartIs ==
  ASSUME NEW f \in Sector, NEW new \in Sector, f.header \in Header => new.header \in Header,
         NEW g \in PartOfWords(f, new)
  PROVE  /\ g \in Sector
         /\ \A i \in Slot : g.slot[i] \in {f.slot[i], Garbled}
  <1>1. /\ f.header \in Header \cup {Erased} /\ new.header \in Header \cup {Erased}
        /\ f.slot \in [Slot -> Msg \cup {Invalid, Garbled, Erased}]
        /\ f = [header |-> f.header, slot |-> f.slot]
    BY DEF Sector
  <1>2. ASSUME NEW h \in PartOfHeader(f.header, new.header), g = [header |-> h, slot |-> f.slot]
        PROVE  g \in Sector /\ \A i \in Slot : g.slot[i] \in {f.slot[i], Garbled}
    <2>1. h \in Header \cup {Erased}
      <3>1. CASE f.header \in Header
        <4>1. new.header \in Header
          BY <3>1
        <4>2. /\ [f.header EXCEPT !.head = new.header.head] \in Header
              /\ [new.header EXCEPT !.count = f.header.count] \in Header
          BY <3>1, <4>1 DEF Header
        <4>3. QED
          BY <1>2, <3>1, <4>2 DEF PartOfHeader
      <3>2. CASE f.header \notin Header
        BY <1>1, <1>2, <3>2 DEF PartOfHeader
      <3>3. QED
        BY <3>1, <3>2
    <2>2. QED
      BY <1>1, <1>2, <2>1 DEF Sector
  <1>3. ASSUME NEW j \in Slot, g = [f EXCEPT !.slot[j] = Garbled]
        PROVE  g \in Sector /\ \A i \in Slot : g.slot[i] \in {f.slot[i], Garbled}
    <2>1. g = [header |-> f.header, slot |-> [f.slot EXCEPT ![j] = Garbled]]
      BY <1>1, <1>3
    <2>2. [f.slot EXCEPT ![j] = Garbled] \in [Slot -> Msg \cup {Invalid, Garbled, Erased}]
      BY <1>1
    <2>3. \A i \in Slot : [f.slot EXCEPT ![j] = Garbled][i] \in {f.slot[i], Garbled}
      BY <1>1
    <2>4. QED
      BY <1>1, <2>1, <2>2, <2>3 DEF Sector
  <1>4. QED
    BY <1>2, <1>3 DEF PartOfWords

LEMMA PartIs ==
  ASSUME NEW f \in Sector, NEW new \in Sector, f.header \in Header => new.header \in Header,
         NEW g \in Part(f, new)
  PROVE  g \in Sector /\ Between(g, f, new)
  <1>1. CASE RewritesSector
    <2>1. g \in PartOfSector(new)
      BY <1>1 DEF Part
    <2>2. QED
      BY <2>1, SectorPartIs DEF Between
  <1>2. CASE ~RewritesSector
    <2>1. g \in PartOfWords(f, new)
      BY <1>2 DEF Part
    <2>2. QED
      BY <2>1, WordPartIs DEF Between
  <1>3. QED
    BY <1>1, <1>2

LEMMA SlotWrittenIs ==
  ASSUME NEW f \in Sector, NEW i \in Slot, NEW x \in Msg \cup {Invalid, Garbled}
  PROVE  /\ SlotWritten(f, i, x) \in Sector
         /\ SlotWritten(f, i, x).header = f.header
         /\ SlotWritten(f, i, x).slot[i] \in {x, Invalid, Garbled}
         /\ RewritesSector => SlotWritten(f, i, x).slot[i] = x
         /\ \A j \in Slot : j # i => SlotWritten(f, i, x).slot[j] = f.slot[j]
  <1> DEFINE w == OverwriteSlot(f.slot[i], x)
             s == [f.slot EXCEPT ![i] = w]
  <1>1. /\ f.header \in Header \cup {Erased}
        /\ f.slot \in [Slot -> Msg \cup {Invalid, Garbled, Erased}]
        /\ f.slot[i] \in Msg \cup {Invalid, Garbled, Erased}
    BY DEF Sector
  <1>2. w \in {x, Invalid, Garbled}
    BY <1>1, DriverAssumption
  <1>3. RewritesSector => w = x
    BY <1>1, DriverAssumption
  <1> HIDE DEF w
  <1>4. /\ s \in [Slot -> Msg \cup {Invalid, Garbled, Erased}] /\ s[i] = w
        /\ \A j \in Slot : j # i => s[j] = f.slot[j]
    BY <1>1, <1>2
  <1>5. SlotWritten(f, i, x) = [header |-> f.header, slot |-> s]
    BY DEF SlotWritten, w
  <1> HIDE DEF s
  <1>6. QED
    BY <1>1, <1>2, <1>3, <1>4, <1>5 DEF Sector

LEMMA HeaderWrittenIs ==
  ASSUME NEW f \in Sector, NEW h \in Header
  PROVE  /\ HeaderWritten(f, h) \in Sector
         /\ HeaderWritten(f, h).header \in Header
         /\ RewritesSector => HeaderWritten(f, h).header = h
         /\ HeaderWritten(f, h).slot = f.slot
  <1>1. /\ f.header \in Header \cup {Erased}
        /\ f.slot \in [Slot -> Msg \cup {Invalid, Garbled, Erased}]
    BY DEF Sector
  <1>2. OverwriteHeader(f.header, h) \in Header
    BY <1>1, DriverAssumption
  <1>3. RewritesSector => OverwriteHeader(f.header, h) = h
    BY <1>1, DriverAssumption
  <1>4. QED
    BY <1>1, <1>2, <1>3 DEF HeaderWritten, Sector

LEMMA BlankIs == Blank \in Sector /\ Blank.header \notin Header
  BY StoreAssumption DEF Blank, Sector

\* What is loaded at boot, and what the boot leaves in the flash.
LEMMA InitialisedIs ==
  ASSUME NEW f \in Sector, NEW g \in Initialised(f)
  PROVE  g \in Sector /\ \A i \in Slot : g.slot[i] \in {f.slot[i], Garbled, Erased}
  <1>1. CASE f.header \in Header
    BY <1>1 DEF Initialised
  <1>2. CASE f.header \notin Header
    <2> DEFINE new == HeaderWritten(f, EmptyHeader)
    <2>1. new \in Sector /\ new.slot = f.slot
      BY EmptyHeaderType, HeaderWrittenIs
    <2>2. g \in {new, f} \cup Part(f, new)
      BY <1>2 DEF Initialised
    <2> HIDE DEF new
    <2>3. CASE g \in Part(f, new)
      BY <1>2, <2>1, <2>3, PartIs DEF Between
    <2>4. QED
      BY <2>1, <2>2, <2>3
  <1>3. QED
    BY <1>1, <1>2

LEMMA LoadedIs ==
  ASSUME NEW f \in Sector
  PROVE  /\ LoadedHeader(f) \in Header
         /\ LoadedSlots(f) \in [Slot -> Msg \cup {Invalid, Garbled}]
         /\ \A i \in Slot : LoadedSlots(f)[i] \in {f.slot[i], Invalid}
  <1>1. f.slot \in [Slot -> Msg \cup {Invalid, Garbled, Erased}]
    BY DEF Sector
  <1>2. QED
    BY <1>1, EmptyHeaderType DEF LoadedHeader, LoadedSlots

LEMMA BootType ==
  ASSUME NEW f \in Sector, Boot(f)
  PROVE  /\ ring' \in Header
         /\ slots' \in [Slot -> Msg \cup {Invalid, Garbled}]
         /\ flash' \in Sector
         /\ \A i \in Slot, m \in Msg : slots'[i] = m \/ flash'.slot[i] = m => f.slot[i] = m
  <1>1. ring' = LoadedHeader(f) /\ slots' = LoadedSlots(f) /\ flash' \in Initialised(f)
    BY DEF Boot
  <1>2. QED
    BY <1>1, InitialisedIs, LoadedIs, NoFrame

-----------------------------------------------------------------------------
(* Types.                                                                  *)

LEMMA StateParts ==
  ASSUME TypeOK
  PROVE  /\ ring \in Header /\ ring.head \in Slot /\ ring.tail \in Slot
         /\ flash \in Sector /\ at \in Slot
         /\ slots \in [Slot -> Msg \cup {Invalid, Garbled}]
         /\ slots[at] \in Msg \cup {Invalid, Garbled}
  BY DEF TypeOK, Header, Sector

\* What the write in progress would leave.
LEMMA TargetsAre ==
  ASSUME TypeOK
  PROVE  /\ SlotTarget \in Sector /\ SlotTarget.header = flash.header
         /\ SlotTarget.slot[at] \in {slots[at], Invalid, Garbled}
         /\ RewritesSector => SlotTarget.slot[at] = slots[at]
         /\ \A i \in Slot : i # at => SlotTarget.slot[i] = flash.slot[i]
         /\ HeaderTarget \in Sector /\ HeaderTarget.header \in Header
         /\ RewritesSector => HeaderTarget.header = ring
         /\ HeaderTarget.slot = flash.slot
  BY StateParts, SlotWrittenIs, HeaderWrittenIs DEF SlotTarget, HeaderTarget

LEMMA PartsOfTargets ==
  ASSUME TypeOK
  PROVE  /\ \A g \in Part(flash, SlotTarget) : g \in Sector /\ Between(g, flash, SlotTarget)
         /\ \A g \in Part(flash, HeaderTarget) : g \in Sector /\ Between(g, flash, HeaderTarget)
  BY StateParts, TargetsAre, PartIs

\* A reset boots from the flash, or from a part of the write in progress.
BootsFrom(f) ==
  \/ f = flash
  \/ step = "slot" /\ f \in Part(flash, SlotTarget)
  \/ step = "header" /\ f \in Part(flash, HeaderTarget)

LEMMA ResetIsBoot ==
  ASSUME TypeOK, Reset \/ ResetTorn
  PROVE  /\ \E f \in Sector : BootsFrom(f) /\ Boot(f)
         /\ Reboots
         /\ damaged' \in {damaged, TRUE}
  BY StateParts, PartsOfTargets DEF Reset, ResetTorn, BootsFrom

LEMMA CountedIs ==
  ASSUME TypeOK, NEW m \in Msg
  PROVE  /\ Counted(m) \in [Msg -> 0..2]
         /\ replayed[m] = 0 => Counted(m)[m] = 1
         /\ \A x \in Msg : x # m => Counted(m)[x] = replayed[x]
  BY DEF TypeOK, Counted

LEMMA InitType ==
  ASSUME Init
  PROVE  TypeOK /\ \A i \in Slot : flash.slot[i] \in {Garbled, Erased}
  <1>1. flash \in Sector /\ \A i \in Slot : flash.slot[i] \in {Garbled, Erased}
    BY BlankIs, InitialisedIs DEF Init, Blank
  <1>2. slots \in [Slot -> Msg \cup {Invalid, Garbled}] /\ replayed \in [Msg -> 0..2]
    BY DEF Init
  <1>3. /\ ring \in Header /\ at \in Slot /\ step = "none" /\ taken = Invalid
        /\ arrived = {} /\ replaying = FALSE /\ before = {} /\ unstruck = {}
        /\ failed = FALSE /\ damaged = FALSE
    BY EmptyHeaderType DEF Init
  <1>4. QED
    BY <1>1, <1>2, <1>3 DEF TypeOK, Sector

LEMMA TypeStep ==
  ASSUME TypeOK, [Next]_vars
  PROVE  TypeOK'
  <1>1. /\ ring \in Header /\ ring.head \in Slot /\ ring.tail \in Slot
        /\ flash \in Sector /\ at \in Slot
        /\ slots \in [Slot -> Msg \cup {Invalid, Garbled}]
    BY StateParts
  <1>2. ASSUME NEW m \in Msg, Add(m) PROVE TypeOK'
    <2>1. ring' \in Header
      BY <1>1, <1>2, AddedType DEF Add
    <2>2. QED
      BY <1>1, <1>2, <2>1 DEF Add, history, TypeOK
  <1>3. CASE StartReplay \/ EndReplay
    BY <1>3 DEF StartReplay, EndReplay, history, TypeOK
  <1>4. CASE Pop
    <2>1. ring' \in Header
      BY <1>1, <1>4, PoppedType DEF Pop
    <2>2. QED
      BY <1>1, <1>4, <2>1 DEF Pop, history, TypeOK
  <1>5. CASE PersistSlot \/ PersistSlotFails
    <2>1. flash' \in Sector
      BY <1>1, <1>5, TargetsAre, PartsOfTargets DEF PersistSlot, PersistSlotFails
    <2>2. CASE PersistSlot
      BY <2>1, <2>2 DEF PersistSlot, history, TypeOK, Sector
    <2>3. CASE PersistSlotFails
      BY <2>1, <2>3 DEF PersistSlotFails, TypeOK, Sector
    <2>4. QED
      BY <1>5, <2>2, <2>3
  <1>6. CASE PersistHeader \/ PersistHeaderFails
    <2>1. flash' \in Sector
      BY <1>1, <1>6, TargetsAre, PartsOfTargets DEF PersistHeader, PersistHeaderFails
    <2>2. EndOperation /\ failed' \in BOOLEAN /\ damaged' \in BOOLEAN
      BY <1>6 DEF PersistHeader, PersistHeaderFails, TypeOK
    <2>3. replayed' \in [Msg -> 0..2]
      BY <2>2, CountedIs DEF EndOperation, TypeOK
    <2>4. QED
      BY <2>1, <2>2, <2>3, EmptyHeaderType DEF EndOperation, TypeOK, Sector
  <1>7. CASE Reset \/ ResetTorn
    <2>1. PICK f \in Sector : Boot(f)
      BY <1>7, ResetIsBoot
    <2>2. Reboots /\ damaged' \in BOOLEAN
      BY <1>7, ResetIsBoot DEF TypeOK
    <2>3. ring' \in Header /\ slots' \in [Slot -> Msg \cup {Invalid, Garbled}] /\ flash' \in Sector
      BY <2>1, BootType
    <2>4. /\ step' = "none" /\ at' \in Slot /\ taken' = Invalid /\ replaying' = FALSE
      BY <2>1, EmptyHeaderType DEF Boot
    <2>5. /\ replayed' \in [Msg -> 0..2] /\ before' \subseteq Msg /\ unstruck' \subseteq Msg
          /\ arrived' \subseteq Msg /\ failed' = FALSE
      BY <2>2 DEF Reboots, TypeOK
    <2>6. QED
      BY <2>2, <2>3, <2>4, <2>5 DEF TypeOK, Sector
  <1>8. CASE UNCHANGED vars
    BY <1>8 DEF vars, store, history, TypeOK
  <1>9. QED
    BY <1>2, <1>3, <1>4, <1>5, <1>6, <1>7, <1>8 DEF Next

-----------------------------------------------------------------------------
(* What was sent to the phone is gone.                                     *)

\* Steps that bring no frame to a place where it was not, and send none.
LEMMA FewerPlaces ==
  ASSUME IInv, arrived \subseteq arrived', unstruck \subseteq unstruck',
         \A m \in Msg : replayed'[m] \in {replayed[m], 0} /\ (Sent(m)' <=> Sent(m)),
         \A m \in Msg : (replayed'[m] > 0 /\ m \in before') => m \in before,
         \A m \in Msg : replayed'[m] > 0 => \A i \in Slot : slots'[i] = m => slots[i] = m,
         \A i \in Slot, m \in Msg : Holds(i, m)' => Holds(i, m)
  PROVE  OnePlace' /\ OnlyArrived' /\ SentGone' /\ ReplayedOnce'
  <1>1. OnePlace'
    BY DEF IInv, Replay, OnePlace
  <1>2. OnlyArrived'
    BY DEF IInv, Replay, OnlyArrived
  <1>3. \A m \in Msg : replayed[m] \in 0..2
    BY DEF IInv, TypeOK
  <1>4. SentGone'
    <2>1. ASSUME NEW m \in Msg, replayed'[m] > 0, NEW i \in Slot PROVE slots'[i] # m
      <3>1. replayed[m] > 0
        BY <1>3, <2>1
      <3>2. slots[i] # m
        BY <3>1 DEF IInv, Replay, SentGone
      <3>3. QED
        BY <2>1, <3>2
    <2>2. ASSUME NEW m \in Msg, Sent(m)', m \notin unstruck', NEW i \in Slot PROVE ~Holds(i, m)'
      BY <2>2 DEF IInv, Replay, SentGone
    <2>3. QED
      BY <2>1, <2>2 DEF SentGone
  <1>5. ReplayedOnce'
    <2>1. ASSUME NEW m \in Msg
          PROVE  /\ replayed'[m] <= 1
                 /\ replayed'[m] = 1 /\ m \in before' => m \in unstruck'
      <3>1. replayed[m] <= 1 /\ (replayed[m] = 1 /\ m \in before => m \in unstruck)
        BY DEF IInv, Replay, ReplayedOnce
      <3>2. replayed'[m] \in {replayed[m], 0}
        OBVIOUS
      <3>3. QED
        BY <1>3, <3>1, <3>2
    <2>2. QED
      BY <2>1 DEF ReplayedOnce
  <1>6. QED
    BY <1>1, <1>2, <1>4, <1>5

LEMMA ReplayInit ==
  ASSUME Init
  PROVE  Replay
  <1>1. \A i \in Slot : slots[i] = Invalid /\ flash.slot[i] \in {Garbled, Erased}
    BY InitType DEF Init
  <1>2. \A m \in Msg : replayed[m] = 0 /\ ~Sent(m)
    <2>1. before = {} /\ \A m \in Msg : replayed[m] = 0
      BY DEF Init
    <2>2. ASSUME NEW m \in Msg PROVE ~Sent(m)
      <3>1. ~(0 > 0)
        OBVIOUS
      <3>2. QED
        BY <2>1, <3>1 DEF Sent
    <2>3. QED
      BY <2>1, <2>2
  <1>3. \A i \in Slot, m \in Msg : ~Holds(i, m)
    BY <1>1, NoFrame DEF Holds
  <1>4. TakenGone
    BY NoFrame DEF Init, TakenGone
  <1>5. QED
    BY <1>2, <1>3, <1>4 DEF Replay, OnePlace, OnlyArrived, SentGone, ReplayedOnce

LEMMA AddStep ==
  ASSUME IInv, NEW m \in Msg, Add(m)
  PROVE  Replay'
  <1>1. /\ slots' = [slots EXCEPT ![ring.head] = m] /\ arrived' = arrived \cup {m}
        /\ m \notin arrived
        /\ UNCHANGED <<flash, taken, replayed, before, unstruck>> /\ taken = Invalid
    BY DEF Add, history, IInv, Replay, TakenGone
  <1>2. ring.head \in Slot /\ slots \in [Slot -> Msg \cup {Invalid, Garbled}]
    BY StateParts DEF IInv
  <1>3. ~Sent(m) /\ \A i \in Slot : ~Holds(i, m)
    BY <1>1 DEF IInv, Replay, OnlyArrived
  <1>4. \A i \in Slot, x \in Msg : Holds(i, x)' => Holds(i, x) \/ (x = m /\ i = ring.head)
    BY <1>1, <1>2 DEF Holds
  <1>5. \A x \in Msg : Sent(x)' <=> Sent(x)
    BY <1>1 DEF Sent
  <1>6. OnePlace'
    BY <1>3, <1>4 DEF IInv, Replay, OnePlace
  <1>7. OnlyArrived'
    BY <1>1, <1>4, <1>5 DEF IInv, Replay, OnlyArrived
  <1>8. SentGone'
    <2>1. ASSUME NEW x \in Msg, replayed'[x] > 0, NEW i \in Slot PROVE slots'[i] # x
      <3>1. replayed[x] > 0 /\ x # m
        BY <1>1, <1>3, <2>1 DEF Sent
      <3>2. slots[i] # x
        BY <3>1 DEF IInv, Replay, SentGone
      <3>3. QED
        BY <1>1, <1>2, <3>1, <3>2
    <2>2. ASSUME NEW x \in Msg, Sent(x)', x \notin unstruck', NEW i \in Slot PROVE ~Holds(i, x)'
      <3>1. Sent(x) /\ x # m /\ x \notin unstruck
        BY <1>1, <1>3, <1>5, <2>2
      <3>2. ~Holds(i, x)
        BY <3>1 DEF IInv, Replay, SentGone
      <3>3. QED
        BY <1>4, <3>1, <3>2
    <2>3. QED
      BY <2>1, <2>2 DEF SentGone
  <1>9. ReplayedOnce'
    BY <1>1 DEF IInv, Replay, ReplayedOnce
  <1>10. TakenGone'
    BY <1>1, NoFrame DEF Add, TakenGone
  <1>11. QED
    BY <1>6, <1>7, <1>8, <1>9, <1>10 DEF Replay

LEMMA PopStep ==
  ASSUME IInv, Pop
  PROVE  Replay'
  <1>1. /\ taken' = slots[ring.tail] /\ slots' = [slots EXCEPT ![ring.tail] = Invalid]
        /\ step' = "slot" /\ at' = ring.tail
        /\ UNCHANGED <<flash, replaying, arrived, replayed, before, unstruck>>
    BY DEF Pop, history
  <1>2. ring.tail \in Slot /\ slots \in [Slot -> Msg \cup {Invalid, Garbled}]
    BY StateParts DEF IInv
  <1>3. \A i \in Slot, m \in Msg : slots'[i] = m => slots[i] = m
    BY <1>1, <1>2, NoFrame
  <1>4. OnePlace' /\ OnlyArrived' /\ SentGone' /\ ReplayedOnce'
    <2>1. \A i \in Slot, m \in Msg : Holds(i, m)' => Holds(i, m)
      BY <1>1, <1>3 DEF Holds
    <2>2. \A m \in Msg : Sent(m)' <=> Sent(m)
      BY <1>1 DEF Sent
    <2>3. QED
      BY <1>1, <1>3, <2>1, <2>2, FewerPlaces
  <1>5. TakenGone'
    <2>1. SUFFICES ASSUME taken' \in Msg
                   PROVE  /\ taken' \in arrived' /\ replayed'[taken'] = 0
                          /\ taken' \in before' => taken' \in unstruck'
                          /\ slots'[at'] = Invalid
                          /\ \A i \in Slot : slots'[i] # taken'
                          /\ \A i \in Slot : flash'.slot[i] = taken' => i = at'
      BY <1>1 DEF TakenGone
    <2>2. PICK m \in Msg : m = taken' /\ slots[ring.tail] = m
      BY <1>1, <2>1
    <2>3. Holds(ring.tail, m)
      BY <2>2 DEF Holds
    <2>4. m \in arrived /\ \A i \in Slot : Holds(i, m) => i = ring.tail
      BY <1>2, <2>3 DEF IInv, Replay, OnlyArrived, OnePlace
    <2>5. replayed[m] = 0 /\ (m \in before => m \in unstruck)
      <3>1. replayed[m] \in 0..2 /\ ~(replayed[m] > 0)
        BY <1>2, <2>2 DEF IInv, Replay, SentGone, TypeOK
      <3>2. m \in before => m \in unstruck
        BY <1>2, <2>3 DEF IInv, Replay, SentGone, Sent
      <3>3. QED
        BY <3>1, <3>2
    <2>6. slots'[ring.tail] = Invalid /\ \A i \in Slot : slots'[i] # m
      BY <1>1, <1>2, <2>2, <2>4, NoFrame DEF Holds
    <2>7. \A i \in Slot : flash'.slot[i] = m => i = ring.tail
      BY <1>1, <2>4 DEF Holds
    <2>8. QED
      BY <1>1, <2>2, <2>4, <2>5, <2>6, <2>7
  <1>6. QED
    BY <1>4, <1>5 DEF Replay

\* A write, whole, failed or cut, brings no frame to a place where it was not.
LEMMA WritesNothingNew ==
  ASSUME TypeOK, NEW f,
         \/ f = flash \/ f = SlotTarget \/ f \in Part(flash, SlotTarget)
         \/ f = HeaderTarget \/ f \in Part(flash, HeaderTarget)
  PROVE  \A i \in Slot, m \in Msg : f.slot[i] = m => flash.slot[i] = m \/ (i = at /\ slots[i] = m)
  <1>1. \A i \in Slot, m \in Msg :
          SlotTarget.slot[i] = m => flash.slot[i] = m \/ (i = at /\ slots[i] = m)
    BY TargetsAre, NoFrame
  <1>2. HeaderTarget.slot = flash.slot
    BY TargetsAre
  <1>3. CASE f \in Part(flash, SlotTarget)
    BY <1>1, <1>3, PartsOfTargets, NoFrame DEF Between
  <1>4. CASE f \in Part(flash, HeaderTarget)
    BY <1>2, <1>4, PartsOfTargets, NoFrame DEF Between
  <1>5. QED
    BY <1>1, <1>2, <1>3, <1>4

LEMMA PersistSlotStep ==
  ASSUME IInv, PersistSlot \/ PersistSlotFails
  PROVE  Replay'
  <1>1. /\ step = "slot" /\ step' = "header"
        /\ UNCHANGED <<slots, at, taken, arrived, replayed, before>>
        /\ flash' = flash \/ flash' = SlotTarget \/ flash' \in Part(flash, SlotTarget)
    BY DEF PersistSlot, PersistSlotFails, history
  <1>2. \/ flash' = SlotTarget /\ unstruck' = unstruck
        \/ unstruck' = unstruck \cup ({taken} \cap Msg)
    BY DEF PersistSlot, PersistSlotFails, history
  <1>3. \A i \in Slot, m \in Msg : flash'.slot[i] = m => flash.slot[i] = m \/ (i = at /\ slots[i] = m)
    BY <1>1, WritesNothingNew DEF IInv
  <1>4. OnePlace' /\ OnlyArrived' /\ SentGone' /\ ReplayedOnce'
    <2>1. \A i \in Slot, m \in Msg : Holds(i, m)' => Holds(i, m)
      BY <1>1, <1>3 DEF Holds
    <2>2. \A m \in Msg : Sent(m)' <=> Sent(m)
      BY <1>1 DEF Sent
    <2>3. QED
      BY <1>1, <1>2, <2>1, <2>2, FewerPlaces
  <1>5. TakenGone'
    <2>1. SUFFICES ASSUME taken \in Msg
                   PROVE  /\ taken \in arrived /\ replayed[taken] = 0
                          /\ taken \in before => taken \in unstruck'
                          /\ slots[at] = Invalid
                          /\ \A i \in Slot : slots[i] # taken
                          /\ \A i \in Slot : flash'.slot[i] = taken => taken \in unstruck'
      BY <1>1 DEF TakenGone
    <2>2. /\ taken \in arrived /\ replayed[taken] = 0 /\ slots[at] = Invalid
          /\ taken \in before => taken \in unstruck
          /\ \A i \in Slot : slots[i] # taken
          /\ \A i \in Slot : flash.slot[i] = taken => i = at \/ taken \in unstruck
      BY <1>1, <2>1 DEF IInv, Replay, TakenGone
    <2>3. CASE flash' = SlotTarget /\ unstruck' = unstruck
      <3>1. \A i \in Slot : SlotTarget.slot[i] = taken => i # at /\ flash.slot[i] = taken
        BY <2>1, <2>2, TargetsAre, NoFrame DEF IInv
      <3>2. QED
        BY <2>2, <2>3, <3>1
    <2>4. CASE unstruck' = unstruck \cup ({taken} \cap Msg)
      BY <2>1, <2>2, <2>4
    <2>5. QED
      BY <1>2, <2>3, <2>4
  <1>6. QED
    BY <1>4, <1>5 DEF Replay

LEMMA PersistHeaderStep ==
  ASSUME IInv, PersistHeader \/ PersistHeaderFails
  PROVE  Replay'
  <1>1. /\ step = "header" /\ step' = "none" /\ taken' = Invalid
        /\ UNCHANGED <<slots, arrived, before, unstruck>>
        /\ replayed' = replayed \/ (taken \in Msg /\ replayed' = Counted(taken))
        /\ flash' = flash \/ flash' = HeaderTarget \/ flash' \in Part(flash, HeaderTarget)
    BY DEF PersistHeader, PersistHeaderFails, EndOperation
  <1>2. \A i \in Slot, m \in Msg : flash'.slot[i] = m => flash.slot[i] = m \/ slots[i] = m
    BY <1>1, WritesNothingNew DEF IInv
  <1>3. \A i \in Slot, m \in Msg : Holds(i, m)' => Holds(i, m)
    BY <1>1, <1>2 DEF Holds
  <1>4. TakenGone'
    BY <1>1, NoFrame DEF TakenGone
  <1>5. CASE replayed' = replayed
    <2>1. \A m \in Msg : Sent(m)' <=> Sent(m)
      BY <1>1, <1>5 DEF Sent
    <2>2. OnePlace' /\ OnlyArrived' /\ SentGone' /\ ReplayedOnce'
      BY <1>1, <1>3, <1>5, <2>1, FewerPlaces
    <2>3. QED
      BY <1>4, <2>2 DEF Replay
  <1>6. CASE taken \in Msg /\ replayed' = Counted(taken)
    <2>1. /\ taken \in arrived /\ replayed[taken] = 0
          /\ taken \in before => taken \in unstruck
          /\ \A i \in Slot : slots[i] # taken
          /\ taken \notin unstruck => \A i \in Slot : ~Holds(i, taken)
      BY <1>1, <1>6 DEF IInv, Replay, TakenGone, Holds
    <2>2. /\ replayed'[taken] = 1
          /\ \A m \in Msg : m # taken => replayed'[m] = replayed[m]
      BY <1>6, <2>1, CountedIs DEF IInv
    <2>3. \A m \in Msg : m # taken => (Sent(m)' <=> Sent(m))
      BY <1>1, <2>2 DEF Sent
    <2>4. OnePlace'
      BY <1>3 DEF IInv, Replay, OnePlace
    <2>5. OnlyArrived'
      BY <1>1, <1>3, <2>1, <2>3 DEF IInv, Replay, OnlyArrived
    <2>6. SentGone'
      <3>1. ASSUME NEW m \in Msg, replayed'[m] > 0, NEW i \in Slot PROVE slots'[i] # m
        BY <1>1, <2>1, <2>2, <3>1 DEF IInv, Replay, SentGone
      <3>2. ASSUME NEW m \in Msg, Sent(m)', m \notin unstruck', NEW i \in Slot PROVE ~Holds(i, m)'
        BY <1>1, <1>3, <2>1, <2>3, <3>2 DEF IInv, Replay, SentGone
      <3>3. QED
        BY <3>1, <3>2 DEF SentGone
    <2>7. ReplayedOnce'
      BY <1>1, <2>1, <2>2 DEF IInv, Replay, ReplayedOnce
    <2>8. QED
      BY <1>4, <2>4, <2>5, <2>6, <2>7 DEF Replay
  <1>7. QED
    BY <1>1, <1>5, <1>6

LEMMA ResetStep ==
  ASSUME IInv, Reset \/ ResetTorn
  PROVE  Replay'
  <1>1. PICK f \in Sector : BootsFrom(f) /\ Boot(f)
    BY ResetIsBoot DEF IInv
  <1>2. /\ before' = before \cup {m \in Msg : replayed[m] > 0}
        /\ replayed' = [m \in Msg |-> 0] /\ UNCHANGED <<arrived, unstruck>>
    BY ResetIsBoot DEF IInv, Reboots
  <1>3. \A i \in Slot, m \in Msg : f.slot[i] = m => Holds(i, m)
    BY <1>1, WritesNothingNew DEF BootsFrom, Holds, IInv
  <1>4. \A i \in Slot, m \in Msg : Holds(i, m)' => Holds(i, m)
    BY <1>1, <1>3, BootType DEF Holds
  <1>5. \A m \in Msg : replayed'[m] = 0 /\ (Sent(m)' <=> Sent(m))
    BY <1>2 DEF Sent
  <1>6. OnePlace' /\ OnlyArrived' /\ SentGone' /\ ReplayedOnce'
    BY <1>2, <1>4, <1>5, FewerPlaces
  <1>7. TakenGone'
    BY <1>1, NoFrame DEF Boot, TakenGone
  <1>8. QED
    BY <1>6, <1>7 DEF Replay

LEMMA ReplayStep ==
  ASSUME IInv, [Next]_vars
  PROVE  IInv'
  <1>1. TypeOK'
    BY TypeStep DEF IInv
  <1>2. ASSUME UNCHANGED <<slots, flash, step, at, taken, arrived, replayed, before, unstruck>>
        PROVE  Replay'
    BY <1>2 DEF IInv, Replay, OnePlace, OnlyArrived, SentGone, TakenGone, ReplayedOnce, Holds, Sent
  <1>3. ASSUME StartReplay \/ EndReplay \/ UNCHANGED vars PROVE Replay'
    BY <1>2, <1>3 DEF StartReplay, EndReplay, vars, store, history
  <1>4. ASSUME NEW m \in Msg, Add(m) PROVE Replay'
    BY <1>4, AddStep
  <1>5. ASSUME Pop PROVE Replay'
    BY <1>5, PopStep
  <1>6. ASSUME PersistSlot \/ PersistSlotFails PROVE Replay'
    BY <1>6, PersistSlotStep
  <1>7. ASSUME PersistHeader \/ PersistHeaderFails PROVE Replay'
    BY <1>7, PersistHeaderStep
  <1>8. ASSUME Reset \/ ResetTorn PROVE Replay'
    BY <1>8, ResetStep
  <1>9. QED
    BY <1>1, <1>3, <1>4, <1>5, <1>6, <1>7, <1>8 DEF IInv, Next

\* The ring, its copy in flash and the operation in progress keep their types on any
\* driver that leaves headers and slots in form, whatever writes fail or are cut
\* (GenericNvsStorage).
THEOREM StoreTypeCorrect == Spec => []TypeOK
  <1>1. Init => TypeOK
    BY InitType
  <1>2. TypeOK /\ [Next]_vars => TypeOK'
    BY TypeStep
  <1>3. QED
    BY <1>1, <1>2, PTL DEF Spec

\* On either board a frame goes to the phone at most once between two boots, and again
\* after a boot only if pop failed to invalidate its slot: no other failed or cut write and
\* no reset, at any point, brings back what was sent (peek, pop, persist_slot, load_or_init).
THEOREM NeverReplayedTwice == Spec => []ReplayedOnce
  <1>1. Init => IInv
    BY InitType, ReplayInit DEF IInv
  <1>2. IInv /\ [Next]_vars => IInv'
    BY ReplayStep
  <1>3. IInv => ReplayedOnce
    BY DEF IInv, Replay
  <1>4. QED
    BY <1>1, <1>2, <1>3, PTL DEF Spec

-----------------------------------------------------------------------------
(* Head, tail and count.                                                   *)

Fits(h) == h.head = (h.tail + h.count) % Size

Popped(r) == [r EXCEPT !.tail = After(@), !.count = @ - 1]

LEMMA HeaderFits ==
  ASSUME NEW h \in Header
  PROVE  Fits(h) <=> h.head = IF h.tail + h.count < Size THEN h.tail + h.count
                              ELSE h.tail + h.count - Size
  <1>1. h.tail \in 0..(Size-1) /\ h.count \in 0..Size /\ Size \in Nat \ {0}
    BY StoreAssumption DEF Header, Slot
  <1>2. PICK x \in Nat : x = h.tail + h.count /\ x < Size + Size
    BY <1>1
  <1>3. x % Size = IF x < Size THEN x ELSE x - Size
    BY <1>2, Wraps
  <1>4. Fits(h) <=> h.head = x % Size
    BY <1>2 DEF Fits
  <1>5. (IF x < Size THEN x ELSE x - Size)
          = IF h.tail + h.count < Size THEN h.tail + h.count ELSE h.tail + h.count - Size
    BY <1>1, <1>2
  <1>6. QED
    BY <1>3, <1>4, <1>5

LEMMA EmptyFits == Fits(EmptyHeader)
  BY EmptyHeaderType, HeaderFits, StoreAssumption DEF EmptyHeader

LEMMA AddedFits ==
  ASSUME NEW r \in Header, Fits(r)
  PROVE  Fits(Added(r))
  <1>1. r.tail \in 0..(Size-1) /\ r.head \in 0..(Size-1) /\ r.count \in 0..Size /\ Size \in Nat \ {0}
    BY StoreAssumption DEF Header, Slot
  <1>2. r.head = IF r.tail + r.count < Size THEN r.tail + r.count ELSE r.tail + r.count - Size
    BY HeaderFits
  <1>3. /\ After(r.head) = IF r.head + 1 < Size THEN r.head + 1 ELSE 0
        /\ After(r.tail) = IF r.tail + 1 < Size THEN r.tail + 1 ELSE 0
    BY <1>1, AfterType DEF Slot
  <1> DEFINE g == Added(r)
  <1>4. g \in Header
    BY AddedType
  <1>5. /\ g.head = After(r.head)
        /\ g.tail = IF r.count >= Size THEN After(r.tail) ELSE r.tail
        /\ g.count = IF r.count >= Size THEN Size ELSE r.count + 1
    BY DEF Added
  <1> HIDE DEF g
  <1>6. g.head = IF g.tail + g.count < Size THEN g.tail + g.count ELSE g.tail + g.count - Size
    <2>1. CASE r.count >= Size
      BY <1>1, <1>2, <1>3, <1>5, <2>1
    <2>2. CASE ~(r.count >= Size)
      BY <1>1, <1>2, <1>3, <1>5, <2>2
    <2>3. QED
      BY <2>1, <2>2
  <1>7. Fits(g)
    BY <1>4, <1>6, HeaderFits
  <1>8. QED
    BY <1>7 DEF g

LEMMA PoppedFits ==
  ASSUME NEW r \in Header, r.count > 0, Fits(r)
  PROVE  Popped(r) \in Header /\ Fits(Popped(r))
  <1> DEFINE g == [r EXCEPT !.tail = After(r.tail), !.count = r.count - 1]
  <1>1. r.tail \in 0..(Size-1) /\ r.head \in 0..(Size-1) /\ r.count \in 0..Size /\ Size \in Nat \ {0}
    BY StoreAssumption DEF Header, Slot
  <1>2. r.head = IF r.tail + r.count < Size THEN r.tail + r.count ELSE r.tail + r.count - Size
    BY HeaderFits
  <1>3. After(r.tail) = IF r.tail + 1 < Size THEN r.tail + 1 ELSE 0
    BY <1>1, AfterType DEF Slot
  <1>4. g \in Header
    BY PoppedType
  <1>5. g.head = r.head /\ g.tail = After(r.tail) /\ g.count = r.count - 1
    BY DEF Header
  <1> HIDE DEF g
  <1>6. g.head = IF g.tail + g.count < Size THEN g.tail + g.count ELSE g.tail + g.count - Size
    BY <1>1, <1>2, <1>3, <1>5
  <1>7. Fits(g)
    BY <1>4, <1>6, HeaderFits
  <1>8. QED
    BY <1>4, <1>7 DEF g, Popped

LEMMA HeadersAre ==
  ASSUME NEW r \in Header, NEW f
  PROVE  (\A h \in {r, f.header} \cap Header : h.head = (h.tail + h.count) % Size)
           <=> Fits(r) /\ Fits(LoadedHeader(f))
  BY EmptyFits DEF LoadedHeader, Fits

\* The header of a part of a rewritten sector.
LEMMA PartHeader ==
  ASSUME RewritesSector, NEW f, NEW new \in Sector, NEW g \in Part(f, new)
  PROVE  LoadedHeader(g) \in {EmptyHeader, LoadedHeader(new)}
  <1>1. g.header = Erased \/ g.header = new.header
    BY SectorPartIs DEF Part
  <1>2. Erased \notin Header
    BY StoreAssumption
  <1>3. QED
    BY <1>1, <1>2 DEF LoadedHeader

\* A boot shows the same ring afterwards as it found.
LEMMA InitialisedHeader ==
  ASSUME RewritesSector, NEW f \in Sector, NEW g \in Initialised(f)
  PROVE  /\ LoadedHeader(g) = LoadedHeader(f)
         /\ f.header \in Header => g = f
         /\ f.header \notin Header => LoadedHeader(f) = EmptyHeader
  <1>1. CASE f.header \in Header
    BY <1>1 DEF Initialised
  <1>2. CASE f.header \notin Header
    <2> DEFINE new == HeaderWritten(f, EmptyHeader)
    <2>1. new \in Sector /\ new.header = EmptyHeader
      BY EmptyHeaderType, HeaderWrittenIs
    <2>2. g \in {new, f} \cup Part(f, new)
      BY <1>2 DEF Initialised
    <2> HIDE DEF new
    <2>3. LoadedHeader(f) = EmptyHeader /\ LoadedHeader(new) = EmptyHeader
      BY <1>2, <2>1, EmptyHeaderType DEF LoadedHeader
    <2>4. CASE g \in Part(f, new)
      BY <1>2, <2>1, <2>3, <2>4, PartHeader
    <2>5. QED
      BY <1>2, <2>2, <2>3, <2>4
  <1>3. QED
    BY <1>1, <1>2

\* The headers a write may leave.
LEMMA WrittenHeader ==
  ASSUME RewritesSector, TypeOK, NEW f,
         \/ f = flash \/ f = SlotTarget \/ f \in Part(flash, SlotTarget)
         \/ f = HeaderTarget \/ f \in Part(flash, HeaderTarget)
  PROVE  LoadedHeader(f) \in {EmptyHeader, LoadedHeader(flash), ring}
  <1>1. SlotTarget \in Sector /\ LoadedHeader(SlotTarget) = LoadedHeader(flash)
    BY TargetsAre DEF LoadedHeader
  <1>2. HeaderTarget \in Sector /\ LoadedHeader(HeaderTarget) = ring
    BY TargetsAre DEF LoadedHeader
  <1>3. CASE f \in Part(flash, SlotTarget)
    BY <1>1, <1>3, PartHeader
  <1>4. CASE f \in Part(flash, HeaderTarget)
    BY <1>2, <1>4, PartHeader
  <1>5. QED
    BY <1>1, <1>2, <1>3, <1>4

LEMMA HeadersStep ==
  ASSUME RewritesSector, TypeOK, HeadersAgree, [Next]_vars
  PROVE  HeadersAgree'
  <1>1. Fits(ring) /\ Fits(LoadedHeader(flash)) /\ ring \in Header
    BY StateParts, HeadersAre DEF HeadersAgree
  <1>2. SUFFICES Fits(ring') /\ Fits(LoadedHeader(flash'))
    <2>1. ring' \in Header
      BY TypeStep DEF TypeOK
    <2>2. QED
      BY <2>1, HeadersAre DEF HeadersAgree
  <1>3. ASSUME NEW m \in Msg, Add(m) PROVE Fits(ring') /\ Fits(LoadedHeader(flash'))
    BY <1>1, <1>3, AddedFits DEF Add
  <1>4. CASE Pop
    BY <1>1, <1>4, PoppedFits DEF Pop, Popped
  <1>5. CASE StartReplay \/ EndReplay \/ UNCHANGED vars
    BY <1>1, <1>5 DEF StartReplay, EndReplay, vars, store
  <1>6. CASE PersistSlot \/ PersistSlotFails \/ PersistHeader \/ PersistHeaderFails
    <2>1. /\ ring' = ring
          /\ \/ flash' = flash \/ flash' = SlotTarget \/ flash' \in Part(flash, SlotTarget)
             \/ flash' = HeaderTarget \/ flash' \in Part(flash, HeaderTarget)
      BY <1>6 DEF PersistSlot, PersistSlotFails, PersistHeader, PersistHeaderFails, EndOperation
    <2>2. QED
      BY <1>1, <2>1, WrittenHeader, EmptyFits
  <1>7. CASE Reset \/ ResetTorn
    <2>1. PICK f \in Sector : BootsFrom(f) /\ Boot(f)
      BY <1>7, ResetIsBoot
    <2>2. Fits(LoadedHeader(f))
      BY <1>1, <2>1, WrittenHeader, EmptyFits DEF BootsFrom
    <2>3. ring' = LoadedHeader(f) /\ LoadedHeader(flash') = LoadedHeader(f)
      BY <2>1, InitialisedHeader DEF Boot
    <2>4. QED
      BY <2>2, <2>3
  <1>8. QED
    BY <1>3, <1>4, <1>5, <1>6, <1>7 DEF Next

-----------------------------------------------------------------------------
(* The ring implements the queue: where the slots of a ring are.           *)

LEMMA PlaceIs ==
  ASSUME NEW t \in Slot, NEW k \in 0..Size
  PROVE  /\ Place(t, k) \in Slot
         /\ Place(t, k) = IF t + k < Size THEN t + k ELSE t + k - Size
  <1>1. t \in 0..(Size-1) /\ Size \in Nat \ {0}
    BY StoreAssumption DEF Slot
  <1>2. PICK x \in Nat : x = t + k /\ x < Size + Size
    BY <1>1
  <1>3. x % Size = IF x < Size THEN x ELSE x - Size
    BY <1>2, Wraps
  <1>4. Place(t, k) = x % Size
    BY <1>2 DEF Place
  <1>5. QED
    BY <1>1, <1>2, <1>3, <1>4 DEF Slot

LEMMA PlaceEnds ==
  ASSUME NEW t \in Slot
  PROVE  Place(t, 0) = t /\ Place(t, Size) = t
  <1>1. t \in 0..(Size-1) /\ Size \in Nat \ {0}
    BY StoreAssumption DEF Slot
  <1>2. /\ Place(t, 0) = IF t + 0 < Size THEN t + 0 ELSE t + 0 - Size
        /\ Place(t, Size) = IF t + Size < Size THEN t + Size ELSE t + Size - Size
    BY <1>1, PlaceIs
  <1>3. QED
    BY <1>1, <1>2

LEMMA PlaceNext ==
  ASSUME NEW t \in Slot, NEW k \in 0..(Size-1)
  PROVE  Place(After(t), k) = Place(t, k + 1)
  <1>1. t \in 0..(Size-1) /\ Size \in Nat \ {0} /\ k + 1 \in 0..Size /\ k \in 0..Size
    BY StoreAssumption DEF Slot
  <1>2. PICK u \in Slot : u = After(t) /\ u = IF t + 1 < Size THEN t + 1 ELSE 0
    BY AfterType
  <1>3. Place(u, k) = IF u + k < Size THEN u + k ELSE u + k - Size
    BY <1>1, PlaceIs
  <1>4. Place(t, k + 1) = IF t + (k + 1) < Size THEN t + (k + 1) ELSE t + (k + 1) - Size
    BY <1>1, PlaceIs
  <1>5. Place(u, k) = Place(t, k + 1)
    BY <1>1, <1>2, <1>3, <1>4
  <1>6. QED
    BY <1>2, <1>5

LEMMA PlacesDiffer ==
  ASSUME NEW t \in Slot, NEW k \in 0..(Size-1), NEW l \in 0..(Size-1), k # l
  PROVE  Place(t, k) # Place(t, l)
  <1>1. t \in 0..(Size-1) /\ Size \in Nat \ {0} /\ k \in 0..Size /\ l \in 0..Size
    BY StoreAssumption DEF Slot
  <1>2. /\ Place(t, k) = IF t + k < Size THEN t + k ELSE t + k - Size
        /\ Place(t, l) = IF t + l < Size THEN t + l ELSE t + l - Size
    BY <1>1, PlaceIs
  <1>3. QED
    BY <1>1, <1>2

LEMMA HeaderParts ==
  ASSUME NEW r \in Header
  PROVE  /\ r.head \in Slot /\ r.tail \in Slot /\ r.count \in 0..Size
         /\ After(r.tail) \in Slot
         /\ Size \in Nat \ {0}
  BY AfterType, StoreAssumption DEF Header

-----------------------------------------------------------------------------
(* What a window of slots holds.                                           *)

Items == Msg \cup {Invalid, Garbled}

LEMMA WindowSeq ==
  ASSUME NEW s \in [Slot -> Items], NEW t \in Slot, NEW n \in 0..Size
  PROVE  /\ Window(s, t, n) \in Seq(Items)
         /\ Len(Window(s, t, n)) = n
         /\ \A k \in 1..n : Window(s, t, n)[k] = s[Place(t, k - 1)]
  <1> DEFINE w == [k \in 1..n |-> s[Place(t, k - 1)]]
  <1>1. n \in Nat /\ Size \in Nat
    BY StoreAssumption
  <1>2. \A k \in 1..n : s[Place(t, k - 1)] \in Items
    <2> TAKE k \in 1..n
    <2>1. k - 1 \in 0..Size
      BY <1>1
    <2>2. Place(t, k - 1) \in Slot
      BY <2>1, PlaceIs
    <2>3. QED
      BY <2>2
  <1>3. w \in [1..n -> Items]
    BY <1>2
  <1>4. w \in Seq(Items) /\ Len(w) = n
    BY <1>1, <1>3, SeqDef
  <1>5. w = Window(s, t, n)
    BY DEF Window
  <1>6. QED
    BY <1>4, <1>5

LEMMA WindowSame ==
  ASSUME NEW s, NEW z, NEW t, NEW n \in Nat,
         \A k \in 0..n-1 : s[Place(t, k)] = z[Place(t, k)]
  PROVE  Window(s, t, n) = Window(z, t, n)
  <1>1. \A k \in 1..n : s[Place(t, k - 1)] = z[Place(t, k - 1)]
    OBVIOUS
  <1>2. QED
    BY <1>1 DEF Window

LEMMA WindowTail ==
  ASSUME NEW s \in [Slot -> Items], NEW t \in Slot, NEW n \in 1..Size
  PROVE  /\ Window(s, t, n) # <<>>
         /\ Head(Window(s, t, n)) = s[t]
         /\ Tail(Window(s, t, n)) = Window(s, After(t), n - 1)
         /\ Window(s, t, n) = <<s[t]>> \o Window(s, After(t), n - 1)
  <1> DEFINE W == Window(s, t, n)
             T == Window(s, After(t), n - 1)
  <1>1. n - 1 \in 0..Size /\ n \in 0..Size /\ Size \in Nat /\ After(t) \in Slot
    BY StoreAssumption, AfterType
  <1>2. \A k \in 0..(n-2) : Place(After(t), k) = Place(t, k + 1)
    BY <1>1, PlaceNext
  <1>3. /\ W \in Seq(Items) /\ Len(W) = n
        /\ \A k \in 1..n : W[k] = s[Place(t, k - 1)]
    BY <1>1, WindowSeq
  <1>4. /\ T \in Seq(Items) /\ Len(T) = n - 1
        /\ \A k \in 1..(n-1) : T[k] = s[Place(After(t), k - 1)]
    BY <1>1, WindowSeq
  <1> HIDE DEF W, T
  <1>5. W # <<>>
    BY <1>1, <1>3, EmptySeq
  <1>6. W[1] = s[t]
    BY <1>3, PlaceEnds
  <1>7. /\ Tail(W) \in Seq(Items) /\ Len(Tail(W)) = n - 1
        /\ \A k \in 1..(n-1) : Tail(W)[k] = W[k + 1]
    BY <1>3, <1>5, HeadTailProperties
  <1>8. \A k \in 1..(n-1) : W[k + 1] = T[k]
    <2> TAKE k \in 1..(n-1)
    <2>1. W[k + 1] = s[Place(t, k)]
      BY <1>1, <1>3
    <2>2. Place(After(t), k - 1) = Place(t, k)
      BY <1>1, <1>2
    <2>3. QED
      BY <1>4, <2>1, <2>2
  <1>9. Tail(W) = T
    BY <1>4, <1>7, <1>8, SeqEqual
  <1>10. <<s[t]>> \in Seq(Items) /\ Len(<<s[t]>>) = 1 /\ <<s[t]>>[1] = s[t]
    OBVIOUS
  <1> DEFINE c == <<s[t]>> \o T
  <1>11. /\ c \in Seq(Items) /\ Len(c) = n
         /\ \A k \in 1..n : c[k] = IF k <= 1 THEN s[t] ELSE T[k - 1]
    <2>1. /\ c \in Seq(Items) /\ Len(c) = 1 + (n - 1)
          /\ \A k \in 1..(1 + (n - 1)) : c[k] = IF k <= 1 THEN <<s[t]>>[k] ELSE T[k - 1]
      BY <1>4, <1>10, ConcatProperties
    <2>2. 1 + (n - 1) = n
      BY <1>1
    <2>3. ASSUME NEW k \in 1..n PROVE c[k] = IF k <= 1 THEN s[t] ELSE T[k - 1]
      <3>1. c[k] = IF k <= 1 THEN <<s[t]>>[k] ELSE T[k - 1]
        BY <2>1, <2>2
      <3>2. k <= 1 => k = 1
        OBVIOUS
      <3>3. QED
        BY <1>10, <3>1, <3>2
    <2>4. QED
      BY <2>1, <2>2, <2>3
  <1> HIDE DEF c
  <1>12. ASSUME NEW k \in 1..n PROVE W[k] = c[k]
    <2>1. CASE k = 1
      BY <1>6, <1>11, <2>1
    <2>2. CASE k # 1
      <3>1. k - 1 \in 1..(n-1) /\ (k - 1) + 1 = k /\ ~(k <= 1)
        BY <1>1, <2>2
      <3>2. W[k] = T[k - 1]
        BY <1>8, <3>1
      <3>3. QED
        BY <1>11, <3>1, <3>2
    <2>3. QED
      BY <2>1, <2>2
  <1>13. W = c
    BY <1>3, <1>11, <1>12, SeqEqual
  <1>14. QED
    BY <1>5, <1>6, <1>9, <1>13 DEF W, T, c

LEMMA WindowAppend ==
  ASSUME NEW s \in [Slot -> Items], NEW t \in Slot, NEW n \in 0..(Size-1),
         NEW m \in Items, NEW i, i = Place(t, n),
         NEW z \in [Slot -> Items], z[i] = m, \A j \in Slot : j # i => z[j] = s[j]
  PROVE  Window(z, t, n + 1) = Append(Window(s, t, n), m)
  <1>1. n \in Nat /\ n + 1 \in Nat /\ Size \in Nat /\ i \in Slot
    BY StoreAssumption, PlaceIs
  <1>2. z[i] = m /\ \A j \in Slot : j # i => z[j] = s[j]
    OBVIOUS
  <1>3. \A k \in 0..(n-1) : Place(t, k) \in Slot /\ Place(t, k) # i
    BY <1>1, PlaceIs, PlacesDiffer
  <1>4. \A k \in 0..(n-1) : z[Place(t, k)] = s[Place(t, k)]
    BY <1>2, <1>3
  <1>5. n \in 0..Size /\ n + 1 \in 0..Size
    BY <1>1
  <1>6. /\ Window(s, t, n) \in Seq(Items) /\ Len(Window(s, t, n)) = n
        /\ \A k \in 1..n : Window(s, t, n)[k] = s[Place(t, k - 1)]
    BY <1>5, WindowSeq
  <1>7. /\ Window(z, t, n + 1) \in Seq(Items) /\ Len(Window(z, t, n + 1)) = n + 1
        /\ \A k \in 1..(n+1) : Window(z, t, n + 1)[k] = z[Place(t, k - 1)]
    BY <1>5, WindowSeq
  <1> DEFINE a == Append(Window(s, t, n), m)
  <1>8. /\ a \in Seq(Items) /\ Len(a) = n + 1 /\ a[n + 1] = m
        /\ \A k \in 1..n : a[k] = Window(s, t, n)[k]
    BY <1>6, AppendProperties
  <1> HIDE DEF a
  <1>9. \A k \in 1..(n+1) : Window(z, t, n + 1)[k] = a[k]
    <2> TAKE k \in 1..(n+1)
    <2>1. CASE k = n + 1
      <3>1. k - 1 = n
        BY <1>1, <2>1
      <3>2. QED
        BY <1>2, <1>7, <1>8, <2>1, <3>1
    <2>2. CASE k # n + 1
      <3>1. k \in 1..n /\ k - 1 \in 0..(n-1)
        BY <1>1, <2>2
      <3>2. QED
        BY <1>4, <1>6, <1>7, <1>8, <3>1
    <2>3. QED
      BY <2>1, <2>2
  <1>10. Window(z, t, n + 1) = a
    BY <1>7, <1>8, <1>9, SeqEqual
  <1>11. QED
    BY <1>10 DEF a

\* A full window seen from the slot after its first: the first frame goes last.
LEMMA WindowTurned ==
  ASSUME NEW s \in [Slot -> Items], NEW t \in Slot
  PROVE  LET K == Window(s, After(t), Size)
         IN  /\ K # <<>>
             /\ Window(s, t, Size) = <<K[Len(K)]>> \o SubSeq(K, 1, Len(K) - 1)
  <1> DEFINE K == Window(s, After(t), Size)
             W == Window(s, t, Size)
             F == SubSeq(K, 1, Size - 1)
  <1>1. Size \in Nat \ {0} /\ Size - 1 \in 0..(Size-1)
    BY StoreAssumption
  <1>2. \A k \in 0..(Size-1) : Place(After(t), k) = Place(t, k + 1)
    BY PlaceNext
  <1>3. Place(After(t), Size - 1) = t /\ Place(t, 0) = t
    <2>1. (Size - 1) + 1 = Size
      BY <1>1
    <2>2. QED
      BY <1>1, <1>2, <2>1, PlaceEnds
  <1>4. After(t) \in Slot /\ Size \in 0..Size
    BY <1>1, AfterType
  <1>5. /\ K \in Seq(Items) /\ Len(K) = Size
        /\ \A k \in 1..Size : K[k] = s[Place(After(t), k - 1)]
    BY <1>1, <1>4, WindowSeq
  <1>6. /\ W \in Seq(Items) /\ Len(W) = Size
        /\ \A k \in 1..Size : W[k] = s[Place(t, k - 1)]
    BY <1>1, <1>4, WindowSeq
  <1> HIDE DEF K, W
  <1>7. K # <<>> /\ K[Size] = s[t]
    BY <1>1, <1>3, <1>5, EmptySeq
  <1>8. /\ F \in Seq(Items) /\ Len(F) = Size - 1
        /\ \A k \in 1..(Size-1) : F[k] = K[k]
    <2>1. \A k \in 1..(Size-1) : K[k] \in Items
      BY <1>1, <1>5, ElementOfSeq
    <2>2. 1 \in Int /\ Size - 1 \in Int /\ (Size - 1) - 1 + 1 = Size - 1
      BY <1>1
    <2>3. /\ F \in Seq(Items)
          /\ Len(F) = IF 1 <= Size - 1 THEN (Size - 1) - 1 + 1 ELSE 0
          /\ \A k \in 1..((Size - 1) - 1 + 1) : F[k] = K[1 + k - 1]
      BY <2>1, <2>2, SubSeqProperties
    <2>4. Len(F) = Size - 1
      BY <1>1, <2>3
    <2>5. \A k \in 1..(Size-1) : F[k] = K[k]
      <3> TAKE k \in 1..(Size-1)
      <3>1. 1 + k - 1 = k
        OBVIOUS
      <3>2. QED
        BY <2>2, <2>3, <3>1
    <2>6. QED
      BY <2>3, <2>4, <2>5
  <1> HIDE DEF F
  <1>9. /\ <<K[Size]>> \in Seq(Items) /\ Len(<<K[Size]>>) = 1 /\ <<K[Size]>>[1] = K[Size]
    <2>1. K[Size] \in Items
      BY <1>1, <1>5, ElementOfSeq
    <2>2. QED
      BY <2>1
  <1> DEFINE c == <<K[Size]>> \o F
  <1>10. /\ c \in Seq(Items) /\ Len(c) = Size
         /\ \A k \in 1..Size : c[k] = IF k <= 1 THEN K[Size] ELSE F[k - 1]
    <2>1. /\ c \in Seq(Items) /\ Len(c) = 1 + (Size - 1)
          /\ \A k \in 1..(1 + (Size - 1)) : c[k] = IF k <= 1 THEN <<K[Size]>>[k] ELSE F[k - 1]
      BY <1>8, <1>9, ConcatProperties
    <2>2. 1 + (Size - 1) = Size
      BY <1>1
    <2>3. ASSUME NEW k \in 1..Size PROVE c[k] = IF k <= 1 THEN K[Size] ELSE F[k - 1]
      <3>1. c[k] = IF k <= 1 THEN <<K[Size]>>[k] ELSE F[k - 1]
        BY <2>1, <2>2
      <3>2. k <= 1 => k = 1
        OBVIOUS
      <3>3. QED
        BY <1>9, <3>1, <3>2
    <2>4. QED
      BY <2>1, <2>2, <2>3
  <1> HIDE DEF c
  <1>11. ASSUME NEW k \in 1..Size PROVE W[k] = c[k]
    <2>1. CASE k = 1
      <3>1. k - 1 = 0
        BY <2>1
      <3>2. QED
        BY <1>3, <1>6, <1>7, <1>10, <2>1, <3>1
    <2>2. CASE k # 1
      <3>1. k - 1 \in 1..(Size-1) /\ k - 2 \in 0..(Size-1) /\ ~(k <= 1) /\ (k - 1) - 1 = k - 2
            /\ (k - 2) + 1 = k - 1 /\ k - 1 \in 1..Size
        BY <1>1, <2>2
      <3>2. c[k] = K[k - 1]
        BY <1>8, <1>10, <3>1
      <3>3. K[k - 1] = s[Place(After(t), k - 2)]
        BY <1>5, <3>1
      <3>4. Place(After(t), k - 2) = Place(t, k - 1)
        BY <1>2, <3>1
      <3>5. QED
        BY <1>6, <3>2, <3>3, <3>4
    <2>3. QED
      BY <2>1, <2>2
  <1>12. W = c
    BY <1>6, <1>10, <1>11, SeqEqual
  <1>13. QED
    BY <1>5, <1>7, <1>12 DEF K, W, F, c

-----------------------------------------------------------------------------
(* The contents of a ring.                                                 *)

LEMMA ContentsSeq ==
  ASSUME NEW r \in Header, NEW s \in [Slot -> Items]
  PROVE  /\ Contents(r, s) \in Seq(Items)
         /\ Len(Contents(r, s)) = r.count /\ r.count <= Size
         /\ \A k \in 1..r.count : Contents(r, s)[k] = s[Place(r.tail, k - 1)]
  <1>1. PICK t \in Slot, n \in 0..Size : t = r.tail /\ n = r.count
    BY HeaderParts
  <1>2. n <= Size
    BY <1>1, StoreAssumption
  <1>3. /\ Window(s, t, n) \in Seq(Items) /\ Len(Window(s, t, n)) = n
        /\ \A k \in 1..n : Window(s, t, n)[k] = s[Place(t, k - 1)]
    BY WindowSeq
  <1>4. QED
    BY <1>1, <1>2, <1>3 DEF Contents

LEMMA ContentsNone ==
  ASSUME NEW s
  PROVE  Contents(EmptyHeader, s) = <<>>
  BY DEF Contents, Window, EmptyHeader

LEMMA ContentsSame ==
  ASSUME NEW r \in Header, NEW s, NEW z,
         \A k \in 0..r.count-1 : s[Place(r.tail, k)] = z[Place(r.tail, k)]
  PROVE  Contents(r, s) = Contents(r, z)
  <1>1. r.count \in Nat
    BY HeaderParts
  <1>2. QED
    BY <1>1, WindowSame DEF Contents

LEMMA ContentsAdded ==
  ASSUME NEW r \in Header, Fits(r), NEW s \in [Slot -> Items], NEW m \in Items,
         NEW z \in [Slot -> Items], z[r.head] = m, \A j \in Slot : j # r.head => z[j] = s[j]
  PROVE  LET K == Contents(r, s)
         IN  Contents(Added(r), z) = Append(IF Len(K) < Size THEN K ELSE Tail(K), m)
  <1> DEFINE K == Contents(r, s)
  <1>1. PICK t \in Slot, n \in 0..Size, i \in Slot : t = r.tail /\ n = r.count /\ i = r.head
    BY HeaderParts
  <1>2. i = Place(t, n) /\ After(t) \in Slot /\ Size \in Nat \ {0}
    BY <1>1, HeaderParts DEF Fits, Place
  <1>3. K = Window(s, t, n) /\ Len(K) = n
    BY <1>1, ContentsSeq DEF Contents
  <1>4. Contents(Added(r), z) = Window(z, Added(r).tail, Added(r).count)
    BY DEF Contents
  <1>5. CASE n < Size
    <2>1. n \in 0..(Size-1)
      BY <1>2, <1>5
    <2>2. Window(z, t, n + 1) = Append(Window(s, t, n), m)
      BY <1>1, <1>2, <2>1, WindowAppend
    <2>3. Added(r).tail = t /\ Added(r).count = n + 1
      BY <1>1, <1>2, <1>5 DEF Added
    <2>4. QED
      BY <1>3, <1>4, <1>5, <2>2, <2>3
  <1>6. CASE n = Size
    <2>1. n \in 1..Size /\ n - 1 \in 0..(Size-1) /\ (n - 1) + 1 = n /\ ~(n < Size)
      BY <1>2, <1>6
    <2>2. i = Place(After(t), n - 1)
      BY <1>2, <2>1, PlaceNext
    <2>3. Window(z, After(t), (n - 1) + 1) = Append(Window(s, After(t), n - 1), m)
      <3>1. PICK c \in 0..(Size-1), u \in Slot : c = n - 1 /\ u = After(t)
        BY <1>2, <2>1
      <3>2. i = Place(u, c) /\ z[i] = m /\ \A j \in Slot : j # i => z[j] = s[j]
        BY <1>1, <2>2, <3>1
      <3>3. Window(z, u, c + 1) = Append(Window(s, u, c), m)
        BY <3>2, WindowAppend
      <3>4. QED
        BY <3>1, <3>3
    <2>4. Tail(K) = Window(s, After(t), n - 1)
      <3>1. Tail(Window(s, t, n)) = Window(s, After(t), n - 1)
        BY <2>1, WindowTail
      <3>2. QED
        BY <1>3, <3>1
    <2>5. Added(r).tail = After(t) /\ Added(r).count = n
      BY <1>1, <1>2, <1>6 DEF Added
    <2>6. QED
      BY <1>3, <1>4, <2>1, <2>3, <2>4, <2>5
  <1>7. n < Size \/ n = Size
    BY <1>2
  <1>8. QED
    BY <1>5, <1>6, <1>7

LEMMA ContentsPopped ==
  ASSUME NEW r \in Header, r.count > 0, NEW s \in [Slot -> Items],
         NEW z, \A j \in Slot : j # r.tail => z[j] = s[j]
  PROVE  /\ Contents(r, s) # <<>>
         /\ Head(Contents(r, s)) = s[r.tail]
         /\ Contents(Popped(r), z) = Tail(Contents(r, s))
         /\ Contents(r, s) = <<s[r.tail]>> \o Contents(Popped(r), z)
  <1>1. PICK t \in Slot, n \in 0..Size : t = r.tail /\ n = r.count
    BY HeaderParts
  <1>2. n \in 1..Size /\ n - 1 \in Nat /\ Size \in Nat \ {0}
    BY <1>1, HeaderParts
  <1>3. Popped(r).tail = After(t) /\ Popped(r).count = n - 1
    BY <1>1 DEF Popped, Header
  <1>4. \A k \in 0..(n-1)-1 : z[Place(After(t), k)] = s[Place(After(t), k)]
    <2> TAKE k \in 0..(n-1)-1
    <2>1. k \in 0..(Size-1) /\ k + 1 \in 0..(Size-1) /\ k + 1 # 0 /\ 0 \in 0..(Size-1) /\ k + 1 \in 0..Size
      BY <1>2
    <2>2. Place(After(t), k) = Place(t, k + 1) /\ Place(t, k + 1) \in Slot
      BY <2>1, PlaceNext, PlaceIs
    <2>3. Place(t, k + 1) # Place(t, 0)
      BY <2>1, PlacesDiffer
    <2>4. QED
      BY <1>1, <2>2, <2>3, PlaceEnds
  <1>5. Window(z, After(t), n - 1) = Window(s, After(t), n - 1)
    BY <1>2, <1>4, WindowSame
  <1>6. /\ Window(s, t, n) # <<>> /\ Head(Window(s, t, n)) = s[t]
        /\ Tail(Window(s, t, n)) = Window(s, After(t), n - 1)
        /\ Window(s, t, n) = <<s[t]>> \o Window(s, After(t), n - 1)
    BY <1>2, WindowTail
  <1>7. Contents(r, s) = Window(s, t, n) /\ Contents(Popped(r), z) = Window(z, After(t), n - 1)
    BY <1>1, <1>3 DEF Contents
  <1>8. QED
    BY <1>1, <1>5, <1>6, <1>7

-----------------------------------------------------------------------------
(* The two copies of the ring.                                             *)

\* The slots of a sector as they would be loaded, and the ring it shows.
Raw(f) == [i \in Slot |-> IF f.slot[i] = Erased THEN Invalid ELSE f.slot[i]]
Shows(f) == Contents(LoadedHeader(f), LoadedSlots(f))

\* Two copies hold the same in the slots a ring counts, or in all of them but i.
Same(h, s, z) == \A k \in 0..h.count-1 : s[Place(h.tail, k)] = z[Place(h.tail, k)]
SameBut(h, i, s, z) ==
  \A k \in 0..h.count-1 : Place(h.tail, k) # i => s[Place(h.tail, k)] = z[Place(h.tail, k)]

\* The ring r is h with a frame in slot i more, or with the frame in slot i less.
AddedAt(r, h, i) == r = Added(h) /\ i = h.head
TakenAt(r, h, i) == h.count > 0 /\ r = Popped(h) /\ i = h.tail

\* Where the header h and the slots z in the flash stand against the RAM copy.
UnderWay(h, z) ==
  /\ step = "none" => ring = h /\ Same(h, slots, z)
  /\ step # "none" =>
       /\ SameBut(h, at, slots, z)
       /\ taken = Invalid => AddedAt(ring, h, at) /\ slots[at] \in Msg
       /\ taken # Invalid => TakenAt(ring, h, at) /\ slots[at] = Invalid
  /\ step = "header" => z[at] = slots[at]

SInv ==
  /\ TypeOK /\ HeadersAgree
  /\ step = "none" => taken = Invalid
  /\ ~failed => UnderWay(LoadedHeader(flash), Raw(flash))

LEMMA RawIs ==
  ASSUME NEW f \in Sector
  PROVE  /\ Raw(f) \in [Slot -> Items]
         /\ f.header \in Header => LoadedSlots(f) = Raw(f)
         /\ f.header \notin Header => LoadedHeader(f) = EmptyHeader
  <1>1. f.slot \in [Slot -> Msg \cup {Invalid, Garbled, Erased}]
    BY DEF Sector
  <1>2. QED
    BY <1>1 DEF Raw, LoadedSlots, LoadedHeader, Items

LEMMA ShowsIs ==
  ASSUME NEW f \in Sector
  PROVE  /\ Shows(f) = Contents(LoadedHeader(f), Raw(f))
         /\ Shows(f) \in Seq(Items)
         /\ Len(Shows(f)) = LoadedHeader(f).count /\ Len(Shows(f)) <= Size
  <1>1. LoadedHeader(f) \in Header /\ Raw(f) \in [Slot -> Items]
    BY LoadedIs, RawIs
  <1>2. Shows(f) = Contents(LoadedHeader(f), Raw(f))
    BY RawIs, ContentsNone DEF Shows
  <1>3. QED
    BY <1>1, <1>2, ContentsSeq

\* The new ring is the old one but for the slot written.
LEMMA RingPlaces ==
  ASSUME NEW h \in Header, Fits(h), NEW r, NEW i, AddedAt(r, h, i) \/ TakenAt(r, h, i),
         NEW k \in 0..r.count-1
  PROVE  \/ Place(r.tail, k) = i
         \/ \E l \in 0..h.count-1 : Place(r.tail, k) = Place(h.tail, l)
  <1>1. PICK t \in Slot, n \in 0..Size : t = h.tail /\ n = h.count
    BY HeaderParts
  <1>2. r \in Header
    BY AddedType, PoppedFits DEF AddedAt, TakenAt
  <1>3. PICK u \in Slot, c \in 0..Size : u = r.tail /\ c = r.count
    BY <1>2, HeaderParts
  <1>4. Size \in Nat \ {0} /\ Place(t, n) = h.head /\ k \in 0..(c-1) /\ k \in 0..(Size-1)
    BY <1>1, <1>3, HeaderParts DEF Fits, Place
  <1>5. CASE TakenAt(r, h, i)
    <2>1. u = After(t) /\ c = n - 1
      BY <1>1, <1>3, <1>5 DEF TakenAt, Popped, Header
    <2>2. k + 1 \in 0..(n-1)
      BY <1>4, <2>1
    <2>3. Place(u, k) = Place(t, k + 1)
      BY <1>4, <2>1, PlaceNext
    <2>4. QED
      BY <1>1, <1>3, <2>2, <2>3
  <1>6. CASE AddedAt(r, h, i)
    <2>1. /\ u = IF n >= Size THEN After(t) ELSE t
          /\ c = IF n >= Size THEN Size ELSE n + 1
          /\ i = Place(t, n)
      BY <1>1, <1>3, <1>4, <1>6 DEF AddedAt, Added
    <2>2. CASE n < Size
      <3>1. u = t /\ c = n + 1
        BY <1>4, <2>1, <2>2
      <3>2. CASE k = n
        BY <1>3, <2>1, <3>1, <3>2
      <3>3. CASE k # n
        <4>1. k \in 0..(n-1)
          BY <1>4, <3>1, <3>3
        <4>2. QED
          BY <1>1, <1>3, <3>1, <4>1
      <3>4. QED
        BY <3>2, <3>3
    <2>3. CASE n = Size
      <3>1. u = After(t)
        BY <1>4, <2>1, <2>3
      <3>2. Place(u, k) = Place(t, k + 1)
        BY <1>4, <3>1, PlaceNext
      <3>3. CASE k + 1 = Size
        BY <1>3, <2>1, <2>3, <3>2, <3>3
      <3>4. CASE k + 1 # Size
        <4>1. k + 1 \in 0..(n-1)
          BY <1>4, <2>3, <3>4
        <4>2. QED
          BY <1>1, <1>3, <3>2, <4>1
      <3>5. QED
        BY <3>3, <3>4
    <2>4. n < Size \/ n = Size
      BY <1>4
    <2>5. QED
      BY <2>2, <2>3, <2>4
  <1>7. QED
    BY <1>5, <1>6

LEMMA InvParts ==
  ASSUME SInv
  PROVE  /\ ring \in Header /\ Fits(ring)
         /\ LoadedHeader(flash) \in Header /\ Fits(LoadedHeader(flash))
         /\ slots \in [Slot -> Items] /\ at \in Slot
         /\ flash \in Sector /\ Raw(flash) \in [Slot -> Items]
         /\ Kept \in Seq(Items) /\ Len(Kept) = ring.count /\ Len(Kept) <= Size
         /\ Stored = Shows(flash)
         /\ Stored = Contents(LoadedHeader(flash), Raw(flash))
         /\ Stored \in Seq(Items) /\ Len(Stored) = LoadedHeader(flash).count /\ Len(Stored) <= Size
  <1>1. /\ ring \in Header /\ flash \in Sector /\ at \in Slot /\ slots \in [Slot -> Items]
    BY StateParts DEF SInv, Items
  <1>2. Fits(ring) /\ Fits(LoadedHeader(flash))
    BY <1>1, HeadersAre DEF SInv, HeadersAgree
  <1>3. LoadedHeader(flash) \in Header /\ Raw(flash) \in [Slot -> Items]
    BY <1>1, LoadedIs, RawIs
  <1>4. Kept \in Seq(Items) /\ Len(Kept) = ring.count /\ Len(Kept) <= Size
    BY <1>1, ContentsSeq DEF Kept
  <1>5. Stored = Shows(flash)
    BY DEF Stored, Shows
  <1>6. QED
    BY <1>1, <1>2, <1>3, <1>4, <1>5, ShowsIs

\* Between operations the flash shows what the RAM holds.
LEMMA IdleSame ==
  ASSUME SInv, ~failed, step = "none"
  PROVE  Stored = Kept
  <1>1. ring = LoadedHeader(flash) /\ Same(ring, slots, Raw(flash))
    BY DEF SInv, UnderWay
  <1>2. Contents(ring, slots) = Contents(ring, Raw(flash))
    BY <1>1, InvParts, ContentsSame DEF Same
  <1>3. QED
    BY <1>1, <1>2, InvParts DEF Kept

\* Once the slot is written the slots of the new ring are as in RAM.
LEMMA WrittenSame ==
  ASSUME NEW h \in Header, Fits(h), NEW r, NEW i, AddedAt(r, h, i) \/ TakenAt(r, h, i),
         NEW s, NEW z, SameBut(h, i, s, z), s[i] = z[i]
  PROVE  Same(r, s, z)
  <1>1. ASSUME NEW l \in 0..h.count-1 PROVE s[Place(h.tail, l)] = z[Place(h.tail, l)]
    BY DEF SameBut
  <1>2. QED
    BY <1>1, RingPlaces DEF Same

\* What the slot write leaves: the slot as in RAM, the others as before.
LEMMA SlotTargetRaw ==
  ASSUME RewritesSector, SInv, slots[at] # Erased
  PROVE  /\ LoadedHeader(SlotTarget) = LoadedHeader(flash)
         /\ Raw(SlotTarget) \in [Slot -> Items]
         /\ Raw(SlotTarget)[at] = slots[at]
         /\ \A j \in Slot : j # at => Raw(SlotTarget)[j] = Raw(flash)[j]
  <1>1. /\ SlotTarget \in Sector /\ SlotTarget.header = flash.header
        /\ SlotTarget.slot[at] = slots[at] /\ at \in Slot
        /\ \A j \in Slot : j # at => SlotTarget.slot[j] = flash.slot[j]
    BY TargetsAre, InvParts DEF SInv
  <1>2. LoadedHeader(SlotTarget) = LoadedHeader(flash)
    BY <1>1 DEF LoadedHeader
  <1>3. QED
    BY <1>1, <1>2, RawIs DEF Raw

LEMMA SlotTargetSame ==
  ASSUME RewritesSector, SInv, ~failed, step = "slot"
  PROVE  SameBut(LoadedHeader(flash), at, slots, Raw(SlotTarget)) /\ Raw(SlotTarget)[at] = slots[at]
  <1> DEFINE h == LoadedHeader(flash)
  <1>1. slots[at] # Erased /\ SameBut(h, at, slots, Raw(flash))
    BY StoreAssumption DEF SInv, UnderWay
  <1>2. h \in Header
    BY InvParts
  <1>3. \A k \in 0..h.count-1 : Place(h.tail, k) \in Slot
    BY <1>2, HeaderParts, PlaceIs
  <1> HIDE DEF h
  <1>4. QED
    BY <1>1, <1>3, SlotTargetRaw DEF SameBut, h

\* The queue half-way through an operation is what the slot write leaves.
LEMMA SlotTargetShows ==
  ASSUME RewritesSector, SInv, ~failed, step = "slot"
  PROVE  Shows(SlotTarget) = Queue!Halfway
  <1> DEFINE h == LoadedHeader(flash)
             z == Raw(SlotTarget)
  <1>1. /\ h \in Header /\ Fits(h) /\ at \in Slot /\ slots \in [Slot -> Items]
        /\ Stored = Contents(h, Raw(flash)) /\ Len(Stored) = h.count
    BY InvParts
  <1>2. PICK t \in Slot, n \in 0..Size : t = h.tail /\ n = h.count
    BY <1>1, HeaderParts
  <1>3. SlotTarget \in Sector
    BY TargetsAre DEF SInv
  <1>4. slots[at] # Erased
    BY StoreAssumption DEF SInv, UnderWay
  <1>5. /\ Shows(SlotTarget) = Contents(h, z) /\ z \in [Slot -> Items]
        /\ z[at] = slots[at]
        /\ \A j \in Slot : j # at => z[j] = Raw(flash)[j]
    BY <1>3, <1>4, SlotTargetRaw, ShowsIs
  <1>6. SameBut(h, at, slots, z)
    BY SlotTargetSame
  <1> HIDE DEF z
  <1>7. Same(ring, slots, z)
    BY <1>1, <1>5, <1>6, WrittenSame DEF SInv, UnderWay
  <1>8. Kept = Contents(ring, z)
    BY <1>7, InvParts, ContentsSame DEF Kept, Same
  <1>9. CASE taken # Invalid
    <2>1. h.count > 0 /\ ring = Popped(h) /\ at = h.tail /\ slots[at] = Invalid
      BY <1>9 DEF SInv, UnderWay, TakenAt
    <2>2. Contents(h, z) = <<z[h.tail]>> \o Contents(Popped(h), z)
      BY <1>1, <1>5, <2>1, ContentsPopped
    <2>3. Queue!Halfway = <<Invalid>> \o Kept
      BY <1>9 DEF Queue!Halfway
    <2>4. QED
      BY <1>5, <1>8, <2>1, <2>2, <2>3
  <1>10. CASE taken = Invalid /\ n < Size
    <2>1. at = h.head
      BY <1>10 DEF SInv, UnderWay, AddedAt
    <2>2. at = Place(t, n) /\ Size \in Nat
      BY <1>1, <1>2, <2>1, StoreAssumption DEF Fits, Place
    <2>3. \A k \in 0..n-1 : z[Place(t, k)] = Raw(flash)[Place(t, k)]
      <3> TAKE k \in 0..n-1
      <3>1. k \in 0..(Size-1) /\ n \in 0..(Size-1) /\ k # n /\ k \in 0..Size
        BY <1>10, <2>2
      <3>2. Place(t, k) # at /\ Place(t, k) \in Slot
        BY <2>2, <3>1, PlacesDiffer, PlaceIs
      <3>3. QED
        BY <1>5, <3>2
    <2>4. Contents(h, z) = Contents(h, Raw(flash))
      BY <1>1, <1>2, <2>3, ContentsSame
    <2>5. Len(Stored) # Size
      BY <1>1, <1>2, <1>10, <2>2
    <2>6. Queue!Halfway = Stored
      BY <1>10, <2>5 DEF Queue!Halfway
    <2>7. QED
      BY <1>1, <1>5, <2>4, <2>6
  <1>11. CASE taken = Invalid /\ n = Size
    <2>1. ring = Added(h)
      BY <1>11 DEF SInv, UnderWay, AddedAt
    <2>2. ring.tail = After(t) /\ ring.count = Size
      <3>1. Size >= Size
        BY StoreAssumption
      <3>2. h.count >= Size
        BY <1>2, <1>11, <3>1
      <3> HIDE DEF h
      <3>3. QED
        BY <1>2, <2>1, <3>2 DEF Added
    <2>3. Kept = Window(z, After(t), Size)
      BY <1>8, <2>2 DEF Contents
    <2>4. Window(z, t, Size) = <<Kept[Len(Kept)]>> \o SubSeq(Kept, 1, Len(Kept) - 1)
      BY <1>5, <2>3, WindowTurned
    <2>5. Contents(h, z) = Window(z, t, Size)
      BY <1>2, <1>11 DEF Contents
    <2>6. Len(Stored) = Size
      BY <1>1, <1>2, <1>11
    <2>7. Queue!Halfway = <<Kept[Len(Kept)]>> \o SubSeq(Kept, 1, Len(Kept) - 1)
      BY <1>11, <2>6 DEF Queue!Halfway, Queue!Last, Queue!Front
    <2>8. QED
      BY <1>5, <2>4, <2>5, <2>7
  <1>12. n < Size \/ n = Size
    BY StoreAssumption
  <1>13. QED
    BY <1>9, <1>10, <1>11, <1>12

\* The header write leaves the new ring.
LEMMA HeaderTargetShows ==
  ASSUME RewritesSector, SInv, ~failed, step = "header"
  PROVE  /\ LoadedHeader(HeaderTarget) = ring
         /\ Same(ring, slots, Raw(HeaderTarget))
         /\ Shows(HeaderTarget) = Kept
  <1> DEFINE h == LoadedHeader(flash)
  <1>1. h \in Header /\ Fits(h) /\ ring \in Header /\ slots \in [Slot -> Items]
    BY InvParts
  <1>2. /\ HeaderTarget \in Sector /\ LoadedHeader(HeaderTarget) = ring
        /\ HeaderTarget.slot = flash.slot
    BY TargetsAre DEF SInv, LoadedHeader
  <1>3. Raw(HeaderTarget) = Raw(flash)
    BY <1>2 DEF Raw
  <1>4. Same(ring, slots, Raw(flash))
    BY <1>1, WrittenSame DEF SInv, UnderWay
  <1>5. Contents(ring, slots) = Contents(ring, Raw(flash))
    BY <1>1, <1>4, ContentsSame DEF Same
  <1>6. QED
    BY <1>2, <1>3, <1>4, <1>5, ShowsIs DEF Kept

\* A part of a sector shows the ring with frames lost in place, or nothing.
LEMMA PartShows ==
  ASSUME RewritesSector, NEW f, NEW new \in Sector, NEW g \in Part(f, new)
  PROVE  Queue!Holes(Shows(new), Shows(g))
  <1>1. /\ g \in Sector
        /\ g.header \in {Erased, new.header}
        /\ \A i \in Slot : g.slot[i] \in {new.slot[i], Garbled, Erased}
    BY SectorPartIs DEF Part
  <1>2. CASE g.header \notin Header
    <2>1. Shows(g) = <<>>
      BY <1>1, <1>2, RawIs, ContentsNone DEF Shows
    <2>2. QED
      BY <2>1 DEF Queue!Holes
  <1>3. CASE g.header \in Header
    <2>1. g.header = new.header
      BY <1>1, <1>3, StoreAssumption
    <2>2. PICK h \in Header : h = LoadedHeader(g) /\ h = LoadedHeader(new)
      BY <1>3, <2>1 DEF LoadedHeader
    <2>3. \A i \in Slot : Raw(g)[i] \in {Raw(new)[i], Invalid, Garbled}
      BY <1>1, StoreAssumption DEF Raw
    <2>4. /\ Shows(g) = Contents(h, Raw(g)) /\ Shows(new) = Contents(h, Raw(new))
          /\ Raw(g) \in [Slot -> Items] /\ Raw(new) \in [Slot -> Items]
      BY <1>1, <2>2, ShowsIs, RawIs
    <2>5. /\ Len(Contents(h, Raw(g))) = h.count /\ Len(Contents(h, Raw(new))) = h.count
          /\ \A k \in 1..h.count : Contents(h, Raw(g))[k] = Raw(g)[Place(h.tail, k - 1)]
          /\ \A k \in 1..h.count : Contents(h, Raw(new))[k] = Raw(new)[Place(h.tail, k - 1)]
      BY <2>4, ContentsSeq
    <2>6. \A k \in 1..h.count : Place(h.tail, k - 1) \in Slot
      <3> TAKE k \in 1..h.count
      <3>1. PICK t \in Slot, n \in 0..Size : t = h.tail /\ n = h.count
        BY HeaderParts
      <3>2. k - 1 \in 0..Size
        BY <3>1, StoreAssumption
      <3>3. QED
        BY <3>1, <3>2, PlaceIs
    <2>7. \A k \in 1..h.count : Contents(h, Raw(g))[k] \in {Contents(h, Raw(new))[k], Invalid, Garbled}
      BY <2>3, <2>5, <2>6
    <2>8. QED
      BY <2>4, <2>5, <2>7 DEF Queue!Holes
  <1>4. QED
    BY <1>2, <1>3

-----------------------------------------------------------------------------
(* The steps of the ring are steps of the queue.                           *)

LEMMA BootShows ==
  ASSUME RewritesSector, NEW f \in Sector, Boot(f)
  PROVE  /\ Kept' = Shows(f) /\ Stored' = Shows(f)
         /\ UnderWay(LoadedHeader(flash), Raw(flash))'
  <1>1. /\ ring' = LoadedHeader(f) /\ slots' = LoadedSlots(f)
        /\ flash' \in Initialised(f) /\ step' = "none"
    BY DEF Boot
  <1>2. flash' \in Sector /\ LoadedHeader(flash') = LoadedHeader(f)
    BY <1>1, InitialisedIs, InitialisedHeader
  <1>3. CASE f.header \in Header
    <2>1. flash' = f /\ LoadedSlots(f) = Raw(f)
      BY <1>1, <1>3, InitialisedHeader, RawIs
    <2>2. Same(ring', slots', Raw(flash'))
      BY <1>1, <2>1 DEF Same
    <2>3. QED
      BY <1>1, <2>1, <2>2 DEF Kept, Stored, Shows, UnderWay
  <1>4. CASE f.header \notin Header
    <2>1. LoadedHeader(f) = EmptyHeader
      BY <1>4, RawIs
    <2>2. Same(EmptyHeader, slots', Raw(flash'))
      BY DEF Same, EmptyHeader
    <2>3. Shows(f) = <<>> /\ Kept' = <<>> /\ Stored' = <<>>
      BY <1>1, <1>2, <2>1, ContentsNone DEF Kept, Stored, Shows
    <2>4. QED
      BY <1>1, <1>2, <2>1, <2>2, <2>3 DEF UnderWay
  <1>5. QED
    BY <1>3, <1>4

LEMMA AddQueues ==
  ASSUME SInv, NEW m \in Msg, Add(m)
  PROVE  Queue!Add(m) /\ (~failed' => UnderWay(LoadedHeader(flash), Raw(flash))')
  <1>1. /\ ring \in Header /\ Fits(ring) /\ slots \in [Slot -> Items] /\ ring.head \in Slot
        /\ Kept = Contents(ring, slots)
    BY InvParts, HeaderParts DEF Kept
  <1>2. /\ slots' = [slots EXCEPT ![ring.head] = m] /\ ring' = Added(ring)
        /\ step = "none" /\ step' = "slot" /\ at' = ring.head
        /\ taken = Invalid /\ taken' = Invalid
        /\ UNCHANGED <<flash, failed>>
    BY DEF Add, history, SInv
  <1>3. /\ slots' \in [Slot -> Items] /\ slots'[ring.head] = m
        /\ \A j \in Slot : j # ring.head => slots'[j] = slots[j]
    BY <1>1, <1>2 DEF Items
  <1>4. Kept' = Append(IF Len(Kept) < Size THEN Kept ELSE Tail(Kept), m)
    <2>1. m \in Items
      BY DEF Items
    <2>2. Kept' = Contents(Added(ring), slots')
      BY <1>2 DEF Kept
    <2>3. QED
      BY <1>1, <1>3, <2>1, <2>2, ContentsAdded
  <1>5. Queue!Add(m)
    BY <1>2, <1>4 DEF Queue!Add, Stored
  <1>6. ASSUME ~failed PROVE UnderWay(LoadedHeader(flash), Raw(flash))'
    <2>1. ring = LoadedHeader(flash) /\ Same(ring, slots, Raw(flash))
      BY <1>2, <1>6 DEF SInv, UnderWay
    <2>2. \A k \in 0..ring.count-1 : Place(ring.tail, k) \in Slot
      BY <1>1, HeaderParts, PlaceIs
    <2>3. SameBut(ring, ring.head, slots', Raw(flash))
      BY <1>3, <2>1, <2>2 DEF Same, SameBut
    <2>4. AddedAt(ring', ring, at')
      BY <1>2 DEF AddedAt
    <2>5. QED
      BY <1>2, <1>3, <2>1, <2>3, <2>4 DEF UnderWay
  <1>7. QED
    BY <1>2, <1>5, <1>6

LEMMA PopQueues ==
  ASSUME SInv, Pop
  PROVE  Queue!Take /\ (~failed' => UnderWay(LoadedHeader(flash), Raw(flash))')
  <1>1. /\ ring \in Header /\ slots \in [Slot -> Items] /\ ring.tail \in Slot
        /\ Kept = Contents(ring, slots)
    BY InvParts, HeaderParts DEF Kept
  <1>2. /\ slots' = [slots EXCEPT ![ring.tail] = Invalid] /\ ring' = Popped(ring)
        /\ ring.count > 0 /\ step = "none" /\ step' = "slot" /\ at' = ring.tail
        /\ taken' = slots[ring.tail] /\ slots[ring.tail] # Invalid
        /\ UNCHANGED <<flash, failed>>
    BY DEF Pop, Popped, history
  <1>3. /\ slots'[ring.tail] = Invalid
        /\ \A j \in Slot : j # ring.tail => slots'[j] = slots[j]
    BY <1>1, <1>2
  <1>4. Kept' = Contents(Popped(ring), slots')
    BY <1>2 DEF Kept
  <1>5. Kept # <<>> /\ Head(Kept) = slots[ring.tail] /\ Kept' = Tail(Kept)
    BY <1>1, <1>2, <1>3, <1>4, ContentsPopped
  <1>6. Queue!Take
    BY <1>2, <1>5 DEF Queue!Take, Stored
  <1>7. ASSUME ~failed PROVE UnderWay(LoadedHeader(flash), Raw(flash))'
    <2>1. ring = LoadedHeader(flash) /\ Same(ring, slots, Raw(flash))
      BY <1>2, <1>7 DEF SInv, UnderWay
    <2>2. \A k \in 0..ring.count-1 : Place(ring.tail, k) \in Slot
      BY <1>1, HeaderParts, PlaceIs
    <2>3. SameBut(ring, ring.tail, slots', Raw(flash))
      BY <1>3, <2>1, <2>2 DEF Same, SameBut
    <2>4. TakenAt(ring', ring, at')
      BY <1>2 DEF TakenAt
    <2>5. QED
      BY <1>2, <1>3, <2>1, <2>3, <2>4 DEF UnderWay
  <1>8. QED
    BY <1>2, <1>6, <1>7

\* A write that fails, or follows one that failed, leaves some sector.
LEMMA WriteSpoils ==
  ASSUME SInv, [Next]_vars, failed',
         PersistSlot \/ PersistSlotFails \/ PersistHeader \/ PersistHeaderFails
  PROVE  Queue!Spoil
  <1>1. /\ UNCHANGED <<ring, slots>> /\ step # "none"
        /\ \/ step' # "none" /\ taken' = taken
           \/ step' = "none"
    BY DEF PersistSlot, PersistSlotFails, PersistHeader, PersistHeaderFails, EndOperation
  <1>2. flash' \in Sector
    BY TypeStep DEF SInv, TypeOK, Sector
  <1>3. Stored' = Shows(flash')
    BY DEF Stored, Shows
  <1>4. Stored' \in Seq(Queue!Item) /\ Len(Stored') <= Size
    BY <1>2, <1>3, ShowsIs DEF Items, Queue!Item
  <1>5. UNCHANGED Kept
    BY <1>1 DEF Kept
  <1>6. QED
    BY <1>1, <1>4, <1>5 DEF Queue!Spoil

LEMMA PersistSlotQueues ==
  ASSUME RewritesSector, SInv, PersistSlot, ~failed
  PROVE  Queue!Mark /\ UnderWay(LoadedHeader(flash), Raw(flash))'
  <1>1. /\ flash' = SlotTarget /\ step = "slot" /\ step' = "header"
        /\ UNCHANGED <<ring, slots, at, taken, failed>>
    BY DEF PersistSlot, history
  <1>2. Stored' = Queue!Halfway
    <2>1. Stored' = Shows(SlotTarget)
      BY <1>1 DEF Stored, Shows
    <2>2. QED
      BY <1>1, <2>1, SlotTargetShows
  <1>3. Queue!Mark
    BY <1>1, <1>2 DEF Queue!Mark, Kept
  <1>4. /\ LoadedHeader(flash') = LoadedHeader(flash)
        /\ SameBut(LoadedHeader(flash), at, slots, Raw(flash')) /\ Raw(flash')[at] = slots[at]
    <2>1. slots[at] # Erased
      BY <1>1, StoreAssumption DEF SInv, UnderWay
    <2>2. QED
      BY <1>1, <2>1, SlotTargetRaw, SlotTargetSame
  <1>5. UnderWay(LoadedHeader(flash), Raw(flash))'
    BY <1>1, <1>4 DEF UnderWay, SInv
  <1>6. QED
    BY <1>3, <1>5

LEMMA PersistHeaderQueues ==
  ASSUME RewritesSector, SInv, PersistHeader, ~failed
  PROVE  Queue!Persist /\ UnderWay(LoadedHeader(flash), Raw(flash))'
  <1>1. /\ flash' = HeaderTarget /\ step = "header" /\ step' = "none"
        /\ UNCHANGED <<ring, slots, failed>>
    BY DEF PersistHeader, EndOperation
  <1>2. LoadedHeader(flash') = ring /\ Same(ring, slots, Raw(flash')) /\ Shows(flash') = Kept
    BY <1>1, HeaderTargetShows
  <1>3. Stored' = Kept
    BY <1>2 DEF Stored, Shows
  <1>4. Queue!Persist
    BY <1>1, <1>3 DEF Queue!Persist, Kept
  <1>5. UnderWay(LoadedHeader(flash), Raw(flash))'
    BY <1>1, <1>2 DEF UnderWay
  <1>6. QED
    BY <1>4, <1>5

LEMMA ResetQueues ==
  ASSUME RewritesSector, SInv, Reset
  PROVE  Queue!Reset /\ UnderWay(LoadedHeader(flash), Raw(flash))'
  <1>1. Boot(flash) /\ step' = "none" /\ failed' = FALSE
    BY DEF Reset, Boot, Reboots
  <1>2. flash \in Sector /\ Stored = Shows(flash)
    BY InvParts
  <1>3. Kept' = Stored /\ Stored' = Stored /\ UnderWay(LoadedHeader(flash), Raw(flash))'
    BY <1>1, <1>2, BootShows
  <1>4. QED
    BY <1>1, <1>3 DEF Queue!Reset

LEMMA ResetTornQueues ==
  ASSUME RewritesSector, SInv, ResetTorn
  PROVE  Queue!ResetTorn /\ UnderWay(LoadedHeader(flash), Raw(flash))'
  <1>1. SlotTarget \in Sector /\ HeaderTarget \in Sector
    BY TargetsAre DEF SInv
  <1>2. PICK f : /\ Boot(f)
                 /\ \/ step = "slot" /\ f \in Part(flash, SlotTarget)
                    \/ step = "header" /\ f \in Part(flash, HeaderTarget)
    BY DEF ResetTorn
  <1>3. f \in Sector
    BY <1>2, PartsOfTargets DEF SInv
  <1>4. Kept' = Shows(f) /\ Stored' = Shows(f) /\ UnderWay(LoadedHeader(flash), Raw(flash))'
    BY <1>2, <1>3, BootShows
  <1>5. Stored' \in Seq(Queue!Item) /\ Len(Stored') <= Size
    BY <1>3, <1>4, ShowsIs DEF Items, Queue!Item
  <1>6. failed \/ \E q \in {Stored, Queue!Halfway, Kept} : Queue!Holes(q, Stored')
    <2>1. CASE ~failed /\ step = "slot"
      BY <1>1, <1>2, <1>4, <2>1, PartShows, SlotTargetShows
    <2>2. CASE ~failed /\ step = "header"
      BY <1>1, <1>2, <1>4, <2>2, PartShows, HeaderTargetShows
    <2>3. failed \/ step = "slot" \/ step = "header"
      BY <1>2
    <2>4. failed \in BOOLEAN
      BY DEF SInv, TypeOK
    <2>5. QED
      BY <2>1, <2>2, <2>3, <2>4
  <1>7. step # "none" /\ step' = "none" /\ failed' = FALSE
    BY <1>2 DEF ResetTorn, Reboots, Boot
  <1>8. Queue!ResetTorn
    BY <1>4, <1>5, <1>6, <1>7 DEF Queue!ResetTorn
  <1>9. QED
    BY <1>4, <1>8

LEMMA StoreStep ==
  ASSUME RewritesSector, SInv, [Next]_vars
  PROVE  SInv' /\ [Queue!Next]_(Queue!vars)
  <1>1. TypeOK' /\ HeadersAgree'
    BY TypeStep, HeadersStep DEF SInv
  <1>2. (step = "none" => taken = Invalid)'
    <2>1. ASSUME NEW m \in Msg, Add(m) PROVE (step = "none" => taken = Invalid)'
      BY <2>1 DEF Add
    <2>2. CASE Reset \/ ResetTorn
      BY <2>2 DEF Reset, ResetTorn, Boot
    <2>3. CASE PersistHeader \/ PersistHeaderFails
      BY <2>3 DEF PersistHeader, PersistHeaderFails, EndOperation
    <2>4. CASE StartReplay \/ Pop \/ EndReplay \/ PersistSlot \/ PersistSlotFails \/ UNCHANGED vars
      BY <2>4 DEF SInv, StartReplay, Pop, EndReplay, PersistSlot, PersistSlotFails, vars, store
    <2>5. QED
      BY <2>1, <2>2, <2>3, <2>4 DEF Next
  <1>3. SUFFICES /\ ~failed' => UnderWay(LoadedHeader(flash), Raw(flash))'
                 /\ [Queue!Next]_(Queue!vars)
    BY <1>1, <1>2 DEF SInv
  <1>4. ASSUME NEW m \in Msg, Add(m)
        PROVE  (~failed' => UnderWay(LoadedHeader(flash), Raw(flash))') /\ Queue!Next
    BY <1>4, AddQueues DEF Queue!Next
  <1>5. CASE Pop
    BY <1>5, PopQueues DEF Queue!Next
  <1>6. CASE /\ PersistSlot \/ PersistSlotFails \/ PersistHeader \/ PersistHeaderFails
             /\ failed'
    BY <1>6, WriteSpoils DEF Queue!Next
  <1>7. CASE PersistSlot /\ ~failed
    BY <1>7, PersistSlotQueues DEF Queue!Next
  <1>8. CASE PersistHeader /\ ~failed
    BY <1>8, PersistHeaderQueues DEF Queue!Next
  <1>9. CASE Reset
    BY <1>9, ResetQueues DEF Queue!Next
  <1>10. CASE ResetTorn
    BY <1>10, ResetTornQueues DEF Queue!Next
  <1>11. CASE StartReplay \/ EndReplay \/ UNCHANGED vars
    <2>1. UNCHANGED <<ring, slots, flash, step, at, taken, failed>>
      BY <1>11 DEF StartReplay, EndReplay, vars, store, history
    <2>2. UNCHANGED <<Kept, Stored>>
      BY <2>1 DEF Kept, Stored
    <2>3. UNCHANGED Queue!vars
      BY <2>1, <2>2 DEF Queue!vars
    <2>4. ~failed' => UnderWay(LoadedHeader(flash), Raw(flash))'
      BY <2>1 DEF SInv, UnderWay
    <2>5. QED
      BY <2>3, <2>4
  <1>12. (PersistSlotFails \/ PersistHeaderFails => failed') /\ (PersistSlot \/ PersistHeader => failed' = failed)
    BY DEF PersistSlotFails, PersistHeaderFails, PersistSlot, PersistHeader, history
  <1>13. failed \in BOOLEAN
    BY DEF SInv, TypeOK
  <1>14. QED
    BY <1>4, <1>5, <1>6, <1>7, <1>8, <1>9, <1>10, <1>11, <1>12, <1>13 DEF Next

LEMMA StoreInit ==
  ASSUME RewritesSector, Init
  PROVE  SInv /\ Queue!Init
  <1>1. TypeOK
    BY InitType
  <1>2. ring = EmptyHeader /\ flash \in Initialised(Blank) /\ step = "none" /\ taken = Invalid
    BY DEF Init
  <1>3. LoadedHeader(flash) = EmptyHeader
    BY <1>2, BlankIs, InitialisedHeader
  <1>4. Kept = <<>> /\ Stored = <<>>
    BY <1>2, <1>3, ContentsNone DEF Kept, Stored
  <1>5. HeadersAgree
    BY <1>2, <1>3, EmptyFits, HeadersAre, EmptyHeaderType DEF HeadersAgree
  <1>6. UnderWay(LoadedHeader(flash), Raw(flash))
    BY <1>2, <1>3 DEF UnderWay, Same, EmptyHeader
  <1>7. QED
    BY <1>1, <1>2, <1>4, <1>5, <1>6 DEF SInv, Queue!Init, Init

-----------------------------------------------------------------------------
(* While no write has failed or was cut.                                   *)

AllFrames(q) == \A k \in DOMAIN q : q[k] \in Msg

\* The frames an operation has left in RAM can stand in any place of the flash.
WInv ==
  /\ failed => damaged
  /\ ~damaged =>
       /\ Whole(Kept) /\ Whole(Stored)
       /\ step # "none" /\ (taken # Invalid \/ Len(Stored) = Size) => AllFrames(Kept)

LEMMA WholeTail ==
  ASSUME NEW q \in Seq(Items), q # <<>>, Whole(q)
  PROVE  AllFrames(Tail(q)) /\ Tail(q) \in Seq(Items)
  <1>1. Tail(q) \in Seq(Items) /\ Len(Tail(q)) = Len(q) - 1 /\ Len(q) \in Nat
    BY HeadTailProperties
  <1>2. ASSUME NEW k \in DOMAIN Tail(q) PROVE Tail(q)[k] \in Msg
    <2>1. k \in 1..(Len(q) - 1)
      BY <1>1, <1>2
    <2>2. Tail(q)[k] = q[k + 1] /\ k + 1 \in DOMAIN q /\ k + 1 # 1
      BY <1>1, <2>1, HeadTailProperties
    <2>3. QED
      BY <2>2 DEF Whole
  <1>3. QED
    BY <1>1, <1>2 DEF AllFrames

LEMMA AllWhole ==
  ASSUME NEW q, AllFrames(q)
  PROVE  Whole(q)
  BY DEF AllFrames, Whole

LEMMA WholeAppend ==
  ASSUME NEW q \in Seq(Items), NEW m \in Msg
  PROVE  /\ Whole(q) => Whole(Append(q, m))
         /\ AllFrames(q) => AllFrames(Append(q, m))
  <1>1. /\ DOMAIN Append(q, m) = 1..(Len(q) + 1) /\ DOMAIN q = 1..Len(q) /\ Len(q) \in Nat
        /\ Append(q, m)[Len(q) + 1] = m
        /\ \A k \in 1..Len(q) : Append(q, m)[k] = q[k]
    <2>1. m \in Items
      BY DEF Items
    <2>2. QED
      BY <2>1, AppendProperties
  <1>2. \A k \in DOMAIN Append(q, m) : k \in DOMAIN q \/ Append(q, m)[k] = m
    BY <1>1
  <1>3. QED
    BY <1>1, <1>2 DEF Whole, AllFrames

LEMMA WholeHalfway ==
  ASSUME NEW q \in Seq(Items), AllFrames(q)
  PROVE  /\ Whole(<<Invalid>> \o q)
         /\ q # <<>> => AllFrames(<<q[Len(q)]>> \o SubSeq(q, 1, Len(q) - 1))
  <1>1. Invalid \in Items
    BY DEF Items
  <1>2. Whole(<<Invalid>> \o q)
    <2>1. /\ DOMAIN (<<Invalid>> \o q) = 1..(1 + Len(q)) /\ Len(q) \in Nat /\ DOMAIN q = 1..Len(q)
          /\ \A k \in 1..(1 + Len(q)) : (<<Invalid>> \o q)[k] = IF k <= 1 THEN Invalid ELSE q[k - 1]
      BY <1>1
    <2>2. ASSUME NEW k \in DOMAIN (<<Invalid>> \o q)
          PROVE  (<<Invalid>> \o q)[k] \in Msg \cup (IF k = 1 THEN {Invalid} ELSE {})
      <3>1. CASE k = 1
        BY <2>1, <3>1
      <3>2. CASE k # 1
        <4>1. k - 1 \in DOMAIN q /\ (<<Invalid>> \o q)[k] = q[k - 1]
          BY <2>1, <2>2, <3>2
        <4>2. QED
          BY <4>1 DEF AllFrames
      <3>3. QED
        BY <3>1, <3>2
    <2>3. QED
      BY <2>2 DEF Whole
  <1>3. ASSUME q # <<>> PROVE AllFrames(<<q[Len(q)]>> \o SubSeq(q, 1, Len(q) - 1))
    <2> DEFINE f == SubSeq(q, 1, Len(q) - 1)
    <2>1. Len(q) \in Nat \ {0} /\ DOMAIN q = 1..Len(q)
      BY <1>3, EmptySeq
    <2>2. q[Len(q)] \in Msg
      BY <2>1 DEF AllFrames
    <2>3. f \in Seq(Items) /\ Len(f) = Len(q) - 1 /\ \A k \in 1..(Len(q) - 1) : f[k] = q[k]
      BY <2>1, SubSeqProperties
    <2> HIDE DEF f
    <2>4. q[Len(q)] \in Items
      BY <2>2 DEF Items
    <2>5. /\ DOMAIN (<<q[Len(q)]>> \o f) = 1..(1 + Len(f))
          /\ \A k \in 1..(1 + Len(f)) : (<<q[Len(q)]>> \o f)[k] = IF k <= 1 THEN q[Len(q)] ELSE f[k - 1]
      BY <2>3, <2>4
    <2>6. ASSUME NEW k \in DOMAIN (<<q[Len(q)]>> \o f) PROVE (<<q[Len(q)]>> \o f)[k] \in Msg
      <3>1. CASE k = 1
        BY <2>2, <2>5, <3>1
      <3>2. CASE k # 1
        <4>1. k \in 1..(1 + Len(f)) /\ (<<q[Len(q)]>> \o f)[k] = IF k <= 1 THEN q[Len(q)] ELSE f[k - 1]
          BY <2>5, <2>6
        <4>2. k - 1 \in 1..(Len(q) - 1) /\ ~(k <= 1) /\ k - 1 \in DOMAIN q
          BY <2>1, <2>3, <3>2, <4>1
        <4>3. f[k - 1] = q[k - 1]
          BY <2>3, <4>2
        <4>4. QED
          BY <4>1, <4>2, <4>3 DEF AllFrames
      <3>3. QED
        BY <3>1, <3>2
    <2>7. QED
      BY <2>6 DEF AllFrames, f
  <1>4. QED
    BY <1>2, <1>3

\* What the slot write leaves has at most a hole at the front.
LEMMA HalfwayWhole ==
  ASSUME SInv, WInv, ~damaged
  PROVE  Whole(Queue!Halfway)
  <1>1. Whole(Stored) /\ Kept \in Seq(Items) /\ (step # "none" /\ (taken # Invalid \/ Len(Stored) = Size) => AllFrames(Kept))
    BY InvParts DEF WInv
  <1>2. CASE step = "none"
    BY <1>1, <1>2 DEF Queue!Halfway
  <1>3. CASE step # "none" /\ taken = Invalid
    <2>1. Queue!Halfway = IF Len(Stored) = Size THEN <<Kept[Len(Kept)]>> \o SubSeq(Kept, 1, Len(Kept) - 1) ELSE Stored
      BY <1>3 DEF Queue!Halfway, Queue!Last, Queue!Front
    <2>2. Kept # <<>>
      <3>1. ~failed /\ failed \in BOOLEAN
        BY DEF WInv, SInv, TypeOK
      <3>2. AddedAt(ring, LoadedHeader(flash), at)
        BY <1>3, <3>1 DEF SInv, UnderWay
      <3>3. LoadedHeader(flash).count \in 0..Size
        BY InvParts, HeaderParts
      <3>4. ring.count # 0
        BY <3>2, <3>3, StoreAssumption DEF AddedAt, Added
      <3>5. Len(Kept) # 0
        BY <3>4, InvParts
      <3>6. QED
        BY <3>5
    <2>3. CASE Len(Stored) = Size
      BY <1>1, <1>3, <2>1, <2>2, <2>3, WholeHalfway, AllWhole
    <2>4. CASE Len(Stored) # Size
      BY <1>1, <2>1, <2>4
    <2>5. QED
      BY <2>3, <2>4
  <1>4. CASE step # "none" /\ taken # Invalid
    <2>1. Queue!Halfway = <<Invalid>> \o Kept
      BY <1>4 DEF Queue!Halfway
    <2>2. QED
      BY <1>1, <1>4, <2>1, WholeHalfway
  <1>5. QED
    BY <1>2, <1>3, <1>4

LEMMA WholeStep ==
  ASSUME RewritesSector, SInv, WInv, [Next]_vars
  PROVE  WInv'
  <1>1. failed \in BOOLEAN /\ damaged \in BOOLEAN /\ failed' \in BOOLEAN /\ damaged' \in BOOLEAN
    BY TypeStep DEF SInv, TypeOK
  <1>2. /\ damaged => damaged'
        /\ failed' => failed \/ damaged'
    <2>1. ASSUME NEW m \in Msg, Add(m) PROVE damaged' = damaged /\ failed' = failed
      BY <2>1 DEF Add, history
    <2>2. CASE StartReplay \/ Pop \/ EndReplay \/ PersistSlot \/ PersistHeader \/ UNCHANGED vars
      BY <2>2 DEF StartReplay, Pop, EndReplay, PersistSlot, PersistHeader, vars, history
    <2>3. CASE PersistSlotFails \/ PersistHeaderFails
      BY <2>3 DEF PersistSlotFails, PersistHeaderFails
    <2>4. CASE Reset \/ ResetTorn
      BY <2>4 DEF Reset, ResetTorn, Reboots
    <2>5. QED
      BY <2>1, <2>2, <2>3, <2>4 DEF Next
  <1>3. failed' => damaged'
    BY <1>1, <1>2 DEF WInv
  <1>4. SUFFICES ASSUME ~damaged'
                 PROVE  /\ Whole(Kept') /\ Whole(Stored')
                        /\ step' # "none" /\ (taken' # Invalid \/ Len(Stored') = Size) => AllFrames(Kept')
    BY <1>3 DEF WInv
  <1>5. ~damaged /\ ~failed /\ Whole(Kept) /\ Whole(Stored) /\ Kept \in Seq(Items)
    BY <1>1, <1>2, <1>4, InvParts DEF WInv
  <1>6. ASSUME NEW m \in Msg, Add(m)
        PROVE  /\ Whole(Kept') /\ Whole(Stored')
               /\ Len(Stored') = Size => AllFrames(Kept')
               /\ taken' = Invalid
    <2>1. Kept' = Append(IF Len(Kept) < Size THEN Kept ELSE Tail(Kept), m) /\ Stored' = Stored
      BY <1>6, AddQueues DEF Queue!Add
    <2>2. Stored = Kept /\ taken' = Invalid
      BY <1>5, <1>6, IdleSame DEF Add, SInv
    <2>3. CASE Len(Kept) < Size
      <3>1. Len(Kept) # Size
        BY <2>3, StoreAssumption, InvParts
      <3>2. QED
        BY <1>5, <2>1, <2>2, <2>3, <3>1, WholeAppend
    <2>4. CASE ~(Len(Kept) < Size)
      <3>1. Kept # <<>>
        BY <1>5, <2>4, StoreAssumption
      <3>2. AllFrames(Tail(Kept)) /\ Tail(Kept) \in Seq(Items)
        BY <1>5, <3>1, WholeTail
      <3>3. AllFrames(Kept')
        BY <2>1, <2>4, <3>2, WholeAppend
      <3>4. QED
        BY <1>5, <2>1, <2>2, <3>3, AllWhole
    <2>5. QED
      BY <2>3, <2>4
  <1>7. CASE Pop
    <2>1. Kept # <<>> /\ Kept' = Tail(Kept) /\ Stored' = Stored
      BY <1>7, PopQueues DEF Queue!Take
    <2>2. AllFrames(Kept')
      BY <1>5, <2>1, WholeTail
    <2>3. QED
      BY <1>5, <2>1, <2>2, AllWhole
  <1>8. CASE PersistSlot
    <2>1. /\ Kept' = Kept /\ Stored' = Queue!Halfway /\ taken' = taken /\ step = "slot"
      BY <1>5, <1>8, PersistSlotQueues DEF Queue!Mark, PersistSlot
    <2>2. Len(Stored') = Len(Stored)
      <3>1. slots[at] # Erased /\ flash' = SlotTarget
        BY <1>5, <1>8, StoreAssumption DEF SInv, UnderWay, PersistSlot
      <3>2. LoadedHeader(flash') = LoadedHeader(flash)
        BY <3>1, SlotTargetRaw
      <3>3. flash \in Sector /\ flash' \in Sector
        BY <3>1, TargetsAre, InvParts DEF SInv
      <3>4. Len(Shows(flash')) = Len(Shows(flash))
        BY <3>2, <3>3, ShowsIs
      <3>5. QED
        BY <3>4 DEF Stored, Shows
    <2>3. QED
      BY <1>5, <2>1, <2>2, HalfwayWhole DEF WInv
  <1>9. CASE PersistHeader
    <2>1. Kept' = Kept /\ Stored' = Kept /\ step' = "none"
      BY <1>5, <1>9, PersistHeaderQueues DEF Queue!Persist, PersistHeader, EndOperation
    <2>2. QED
      BY <1>5, <2>1
  <1>10. CASE Reset
    <2>1. Kept' = Stored /\ Stored' = Stored /\ step' = "none"
      BY <1>10, ResetQueues DEF Queue!Reset, Reset, Boot
    <2>2. QED
      BY <1>5, <2>1
  <1>11. CASE StartReplay \/ EndReplay \/ UNCHANGED vars
    <2>1. UNCHANGED <<ring, slots, flash, step, taken>>
      BY <1>11 DEF StartReplay, EndReplay, vars, store
    <2>2. UNCHANGED <<Kept, Stored>>
      BY <2>1 DEF Kept, Stored
    <2>3. QED
      BY <1>5, <2>1, <2>2 DEF WInv
  <1>12. ~PersistSlotFails /\ ~PersistHeaderFails /\ ~ResetTorn
    BY <1>4 DEF PersistSlotFails, PersistHeaderFails, ResetTorn
  <1>13. QED
    BY <1>6, <1>7, <1>8, <1>9, <1>10, <1>11, <1>12 DEF Next

LEMMA WholeInit ==
  ASSUME RewritesSector, Init
  PROVE  WInv
  <1>1. Kept = <<>> /\ Stored = <<>> /\ failed = FALSE /\ step = "none"
    BY StoreInit DEF Queue!Init, Init
  <1>2. QED
    BY <1>1 DEF WInv, Whole

\* Between operations a reset finds what the RAM holds, if no write has failed.
LEMMA IdleKeeps ==
  ASSUME RewritesSector, SInv, step = "none", ~failed, Boot(flash)
  PROVE  Contents(ring', slots') = Kept
  <1>1. Stored = Kept
    BY IdleSame
  <1>2. ring' = LoadedHeader(flash) /\ slots' = LoadedSlots(flash)
    BY DEF Boot
  <1>3. QED
    BY <1>1, <1>2 DEF Stored

-----------------------------------------------------------------------------
\* On a driver that replaces what it writes over, head, tail and count never contradict
\* each other, in RAM and in the flash, for any capacity, whatever writes fail and whatever
\* a reset cuts; and until a first write fails or is cut every slot they count holds a
\* frame but for one at the tail (add, pop, load_or_init).
THEOREM RingStaysSound ==
  ASSUME RewritesSector
  PROVE  Spec => []RingSound
  <1>1. Init => SInv /\ WInv
    BY StoreInit, WholeInit
  <1>2. SInv /\ WInv /\ [Next]_vars => SInv' /\ WInv'
    BY StoreStep, WholeStep
  <1>3. SInv /\ WInv => RingSound
    BY DEF SInv, WInv, RingSound, HoleOnlyAtTail
  <1>4. QED
    BY <1>1, <1>2, <1>3, PTL DEF Spec

\* On such a driver a reset between operations keeps every buffered frame, in order, if no
\* write of add or pop has failed since the boot (load_or_init, load_slots).
THEOREM ResetsKeepMessages ==
  ASSUME RewritesSector
  PROVE  Spec => ResetKeepsMessages
  <1>1. Init => SInv
    BY StoreInit
  <1>2. SInv /\ [Next]_vars => SInv'
    BY StoreStep
  <1>3. SInv /\ [Next]_vars =>
          [(step = "none" /\ ~failed /\ Boot(flash)) => Contents(ring', slots') = Kept]_vars
    BY IdleKeeps
  <1>4. QED
    BY <1>1, <1>2, <1>3, PTL DEF Spec, ResetKeepsMessages

\* On such a driver the ring implements, for any capacity, the bounded queue that survives
\* resets: every step of add, pop, the replay and the boot is a step of MessageQueue, with
\* the writes that fail and the resets that cut one.
THEOREM StoreImplementsQueue ==
  ASSUME RewritesSector
  PROVE  Spec => ImplementsMessageQueue
  <1>1. Init => SInv /\ Queue!Init
    BY StoreInit
  <1>2. SInv /\ [Next]_vars => SInv' /\ [Queue!Next]_(Queue!vars)
    BY StoreStep
  <1>3. QED
    BY <1>1, <1>2, PTL DEF Spec, ImplementsMessageQueue, Queue!Spec
=============================================================================
