---------------------------- MODULE MessageStore ----------------------------
(***************************************************************************)
(* The ring of text frames buffered while no phone is connected: the RAM   *)
(* copy and the flash sector of GenericNvsStorage, and the replay loop of  *)
(* from_app that empties it.                                               *)
(*                                                                         *)
(* One task uses the store, so nothing comes between the steps of an       *)
(* operation but a reset: add and pop change the RAM copy, write one slot, *)
(* write the header.  What a write leaves in the flash is the driver's     *)
(* business and a parameter.  A write may fail, which the code only logs,  *)
(* and may be cut by a reset: both leave a part of it.  Reads do not fail, *)
(* and an erase is done or not done.                                       *)
(***************************************************************************)
EXTENDS Naturals, Sequences

CONSTANTS
  Msg,       \* the text frames; each is received once
  Size,      \* MAX_BUFFERED_MESSAGES
  Invalid,   \* a slot whose valid byte is 0
  Erased,    \* an erased slot, or an erased header
  Garbled,   \* a slot that is valid and holds a part of a frame, or parts of two
  OverwriteSlot(_, _),    \* what writing a slot over another leaves
  OverwriteHeader(_, _),  \* what writing a header over another leaves
  RewritesSector          \* whether the driver erases the sector to write a part of it

Slot == 0..Size-1
Header == [head : Slot, tail : Slot, count : 0..Size]
EmptyHeader == [head |-> 0, tail |-> 0, count |-> 0]
Blank == [header |-> Erased, slot |-> [i \in Slot |-> Erased]]

ASSUME StoreAssumption ==
  /\ Size \in Nat \ {0}
  /\ Erased \notin Header
  /\ {Invalid, Erased, Garbled} \cap Msg = {}
  /\ Invalid # Erased /\ Garbled \notin {Invalid, Erased}
  /\ RewritesSector \in BOOLEAN

\* On both boards a header written over a header, or over nothing, is a header, and a slot
\* holds the frame written, a mixture of two, or none; no other frame can appear.  A driver
\* that rewrites the sector leaves what was written last.
ASSUME DriverAssumption ==
  /\ \A old \in Header \cup {Erased}, new \in Header : OverwriteHeader(old, new) \in Header
  /\ \A old \in Msg \cup {Invalid, Garbled, Erased}, new \in Msg \cup {Invalid, Garbled} :
       OverwriteSlot(old, new) \in {new, Invalid, Garbled}
  /\ RewritesSector =>
       /\ \A old \in Header \cup {Erased}, new \in Header : OverwriteHeader(old, new) = new
       /\ \A old \in Msg \cup {Invalid, Garbled, Erased}, new \in Msg \cup {Invalid, Garbled} :
            OverwriteSlot(old, new) = new

VARIABLES
  ring,       \* head, tail and count in RAM
  slots,      \* the cached slots
  flash,      \* the message sector
  step,       \* the flash write add or pop is about to make: "none", "slot" or "header"
  at,         \* the slot it concerns
  taken,      \* the frame peeked before the pop in progress; Invalid otherwise
  replaying,  \* replay_stored_frames is running
  arrived,    \* the frames offered to the store so far
  replayed,   \* how often each frame was sent to the phone since the boot, up to 2
  before,     \* the frames sent to the phone before the boot
  unstruck,   \* the frames whose slot a pop failed to invalidate in the flash
  failed,     \* a write of add or pop has failed since the boot
  damaged     \* a write of add or pop has failed or was cut, ever

store == <<ring, slots, flash, step, at, taken, replaying, arrived>>
history == <<replayed, before, unstruck, failed, damaged>>
vars == <<store, history>>

-----------------------------------------------------------------------------
SlotWritten(f, i, x) ==
  [header |-> f.header, slot |-> [f.slot EXCEPT ![i] = OverwriteSlot(@, x)]]
HeaderWritten(f, h) == [header |-> OverwriteHeader(f.header, h), slot |-> f.slot]

\* A rewritten sector is written back from its start: the header, then slot after slot.
\* Half of a header does not decode.
Half(x) == {Erased} \cup (IF x \in {Invalid, Erased} THEN {} ELSE {Garbled})
UpTo(new, k, x) ==
  [header |-> new.header,
   slot   |-> [i \in Slot |-> IF i < k THEN new.slot[i] ELSE IF i = k THEN x ELSE Erased]]
PartOfSector(new) ==
  {Blank} \cup UNION {{UpTo(new, k, x) : x \in Half(new.slot[k])} : k \in Slot}

\* Without an erase the words of the header, or of the slot, change one after the other.
PartOfHeader(old, new) ==
  IF old \in Header
  THEN {[old EXCEPT !.head = new.head], [new EXCEPT !.count = old.count]} ELSE {old}
PartOfWords(f, new) ==
  {[header |-> h, slot |-> f.slot] : h \in PartOfHeader(f.header, new.header)} \cup
  {[f EXCEPT !.slot[i] = Garbled] : i \in {j \in Slot : f.slot[j] # new.slot[j] /\ new.slot[j] # Invalid}}

\* What a write that does not reach its end may leave, where new is what it would have left.
Part(f, new) ==
  IF RewritesSector THEN PartOfSector(new) ELSE PartOfWords(f, new)

\* load_or_init: a header that does not decode means an empty ring, and writes one.
LoadedHeader(f) == IF f.header \in Header THEN f.header ELSE EmptyHeader
LoadedSlots(f) ==
  [i \in Slot |-> IF f.header \in Header /\ f.slot[i] # Erased THEN f.slot[i] ELSE Invalid]
Initialised(f) ==
  IF f.header \in Header THEN {f}
  ELSE LET new == HeaderWritten(f, EmptyHeader) IN {new, f} \cup Part(f, new)

Boot(f) ==
  /\ ring' = LoadedHeader(f)
  /\ slots' = LoadedSlots(f)
  /\ flash' \in Initialised(f)
  /\ step' = "none" /\ at' = 0 /\ taken' = Invalid
  /\ replaying' = FALSE

Init ==
  /\ ring = EmptyHeader
  /\ slots = [i \in Slot |-> Invalid]
  /\ flash \in Initialised(Blank)
  /\ step = "none" /\ at = 0 /\ taken = Invalid
  /\ replaying = FALSE
  /\ arrived = {}
  /\ replayed = [m \in Msg |-> 0] /\ before = {} /\ unstruck = {}
  /\ failed = FALSE /\ damaged = FALSE

-----------------------------------------------------------------------------
After(i) == (i + 1) % Size

\* Faulty variants of Added: a full ring keeps its tail; the count is not capped.
AddedKeepingTail(r) ==
  [head |-> After(r.head), tail |-> r.tail, count |-> IF r.count < Size THEN r.count + 1 ELSE Size]
AddedUncapped(r) == [head |-> After(r.head), tail |-> r.tail, count |-> r.count + 1]

\* The bookkeeping of add: a full ring gives up its oldest frame.
Added(r) ==
  [head  |-> After(r.head),
   tail  |-> IF r.count >= Size THEN After(r.tail) ELSE r.tail,
   count |-> IF r.count >= Size THEN Size ELSE r.count + 1]

\* A text frame arrives while no phone is connected.
Add(m) ==
  /\ step = "none" /\ ~replaying
  /\ m \notin arrived
  /\ arrived' = arrived \cup {m}
  /\ slots' = [slots EXCEPT ![ring.head] = m]
  /\ ring' = Added(ring)
  /\ step' = "slot" /\ at' = ring.head
  /\ UNCHANGED <<flash, taken, replaying, history>>

\* The phone has finished its configuration exchange.
StartReplay ==
  /\ step = "none" /\ ~replaying
  /\ ring.count > 0
  /\ replaying' = TRUE
  /\ UNCHANGED <<ring, slots, flash, step, at, taken, arrived, history>>

Counted(m) == [replayed EXCEPT ![m] = IF @ < 2 THEN @ + 1 ELSE @]

\* Faulty variant of Pop: the frame is given up in RAM only.
PopInMemory ==
  /\ step = "none" /\ replaying
  /\ ring.count > 0 /\ slots[ring.tail] # Invalid
  /\ slots' = [slots EXCEPT ![ring.tail] = Invalid]
  /\ ring' = [ring EXCEPT !.tail = After(@), !.count = @ - 1]
  /\ replayed' = IF slots[ring.tail] \in Msg THEN Counted(slots[ring.tail]) ELSE replayed
  /\ UNCHANGED <<flash, step, at, taken, replaying, arrived, before, unstruck, failed, damaged>>

\* peek returns the oldest frame, and pop gives it up.
Pop ==
  /\ step = "none" /\ replaying
  /\ ring.count > 0 /\ slots[ring.tail] # Invalid
  /\ taken' = slots[ring.tail]
  /\ slots' = [slots EXCEPT ![ring.tail] = Invalid]
  /\ ring' = [ring EXCEPT !.tail = After(@), !.count = @ - 1]
  /\ step' = "slot" /\ at' = ring.tail
  /\ UNCHANGED <<flash, replaying, arrived, history>>

\* peek returns nothing, or fails on an invalid slot.
EndReplay ==
  /\ step = "none" /\ replaying
  /\ ring.count = 0 \/ slots[ring.tail] = Invalid
  /\ replaying' = FALSE
  /\ UNCHANGED <<ring, slots, flash, step, at, taken, arrived, history>>

\* What the write in progress leaves when nothing goes wrong.
SlotTarget == SlotWritten(flash, at, slots[at])
HeaderTarget == HeaderWritten(flash, ring)

\* Faulty variant of PersistSlot: the slot stays in RAM.
SkipSlot ==
  /\ step = "slot"
  /\ step' = "header"
  /\ UNCHANGED <<ring, slots, flash, at, taken, replaying, arrived, history>>

PersistSlot ==
  /\ step = "slot"
  /\ flash' = SlotTarget
  /\ step' = "header"
  /\ UNCHANGED <<ring, slots, at, taken, replaying, arrived, history>>

\* A failed write is logged, and the operation goes on to the header.
PersistSlotFails ==
  /\ step = "slot"
  /\ flash' \in {flash} \cup Part(flash, SlotTarget)
  /\ step' = "header"
  /\ unstruck' = unstruck \cup ({taken} \cap Msg)
  /\ failed' = TRUE /\ damaged' = TRUE
  /\ UNCHANGED <<ring, slots, at, taken, replaying, arrived, replayed, before>>

\* The header ends the operation.  A popped frame that decodes is sent to the phone,
\* or dropped when ble_tx is full.
EndOperation ==
  /\ step' = "none" /\ at' = 0 /\ taken' = Invalid
  /\ \/ UNCHANGED replayed
     \/ taken \in Msg /\ replayed' = Counted(taken)
  /\ UNCHANGED <<ring, slots, replaying, arrived, before, unstruck>>

PersistHeader ==
  /\ step = "header"
  /\ flash' = HeaderTarget
  /\ EndOperation
  /\ UNCHANGED <<failed, damaged>>

\* A failed write is logged, and pop returns Ok all the same.
PersistHeaderFails ==
  /\ step = "header"
  /\ flash' \in {flash} \cup Part(flash, HeaderTarget)
  /\ EndOperation
  /\ failed' = TRUE /\ damaged' = TRUE

\* The history of the frames across a boot.
Reboots ==
  /\ before' = before \cup {m \in Msg : replayed[m] > 0}
  /\ replayed' = [m \in Msg |-> 0]
  /\ failed' = FALSE
  /\ UNCHANGED <<arrived, unstruck>>

\* Power loss, a watchdog or an ordinary reboot.
Reset == Boot(flash) /\ Reboots /\ UNCHANGED damaged

\* A reset in the middle of a write.
ResetTorn ==
  /\ \/ step = "slot" /\ \E f \in Part(flash, SlotTarget) : Boot(f)
     \/ step = "header" /\ \E f \in Part(flash, HeaderTarget) : Boot(f)
  /\ Reboots /\ damaged' = TRUE

Next ==
  \/ \E m \in Msg : Add(m)
  \/ StartReplay \/ Pop \/ EndReplay
  \/ PersistSlot \/ PersistSlotFails
  \/ PersistHeader \/ PersistHeaderFails
  \/ Reset \/ ResetTorn

Spec == Init /\ [][Next]_vars

-----------------------------------------------------------------------------
\* The ring, its copy in flash and the frames on their way (GenericNvsStorage).
TypeOK ==
  /\ ring \in Header
  /\ slots \in [Slot -> Msg \cup {Invalid, Garbled}]
  /\ flash \in [header : Header \cup {Erased}, slot : [Slot -> Msg \cup {Invalid, Garbled, Erased}]]
  /\ step \in {"none", "slot", "header"}
  /\ at \in Slot
  /\ taken \in Msg \cup {Invalid, Garbled}
  /\ replaying \in BOOLEAN
  /\ arrived \subseteq Msg
  /\ replayed \in [Msg -> 0..2]
  /\ before \subseteq Msg /\ unstruck \subseteq Msg
  /\ failed \in BOOLEAN /\ damaged \in BOOLEAN

\* The slot k places after the tail of a ring, and n slots from there on.
Place(tail, k) == (tail + k) % Size
Window(s, tail, n) == [k \in 1..n |-> s[Place(tail, k - 1)]]

\* What a ring holds, oldest first: frames, remains of frames, and lost frames.
Contents(r, s) == Window(s, r.tail, r.count)

Kept == Contents(ring, slots)
Stored == Contents(LoadedHeader(flash), LoadedSlots(flash))

\* pop: "so the consumed message isn't replayed again after a reboot".  Between two boots
\* a frame goes to the phone at most once, whatever writes fail or are cut.  After a reboot
\* it goes again only if pop failed to write the slot that held it: the code logs that and
\* sends the frame (persist_slot).  A failed or cut write of anything else never brings
\* back what was sent.
ReplayedOnce ==
  \A m \in Msg :
    /\ replayed[m] <= 1
    /\ replayed[m] = 1 /\ m \in before => m \in unstruck

\* Head, tail and count tell the same story.
HeadersAgree ==
  \A h \in {ring, flash.header} \cap Header : h.head = (h.tail + h.count) % Size

\* Every place holds a frame, but for a hole at the front.
Whole(q) == \A k \in DOMAIN q : q[k] \in Msg \cup (IF k = 1 THEN {Invalid} ELSE {})
HoleOnlyAtTail == Whole(Kept) /\ Whole(Stored)

\* A ring that contradicts itself would replay or overwrite the wrong frames after any
\* later operation: that never happens, in RAM or in the flash, whatever writes fail or a
\* reset cuts (add, pop, load_or_init).  peek looks at the tail and nowhere else, so that
\* an invalid slot further on stops a replay in the middle of the buffer: resets between
\* the writes leave one at the tail only (pop), and it takes a failed or a cut write to
\* leave one behind it.
RingSound == HeadersAgree /\ (~damaged => HoleOnlyAtTail)

\* A reset between operations keeps every buffered frame, in order, if no write has failed
\* since the last boot (load_or_init, "so peek() works after a reboot"; "survives deep sleep").
ResetKeepsMessages ==
  [][ (step = "none" /\ ~failed /\ Boot(flash)) => Contents(ring', slots') = Kept ]_vars

Queue == INSTANCE MessageQueue
           WITH kept <- Kept, stored <- Stored, failed <- failed, Lost <- Invalid,
                doing <- IF step = "none" THEN "nothing" ELSE IF taken = Invalid THEN "adding" ELSE "taking"

\* The ring implements a bounded queue that survives resets: the operation a reset
\* interrupts can be undone or lose its place, the one whose write a reset cuts can lose
\* frames in place or all of them, and only a failed write lets the flash differ from the
\* queue, until the next reset (add, pop, persist_slot, persist_header, load_or_init).
ImplementsMessageQueue == Queue!Spec
=============================================================================
