---------------------------- MODULE BoardProofs ----------------------------
(***************************************************************************)
(* The safety of the two tasks that work the hardware of a board: the LoRa *)
(* task (RadioTask), for queues of every size and any number of CAD        *)
(* attempts, and the watchdog task (PowerCycle), for every period of the   *)
(* hardware watchdog and every delay of a shutdown.                        *)
(***************************************************************************)
EXTENDS RadioTask, PowerCycle, SequenceTheorems, TLAPS

-----------------------------------------------------------------------------
(* The inductive invariant of the LoRa task.                               *)

\* A scan that may find the channel busy is never the last one allowed.
CadCounted == task = "sensing" => cadRetries < CadMaxRetries

\* TX counts as off only while neither the gate nor the flash lets a frame through.
Gate == off => ~txEnabled /\ ~savedEnabled

\* The LoRa task has a frame that it has not begun to transmit.
InHand == task \in {"cad", "sensing", "backoff", "prepare"}

\* Whatever goes on the air with TX off was the frame in hand, and it is no more.
LastFrame == sentOff = 0 \/ (off /\ sentOff = 1 /\ ~InHand)

IInv == TypeOK /\ CadCounted /\ Gate /\ LastFrame

-----------------------------------------------------------------------------
(* Types.                                                                  *)

LEMMA Sizes ==
  /\ LoraTxSize \in Nat \ {0} /\ MeshInSize \in Nat \ {0} /\ CadMaxRetries \in Nat \ {0}
  BY RadioAssumption

Tasks == {"wake", "init", "select", "cad", "sensing", "backoff", "prepare", "transmitting",
          "return", "asleep"}
Chips == {"standby", "rx", "cad", "tx"}
InMeshIn(queue) == queue \in Seq(Event) /\ Len(queue) <= MeshInSize

LEMMA Parts ==
  TypeOK <=> /\ power \in {"on", "asleep"} /\ task \in Tasks
             /\ txEnabled \in BOOLEAN /\ savedEnabled \in BOOLEAN
             /\ sending \in BOOLEAN /\ off \in BOOLEAN
             /\ loraTx \in 0..LoraTxSize
             /\ InMeshIn(meshIn)
             /\ cadRetries \in 0..CadMaxRetries
             /\ chip \in Chips /\ buffer \in {"empty", "new", "old"}
             /\ sentOff \in 0..MaxSentOff
  BY DEF TypeOK, InMeshIn, Tasks, Chips

\* An event joins a queue with room.
LEMMA Joins ==
  ASSUME NEW queue \in Seq(Event), Len(queue) < MeshInSize, NEW e \in Event
  PROVE  InMeshIn(Append(queue, e))
  <1>1. /\ Append(queue, e) \in Seq(Event) /\ Len(Append(queue, e)) = Len(queue) + 1
        /\ Len(queue) \in Nat
    BY AppendProperties
  <1>2. QED
    BY <1>1, Sizes DEF InMeshIn

LEMMA OfferType ==
  ASSUME TypeOK, NEW e \in Event
  PROVE  InMeshIn(Offer(e))
  <1>1. InMeshIn(meshIn)
    BY Parts
  <1>2. CASE Len(meshIn) < MeshInSize
    BY <1>1, <1>2, Joins DEF Offer, InMeshIn
  <1>3. CASE ~(Len(meshIn) < MeshInSize)
    BY <1>1, <1>3 DEF Offer
  <1>4. QED
    BY <1>2, <1>3

LEMMA ReportsType ==
  ASSUME NEW queue, InMeshIn(queue), Reports(queue)
  PROVE  InMeshIn(meshIn')
  <1>1. CASE meshIn' = queue
    BY <1>1
  <1>2. CASE Len(queue) < MeshInSize /\ meshIn' = Append(queue, "other")
    BY <1>2, Joins DEF InMeshIn, Event
  <1>3. QED
    BY <1>1, <1>2 DEF Reports

LEMMA TailType ==
  ASSUME TypeOK, meshIn # <<>>
  PROVE  InMeshIn(Tail(meshIn))
  <1>1. meshIn \in Seq(Event) /\ Len(meshIn) <= MeshInSize
    BY DEF TypeOK
  <1>2. /\ Tail(meshIn) \in Seq(Event) /\ Len(Tail(meshIn)) = Len(meshIn) - 1
        /\ Len(meshIn) \in Nat
    BY <1>1, HeadTailProperties
  <1>3. QED
    BY <1>1, <1>2, Sizes DEF InMeshIn

LEMMA EmptyType == InMeshIn(<<>>)
  BY Sizes DEF InMeshIn

-----------------------------------------------------------------------------
(* The steps.                                                              *)

LEMMA InitInv == Init => IInv
  <1> SUFFICES ASSUME Init PROVE IInv
    OBVIOUS
  <1>1. TypeOK
    <2>1. /\ loraTx \in 0..LoraTxSize /\ cadRetries \in 0..CadMaxRetries /\ sentOff \in 0..MaxSentOff
      BY Sizes DEF Init, MaxSentOff
    <2>2. InMeshIn(meshIn)
      BY EmptyType DEF Init
    <2>3. /\ txEnabled \in BOOLEAN /\ savedEnabled \in BOOLEAN /\ off \in BOOLEAN
      BY DEF Init
    <2>4. QED
      BY <2>1, <2>2, <2>3, Parts DEF Init, Tasks, Chips
  <1>2. CadCounted /\ Gate /\ LastFrame
    BY DEF Init, CadCounted, Gate, LastFrame
  <1>3. QED
    BY <1>1, <1>2 DEF IInv

\* What a step has to respect, once the variables' types are settled.
LEMMA TypeFrom ==
  ASSUME power' \in {"on", "asleep"}, task' \in Tasks,
         txEnabled' \in BOOLEAN, savedEnabled' \in BOOLEAN, sending' \in BOOLEAN, off' \in BOOLEAN,
         loraTx' \in 0..LoraTxSize, InMeshIn(meshIn'), cadRetries' \in 0..CadMaxRetries,
         chip' \in Chips, buffer' \in {"empty", "new", "old"}, sentOff' \in 0..MaxSentOff
  PROVE  TypeOK'
  BY DEF TypeOK, InMeshIn, Tasks, Chips

\* The actions that save or erase the configuration.
Saves == (\E enabled \in BOOLEAN : SetTxEnabled(enabled)) \/ SaveSettings \/ FactoryReset

LEMMA SavesGate ==
  ASSUME IInv, Saves
  PROVE  /\ txEnabled' \in BOOLEAN /\ savedEnabled' \in BOOLEAN /\ off' \in BOOLEAN /\ Gate'
         /\ (off' /\ sentOff' = sentOff) \/ sentOff' = 0
         /\ off' => off \/ sentOff = 0
  <1>1. txEnabled \in BOOLEAN /\ savedEnabled \in BOOLEAN /\ off \in BOOLEAN
    BY Parts DEF IInv
  <1>2. CASE \E enabled \in BOOLEAN : SetTxEnabled(enabled)
    BY <1>1, <1>2 DEF SetTxEnabled, AfterSave, StillOff, Gate, IInv, LastFrame
  <1>3. CASE SaveSettings \/ FactoryReset
    <2>1. txEnabled' = txEnabled /\ savedEnabled' \in {savedEnabled, TRUE, txEnabled}
      BY <1>3 DEF SaveSettings, FactoryReset, AfterSave
    <2>2. savedEnabled' \in BOOLEAN
      BY <1>1, <2>1
    <2>3. /\ off' = ~(txEnabled \/ savedEnabled')
          /\ sentOff' = IF off' THEN sentOff ELSE 0
      BY <1>3 DEF SaveSettings, FactoryReset, StillOff
    <2>4. off' \in BOOLEAN /\ Gate'
      BY <2>1, <2>3 DEF Gate
    <2>5. off \/ sentOff = 0
      BY <1>1 DEF IInv, LastFrame
    <2>6. QED
      BY <1>1, <2>1, <2>2, <2>3, <2>4, <2>5
  <1>4. QED
    BY <1>2, <1>3 DEF Saves

\* The mesh task and the gate.
LEMMA MeshStep ==
  ASSUME IInv, Mesh
  PROVE  IInv'
  <1>1. UNCHANGED <<power, task, cadRetries, chip, buffer>>
    BY DEF Mesh, Handle, TimerSends, Enqueue, OtherEvent, SetTxEnabled, SaveSettings,
       FactoryReset, radio
  <1>2. InMeshIn(meshIn') /\ sending' \in BOOLEAN
    <2>1. InMeshIn(meshIn) /\ sending \in BOOLEAN
      BY Parts DEF IInv
    <2>2. CASE Handle \/ Saves
      BY <2>1, <2>2, TailType DEF IInv, Handle, Saves, SetTxEnabled, SaveSettings, FactoryReset
    <2>3. CASE OtherEvent
      BY <2>1, <2>3, OfferType DEF IInv, OtherEvent, Event
    <2>4. CASE TimerSends \/ Enqueue
      BY <2>1, <2>4 DEF TimerSends, Enqueue
    <2>5. QED
      BY <2>2, <2>3, <2>4 DEF Mesh, Saves
  <1>3. loraTx' \in 0..LoraTxSize
    <2>1. loraTx \in 0..LoraTxSize
      BY Parts DEF IInv
    <2>2. CASE Saves \/ Handle \/ TimerSends \/ OtherEvent
      <3>1. loraTx' = loraTx
        BY <2>2 DEF Saves, SetTxEnabled, SaveSettings, FactoryReset, Handle, TimerSends, OtherEvent
      <3>2. QED
        BY <2>1, <3>1
    <2>3. CASE Enqueue
      BY <2>1, <2>3, Sizes DEF Enqueue
    <2>4. QED
      BY <2>2, <2>3 DEF Mesh, Saves
  <1>4. /\ txEnabled' \in BOOLEAN /\ savedEnabled' \in BOOLEAN /\ off' \in BOOLEAN
        /\ Gate' /\ ((off' /\ sentOff' = sentOff) \/ sentOff' = 0 \/ UNCHANGED <<off, sentOff>>)
        /\ off' => off \/ sentOff = 0
    <2>1. txEnabled \in BOOLEAN /\ savedEnabled \in BOOLEAN /\ off \in BOOLEAN
      BY Parts DEF IInv
    <2>2. CASE Saves
      BY <2>2, SavesGate
    <2>3. CASE ~Saves
      <3>1. UNCHANGED <<txEnabled, savedEnabled, off, sentOff>>
        BY <2>3 DEF Mesh, Handle, TimerSends, Enqueue, OtherEvent, Saves, gate
      <3>2. QED
        BY <2>1, <3>1 DEF IInv, Gate, LastFrame
    <2>4. QED
      BY <2>2, <2>3
  <1>5. LastFrame'
    BY <1>1, <1>4 DEF IInv, LastFrame, InHand
  <1>6. CadCounted'
    BY <1>1 DEF IInv, CadCounted
  <1>7. sentOff' \in 0..MaxSentOff
    BY <1>5 DEF LastFrame, MaxSentOff
  <1>8. TypeOK'
    <2>1. power \in {"on", "asleep"} /\ task \in Tasks /\ cadRetries \in 0..CadMaxRetries
          /\ chip \in Chips /\ buffer \in {"empty", "new", "old"}
      BY Parts DEF IInv
    <2>2. QED
      BY <1>1, <1>2, <1>3, <1>4, <1>7, <2>1, TypeFrom
  <1>9. QED
    BY <1>4, <1>5, <1>6, <1>8 DEF IInv

\* A frame from the queue to the air.
LEMMA TransmitStep ==
  ASSUME IInv, Transmit
  PROVE  IInv'
  <1>1. UNCHANGED <<power, txEnabled, savedEnabled, off, sending, buffer>>
    BY DEF Transmit, TakeFrame, DropFrames, SkipCad, StartCad, CadFree, CadBusy, BackoffEnds,
       StartTx, PrepareTxFails, TxEnds, ReturnToRx, mesh, gate, radio
  <1>2. InMeshIn(meshIn')
    <2>1. InMeshIn(meshIn)
      BY Parts DEF IInv
    <2>2. CASE \E ok \in BOOLEAN : ReturnToRx(ok)
      BY <2>1, <2>2, ReportsType DEF ReturnToRx
    <2>3. CASE ~ \E ok \in BOOLEAN : ReturnToRx(ok)
      BY <2>1, <2>3 DEF Transmit, TakeFrame, DropFrames, SkipCad, StartCad, CadFree, CadBusy,
         BackoffEnds, StartTx, PrepareTxFails, TxEnds, mesh
    <2>4. QED
      BY <2>2, <2>3
  <1>3. loraTx' \in 0..LoraTxSize
    <2>1. loraTx \in 0..LoraTxSize
      BY Parts DEF IInv
    <2>2. QED
      BY <2>1, Sizes DEF Transmit, TakeFrame, DropFrames, SkipCad, StartCad, CadFree, CadBusy,
         BackoffEnds, StartTx, PrepareTxFails, TxEnds, ReturnToRx, mesh
  <1>4. cadRetries' \in 0..CadMaxRetries /\ CadCounted'
    <2>1. cadRetries \in 0..CadMaxRetries
      BY Parts DEF IInv
    <2>2. QED
      BY <2>1, Sizes DEF Transmit, TakeFrame, DropFrames, SkipCad, StartCad, CadFree, CadBusy,
         BackoffEnds, StartTx, PrepareTxFails, TxEnds, ReturnToRx, radio, IInv, CadCounted
  <1>5. task' \in Tasks /\ chip' \in Chips
    <2>1. task \in Tasks /\ chip \in Chips
      BY Parts DEF IInv
    <2>2. QED
      BY <2>1 DEF Transmit, TakeFrame, DropFrames, SkipCad, StartCad, CadFree, CadBusy,
         BackoffEnds, StartTx, PrepareTxFails, TxEnds, ReturnToRx, radio, Tasks, Chips
  <1>6. Gate'
    BY <1>1 DEF IInv, Gate
  <1>7. LastFrame'
    <2>1. CASE TakeFrame
      <3>1. txEnabled /\ sentOff' = sentOff
        BY <2>1 DEF TakeFrame
      <3>2. ~off
        BY <3>1 DEF IInv, Gate
      <3>3. QED
        BY <3>1, <3>2 DEF IInv, LastFrame
    <2>2. CASE StartTx
      <3>1. InHand /\ ~InHand'
        BY <2>2 DEF StartTx, InHand
      <3>2. sentOff = 0
        BY <3>1 DEF IInv, LastFrame
      <3>3. sentOff' = IF off THEN 1 ELSE 0
        BY <2>2, <3>2 DEF StartTx, MaxSentOff
      <3>4. QED
        BY <1>1, <3>1, <3>3 DEF LastFrame
    <2>3. CASE ~TakeFrame /\ ~StartTx
      <3>1. sentOff' = sentOff /\ (InHand' => InHand)
        BY <2>3 DEF Transmit, DropFrames, SkipCad, StartCad, CadFree, CadBusy, BackoffEnds,
           PrepareTxFails, TxEnds, ReturnToRx, radio, InHand
      <3>2. QED
        BY <1>1, <3>1 DEF IInv, LastFrame
    <2>4. QED
      BY <2>1, <2>2, <2>3
  <1>8. sentOff' \in 0..MaxSentOff
    BY <1>7 DEF LastFrame, MaxSentOff
  <1>9. TypeOK'
    <2>1. /\ power \in {"on", "asleep"} /\ buffer \in {"empty", "new", "old"}
          /\ txEnabled \in BOOLEAN /\ savedEnabled \in BOOLEAN /\ sending \in BOOLEAN
          /\ off \in BOOLEAN
      BY Parts DEF IInv
    <2>2. QED
      BY <1>1, <1>2, <1>3, <1>4, <1>5, <1>8, <2>1, TypeFrom
  <1>10. QED
    BY <1>4, <1>6, <1>7, <1>9 DEF IInv

\* A boot closes the gate that the flash says is closed, if it reads it.
LEMMA BootStep ==
  ASSUME IInv, NEW start \in {"init", "wake"}, NEW saved \in BOOLEAN, Boot(start, saved),
         chip' \in Chips, buffer' \in {"empty", "new", "old"}
  PROVE  IInv'
  <1>1. /\ power' = "on" /\ task' = start /\ savedEnabled' = saved
        /\ loraTx' = 0 /\ sending' = FALSE /\ meshIn' = <<>> /\ cadRetries' = 0
    BY DEF Boot
  <1>2. PICK read \in BOOLEAN : txEnabled' = (read => saved) /\ StillOff(read /\ ~saved)
    BY DEF Boot
  <1>3. /\ txEnabled' \in BOOLEAN /\ off' \in BOOLEAN /\ Gate'
        /\ sentOff' = IF off' THEN sentOff ELSE 0
    BY <1>1, <1>2 DEF StillOff, Gate
  <1>4. LastFrame' /\ CadCounted'
    BY <1>1, <1>3 DEF IInv, LastFrame, InHand, CadCounted
  <1>5. TypeOK'
    <2>1. /\ loraTx' \in 0..LoraTxSize /\ cadRetries' \in 0..CadMaxRetries
          /\ sentOff' \in 0..MaxSentOff
      BY <1>1, <1>4, Sizes DEF LastFrame, MaxSentOff
    <2>2. InMeshIn(meshIn')
      BY <1>1, EmptyType
    <2>3. task' \in Tasks
      BY <1>1 DEF Tasks
    <2>4. QED
      BY <1>1, <1>3, <2>1, <2>2, <2>3, TypeFrom
  <1>6. QED
    BY <1>3, <1>4, <1>5 DEF IInv

Boots == Reset \/ ResetTorn \/ WakeByRadio \/ WakeByButton

LEMMA BootsStep ==
  ASSUME IInv, Boots
  PROVE  IInv'
  <1>1. savedEnabled \in BOOLEAN /\ chip \in Chips /\ buffer \in {"empty", "new", "old"}
    BY Parts DEF IInv
  <1>2. chip' \in Chips /\ buffer' \in {"empty", "new", "old"}
    BY <1>1 DEF Boots, Reset, ResetTorn, WakeByRadio, WakeByButton, Chips
  <1>3. \E start \in {"init", "wake"}, saved \in BOOLEAN : Boot(start, saved)
    <2>1. CASE Reset \/ WakeByButton \/ WakeByRadio
      BY <1>1, <2>1 DEF Reset, WakeByRadio, WakeByButton
    <2>2. CASE ResetTorn
      <3>1. PICK enabled \in BOOLEAN : \E saved \in {savedEnabled, TRUE, enabled} : Boot("init", saved)
        BY <2>2 DEF ResetTorn, AfterSave
      <3>2. {savedEnabled, TRUE, enabled} \subseteq BOOLEAN
        BY <1>1
      <3>3. QED
        BY <3>1, <3>2
    <2>3. QED
      BY <2>1, <2>2 DEF Boots
  <1>4. QED
    BY <1>2, <1>3, BootStep

\* Reception, a sleep, and what follows a wake-up.
LEMMA OtherStep ==
  ASSUME IInv, Listen \/ PowerCycle \/ UNCHANGED vars, ~Boots
  PROVE  IInv'
  <1>1. UNCHANGED <<txEnabled, savedEnabled, off, sentOff, sending, loraTx, cadRetries>>
    BY DEF Boots, Listen, Receive, SilentChannel, RxError, PowerCycle, Sleep,
       NoWakePacket, ReadWakePacket, InitRadio, vars, mesh, gate, radio
  <1>2. InMeshIn(meshIn')
    <2>1. InMeshIn(meshIn)
      BY Parts DEF IInv
    <2>2. CASE Receive
      <3>1. InMeshIn(Offer("packet"))
        BY OfferType DEF IInv, Event
      <3>2. QED
        BY <2>1, <2>2, <3>1, ReportsType DEF Receive
    <2>3. CASE SilentChannel
      BY <2>3, OfferType DEF IInv, Event, SilentChannel
    <2>4. CASE ReadWakePacket
      BY <2>4, OfferType DEF IInv, Event, ReadWakePacket
    <2>5. CASE \/ \E ok \in BOOLEAN : RxError(ok)
               \/ Sleep \/ NoWakePacket \/ InitRadio \/ UNCHANGED vars
      BY <2>1, <2>5 DEF RxError, Sleep, NoWakePacket, InitRadio, vars, mesh
    <2>6. QED
      BY <2>2, <2>3, <2>4, <2>5 DEF Listen, PowerCycle, Boots
  <1>3. /\ power' \in {"on", "asleep"} /\ task' \in Tasks
        /\ chip' \in Chips /\ buffer' \in {"empty", "new", "old"}
    <2>1. /\ power \in {"on", "asleep"} /\ task \in Tasks
          /\ chip \in Chips /\ buffer \in {"empty", "new", "old"}
      BY Parts DEF IInv
    <2>2. QED
      BY <2>1 DEF Boots, Listen, Receive, SilentChannel, RxError, PowerCycle, Sleep,
         NoWakePacket, ReadWakePacket, InitRadio, vars, radio, Tasks, Chips
  <1>4. task' = task \/ task' \in {"init", "select", "asleep"}
    BY DEF Boots, Listen, Receive, SilentChannel, RxError, PowerCycle, Sleep,
       NoWakePacket, ReadWakePacket, InitRadio, vars, radio
  <1>5. CadCounted'
    BY <1>1, <1>4 DEF IInv, CadCounted
  <1>6. Gate'
    BY <1>1 DEF IInv, Gate
  <1>7. LastFrame'
    BY <1>1, <1>4 DEF IInv, LastFrame, InHand
  <1>8. TypeOK'
    <2>1. /\ txEnabled \in BOOLEAN /\ savedEnabled \in BOOLEAN /\ sending \in BOOLEAN
          /\ off \in BOOLEAN /\ loraTx \in 0..LoraTxSize /\ cadRetries \in 0..CadMaxRetries
          /\ sentOff \in 0..MaxSentOff
      BY Parts DEF IInv
    <2>2. QED
      BY <1>1, <1>2, <1>3, <2>1, TypeFrom
  <1>9. QED
    BY <1>5, <1>6, <1>7, <1>8 DEF IInv

LEMMA StepInv == IInv /\ [Next]_vars => IInv'
  BY MeshStep, TransmitStep, BootsStep, OtherStep DEF Next, Boots

LEMMA Invariance == Spec => []IInv
  BY InitInv, StepInv, PTL DEF Spec

-----------------------------------------------------------------------------
(* The theorems about the LoRa task.                                       *)

\* The queues keep within their slots and a frame meets at most CAD_MAX_RETRIES busy
\* channels, across failures, resets and sleeps (lora_task_body).
THEOREM RadioTypeCorrect == Spec => []TypeOK
  <1>1. IInv => TypeOK
    BY DEF IInv
  <1>2. QED
    BY <1>1, Invariance, PTL

\* With TX disabled, in the gate and in the flash, no more than the frame in hand goes on the
\* air, through resets and sleeps, until TX is enabled or a save or a load of the
\* configuration fails or is cut (tx_enabled in lora_task_body, main and SetConfig).
THEOREM DisabledStaysSilent == Spec => []OffMeansOff
  <1>1. IInv => OffMeansOff
    BY DEF IInv, LastFrame, OffMeansOff
  <1>2. QED
    BY <1>1, Invariance, PTL

-----------------------------------------------------------------------------
(* The inductive invariant of the watchdog task.                           *)

\* Between two rounds, in the grace period and in each step of a delay, what the hardware
\* watchdog has waited and what the timer still takes never exceed the limit together.
Fed ==
  /\ wd = "watch" => unfed + due <= FeedTicks
  /\ wd = "grace" => unfed + due <= FeedTicks + GraceTicks
  /\ wd = "countdown" => unfed + due <= FeedTicks + GraceTicks + ChunkTicks

\* A delay that is being counted down is not over.
Counting == wd = "countdown" /\ mode = "on" => remaining > 0

PowerInv == PowerTypeOK /\ Fed /\ Counting

-----------------------------------------------------------------------------
(* The level of the battery.                                               *)

\* The differences between the entries of OCV_TABLE.
Steps == {150, 100, 70, 50, 60, 300}

\* A tenth of a step of the table, never the whole.
LEMMA Tenths ==
  ASSUME NEW m \in Nat, NEW d \in Steps, m < d
  PROVE  (m * 10) \div d \in 0..9
  <1>1. CASE d = 150
    BY <1>1
  <1>2. CASE d = 100
    BY <1>2
  <1>3. CASE d = 70
    BY <1>3
  <1>4. CASE d = 50
    BY <1>4
  <1>5. CASE d = 60
    BY <1>5
  <1>6. CASE d = 300
    BY <1>6
  <1>7. QED
    BY <1>1, <1>2, <1>3, <1>4, <1>5, <1>6 DEF Steps

LEMMA TableSteps ==
  \A j \in 1..10 : /\ Table[j] \in Nat /\ Table[j + 1] \in Nat
                   /\ Table[j] - Table[j + 1] \in Steps
  BY DEF Table, Steps

LEMMA SegmentIs ==
  ASSUME NEW mv \in Nat, mv < Table[1], mv > Table[11]
  PROVE  /\ Segment(mv) \in 1..10
         /\ mv < Table[Segment(mv)] /\ mv >= Table[Segment(mv) + 1]
  <1>1. \E j \in 1..10 : mv < Table[j] /\ mv >= Table[j + 1]
    BY DEF Table
  <1>2. QED
    BY <1>1 DEF Segment

\* The level is a percentage, whatever the voltage.
LEMMA LevelInRange ==
  ASSUME NEW mv \in Nat
  PROVE  VoltageToLevel(mv) \in 0..100
  <1>1. CASE mv >= Table[1]
    BY <1>1 DEF VoltageToLevel
  <1>2. CASE ~(mv >= Table[1]) /\ mv <= Table[11]
    BY <1>2 DEF VoltageToLevel
  <1>3. CASE ~(mv >= Table[1]) /\ ~(mv <= Table[11])
    <2>1. mv < Table[1] /\ mv > Table[11]
      BY <1>3 DEF Table
    <2>2. PICK i \in 1..10 :
            i = Segment(mv) /\ mv < Table[i] /\ mv >= Table[i + 1]
      BY <2>1, SegmentIs
    <2>3. PICK a \in Nat, d \in Steps :
            a = Table[i + 1] /\ d = Table[i] - Table[i + 1]
      BY TableSteps
    <2>4. mv - a \in Nat /\ mv - a < d
      BY <2>2, <2>3, TableSteps
    <2>5. ((mv - a) * 10) \div d \in 0..9
      BY <2>4, Tenths
    <2>6. VoltageToLevel(mv) = 10 * (10 - i) + ((mv - a) * 10) \div d
      BY <1>3, <2>2, <2>3 DEF VoltageToLevel
    <2>7. QED
      BY <2>5, <2>6
  <1>4. QED
    BY <1>1, <1>2, <1>3

LEMMA PowerParts ==
  /\ Boards \subseteq {"esp32", "nrf52"} /\ Supplies \subseteq Nat /\ Delays \subseteq Nat
  /\ IdleTicks \in Nat /\ IdleTicks > 0 /\ WdtTicks \in Nat /\ WdtTicks > 4
  /\ FeedTicks = 1 /\ GraceTicks = 1 /\ ChunkTicks = 2
  BY PowerAssumption DEF FeedTicks, GraceTicks, ChunkTicks

\* What the signals, and what the timers, contribute to the invariant.
Signalled ==
  /\ board \in Boards /\ supply \in Supplies /\ voltage \in Nat
  /\ batLevel \in 0..100 \cup {None} /\ shutdownCmd \in Delays \cup {None}
  /\ activity \in BOOLEAN /\ phone \in BOOLEAN /\ disconnCmd \in BOOLEAN

Timed ==
  /\ mode \in {"on", "asleep"} /\ wd \in {"watch", "grace", "countdown"}
  /\ due \in 0..ChunkTicks /\ remaining \in Nat
  /\ idle \in 0..IdleTicks /\ unfed \in 0..WdtTicks
  /\ Fed /\ Counting

LEMMA PowerApart == PowerInv <=> Signalled /\ Timed
  BY DEF PowerInv, PowerTypeOK, Signalled, Timed

LEMMA InitPower ==
  ASSUME PowerInit
  PROVE  PowerInv
  <1>1. voltage \in Nat /\ supply \in Supplies
    BY PowerParts DEF PowerInit, FirstReading, AssumedVoltage
  <1>2. batLevel \in 0..100
    BY <1>1, LevelInRange DEF PowerInit
  <1>3. Signalled
    BY <1>1, <1>2 DEF PowerInit, Signalled
  <1>4. Timed
    BY PowerParts DEF PowerInit, Timed, Fed, Counting
  <1>5. QED
    BY <1>3, <1>4, PowerApart

\* What the battery, the admin, the phone and the reset button do leaves the watchdog's
\* timer alone, or starts it afresh.
LEMMA SurroundingsStep ==
  ASSUME Signalled, Timed, Surroundings
  PROVE  Signalled' /\ Timed'
  <1>1. voltage \in Nat /\ supply \in Nat
    BY PowerParts DEF Signalled
  <1>2. CASE BatterySample
    <2>1. voltage' \in Nat
      BY <1>1, <1>2 DEF BatterySample, NextReading
    <2>2. batLevel' \in 0..100
      BY <1>2, <2>1, LevelInRange DEF BatterySample
    <2>3. Signalled'
      BY <1>2, <2>1, <2>2 DEF Signalled, BatterySample, ble
    <2>4. Timed'
      BY <1>2 DEF Timed, Fed, Counting, BatterySample, watchdog
    <2>5. QED
      BY <2>3, <2>4
  <1>3. CASE Wake
    <2>1. voltage' \in Nat
      BY <1>1, <1>3 DEF Wake, FirstReading, AssumedVoltage
    <2>2. batLevel' \in 0..100
      BY <1>3, <2>1, LevelInRange DEF Wake
    <2>3. Signalled'
      BY <1>3, <2>1, <2>2 DEF Signalled, Wake
    <2>4. Timed'
      BY <1>3, PowerParts DEF Timed, Fed, Counting, Wake
    <2>5. QED
      BY <2>3, <2>4
  <1>4. CASE \/ Discharge \/ Activity
             \/ \E secs \in Delays : RequestShutdown(secs)
    <2>1. Signalled'
      BY <1>4 DEF Signalled, Discharge, Activity, RequestShutdown,
                  battery, ble, signals
    <2>2. Timed'
      BY <1>4 DEF Timed, Fed, Counting, Discharge, Activity,
                  RequestShutdown, watchdog
    <2>3. QED
      BY <2>1, <2>2
  <1>5. CASE \/ Connect \/ RequestDisconnect \/ Disconnect
             \/ BleDisconnects \/ BleTakesLevel
    <2>1. Signalled'
      BY <1>5 DEF Signalled, Connect, RequestDisconnect, Disconnect,
                  BleDisconnects,
                  BleTakesLevel, battery, ble, signals
    <2>2. Timed'
      BY <1>5 DEF Timed, Fed, Counting, Connect, RequestDisconnect,
                  Disconnect,
                  BleDisconnects, BleTakesLevel, watchdog
    <2>3. QED
      BY <2>1, <2>2
  <1>6. QED
    BY <1>2, <1>3, <1>4, <1>5 DEF Surroundings

\* A round feeds the hardware watchdog, or leaves it waiting for the grace period.
LEMMA WatchStep ==
  ASSUME Signalled, Timed, Watch
  PROVE  Signalled' /\ Timed'
  <1>1. /\ unfed \in 0..WdtTicks /\ unfed <= FeedTicks /\ mode = "on"
        /\ idle' \in 0..IdleTicks
    BY PowerParts DEF Timed, Fed, Watch
  <1>2. /\ board' \in Boards /\ supply' \in Supplies /\ voltage' \in Nat /\ phone' \in BOOLEAN
        /\ activity' \in BOOLEAN
        /\ batLevel' \in 0..100 \cup {None} /\ shutdownCmd' \in Delays \cup {None}
    BY DEF Signalled, Watch, battery
  <1>3. Feed \/ \E secs \in Nat : PrepareSleep(secs)
    <2>1. CASE shutdownCmd # None
      <3>1. shutdownCmd \in Nat
        BY <2>1, PowerParts DEF Signalled
      <3>2. PrepareSleep(shutdownCmd)
        BY <2>1 DEF Watch
      <3>3. QED
        BY <3>1, <3>2
    <2>2. CASE shutdownCmd = None
      <3>1. PrepareSleep(0) \/ Feed
        BY <2>2 DEF Watch
      <3>2. QED
        BY <3>1
    <2>3. QED
      BY <2>1, <2>2
  <1>4. mode' = "on"
    BY <1>1 DEF Watch
  <1>5. CASE Feed
    <2>1. Signalled'
      BY <1>2, <1>5 DEF Signalled, Feed
    <2>2. wd' = "watch"
      BY <1>5 DEF Watch, Feed
    <2>3. Timed'
      BY <1>1, <1>4, <1>5, <2>2, PowerParts DEF Timed, Fed, Counting, Feed
    <2>4. QED
      BY <2>1, <2>3
  <1>6. ASSUME NEW secs \in Nat, PrepareSleep(secs)
        PROVE  Signalled' /\ Timed'
    <2>1. Signalled'
      BY <1>2, <1>6 DEF Signalled, PrepareSleep
    <2>2. Timed'
      BY <1>1, <1>4, <1>6, PowerParts DEF Timed, Fed, Counting, PrepareSleep
    <2>3. QED
      BY <2>1, <2>2
  <1>7. QED
    BY <1>3, <1>5, <1>6

\* Each step of the delay follows a feed, but the first, which follows the grace period.
LEMMA SleepStep ==
  ASSUME Signalled, Timed, GraceEnds \/ Countdown
  PROVE  Signalled' /\ Timed'
  <1>1. Signalled'
    BY DEF Signalled, GraceEnds, EnterSleep, Countdown, battery,
           signals, ble
  <1>2. CASE GraceEnds
    <2>1. CASE EnterSleep
      BY <1>1, <2>1 DEF Timed, Fed, Counting, EnterSleep, watchdog
    <2>2. CASE ~EnterSleep
      BY <1>1, <1>2, <2>2, PowerParts DEF Timed, Fed, Counting, GraceEnds
    <2>3. QED
      BY <1>1, <2>1, <2>2
  <1>3. CASE Countdown
    BY <1>1, <1>3, PowerParts DEF Timed, Fed, Counting, Countdown
  <1>4. QED
    BY <1>2, <1>3

\* Time takes from the timer what it adds to the hardware watchdog's count.
LEMMA TickStep ==
  ASSUME Signalled, Timed, Tick
  PROVE  Signalled' /\ Timed'
  <1>1. Signalled'
    BY DEF Signalled, Tick, battery, signals, ble
  <1>2. Timed'
    BY PowerParts DEF Timed, Fed, Counting, Tick, UpTo
  <1>3. QED
    BY <1>1, <1>2

LEMMA StepPower ==
  PowerInv /\ [PowerNext]_PowerVars => PowerInv'
  <1> SUFFICES ASSUME Signalled, Timed, [PowerNext]_PowerVars PROVE Signalled' /\ Timed'
    BY PowerApart, PTL
  <1>1. CASE UNCHANGED PowerVars
    BY <1>1 DEF Signalled, Timed, Fed, Counting, PowerVars, battery, signals,
                ble, watchdog
  <1>2. QED
    BY <1>1, SurroundingsStep, WatchStep, SleepStep, TickStep DEF PowerNext

LEMMA PowerInvariance ==
  PowerSpec => []PowerInv
  BY InitPower, StepPower, PTL DEF PowerSpec

\* A level is a percentage and a counter within its limit, whatever the voltage, the
\* commands and the length of the delays (voltage_to_level, watchdog_task_body).
THEOREM PowerTypeCorrect == PowerSpec => []PowerTypeOK
  <1>1. PowerInv => PowerTypeOK
    BY DEF PowerInv
  <1>2. QED
    BY <1>1, PowerInvariance, PTL

\* The hardware watchdog never resets a board whose tasks run, however long the delay of
\* a shutdown, if its period exceeds a round, the grace period and one step of the delay
\* together (watchdog_task_body).
THEOREM WatchdogFed == PowerSpec => []NeverStarved
  <1>1. PowerInv => NeverStarved
    BY PowerParts DEF PowerInv, PowerTypeOK, Fed, NeverStarved
  <1>2. QED
    BY <1>1, PowerInvariance, PTL

=============================================================================
