------------------------------ MODULE RadioTask ------------------------------
(***************************************************************************)
(* The LoRa task of the ESP32 board from boot to deep sleep, with the mesh *)
(* task that feeds it: the queue of frames, the gate of tx_enabled, channel*)
(* activity detection (CAD) with back-off, transmission, the return to     *)
(* reception, and the packet that woke the board, read from the SX1262     *)
(* before the radio driver is set up.  An action is what a task does       *)
(* between two awaits.                                                     *)
(***************************************************************************)
EXTENDS Naturals, Sequences

CONSTANTS
  LoraTxSize,    \* LORA_TX_QUEUE_SIZE
  MeshInSize,    \* MESH_IN_QUEUE_SIZE
  CadMaxRetries  \* CAD_MAX_RETRIES

ASSUME RadioAssumption == {LoraTxSize, MeshInSize, CadMaxRetries} \subseteq Nat \ {0}

VARIABLES
  power,        \* "on" or "asleep"
  txEnabled,    \* Channels.tx_enabled
  savedEnabled, \* tx_enabled as the configuration in flash, or the lack of one, gives it
  loraTx,       \* the number of frames in lora_tx
  sending,      \* the mesh task waits to put a frame in lora_tx
  meshIn,       \* mesh_in
  task,         \* where the LoRa task is
  cadRetries,   \* cad_retries of the frame in hand
  chip,         \* the mode of the SX1262
  buffer,       \* the packet in its buffer: none, one not read yet, one already read
  off,          \* TX is disabled, and no save or load of the configuration has lost that
  sentOff       \* transmissions begun since

mesh == <<loraTx, sending, meshIn>>
gate == <<txEnabled, savedEnabled, off>>
radio == <<task, cadRetries, chip, buffer>>
vars == <<power, gate, mesh, radio, sentOff>>

Event == {"packet", "stale", "other"}

\* Bound of the count of transmissions with TX disabled.
MaxSentOff == 2

(***************************************************************************)
(* The mesh task and the other producers of its events.                    *)
(***************************************************************************)
\* Faulty variant: no bound.
OfferUnbounded(event) == Append(meshIn, event)

\* try_send to mesh_in: dropped when it is full.
Offer(event) == IF Len(meshIn) < MeshInSize THEN Append(meshIn, event) ELSE meshIn

\* Battery and phone events.
OtherEvent ==
  /\ power = "on"
  /\ meshIn' = Offer("other")
  /\ UNCHANGED <<power, gate, loraTx, sending, radio, sentOff>>

\* An event may call for a frame: a relay, an acknowledgement, an answer.
Handle ==
  /\ power = "on" /\ ~sending
  /\ meshIn # <<>> /\ meshIn' = Tail(meshIn)
  /\ sending' \in BOOLEAN
  /\ UNCHANGED <<power, gate, loraTx, radio, sentOff>>

\* A queued relay, a retransmission or a broadcast is due.
TimerSends ==
  /\ power = "on" /\ ~sending
  /\ sending' = TRUE
  /\ UNCHANGED <<power, gate, loraTx, meshIn, radio, sentOff>>

\* lora_tx.send(frame).await: the mesh task goes no further until there is room.
Enqueue ==
  /\ power = "on" /\ sending
  /\ loraTx < LoraTxSize /\ loraTx' = loraTx + 1
  /\ sending' = FALSE
  /\ UNCHANGED <<power, gate, meshIn, radio, sentOff>>

\* save_config erases the sector and writes the whole configuration: the old one stays if
\* the erase fails; a write that fails or is cut leaves none, or one without tx_enabled,
\* and then the default holds, which is enabled.
AfterSave(enabled) == {savedEnabled, TRUE, enabled}

\* The transmissions counted end with the gate, or the flash, that forbade them.
StillOff(closed) == off' = closed /\ sentOff' = IF closed THEN sentOff ELSE 0

\* SetConfig of the LoRa section: the gate at once, then the flash; a failure is logged.
SetTxEnabled(enabled) ==
  /\ power = "on" /\ ~sending
  /\ meshIn # <<>> /\ meshIn' = Tail(meshIn)
  /\ txEnabled' = enabled
  /\ savedEnabled' \in AfterSave(enabled)
  /\ StillOff(~(txEnabled' \/ savedEnabled'))
  /\ UNCHANGED <<power, loraTx, sending, radio>>

\* SetOwner, SetChannel and SetConfig of another section save the same sector.
SaveSettings ==
  /\ power = "on" /\ ~sending
  /\ meshIn # <<>> /\ meshIn' = Tail(meshIn)
  /\ savedEnabled' \in AfterSave(txEnabled)
  /\ StillOff(~(txEnabled \/ savedEnabled'))
  /\ UNCHANGED <<power, txEnabled, loraTx, sending, radio>>

\* A factory reset erases it, if the erase succeeds, and reboots (Reset) in two seconds;
\* until then the gate is as it was.
FactoryReset ==
  /\ power = "on" /\ ~sending
  /\ meshIn # <<>> /\ meshIn' = Tail(meshIn)
  /\ savedEnabled' \in {savedEnabled, TRUE}
  /\ StillOff(~(txEnabled \/ savedEnabled'))
  /\ UNCHANGED <<power, txEnabled, loraTx, sending, radio>>

(***************************************************************************)
(* Transmission.                                                           *)
(***************************************************************************)
\* A frame ends a reception in progress.
TakeFrame ==
  /\ task = "select" /\ loraTx > 0 /\ txEnabled
  /\ loraTx' = loraTx - 1
  /\ task' = "cad" /\ cadRetries' = 0
  /\ UNCHANGED <<power, gate, sending, meshIn, chip, buffer, sentOff>>

\* With TX disabled frames are dropped, all those waiting in one run of the task, so that
\* the queue does not hold up the mesh task.
DropFrames ==
  /\ task = "select" /\ loraTx > 0 /\ ~txEnabled
  /\ loraTx' = 0
  /\ UNCHANGED <<power, gate, sending, meshIn, radio, sentOff>>

\* The channel was busy too often, or CAD cannot be prepared: transmit all the same.
SkipCad ==
  /\ task = "cad"
  /\ task' = "prepare" /\ chip' = "standby"
  /\ UNCHANGED <<power, gate, mesh, cadRetries, buffer, sentOff>>

StartCad ==
  /\ task = "cad" /\ cadRetries < CadMaxRetries
  /\ task' = "sensing" /\ chip' = "cad"
  /\ UNCHANGED <<power, gate, mesh, cadRetries, buffer, sentOff>>

\* The channel is free, or CAD failed.
CadFree ==
  /\ task = "sensing"
  /\ task' = "prepare" /\ chip' = "standby"
  /\ UNCHANGED <<power, gate, mesh, cadRetries, buffer, sentOff>>

\* Faulty variant: a busy channel is not counted.
CadBusyUncounted ==
  /\ task = "sensing"
  /\ task' = "backoff" /\ chip' = "standby"
  /\ UNCHANGED <<power, gate, mesh, cadRetries, buffer, sentOff>>

CadBusy ==
  /\ task = "sensing"
  /\ cadRetries' = cadRetries + 1
  /\ task' = "backoff" /\ chip' = "standby"
  /\ UNCHANGED <<power, gate, mesh, buffer, sentOff>>

BackoffEnds ==
  /\ task = "backoff" /\ task' = "cad"
  /\ UNCHANGED <<power, gate, mesh, cadRetries, chip, buffer, sentOff>>

StartTx ==
  /\ task = "prepare"
  /\ task' = "transmitting" /\ chip' = "tx"
  /\ sentOff' = IF off /\ sentOff < MaxSentOff THEN sentOff + 1 ELSE sentOff
  /\ UNCHANGED <<power, gate, mesh, cadRetries, buffer>>

\* prepare_for_tx fails: the frame is dropped.
PrepareTxFails ==
  /\ task = "prepare" /\ task' = "return"
  /\ UNCHANGED <<power, gate, mesh, cadRetries, chip, buffer, sentOff>>

\* lora.tx() returns, with the frame sent or an error that is only logged.
TxEnds ==
  /\ task = "transmitting"
  /\ task' = "return" /\ chip' = "standby"
  /\ UNCHANGED <<power, gate, mesh, cadRetries, buffer, sentOff>>

\* A utilization report goes along with a transmission or a reception when one is due.
Reports(events) == meshIn' \in {events, IF Len(events) < MeshInSize
                                          THEN Append(events, "other") ELSE events}

\* prepare_for_rx after a transmission: a failure is left to the next reception.
ReturnToRx(ok) ==
  /\ task = "return" /\ task' = "select"
  /\ chip' = IF ok THEN "rx" ELSE chip
  /\ Reports(meshIn)
  /\ UNCHANGED <<power, gate, loraTx, sending, cadRetries, buffer, sentOff>>

(***************************************************************************)
(* Reception.                                                              *)
(***************************************************************************)
\* A packet that does not fit in mesh_in is dropped; an invalid frame is too.
Receive ==
  /\ task = "select" /\ chip = "rx"
  /\ buffer' = "old"
  /\ Reports(meshIn) \/ Reports(Offer("packet"))
  /\ UNCHANGED <<power, gate, loraTx, sending, task, cadRetries, chip, sentOff>>

\* Nothing woke the loop for SILENT_CHANNEL_REPORT_INTERVAL.
SilentChannel ==
  /\ task = "select" /\ chip = "rx"
  /\ meshIn' = Offer("other")
  /\ UNCHANGED <<power, gate, loraTx, sending, radio, sentOff>>

\* Faulty variant: the error is logged and the loop goes on.
RxErrorIgnored(ok) ==
  /\ task = "select" /\ loraTx = 0
  /\ UNCHANGED vars

\* lora.rx() fails, at once if the radio is not set up to receive: prepare_for_rx again.
RxError(ok) ==
  /\ task = "select" /\ loraTx = 0
  /\ chip' = IF ok THEN "rx" ELSE "standby"
  /\ UNCHANGED <<power, gate, mesh, task, cadRetries, buffer, sentOff>>

(***************************************************************************)
(* Sleep and boot.  What the tasks hold is lost; flash, the chip and its   *)
(* buffer are not, until the radio driver resets the chip.                 *)
(***************************************************************************)
\* Faulty variant: the gate is left as Channels::new sets it.
BootOpen(start, saved) ==
  /\ power' = "on" /\ task' = start
  /\ savedEnabled' = saved
  /\ txEnabled' = TRUE /\ StillOff(~saved)
  /\ loraTx' = 0 /\ sending' = FALSE /\ meshIn' = <<>> /\ cadRetries' = 0

\* main: the gate follows the loaded configuration before the LoRa task starts, or the
\* default if the flash cannot be read.
Boot(start, saved) ==
  /\ power' = "on" /\ task' = start
  /\ savedEnabled' = saved
  /\ \E read \in BOOLEAN :
       /\ txEnabled' = (read => saved)
       /\ StillOff(read /\ ~saved)
  /\ loraTx' = 0 /\ sending' = FALSE /\ meshIn' = <<>> /\ cadRetries' = 0

\* A software reset, a panic or a power cut.
Reset ==
  /\ power = "on"
  /\ Boot("init", savedEnabled)
  /\ UNCHANGED <<chip, buffer>>

\* A reset in the middle of a save.
ResetTorn ==
  /\ power = "on" /\ ~sending /\ meshIn # <<>>
  /\ \E enabled \in BOOLEAN : \E saved \in AfterSave(enabled) : Boot("init", saved)
  /\ UNCHANGED <<chip, buffer>>

\* enter_sleep, called by the watchdog task whatever the LoRa task is at.
Sleep ==
  /\ power = "on" /\ power' = "asleep"
  /\ task' = "asleep"
  /\ UNCHANGED <<gate, mesh, cadRetries, chip, buffer, sentOff>>

\* DIO1 rises: a packet, a preamble that was none, or the end of what the chip was at.
WakeByRadio ==
  /\ power = "asleep" /\ chip # "standby"
  /\ Boot("wake", savedEnabled)
  /\ \/ /\ chip = "rx"
        /\ chip' = "standby" /\ buffer' = "new"
     \/ /\ chip = "rx"
        /\ UNCHANGED <<chip, buffer>>
     \/ /\ chip \in {"cad", "tx"}
        /\ chip' = "standby" /\ UNCHANGED buffer

WakeByButton ==
  /\ power = "asleep"
  /\ Boot("init", savedEnabled)
  /\ UNCHANGED <<chip, buffer>>

\* read_wake_packet fails or finds nothing: a receive timeout, an empty buffer, an error.
NoWakePacket ==
  /\ task = "wake" /\ task' = "init"
  /\ UNCHANGED <<power, gate, mesh, cadRetries, chip, buffer, sentOff>>

\* It reads what the buffer holds.  A chip still receiving is given four seconds, and
\* the buffer is read even when they pass without RxDone.
ReadWakePacket ==
  /\ task = "wake" /\ task' = "init"
  /\ \E held \in {buffer} \cup (IF chip = "rx" THEN {"new"} ELSE {}) :
       /\ held # "empty"
       /\ meshIn' = Offer(IF held = "new" THEN "packet" ELSE "stale")
  /\ buffer' = "old"
  /\ UNCHANGED <<power, gate, loraTx, sending, cadRetries, chip, sentOff>>

\* LoRa::new resets the chip; then the modem is set up and put into reception.
InitRadio ==
  /\ task = "init" /\ task' = "select"
  /\ chip' = "rx" /\ buffer' = "empty"
  /\ UNCHANGED <<power, gate, mesh, cadRetries, sentOff>>

-----------------------------------------------------------------------------
Init ==
  /\ power = "on"
  /\ savedEnabled \in BOOLEAN /\ txEnabled = savedEnabled /\ off = ~savedEnabled
  /\ loraTx = 0 /\ sending = FALSE /\ meshIn = <<>>
  /\ task = "init" /\ cadRetries = 0 /\ chip = "standby" /\ buffer = "empty"
  /\ sentOff = 0

Mesh ==
  \/ Handle \/ TimerSends \/ Enqueue \/ OtherEvent
  \/ \E enabled \in BOOLEAN : SetTxEnabled(enabled)
  \/ SaveSettings \/ FactoryReset

Transmit ==
  \/ TakeFrame \/ DropFrames \/ SkipCad \/ StartCad \/ CadFree \/ CadBusy \/ BackoffEnds
  \/ StartTx \/ PrepareTxFails \/ TxEnds
  \/ \E ok \in BOOLEAN : ReturnToRx(ok)

Listen == Receive \/ SilentChannel \/ \E ok \in BOOLEAN : RxError(ok)

PowerCycle ==
  \/ Reset \/ ResetTorn \/ Sleep \/ WakeByRadio \/ WakeByButton
  \/ NoWakePacket \/ ReadWakePacket \/ InitRadio

Next == Mesh \/ Transmit \/ Listen \/ PowerCycle

\* The LoRa task runs, the mesh task puts its frame in the queue once there is room, and
\* a radio asked again and again to receive obeys in the end.
Fairness ==
  /\ WF_vars(Transmit)
  /\ WF_vars(NoWakePacket \/ ReadWakePacket \/ InitRadio)
  /\ WF_vars(Enqueue)
  /\ SF_vars(ReturnToRx(TRUE))
  /\ SF_vars(RxError(TRUE))

Spec == Init /\ [][Next]_vars /\ Fairness

-----------------------------------------------------------------------------
\* The state of the task, the queues and the chip.
TypeOK ==
  /\ power \in {"on", "asleep"} /\ task \in {"wake", "init", "select", "cad", "sensing",
       "backoff", "prepare", "transmitting", "return", "asleep"}
  /\ {txEnabled, savedEnabled, sending, off} \subseteq BOOLEAN
  /\ loraTx \in 0..LoraTxSize
  /\ meshIn \in Seq(Event) /\ Len(meshIn) <= MeshInSize
  /\ cadRetries \in 0..CadMaxRetries
  /\ chip \in {"standby", "rx", "cad", "tx"} /\ buffer \in {"empty", "new", "old"}
  /\ sentOff \in 0..MaxSentOff

\* Once TX is disabled and the flash says so, at most the frame already in the task's hands
\* goes on the air, across resets and sleeps: the gate is read when a frame is taken, not
\* when it is sent.  It holds until TX is enabled, and no longer than the flash is sound:
\* save_config erases before it writes, so that a failed or interrupted save of any
\* setting, an erased configuration or a failed read at boot enables TX (DeviceState::new).
OffMeansOff == sentOff <= 1

\* A full lora_tx never holds the mesh task for good: the radio takes frames however
\* busy the channel is.
MeshMoves == sending ~> (~sending \/ power = "asleep")

\* The radio comes back to reception after every transmission, failure and boot.
ListensAgain == (power = "on") ~> (chip = "rx" \/ power = "asleep")

=============================================================================
