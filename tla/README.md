# Verification of the Meshtastic node firmware

TLA+ models of `meshtastenstein-core` and of the board tasks that run it, model-checked with TLC
and, where the statement is worth having for every size, proved with TLAPS. Paths below are
relative to `src/meshtastenstein-core/src/` unless they start with `boards/` or `README.md`, the
repository's own.

## The system

One Embassy executor runs a task per concern; the tasks share nothing but the queues and signals
of `inter_task/channels.rs`.

| Component | State it keeps | Operations | Correct when |
|---|---|---|---|
| Mesh router, `domain/router.rs` | duplicate ring (200), opaque seen-set (32) | filter a received packet, decide a relay, learn a route, retransmit | a packet is accepted once while it is remembered, relayed once, with the hops it has left |
| Radio dispatch, `domain/handlers/from_radio` | rebroadcast queue (8), want_ack table (8), NodeDB | own packet, authentication, filter, portnum handlers, ACK, relay | unauthenticated traffic changes no authenticated state; every scheduled relay is sent or cancelled for a reason |
| Phone requests, `domain/handlers/from_app` | `ble_connected`, want_ack table | send a packet, configuration exchange, replay, admin | each tracked packet gets one true result; an exchange ends with its own completion |
| Mesh event loop, `tasks/mesh_task.rs` | deadlines, NodeDB flush, deferred reboot | select over events and timers | no timer or event starves; nothing it waits for waits for it |
| Message store, `adapters/generic_nvs_storage.rs` | ring of 10 frames in RAM and flash | add, peek, pop, load | survives resets; no frame is replayed twice, failed writes of its slot apart |
| Node database, `domain/node_db.rs` | 96 nodes, dirty flag, snapshot of 42 | touch, prune, snapshot, restore | a flush persists what the dirty flag announces |
| Admin, `domain/handlers/admin` | session passkey, configuration | get, set, reboot, factory reset | a setting holds until it is changed, and what was erased stays erased |
| BLE task, `boards/*/src/tasks/ble_task.rs` | connection, one buffered FromRadio, bond | advertise, connect, read, write, disconnect | a connection reads only its own answers, in order; the mesh task knows whether a phone is there |
| Keys and DMs, `domain/crypto_pkc.rs`, `domain/tx.rs`, `from_radio` | key pair, the keys of others in the NodeDB | seal, open, refuse, exchange NodeInfo | a DM is taken once; a text is taken only sealed for the recipient; everyone comes to know the present keys |
| Periodic broadcasts, `domain/handlers/periodic.rs` | time of the last NodeInfo | broadcast, throttle | a new key becomes known without anybody asking |
| LoRa task, `drivers/lora_task_body.rs`, `drivers/sx1262_direct.rs` | radio mode, transmit gate, frame in hand | transmit after carrier sense, receive, wake-up packet | a gated frame is never sent; the radio listens again after whatever happens; nobody waits for it for ever |
| Watchdog, `tasks/watchdog_task_body.rs` | last activity, countdown | feed, sleep | the hardware watchdog is fed while tasks run; the three reasons to sleep are obeyed |
| Battery, `boards/*/src/tasks/battery_task.rs`, `domain/battery.rs` | last voltage | sample, convert to a level | a low battery is seen as low |
| LEDs, radio tables, ciphers, encoding | | | not behaviour a model checker reaches |

Interactions: every event reaches the mesh task through `mesh_in` (16). Frames leave it through
`lora_tx` (5) and `ble_tx` (64); some of those sends wait for room and some drop. Signals
(`activity`, `bat_level`, `shutdown_cmd`, `radio_stats`) keep the last value only.

What is hard: duplicates of one packet in any order while its rebroadcast waits; the two
seen-sets sharing a queue; acknowledgements racing retries; resets between and inside flash
writes, and writes that fail and are only logged;
bounded queues whose producers wait for each other; connections that outlive or miss their
queued messages; state persisted on a timer; sleep that strikes any task at any point; signals
with two readers; keys that change while messages and answers are on their way. `PROJECT.json`
lists these hazards at their lines.

## Modules

| Module | Models |
|---|---|
| `MeshRouter` | the methods of `MeshRouter` as operators on values; no state |
| `SeenWindow` | abstract: a window of the last accepted packets |
| `PacketHistory`, `PacketHistoryProofs` | the duplicate ring as state; refines `SeenWindow` |
| `RelayScheduler`, `RelaySchedulerProofs` | dispatch of other nodes' frames, the rebroadcast queue and its timer |
| `ReliableDelivery`, `ReliableDeliveryProofs` | `want_ack`: table, retries, acknowledgements, results for the phone |
| `MessageQueue` | abstract: a bounded queue that survives resets, and what a failed or cut write may lose |
| `MessageStore`, `MessageStoreProofs` | the message ring in RAM and flash, and its replay; refines `MessageQueue` |
| `NodeDatabase`, `NodeDatabaseProofs` | the node database, its flush and its flash sector, resets and power losses |
| `BleLink`, `BleLinkProofs` | the phone, the BLE task, the mesh task and the two queues between them |
| `RadioTask` | the LoRa task with its queues, the transmit gate, the chip, sleep and wake-up |
| `PowerCycle` | the watchdog task, the signals it shares, the battery, sleep and wake-up |
| `SecureMesh`, `SecureMeshProofs` | several nodes: their keys, NodeInfo frames and direct messages, and what reaches the phones |
| `BoardProofs` | TLAPS theorems about `RadioTask` and `PowerCycle`; as it extends both, the definitions of `PowerCycle` that any specification has are called `PowerInit`, `PowerNext`, `PowerSpec`, `PowerTypeOK` |
| `*Proofs` | TLAPS theorems about the module named first |
| `MC*` | instances for TLC |

### Conventions

A packet is one element of `Packet`, standing for its `(sender, packet_id)`. Node numbers appear
only as the last byte the header carries, 0 meaning unset. One task owns the router, the queues
and the store, and its handlers do not interleave, so a handler is one step; only flash writes,
which a reset can separate, are steps of their own. A deadline is a number of ticks left that
stops at 0, because an expired timer may be served late. Definitions called *faulty variant* are
used by no specification: each is a plausible bug in the definition that follows it, and the
`mutants` of `PROJECT.json` say which property notices it.

### PacketHistory

`Filter` is one call of `should_filter_received`: the verdict it returns and the ring it leaves.
Any packet may come with any hop limit, relayer and queued rebroadcast, more than the dispatcher
produces. A ring slot is `NoRecord` or a record; the relayers of a record are a set, because the
code never reads their order. `Window` reads the ring from its oldest slot; `ImplementsSeenWindow`
says that this is a FIFO of the accepted packets that duplicates never disturb, and that the caller is
told "new" of exactly the packets outside it (`told` of `SeenWindow` is the verdict).

### RelayScheduler

`Receive*` are the branches of `from_radio::dispatch` for a frame of another node, up to the
queue they leave behind; `Schedule` is `schedule_rebroadcast` with its eviction. The duplicate
ring is represented by its window, which `PacketHistory` justifies. Portnum handlers, NodeDB,
phone and ACK change none of this state. A packet on a private channel decodes only while the
device has the key, which `SetChannel` gives and takes: such a packet can pass through both
seen-sets. Fairness: time passes, and each place of the queue is served when due. The select of
`next_event` prefers `mesh_in`, but a frame takes far longer to arrive than to dispatch, so
`mesh_in` is empty again and again.

### ReliableDelivery

`SendWantAck` is the tail of `transmit_from_ble_packet`, `HearOwnPacket` the first branch of
`dispatch`, `HearAnswer` the routing handler, `TickRetransmissions` the timer branch of
`next_event` with the reports it makes. The destination and the channel are the environment: any
copy sent may arrive late, repeatedly or never, and a first copy is acknowledged once. Every
received frame postpones all deadlines; `MaxRx` bounds those frames. Fairness is on time and on
the timer only.

### MessageStore

`Add` and `Pop` change the RAM ring; `PersistSlot` and `PersistHeader` are the two writes that
follow, `PersistSlotFails` and `PersistHeaderFails` the same with a write that fails: the code logs
it and goes on, so that RAM and flash differ and a popped frame is sent all the same. `Reset` boots
from the flash as it is, `ResetTorn` from what a write cut by the reset has left.

What a write leaves is a parameter. The ESP32 shim goes through `Storage::write`
(`boards/esp32/src/adapters/nvs_storage_adapter.rs:48`), which reads the sector, erases it and writes
it back: a whole write replaces, and a part (`PartOfSector`) is a blank sector or the header with
some slots, the last perhaps half written, and erased ones behind. `nrf_mpsl::Flash` is used as
it is, and NOR flash only clears bits; a part (`PartOfWords`) has some words changed. The first header
may fail to be written too (`Initialised`). Reads do not fail, and an erase is done or not done.

`replayed` counts the sends to the phone since the boot, `before` says which frames were sent
earlier, `unstruck` which frames a pop could not invalidate in the flash; `failed` and `damaged` say
that a write has failed since the boot, or has failed or was cut at any time. A popped frame that
does not decode (a direct message under PKC, for instance) or meets a full `ble_tx` is dropped.

`Contents` reads a ring from its tail. A reset between the two writes of `pop` leaves an invalid
slot at the tail that is still counted: `peek` fails there, and the frames behind it are kept but not
replayed until new frames have pushed the tail past it. `RingSound` says that head, tail and count
never contradict each other, whatever fails or is cut, and that before the first failed or cut write
a replay can be stopped nowhere but at the tail. `ReplayedOnce` says what is left of the comment of
`pop`: no frame is sent twice in one boot, and a reboot brings back only a frame whose slot could
not be written. The refinement (`ImplementsMessageQueue`) allows what the code does: a reset can
undo the operation it interrupts, or leave the hole at the front, or, when it interrupts an add to
a full ring, find the new frame where the oldest one was; a cut write can lose frames in place or
all of them; after a failed write the queue in RAM goes on in order, and what a reset will find is
anything.

### NodeDatabase

Every receive action is a whole handler: `touch`, then what the port does with the entry; every
admin action is the handler of that command. `Loop` is the turn of the mesh task's loop behind a
handler: the debounced flush, then a shutdown or a reboot. A save is an `Erase` and a `Write`,
because either can fail and the power can go between them or inside the write, which leaves some
records and perhaps one cut short (`Torn`). An entry is the set of facts known of a node; routes
stand for what is stored without asking for a flush, positions for what is never stored. The
order of a snapshot is arbitrary, as `last_heard` is always 0. `PowerLost` is a power cut at any
point and also the watchdog's sleep on a low battery or inactivity: the README's "pre-sleep NodeDB
flush" (`README.md:266`) does not exist, and what waits for the debounce is lost. `detached` and
`forgotten` only record what resets did. `CleanMeansSaved` excludes the time between a reset of
one copy and the next save or start. Fairness: the heartbeat ticks, the task and the clock go on,
and a flash tried again and again does not fail for ever.

### BleLink

An action is what a task does between two awaits: all tasks share one cooperative executor. The
mesh task holds an admin answer while `ble_tx` is full (`waiting`), the BLE task a written request
while `mesh_in` is full (`writing`); the other sends drop. `Handle` is `dispatch` for one event.
A radio packet stands for the messages it may queue: node updates always, its own forward only
with `bleConnected`. A config exchange is one step, since nothing in it yields: its parts, the
completion last, and behind it what `replay_satellite_db` knows of other nodes. `phase` is the
position of the BLE task. The two boards differ in two actions each: the ESP32 task empties
`ble_tx` when it advertises (`AdvertiseEsp32`) and rebuilds its stack when the host runner ends
(`RunnerFailsEsp32`, `Restart`); the nRF52 task does neither (`AdvertiseNrf52`,
`RunnerFailsNrf52`), and `failed` is where it stays.
A phone may write, read and subscribe from the moment it is connected, as no characteristic
demands encryption. It may go away whenever the BLE task listens, which covers `disconn_cmd`.
A read whose reply fails is a disconnection before the read. Bonds and battery levels are left
out. `seen` and `linkDropped` record what the phone got and whether the last link event was lost.
Fairness: the executor polls woken tasks, and the app reads while it is connected; no phone
has to connect and no host runner has to fail.

### RadioTask

`task` is the place of the LoRa task in its loop, `chip` the mode of the SX1262, which outlives the
task: deep sleep and resets take the program away and leave the chip as it is, until `LoRa::new`
resets it (`InitRadio`). Frames in `lora_tx` are counted, not named. The mesh task is what it does
to the queues: it takes an event, may owe a frame, and goes no further until the frame is in
`lora_tx` (`sending`). `SetTxEnabled` is `SetConfig` of the LoRa section, `SaveSettings` any other
handler that saves the same sector, `FactoryReset` the one that erases it. `save_config` erases the
sector and then writes, so a save that fails, or that a reset cuts (`ResetTorn`), leaves the old
configuration, the new one or none (`AfterSave`), and no configuration means that TX is enabled, as
does one that cannot be read at boot (`Boot`). `savedEnabled` is what a boot would find, `off` that
TX is disabled in the gate and in the flash, and `sentOff` counts the transmissions begun since
then. Errors of the driver are outcomes of the same action. `Sleep` may strike anywhere, as the
watchdog asks no task; a chip in standby is then deaf, and only the button wakes the board.
`read_wake_packet` (`ReadWakePacket`) may hand over a packet already handled before the sleep. The
nRF52 board has the same loop and no wake-up packet; its behaviours are among these. Fairness: the
task runs; a radio asked again and again to receive obeys in the end, which only `ListensAgain`
needs. Nothing is assumed of the channel: it may be busy at every CAD.

### PowerCycle

A tick is the 500 ms of the feed interval. `Watch` is a round of the watchdog's loop, with the
order in which it looks at the shutdown command, the battery and the inactivity; `PrepareSleep`,
`GraceEnds` and `Countdown` are the way to sleep. A `Signal` is its last value or `None`.
`bat_level` has two readers, and so has `BleTakesLevel` besides `Watch`. `VoltageToLevel` is the
firmware's table. A task whose timer is due runs before the next tick: the executor never blocks.
The hardware watchdog counts in `unfed`; it stands at its limit rather than resetting the board,
since `NeverStarved` is about never getting there. A wake-up is a boot (`Wake`).
Fairness: timers run, woken tasks run, the battery task samples.

### SecureMesh

A key is a generation of a node's key pair, so that "the tag fits" is equality of generations and a
stolen or guessed key does not exist. A frame of a direct message (DM) is sealed for a pair of keys,
or under a channel key that every node has; there it is a `TextMessageApp` or another portnum that
is left to the phone (`Port`), because the code treats the two differently: the first is refused
(`domain/handlers/from_radio/mod.rs:245`), the others, compressed texts among them, are taken
(`Readable`). A frame once sent may arrive at any time, any number of times or never, which covers
retries, relays and losses; the sender's retry table is in `ReliableDelivery`. An older NodeInfo of
a node that is still on its way is lost when a newer one is sent. `SendSealed` and `SendUnderPsk`
are the two ends of `transmit_from_ble_packet`; `TakeDm`, `RefuseDm` and `DropDm` are the outcomes
of `dispatch` for a DM to this node, each with the recording that `Recorded` makes or does not make.
Taking a DM is not the phone having it: `HandOn` passes it to a connected phone, whose queue may be
full, or puts it into the flash buffer (`stored`), and `Replay` empties that buffer, passing on what
is under a channel key and dropping what is sealed, as `decode_psk_frame` cannot open it. `shown` is
what was passed to the phone since the boot. Phones come and go as they like, so a step that depends
on one may take either branch. `Forget` is the ring evicting a DM, after which a late copy counts as
new. `Reboot` comes back with any database the node may have saved (`NodeDatabase` says how it gets
there), the same key pair and the same buffer, `RebootWithNewKey` with a new key pair. Time is left
out: intervals, retries and broadcasts come when they like. The recipient of an unreadable DM
answers with its NodeInfo, but itself learns the sender's key only from the sender's next NodeInfo.
Fairness: the broadcast timer runs; a NodeInfo sent again and again arrives in the end; the air time
is not used up for ever. It is meant for roles that broadcast (not Repeater and ClientHidden, whose
interval is 0). Nothing is assumed of DMs, answers, phones and restarts.

## Runs

| Run | Shows | Bounds |
|---|---|---|
| `history` | ring type and shape, one record per packet, FIFO refinement with its verdicts | 3 packets, ring of 2 (wraps, evicts), 4 bytes, 2 relayers (a full list), hop limits 0 and 1 |
| `relay` | hop budget, one relay per packet, the queue drains, routers always relay | 3 packets for 2 places (overflow), hop limits 0 to 2, delays 0 and 1, three roles |
| `reliable` | one result, failure only after all attempts, success only if accepted, all tracked packets resolved | 3 packets for 2 places (untracked sends), 2 retries (one routed, one flood), 2 received frames, one destination without a key |
| `store` | ring consistent through failed and cut writes, before them an invalid slot at its tail only, a replay twice only after a failed slot write, queue refinement | 4 frames, interchangeable (`SYMMETRY`), ring of 2 (wraps, drops the oldest) |
| `store_nor` | without an erase the ring is lost at the first reset | 4 frames, ring of 2, NOR driver |
| `node_db` | the dirty flag means what it says, changes reach flash, a shutdown saves first, traffic costs the user no node and no choice | 2 peers and ourselves, 2 entries (full), 1 persisted (truncation), 3 changes, records cut after their first field |
| `node_db_reset` | a factory reset is undone by a flush | as `node_db` |
| `ble_link` | queue bounds, the mesh task's view of the link, no request or admin answer lost, a completion only after its whole exchange, a waiting answer moves | `mesh_in` of 2, `ble_tx` of 3, exchange of 2, 1 satellite or update behind, 2 requests, 2 connections, both boards |
| `ble_mutual_wait` | both tasks wait for each other | as `ble_link` |
| `radio` | nothing but the frame in hand is sent while gate and flash say that TX is off, the mesh task is never held for good, the radio listens again | `lora_tx` of 5 and 5 CAD retries as in the code, `mesh_in` of 3 |
| `power` | the hardware watchdog never starves, a shutdown happens, a low battery puts the board to sleep | voltages above and below the low level, delays 0 and 3 s (as long as the watchdog's 6 ticks), idle after 4 ticks, both boards |
| `secure_mesh` | a DM in the duplicate ring was taken once and no other is in it, a text reaches a phone only sealed for the present key, present keys are learned again and again | 2 nodes, 1 DM of either kind, 2 key pairs each |

Each bound is the smallest at which the case it is for happens: a ring that wraps and evicts, a
queue and a table one smaller than the packets competing for them, retries enough to tell the
routed ones from the flood, a countdown longer than the hardware watchdog's patience, a key that
has an older generation. Time constants of `power` are scaled down together; only their order
matters: feed interval below the period of the watchdog, delay not below it.

## Disagreements

Three are shown by a run that violates what a comment or document says:

- `store_nor`: the store is to survive deep sleep (`ports/storage.rs:13`); on the nRF52 the
  header can never leave its first value, and a reset without any failed write loses the messages.
- `ble_mutual_wait`: `send_admin_response` (`domain/handlers/admin/mod.rs:254`) waits where
  `push_from_radio` explains why it must not (`domain/handlers/util.rs:353-357`). With `mesh_in`
  full and the phone writing, the BLE task waits too and nothing moves again. `AnswerMoves` shows
  that this is the only way a connected, reading phone fails to free the answer.
- `node_db_reset`: a factory reset is to wipe the node database
  (`adapters/generic_nvs_storage.rs:468-469`, `README.md:728`), but it leaves the RAM copy dirty, and
  a flush due in the same turn of the loop (`tasks/mesh_task.rs:206`) writes it back before the
  reboot. A `NodedbReset` breaks the same property by a longer way: the new database is clean, so
  not even a shutdown writes it, and the old snapshot is restored at boot.

The models contain these as well; each is a step of a model, and no run asks about it:

- `README.md:130` says directed packets are relayed when `next_hop` is unset;
  `should_relay_directed` (`domain/router.rs:457`) refuses them. The flood a sender falls back to
  on its last retry is such a packet (`RelayScheduler`).
- The real outcome of a tracked packet is promised to the phone
  (`domain/handlers/from_app/mod.rs:326-331`); an overheard relay
  (`domain/handlers/from_radio/mod.rs:320`) ends the tracking silently (`HearOwnPacket`).
- `constants.rs:300-305` sizes `ble_tx` by the exchange, but node updates queue while nobody is
  connected, after the ESP32 task has emptied it (`boards/esp32/src/tasks/ble_task.rs:330`), and
  the nRF52 task never does, against `domain/handlers/from_app/mod.rs:105-106`: a first exchange
  can lose its `ConfigCompleteId` (`SendExchange`).
- `boards/esp32/src/tasks/ble_task.rs:622-625` says that a lost `BleConnected` is superseded by the
  next update. `LinkKnown` makes that precise: only the next link event does, so until the phone
  reconnects the mesh task stores messages instead of forwarding them.
- A wake-up without RxDone logs a timeout and reads the buffer all the same
  (`drivers/sx1262_direct.rs:254`): a packet handled before the sleep comes again, to a node
  whose duplicate ring is empty (`ReadWakePacket`, event "stale").
- The watchdog sleeps whatever the LoRa task is at
  (`boards/esp32/src/adapters/deep_sleep_adapter.rs:35`): in back-off the chip is in standby and
  nothing on the air wakes the board (`Sleep`).
- `bat_level` has two readers: with a phone connected the BLE task may take every low level
  before the watchdog looks (`tasks/watchdog_task_body.rs:85`), and level 0 counts as no battery
  there. `LowBatterySleeps` is stated without a phone and above 0.
- `README.md:266` promises a flush of the node database before the sleep on inactivity; nothing
  does it (`tasks/watchdog_task_body.rs:100`), nor before a reboot by admin (`PowerLost`,
  `Reboot` of `NodeDatabase`).
- A factory reset keeps the key pair (`adapters/generic_nvs_storage.rs:466-471`), where
  `boards/esp32/src/main.rs:148-151` and `boards/nrf52/src/main.rs:229-231` expect a fresh one.
- Buffered messages are delivered when the phone reconnects (`README.md:751`), and `CHANGELOG.md:179`
  reports as fixed that a `peek` that fails for ever leaves the count where it is; a reset between
  the two writes of `pop` (`adapters/generic_nvs_storage.rs:389`) still does that until the ring
  has filled (`Whole`).
- `pop` writes the slot "so the consumed message isn't replayed again after a reboot"
  (`adapters/generic_nvs_storage.rs:408`), but a failed write is only logged (lines 325 and 359) and
  the frame sent: a reboot brings it back (`PersistSlotFails`, `unstruck`).
- `domain/handlers/util.rs:390` says that PKC frames are not stored for replay, and `README.md:751`
  that buffered messages are delivered. A DM under PKC that arrives without a phone is recorded,
  stored (`domain/handlers/from_radio/mod.rs:538`) and acknowledged (lines 611-613), and the replay
  pops and drops it (`domain/handlers/from_app/mod.rs:613-622`): its sender is told of success, no
  phone ever gets it, and the ring refuses a second copy (`HandOn`, `Replay`).
- `README.md:738` expects a DM to a node without a known key to fall back to the channel's key; a
  DM for which the phone asks for PKC is refused instead (`domain/handlers/from_app/mod.rs:248`,
  `CanSeal`), and a text under the channel's key is refused by its recipient.
- That refusal is for `TextMessageApp` alone (`domain/handlers/from_radio/mod.rs:245`), although its
  comment begins "Reject a channel-encrypted (non-PKC) direct message": a
  `TextMessageCompressedApp`, which lines 531 and 556 treat as a text, is taken, acknowledged and
  shown under the channel's key (`Readable`).
- A transmit gate that the user closed opens by itself when a save of any setting fails after its
  erase or is cut (`adapters/generic_nvs_storage.rs:158-173`): the next boot finds no configuration and
  enables TX (`domain/device.rs:103`). `OffMeansOff` holds until then.
- A NAK counts as success, which `README.md:139` lists as known.

## Proofs

Every invariant that a passing run checks is also proved, for every value of the constants their
named assumptions allow (`RelayedOnce`, `RingSound` and the refinement of `store` under the
hypotheses given below), and so are the two action properties of `node_db` and the refinements of
`history` and `store`. So is `ResetKeepsMessages`, which `store_nor` shows violated, for a driver
that rewrites the sector. Each proof module defines the inductive invariant (`IInv`, or the parts
named below), proves that the initial states have it and that each action keeps it, and draws the
theorems. A type invariant is part of each; `Spec` includes the fairness conditions, which no proof
uses.

| Module | Theorems | Invariant or property |
|---|---|---|
| `PacketHistoryProofs` | `TypeCorrect`, `RingKeepsShape`, `PacketRecordedOnce`, `RingIsWindow` | `TypeOK`, `RingShape`, `NoDuplicateRecords`, `ImplementsSeenWindow` |
| `RelaySchedulerProofs` | `SchedulerTypeCorrect`, `FloodSpendsHops`, `RelayedOnceWhileRemembered`, `RelayedOnceWhenAllFit` | `TypeOK`, `HopBudget`, `RelayedOnce` (twice) |
| `ReliableDeliveryProofs` | `DeliveryTypeCorrect`, `PhoneToldOnce`, `FailureOnlyAfterRetries`, `SuccessIsTrue` | `TypeOK`, `OneResult`, `FailureAfterAllAttempts`, `SuccessMeansAccepted` |
| `MessageStoreProofs` | `StoreTypeCorrect`, `NeverReplayedTwice`, `RingStaysSound`, `ResetsKeepMessages`, `StoreImplementsQueue` | `TypeOK`, `ReplayedOnce`, `RingSound`, `ResetKeepsMessages`, `ImplementsMessageQueue` |
| `NodeDatabaseProofs` | `DatabaseTypeCorrect`, `CleanIsSaved`, `ShutdownSaves`, `TrafficSparesChoices` | `TypeOK`, `CleanMeansSaved`, `ShutdownSavesFirst`, `TrafficKeepsChoices` |
| `BleLinkProofs` | `LinkTypeCorrect`, `LinkIsKnown`, `NoRequestLost`, `CompletionIsTrue` | `TypeOK`, `LinkKnown`, `RequestKept`, `CompletionMeansWhole` |
| `BoardProofs` | `RadioTypeCorrect`, `DisabledStaysSilent`, `PowerTypeCorrect`, `WatchdogFed` | `TypeOK` and `OffMeansOff` of `RadioTask`, `PowerTypeOK` and `NeverStarved` of `PowerCycle` |
| `SecureMeshProofs` | `MeshTypeCorrect`, `TakenOnceWhileRemembered`, `TextsReachPhonesSealed` | `TypeOK`, `TakenOnce`, `TextsSealed` |

**PacketHistory.** No duplicate record is not inductive alone: a push is safe only because
`find_record` scans the slots below `count`, and those are the used ones. The invariant is the
conjunction of type, shape and uniqueness (`PushSound`, `TouchSound`, `StepSound`). The refinement
rests on it. `WindowOf` reads a ring from its oldest slot; `SlotUsed` and `SlotReached` say that
this reading meets the used slots and no others, `WindowMembers` that what `find_record` finds is
what is in the window, `WindowTouched` that a duplicate leaves the window alone, and
`WindowPushed` that a push appends and, in a full ring, drops the first (`NextPlace` is the
arithmetic of the wrapping head). `StepWindow` maps each call to `Accept`, `Repeat` or a stutter.

**RelayScheduler.** `HopBudget` is inductive with the type. `RelayedOnce` needs more: a queued or
relayed packet is remembered (`Remembered`), waits in one place (`OnePlace`) and in none once
relayed (`NotAgain`). `Remembered` fails when the duplicate ring displaces a packet whose relay is
still queued or done, and so does the property: the ring is what keeps a packet from being relayed
again. The theorem therefore comes twice. `RelayedOnceWhileRemembered` is about the behaviours in
which no step displaces a packet (`[][Members \subseteq Members']_vars`), whatever the ring size;
`RelayedOnceWhenAllFit` needs no such hypothesis when there are no more packets than ring slots,
as in the run. It adds that the window has no packet twice (`Distinct`): by the pigeonhole
principle a full window then holds every packet, and a new one finds room.

**ReliableDelivery.** The sum of attempts made and left is constant for a pending packet, of which
the phone has heard nothing (`Attempts`); a packet is pending in one place (`OnePlace`), so an
answer resolves all of it; nothing is known of a packet not sent (`Unsent`); a result is one of
three sequences (`Outcomes`); answers about a readable packet are true acknowledgements
(`Honest`). Each received frame moves a deadline by one tick, which bounds it (`DueBounded`).

**MessageStore.** The frame in the hands of a pop has left the RAM, and the flash but for the slot
about to be written (`TakenGone`), unless that write failed; a frame has one place (`OnePlace`); what
is stored or replayed arrived (`OnlyArrived`); what was sent is in neither copy unless its slot
could not be written (`SentGone`). A write, whole, failed or cut, puts into each slot what was there,
what it was to write, or no frame (`Between`, `PartIs`), so no step brings a frame to a place where
it was not. `DriverAssumption` says what both boards' drivers do to a header and a slot and, for one
that rewrites the sector, that it replaces them; TLC evaluates it for the drivers of the two runs.

The other three theorems have `RewritesSector` as hypothesis, that is the ESP32 board; on the nRF52
board head, tail and count may be the remains of two headers. They are stated in the presence of
failing and cut writes, and say what these leave. The invariant (`SInv`) says that the headers agree
and, while no write has failed since the boot, how far RAM and flash are apart (`UnderWay`). Between
operations the headers and the counted slots are the same in both. During an operation they differ
in the slot it writes, and the header in RAM is that of the flash after one `Added` or `Popped`
(`AddedAt`, `TakenAt`). So a reset finds the ring as it was, the ring as it should be, or one of
them with that slot written; a cut write leaves one of these with slots lost in place, or nothing
(`PartShows`). What each is as a queue is a matter of the operators alone: `Contents` and its
recursion-free `Window` (`WindowTail`, `WindowAppend`, `WindowTurned`), an add (`ContentsAdded`), a
pop (`ContentsPopped`), a write outside the counted slots (`ContentsSame`). `StoreStep` maps every
step of the store to one of `MessageQueue`: an `Add` to an `Add`, a `Pop` to a `Take`,
`PersistHeader` to `Persist`, `PersistSlot` to `Mark`, a failed write and what follows it to
`Spoil`, a reset to a `Reset` or, in a write, to a `ResetTorn`, and the ends of a replay to
stutters. The hole at the tail needs a second invariant (`WInv`): until a first write fails or is
cut, every counted slot but the one at the tail holds a frame in both copies, and an operation that
may move the tail finds frames only.

**NodeDatabase.** A clean database is a saved one only because a flush starts dirty and nothing
but its last write cleans it (`SavingMeansDirty`). `ShutdownSaves` follows from that invariant,
`TrafficSparesChoices` from lemmas about the operations on a table alone. The snapshot holds no
more records than the table has places (`MaxPersisted <= MaxNodes`, 42 and 96 in the code).

**BleLink.** The last link event on its way tells the truth, or there is none and the mesh task
already knows it (`LinkTold`). The parts of an exchange are read, buffered or queued ahead of its
completion (`InOrder`), which holds because a full `ble_tx` loses the end of an exchange and never
its middle (`OfferKeeps`), and because the ESP32 task empties the queue before it accepts a
connection. Only admin answers wait (`AdminWaits`); nothing on its way concerns a request not
written yet (`Known`, `Numbered`); only the nRF52 task stops for good (`Stopped`).

**RadioTask.** TX counts as off only while neither the gate nor the flash lets a frame through
(`Gate`), which every save and every boot may end; what goes on the air after that was in the task's
hands and ends the matter (`LastFrame`). A scan that may find the channel busy is never the last one
allowed (`CadCounted`).

**PowerCycle.** What the hardware watchdog has waited and what the timer still takes stay within
the length of a round, of a round and the grace period, or of both and one step of the delay,
depending on where the task is (`Fed`); a delay that is counted down is not over (`Counting`).
`PowerAssumption` requires the period of the hardware watchdog to exceed these three together:
90 s against 2 s in the code. `LevelInRange` proves that `voltage_to_level` gives a percentage for
every voltage.

**SecureMesh.** `MeshAssumption` types the constants and says that nobody writes to himself. A frame
that opens is sealed with a key that exists, so it is never one the node refuses for want of a key
(`SealedByKeys`), and only taking a DM records it (`RecordedOnlyWhenRead`). `TakenOnce` is then
inductive with the type: taking, forgetting and restarting each change ring and count together. It is
about any number of DMs, whichever of them the ring evicts in between. For `TextsSealed` the buffer
matters as well, as it outlives a boot: nothing in it is a text under a channel's key
(`NoLegacyStored`), so the replay passes on no text at all (`ReplayKeeps`); a frame is built once,
before anything of it is stored or shown (`SendKeeps`); a new key pair comes with a new boot, which
forgets what was shown (`RestartKeeps`).

The other assumptions type the constants. Two say of constants that stand for absent values what
the code's types say: `NothingAssumption` (no message is `Nothing`) and the disjointness of frames
and empty slots in `StoreAssumption`.

Checked by TLC only are the liveness properties (`QueueDrains`, `RouterAlwaysRelays`,
`EventuallyResolved`, `ChangesReachFlash`, `AnswerMoves`, `MeshMoves`, `ListensAgain`,
`ShutdownObeyed`, `LowBatterySleeps`, `KeysConverge`): they rest on fairness, hence on `ENABLED`,
which the prover does not handle.

## Not modelled

- Radio tables, airtime and the utilisation average (`domain/radio_config.rs`): arithmetic on
  tables, in floating point. Encoding of packets and protobuf messages: no state. Ciphers are
  perfect ones in `SecureMesh`.
- The flood of one packet through several routers. `RelayScheduler` has one router against any
  behaviour of the others, byte collisions with our own included; more than two routers with
  their timers exceed TLC.
- The admin session passkey (`domain/handlers/admin/mod.rs:76`): a comparison of two times held
  by one task. The other configuration sections store a value.
- Bonds. Their rules are on the boards' side only and interact with the phone's own key store,
  which the repository does not describe. Reading them: `BondLost` marks the bond for removal at
  the end of the connection (`boards/esp32/src/tasks/ble_task.rs:404-416`), and a pairing that
  completes on the same connection does not take the mark away, so the new bond goes too, although
  `ble_task.rs:187-190` says that `bond_bytes` tracks the live bond.
- Position, NeighborInfo, telemetry and waypoint traffic beyond what it does to the node database
  and the queues; traceroute; LEDs; logging; the wiring in `main.rs` apart from the transmit gate
  and the key pair.
