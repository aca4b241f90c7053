------------------------------ MODULE BleLink ------------------------------
(***************************************************************************)
(* The phone link: the BLE task, the mesh task and the two bounded queues  *)
(* between them.  mesh_in carries events to the mesh task and ble_tx the   *)
(* FromRadio messages back.  Tasks share one cooperative executor, so a    *)
(* task runs without interruption between two awaits: an action is such a  *)
(* run.  Writes of the phone and answers to admin requests wait for room   *)
(* in their queue; every other producer drops what does not fit.           *)
(***************************************************************************)
EXTENDS Integers, Sequences, FiniteSets, SequencesExt

CONSTANTS
  MeshInSize,   \* MESH_IN_QUEUE_SIZE
  BleTxSize,    \* BLE_TX_QUEUE_SIZE
  Exchange,     \* messages of a config exchange, its ConfigCompleteId included
  MaxUpdates,   \* FromRadio messages a radio packet causes besides its own forward, and
                \* an exchange behind its completion
  MaxRequests,  \* bound: requests the phone writes in a behaviour
  MaxConn,      \* bound: connections in a behaviour
  Nothing       \* no message

ASSUME SizesAssumption ==
  /\ {MeshInSize, BleTxSize, Exchange, MaxRequests, MaxConn} \subseteq Nat \ {0}
  /\ Exchange < BleTxSize      \* BLE_TX_QUEUE_SIZE's comment
  /\ MaxUpdates \in Nat

VARIABLES
  board,        \* "esp32" or "nrf52": two BLE tasks
  meshIn,       \* mesh_in
  bleTx,        \* ble_tx
  bleConnected, \* MeshCtx.ble_connected
  waiting,      \* the admin answer the mesh task holds while ble_tx is full, or Nothing
  phase,        \* where the BLE task is
  conn,         \* the number of the last connection
  encrypted,    \* the connection is encrypted
  subscribed,   \* its phone subscribed to FromNum
  buffer,       \* from_radio_buf when from_radio_has_data, else Nothing
  seen,         \* the answers read on the connection
  writing,      \* the request the BLE task holds while mesh_in is full, or 0
  requests,     \* the requests written so far, a request being its position
  handled,      \* the requests the mesh task has taken
  linkDropped   \* the last BleConnected or BleDisconnected found mesh_in full

queues == <<meshIn, bleTx>>
mesh == <<bleConnected, waiting, handled>>
session == <<encrypted, subscribed, buffer, seen>>
ble == <<phase, conn, session, writing>>
vars == <<board, queues, mesh, ble, requests, linkDropped>>

Live == [of |-> 0, part |-> 0]
Part(r, i) == [of |-> r, part |-> i]
Completion(r) == Part(r, Exchange)
Message == [of : 0..MaxRequests, part : 0..Exchange]

ASSUME NothingAssumption == Nothing \notin Message

Frame == [kind |-> "frame", of |-> 0]
Connected == [kind |-> "connected", of |-> 0]
Disconnected == [kind |-> "disconnected", of |-> 0]
Write(r) == [kind |-> "write", of |-> r]
Event == {Frame, Connected, Disconnected} \cup {Write(r) : r \in 1..MaxRequests}

Want == {"config", "admin"}
Esp32 == board = "esp32"

(***************************************************************************)
(* The queues.                                                             *)
(***************************************************************************)
\* Faulty variant: the queue has no limit.
OfferUnbounded(queue, size, messages) == queue \o messages

\* try_send of some messages in turn: those that do not fit are dropped.
Offer(queue, size, messages) ==
  queue \o SubSeq(messages, 1, Min({size - Len(queue), Len(messages)}))

\* try_send of BleConnected or BleDisconnected to the mesh task.
Report(event) ==
  /\ meshIn' = Offer(meshIn, MeshInSize, <<event>>)
  /\ linkDropped' = (Len(meshIn) = MeshInSize)

\* The LoRa task drops a received frame that does not fit.
LoraFrame ==
  /\ meshIn' = Offer(meshIn, MeshInSize, <<Frame>>)
  /\ UNCHANGED <<board, bleTx, mesh, ble, requests, linkDropped>>

(***************************************************************************)
(* The mesh task.                                                          *)
(***************************************************************************)
\* A packet may bring NodeInfo updates, whether or not a phone is there, and is itself
\* forwarded only if one is believed to be.
HandleFrame ==
  /\ \E n \in 0..(MaxUpdates + (IF bleConnected THEN 1 ELSE 0)) :
       bleTx' = Offer(bleTx, BleTxSize, [i \in 1..n |-> Live])
  /\ UNCHANGED mesh

HandleLink(event) ==
  /\ bleConnected' = (event = Connected)
  /\ UNCHANGED <<bleTx, waiting, handled>>

\* push_own_node_info, push_node_db and the configuration, the completion last.
Parts(r) == [i \in 1..Exchange |-> Part(r, i)]

\* replay_satellite_db: positions and batteries of other nodes, as if they had just come.
Satellites(n) == [i \in 1..n |-> Live]

\* send_config_exchange and send_nodeinfo_exchange: all messages at once.
SendExchange(r) ==
  /\ \E n \in 0..MaxUpdates :
       bleTx' = Offer(bleTx, BleTxSize, Parts(r) \o Satellites(n))
  /\ UNCHANGED waiting

\* Faulty variant: the answer is dropped when ble_tx is full.
SendAdminResponseOrDrop(r) ==
  /\ bleTx' = Offer(bleTx, BleTxSize, <<Completion(r)>>)
  /\ UNCHANGED waiting

\* send_admin_response: the answer, a message of one part, waits for room.
SendAdminResponse(r) ==
  /\ IF Len(bleTx) < BleTxSize
       THEN bleTx' = Append(bleTx, Completion(r)) /\ UNCHANGED waiting
       ELSE waiting' = Completion(r) /\ UNCHANGED bleTx

HandleRequest(r) ==
  /\ CASE requests[r].want = "config" -> SendExchange(r)
       [] requests[r].want = "admin" -> SendAdminResponse(r)
  /\ handled' = handled \cup {r}
  /\ UNCHANGED bleConnected

Handle ==
  /\ waiting = Nothing
  /\ meshIn # <<>> /\ meshIn' = Tail(meshIn)
  /\ LET event == Head(meshIn) IN
       CASE event.kind = "frame" -> HandleFrame
         [] event.kind = "write" -> HandleRequest(event.of)
         [] OTHER -> HandleLink(event)
  /\ UNCHANGED <<board, ble, requests, linkDropped>>

\* Room in ble_tx wakes the mesh task.
Resume ==
  /\ waiting # Nothing /\ Len(bleTx) < BleTxSize
  /\ bleTx' = Append(bleTx, waiting)
  /\ waiting' = Nothing
  /\ UNCHANGED <<board, meshIn, bleConnected, handled, ble, requests, linkDropped>>

(***************************************************************************)
(* The BLE task.  The phone ends a connection whenever it likes, which     *)
(* covers the disconnect command of the mesh task and of the watchdog.     *)
(***************************************************************************)
CloseSession ==
  encrypted' = FALSE /\ subscribed' = FALSE /\ buffer' = Nothing /\ seen' = {}

\* Faulty variant: what the last connection left is kept.
AdvertiseKeepingQueue ==
  /\ Esp32 /\ phase = "starting" /\ phase' = "accepting"
  /\ UNCHANGED <<board, queues, mesh, conn, session, writing, requests, linkDropped>>

\* The ESP32 task empties ble_tx once advertising has started, before it waits for a phone ...
AdvertiseEsp32 ==
  /\ Esp32 /\ phase = "starting" /\ phase' = "accepting"
  /\ bleTx' = <<>>
  /\ UNCHANGED <<board, meshIn, mesh, conn, session, writing, requests, linkDropped>>

\* ... the nRF52 task does not.
AdvertiseNrf52 ==
  /\ ~Esp32 /\ phase = "starting" /\ phase' = "accepting"
  /\ UNCHANGED <<board, queues, mesh, conn, session, writing, requests, linkDropped>>

AcceptFails ==
  /\ phase = "accepting" /\ phase' = "starting"
  /\ UNCHANGED <<board, queues, mesh, conn, session, writing, requests, linkDropped>>

Accept ==
  /\ phase = "accepting" /\ phase' = "connected"
  /\ conn < MaxConn /\ conn' = conn + 1
  /\ UNCHANGED <<board, queues, mesh, session, writing, requests, linkDropped>>

\* The event loop of the connection runs: it is not waiting for room in mesh_in.
Serving == phase = "connected" /\ writing = 0

Encrypt ==
  /\ Serving
  /\ encrypted' = TRUE
  /\ Report(Connected)
  /\ UNCHANGED <<board, bleTx, mesh, phase, conn, subscribed, buffer, seen, writing, requests>>

Subscribe ==
  /\ Serving
  /\ subscribed' = ~subscribed
  /\ UNCHANGED <<board, queues, mesh, phase, conn, encrypted, buffer, seen, writing, requests, linkDropped>>

\* The phone writes ToRadio: the reply goes out before the request has room in mesh_in.
WriteToRadio ==
  /\ Serving
  /\ Len(requests) < MaxRequests
  /\ \E want \in Want : requests' = Append(requests, [conn |-> conn, want |-> want])
  /\ writing' = Len(requests')
  /\ UNCHANGED <<board, queues, mesh, phase, conn, session, linkDropped>>

Deliver ==
  /\ writing # 0 /\ Len(meshIn) < MeshInSize
  /\ meshIn' = Append(meshIn, Write(writing))
  /\ writing' = 0
  /\ UNCHANGED <<board, bleTx, mesh, phase, conn, session, requests, linkDropped>>

\* What the phone gets is kept in seen if it answers one of its requests.
Show(message) == seen' = seen \cup ({message} \ {Nothing, Live})

\* Faulty variant: a read does not look into the queue.
ReadBufferOnly ==
  /\ Serving
  /\ Show(buffer) /\ buffer' = Nothing
  /\ UNCHANGED <<board, queues, mesh, phase, conn, encrypted, subscribed, writing, requests, linkDropped>>

\* The phone reads FromRadio: the buffered message, else the next queued one, else nothing.
ReadFromRadio ==
  /\ Serving
  /\ IF buffer = Nothing /\ bleTx # <<>>
       THEN Show(Head(bleTx)) /\ bleTx' = Tail(bleTx)
       ELSE Show(buffer) /\ UNCHANGED bleTx
  /\ buffer' = Nothing
  /\ UNCHANGED <<board, meshIn, mesh, phase, conn, encrypted, subscribed, writing, requests, linkDropped>>

\* Only a subscribed phone that has read the buffered message has the next one buffered.
Notify ==
  /\ Serving
  /\ subscribed /\ buffer = Nothing
  /\ bleTx # <<>> /\ buffer' = Head(bleTx) /\ bleTx' = Tail(bleTx)
  /\ UNCHANGED <<board, meshIn, mesh, phase, conn, encrypted, subscribed, seen, writing, requests, linkDropped>>

Disconnect ==
  /\ Serving /\ phase' = "starting"
  /\ CloseSession /\ Report(Disconnected)
  /\ UNCHANGED <<board, bleTx, mesh, conn, writing, requests>>

\* Faulty variant: the mesh task is not told.
RunnerFailsQuietly ==
  /\ Esp32 /\ phase # "restarting" /\ phase' = "restarting"
  /\ writing' = 0
  /\ CloseSession
  /\ UNCHANGED <<board, queues, mesh, conn, requests, linkDropped>>

\* The host runner ends: the ESP32 task abandons the connection, a request it was
\* delivering included, and rebuilds the stack ...
RunnerFailsEsp32 ==
  /\ Esp32 /\ phase # "restarting" /\ phase' = "restarting"
  /\ writing' = 0
  /\ CloseSession /\ Report(Disconnected)
  /\ UNCHANGED <<board, bleTx, mesh, conn, requests>>

\* ... the nRF52 task goes on waiting for a host that is gone, and serves nobody any more.
RunnerFailsNrf52 ==
  /\ ~Esp32 /\ phase # "failed" /\ phase' = "failed"
  /\ CloseSession
  /\ UNCHANGED <<board, queues, mesh, conn, writing, requests, linkDropped>>

Restart ==
  /\ phase = "restarting" /\ phase' = "starting"
  /\ UNCHANGED <<board, queues, mesh, conn, session, writing, requests, linkDropped>>

-----------------------------------------------------------------------------
Init ==
  /\ board \in {"esp32", "nrf52"}
  /\ meshIn = <<>> /\ bleTx = <<>>
  /\ bleConnected = FALSE /\ waiting = Nothing /\ handled = {}
  /\ phase = "starting" /\ conn = 0 /\ encrypted = FALSE /\ subscribed = FALSE
  /\ buffer = Nothing /\ writing = 0 /\ seen = {}
  /\ requests = <<>> /\ linkDropped = FALSE

Phone == Accept \/ Encrypt \/ Subscribe \/ WriteToRadio \/ ReadFromRadio \/ Disconnect
BleTask ==
  \/ AdvertiseEsp32 \/ AdvertiseNrf52 \/ AcceptFails \/ Deliver \/ Notify
  \/ RunnerFailsEsp32 \/ RunnerFailsNrf52 \/ Restart
MeshTask == Handle \/ Resume

Next == LoraFrame \/ MeshTask \/ BleTask \/ Phone

\* The executor polls every task that has been woken, and the app reads FromRadio
\* again and again while it is connected.
Fairness ==
  /\ WF_vars(Handle) /\ WF_vars(Resume)
  /\ WF_vars(Deliver) /\ WF_vars(Notify)
  /\ WF_vars(ReadFromRadio)

Spec == Init /\ [][Next]_vars /\ Fairness

-----------------------------------------------------------------------------
\* No queue holds more than its channel has slots (Channels).
TypeOK ==
  /\ board \in {"esp32", "nrf52"}
  /\ meshIn \in Seq(Event) /\ Len(meshIn) <= MeshInSize
  /\ bleTx \in Seq(Message) /\ Len(bleTx) <= BleTxSize
  /\ bleConnected \in BOOLEAN /\ linkDropped \in BOOLEAN
  /\ waiting \in Message \cup {Nothing} /\ buffer \in Message \cup {Nothing}
  /\ phase \in {"starting", "accepting", "connected", "restarting", "failed"}
  /\ conn \in 0..MaxConn /\ encrypted \in BOOLEAN /\ subscribed \in BOOLEAN
  /\ writing \in 0..Len(requests) /\ handled \subseteq 1..Len(requests)
  /\ requests \in Seq([conn : 1..MaxConn, want : Want]) /\ Len(requests) <= MaxRequests
  /\ seen \subseteq Message

LinkPending == \E i \in DOMAIN meshIn : meshIn[i] \in {Connected, Disconnected}

\* Whatever connections and stack restarts do, once the mesh task has taken the last link
\* event it knows whether a phone is there, unless that very event found mesh_in full:
\* an earlier lost event is made good by the next (dispatch of BleConnected and
\* BleDisconnected; the sends of gatt_events_loop, advertising_loop and ble_task).
LinkKnown ==
  phase # "failed" /\ ~LinkPending /\ ~linkDropped => (bleConnected <=> encrypted)

\* A request written on the connection that still stands is never lost on its way to
\* the mesh task, nor is the answer to an admin request (the blocking sends of
\* gatt_events_loop and send_admin_response), although both queues also carry traffic
\* that is dropped when they are full.
RequestKept ==
  \A r \in DOMAIN requests : phase = "connected" /\ requests[r].conn = conn =>
    /\ r \in handled \/ writing = r \/ \E i \in DOMAIN meshIn : meshIn[i] = Write(r)
    /\ r \in handled /\ requests[r].want = "admin" =>
         Completion(r) \in seen \cup {buffer, waiting} \cup ToSet(bleTx)

\* On the ESP32 board a phone that reads a ConfigCompleteId has read, on the same
\* connection, every message of that exchange: a queue that overflows loses the end of an
\* exchange, and what a closed connection leaves behind is gone before the next one
\* (the drain in advertising_loop, from_radio_has_data, push_from_radio).
CompletionMeansWhole ==
  Esp32 => \A r \in DOMAIN requests :
    requests[r].want = "config" /\ Completion(r) \in seen
      => \A i \in 1..Exchange : Part(r, i) \in seen

\* An admin answer that waits for room in ble_tx gets it while the phone goes on reading,
\* unless the BLE task itself waits for room in mesh_in (send_admin_response,
\* gatt_events_loop).
AnswerMoves ==
  waiting # Nothing /\ Serving ~> waiting = Nothing \/ ~Serving

\* The doc of push_from_radio: waiting for room in ble_tx would stall the orchestrator.
\* The two tasks never wait for each other.
NoMutualWait == ~(waiting # Nothing /\ writing # 0 /\ Len(meshIn) = MeshInSize)

=============================================================================
