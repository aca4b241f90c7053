----------------------------- MODULE SecureMesh -----------------------------
(***************************************************************************)
(* Nodes that run this code and send each other direct messages (DMs):     *)
(* their key pairs, the keys they know of each other, the NodeInfo frames  *)
(* that carry the keys, and what a node does with a copy of a DM that it   *)
(* can read, cannot read, or has read before.                              *)
(*                                                                         *)
(* A key is a generation: key[m] is the key pair that m has now, and a     *)
(* NodeInfo may still be on its way with an older one.  The channel loses  *)
(* frames and repeats them (the sender retries a DM, other nodes relay     *)
(* it): a DM or an answer that was sent may come at any time, any number   *)
(* of times or never, so the sender's table of retries is left out, it is  *)
(* in ReliableDelivery.  Time is left out: a broadcast and the end of an   *)
(* interval come when they like.  Phones come and go as they like too, so  *)
(* whether one is connected is a choice of each step that asks for it.     *)
(* How the NodeDB is written is in NodeDatabase, how the buffer for the    *)
(* phone is written in MessageStore.                                       *)
(***************************************************************************)
EXTENDS Naturals

CONSTANTS
  Node,
  Dm,       \* the packets sent from phone to phone
  From, To, \* [Dm -> Node]
  MaxKey    \* bound: the key pairs a node ever has

NoKey == 0

ASSUME MeshAssumption ==
  /\ From \in [Dm -> Node] /\ To \in [Dm -> Node]
  /\ \A d \in Dm : From[d] # To[d]
  /\ MaxKey \in Nat \ {0}

VARIABLES
  key,     \* pkc_priv_bytes and pkc_pub_bytes of each node
  nodes,   \* its NodeDB: the key and the user it has of each other node
  quiet,   \* last_nodeinfo_tx is less than NODEINFO_MIN_INTERVAL_MS ago
  frame,   \* the frame built for each DM, and sent
  seen,    \* the DMs in the recipient's duplicate ring
  got,     \* how often the recipient took each DM since it booted or last forgot it
  stored,  \* the DMs in the recipient's flash buffer for the phone
  shown,   \* the DMs the recipient passed to its phone since it booted
  answers, \* the DMs that a routing packet (ACK or NAK) was sent for
  info     \* the NodeInfo frame of each node on the air

keys == <<key, nodes>>
phones == <<stored, shown>>
dms == <<frame, seen, got, phones>>
vars == <<keys, quiet, dms, answers, info>>

Key == 1..MaxKey
Entry == [key : Key \cup {NoKey}, user : BOOLEAN]
Info == [key : Key, ask : BOOLEAN]

\* What a DM under the key of a channel carries: TextMessageApp, or another portnum that
\* the recipient's node leaves to the phone, TextMessageCompressedApp among them.
Port == {"text", "other"}

\* The frame of a DM: under PKC, with the keys of sender and recipient, whatever it
\* carries, or under the key of a channel, which every node has.
Sealed(mine, theirs) == [as |-> "pkc", mine |-> mine, theirs |-> theirs]
NotSent == [as |-> "not sent", mine |-> NoKey, theirs |-> NoKey]
UnderPsk(port) == [as |-> port, mine |-> NoKey, theirs |-> NoKey]
Frame == {NotSent} \cup {UnderPsk(port) : port \in Port}
                   \cup {Sealed(mine, theirs) : mine, theirs \in Key}

NoInfo == [key |-> NoKey, ask |-> FALSE]

Stranger == [key |-> NoKey, user |-> FALSE]
EmptyDb == [m \in Node |-> Stranger]

\* Bound: deliveries of a DM counted.
MaxGot == 2

Init ==
  /\ key = [n \in Node |-> 1]
  /\ nodes = [n \in Node |-> EmptyDb]
  /\ quiet = [n \in Node |-> FALSE]
  /\ frame = [d \in Dm |-> NotSent]
  /\ seen = {}
  /\ got = [d \in Dm |-> 0]
  /\ stored = {}
  /\ shown = {}
  /\ answers = {}
  /\ info = [n \in Node |-> NoInfo]

-----------------------------------------------------------------------------
(* NodeInfo.                                                               *)

\* build_payload: the user record carries our public key.
NodeInfo(n, ask) == [key |-> key[n], ask |-> ask]

\* send_nodeinfo.  An older NodeInfo of the node that is still on the air is lost.
OnAir(n, ask) == [info EXCEPT ![n] = NodeInfo(n, ask)]

\* lora_send drops the frame when the air time is used up.
SendNodeInfo(n, ask) == info' \in {info, OnAir(n, ask)}

\* maybe_request_nodeinfo, run for each decoded packet of a node without a user record.
\* The channel may be too busy, the role or the distance may forbid it.
MayIntroduce(n, m) == ~nodes[n][m].user /\ ~quiet[n]

IntroduceTo(n, m) ==
  \/ UNCHANGED <<quiet, info>>
  \/ /\ MayIntroduce(n, m)
     /\ info' = OnAir(n, TRUE)
     /\ quiet' = [quiet EXCEPT ![n] = TRUE]

\* broadcast_nodeinfo, by the periodic timer.
Broadcast(n) ==
  /\ ~quiet[n]
  /\ info' = OnAir(n, FALSE)
  /\ quiet' = [quiet EXCEPT ![n] = TRUE]
  /\ UNCHANGED <<keys, dms, answers>>

QuietEnds(n) ==
  /\ quiet[n]
  /\ quiet' = [quiet EXCEPT ![n] = FALSE]
  /\ UNCHANGED <<keys, dms, answers, info>>

\* Faulty variant of Learned: the first key of a node is kept.
LearnedFirst(entry, k) ==
  [key |-> IF entry.key = NoKey THEN k ELSE entry.key, user |-> TRUE]

\* update_pub_key and update_user: whatever was known is overwritten.
Learned(entry, k) == [key |-> k, user |-> TRUE]

\* node_info::handle.  A request is answered, unless one was just sent; the request of
\* IntroduceTo counts, for it is sent first.
HearInfo(n, m) ==
  /\ m # n /\ info[m] # NoInfo
  /\ nodes' = [nodes EXCEPT ![n][m] = Learned(@, info[m].key)]
  /\ \/ /\ MayIntroduce(n, m)
        /\ info' = [OnAir(n, TRUE) EXCEPT ![m] = NoInfo]
        /\ quiet' = [quiet EXCEPT ![n] = TRUE]
     \/ /\ info[m].ask /\ ~quiet[n]
        /\ \E answered \in {info, OnAir(n, FALSE)} : info' = [answered EXCEPT ![m] = NoInfo]
        /\ quiet' = [quiet EXCEPT ![n] = TRUE]
     \/ /\ ~info[m].ask \/ quiet[n]
        /\ info' = [info EXCEPT ![m] = NoInfo]
        /\ UNCHANGED quiet
  /\ UNCHANGED <<key, dms, answers>>

-----------------------------------------------------------------------------
(* Direct messages.                                                        *)

\* TxBuilder::build with PKC keys: the shared secret of our key pair and the key known
\* of the destination.
Encrypted(n, m) == Sealed(key[n], nodes[n][m].key)

\* transmit_from_ble_packet.  The phone names PKC or a channel; PKC without a key of the
\* destination is refused, and nothing changes.
SendDm(d, f) ==
  /\ frame[d] = NotSent
  /\ frame' = [frame EXCEPT ![d] = f]
  /\ UNCHANGED <<keys, quiet, seen, got, phones, answers, info>>

\* Faulty variant: not asked.
CanSealAlways(n, m) == m # n

CanSeal(n, m) == nodes[n][m].key # NoKey

SendSealed(d) ==
  /\ CanSeal(From[d], To[d])
  /\ SendDm(d, Encrypted(From[d], To[d]))

SendUnderPsk(d) == \E port \in Port : SendDm(d, UnderPsk(port))

SenderKey(d) == nodes[To[d]][From[d]].key

\* decrypt_pkc: the tag fits when each side used the other's key.
Opens(f, mine, theirs) == f = Sealed(theirs, mine)

Decrypts(d) == Opens(frame[d], key[To[d]], SenderKey(d))

OnChannel(d) == frame[d].as \in Port

\* Faulty variant of Readable: a text under the key of a channel is taken as well.
ReadableLegacy(d) == Decrypts(d) \/ OnChannel(d)

\* try_decrypt_and_decode: under PKC, or under the key of a channel, which a text is not
\* taken under.
Readable(d) == Decrypts(d) \/ (OnChannel(d) /\ frame[d] # UnderPsk("text"))

\* PkiUnknownPubkey: not readable and no key of the sender.  A DM under the key of a
\* channel is decoded before this is asked.
KeyMissing(d) == ~OnChannel(d) /\ SenderKey(d) = NoKey

\* Faulty variant of Recorded: duplicates are filtered before the copy is authenticated.
RecordedUnread(d) == seen \cup {d}

\* The ring records a copy only when it was read.
Recorded(d) == IF Readable(d) THEN seen \cup {d} ELSE seen

\* send_routing_ack and send_routing_error: a routing packet that names the DM, under the
\* channel key and whatever the air time.
RoutingAck(d) == answers \cup {d}
RoutingError(d) == answers \cup {d}

\* A DM that was read goes to a connected phone, unless the queue to it is full; without
\* a phone it goes to the flash buffer, unless it is no text, the write fails, or later
\* texts push it out of the buffer.
HandOn(d) ==
  \/ shown' \in {shown, shown \cup {d}} /\ UNCHANGED stored
  \/ stored' \in {stored, stored \cup {d}} /\ UNCHANGED shown

\* Dispatch of a copy that is not in the ring: read, recorded, handed on and acknowledged,
\* wherever handing it on ended ...
TakeDm(d) ==
  /\ frame[d] # NotSent /\ Readable(d) /\ d \notin seen
  /\ seen' = Recorded(d)
  /\ got' = [got EXCEPT ![d] = IF @ < MaxGot THEN @ + 1 ELSE @]
  /\ IntroduceTo(To[d], From[d])
  /\ HandOn(d)
  /\ answers' = RoutingAck(d)
  /\ UNCHANGED <<keys, frame>>

\* ... refused, with our NodeInfo so that the sender learns our key ...
RefuseDm(d) ==
  /\ frame[d] # NotSent /\ KeyMissing(d)
  /\ seen' = Recorded(d)
  /\ answers' = RoutingError(d)
  /\ SendNodeInfo(To[d], FALSE)
  /\ UNCHANGED <<keys, quiet, frame, got, phones>>

\* ... or dropped: a duplicate, the keys do not fit, or a text under a channel's key.
DropDm(d) ==
  /\ frame[d] # NotSent /\ ~KeyMissing(d)
  /\ Readable(d) => d \in seen
  /\ seen' = Recorded(d)
  /\ UNCHANGED <<keys, quiet, frame, got, phones, answers, info>>

\* Other packets push a DM out of the duplicate ring.
Forget(d) ==
  /\ d \in seen
  /\ seen' = seen \ {d}
  /\ got' = [got EXCEPT ![d] = 0]
  /\ UNCHANGED <<keys, quiet, frame, phones, answers, info>>

\* replay_stored_frames, when a phone asks for the configuration: decode_psk_frame opens
\* what is under the key of a channel, the queue to the phone may be full, and every frame
\* is popped, the sealed ones with the others.
Replay(n) ==
  LET buffered == {d \in stored : To[d] = n} IN
  /\ buffered # {}
  /\ \E queued \in SUBSET {d \in buffered : OnChannel(d)} : shown' = shown \cup queued
  /\ stored' = stored \ buffered
  /\ UNCHANGED <<keys, quiet, frame, seen, got, answers, info>>

\* A routing packet that names the DM comes back, like any packet from that node.
HearAnswer(d) ==
  /\ d \in answers
  /\ IntroduceTo(From[d], To[d])
  /\ UNCHANGED <<keys, dms, answers>>

LoseInfo(n) ==
  /\ info[n] # NoInfo
  /\ info' = [info EXCEPT ![n] = NoInfo]
  /\ UNCHANGED <<keys, quiet, dms, answers>>

-----------------------------------------------------------------------------
(* The phone's administration of the NodeDB, and restarts.                 *)

\* handle_add_contact, with a key the other node had when the contact was made, or
\* without one; should_ignore clears it, as SetIgnored does.
AddContact(n, m, k) ==
  /\ n # m /\ k <= key[m]
  /\ nodes' = [nodes EXCEPT ![n][m] = [key |-> IF k = NoKey THEN @.key ELSE k, user |-> TRUE]]
  /\ UNCHANGED <<key, quiet, dms, answers, info>>

\* set_ignored clears the key and keeps the user, so that it is not asked for again.
SetIgnored(n, m) ==
  /\ nodes[n][m] # Stranger
  /\ nodes' = [nodes EXCEPT ![n][m] = [key |-> NoKey, user |-> @.user]]
  /\ UNCHANGED <<key, quiet, dms, answers, info>>

\* handle_nodedb_reset.
NodedbReset(n) ==
  /\ nodes' = [nodes EXCEPT ![n] = EmptyDb]
  /\ UNCHANGED <<key, quiet, dms, answers, info>>

\* What flash may hold: any database the node has had (NodeDatabase has how it gets
\* there).
Saved(n) ==
  {db \in [Node -> Entry] :
     \A m \in Node : IF m = n THEN db[m] = Stranger
                    ELSE db[m].key <= key[m] /\ (db[m].key # NoKey => db[m].user)}

\* A node starts: what is only in RAM is gone, the buffer in flash is not, and it
\* announces itself.  The air time it has used is not known yet, so that is sent.
Restart(n, db, k) ==
  /\ key' = [key EXCEPT ![n] = k]
  /\ nodes' = [nodes EXCEPT ![n] = db]
  /\ seen' = {d \in seen : To[d] # n}
  /\ got' = [d \in Dm |-> IF To[d] = n THEN 0 ELSE got[d]]
  /\ shown' = {d \in shown : To[d] # n}
  /\ info' = [info EXCEPT ![n] = [key |-> k, ask |-> FALSE]]
  /\ quiet' = [quiet EXCEPT ![n] = TRUE]
  /\ UNCHANGED <<frame, stored, answers>>

\* The key pair is in a sector of its own, which a factory reset does not erase either.
Reboot(n) == \E db \in Saved(n) : Restart(n, db, key[n])

\* The key pair cannot be read at boot, or its sector was wiped: a new one is made.
RebootWithNewKey(n) ==
  /\ key[n] < MaxKey
  /\ \E db \in Saved(n) : Restart(n, db, key[n] + 1)

Next ==
  \/ \E d \in Dm : SendSealed(d) \/ SendUnderPsk(d) \/ TakeDm(d) \/ RefuseDm(d) \/ DropDm(d)
                   \/ Forget(d) \/ HearAnswer(d)
  \/ \E n \in Node : Broadcast(n) \/ QuietEnds(n) \/ LoseInfo(n) \/ NodedbReset(n)
                     \/ Replay(n) \/ Reboot(n) \/ RebootWithNewKey(n)
  \/ \E n, m \in Node : HearInfo(n, m) \/ SetIgnored(n, m)
                        \/ \E k \in Key \cup {NoKey} : AddContact(n, m, k)

\* Time passes and the periodic broadcast comes, when nothing else is sent as NodeInfo.  A
\* NodeInfo with a node's key that is sent again and again arrives in the end, and one
\* that asks is answered in the end: a node's air time is not used up for ever.  Nothing
\* is assumed of DMs, answers, phones or restarts.
Fairness ==
  /\ \A n \in Node : WF_vars(QuietEnds(n)) /\ WF_vars(Broadcast(n))
  /\ \A n \in Node : \A m \in Node \ {n} :
       /\ SF_vars(HearInfo(n, m) /\ info[m].key = key[m])
       /\ SF_vars(HearInfo(n, m) /\ info'[n] = NodeInfo(n, FALSE))

Spec == Init /\ [][Next]_vars /\ Fairness

-----------------------------------------------------------------------------
\* The state of the nodes and of the channel between them.
TypeOK ==
  /\ key \in [Node -> Key]
  /\ nodes \in [Node -> [Node -> Entry]]
  /\ quiet \in [Node -> BOOLEAN]
  /\ frame \in [Dm -> Frame]
  /\ seen \subseteq Dm
  /\ got \in [Dm -> 0..MaxGot]
  /\ stored \subseteq Dm
  /\ shown \subseteq Dm
  /\ answers \subseteq Dm
  /\ info \in [Node -> Info \cup {NoInfo}]

\* A copy that could not be read leaves no trace in the duplicate ring, so that a later
\* copy is still read once the key is there; a copy that was read is in the ring, so that
\* no DM is dispatched twice while the ring holds it, whatever is retried, relayed,
\* learned or restarted between.  It does not say that the phone has the DM: a sealed one
\* that comes without a phone is recorded, acknowledged and buffered, and Replay drops it.
TakenOnce == \A d \in Dm : got[d] = IF d \in seen THEN 1 ELSE 0

\* A TextMessageApp DM that was passed to the recipient's phone, live or from the buffer
\* of an earlier boot, crossed the air under PKC for the key pair the recipient has now.
\* Other DMs may come under the key of a channel.
TextsSealed ==
  \A d \in shown : frame[d] = UnderPsk("other")
                   \/ (frame[d].as = "pkc" /\ frame[d].theirs = key[To[d]])

\* Every node learns the key every other node has now, again and again, however often it
\* forgets, ignores or restores an old one, and whoever restarts with a new key pair.
KeysConverge ==
  \A n \in Node : \A m \in Node \ {n} : []<>(nodes[n][m].key = key[m])
=============================================================================
