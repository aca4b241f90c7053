-------------------------- MODULE SecureMeshProofs --------------------------
(***************************************************************************)
(* Proofs about the direct messages of SecureMesh, for any number of nodes,*)
(* messages and key pairs.                                                 *)
(***************************************************************************)
EXTENDS SecureMesh, TLAPS

\* The frames that may be on the air are of the right type.
LEMMA InfoTyped ==
  ASSUME TypeOK, NEW n \in Node, NEW ask \in BOOLEAN
  PROVE  OnAir(n, ask) \in [Node -> Info \cup {NoInfo}]
  BY DEF TypeOK, OnAir, NodeInfo, Info

LEMMA IntroduceTyped ==
  ASSUME TypeOK, NEW n \in Node, NEW m \in Node, IntroduceTo(n, m)
  PROVE  /\ info' \in [Node -> Info \cup {NoInfo}]
         /\ quiet' \in [Node -> BOOLEAN]
  <1>1. OnAir(n, TRUE) \in [Node -> Info \cup {NoInfo}]
    BY InfoTyped
  <1>2. QED
    BY <1>1 DEF TypeOK, IntroduceTo

LEMMA KeyIsNone == NoKey \notin Key
  BY DEF Key, NoKey

\* The kinds of frames are told apart by "as".
LEMMA FrameKinds ==
  /\ NotSent.as = "not sent"
  /\ UnderPsk("text").as = "text"
  /\ UnderPsk("other").as = "other"
  /\ \A mine, theirs : Sealed(mine, theirs).as = "pkc"
  BY DEF NotSent, UnderPsk, Sealed

\* A frame that opens is sealed with the recipient's key and a key known of the sender.
LEMMA SealedByKeys ==
  ASSUME TypeOK, NEW d \in Dm, Decrypts(d)
  PROVE  /\ frame[d].as = "pkc"
         /\ frame[d].theirs = key[To[d]]
         /\ SenderKey(d) # NoKey
  <1>1. frame[d] = Sealed(SenderKey(d), key[To[d]])
    BY DEF Decrypts, Opens
  <1>2. frame[d].as = "pkc" /\ frame[d].mine = SenderKey(d) /\ frame[d].theirs = key[To[d]]
    BY <1>1 DEF Sealed
  <1>3. frame[d] \in Frame
    BY DEF TypeOK
  <1>4. frame[d] # NotSent /\ \A port \in Port : frame[d] # UnderPsk(port)
    BY <1>2, FrameKinds DEF Port
  <1>5. PICK mine, theirs \in Key : frame[d] = Sealed(mine, theirs)
    BY <1>3, <1>4 DEF Frame
  <1>6. frame[d].mine \in Key
    BY <1>5 DEF Sealed
  <1>7. QED
    BY <1>2, <1>6, KeyIsNone

\* A frame under the key of a channel is one of the two.
LEMMA ChannelFrame ==
  ASSUME TypeOK, NEW d \in Dm, OnChannel(d)
  PROVE  frame[d] = UnderPsk("text") \/ frame[d] = UnderPsk("other")
  <1>1. frame[d] \in Frame /\ frame[d].as \in {"text", "other"}
    BY DEF TypeOK, OnChannel, Port
  <1>2. frame[d] # NotSent /\ \A mine, theirs \in Key : frame[d] # Sealed(mine, theirs)
    BY <1>1, FrameKinds
  <1>3. QED
    BY <1>1, <1>2 DEF Frame, Port

\* Only reading a DM that is not in the ring records it.
LEMMA RecordedOnlyWhenRead ==
  ASSUME TypeOK, NEW d \in Dm, RefuseDm(d) \/ DropDm(d)
  PROVE  seen' = seen /\ got' = got /\ frame' = frame /\ key' = key /\ phones' = phones
  <1>1. CASE RefuseDm(d)
    <2>1. ~Readable(d)
      BY <1>1, SealedByKeys DEF RefuseDm, KeyMissing, Readable
    <2>2. QED
      BY <1>1, <2>1 DEF RefuseDm, Recorded, keys, phones
  <1>2. CASE DropDm(d)
    BY <1>2 DEF DropDm, Recorded, keys, phones
  <1>3. QED
    BY <1>1, <1>2

\* Init.
LEMMA InitTyped == Init => TypeOK
  <1> SUFFICES ASSUME Init PROVE TypeOK
    OBVIOUS
  <1>1. 1 \in Key
    BY MeshAssumption DEF Key
  <1>2. EmptyDb \in [Node -> Entry]
    BY DEF EmptyDb, Stranger, Entry
  <1>3. QED
    BY <1>1, <1>2 DEF Init, TypeOK, Frame, MaxGot

\* What an action on DMs changes keeps its type.
LEMMA DmStepTyped ==
  ASSUME TypeOK, NEW d \in Dm,
         \/ SendSealed(d) \/ SendUnderPsk(d) \/ TakeDm(d) \/ RefuseDm(d) \/ DropDm(d)
         \/ Forget(d) \/ HearAnswer(d)
  PROVE  TypeOK'
  <1> USE MeshAssumption
  <1> DEFINE Ends == From[d] \in Node /\ To[d] \in Node
  <1>0. Ends
    OBVIOUS
  <1>1. CASE SendSealed(d)
    <2>1. key[From[d]] \in Key /\ nodes[From[d]][To[d]].key \in Key
      BY <1>0, <1>1 DEF TypeOK, SendSealed, CanSeal, Entry
    <2>2. Encrypted(From[d], To[d]) \in Frame
      BY <2>1 DEF Encrypted, Frame
    <2>3. QED
      BY <1>1, <2>2 DEF TypeOK, SendSealed, SendDm, keys, phones
  <1>2. CASE SendUnderPsk(d)
    <2>1. PICK port \in Port : SendDm(d, UnderPsk(port))
      BY <1>2 DEF SendUnderPsk
    <2>2. UnderPsk(port) \in Frame
      BY DEF Frame
    <2>3. QED
      BY <2>1, <2>2 DEF TypeOK, SendDm, keys, phones
  <1>3. CASE Forget(d)
    BY <1>3 DEF TypeOK, Forget, MaxGot, keys, phones
  <1>4. CASE TakeDm(d)
    <2>1. Recorded(d) \subseteq Dm /\ RoutingAck(d) \subseteq Dm
      BY DEF TypeOK, Recorded, RoutingAck
    <2>2. got' \in [Dm -> 0..MaxGot]
      BY <1>4 DEF TypeOK, TakeDm, MaxGot
    <2>3. stored' \subseteq Dm /\ shown' \subseteq Dm
      BY <1>4 DEF TypeOK, TakeDm, HandOn
    <2>4. /\ info' \in [Node -> Info \cup {NoInfo}]
          /\ quiet' \in [Node -> BOOLEAN]
      BY <1>0, <1>4, IntroduceTyped DEF TakeDm
    <2>5. QED
      BY <1>4, <2>1, <2>2, <2>3, <2>4 DEF TypeOK, TakeDm, keys
  <1>5. CASE RefuseDm(d)
    <2>1. seen' = seen /\ got' = got /\ phones' = phones
      BY <1>5, RecordedOnlyWhenRead
    <2>2. OnAir(To[d], FALSE) \in [Node -> Info \cup {NoInfo}]
      BY <1>0, InfoTyped
    <2>3. QED
      BY <1>5, <2>1, <2>2 DEF TypeOK, RefuseDm, RoutingError, SendNodeInfo, keys, phones
  <1>6. CASE DropDm(d)
    <2>1. seen' = seen /\ got' = got /\ phones' = phones
      BY <1>6, RecordedOnlyWhenRead
    <2>2. QED
      BY <1>6, <2>1 DEF TypeOK, DropDm, keys, phones
  <1>7. CASE HearAnswer(d)
    <2>1. /\ info' \in [Node -> Info \cup {NoInfo}]
          /\ quiet' \in [Node -> BOOLEAN]
      BY <1>0, <1>7, IntroduceTyped DEF HearAnswer
    <2>2. QED
      BY <1>7, <2>1 DEF TypeOK, HearAnswer, keys, dms, phones
  <1>8. QED
    BY <1>1, <1>2, <1>3, <1>4, <1>5, <1>6, <1>7

\* A restart with any database of its own and any key pair is typed.
LEMMA RestartTyped ==
  ASSUME TypeOK, NEW n \in Node, NEW db \in Saved(n), NEW k \in Key, Restart(n, db, k)
  PROVE  TypeOK'
  <1>1. db \in [Node -> Entry]
    BY DEF Saved
  <1>2. [key |-> k, ask |-> FALSE] \in Info
    BY DEF Info
  <1>3. got' \in [Dm -> 0..MaxGot]
    BY DEF Restart, TypeOK, MaxGot
  <1>4. QED
    BY <1>1, <1>2, <1>3 DEF TypeOK, Restart

LEMMA NodeStepTyped ==
  ASSUME TypeOK, NEW n \in Node,
         \/ Broadcast(n) \/ QuietEnds(n) \/ LoseInfo(n) \/ NodedbReset(n)
         \/ Replay(n) \/ Reboot(n) \/ RebootWithNewKey(n)
  PROVE  TypeOK'
  <1>1. CASE Broadcast(n)
    <2>1. OnAir(n, FALSE) \in [Node -> Info \cup {NoInfo}]
      BY InfoTyped
    <2>2. QED
      BY <1>1, <2>1 DEF TypeOK, Broadcast, keys, dms, phones
  <1>2. CASE QuietEnds(n) \/ LoseInfo(n)
    BY <1>2 DEF TypeOK, QuietEnds, LoseInfo, keys, dms, phones
  <1>3. CASE NodedbReset(n)
    <2>1. EmptyDb \in [Node -> Entry]
      BY DEF EmptyDb, Stranger, Entry
    <2>2. QED
      BY <1>3, <2>1 DEF TypeOK, NodedbReset, dms, phones
  <1>4. CASE Reboot(n)
    <2>1. key[n] \in Key
      BY DEF TypeOK
    <2>2. QED
      BY <1>4, <2>1, RestartTyped DEF Reboot
  <1>5. CASE RebootWithNewKey(n)
    <2>1. key[n] + 1 \in Key
      BY <1>5, MeshAssumption DEF TypeOK, RebootWithNewKey, Key
    <2>2. QED
      BY <1>5, <2>1, RestartTyped DEF RebootWithNewKey
  <1>6. CASE Replay(n)
    BY <1>6 DEF TypeOK, Replay, keys
  <1>7. QED
    BY <1>1, <1>2, <1>3, <1>4, <1>5, <1>6

LEMMA PairStepTyped ==
  ASSUME TypeOK, NEW n \in Node, NEW m \in Node,
         \/ HearInfo(n, m) \/ SetIgnored(n, m)
         \/ \E k \in Key \cup {NoKey} : AddContact(n, m, k)
  PROVE  TypeOK'
  <1>1. CASE HearInfo(n, m)
    <2>1. info[m].key \in Key
      BY <1>1 DEF TypeOK, HearInfo, Info
    <2>2. nodes' \in [Node -> [Node -> Entry]]
      BY <1>1, <2>1 DEF TypeOK, HearInfo, Learned, Entry
    <2>3. \A ask \in BOOLEAN : OnAir(n, ask) \in [Node -> Info \cup {NoInfo}]
      BY InfoTyped
    <2>4. info' \in [Node -> Info \cup {NoInfo}] /\ quiet' \in [Node -> BOOLEAN]
      BY <1>1, <2>3 DEF TypeOK, HearInfo
    <2>5. QED
      BY <1>1, <2>2, <2>4 DEF TypeOK, HearInfo, dms, phones
  <1>2. CASE SetIgnored(n, m)
    BY <1>2 DEF TypeOK, SetIgnored, Entry, dms, phones
  <1>3. CASE \E k \in Key \cup {NoKey} : AddContact(n, m, k)
    BY <1>3 DEF TypeOK, AddContact, Entry, dms, phones
  <1>4. QED
    BY <1>1, <1>2, <1>3

LEMMA StepTyped == TypeOK /\ [Next]_vars => TypeOK'
  <1> SUFFICES ASSUME TypeOK, [Next]_vars PROVE TypeOK'
    OBVIOUS
  <1>1. CASE UNCHANGED vars
    BY <1>1 DEF TypeOK, vars, keys, dms, phones
  <1>2. CASE Next
    BY <1>2, DmStepTyped, NodeStepTyped, PairStepTyped DEF Next
  <1>3. QED
    BY <1>1, <1>2

\* The nodes and the channel keep their types, however keys and messages cross.
THEOREM MeshTypeCorrect == Spec => []TypeOK
  BY InitTyped, StepTyped, PTL DEF Spec

-----------------------------------------------------------------------------
(* A DM is taken once while the ring holds it.                             *)

\* An action that leaves the ring and the count of what was taken alone.
RingApart == seen' = seen /\ got' = got

LEMMA DmStepTakenOnce ==
  ASSUME TypeOK, TakenOnce, NEW d \in Dm,
         \/ SendSealed(d) \/ SendUnderPsk(d) \/ TakeDm(d) \/ RefuseDm(d) \/ DropDm(d)
         \/ Forget(d) \/ HearAnswer(d)
  PROVE  TakenOnce'
  <1>1. CASE TakeDm(d)
    <2>1. got[d] = 0
      BY <1>1 DEF TakeDm, TakenOnce
    <2>2. got' = [got EXCEPT ![d] = 1]
      BY <1>1, <2>1 DEF TakeDm, TypeOK, MaxGot
    <2>3. seen' = seen \cup {d}
      BY <1>1 DEF TakeDm, Recorded
    <2>4. QED
      BY <2>2, <2>3 DEF TypeOK, TakenOnce
  <1>2. CASE Forget(d)
    BY <1>2 DEF Forget, TypeOK, TakenOnce
  <1>3. CASE RefuseDm(d) \/ DropDm(d)
    BY <1>3, RecordedOnlyWhenRead DEF TakenOnce
  <1>4. CASE SendSealed(d) \/ SendUnderPsk(d) \/ HearAnswer(d)
    BY <1>4 DEF SendSealed, SendUnderPsk, SendDm, HearAnswer, dms, TakenOnce
  <1>5. QED
    BY <1>1, <1>2, <1>3, <1>4

\* A restart empties the ring and the count together, and of one node only.
LEMMA RestartTakenOnce ==
  ASSUME TakenOnce, NEW n \in Node, NEW db, NEW k, Restart(n, db, k)
  PROVE  TakenOnce'
  BY DEF Restart, TakenOnce

LEMMA OtherStepTakenOnce ==
  ASSUME TypeOK, TakenOnce, NEW n \in Node, NEW m \in Node,
         \/ Broadcast(n) \/ QuietEnds(n) \/ LoseInfo(n) \/ NodedbReset(n)
         \/ Replay(n) \/ Reboot(n) \/ RebootWithNewKey(n)
         \/ HearInfo(n, m) \/ SetIgnored(n, m)
         \/ \E k \in Key \cup {NoKey} : AddContact(n, m, k)
  PROVE  TakenOnce'
  <1>1. CASE Reboot(n) \/ RebootWithNewKey(n)
    BY <1>1, RestartTakenOnce DEF Reboot, RebootWithNewKey
  <1>2. CASE \/ Broadcast(n) \/ QuietEnds(n) \/ LoseInfo(n) \/ NodedbReset(n) \/ Replay(n)
             \/ HearInfo(n, m) \/ SetIgnored(n, m)
             \/ \E k \in Key \cup {NoKey} : AddContact(n, m, k)
    <2>1. RingApart
      BY <1>2 DEF RingApart, Broadcast, QuietEnds, LoseInfo, NodedbReset, Replay, HearInfo,
                  SetIgnored, AddContact, dms
    <2>2. QED
      BY <2>1 DEF RingApart, TakenOnce
  <1>3. QED
    BY <1>1, <1>2

LEMMA StepTakenOnce == TypeOK /\ TakenOnce /\ [Next]_vars => TakenOnce'
  <1> SUFFICES ASSUME TypeOK, TakenOnce, [Next]_vars PROVE TakenOnce'
    OBVIOUS
  <1>1. CASE UNCHANGED vars
    BY <1>1 DEF TakenOnce, vars, dms
  <1>2. CASE Next
    BY <1>2, DmStepTakenOnce, OtherStepTakenOnce DEF Next
  <1>3. QED
    BY <1>1, <1>2

\* For any number of DMs, repeated, answered, restarted over and pushed out of the ring at
\* will: while the ring of should_filter_received holds a DM it has been dispatched once,
\* and a DM that could not be read, whoever repeats it, is not in the ring.
THEOREM TakenOnceWhileRemembered == Spec => []TakenOnce
  <1>1. Init => TakenOnce
    BY DEF Init, TakenOnce
  <1>2. QED
    BY InitTyped, StepTyped, <1>1, StepTakenOnce, PTL DEF Spec

-----------------------------------------------------------------------------
(* A text that reaches a phone came under PKC.                             *)

\* What is in the buffer may be sealed for an older key pair, but is no text under the key
\* of a channel: Replay may pass it on.
NoLegacyStored == \A d \in stored : frame[d] # NotSent /\ frame[d] # UnderPsk("text")

Delivery == NoLegacyStored /\ TextsSealed

\* An action that leaves the frames, the keys and the phones alone.
Apart == key' = key /\ frame' = frame /\ phones' = phones

LEMMA ApartKeeps == Delivery /\ Apart => Delivery'
  BY DEF Delivery, Apart, NoLegacyStored, TextsSealed, phones

\* A DM is sent once, before anything of it can be passed on.
LEMMA SendKeeps ==
  ASSUME TypeOK, Delivery, NEW d \in Dm, NEW f, SendDm(d, f)
  PROVE  Delivery'
  <1>1. key' = key /\ stored' = stored /\ shown' = shown
    BY DEF SendDm, keys, phones
  <1>2. d \notin stored
    BY DEF SendDm, Delivery, NoLegacyStored
  <1>3. d \notin shown
    <2>1. frame[d] = NotSent
      BY DEF SendDm
    <2>2. frame[d] # UnderPsk("other") /\ frame[d].as # "pkc"
      BY <2>1, FrameKinds
    <2>3. QED
      BY <2>2 DEF Delivery, TextsSealed
  <1>4. \A e \in Dm : e # d => frame'[e] = frame[e]
    BY DEF SendDm, TypeOK
  <1>5. stored \subseteq Dm /\ shown \subseteq Dm
    BY DEF TypeOK
  <1>6. QED
    BY <1>1, <1>2, <1>3, <1>4, <1>5 DEF Delivery, NoLegacyStored, TextsSealed

\* A DM that is taken was opened with the present key of the recipient, or is no text.
LEMMA TakeKeeps ==
  ASSUME TypeOK, Delivery, NEW d \in Dm, TakeDm(d)
  PROVE  Delivery'
  <1>1. frame[d] = UnderPsk("other")
        \/ (frame[d].as = "pkc" /\ frame[d].theirs = key[To[d]])
    BY SealedByKeys, ChannelFrame DEF TakeDm, Readable
  <1>2. frame[d] # NotSent /\ frame[d] # UnderPsk("text")
    BY <1>1, FrameKinds
  <1>3. key' = key /\ frame' = frame
    BY DEF TakeDm, keys
  <1>4. stored' \subseteq stored \cup {d} /\ shown' \subseteq shown \cup {d}
    BY DEF TakeDm, HandOn
  <1>5. QED
    BY <1>1, <1>2, <1>3, <1>4 DEF Delivery, NoLegacyStored, TextsSealed

\* What is replayed is under the key of a channel, and no text is in the buffer under one.
LEMMA ReplayKeeps ==
  ASSUME TypeOK, Delivery, NEW n \in Node, Replay(n)
  PROVE  Delivery'
  <1>1. key' = key /\ frame' = frame
    BY DEF Replay, keys
  <1>2. stored' \subseteq stored
    BY DEF Replay
  <1>3. \A d \in shown' : d \in shown \/ (d \in stored /\ OnChannel(d))
    BY DEF Replay
  <1>4. \A d \in stored : OnChannel(d) => frame[d] = UnderPsk("other")
    BY ChannelFrame DEF TypeOK, Delivery, NoLegacyStored
  <1>5. QED
    BY <1>1, <1>2, <1>3, <1>4 DEF Delivery, NoLegacyStored, TextsSealed

\* A restart with a new key pair takes what was shown for the old one; the keys of others
\* and what was shown to their phones stay.
LEMMA RestartKeeps ==
  ASSUME TypeOK, Delivery, NEW n \in Node, NEW db, NEW k, Restart(n, db, k)
  PROVE  Delivery'
  <1>1. shown' = {d \in shown : To[d] # n} /\ stored' = stored
    BY DEF Restart
  <1>2. frame' = frame /\ \A m \in Node : m # n => key'[m] = key[m]
    BY DEF Restart, TypeOK
  <1>3. \A d \in shown : To[d] \in Node
    BY MeshAssumption DEF TypeOK
  <1>4. QED
    BY <1>1, <1>2, <1>3 DEF Delivery, NoLegacyStored, TextsSealed

LEMMA DmStepSealed ==
  ASSUME TypeOK, Delivery, NEW d \in Dm,
         \/ SendSealed(d) \/ SendUnderPsk(d) \/ TakeDm(d) \/ RefuseDm(d) \/ DropDm(d)
         \/ Forget(d) \/ HearAnswer(d)
  PROVE  Delivery'
  <1>1. CASE SendSealed(d) \/ SendUnderPsk(d)
    BY <1>1, SendKeeps DEF SendSealed, SendUnderPsk
  <1>2. CASE TakeDm(d)
    BY <1>2, TakeKeeps
  <1>3. CASE RefuseDm(d) \/ DropDm(d)
    BY <1>3, RecordedOnlyWhenRead, ApartKeeps DEF Apart
  <1>4. CASE Forget(d) \/ HearAnswer(d)
    <2>1. Apart
      BY <1>4 DEF Apart, Forget, HearAnswer, keys, dms
    <2>2. QED
      BY <2>1, ApartKeeps
  <1>5. QED
    BY <1>1, <1>2, <1>3, <1>4

LEMMA OtherStepSealed ==
  ASSUME TypeOK, Delivery, NEW n \in Node, NEW m \in Node,
         \/ Broadcast(n) \/ QuietEnds(n) \/ LoseInfo(n) \/ NodedbReset(n)
         \/ Replay(n) \/ Reboot(n) \/ RebootWithNewKey(n)
         \/ HearInfo(n, m) \/ SetIgnored(n, m)
         \/ \E k \in Key \cup {NoKey} : AddContact(n, m, k)
  PROVE  Delivery'
  <1>1. CASE Reboot(n) \/ RebootWithNewKey(n)
    BY <1>1, RestartKeeps DEF Reboot, RebootWithNewKey
  <1>2. CASE Replay(n)
    BY <1>2, ReplayKeeps
  <1>3. CASE \/ Broadcast(n) \/ QuietEnds(n) \/ LoseInfo(n) \/ NodedbReset(n)
             \/ HearInfo(n, m) \/ SetIgnored(n, m)
             \/ \E k \in Key \cup {NoKey} : AddContact(n, m, k)
    <2>1. Apart
      BY <1>3 DEF Apart, Broadcast, QuietEnds, LoseInfo, NodedbReset, HearInfo, SetIgnored,
                  AddContact, keys, dms
    <2>2. QED
      BY <2>1, ApartKeeps
  <1>4. QED
    BY <1>1, <1>2, <1>3

LEMMA StepSealed == TypeOK /\ Delivery /\ [Next]_vars => Delivery'
  <1> SUFFICES ASSUME TypeOK, Delivery, [Next]_vars PROVE Delivery'
    OBVIOUS
  <1>1. CASE UNCHANGED vars
    BY <1>1, ApartKeeps DEF Apart, vars, keys, dms
  <1>2. CASE Next
    BY <1>2, DmStepSealed, OtherStepSealed DEF Next
  <1>3. QED
    BY <1>1, <1>2

\* A text that a phone was given came sealed for the key pair its node has now, live or out
\* of the buffer: try_decrypt_and_decode drops every other text, decode_psk_frame opens no
\* sealed one, and a new key pair comes with a new boot.
THEOREM TextsReachPhonesSealed == Spec => []TextsSealed
  <1>1. Init => Delivery
    BY DEF Init, Delivery, NoLegacyStored, TextsSealed
  <1>2. Delivery => TextsSealed
    BY DEF Delivery
  <1>3. QED
    BY InitTyped, StepTyped, <1>1, StepSealed, <1>2, PTL DEF Spec
=============================================================================
