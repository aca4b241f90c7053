--------------------------- MODULE BleLinkProofs ---------------------------
(***************************************************************************)
(* The safety of the phone link, for queues, exchanges and numbers of      *)
(* connections and requests of every size.                                 *)
(***************************************************************************)
EXTENDS BleLink, SequenceTheorems, TLAPS

-----------------------------------------------------------------------------
(* The inductive invariant.                                                *)

\* The messages that concern requests already written.
Sent == [of : 0..Len(requests), part : 0..Exchange]

\* Nothing on its way concerns a request that is not written yet.
Known ==
  /\ \A i \in DOMAIN meshIn : meshIn[i].kind = "write" => meshIn[i].of \in 1..Len(requests)
  /\ bleTx \in Seq(Sent) /\ seen \subseteq Sent
  /\ waiting \in Sent \cup {Nothing} /\ buffer \in Sent \cup {Nothing}

\* A request was written on this connection or an earlier one.
Numbered ==
  /\ phase = "connected" => conn >= 1
  /\ \A r \in DOMAIN requests : requests[r].conn <= conn

\* Only an answer to an admin request waits for room.
AdminWaits ==
  waiting # Nothing =>
    \E r \in DOMAIN requests : requests[r].want = "admin" /\ waiting = Completion(r)

\* Only the nRF52 task stops for good.
Stopped == phase = "failed" => ~Esp32

Link == {Connected, Disconnected}
LinkEvent == IF encrypted THEN Connected ELSE Disconnected

\* The last link event on its way, if there is one, tells the truth.
LinkTold ==
  phase # "failed" /\ ~linkDropped =>
    \/ ~LinkPending /\ (bleConnected <=> encrypted)
    \/ \E i \in DOMAIN meshIn :
         /\ meshIn[i] = LinkEvent
         /\ \A j \in DOMAIN meshIn : j > i => meshIn[j] \notin Link

\* A part of an exchange that the phone has read, or will read before the k-th message.
Ahead(m, k) == m \in seen \cup {buffer} \/ \E j \in 1..(k-1) : bleTx[j] = m

\* The parts of an exchange go before its completion.
InOrder ==
  Esp32 => \A r \in DOMAIN requests : requests[r].want = "config" =>
    /\ buffer = Completion(r) => \A i \in 1..(Exchange-1) : Part(r, i) \in seen
    /\ phase \in {"accepting", "connected"} => \A k \in DOMAIN bleTx :
         bleTx[k] = Completion(r) => \A i \in 1..(Exchange-1) : Ahead(Part(r, i), k)

TypeInv == TypeOK /\ Known /\ Numbered /\ Stopped
IInv == TypeInv /\ AdminWaits /\ LinkTold /\ RequestKept /\ InOrder /\ CompletionMeansWhole

-----------------------------------------------------------------------------
(* Queues.                                                                 *)

LEMMA MinOfTwo ==
  ASSUME NEW a \in Int, NEW b \in Int
  PROVE  Min({a, b}) = IF a <= b THEN a ELSE b
  <1> DEFINE m == IF a <= b THEN a ELSE b
  <1>1. m \in {a, b} /\ \A y \in {a, b} : m <= y
    OBVIOUS
  <1>2. \A x \in {a, b} : (\A y \in {a, b} : x <= y) => x = m
    OBVIOUS
  <1>3. QED
    BY <1>1, <1>2 DEF Min

\* What an offer leaves in a queue: all that was there, then as many of the messages as fit.
LEMMA OfferKeeps ==
  ASSUME NEW S, NEW queue \in Seq(S), NEW messages \in Seq(S),
         NEW size \in Nat, Len(queue) <= size
  PROVE  /\ Offer(queue, size, messages) \in Seq(S)
         /\ Len(Offer(queue, size, messages)) =
              IF size - Len(queue) <= Len(messages) THEN size ELSE Len(queue) + Len(messages)
         /\ \A i \in 1..Len(queue) : Offer(queue, size, messages)[i] = queue[i]
         /\ \A i \in 1..Len(Offer(queue, size, messages)) :
              i > Len(queue) => /\ i - Len(queue) \in 1..Len(messages)
                                /\ Offer(queue, size, messages)[i] = messages[i - Len(queue)]
  <1>1. PICK n \in Nat :
          /\ n <= Len(messages)
          /\ n = IF size - Len(queue) <= Len(messages) THEN size - Len(queue) ELSE Len(messages)
    <2>1. size - Len(queue) \in Nat /\ Len(messages) \in Nat
      OBVIOUS
    <2>2. CASE size - Len(queue) <= Len(messages)
      BY <2>1, <2>2
    <2>3. CASE ~(size - Len(queue) <= Len(messages))
      BY <2>1, <2>3
    <2>4. QED
      BY <2>2, <2>3
  <1>2. PICK taken : taken = SubSeq(messages, 1, n)
    OBVIOUS
  <1>3. /\ taken \in Seq(S) /\ Len(taken) = n
        /\ \A i \in 1..n : taken[i] = messages[i]
    <2>1. \A i \in 1..n : messages[i] \in S
      BY <1>1
    <2>2. /\ SubSeq(messages, 1, n) \in Seq(S)
          /\ Len(SubSeq(messages, 1, n)) = IF 1 <= n THEN n - 1 + 1 ELSE 0
          /\ \A i \in 1..(n - 1 + 1) : SubSeq(messages, 1, n)[i] = messages[1 + i - 1]
      <3>1. 1 \in Int /\ n \in Int
        OBVIOUS
      <3>2. QED
        BY <2>1, <3>1, SubSeqProperties
    <2>3. /\ taken \in Seq(S)
          /\ Len(taken) = IF 1 <= n THEN n - 1 + 1 ELSE 0
          /\ \A i \in 1..(n - 1 + 1) : taken[i] = messages[1 + i - 1]
      BY <1>2, <2>2, Zenon
    <2>4. QED
      BY <2>3
  <1>4. Offer(queue, size, messages) = queue \o taken
    <2>1. size - Len(queue) \in Int /\ Len(messages) \in Int
      OBVIOUS
    <2>2. Min({size - Len(queue), Len(messages)}) = n
      BY <1>1, <2>1, MinOfTwo
    <2>3. QED
      BY <1>2, <2>2 DEF Offer
  <1>5. /\ queue \o taken \in Seq(S) /\ Len(queue \o taken) = Len(queue) + n
        /\ \A i \in 1..(Len(queue) + n) :
             (queue \o taken)[i] = IF i <= Len(queue) THEN queue[i] ELSE taken[i - Len(queue)]
    BY <1>3, ConcatProperties
  <1> DEFINE o == Offer(queue, size, messages)
  <1>6. /\ o \in Seq(S) /\ Len(o) = Len(queue) + n
        /\ \A i \in 1..Len(o) : o[i] = IF i <= Len(queue) THEN queue[i] ELSE taken[i - Len(queue)]
    BY <1>4, <1>5
  <1> HIDE DEF o
  <1>7. Len(queue) \in Nat /\ Len(messages) \in Nat
    OBVIOUS
  <1>8. Len(o) = IF size - Len(queue) <= Len(messages) THEN size ELSE Len(queue) + Len(messages)
    BY <1>1, <1>6, <1>7
  <1>9. \A i \in 1..Len(queue) : o[i] = queue[i]
    <2>1. n \in Nat
      BY <1>1
    <2>2. QED
      BY <2>1, <1>6, <1>7
  <1>10. ASSUME NEW i \in 1..Len(o), i > Len(queue)
         PROVE  i - Len(queue) \in 1..Len(messages) /\ o[i] = messages[i - Len(queue)]
    <2>1. i - Len(queue) \in 1..n
      BY <1>6, <1>7, <1>10, <1>1
    <2>2. o[i] = taken[i - Len(queue)]
      BY <1>6, <1>7, <1>10
    <2>3. n \in 0..Len(messages)
      BY <1>1
    <2>4. i - Len(queue) \in 1..Len(messages)
      BY <1>7, <2>1, <2>3
    <2>5. QED
      BY <1>3, <2>1, <2>2, <2>4
  <1>11. QED
    BY <1>6, <1>8, <1>9, <1>10 DEF o

\* A queue with room takes one message, a full one none.
LEMMA OfferOne ==
  ASSUME NEW S, NEW queue \in Seq(S), NEW m \in S, NEW size \in Nat, Len(queue) <= size
  PROVE  /\ Offer(queue, size, <<m>>) \in Seq(S)
         /\ Len(Offer(queue, size, <<m>>)) = IF Len(queue) = size THEN size ELSE Len(queue) + 1
         /\ \A i \in 1..Len(queue) : Offer(queue, size, <<m>>)[i] = queue[i]
         /\ Len(queue) # size => Offer(queue, size, <<m>>)[Len(queue) + 1] = m
  <1>1. <<m>> \in Seq(S) /\ Len(<<m>>) = 1 /\ <<m>>[1] = m
    OBVIOUS
  <1>2. PICK ms \in Seq(S) : ms = <<m>> /\ Len(ms) = 1 /\ ms[1] = m
    BY <1>1
  <1> DEFINE o == Offer(queue, size, ms)
  <1>3. /\ o \in Seq(S) /\ Len(o) = IF size - Len(queue) <= Len(ms) THEN size ELSE Len(queue) + Len(ms)
        /\ \A i \in 1..Len(queue) : o[i] = queue[i]
        /\ \A i \in 1..Len(o) : i > Len(queue) => i - Len(queue) \in 1..Len(ms) /\ o[i] = ms[i - Len(queue)]
    BY OfferKeeps
  <1> HIDE DEF o
  <1>4. Len(queue) \in Nat
    OBVIOUS
  <1>5. Len(o) = IF Len(queue) = size THEN size ELSE Len(queue) + 1
    BY <1>2, <1>3, <1>4
  <1>6. Len(queue) # size => o[Len(queue) + 1] = m
    BY <1>2, <1>3, <1>4, <1>5
  <1>7. o = Offer(queue, size, <<m>>)
    BY <1>2 DEF o
  <1>8. QED
    BY <1>3, <1>5, <1>6, <1>7

LEMMA TailShifts ==
  ASSUME NEW S, NEW queue \in Seq(S), queue # <<>>
  PROVE  /\ Head(queue) \in S /\ Head(queue) = queue[1] /\ Len(queue) >= 1
         /\ Tail(queue) \in Seq(S) /\ Len(Tail(queue)) = Len(queue) - 1
         /\ \A i \in 1..Len(Tail(queue)) : Tail(queue)[i] = queue[i + 1]
  BY HeadTailProperties, EmptySeq

LEMMA AppendKeeps ==
  ASSUME NEW S, NEW queue \in Seq(S), NEW m \in S
  PROVE  /\ Append(queue, m) \in Seq(S) /\ Len(Append(queue, m)) = Len(queue) + 1
         /\ \A i \in 1..Len(queue) : Append(queue, m)[i] = queue[i]
         /\ Append(queue, m)[Len(queue) + 1] = m
  BY AppendProperties

-----------------------------------------------------------------------------
(* Events and messages.                                                    *)

LEMMA Sizes ==
  /\ MeshInSize \in Nat \ {0} /\ BleTxSize \in Nat \ {0} /\ Exchange \in Nat \ {0}
  /\ MaxRequests \in Nat \ {0} /\ MaxConn \in Nat \ {0} /\ MaxUpdates \in Nat
  BY SizesAssumption

LEMMA Kinds ==
  /\ Frame.kind = "frame" /\ Connected.kind = "connected" /\ Disconnected.kind = "disconnected"
  /\ \A r : Write(r).kind = "write" /\ Write(r).of = r
  /\ Connected # Disconnected /\ Frame \notin Link
  /\ \A r : Write(r) \notin Link
  /\ Frame \in Event /\ Connected \in Event /\ Disconnected \in Event
  /\ \A r \in 1..MaxRequests : Write(r) \in Event
  BY DEF Frame, Connected, Disconnected, Write, Link, Event

LEMMA EventKinds ==
  ASSUME NEW e \in Event
  PROVE  /\ e.kind = "write" => e.of \in 1..MaxRequests /\ e = Write(e.of)
         /\ e.kind = "frame" => e = Frame
         /\ e.kind # "write" /\ e.kind # "frame" => e \in Link
         /\ e \in Link => e.kind # "write" /\ e.kind # "frame"
  BY DEF Event, Frame, Connected, Disconnected, Write, Link

LEMMA PartIs ==
  ASSUME NEW r, NEW i
  PROVE  /\ Part(r, i).of = r /\ Part(r, i).part = i
         /\ Live.of = 0 /\ Live.part = 0
         /\ Completion(r) = Part(r, Exchange)
  BY DEF Part, Live, Completion

LEMMA MessagesSent ==
  ASSUME TypeOK
  PROVE  /\ Sent \subseteq Message /\ Live \in Sent
         /\ \A r \in 1..Len(requests), i \in 0..Exchange :
              Part(r, i) \in Sent /\ Part(r, i) # Nothing /\ Part(r, i) # Live
         /\ Nothing \notin Sent
  <1>1. Len(requests) \in Nat /\ Len(requests) <= MaxRequests
    BY DEF TypeOK
  <1>2. Sent \subseteq Message
    BY <1>1, Sizes DEF Sent, Message
  <1>3. Live \in Sent
    BY <1>1, Sizes DEF Sent, Live
  <1>4. \A r \in 1..Len(requests), i \in 0..Exchange : Part(r, i) \in Sent /\ Part(r, i) # Live
    BY <1>1, Sizes DEF Sent, Part, Live
  <1>5. QED
    BY <1>2, <1>3, <1>4, NothingAssumption

-----------------------------------------------------------------------------
(* Types, and what is on its way concerns what was written.                *)

LEMMA SeqDomain ==
  ASSUME NEW S, NEW queue \in Seq(S)
  PROVE  /\ Len(queue) \in Nat /\ DOMAIN queue = 1..Len(queue)
         /\ \A i \in 1..Len(queue) : queue[i] \in S
  OBVIOUS

LEMMA RequestType ==
  ASSUME TypeOK, NEW r \in DOMAIN requests
  PROVE  /\ r \in 1..Len(requests) /\ r \in 1..MaxRequests /\ r # 0
         /\ requests[r].conn \in 1..MaxConn /\ requests[r].want \in Want
  <1>1. /\ requests \in Seq([conn : 1..MaxConn, want : Want])
        /\ Len(requests) \in Nat /\ Len(requests) <= MaxRequests
    BY DEF TypeOK
  <1>2. r \in 1..Len(requests) /\ requests[r] \in [conn : 1..MaxConn, want : Want]
    BY <1>1, SeqDomain, Zenon
  <1>3. QED
    BY <1>1, <1>2, Sizes

LEMMA TypeInit == Init => TypeInv
  <1> SUFFICES ASSUME Init PROVE TypeInv
    OBVIOUS
  <1>1. /\ meshIn = <<>> /\ bleTx = <<>> /\ requests = <<>>
        /\ Len(meshIn) = 0 /\ Len(bleTx) = 0 /\ Len(requests) = 0
        /\ meshIn \in Seq(Event) /\ bleTx \in Seq(Message) /\ bleTx \in Seq(Sent)
        /\ requests \in Seq([conn : 1..MaxConn, want : Want])
    BY DEF Init
  <1>2. TypeOK
    <2>1. /\ board \in {"esp32", "nrf52"} /\ bleConnected \in BOOLEAN /\ linkDropped \in BOOLEAN
          /\ waiting \in Message \cup {Nothing} /\ buffer \in Message \cup {Nothing}
          /\ phase \in {"starting", "accepting", "connected", "restarting", "failed"}
          /\ encrypted \in BOOLEAN /\ subscribed \in BOOLEAN
          /\ handled \subseteq 1..Len(requests) /\ seen \subseteq Message
      BY DEF Init
    <2>2. conn \in 0..MaxConn /\ writing \in 0..Len(requests)
      BY <1>1, Sizes DEF Init
    <2>3. Len(meshIn) <= MeshInSize /\ Len(bleTx) <= BleTxSize /\ Len(requests) <= MaxRequests
      BY <1>1, Sizes
    <2>4. QED
      BY <1>1, <2>1, <2>2, <2>3 DEF TypeOK
  <1>3. Known
    BY <1>1 DEF Init, Known
  <1>4. Numbered /\ Stopped
    BY <1>1 DEF Init, Numbered, Stopped
  <1>5. QED
    BY <1>2, <1>3, <1>4 DEF TypeInv

\* An event that is no request may find room in mesh_in.
LEMMA EventFits ==
  ASSUME TypeInv, NEW e \in Event, e.kind # "write",
         meshIn' = Offer(meshIn, MeshInSize, <<e>>)
  PROVE  /\ meshIn' \in Seq(Event) /\ Len(meshIn') <= MeshInSize
         /\ Len(meshIn') = IF Len(meshIn) = MeshInSize THEN MeshInSize ELSE Len(meshIn) + 1
         /\ \A i \in 1..Len(meshIn) : meshIn'[i] = meshIn[i]
         /\ Len(meshIn) # MeshInSize => meshIn'[Len(meshIn) + 1] = e
         /\ \A i \in DOMAIN meshIn' : meshIn'[i].kind = "write" => meshIn'[i].of \in 1..Len(requests)
  <1>1. meshIn \in Seq(Event) /\ Len(meshIn) <= MeshInSize /\ MeshInSize \in Nat
    BY Sizes DEF TypeInv, TypeOK
  <1>2. /\ meshIn' \in Seq(Event)
        /\ Len(meshIn') = IF Len(meshIn) = MeshInSize THEN MeshInSize ELSE Len(meshIn) + 1
        /\ \A i \in 1..Len(meshIn) : meshIn'[i] = meshIn[i]
        /\ Len(meshIn) # MeshInSize => meshIn'[Len(meshIn) + 1] = e
    BY <1>1, OfferOne
  <1>3. Len(meshIn') <= MeshInSize
    BY <1>1, <1>2
  <1>4. ASSUME NEW i \in DOMAIN meshIn', meshIn'[i].kind = "write"
        PROVE  meshIn'[i].of \in 1..Len(requests)
    <2>1. i \in 1..Len(meshIn')
      BY <1>2
    <2>2. CASE i \in 1..Len(meshIn)
      BY <1>1, <1>2, <1>4, <2>2 DEF TypeInv, Known
    <2>3. CASE i \notin 1..Len(meshIn)
      <3>1. Len(meshIn) # MeshInSize /\ i = Len(meshIn) + 1
        BY <1>1, <1>2, <2>1, <2>3
      <3>2. QED
        BY <1>2, <1>4, <3>1
    <2>4. QED
      BY <2>2, <2>3
  <1>5. QED
    BY <1>2, <1>3, <1>4

\* ble_tx is filled with what concerns requests already written.
LEMMA MessagesFit ==
  ASSUME TypeInv, NEW messages \in Seq(Sent),
         bleTx' = Offer(bleTx, BleTxSize, messages)
  PROVE  /\ bleTx' \in Seq(Sent) /\ Len(bleTx') <= BleTxSize
         /\ Len(bleTx) <= Len(bleTx')
         /\ \A i \in 1..Len(bleTx) : bleTx'[i] = bleTx[i]
         /\ \A i \in 1..Len(bleTx') :
              i > Len(bleTx) => /\ i - Len(bleTx) \in 1..Len(messages)
                                /\ bleTx'[i] = messages[i - Len(bleTx)]
  <1>1. bleTx \in Seq(Sent) /\ Len(bleTx) <= BleTxSize /\ BleTxSize \in Nat
    BY Sizes DEF TypeInv, TypeOK, Known
  <1>2. /\ bleTx' \in Seq(Sent)
        /\ Len(bleTx') = IF BleTxSize - Len(bleTx) <= Len(messages) THEN BleTxSize
                         ELSE Len(bleTx) + Len(messages)
        /\ \A i \in 1..Len(bleTx) : bleTx'[i] = bleTx[i]
        /\ \A i \in 1..Len(bleTx') :
              i > Len(bleTx) => /\ i - Len(bleTx) \in 1..Len(messages)
                                /\ bleTx'[i] = messages[i - Len(bleTx)]
    BY <1>1, OfferKeeps
  <1>3. Len(bleTx') <= BleTxSize /\ Len(bleTx) <= Len(bleTx')
    <2>1. Len(bleTx) \in Nat /\ Len(messages) \in Nat
      BY <1>1
    <2>2. QED
      BY <1>1, <1>2, <2>1
  <1>4. QED
    BY <1>2, <1>3

LEMMA SubSeqType ==
  ASSUME NEW S, NEW T, S \subseteq T, NEW queue \in Seq(S)
  PROVE  queue \in Seq(T)
  OBVIOUS

InMeshIn(queue) ==
  /\ queue \in Seq(Event) /\ Len(queue) <= MeshInSize
  /\ \A i \in DOMAIN queue : queue[i].kind = "write" => queue[i].of \in 1..Len(requests)

InBleTx(queue) == queue \in Seq(Sent) /\ Len(queue) <= BleTxSize

\* The phase and the number of the connection go on together.
Advances ==
  \/ phase' = phase /\ conn' = conn
  \/ phase' \in {"starting", "accepting", "restarting"} /\ conn' = conn
  \/ phase' = "connected" /\ conn < MaxConn /\ conn' = conn + 1
  \/ phase' = "failed" /\ conn' = conn /\ ~Esp32

LEMMA TypeParts ==
  ASSUME TypeInv
  PROVE  /\ InMeshIn(meshIn) /\ InBleTx(bleTx)
         /\ bleConnected \in BOOLEAN /\ linkDropped \in BOOLEAN
         /\ encrypted \in BOOLEAN /\ subscribed \in BOOLEAN
         /\ waiting \in Sent \cup {Nothing} /\ buffer \in Sent \cup {Nothing} /\ seen \subseteq Sent
         /\ handled \subseteq 1..Len(requests) /\ writing \in 0..Len(requests)
         /\ Len(requests) \in Nat /\ Len(requests) <= MaxRequests
  BY DEF TypeInv, TypeOK, Known, InMeshIn, InBleTx

\* What a step that writes no request has to respect.
LEMMA TypeFrom ==
  ASSUME TypeInv, UNCHANGED <<board, requests>>, Advances,
         InMeshIn(meshIn'), InBleTx(bleTx'),
         bleConnected' \in BOOLEAN, linkDropped' \in BOOLEAN,
         encrypted' \in BOOLEAN, subscribed' \in BOOLEAN,
         waiting' \in Sent \cup {Nothing}, buffer' \in Sent \cup {Nothing}, seen' \subseteq Sent,
         handled' \subseteq 1..Len(requests), writing' \in {0, writing}
  PROVE  TypeInv'
  <1>1. Sent' = Sent /\ Sent \subseteq Message
    BY MessagesSent DEF TypeInv, Sent
  <1>2. /\ conn \in 0..MaxConn /\ writing \in 0..Len(requests) /\ MaxConn \in Nat
        /\ requests \in Seq([conn : 1..MaxConn, want : Want]) /\ Len(requests) <= MaxRequests
        /\ board \in {"esp32", "nrf52"}
        /\ phase \in {"starting", "accepting", "connected", "restarting", "failed"}
    BY Sizes DEF TypeInv, TypeOK
  <1>3. TypeOK'
    <2>1. conn' \in 0..MaxConn
      BY <1>2 DEF Advances
    <2>2. phase' \in {"starting", "accepting", "connected", "restarting", "failed"}
      BY <1>2 DEF Advances
    <2>3. bleTx' \in Seq(Message) /\ Len(bleTx') <= BleTxSize
      BY <1>1, SubSeqType DEF InBleTx
    <2>4. meshIn' \in Seq(Event) /\ Len(meshIn') <= MeshInSize
      BY DEF InMeshIn
    <2>5. writing' \in 0..Len(requests)
      BY <1>2
    <2>6. QED
      BY <1>1, <1>2, <2>1, <2>2, <2>3, <2>4, <2>5 DEF TypeOK
  <1>4. Known'
    BY <1>1 DEF InMeshIn, InBleTx, Known
  <1>5. Numbered'
    <2>1. conn \in Int /\ conn <= conn' /\ conn' \in Int
      BY <1>2 DEF Advances
    <2>2. phase' = "connected" => conn' >= 1
      BY <1>2 DEF Advances, TypeInv, Numbered
    <2>3. ASSUME NEW r \in DOMAIN requests PROVE requests[r].conn <= conn'
      <3>1. requests[r].conn \in 1..MaxConn
        BY RequestType DEF TypeInv
      <3>2. requests[r].conn <= conn
        BY DEF TypeInv, Numbered
      <3>3. QED
        BY <1>2, <2>1, <3>1, <3>2
    <2>4. QED
      BY <2>2, <2>3 DEF Numbered
  <1>6. Stopped'
    BY DEF TypeInv, Stopped, Advances, Esp32
  <1>7. QED
    BY <1>3, <1>4, <1>5, <1>6 DEF TypeInv

LEMMA TypeQuiet ==
  ASSUME TypeInv,
         \/ AdvertiseNrf52 \/ AcceptFails \/ Accept \/ Subscribe \/ RunnerFailsNrf52 \/ Restart
         \/ UNCHANGED vars
  PROVE  TypeInv'
  <1>1. /\ UNCHANGED <<board, requests, meshIn, bleTx, bleConnected, waiting, handled, writing,
                       linkDropped>>
        /\ Advances
        /\ encrypted' \in {FALSE, encrypted} /\ subscribed' \in {FALSE, subscribed, ~subscribed}
        /\ buffer' \in {Nothing, buffer} /\ seen' \in {{}, seen}
    BY DEF AdvertiseNrf52, AcceptFails, Accept, Subscribe, RunnerFailsNrf52, Restart, vars,
           queues, mesh, ble, session, CloseSession, Advances, Serving
  <1>2. QED
    BY <1>1, TypeParts, TypeFrom

LEMMA TypeLink ==
  ASSUME TypeInv, LoraFrame \/ Encrypt \/ Disconnect \/ RunnerFailsEsp32
  PROVE  TypeInv'
  <1>1. \E e \in Event : e.kind # "write" /\ meshIn' = Offer(meshIn, MeshInSize, <<e>>)
    BY Kinds DEF LoraFrame, Encrypt, Disconnect, RunnerFailsEsp32, Report
  <1>2. InMeshIn(meshIn')
    BY <1>1, EventFits DEF InMeshIn
  <1>3. /\ UNCHANGED <<board, requests, bleTx, bleConnected, waiting, handled>>
        /\ Advances /\ linkDropped' \in BOOLEAN /\ writing' \in {0, writing}
        /\ encrypted' \in {FALSE, TRUE, encrypted} /\ subscribed' \in {FALSE, subscribed}
        /\ buffer' \in {Nothing, buffer} /\ seen' \in {{}, seen}
    BY TypeParts DEF LoraFrame, Encrypt, Disconnect, RunnerFailsEsp32, Report, vars,
           mesh, ble, session, CloseSession, Advances, Serving
  <1>4. QED
    BY <1>2, <1>3, TypeParts, TypeFrom

LEMMA TypeQueue ==
  ASSUME TypeInv, AdvertiseEsp32 \/ Resume \/ ReadFromRadio \/ Notify
  PROVE  TypeInv'
  <1>1. /\ UNCHANGED <<board, requests, meshIn, bleConnected, handled, writing, linkDropped,
                       encrypted, subscribed>>
        /\ Advances
    BY DEF AdvertiseEsp32, Resume, ReadFromRadio, Notify, mesh, ble, session, Advances, Serving
  <1>2. InBleTx(bleTx) /\ bleTx \in Seq(Sent) /\ Len(bleTx) \in Nat /\ BleTxSize \in Nat \ {0}
    BY TypeParts, Sizes DEF InBleTx
  <1>3. bleTx # <<>> => InBleTx(Tail(bleTx)) /\ Head(bleTx) \in Sent
    BY <1>2, TailShifts DEF InBleTx
  <1>4. /\ InBleTx(bleTx') /\ waiting' \in Sent \cup {Nothing}
        /\ buffer' \in Sent \cup {Nothing} /\ seen' \subseteq Sent
    <2>1. CASE AdvertiseEsp32
      BY <1>2, <2>1, TypeParts DEF AdvertiseEsp32, mesh, session, InBleTx
    <2>2. CASE Resume
      <3>1. waiting \in Sent /\ bleTx' = Append(bleTx, waiting) /\ Len(bleTx) < BleTxSize
        BY <2>2, TypeParts DEF Resume
      <3>2. InBleTx(bleTx')
        BY <1>2, <3>1, AppendKeeps DEF InBleTx
      <3>3. QED
        BY <2>2, <3>2, TypeParts DEF Resume, ble, session
    <2>3. CASE ReadFromRadio
      BY <1>2, <1>3, <2>3, TypeParts DEF ReadFromRadio, Show, mesh
    <2>4. CASE Notify
      BY <1>2, <1>3, <2>4, TypeParts DEF Notify, mesh
    <2>5. QED
      BY <2>1, <2>2, <2>3, <2>4
  <1>5. QED
    BY <1>1, <1>4, TypeParts, TypeFrom

LEMMA TypeDeliver ==
  ASSUME TypeInv, Deliver
  PROVE  TypeInv'
  <1>1. /\ meshIn \in Seq(Event) /\ writing \in 1..Len(requests) /\ Len(requests) \in Nat
        /\ Len(requests) <= MaxRequests /\ Len(meshIn) < MeshInSize /\ Len(meshIn) \in Nat
        /\ meshIn' = Append(meshIn, Write(writing)) /\ MaxRequests \in Nat /\ MeshInSize \in Nat
    BY TypeParts, Sizes DEF Deliver, InMeshIn
  <1>2. Write(writing) \in Event /\ Write(writing).of = writing
    <2>1. writing \in 1..MaxRequests
      BY <1>1
    <2>2. QED
      BY <2>1, Kinds
  <1>3. /\ meshIn' \in Seq(Event) /\ Len(meshIn') = Len(meshIn) + 1
        /\ \A i \in 1..Len(meshIn) : meshIn'[i] = meshIn[i]
        /\ meshIn'[Len(meshIn) + 1] = Write(writing)
    BY <1>1, <1>2, AppendKeeps
  <1>4. InMeshIn(meshIn')
    BY <1>1, <1>2, <1>3, TypeParts DEF InMeshIn
  <1>5. UNCHANGED <<board, requests, bleTx, mesh, phase, conn, session, linkDropped>> /\ writing' = 0
    BY DEF Deliver
  <1>6. QED
    BY <1>4, <1>5, TypeParts, TypeFrom DEF mesh, session, Advances

LEMMA TypeWrite ==
  ASSUME TypeInv, WriteToRadio
  PROVE  /\ TypeInv' /\ Sent \subseteq Sent'
         /\ Len(requests') = Len(requests) + 1 /\ DOMAIN requests' = 1..(Len(requests) + 1)
         /\ \A r \in 1..Len(requests) : requests'[r] = requests[r]
         /\ requests'[Len(requests) + 1].conn = conn
         /\ writing' = Len(requests) + 1
  <1> DEFINE R == [conn : 1..MaxConn, want : Want]
  <1>1. /\ requests \in Seq(R) /\ Len(requests) \in Nat /\ Len(requests) < MaxRequests
        /\ conn \in 1..MaxConn /\ MaxRequests \in Nat /\ MaxConn \in Nat
    BY Sizes DEF TypeInv, TypeOK, Numbered, WriteToRadio, Serving
  <1>2. PICK want \in Want : requests' = Append(requests, [conn |-> conn, want |-> want])
    BY DEF WriteToRadio
  <1>3. PICK q \in R : q = [conn |-> conn, want |-> want] /\ q.conn = conn
    <2>1. [conn |-> conn, want |-> want] \in R
      BY <1>1, <1>2
    <2>2. [conn |-> conn, want |-> want].conn = conn
      OBVIOUS
    <2>3. QED
      BY <2>1, <2>2
  <1>4. /\ requests' \in Seq(R) /\ Len(requests') = Len(requests) + 1
        /\ \A i \in 1..Len(requests) : requests'[i] = requests[i]
        /\ requests'[Len(requests) + 1] = q
    BY <1>1, <1>2, <1>3, AppendKeeps
  <1>5. writing' = Len(requests) + 1
    BY <1>4 DEF WriteToRadio
  <1>6. /\ UNCHANGED <<board, meshIn, bleTx, bleConnected, waiting, handled, phase, conn,
                       encrypted, subscribed, buffer, seen, linkDropped>>
        /\ phase = "connected"
    BY DEF WriteToRadio, Serving, queues, mesh, session
  <1>7. Sent \subseteq Sent' /\ 1..Len(requests) \subseteq 1..Len(requests')
    BY <1>1, <1>4 DEF Sent
  <1>8. TypeOK'
    <2>1. Len(requests') <= MaxRequests /\ writing' \in 0..Len(requests')
      BY <1>1, <1>4, <1>5
    <2>2. handled' \subseteq 1..Len(requests')
      BY <1>6, <1>7, TypeParts
    <2>3. QED
      BY <1>4, <1>6, <2>1, <2>2 DEF TypeInv, TypeOK
  <1>9. Known'
    <2>1. bleTx' \in Seq(Sent')
      BY <1>6, <1>7, TypeParts, SubSeqType DEF InBleTx
    <2>2. QED
      BY <1>6, <1>7, <2>1 DEF TypeInv, Known
  <1>10. Numbered'
    <2>1. ASSUME NEW r \in DOMAIN requests' PROVE requests'[r].conn <= conn
      <3>1. CASE r \in 1..Len(requests)
        <4>1. r \in DOMAIN requests
          BY <1>1, <3>1, SeqDomain
        <4>2. requests'[r] = requests[r]
          BY <1>4, <3>1
        <4>3. QED
          BY <4>1, <4>2 DEF TypeInv, Numbered
      <3>2. CASE r = Len(requests) + 1
        BY <1>1, <1>3, <1>4, <3>2
      <3>3. QED
        BY <1>1, <1>4, <3>1, <3>2
    <2>2. QED
      BY <1>1, <1>6, <2>1 DEF Numbered
  <1>11. Stopped'
    BY <1>6 DEF TypeInv, Stopped, Esp32
  <1>12. DOMAIN requests' = 1..(Len(requests) + 1)
    BY <1>4
  <1>13. QED
    BY <1>3, <1>4, <1>5, <1>7, <1>8, <1>9, <1>10, <1>11, <1>12 DEF TypeInv

\* What an exchange of messages leaves in ble_tx: all that was there, then parts of the
\* exchange from the first, then updates.
LEMMA ExchangeFits ==
  ASSUME TypeInv, NEW r \in 1..Len(requests), SendExchange(r)
  PROVE  /\ InBleTx(bleTx') /\ Len(bleTx) <= Len(bleTx')
         /\ \A i \in 1..Len(bleTx) : bleTx'[i] = bleTx[i]
         /\ \A k \in 1..Len(bleTx') : k > Len(bleTx) =>
              bleTx'[k] = IF k - Len(bleTx) <= Exchange THEN Part(r, k - Len(bleTx)) ELSE Live
  <1>1. PICK n \in Nat : bleTx' = Offer(bleTx, BleTxSize, Parts(r) \o Satellites(n))
    BY Sizes DEF SendExchange
  <1>2. /\ Parts(r) \in Seq(Sent) /\ Len(Parts(r)) = Exchange
        /\ \A i \in 1..Exchange : Parts(r)[i] = Part(r, i)
    <2>1. \A i \in 1..Exchange : Part(r, i) \in Sent
      BY MessagesSent, Sizes DEF TypeInv
    <2>2. QED
      BY <2>1, Sizes DEF Parts
  <1>3. /\ Satellites(n) \in Seq(Sent) /\ Len(Satellites(n)) = n
        /\ \A i \in 1..n : Satellites(n)[i] = Live
    <2>1. Live \in Sent
      BY MessagesSent DEF TypeInv
    <2>2. QED
      BY <2>1 DEF Satellites
  <1>4. PICK ms \in Seq(Sent) :
          /\ ms = Parts(r) \o Satellites(n)
          /\ Len(ms) = Exchange + n
          /\ \A i \in 1..(Exchange + n) : ms[i] = IF i <= Exchange THEN Part(r, i) ELSE Live
    <2>1. PICK ps \in Seq(Sent), us \in Seq(Sent) : ps = Parts(r) /\ us = Satellites(n)
      BY <1>2, <1>3
    <2>2. PICK ms \in Seq(Sent) :
            /\ ms = ps \o us /\ Len(ms) = Len(ps) + Len(us)
            /\ \A i \in 1..(Len(ps) + Len(us)) :
                 ms[i] = IF i <= Len(ps) THEN ps[i] ELSE us[i - Len(ps)]
      <3>1. /\ ps \o us \in Seq(Sent) /\ Len(ps \o us) = Len(ps) + Len(us)
            /\ \A i \in 1..(Len(ps) + Len(us)) :
                 (ps \o us)[i] = IF i <= Len(ps) THEN ps[i] ELSE us[i - Len(ps)]
        BY ConcatProperties
      <3>2. QED
        BY <3>1, Zenon
    <2>3. /\ Len(ps) = Exchange /\ \A i \in 1..Exchange : ps[i] = Part(r, i)
          /\ Len(us) = n /\ \A i \in 1..n : us[i] = Live
      BY <1>2, <1>3, <2>1
    <2>4. ASSUME NEW i \in 1..(Exchange + n)
          PROVE  ms[i] = IF i <= Exchange THEN Part(r, i) ELSE Live
      <3>1. CASE i <= Exchange
        BY <2>2, <2>3, <3>1, Sizes
      <3>2. CASE i > Exchange
        <4>1. i - Exchange \in 1..n
          BY <3>2, Sizes
        <4>2. QED
          BY <2>2, <2>3, <3>2, <4>1, Sizes
      <3>3. QED
        BY <3>1, <3>2, Sizes
    <2>5. QED
      BY <2>1, <2>2, <2>3, <2>4
  <1>5. /\ bleTx' \in Seq(Sent) /\ Len(bleTx') <= BleTxSize
        /\ Len(bleTx) <= Len(bleTx')
        /\ \A i \in 1..Len(bleTx) : bleTx'[i] = bleTx[i]
        /\ \A i \in 1..Len(bleTx') :
             i > Len(bleTx) => /\ i - Len(bleTx) \in 1..Len(ms)
                               /\ bleTx'[i] = ms[i - Len(bleTx)]
    BY <1>1, <1>4, MessagesFit
  <1>6. QED
    BY <1>4, <1>5 DEF InBleTx

\* The four things the mesh task may find at the head of mesh_in.
LEMMA HandleCases ==
  ASSUME TypeInv, Handle
  PROVE  /\ waiting = Nothing /\ meshIn # <<>>
         /\ meshIn' = Tail(meshIn) /\ InMeshIn(meshIn')
         /\ UNCHANGED <<board, requests, phase, conn, encrypted, subscribed, buffer, seen,
                        writing, linkDropped>>
         /\ \/ meshIn[1] = Frame /\ HandleFrame
            \/ meshIn[1] \in Link /\ HandleLink(meshIn[1])
            \/ \E r \in 1..Len(requests) :
                 /\ meshIn[1] = Write(r)
                 /\ handled' = handled \cup {r} /\ bleConnected' = bleConnected
                 /\ \/ requests[r].want = "config" /\ SendExchange(r)
                    \/ requests[r].want = "admin" /\ SendAdminResponse(r)
  <1>1. /\ waiting = Nothing /\ meshIn # <<>> /\ meshIn' = Tail(meshIn)
        /\ UNCHANGED <<board, requests, phase, conn, encrypted, subscribed, buffer, seen,
                       writing, linkDropped>>
    BY DEF Handle, ble, session
  <1>2. meshIn \in Seq(Event) /\ Len(meshIn) <= MeshInSize /\ MeshInSize \in Nat
    BY TypeParts, Sizes DEF InMeshIn
  <1>3. /\ Head(meshIn) \in Event /\ Head(meshIn) = meshIn[1] /\ Len(meshIn) >= 1
        /\ Tail(meshIn) \in Seq(Event) /\ Len(Tail(meshIn)) = Len(meshIn) - 1
        /\ \A i \in 1..Len(Tail(meshIn)) : Tail(meshIn)[i] = meshIn[i + 1]
    BY <1>1, <1>2, TailShifts
  <1>4. InMeshIn(Tail(meshIn))
    BY <1>2, <1>3, TypeParts DEF InMeshIn
  <1>5. meshIn[1].kind = "write" => meshIn[1].of \in 1..Len(requests)
    BY <1>2, <1>3, TypeParts DEF InMeshIn
  <1> DEFINE e == meshIn[1]
  <1>6. CASE e.kind = "frame"
    BY <1>1, <1>3, <1>4, <1>6, EventKinds DEF Handle
  <1>7. CASE e.kind = "write"
    <2>1. HandleRequest(e.of) /\ e = Write(e.of)
      BY <1>3, <1>7, EventKinds DEF Handle
    <2>2. PICK r \in 1..Len(requests) : r = e.of
      BY <1>5, <1>7
    <2>3. requests[r].want \in Want
      BY RequestType, <2>2 DEF TypeInv, TypeOK
    <2>4. \/ requests[r].want = "config" /\ SendExchange(r)
          \/ requests[r].want = "admin" /\ SendAdminResponse(r)
      BY <2>1, <2>2, <2>3 DEF HandleRequest, Want
    <2>5. handled' = handled \cup {r} /\ bleConnected' = bleConnected
      BY <2>1, <2>2 DEF HandleRequest
    <2>6. QED
      BY <1>1, <1>4, <2>1, <2>2, <2>4, <2>5
  <1>8. CASE e.kind # "frame" /\ e.kind # "write"
    <2>1. HandleLink(e) /\ e \in Link
      BY <1>3, <1>8, EventKinds DEF Handle
    <2>2. QED
      BY <1>1, <1>4, <2>1
  <1>9. QED
    BY <1>6, <1>7, <1>8

LEMMA TypeHandle ==
  ASSUME TypeInv, Handle
  PROVE  TypeInv'
  <1>1. /\ InMeshIn(meshIn') /\ Advances
        /\ UNCHANGED <<board, requests, encrypted, subscribed, buffer, seen, writing, linkDropped>>
    BY HandleCases DEF Advances
  <1>2. /\ InBleTx(bleTx') /\ bleConnected' \in BOOLEAN
        /\ waiting' \in Sent \cup {Nothing} /\ handled' \subseteq 1..Len(requests)
    <2>1. CASE HandleFrame
      <3>1. PICK n \in 0..(MaxUpdates + (IF bleConnected THEN 1 ELSE 0)) :
              bleTx' = Offer(bleTx, BleTxSize, [i \in 1..n |-> Live])
        BY <2>1 DEF HandleFrame
      <3>5. n \in Nat
        BY Sizes
      <3>2. [i \in 1..n |-> Live] \in Seq(Sent)
        BY <3>5, MessagesSent DEF TypeInv
      <3>3. InBleTx(bleTx')
        BY <3>1, <3>2, MessagesFit DEF InBleTx
      <3>4. QED
        BY <2>1, <3>3, TypeParts DEF HandleFrame, mesh
    <2>2. CASE HandleLink(meshIn[1])
      BY <2>2, TypeParts DEF HandleLink
    <2>3. ASSUME NEW r \in 1..Len(requests), handled' = handled \cup {r},
                 bleConnected' = bleConnected, SendExchange(r)
          PROVE  /\ InBleTx(bleTx') /\ bleConnected' \in BOOLEAN
                 /\ waiting' \in Sent \cup {Nothing} /\ handled' \subseteq 1..Len(requests)
      BY <2>3, ExchangeFits, TypeParts DEF SendExchange
    <2>4. ASSUME NEW r \in 1..Len(requests), handled' = handled \cup {r},
                 bleConnected' = bleConnected, SendAdminResponse(r)
          PROVE  /\ InBleTx(bleTx') /\ bleConnected' \in BOOLEAN
                 /\ waiting' \in Sent \cup {Nothing} /\ handled' \subseteq 1..Len(requests)
      <3>1. Completion(r) \in Sent
        BY MessagesSent, PartIs, Sizes DEF TypeInv
      <3>2. bleTx \in Seq(Sent) /\ Len(bleTx) <= BleTxSize /\ BleTxSize \in Nat
        BY TypeParts, Sizes DEF InBleTx
      <3>3. CASE Len(bleTx) < BleTxSize
        BY <2>4, <3>1, <3>2, <3>3, AppendKeeps, TypeParts DEF SendAdminResponse, InBleTx
      <3>4. CASE ~(Len(bleTx) < BleTxSize)
        BY <2>4, <3>1, <3>4, TypeParts DEF SendAdminResponse
      <3>5. QED
        BY <3>3, <3>4
    <2>5. QED
      BY <2>1, <2>2, <2>3, <2>4, HandleCases
  <1>3. QED
    BY <1>1, <1>2, TypeParts, TypeFrom

LEMMA TypeStep ==
  ASSUME TypeInv, [Next]_vars
  PROVE  TypeInv'
  BY TypeQuiet, TypeLink, TypeQueue, TypeDeliver, TypeWrite, TypeHandle
     DEF Next, Phone, BleTask, MeshTask

-----------------------------------------------------------------------------
(* An answer that waits is an admin's.                                     *)

LEMMA AdminWaitsStep ==
  ASSUME TypeInv, AdminWaits, [Next]_vars
  PROVE  AdminWaits'
  <1>1. CASE UNCHANGED <<waiting, requests>>
    BY <1>1 DEF AdminWaits
  <1>2. CASE Resume
    BY <1>2 DEF Resume, AdminWaits
  <1>3. CASE WriteToRadio
    <2>1. waiting' = waiting /\ DOMAIN requests = 1..Len(requests) /\ Len(requests) \in Nat
      BY <1>3 DEF WriteToRadio, mesh, TypeInv, TypeOK
    <2>2. \A r \in DOMAIN requests : r \in DOMAIN requests' /\ requests'[r] = requests[r]
      BY <1>3, <2>1, TypeWrite
    <2>3. QED
      BY <2>1, <2>2 DEF AdminWaits
  <1>4. CASE Handle
    <2>1. waiting = Nothing /\ requests' = requests
      BY <1>4, HandleCases
    <2>2. CASE waiting' = waiting
      BY <2>1, <2>2 DEF AdminWaits
    <2>3. CASE waiting' # waiting
      <3>1. PICK r \in 1..Len(requests) : requests[r].want = "admin" /\ SendAdminResponse(r)
        BY <1>4, <2>3, HandleCases DEF HandleFrame, HandleLink, SendExchange, mesh
      <3>2. waiting' = Completion(r)
        BY <2>3, <3>1 DEF SendAdminResponse
      <3>3. r \in DOMAIN requests
        BY <3>1 DEF TypeInv, TypeOK
      <3>4. QED
        BY <2>1, <3>1, <3>2, <3>3 DEF AdminWaits
    <2>4. QED
      BY <2>2, <2>3
  <1>5. CASE ~Resume /\ ~WriteToRadio /\ ~Handle
    <2>1. UNCHANGED <<waiting, requests>>
      BY <1>5 DEF Next, Phone, BleTask, MeshTask, LoraFrame, AdvertiseEsp32, AdvertiseNrf52,
         AcceptFails, Accept, Encrypt, Subscribe, Deliver, ReadFromRadio, Notify, Disconnect,
         RunnerFailsEsp32, RunnerFailsNrf52, Restart, vars, mesh
    <2>2. QED
      BY <1>1, <2>1
  <1>6. QED
    BY <1>2, <1>3, <1>4, <1>5

-----------------------------------------------------------------------------
(* The last link event tells the truth.                                    *)

LEMMA LinkQuiet ==
  ASSUME LinkTold, UNCHANGED <<linkDropped, meshIn, bleConnected, encrypted>>,
         phase' # "failed" => phase # "failed"
  PROVE  LinkTold'
  BY DEF LinkTold, LinkPending, LinkEvent

\* An event of another kind joins mesh_in, or does not.
LEMMA LinkSpared ==
  ASSUME TypeInv, LinkTold, UNCHANGED <<phase, linkDropped, bleConnected, encrypted>>,
         meshIn' \in Seq(Event),
         Len(meshIn') = Len(meshIn) \/ Len(meshIn') = Len(meshIn) + 1,
         \A i \in 1..Len(meshIn) : meshIn'[i] = meshIn[i],
         Len(meshIn') = Len(meshIn) + 1 => meshIn'[Len(meshIn) + 1] \notin Link
  PROVE  LinkTold'
  <1>1. /\ Len(meshIn) \in Nat /\ DOMAIN meshIn = 1..Len(meshIn)
        /\ DOMAIN meshIn' = 1..Len(meshIn')
    BY TypeParts DEF InMeshIn
  <1> DEFINE n == Len(meshIn)
             l == Len(meshIn')
  <1>6. /\ n \in Nat /\ l \in Nat /\ (l = n \/ l = n + 1)
        /\ DOMAIN meshIn = 1..n /\ DOMAIN meshIn' = 1..l
        /\ \A i \in 1..n : meshIn'[i] = meshIn[i]
        /\ l = n + 1 => meshIn'[n + 1] \notin Link
    <2>1. l = n \/ l = n + 1
      OBVIOUS
    <2>2. n \in Nat /\ l \in Nat
      BY SeqDomain, TypeParts DEF InMeshIn
    <2>3. QED
      BY <1>1, <2>1, <2>2
  <1> HIDE DEF n, l
  <1>2. \A j \in DOMAIN meshIn' : j \in DOMAIN meshIn \/ meshIn'[j] \notin Link
    <2> SUFFICES ASSUME NEW j \in 1..l, j \notin 1..n PROVE meshIn'[j] \notin Link
      BY <1>6
    <2>1. l = n + 1 /\ j = n + 1
      BY <1>6
    <2>2. QED
      BY <1>6, <2>1
  <1>3. \A j \in DOMAIN meshIn : j \in DOMAIN meshIn' /\ meshIn'[j] = meshIn[j]
    <2> SUFFICES ASSUME NEW j \in 1..n PROVE j \in 1..l /\ meshIn'[j] = meshIn[j]
      BY <1>6
    <2>1. QED
      BY <1>6
  <1>4. LinkPending' <=> LinkPending
    BY <1>2, <1>3 DEF LinkPending, Link
  <1>5. QED
    BY <1>2, <1>3, <1>4 DEF LinkTold, LinkEvent

LEMMA LinkReported ==
  ASSUME TypeInv, NEW e \in Link, Report(e), e = LinkEvent'
  PROVE  LinkTold'
  <1>1. CASE linkDropped'
    BY <1>1 DEF LinkTold
  <1>2. CASE ~linkDropped'
    <2>1. /\ meshIn' = Offer(meshIn, MeshInSize, <<e>>) /\ Len(meshIn) # MeshInSize
      BY <1>2 DEF Report
    <2>2. e \in Event /\ e.kind # "write"
      BY Kinds DEF Link
    <2>3. /\ meshIn' \in Seq(Event) /\ Len(meshIn') = Len(meshIn) + 1 /\ Len(meshIn) \in Nat
          /\ meshIn'[Len(meshIn) + 1] = e
      BY <2>1, <2>2, EventFits, TypeParts DEF InMeshIn
    <2>4. PICK i \in DOMAIN meshIn' : i = Len(meshIn')
      BY <2>3
    <2>5. meshIn'[i] = LinkEvent' /\ \A j \in DOMAIN meshIn' : ~(j > i)
      BY <2>3, <2>4
    <2>6. QED
      BY <2>4, <2>5 DEF LinkTold
  <1>3. QED
    BY <1>1, <1>2

LEMMA LinkHandled ==
  ASSUME TypeInv, LinkTold, Handle
  PROVE  LinkTold'
  <1>1. /\ meshIn # <<>> /\ meshIn' = Tail(meshIn)
        /\ UNCHANGED <<phase, encrypted, linkDropped>>
    BY HandleCases
  <1>2. /\ Len(meshIn) \in Nat /\ Len(meshIn) >= 1 /\ DOMAIN meshIn = 1..Len(meshIn)
        /\ DOMAIN meshIn' = 1..(Len(meshIn) - 1)
        /\ \A i \in 1..(Len(meshIn) - 1) : meshIn'[i] = meshIn[i + 1]
    <2>1. meshIn \in Seq(Event)
      BY TypeParts DEF InMeshIn
    <2>2. QED
      BY <1>1, <2>1, TailShifts, SeqDomain
  <1>3. meshIn[1] \notin Link => bleConnected' = bleConnected
    BY HandleCases DEF HandleFrame, HandleLink, mesh
  <1>4. meshIn[1] \in Link => bleConnected' = (meshIn[1] = Connected)
    BY HandleCases, Kinds DEF HandleLink
  <1> SUFFICES ASSUME phase # "failed", ~linkDropped
               PROVE  \/ ~LinkPending' /\ (bleConnected' <=> encrypted)
                      \/ \E i \in DOMAIN meshIn' :
                           /\ meshIn'[i] = LinkEvent
                           /\ \A j \in DOMAIN meshIn' : j > i => meshIn'[j] \notin Link
    BY <1>1 DEF LinkTold, LinkEvent
  <1>5. CASE ~LinkPending /\ (bleConnected <=> encrypted)
    <2>1. meshIn[1] \notin Link /\ ~LinkPending'
      BY <1>2, <1>5 DEF LinkPending, Link
    <2>2. QED
      BY <1>3, <1>5, <2>1
  <1>6. ASSUME NEW i \in DOMAIN meshIn, meshIn[i] = LinkEvent,
               \A j \in DOMAIN meshIn : j > i => meshIn[j] \notin Link
        PROVE  \/ ~LinkPending' /\ (bleConnected' <=> encrypted)
               \/ \E k \in DOMAIN meshIn' :
                    /\ meshIn'[k] = LinkEvent
                    /\ \A j \in DOMAIN meshIn' : j > k => meshIn'[j] \notin Link
    <2>1. CASE i = 1
      <3>1. ~LinkPending'
        BY <1>2, <1>6, <2>1 DEF LinkPending, Link
      <3>2. meshIn[1] \in Link /\ (meshIn[1] = Connected <=> encrypted)
        BY <1>6, <2>1, Kinds DEF LinkEvent, Link
      <3>3. QED
        BY <1>4, <3>1, <3>2
    <2>2. CASE i # 1
      <3>1. i - 1 \in DOMAIN meshIn' /\ meshIn'[i - 1] = meshIn[i]
        BY <1>2, <2>2
      <3>2. \A j \in DOMAIN meshIn' : j > i - 1 => meshIn'[j] \notin Link
        BY <1>2, <1>6
      <3>3. QED
        BY <1>6, <3>1, <3>2
    <2>3. QED
      BY <2>1, <2>2
  <1>7. QED
    BY <1>5, <1>6 DEF LinkTold

LEMMA LinkStep ==
  ASSUME TypeInv, LinkTold, [Next]_vars
  PROVE  LinkTold'
  <1>1. CASE \/ AdvertiseEsp32 \/ AdvertiseNrf52 \/ AcceptFails \/ Accept \/ Subscribe
             \/ WriteToRadio \/ ReadFromRadio \/ Notify \/ Restart \/ Resume \/ UNCHANGED vars
    <2>1. /\ UNCHANGED <<linkDropped, meshIn, bleConnected, encrypted>>
          /\ phase' # "failed" => phase # "failed"
      BY <1>1 DEF AdvertiseEsp32, AdvertiseNrf52, AcceptFails, Accept, Subscribe, WriteToRadio,
         ReadFromRadio, Notify, Restart, Resume, vars, queues, mesh, ble, session
    <2>2. QED
      BY <2>1, LinkQuiet
  <1>2. CASE RunnerFailsNrf52
    BY <1>2 DEF RunnerFailsNrf52, LinkTold
  <1>3. CASE LoraFrame
    <2>1. /\ meshIn' = Offer(meshIn, MeshInSize, <<Frame>>)
          /\ UNCHANGED <<phase, linkDropped, bleConnected, encrypted>>
      BY <1>3 DEF LoraFrame, mesh, ble, session
    <2>2. /\ meshIn' \in Seq(Event)
          /\ Len(meshIn') = IF Len(meshIn) = MeshInSize THEN MeshInSize ELSE Len(meshIn) + 1
          /\ \A i \in 1..Len(meshIn) : meshIn'[i] = meshIn[i]
          /\ Len(meshIn) # MeshInSize => meshIn'[Len(meshIn) + 1] = Frame
      BY <2>1, EventFits, Kinds
    <2>3. QED
      BY <2>1, <2>2, LinkSpared, Kinds, Sizes
  <1>4. CASE Deliver
    <2>1. /\ meshIn \in Seq(Event) /\ meshIn' = Append(meshIn, Write(writing))
          /\ UNCHANGED <<phase, linkDropped, bleConnected, encrypted>>
          /\ writing \in 0..Len(requests) /\ writing # 0 /\ Len(requests) \in Nat
          /\ Len(requests) <= MaxRequests
      BY <1>4, TypeParts DEF Deliver, InMeshIn, mesh, session
    <2>2. Write(writing) \in Event
      BY <2>1, Kinds, Sizes
    <2>3. QED
      BY <2>1, <2>2, AppendKeeps, LinkSpared, Kinds
  <1>5. CASE Encrypt
    BY <1>5, LinkReported DEF Encrypt, LinkEvent, Link
  <1>6. CASE Disconnect \/ RunnerFailsEsp32
    BY <1>6, LinkReported DEF Disconnect, RunnerFailsEsp32, CloseSession, LinkEvent, Link
  <1>7. CASE Handle
    BY <1>7, LinkHandled
  <1>8. QED
    BY <1>1, <1>2, <1>3, <1>4, <1>5, <1>6, <1>7 DEF Next, Phone, BleTask, MeshTask

-----------------------------------------------------------------------------
(* No request and no answer to an admin request is lost.                   *)

\* Where a request is until it is handled, and its answer after that.
Underway(r) == r \in handled \/ writing = r \/ \E i \in DOMAIN meshIn : meshIn[i] = Write(r)
Answered(r) == Completion(r) \in seen \cup {buffer, waiting} \/ \E i \in DOMAIN bleTx : bleTx[i] = Completion(r)

LEMMA KeptMeans ==
  RequestKept <=>
    \A r \in DOMAIN requests : phase = "connected" /\ requests[r].conn = conn =>
      /\ Underway(r)
      /\ r \in handled /\ requests[r].want = "admin" => Answered(r)
  BY DEF RequestKept, Underway, Answered, ToSet

\* A step of a connection keeps all that is under way and answered.
LEMMA KeptFrom ==
  ASSUME RequestKept, UNCHANGED <<phase, conn, requests>>,
         \A r \in DOMAIN requests : Underway(r) => Underway(r)',
         \A r \in DOMAIN requests :
           r \in handled' /\ requests[r].want = "admin" /\ (r \in handled => Answered(r))
             => Answered(r)'
  PROVE  RequestKept'
  <1>1. ASSUME NEW r \in DOMAIN requests, phase = "connected", requests[r].conn = conn
        PROVE  Underway(r)' /\ (r \in handled' /\ requests[r].want = "admin" => Answered(r)')
    BY <1>1, KeptMeans
  <1>2. RequestKept' <=>
          \A r \in DOMAIN requests' : phase' = "connected" /\ requests'[r].conn = conn' =>
            /\ Underway(r)'
            /\ r \in handled' /\ requests'[r].want = "admin" => Answered(r)'
    BY DEF RequestKept, Underway, Answered, ToSet
  <1>3. QED
    BY <1>1, <1>2

\* Events join mesh_in.
LEMMA KeptIn ==
  ASSUME TypeInv, RequestKept, LoraFrame \/ Encrypt \/ Subscribe \/ Deliver
  PROVE  RequestKept'
  <1>1. /\ UNCHANGED <<phase, conn, requests, handled, seen, buffer, waiting, bleTx>>
    BY DEF LoraFrame, Encrypt, Subscribe, Deliver, queues, mesh, ble, session
  <1>2. /\ meshIn \in Seq(Event) /\ Len(meshIn) \in Nat /\ DOMAIN meshIn = 1..Len(meshIn)
    BY TypeParts, SeqDomain DEF InMeshIn
  <1>3. \A i \in DOMAIN meshIn : i \in DOMAIN meshIn' /\ meshIn'[i] = meshIn[i]
    <2>1. CASE LoraFrame \/ Encrypt
      <3>1. \E e \in Event : e.kind # "write" /\ meshIn' = Offer(meshIn, MeshInSize, <<e>>)
        BY <2>1, Kinds DEF LoraFrame, Encrypt, Report
      <3>2. /\ meshIn' \in Seq(Event) /\ Len(meshIn) <= MeshInSize
            /\ Len(meshIn') = IF Len(meshIn) = MeshInSize THEN MeshInSize ELSE Len(meshIn) + 1
            /\ \A i \in 1..Len(meshIn) : meshIn'[i] = meshIn[i]
        BY <3>1, EventFits, TypeParts DEF InMeshIn
      <3>3. DOMAIN meshIn' = 1..Len(meshIn')
        BY <3>2, SeqDomain
      <3>4. Len(meshIn) <= Len(meshIn') /\ Len(meshIn') \in Nat
        BY <1>2, <3>2, Sizes
      <3>5. QED
        BY <1>2, <3>2, <3>3, <3>4
    <2>2. CASE Subscribe
      BY <2>2 DEF Subscribe, queues
    <2>3. CASE Deliver
      <3>1. meshIn' = Append(meshIn, Write(writing))
        BY <2>3 DEF Deliver
      <3>2. QED
        BY <1>2, <3>1
    <2>4. QED
      BY <2>1, <2>2, <2>3
  <1>4. \A r \in DOMAIN requests : writing = r =>
          writing' = r \/ \E i \in DOMAIN meshIn' : meshIn'[i] = Write(r)
    <2>1. CASE Deliver
      <3>1. /\ meshIn' = Append(meshIn, Write(writing))
        BY <2>1 DEF Deliver
      <3>2. \E i \in DOMAIN meshIn' : meshIn'[i] = Write(writing)
        BY <1>2, <3>1
      <3>3. QED
        BY <3>2
    <2>2. CASE ~Deliver
      BY <2>2 DEF LoraFrame, Encrypt, Subscribe, ble
    <2>3. QED
      BY <2>1, <2>2
  <1>5. \A r \in DOMAIN requests : Underway(r) => Underway(r)'
    BY <1>1, <1>3, <1>4 DEF Underway
  <1>6. \A r \in DOMAIN requests : Answered(r)' <=> Answered(r)
    BY <1>1 DEF Answered
  <1>7. QED
    BY <1>1, <1>5, <1>6, KeptFrom

\* Messages leave ble_tx for the phone, or an answer that waited gets in.
LEMMA KeptOut ==
  ASSUME TypeInv, RequestKept, Resume \/ ReadFromRadio \/ Notify
  PROVE  RequestKept'
  <1>1. UNCHANGED <<phase, conn, requests, handled, meshIn, writing>>
    BY DEF Resume, ReadFromRadio, Notify, mesh, ble, session
  <1>2. /\ bleTx \in Seq(Sent) /\ Len(bleTx) \in Nat /\ DOMAIN bleTx = 1..Len(bleTx)
    BY TypeParts, SeqDomain DEF InBleTx
  <1>3. bleTx # <<>> /\ bleTx' = Tail(bleTx) =>
          \A i \in DOMAIN bleTx : bleTx[i] = Head(bleTx) \/
            \E j \in DOMAIN bleTx' : bleTx'[j] = bleTx[i]
    <2> SUFFICES ASSUME bleTx # <<>>, bleTx' = Tail(bleTx), NEW i \in DOMAIN bleTx
                 PROVE  bleTx[i] = Head(bleTx) \/ \E j \in DOMAIN bleTx' : bleTx'[j] = bleTx[i]
      OBVIOUS
    <2>1. /\ Head(bleTx) = bleTx[1] /\ DOMAIN bleTx' = 1..(Len(bleTx) - 1)
          /\ \A j \in 1..(Len(bleTx) - 1) : bleTx'[j] = bleTx[j + 1]
      BY <1>2, TailShifts, SeqDomain
    <2>2. CASE i = 1
      BY <2>1, <2>2
    <2>3. CASE i # 1
      <3>1. i - 1 \in 1..(Len(bleTx) - 1) /\ bleTx'[i - 1] = bleTx[i]
        BY <1>2, <2>1, <2>3
      <3>2. QED
        BY <2>1, <3>1
    <2>4. QED
      BY <2>2, <2>3
  <1>4. \A r \in DOMAIN requests : Completion(r) # Nothing /\ Completion(r) # Live
    <2> SUFFICES ASSUME NEW r \in DOMAIN requests
                 PROVE  Completion(r) # Nothing /\ Completion(r) # Live
      OBVIOUS
    <2>1. r \in 1..Len(requests) /\ Exchange \in 0..Exchange
      BY RequestType, Sizes DEF TypeInv
    <2>2. QED
      BY <2>1, MessagesSent, PartIs DEF TypeInv
  <1>5. \A r \in DOMAIN requests : Answered(r) => Answered(r)'
    <2>1. CASE Resume
      <3>1. /\ bleTx' = Append(bleTx, waiting) /\ UNCHANGED <<seen, buffer>> /\ waiting \in Sent
        BY <2>1, TypeParts DEF Resume, ble, session
      <3>2. \A i \in DOMAIN bleTx : i \in DOMAIN bleTx' /\ bleTx'[i] = bleTx[i]
        BY <1>2, <3>1
      <3>3. \E i \in DOMAIN bleTx' : bleTx'[i] = waiting
        BY <1>2, <3>1
      <3>4. QED
        BY <3>1, <3>2, <3>3 DEF Answered
    <2>2. CASE ReadFromRadio
      <3>1. /\ waiting' = waiting /\ buffer' = Nothing
            /\ \/ buffer = Nothing /\ bleTx # <<>> /\ Show(Head(bleTx)) /\ bleTx' = Tail(bleTx)
               \/ Show(buffer) /\ bleTx' = bleTx
        BY <2>2 DEF ReadFromRadio, mesh
      <3>2. QED
        BY <1>3, <1>4, <3>1 DEF Answered, Show
    <2>3. CASE Notify
      BY <1>3, <1>4, <2>3 DEF Notify, Answered, mesh
    <2>4. QED
      BY <2>1, <2>2, <2>3
  <1>6. \A r \in DOMAIN requests : Underway(r)' <=> Underway(r)
    BY <1>1 DEF Underway
  <1>7. QED
    BY <1>1, <1>5, <1>6, KeptFrom

\* What the mesh task does to ble_tx: it never takes anything out.
LEMMA HandleAdds ==
  ASSUME TypeInv, Handle
  PROVE  \A i \in DOMAIN bleTx : i \in DOMAIN bleTx' /\ bleTx'[i] = bleTx[i]
  <1>1. bleTx \in Seq(Sent) /\ Len(bleTx) \in Nat /\ DOMAIN bleTx = 1..Len(bleTx)
    BY TypeParts, SeqDomain DEF InBleTx
  <1>2. CASE HandleFrame
    <2>1. PICK n \in 0..(MaxUpdates + (IF bleConnected THEN 1 ELSE 0)) :
            bleTx' = Offer(bleTx, BleTxSize, [i \in 1..n |-> Live])
      BY <1>2 DEF HandleFrame
    <2>2. n \in Nat
      BY Sizes
    <2>3. [i \in 1..n |-> Live] \in Seq(Sent)
      BY <2>2, MessagesSent DEF TypeInv
    <2>4. /\ bleTx' \in Seq(Sent) /\ Len(bleTx) <= Len(bleTx')
          /\ \A i \in 1..Len(bleTx) : bleTx'[i] = bleTx[i]
      BY <2>1, <2>3, MessagesFit
    <2>5. QED
      BY <1>1, <2>4, SeqDomain
  <1>3. CASE HandleLink(meshIn[1])
    BY <1>3 DEF HandleLink
  <1>4. ASSUME NEW r \in 1..Len(requests), SendExchange(r)
        PROVE  \A i \in DOMAIN bleTx : i \in DOMAIN bleTx' /\ bleTx'[i] = bleTx[i]
    <2>1. /\ bleTx' \in Seq(Sent) /\ Len(bleTx) <= Len(bleTx')
          /\ \A i \in 1..Len(bleTx) : bleTx'[i] = bleTx[i]
      BY <1>4, ExchangeFits DEF InBleTx
    <2>2. QED
      BY <1>1, <2>1, SeqDomain
  <1>5. ASSUME NEW r \in 1..Len(requests), SendAdminResponse(r)
        PROVE  \A i \in DOMAIN bleTx : i \in DOMAIN bleTx' /\ bleTx'[i] = bleTx[i]
    <2>1. bleTx' = bleTx \/ bleTx' = Append(bleTx, Completion(r))
      BY <1>5 DEF SendAdminResponse
    <2>2. QED
      BY <1>1, <2>1
  <1>6. QED
    BY <1>2, <1>3, <1>4, <1>5, HandleCases

LEMMA KeptHandled ==
  ASSUME TypeInv, RequestKept, Handle
  PROVE  RequestKept'
  <1>1. UNCHANGED <<phase, conn, requests, seen, buffer, writing>> /\ waiting = Nothing
    BY HandleCases
  <1>2. \A r \in DOMAIN requests : Completion(r) # Nothing
    <2> SUFFICES ASSUME NEW r \in DOMAIN requests PROVE Completion(r) # Nothing
      OBVIOUS
    <2>1. r \in 1..Len(requests) /\ Exchange \in 0..Exchange
      BY RequestType, Sizes DEF TypeInv
    <2>2. QED
      BY <2>1, MessagesSent, PartIs DEF TypeInv
  <1>3. \A r \in DOMAIN requests : Answered(r) => Answered(r)'
    BY <1>1, <1>2, HandleAdds DEF Answered
  <1>4. handled \subseteq handled'
    BY HandleCases DEF HandleFrame, HandleLink, mesh
  <1>5. \A i \in DOMAIN meshIn : i = 1 \/ \E j \in DOMAIN meshIn' : meshIn'[j] = meshIn[i]
    <2>1. meshIn \in Seq(Event) /\ Len(meshIn) \in Nat /\ DOMAIN meshIn = 1..Len(meshIn)
      BY TypeParts, SeqDomain DEF InMeshIn
    <2>2. /\ DOMAIN meshIn' = 1..(Len(meshIn) - 1)
          /\ \A j \in 1..(Len(meshIn) - 1) : meshIn'[j] = meshIn[j + 1]
      BY <2>1, HandleCases, TailShifts, SeqDomain
    <2>3. ASSUME NEW i \in DOMAIN meshIn, i # 1
          PROVE  \E j \in DOMAIN meshIn' : meshIn'[j] = meshIn[i]
      <3>1. i - 1 \in 1..(Len(meshIn) - 1) /\ meshIn'[i - 1] = meshIn[i]
        BY <2>1, <2>2, <2>3
      <3>2. QED
        BY <2>2, <3>1
    <2>4. QED
      BY <2>3
  <1>6. \A r \in DOMAIN requests : meshIn[1] = Write(r) => r \in handled'
    <2> SUFFICES ASSUME NEW r \in DOMAIN requests, meshIn[1] = Write(r) PROVE r \in handled'
      OBVIOUS
    <2>1. meshIn[1] # Frame /\ meshIn[1] \notin Link
      BY Kinds
    <2>2. PICK q \in 1..Len(requests) : meshIn[1] = Write(q) /\ handled' = handled \cup {q}
      BY <2>1, HandleCases
    <2>3. q = r
      <3>1. Write(q) = Write(r)
        BY <2>2
      <3>2. QED
        BY <3>1 DEF Write
    <2>4. QED
      BY <2>2, <2>3
  <1>7. \A r \in DOMAIN requests : Underway(r) => Underway(r)'
    BY <1>1, <1>4, <1>5, <1>6 DEF Underway
  <1>8. ASSUME NEW r \in DOMAIN requests, r \in handled', r \notin handled,
               requests[r].want = "admin"
        PROVE  Answered(r)'
    <2>1. SendAdminResponse(r)
      <3>1. PICK q \in 1..Len(requests) :
              /\ handled' = handled \cup {q}
              /\ \/ requests[q].want = "config" /\ SendExchange(q)
                 \/ requests[q].want = "admin" /\ SendAdminResponse(q)
        BY <1>8, HandleCases DEF HandleFrame, HandleLink, mesh
      <3>2. q = r
        BY <1>8, <3>1
      <3>3. QED
        BY <1>8, <3>1, <3>2
    <2>2. CASE bleTx' = Append(bleTx, Completion(r))
      <3>1. bleTx \in Seq(Sent)
        BY TypeParts DEF InBleTx
      <3>2. Completion(r) \in Sent
        BY RequestType, MessagesSent, PartIs, Sizes DEF TypeInv
      <3>3. \E i \in DOMAIN bleTx' : bleTx'[i] = Completion(r)
        BY <2>2, <3>1, <3>2, AppendKeeps, SeqDomain
      <3>4. QED
        BY <3>3 DEF Answered
    <2>3. CASE waiting' = Completion(r)
      BY <2>3 DEF Answered
    <2>4. QED
      BY <2>1, <2>2, <2>3 DEF SendAdminResponse
  <1>9. QED
    BY <1>1, <1>3, <1>7, <1>8, KeptFrom

LEMMA KeptWrite ==
  ASSUME TypeInv, RequestKept, WriteToRadio
  PROVE  RequestKept'
  <1>1. /\ UNCHANGED <<phase, conn, handled, seen, buffer, waiting, meshIn, bleTx>> /\ writing = 0
    BY DEF WriteToRadio, Serving, queues, mesh, session
  <1>2. /\ DOMAIN requests' = 1..(Len(requests) + 1) /\ writing' = Len(requests) + 1
        /\ \A r \in 1..Len(requests) : requests'[r] = requests[r]
    BY TypeWrite
  <1>3. handled \subseteq 1..Len(requests) /\ Len(requests) \in Nat /\ DOMAIN requests = 1..Len(requests)
    BY TypeParts, SeqDomain DEF TypeInv, TypeOK
  <1> SUFFICES ASSUME NEW r \in 1..(Len(requests) + 1), phase = "connected", requests'[r].conn = conn
               PROVE  /\ Underway(r)'
                      /\ r \in handled /\ requests'[r].want = "admin" => Answered(r)'
    BY <1>1, <1>2 DEF RequestKept, Underway, Answered, ToSet
  <1>4. CASE r = Len(requests) + 1
    <2>1. Underway(r)'
      BY <1>2, <1>4 DEF Underway
    <2>2. r \notin handled
      BY <1>3, <1>4
    <2>3. QED
      BY <2>1, <2>2
  <1>5. CASE r \in 1..Len(requests)
    <2>1. /\ r \in DOMAIN requests /\ requests'[r] = requests[r] /\ r # 0
      BY <1>2, <1>3, <1>5
    <2>2. /\ Underway(r)
          /\ r \in handled /\ requests[r].want = "admin" => Answered(r)
      BY <2>1, KeptMeans
    <2>3. Underway(r)' /\ (Answered(r) => Answered(r)')
      BY <1>1, <2>1, <2>2 DEF Underway, Answered
    <2>4. QED
      BY <2>1, <2>2, <2>3
  <1>6. QED
    BY <1>3, <1>4, <1>5

LEMMA KeptStep ==
  ASSUME TypeInv, RequestKept, [Next]_vars
  PROVE  RequestKept'
  <1>1. CASE \/ AdvertiseEsp32 \/ AdvertiseNrf52 \/ AcceptFails \/ Disconnect
             \/ RunnerFailsEsp32 \/ RunnerFailsNrf52 \/ Restart
    <2>1. phase' # "connected"
      BY <1>1 DEF AdvertiseEsp32, AdvertiseNrf52, AcceptFails, Disconnect, RunnerFailsEsp32,
         RunnerFailsNrf52, Restart
    <2>2. QED
      BY <2>1 DEF RequestKept
  <1>2. CASE Accept
    <2>1. conn' = conn + 1 /\ requests' = requests
      BY <1>2 DEF Accept
    <2>2. \A r \in DOMAIN requests : requests[r].conn # conn'
      <3> SUFFICES ASSUME NEW r \in DOMAIN requests PROVE requests[r].conn # conn'
        OBVIOUS
      <3>1. requests[r].conn \in 1..MaxConn
        BY RequestType DEF TypeInv
      <3>2. requests[r].conn <= conn /\ conn \in 0..MaxConn
        BY DEF TypeInv, Numbered, TypeOK
      <3>3. QED
        BY <2>1, <3>1, <3>2, Sizes
    <2>3. QED
      BY <2>1, <2>2 DEF RequestKept
  <1>3. CASE UNCHANGED vars
    <2>1. UNCHANGED <<phase, conn, requests, handled, seen, buffer, waiting, bleTx, meshIn, writing>>
      BY <1>3 DEF vars, queues, mesh, ble, session
    <2>2. QED
      BY <2>1 DEF RequestKept
  <1>4. QED
    BY <1>1, <1>2, <1>3, KeptIn, KeptOut, KeptHandled, KeptWrite DEF Next, Phone, BleTask, MeshTask

-----------------------------------------------------------------------------
(* A completion means the whole exchange.                                  *)

\* What matters of a message that the phone has read, or is about to.
Whole == InOrder /\ CompletionMeansWhole

LEMMA WholeMeans ==
  ASSUME NEW r, NEW read, Completion(r) \in read, \A i \in 1..(Exchange-1) : Part(r, i) \in read
  PROVE  \A i \in 1..Exchange : Part(r, i) \in read
  <1>1. \A i \in 1..Exchange : i \in 1..(Exchange-1) \/ i = Exchange
    BY Sizes
  <1>2. QED
    BY <1>1, PartIs

\* The parts of the exchange that a request asks for, whatever is asked by now.
LEMMA PartsDiffer ==
  ASSUME TypeInv, NEW r \in DOMAIN requests
  PROVE  /\ Completion(r) \notin {Nothing, Live}
         /\ \A i \in 1..(Exchange-1) : Part(r, i) \notin {Nothing, Live}
         /\ \A q, i : Completion(r) = Part(q, i) => q = r /\ i = Exchange
  <1>1. r \in 1..Len(requests)
    BY RequestType DEF TypeInv
  <1>2. Exchange \in 0..Exchange /\ \A i \in 1..(Exchange-1) : i \in 0..Exchange
    BY Sizes
  <1>3. \A q, i : Completion(r) = Part(q, i) => q = r /\ i = Exchange
    BY DEF Completion, Part
  <1>4. QED
    BY <1>1, <1>2, <1>3, MessagesSent, PartIs DEF TypeInv

\* Nothing changes that the order is about.
LEMMA WholeQuiet ==
  ASSUME Whole, UNCHANGED <<board, requests, seen, buffer, bleTx>>,
         Esp32 /\ phase' \in {"accepting", "connected"} => phase \in {"accepting", "connected"}
  PROVE  Whole'
  BY DEF Whole, InOrder, CompletionMeansWhole, Ahead, Esp32

\* A session ends.
LEMMA WholeClosed ==
  ASSUME TypeInv, UNCHANGED <<board, requests>>, CloseSession,
         Esp32 => phase' \notin {"accepting", "connected"}
  PROVE  Whole'
  <1>1. seen' = {} /\ buffer' = Nothing
    BY DEF CloseSession
  <1>2. \A r \in DOMAIN requests : Completion(r) # Nothing
    BY PartsDiffer
  <1>3. QED
    BY <1>1, <1>2 DEF Whole, InOrder, CompletionMeansWhole, Esp32

\* ble_tx is emptied.
LEMMA WholeEmptied ==
  ASSUME Whole, UNCHANGED <<board, requests, seen, buffer>>, bleTx' = <<>>
  PROVE  Whole'
  BY DEF Whole, InOrder, CompletionMeansWhole, Esp32

\* Messages join ble_tx; a completion that joins has its parts before it.
LEMMA WholeJoined ==
  ASSUME TypeInv, Whole, UNCHANGED <<board, requests, seen, buffer, phase>>,
         bleTx' \in Seq(Sent),
         \A i \in DOMAIN bleTx : i \in DOMAIN bleTx' /\ bleTx'[i] = bleTx[i],
         \A k \in DOMAIN bleTx', r \in DOMAIN requests :
           /\ k \notin DOMAIN bleTx /\ bleTx'[k] = Completion(r) /\ requests[r].want = "config"
           => \A i \in 1..(Exchange-1) : \E j \in 1..(k-1) : bleTx'[j] = Part(r, i)
  PROVE  Whole'
  <1>1. DOMAIN bleTx = 1..Len(bleTx) /\ Len(bleTx) \in Nat
    BY TypeParts, SeqDomain DEF InBleTx
  <1>2. ASSUME NEW k \in DOMAIN bleTx, NEW m, Ahead(m, k)
        PROVE  Ahead(m, k)'
    <2>1. k \in Int /\ \A j \in 1..(k-1) : j \in DOMAIN bleTx
      BY <1>1
    <2>2. QED
      BY <1>2, <2>1 DEF Ahead
  <1>3. ASSUME Esp32, NEW r \in DOMAIN requests, requests[r].want = "config",
               phase \in {"accepting", "connected"}, NEW k \in DOMAIN bleTx',
               bleTx'[k] = Completion(r), NEW i \in 1..(Exchange-1)
        PROVE  Ahead(Part(r, i), k)'
    <2>1. CASE k \in DOMAIN bleTx
      <3>1. Ahead(Part(r, i), k)
        BY <1>3, <2>1 DEF Whole, InOrder
      <3>2. QED
        BY <1>2, <2>1, <3>1
    <2>2. CASE k \notin DOMAIN bleTx
      BY <1>3, <2>2 DEF Ahead
    <2>3. QED
      BY <2>1, <2>2
  <1>4. InOrder'
    BY <1>3 DEF Whole, InOrder, Esp32
  <1>5. CompletionMeansWhole'
    BY DEF Whole, CompletionMeansWhole, Esp32
  <1>6. QED
    BY <1>4, <1>5 DEF Whole

\* The first message leaves ble_tx, to be read or buffered.
LEMMA WholeTaken ==
  ASSUME TypeInv, Whole, UNCHANGED <<board, requests, phase>>, phase = "connected",
         buffer = Nothing, bleTx # <<>>, bleTx' = Tail(bleTx),
         \/ seen' = seen \cup ({Head(bleTx)} \ {Nothing, Live}) /\ buffer' = Nothing
         \/ seen' = seen /\ buffer' = Head(bleTx)
  PROVE  Whole'
  <1>1. /\ Len(bleTx) \in Nat /\ Len(bleTx) >= 1 /\ DOMAIN bleTx = 1..Len(bleTx)
        /\ Head(bleTx) = bleTx[1] /\ DOMAIN bleTx' = 1..(Len(bleTx) - 1)
        /\ \A j \in 1..(Len(bleTx) - 1) : bleTx'[j] = bleTx[j + 1]
    <2>1. bleTx \in Seq(Sent)
      BY TypeParts DEF InBleTx
    <2>2. QED
      BY <2>1, TailShifts, SeqDomain
  <1>2. ASSUME Esp32, NEW r \in DOMAIN requests, requests[r].want = "config"
        PROVE  /\ buffer' = Completion(r) => \A i \in 1..(Exchange-1) : Part(r, i) \in seen'
               /\ \A k \in DOMAIN bleTx' : bleTx'[k] = Completion(r) =>
                    \A i \in 1..(Exchange-1) : Ahead(Part(r, i), k)'
               /\ Completion(r) \in seen' => \A i \in 1..(Exchange-1) : Part(r, i) \in seen'
    <2>1. /\ Completion(r) \notin {Nothing, Live}
          /\ \A i \in 1..(Exchange-1) : Part(r, i) \notin {Nothing, Live}
      BY PartsDiffer
    <2>2. \A k \in DOMAIN bleTx : bleTx[k] = Completion(r) =>
            \A i \in 1..(Exchange-1) : Ahead(Part(r, i), k)
      BY <1>2 DEF Whole, InOrder
    <2>3. Completion(r) \in seen => \A i \in 1..(Exchange-1) : Part(r, i) \in seen
      BY <1>2, Sizes DEF Whole, CompletionMeansWhole
    <2>4. Head(bleTx) = Completion(r) => \A i \in 1..(Exchange-1) : Part(r, i) \in seen
      <3> SUFFICES ASSUME Head(bleTx) = Completion(r), NEW i \in 1..(Exchange-1)
                   PROVE  Part(r, i) \in seen
        OBVIOUS
      <3>1. Ahead(Part(r, i), 1)
        BY <1>1, <2>2
      <3>2. QED
        BY <2>1, <3>1 DEF Ahead
    <2>5. seen \subseteq seen'
      OBVIOUS
    <2>6. ASSUME NEW k \in DOMAIN bleTx', bleTx'[k] = Completion(r), NEW i \in 1..(Exchange-1)
          PROVE  Ahead(Part(r, i), k)'
      <3>1. k + 1 \in DOMAIN bleTx /\ bleTx[k + 1] = Completion(r) /\ k \in Nat
        BY <1>1, <2>6
      <3>2. Ahead(Part(r, i), k + 1)
        BY <2>2, <3>1
      <3>3. CASE Part(r, i) \in seen
        BY <2>5, <3>3 DEF Ahead
      <3>4. ASSUME NEW j \in 1..k, bleTx[j] = Part(r, i)
            PROVE  Ahead(Part(r, i), k)'
        <4>1. CASE j = 1
          <5>1. Part(r, i) \in seen' \/ Part(r, i) = buffer'
            BY <1>1, <2>1, <3>4, <4>1
          <5>2. QED
            BY <5>1 DEF Ahead
        <4>2. CASE j # 1
          <5>1. j - 1 \in 1..(k - 1) /\ j - 1 \in 1..(Len(bleTx) - 1) /\ bleTx'[j - 1] = bleTx[j]
            BY <1>1, <3>1, <4>2
          <5>2. QED
            BY <3>4, <5>1 DEF Ahead
        <4>3. QED
          BY <4>1, <4>2
      <3>5. QED
        <4>1. k + 1 - 1 = k
          BY <3>1
        <4>2. Part(r, i) \in seen \/ Part(r, i) = Nothing \/ \E j \in 1..k : bleTx[j] = Part(r, i)
          BY <3>2, <4>1 DEF Ahead
        <4>3. QED
          BY <2>1, <3>3, <3>4, <4>2
    <2>7. QED
      BY <2>1, <2>3, <2>4, <2>5, <2>6
  <1>3. InOrder'
    BY <1>2 DEF InOrder, Esp32
  <1>4. CompletionMeansWhole'
    BY <1>2, WholeMeans DEF CompletionMeansWhole, Esp32
  <1>5. QED
    BY <1>3, <1>4 DEF Whole

\* The buffered message is read.
LEMMA WholeShown ==
  ASSUME TypeInv, Whole, UNCHANGED <<board, requests, phase, bleTx>>, Show(buffer), buffer' = Nothing
  PROVE  Whole'
  <1>1. seen' = seen \cup ({buffer} \ {Nothing, Live})
    BY DEF Show
  <1>2. ASSUME Esp32, NEW r \in DOMAIN requests, requests[r].want = "config"
        PROVE  /\ buffer' = Completion(r) => \A i \in 1..(Exchange-1) : Part(r, i) \in seen'
               /\ phase \in {"accepting", "connected"} =>
                    \A k \in DOMAIN bleTx : bleTx[k] = Completion(r) =>
                      \A i \in 1..(Exchange-1) : Ahead(Part(r, i), k)'
               /\ Completion(r) \in seen' => \A i \in 1..(Exchange-1) : Part(r, i) \in seen'
    <2>1. /\ Completion(r) \notin {Nothing, Live}
          /\ \A i \in 1..(Exchange-1) : Part(r, i) \notin {Nothing, Live}
      BY PartsDiffer
    <2>2. /\ buffer = Completion(r) => \A i \in 1..(Exchange-1) : Part(r, i) \in seen
          /\ phase \in {"accepting", "connected"} => \A k \in DOMAIN bleTx :
               bleTx[k] = Completion(r) => \A i \in 1..(Exchange-1) : Ahead(Part(r, i), k)
      BY <1>2 DEF Whole, InOrder
    <2>3. Completion(r) \in seen => \A i \in 1..(Exchange-1) : Part(r, i) \in seen
      BY <1>2, Sizes DEF Whole, CompletionMeansWhole
    <2>4. ASSUME NEW i \in 1..(Exchange-1), NEW k, Ahead(Part(r, i), k)
          PROVE  Ahead(Part(r, i), k)'
      BY <1>1, <2>1, <2>4 DEF Ahead
    <2>5. QED
      BY <1>1, <2>1, <2>2, <2>3, <2>4
  <1>3. InOrder'
    BY <1>2 DEF InOrder, Esp32
  <1>4. CompletionMeansWhole'
    BY <1>2, WholeMeans DEF CompletionMeansWhole, Esp32
  <1>5. QED
    BY <1>3, <1>4 DEF Whole

\* A request is written: nothing that is on its way concerns it.
LEMMA WholeWrite ==
  ASSUME TypeInv, Whole, WriteToRadio
  PROVE  Whole'
  <1>1. UNCHANGED <<board, phase, seen, buffer, bleTx>>
    BY DEF WriteToRadio, queues, session
  <1>2. /\ DOMAIN requests' = 1..(Len(requests) + 1) /\ Len(requests) \in Nat
        /\ \A r \in 1..Len(requests) : requests'[r] = requests[r]
        /\ DOMAIN requests = 1..Len(requests)
    BY TypeWrite, SeqDomain DEF TypeInv, TypeOK
  <1>3. ASSUME NEW m \in Sent PROVE m # Completion(Len(requests) + 1)
    <2>1. m.of \in 0..Len(requests)
      BY DEF Sent
    <2>2. Completion(Len(requests) + 1).of = Len(requests) + 1
      BY PartIs
    <2>3. QED
      BY <1>2, <2>1, <2>2
  <1>4. Nothing # Completion(Len(requests) + 1)
    <2>1. Len(requests) + 1 \in 0..MaxRequests
      BY <1>2, Sizes DEF WriteToRadio
    <2>2. Completion(Len(requests) + 1) \in Message
      BY <2>1, Sizes DEF Completion, Part, Message
    <2>3. QED
      BY <2>2, NothingAssumption
  <1>5. /\ buffer # Completion(Len(requests) + 1) /\ Completion(Len(requests) + 1) \notin seen
        /\ \A k \in DOMAIN bleTx : bleTx[k] # Completion(Len(requests) + 1)
    BY <1>3, <1>4, TypeParts, SeqDomain DEF InBleTx
  <1>6. \A r \in DOMAIN requests' : \/ r \in DOMAIN requests /\ requests'[r] = requests[r]
                                    \/ r = Len(requests) + 1
    BY <1>2
  <1>7. InOrder'
    BY <1>1, <1>5, <1>6 DEF Whole, InOrder, Ahead, Esp32
  <1>8. CompletionMeansWhole'
    BY <1>1, <1>5, <1>6 DEF Whole, CompletionMeansWhole, Esp32
  <1>9. QED
    BY <1>7, <1>8 DEF Whole

\* One answer to an admin request joins ble_tx.
LEMMA WholeAnswered ==
  ASSUME TypeInv, Whole, UNCHANGED <<board, requests, seen, buffer, phase>>,
         NEW q \in DOMAIN requests, requests[q].want = "admin",
         bleTx' = Append(bleTx, Completion(q))
  PROVE  Whole'
  <1>1. bleTx \in Seq(Sent) /\ Completion(q) \in Sent
    BY RequestType, MessagesSent, PartIs, Sizes, TypeParts DEF TypeInv, InBleTx
  <1>2. /\ bleTx' \in Seq(Sent) /\ Len(bleTx) \in Nat /\ DOMAIN bleTx = 1..Len(bleTx)
        /\ DOMAIN bleTx' = 1..(Len(bleTx) + 1)
        /\ \A i \in 1..Len(bleTx) : bleTx'[i] = bleTx[i]
        /\ bleTx'[Len(bleTx) + 1] = Completion(q)
    BY <1>1, AppendKeeps, SeqDomain
  <1>3. ASSUME NEW k \in DOMAIN bleTx', k \notin DOMAIN bleTx, NEW r \in DOMAIN requests,
               bleTx'[k] = Completion(r), requests[r].want = "config"
        PROVE  FALSE
    <2>1. Completion(r) = Completion(q)
      BY <1>2, <1>3
    <2>2. r = q
      BY <2>1 DEF Completion, Part
    <2>3. QED
      BY <1>3, <2>2
  <1>4. \A i \in DOMAIN bleTx : i \in DOMAIN bleTx' /\ bleTx'[i] = bleTx[i]
    BY <1>2
  <1>5. QED
    BY <1>2, <1>3, <1>4, WholeJoined

LEMMA WholeHandled ==
  ASSUME TypeInv, Whole, Handle
  PROVE  Whole'
  <1>1. UNCHANGED <<board, requests, seen, buffer, phase>>
    BY HandleCases
  <1>2. /\ bleTx \in Seq(Sent) /\ Len(bleTx) \in Nat /\ DOMAIN bleTx = 1..Len(bleTx)
    BY TypeParts, SeqDomain DEF InBleTx
  <1>3. CASE HandleFrame
    <2>1. PICK n \in 0..(MaxUpdates + (IF bleConnected THEN 1 ELSE 0)) :
            bleTx' = Offer(bleTx, BleTxSize, [i \in 1..n |-> Live])
      BY <1>3 DEF HandleFrame
    <2>2. PICK ms \in Seq(Sent) : ms = [j \in 1..n |-> Live] /\ \A i \in 1..Len(ms) : ms[i] = Live
      <3>1. n \in Nat
        BY Sizes
      <3>2. [i \in 1..n |-> Live] \in Seq(Sent)
        BY <3>1, MessagesSent DEF TypeInv
      <3>3. \A i \in 1..Len([j \in 1..n |-> Live]) : [j \in 1..n |-> Live][i] = Live
        BY <3>1
      <3>4. QED
        BY <3>2, <3>3, Zenon
    <2>3. /\ bleTx' \in Seq(Sent)
          /\ \A i \in 1..Len(bleTx') : i > Len(bleTx) => bleTx'[i] = Live
      BY <2>1, <2>2, MessagesFit
    <2>4. \A k \in DOMAIN bleTx' : k \notin DOMAIN bleTx => bleTx'[k] = Live
      BY <1>2, <2>3, SeqDomain
    <2>5. \A r \in DOMAIN requests : Completion(r) # Live
      BY PartsDiffer
    <2>6. QED
      BY <1>1, <2>3, <2>4, <2>5, HandleAdds, WholeJoined
  <1>4. CASE HandleLink(meshIn[1])
    <2>1. bleTx' = bleTx
      BY <1>4 DEF HandleLink
    <2>2. QED
      BY <1>1, <2>1, WholeQuiet
  <1>5. ASSUME NEW q \in 1..Len(requests), SendExchange(q)
        PROVE  Whole'
    <2>1. /\ bleTx' \in Seq(Sent)
          /\ \A k \in 1..Len(bleTx') : k > Len(bleTx) =>
               bleTx'[k] = IF k - Len(bleTx) <= Exchange THEN Part(q, k - Len(bleTx)) ELSE Live
      BY <1>5, ExchangeFits DEF InBleTx
    <2>2. DOMAIN bleTx' = 1..Len(bleTx') /\ Len(bleTx') \in Nat
      BY <2>1, SeqDomain
    <2>3. ASSUME NEW k \in DOMAIN bleTx', NEW r \in DOMAIN requests, k \notin DOMAIN bleTx,
                 bleTx'[k] = Completion(r), NEW i \in 1..(Exchange-1)
          PROVE  \E j \in 1..(k-1) : bleTx'[j] = Part(r, i)
      <3>1. k \in 1..Len(bleTx') /\ k > Len(bleTx) /\ k \in Nat
        BY <1>2, <2>2, <2>3
      <3>2. Completion(r) # Live
        BY PartsDiffer
      <3>3. bleTx'[k] = Part(q, k - Len(bleTx))
        BY <2>1, <2>3, <3>1, <3>2
      <3>4. q = r /\ k - Len(bleTx) = Exchange
        BY <2>3, <3>3, PartsDiffer
      <3>5. PICK j \in Nat : j = Len(bleTx) + i
        BY <1>2
      <3>6. j \in 1..(k-1) /\ j \in 1..Len(bleTx') /\ j > Len(bleTx) /\ j - Len(bleTx) = i /\ i <= Exchange
        BY <1>2, <2>2, <3>1, <3>4, <3>5, Sizes
      <3>7. QED
        BY <2>1, <3>4, <3>6
    <2>4. QED
      BY <1>1, <2>1, <2>3, HandleAdds, WholeJoined
  <1>6. ASSUME NEW q \in 1..Len(requests), requests[q].want = "admin", SendAdminResponse(q)
        PROVE  Whole'
    <2>1. q \in DOMAIN requests
      BY DEF TypeInv, TypeOK
    <2>2. CASE bleTx' = bleTx
      BY <1>1, <2>2, WholeQuiet
    <2>3. CASE bleTx' = Append(bleTx, Completion(q))
      BY <1>1, <1>6, <2>1, <2>3, WholeAnswered
    <2>4. QED
      BY <1>6, <2>2, <2>3 DEF SendAdminResponse
  <1>7. QED
    BY <1>3, <1>4, <1>5, <1>6, HandleCases

LEMMA WholeStep ==
  ASSUME TypeInv, AdminWaits, Whole, [Next]_vars
  PROVE  Whole'
  <1>1. CASE \/ LoraFrame \/ Encrypt \/ Subscribe \/ Deliver \/ Accept \/ AcceptFails \/ Restart
             \/ AdvertiseNrf52 \/ UNCHANGED vars
    <2>1. /\ UNCHANGED <<board, requests, seen, buffer, bleTx>>
          /\ Esp32 /\ phase' \in {"accepting", "connected"} => phase \in {"accepting", "connected"}
      BY <1>1 DEF LoraFrame, Encrypt, Subscribe, Deliver, Accept, AcceptFails, Restart,
         AdvertiseNrf52, vars, queues, mesh, ble, session, Serving
    <2>2. QED
      BY <2>1, WholeQuiet
  <1>2. CASE Disconnect \/ RunnerFailsEsp32 \/ RunnerFailsNrf52
    <2>1. /\ UNCHANGED <<board, requests>> /\ CloseSession
          /\ Esp32 => phase' \notin {"accepting", "connected"}
      BY <1>2 DEF Disconnect, RunnerFailsEsp32, RunnerFailsNrf52
    <2>2. QED
      BY <2>1, WholeClosed
  <1>3. CASE AdvertiseEsp32
    BY <1>3, WholeEmptied DEF AdvertiseEsp32, session
  <1>4. CASE WriteToRadio
    BY <1>4, WholeWrite
  <1>5. CASE Handle
    BY <1>5, WholeHandled
  <1>6. CASE Resume
    <2>1. PICK q \in DOMAIN requests : requests[q].want = "admin" /\ waiting = Completion(q)
      BY <1>6 DEF Resume, AdminWaits
    <2>2. bleTx' = Append(bleTx, Completion(q))
      BY <1>6, <2>1 DEF Resume
    <2>3. UNCHANGED <<board, requests, seen, buffer, phase>>
      BY <1>6 DEF Resume, ble, session
    <2>4. QED
      BY <2>1, <2>2, <2>3, WholeAnswered
  <1>7. CASE ReadFromRadio
    <2>1. UNCHANGED <<board, requests, phase>> /\ phase = "connected" /\ buffer' = Nothing
      BY <1>7 DEF ReadFromRadio, Serving
    <2>2. CASE buffer = Nothing /\ bleTx # <<>>
      BY <1>7, <2>1, <2>2, WholeTaken DEF ReadFromRadio, Show
    <2>3. CASE ~(buffer = Nothing /\ bleTx # <<>>)
      BY <1>7, <2>1, <2>3, WholeShown DEF ReadFromRadio
    <2>4. QED
      BY <2>2, <2>3
  <1>8. CASE Notify
    BY <1>8, WholeTaken DEF Notify, Serving
  <1>9. QED
    BY <1>1, <1>2, <1>3, <1>4, <1>5, <1>6, <1>7, <1>8 DEF Next, Phone, BleTask, MeshTask

-----------------------------------------------------------------------------
(* The theorems.                                                           *)

LEMMA InitInv == Init => IInv
  <1> SUFFICES ASSUME Init PROVE IInv
    OBVIOUS
  <1>1. TypeInv
    BY TypeInit
  <1>2. DOMAIN meshIn = {} /\ DOMAIN requests = {} /\ waiting = Nothing
    BY DEF Init
  <1>3. AdminWaits /\ RequestKept /\ InOrder /\ CompletionMeansWhole
    BY <1>2 DEF AdminWaits, RequestKept, InOrder, CompletionMeansWhole
  <1>4. LinkTold
    BY <1>2 DEF Init, LinkTold, LinkPending
  <1>5. QED
    BY <1>1, <1>3, <1>4 DEF IInv

LEMMA StepInv == IInv /\ [Next]_vars => IInv'
  BY TypeStep, AdminWaitsStep, LinkStep, KeptStep, WholeStep DEF IInv, Whole

LEMMA Invariance == Spec => []IInv
  BY InitInv, StepInv, PTL DEF Spec

\* The queues of the link hold no more than their channels have slots, whatever the
\* tasks and the phone do (Channels, try_send and send).
THEOREM LinkTypeCorrect == Spec => []TypeOK
  <1>1. IInv => TypeOK
    BY DEF IInv, TypeInv
  <1>2. QED
    BY <1>1, Invariance, PTL

\* The mesh task learns in the end whether a phone is there, lost link events
\* notwithstanding (dispatch of BleConnected and BleDisconnected).
THEOREM LinkIsKnown == Spec => []LinkKnown
  <1>1. IInv => LinkKnown
    BY DEF IInv, LinkTold, LinkPending, LinkKnown, LinkEvent
  <1>2. QED
    BY <1>1, Invariance, PTL

\* No request of the phone and no answer to an admin request is lost while its
\* connection stands (gatt_events_loop, send_admin_response).
THEOREM NoRequestLost == Spec => []RequestKept
  <1>1. IInv => RequestKept
    BY DEF IInv
  <1>2. QED
    BY <1>1, Invariance, PTL

\* A ConfigCompleteId on the ESP32 board tells the truth, for exchanges and queues of any
\* size (advertising_loop, push_from_radio, send_config_exchange).
THEOREM CompletionIsTrue == Spec => []CompletionMeansWhole
  <1>1. IInv => CompletionMeansWhole
    BY DEF IInv
  <1>2. QED
    BY <1>1, Invariance, PTL

=============================================================================
