----------------------- MODULE ReliableDeliveryProofs -----------------------
(***************************************************************************)
(* Proofs about want_ack delivery for any number of packets, places,       *)
(* destinations, retries and received frames.                              *)
(***************************************************************************)
EXTENDS ReliableDelivery, SequenceTheorems, TLAPS

Result == {"None", "MaxRetransmit"}

Used(s) == pending[s] # Free

\* Each received frame adds one tick to a deadline, so the frames received bound it.
DueBounded == \A s \in Slot : Used(s) => pending[s].due <= Timeout + rx

\* A packet is tracked in one place, so an answer resolves all there is of it.
OnePlace ==
  \A s, t \in Slot : Used(s) /\ Used(t) /\ pending[s].packet = pending[t].packet => s = t

\* A pending packet was sent once and then once for each retry used, and the phone
\* has heard nothing of it.
Attempts ==
  \A s \in Slot : Used(s) =>
    LET p == pending[s].packet
    IN  sent[p] = Retries + 1 - pending[s].retries_left /\ results[p] = <<>> /\ p \in tracked

\* Nothing is known of a packet the phone has not sent.
Unsent == \A p \in Packet : sent[p] = 0 => results[p] = <<>> /\ p \notin tracked

Outcomes ==
  \A p \in Packet : /\ results[p] \in {<<>>, <<"None">>, <<"MaxRetransmit">>}
                    /\ results[p] = <<"MaxRetransmit">> => sent[p] = Retries + 1

\* An answer about a packet its destination can read is an acknowledgement.
Honest == \A a \in answers : a.request \notin Unreadable => a.request \in got

IInv ==
  /\ TypeOK
  /\ DueBounded
  /\ OnePlace
  /\ Attempts
  /\ Unsent
  /\ Outcomes
  /\ Honest
  /\ SuccessMeansAccepted

\* The table g holds entries of the present table, with the same counters.
Thinned(g) ==
  /\ g \in [Slot -> Entry \cup {Free}]
  /\ \A s \in Slot : g[s] # Free =>
       /\ Used(s)
       /\ g[s].packet = pending[s].packet
       /\ g[s].retries_left = pending[s].retries_left

-----------------------------------------------------------------------------
LEMMA EntryNotFree == \A e \in Entry : e # Free
  BY DeliveryAssumption

LEMMA ResultsDiffer ==
  /\ <<>> # <<"None">> /\ <<>> # <<"MaxRetransmit">>
  /\ <<"None">> # <<"MaxRetransmit">>
  <1>1. Len(<<>>) = 0 /\ Len(<<"None">>) = 1 /\ Len(<<"MaxRetransmit">>) = 1
    OBVIOUS
  <1>2. <<"None">>[1] = "None" /\ <<"MaxRetransmit">>[1] = "MaxRetransmit"
    OBVIOUS
  <1>3. QED
    BY <1>1, <1>2

LEMMA OutcomeLength ==
  ASSUME NEW r, r \in {<<>>, <<"None">>, <<"MaxRetransmit">>}
  PROVE  Len(r) <= 1
  <1>1. CASE r = <<>>
    BY <1>1
  <1>2. CASE r = <<"None">>
    BY <1>2
  <1>3. CASE r = <<"MaxRetransmit">>
    BY <1>3
  <1>4. QED
    BY <1>1, <1>2, <1>3

LEMMA UsedEntry ==
  ASSUME TypeOK, NEW s \in Slot, Used(s)
  PROVE  /\ pending[s] \in Entry
         /\ pending[s].packet \in Packet
         /\ pending[s].due \in Nat
         /\ pending[s].retries_left \in 0..Retries
         /\ pending[s].next_hop \in Byte
  <1>1. pending[s] \in Entry
    BY DEF TypeOK, Used
  <1>2. QED
    BY <1>1, DeliveryAssumption DEF Entry

\* A received frame postpones the deadlines and leaves the rest of each entry.
LEMMA ExtendedThins ==
  ASSUME TypeOK, DueBounded, Received
  PROVE  /\ Thinned(Extended(pending))
         /\ \A s \in Slot : Extended(pending)[s] # Free =>
              Extended(pending)[s].due <= Timeout + rx'
  <1> DEFINE g == Extended(pending)
  <1>1. rx \in Nat /\ rx < MaxRx /\ rx' = rx + 1
    BY DeliveryAssumption DEF Received, TypeOK
  <1>2. ASSUME NEW s \in Slot, Used(s)
        PROVE  /\ g[s] \in Entry
               /\ g[s].packet = pending[s].packet
               /\ g[s].retries_left = pending[s].retries_left
               /\ g[s].due <= Timeout + rx'
    <2>1. pending[s] \in Entry /\ pending[s].due \in Nat
      BY <1>2, UsedEntry
    <2>2. g[s] = [pending[s] EXCEPT !.due = pending[s].due + 1]
      BY <1>2 DEF Extended, Used
    <2>3. pending[s].due <= Timeout + rx
      BY <1>2 DEF DueBounded
    <2>4. pending[s].due + 1 \in 0..Timeout+MaxRx
      BY <2>1, <2>3, <1>1, DeliveryAssumption
    <2>5. QED
      BY <2>1, <2>2, <2>3, <2>4, <1>1, DeliveryAssumption DEF Entry
  <1>3. \A s \in Slot : ~Used(s) => g[s] = Free
    BY DEF Extended, Used
  <1>4. g \in [Slot -> Entry \cup {Free}]
    BY <1>2, <1>3 DEF Extended
  <1>5. QED
    BY <1>2, <1>3, <1>4 DEF Thinned

\* Taking an entry out of a thinned table thins it further.
LEMMA RemoveThins ==
  ASSUME NEW g, Thinned(g), NEW s \in Slot
  PROVE  Thinned([g EXCEPT ![s] = Free])
  BY DEF Thinned

\* The counters go with the entries that stay.
LEMMA ThinnedKeeps ==
  ASSUME IInv, Thinned(pending'), UNCHANGED <<sent, tracked>>,
         \A s \in Slot : Used(s)' => /\ pending'[s].due <= Timeout + rx'
                                     /\ results'[pending[s].packet] = results[pending[s].packet]
  PROVE  DueBounded' /\ OnePlace' /\ Attempts'
  <1>1. \A s \in Slot : Used(s)' => /\ Used(s)
                                    /\ pending'[s].packet = pending[s].packet
                                    /\ pending'[s].retries_left = pending[s].retries_left
    BY DEF Thinned, Used
  <1>2. DueBounded'
    BY DEF DueBounded
  <1>3. OnePlace'
    BY <1>1 DEF IInv, OnePlace
  <1>4. Attempts'
    BY <1>1 DEF IInv, Attempts
  <1>5. QED
    BY <1>2, <1>3, <1>4

-----------------------------------------------------------------------------
LEMMA InitHolds == Init => IInv
  <1> SUFFICES ASSUME Init PROVE IInv
    OBVIOUS
  <1>1. \A s \in Slot : ~Used(s)
    BY DEF Init, Used
  <1>2. \A p \in Packet : results[p] = <<>> /\ sent[p] = 0
    BY DEF Init
  <1>3. TypeOK
    <2>1. results \in [Packet -> Seq(Result)]
      BY DEF Init
    <2>2. QED
      BY <2>1, DeliveryAssumption DEF Init, TypeOK, Result
  <1>4. SuccessMeansAccepted /\ Honest
    BY DEF Init, SuccessMeansAccepted, Honest
  <1>5. QED
    BY <1>1, <1>2, <1>3, <1>4 DEF Init, IInv, DueBounded, OnePlace, Attempts, Unsent, Outcomes

LEMMA SendKeeps ==
  ASSUME IInv, NEW p \in Packet, SendWantAck(p)
  PROVE  IInv'
  <1>1. sent[p] = 0 /\ results[p] = <<>> /\ p \notin tracked
    BY DEF SendWantAck, IInv, Unsent
  <1>2. sent' = [sent EXCEPT ![p] = 1] /\ sent \in [Packet -> 0..Retries+1] /\ 1 \in 0..Retries+1
    BY DeliveryAssumption DEF SendWantAck, IInv, TypeOK
  <1>3. \A s \in Slot : Used(s) => pending[s].packet # p
    BY <1>1 DEF IInv, Attempts
  <1>4. UNCHANGED <<route, got, answers, rx>>
    BY DEF SendWantAck
  <1>5. CASE \E s \in Slot : pending[s] = Free
    <2> DEFINE hop == GetNextHop(route[Dest[p]], 0)
               e == [packet |-> p, due |-> Timeout, retries_left |-> Retries, next_hop |-> hop]
    <2>1. PICK s \in Slot : pending[s] = Free /\ pending' = [pending EXCEPT ![s] = e]
      BY <1>5 DEF SendWantAck
    <2>2. tracked' = tracked \cup {p} /\ results' = results
      BY <1>5 DEF SendWantAck
    <2>3. hop \in Byte
      BY RouterAssumption, DeliveryAssumption DEF GetNextHop, NoNextHop, IInv, TypeOK
    <2>4. e \in Entry
      BY <2>3, DeliveryAssumption DEF Entry
    <2>5. /\ pending'[s] = e
          /\ \A t \in Slot : t # s => pending'[t] = pending[t]
      BY <2>1 DEF IInv, TypeOK
    <2>6. TypeOK'
      BY <1>2, <1>4, <2>1, <2>2, <2>4 DEF IInv, TypeOK
    <2>7. DueBounded'
      <3>1. rx \in Nat /\ rx' = rx /\ e.due <= Timeout + rx
        BY <1>4, DeliveryAssumption DEF IInv, TypeOK
      <3>2. QED
        BY <2>5, <3>1 DEF IInv, DueBounded, Used
    <2>8. OnePlace'
      BY <1>3, <2>5 DEF IInv, OnePlace, Used
    <2>9. Attempts'
      <3>1. ASSUME NEW t \in Slot, Used(t)', t # s
            PROVE  LET q == pending'[t].packet
                   IN  /\ sent'[q] = Retries + 1 - pending'[t].retries_left
                       /\ results'[q] = <<>> /\ q \in tracked'
        <4>1. Used(t) /\ pending'[t] = pending[t] /\ pending[t].packet # p
          BY <1>3, <2>5, <3>1 DEF Used
        <4>2. sent'[pending[t].packet] = sent[pending[t].packet]
          BY <4>1, <1>2, UsedEntry DEF IInv
        <4>3. QED
          BY <4>1, <4>2, <2>2 DEF IInv, Attempts
      <3>2. sent'[p] = Retries + 1 - e.retries_left
        BY <1>2, DeliveryAssumption
      <3>3. QED
        BY <3>1, <3>2, <2>2, <2>5, <1>1 DEF Attempts, Used
    <2>10. Unsent' /\ Outcomes'
      BY <1>1, <1>2, <2>2, DeliveryAssumption DEF IInv, Unsent, Outcomes
    <2>11. Honest' /\ SuccessMeansAccepted'
      BY <1>1, <1>4, <2>2, ResultsDiffer DEF IInv, Honest, SuccessMeansAccepted, TypeOK
    <2>12. QED
      BY <2>6, <2>7, <2>8, <2>9, <2>10, <2>11 DEF IInv
  <1>6. CASE ~\E s \in Slot : pending[s] = Free
    <2>1. pending' = pending /\ tracked' = tracked /\ results' = [results EXCEPT ![p] = <<"None">>]
      BY <1>1, <1>6 DEF SendWantAck, Report, IInv, TypeOK
    <2>2. results' \in [Packet -> Seq(Result)] /\ results \in [Packet -> Seq(Result)]
      BY <2>1 DEF IInv, TypeOK, Result
    <2>3. TypeOK'
      BY <1>2, <1>4, <2>1, <2>2 DEF IInv, TypeOK, Result
    <2>4. DueBounded' /\ OnePlace' /\ Honest'
      BY <1>4, <2>1 DEF IInv, DueBounded, OnePlace, Honest, Used
    <2>5. Attempts'
      BY <1>2, <1>3, <2>1, <2>2, UsedEntry DEF IInv, Attempts, Used
    <2>6. Unsent' /\ Outcomes'
      <3>1. /\ sent'[p] = 1 /\ results'[p] = <<"None">>
            /\ \A q \in Packet : q # p => sent'[q] = sent[q] /\ results'[q] = results[q]
        BY <1>2, <2>1, <2>2
      <3>2. QED
        BY <3>1, <2>1, ResultsDiffer DEF IInv, Unsent, Outcomes
    <2>7. SuccessMeansAccepted'
      BY <1>1, <1>4, <2>1, <2>2 DEF IInv, SuccessMeansAccepted, TypeOK
    <2>8. QED
      BY <2>3, <2>4, <2>5, <2>6, <2>7 DEF IInv
  <1>7. QED
    BY <1>5, <1>6

\* A relay heard, or a frame that is nobody's answer: deadlines move, and at most an
\* entry goes.
LEMMA RemovalKeeps ==
  ASSUME IInv, Received, UNCHANGED <<route, sent, results, tracked, got, answers>>,
         \/ pending' = Extended(pending)
         \/ \E s \in Slot : pending' = [Extended(pending) EXCEPT ![s] = Free]
  PROVE  IInv'
  <1>1. Thinned(pending')
    BY ExtendedThins, RemoveThins DEF IInv
  <1>2. \A s \in Slot : Used(s)' => pending'[s].due <= Timeout + rx'
    BY ExtendedThins DEF IInv, Used, Thinned
  <1>3. DueBounded' /\ OnePlace' /\ Attempts'
    BY <1>1, <1>2, ThinnedKeeps
  <1>4. rx' \in 0..MaxRx
    BY DeliveryAssumption DEF IInv, TypeOK, Received
  <1>5. TypeOK'
    BY <1>1, <1>4 DEF IInv, TypeOK, Thinned
  <1>6. QED
    BY <1>3, <1>5 DEF IInv, Unsent, Outcomes, Honest, SuccessMeansAccepted

LEMMA HearOwnPacketKeeps ==
  ASSUME IInv, NEW p \in Packet, HearOwnPacket(p)
  PROVE  IInv'
  BY RemovalKeeps DEF HearOwnPacket, Holding

LEMMA HearOtherKeeps ==
  ASSUME IInv, HearOther
  PROVE  IInv'
  BY RemovalKeeps DEF HearOther

LEMMA LearnRouteType ==
  ASSUME NEW known \in Byte, NEW from \in Byte, NEW relay \in Byte
  PROVE  LearnRoute(known, from, relay) \in Byte
  BY DEF LearnRoute

LEMMA HearAnswerKeeps ==
  ASSUME IInv, NEW a \in answers, HearAnswer(a)
  PROVE  IInv'
  <1> DEFINE p == a.request
  <1>1. a \in Answer /\ p \in Packet
    BY DEF IInv, TypeOK, Answer
  <1>2. /\ Received /\ ResolveBy(p) /\ answers' = answers \ {a}
        /\ UNCHANGED <<sent, tracked, got>>
    BY DEF HearAnswer
  <1>3. route' \in [Peer -> Byte]
    <2>1. PICK relay \in Byte :
            route' \in {route, [route EXCEPT ![Dest[p]] =
                                  LearnRoute(route[Dest[p]], PeerByte[Dest[p]], relay)]}
      BY DEF HearAnswer
    <2>2. Dest[p] \in Peer /\ route \in [Peer -> Byte] /\ PeerByte[Dest[p]] \in Byte
      BY <1>1, DeliveryAssumption DEF IInv, TypeOK
    <2>3. LearnRoute(route[Dest[p]], PeerByte[Dest[p]], relay) \in Byte
      BY <2>2, LearnRouteType
    <2>4. QED
      BY <2>1, <2>2, <2>3
  <1>4. rx' \in 0..MaxRx
    BY <1>2, DeliveryAssumption DEF IInv, TypeOK, Received
  <1>5. Honest'
    BY <1>2 DEF IInv, Honest
  <1>6. CASE ~Pending(p)
    <2>1. pending' = Extended(pending) /\ results' = results
      BY <1>2, <1>6 DEF ResolveBy
    <2>2. Thinned(pending') /\ \A s \in Slot : Used(s)' => pending'[s].due <= Timeout + rx'
      BY <1>2, <2>1, ExtendedThins DEF IInv, Used
    <2>3. DueBounded' /\ OnePlace' /\ Attempts'
      BY <1>2, <2>1, <2>2, ThinnedKeeps
    <2>4. TypeOK'
      BY <1>2, <1>3, <1>4, <2>1, <2>2 DEF IInv, TypeOK, Thinned
    <2>5. QED
      BY <1>2, <1>5, <2>1, <2>3, <2>4 DEF IInv, Unsent, Outcomes, SuccessMeansAccepted
  <1>7. CASE Pending(p)
    <2>1. PICK s \in Holding(p) : pending' = [Extended(pending) EXCEPT ![s] = Free]
      BY <1>2, <1>7 DEF ResolveBy
    <2>2. s \in Slot /\ Used(s) /\ pending[s].packet = p
      BY <2>1 DEF Holding, Used
    <2>3. Thinned(Extended(pending))
      BY <1>2, ExtendedThins DEF IInv
    <2>4. Thinned(pending') /\ ~Used(s)'
      BY <2>1, <2>2, <2>3, RemoveThins DEF Used, Thinned
    <2>5. results[p] = <<>> /\ p \in tracked /\ sent[p] # 0
      <3>1. results[p] = <<>> /\ p \in tracked
        BY <2>2 DEF IInv, Attempts
      <3>2. QED
        BY <1>1, <3>1 DEF IInv, Unsent
    <2>6. results' = [results EXCEPT ![p] = <<"None">>] /\ results \in [Packet -> Seq(Result)]
      BY <1>2, <1>7, <2>5 DEF ResolveBy, Report, IInv, TypeOK, Result
    <2>7. /\ results'[p] = <<"None">>
          /\ \A q \in Packet : q # p => results'[q] = results[q]
      BY <1>1, <2>6
    <2>8. \A t \in Slot : Used(t)' => pending'[t].due <= Timeout + rx'
      BY <1>2, <2>1, <2>3, ExtendedThins DEF IInv, Used, Thinned
    <2>9. \A t \in Slot : Used(t)' => results'[pending[t].packet] = results[pending[t].packet]
      <3>1. SUFFICES ASSUME NEW t \in Slot, Used(t)'
                     PROVE  results'[pending[t].packet] = results[pending[t].packet]
        OBVIOUS
      <3>2. Used(t) /\ t # s
        BY <2>4, <3>1 DEF Thinned, Used
      <3>3. pending[t].packet # p
        BY <2>2, <3>2 DEF IInv, OnePlace
      <3>4. QED
        BY <2>7, <3>2, <3>3, UsedEntry DEF IInv
    <2>10. DueBounded' /\ OnePlace' /\ Attempts'
      BY <1>2, <2>4, <2>8, <2>9, ThinnedKeeps
    <2>11. results' \in [Packet -> Seq(Result)]
      <3>1. <<"None">> \in Seq(Result)
        BY DEF Result
      <3>2. QED
        BY <2>6, <3>1
    <2>12. TypeOK'
      BY <1>2, <1>3, <1>4, <2>4, <2>11 DEF IInv, TypeOK, Thinned, Result
    <2>13. Unsent' /\ Outcomes'
      BY <1>2, <2>5, <2>7, ResultsDiffer DEF IInv, Unsent, Outcomes
    <2>14. SuccessMeansAccepted'
      BY <1>2, <2>7 DEF IInv, Honest, SuccessMeansAccepted, TypeOK
    <2>15. QED
      BY <1>5, <2>10, <2>12, <2>13, <2>14 DEF IInv
  <1>8. QED
    BY <1>6, <1>7

-----------------------------------------------------------------------------
LEMMA RetriedEntry ==
  ASSUME NEW e \in Entry, e.retries_left # 0
  PROVE  /\ Retried(e) \in Entry
         /\ Retried(e).packet = e.packet
         /\ Retried(e).due = Timeout
         /\ Retried(e).retries_left = e.retries_left - 1
  <1>1. e.retries_left - 1 \in 0..Retries /\ Timeout \in 0..Timeout+MaxRx /\ NoNextHop \in Byte
    BY DeliveryAssumption, RouterAssumption DEF Entry, NoNextHop
  <1>2. QED
    BY <1>1 DEF Retried, Entry

LEMMA TickKeeps ==
  ASSUME IInv, Tick
  PROVE  IInv'
  <1>1. UNCHANGED <<route, sent, results, tracked, got, answers, rx>>
    BY DEF Tick
  <1>2. ASSUME NEW s \in Slot, Used(s)
        PROVE  /\ pending'[s] \in Entry
               /\ pending'[s].packet = pending[s].packet
               /\ pending'[s].retries_left = pending[s].retries_left
               /\ pending'[s].due <= Timeout + rx'
    <2>1. pending[s] \in Entry /\ pending[s].due \in 0..Timeout+MaxRx /\ pending[s].due <= Timeout + rx
      BY <1>2, UsedEntry DEF IInv, Entry, DueBounded
    <2>2. rx' = rx /\ rx \in Nat
      BY <1>1, DeliveryAssumption DEF IInv, TypeOK
    <2>3. CASE pending[s].due > 0
      <3>1. pending'[s] = [pending[s] EXCEPT !.due = pending[s].due - 1]
        BY <1>2, <2>3 DEF Tick, Used
      <3>2. pending[s].due - 1 \in 0..Timeout+MaxRx /\ pending[s].due - 1 <= Timeout + rx
        BY <2>1, <2>2, <2>3, DeliveryAssumption
      <3>3. QED
        BY <2>1, <2>2, <3>1, <3>2 DEF Entry
    <2>4. CASE ~(pending[s].due > 0)
      BY <1>2, <2>1, <2>2, <2>4 DEF Tick, Used
    <2>5. QED
      BY <2>3, <2>4
  <1>3. \A s \in Slot : ~Used(s) => pending'[s] = Free
    BY DEF Tick, Used
  <1>4. pending' \in [Slot -> Entry \cup {Free}]
    BY <1>2, <1>3 DEF Tick
  <1>5. Thinned(pending')
    BY <1>2, <1>3, <1>4 DEF Thinned
  <1>6. DueBounded' /\ OnePlace' /\ Attempts'
    BY <1>1, <1>2, <1>3, <1>5, ThinnedKeeps DEF Used
  <1>7. QED
    BY <1>1, <1>4, <1>6 DEF IInv, TypeOK, Unsent, Outcomes, Honest, SuccessMeansAccepted

LEMMA TickRetransmissionsKeeps ==
  ASSUME IInv, TickRetransmissions
  PROVE  IInv'
  <1> DEFINE resent == {pending[s].packet : s \in Due \ Exhausted}
             failed == {pending[s].packet : s \in Exhausted}
  <1>1. UNCHANGED <<tracked, got, answers, rx>>
    BY DEF TickRetransmissions
  <1>2. /\ \A p \in Packet : sent'[p] = IF p \in resent THEN sent[p] + 1 ELSE sent[p]
        /\ \A p \in Packet : results'[p] = IF p \in failed THEN Append(results[p], "MaxRetransmit")
                                           ELSE results[p]
        /\ DOMAIN sent' = Packet /\ DOMAIN results' = Packet
        /\ sent' = [p \in Packet |-> sent'[p]] /\ results' = [p \in Packet |-> results'[p]]
    BY DEF TickRetransmissions
  <1>3. \A s \in Slot : pending'[s] = IF s \in Exhausted THEN Free
                                      ELSE IF s \in Due THEN Retried(pending[s]) ELSE pending[s]
    BY DEF TickRetransmissions
  <1>4. ASSUME NEW s \in Due
        PROVE  /\ s \in Slot /\ Used(s) /\ pending[s] \in Entry
               /\ s \in Exhausted <=> pending[s].retries_left = 0
               /\ pending[s].packet \in Packet
    BY <1>4, UsedEntry DEF Due, Exhausted, Used, IInv
  <1>5. Exhausted \subseteq Due
    BY DEF Exhausted
  <1>6. ASSUME NEW s \in Slot, Used(s)
        PROVE  /\ pending[s].packet \in resent <=> s \in Due \ Exhausted
               /\ pending[s].packet \in failed <=> s \in Exhausted
    <2>1. \A t \in Due : pending[t].packet = pending[s].packet => t = s
      BY <1>4, <1>6 DEF IInv, OnePlace
    <2>2. QED
      BY <1>5, <2>1
  <1> HIDE DEF resent, failed
  \* What a tick does to one pending packet.
  <1>7. ASSUME NEW s \in Slot, Used(s)'
        PROVE  /\ Used(s) /\ s \notin Exhausted
               /\ pending'[s] \in Entry
               /\ pending'[s].packet = pending[s].packet
               /\ pending'[s].due <= Timeout + rx'
               /\ sent'[pending[s].packet] = Retries + 1 - pending'[s].retries_left
               /\ results'[pending[s].packet] = <<>>
    <2>1. s \notin Exhausted
      BY <1>3, <1>7 DEF Used
    <2>2. Used(s)
      BY <1>3, <1>4, <1>7, <2>1 DEF Used
    <2>3. /\ pending[s] \in Entry /\ pending[s].packet \in Packet
          /\ pending[s].retries_left \in 0..Retries
      BY <2>2, UsedEntry DEF IInv
    <2>4. /\ sent[pending[s].packet] = Retries + 1 - pending[s].retries_left
          /\ results[pending[s].packet] = <<>>
          /\ pending[s].due <= Timeout + rx
      BY <2>2 DEF IInv, Attempts, DueBounded
    <2>5. results'[pending[s].packet] = <<>>
      BY <1>2, <1>6, <2>1, <2>2, <2>3, <2>4
    <2>6. rx' = rx /\ rx \in Nat
      BY <1>1, DeliveryAssumption DEF IInv, TypeOK
    <2>7. CASE s \in Due
      <3>1. pending[s].retries_left # 0 /\ pending'[s] = Retried(pending[s])
        BY <1>3, <1>4, <2>1, <2>7
      <3>2. sent'[pending[s].packet] = sent[pending[s].packet] + 1
        BY <1>2, <1>6, <2>1, <2>2, <2>3, <2>7
      <3>3. /\ pending'[s] \in Entry
            /\ pending'[s].packet = pending[s].packet
            /\ pending'[s].due = Timeout
            /\ pending'[s].retries_left = pending[s].retries_left - 1
        BY <2>3, <3>1, RetriedEntry
      <3>4. QED
        BY <2>1, <2>2, <2>3, <2>4, <2>5, <2>6, <3>2, <3>3, DeliveryAssumption
    <2>8. CASE s \notin Due
      BY <1>2, <1>3, <1>6, <2>1, <2>2, <2>3, <2>4, <2>5, <2>6, <2>8
    <2>9. QED
      BY <2>7, <2>8
  \* What it does to the counts of any packet.
  <1>8. ASSUME NEW p \in Packet
        PROVE  /\ p \in resent => sent[p] \in 1..Retries
               /\ p \in failed => results[p] = <<>> /\ sent[p] = Retries + 1 /\ p \notin resent
    <2>1. ASSUME p \in resent PROVE sent[p] \in 1..Retries
      <3>1. PICK s \in Due \ Exhausted : p = pending[s].packet
        BY <2>1 DEF resent
      <3>2. pending[s].retries_left \in 1..Retries
        BY <1>4, <3>1, UsedEntry, DeliveryAssumption DEF IInv
      <3>3. sent[p] = Retries + 1 - pending[s].retries_left
        BY <1>4, <3>1 DEF IInv, Attempts
      <3>4. QED
        BY <3>2, <3>3, DeliveryAssumption
    <2>2. ASSUME p \in failed
          PROVE  results[p] = <<>> /\ sent[p] = Retries + 1 /\ p \notin resent
      <3>1. PICK s \in Exhausted : p = pending[s].packet
        BY <2>2 DEF failed
      <3>2. s \in Slot /\ Used(s) /\ pending[s].retries_left = 0
        BY <1>4, <1>5, <3>1
      <3>3. results[p] = <<>> /\ sent[p] = Retries + 1 - 0
        BY <3>1, <3>2 DEF IInv, Attempts
      <3>4. p \notin resent
        BY <1>6, <3>1, <3>2
      <3>5. QED
        BY <3>3, <3>4, DeliveryAssumption
    <2>3. QED
      BY <2>1, <2>2
  <1>9. \A p \in Packet : p \in failed => results'[p] = <<"MaxRetransmit">>
    BY <1>2, <1>8
  <1>10. pending' \in [Slot -> Entry \cup {Free}]
    <2>1. \A s \in Slot : pending'[s] \in Entry \cup {Free}
      BY <1>7 DEF Used
    <2>2. QED
      BY <2>1 DEF TickRetransmissions
  <1>11. route' \in [Peer -> Byte]
    BY RouterAssumption DEF TickRetransmissions, NoNextHop, IInv, TypeOK
  <1>12. sent' \in [Packet -> 0..Retries+1]
    <2>1. \A p \in Packet : sent'[p] \in 0..Retries+1
      BY <1>2, <1>8, DeliveryAssumption DEF IInv, TypeOK
    <2>2. QED
      BY <1>2, <2>1
  <1>13. results' \in [Packet -> Seq(Result)]
    <2>1. <<"MaxRetransmit">> \in Seq(Result)
      BY DEF Result
    <2>2. results \in [Packet -> Seq(Result)]
      BY DEF IInv, TypeOK, Result
    <2>3. \A p \in Packet : results'[p] \in Seq(Result)
      BY <1>2, <1>9, <2>1, <2>2
    <2>4. QED
      BY <1>2, <2>3
  <1>14. TypeOK'
    BY <1>1, <1>10, <1>11, <1>12, <1>13 DEF IInv, TypeOK, Result
  <1>15. DueBounded'
    BY <1>7 DEF DueBounded
  <1>16. OnePlace'
    BY <1>7 DEF IInv, OnePlace
  <1>17. Attempts'
    BY <1>1, <1>7 DEF IInv, Attempts
  <1>18. Unsent' /\ Outcomes'
    <2>1. ASSUME NEW p \in Packet
          PROVE  /\ sent'[p] = 0 => results'[p] = <<>> /\ p \notin tracked'
                 /\ results'[p] \in {<<>>, <<"None">>, <<"MaxRetransmit">>}
                 /\ results'[p] = <<"MaxRetransmit">> => sent'[p] = Retries + 1
      <3>1. sent[p] \in 0..Retries+1
        BY DEF IInv, TypeOK
      <3>2. CASE p \in failed
        <4>1. sent'[p] = sent[p] /\ sent[p] = Retries + 1 /\ Retries + 1 # 0
          BY <1>2, <1>8, <3>2, DeliveryAssumption
        <4>2. results'[p] = <<"MaxRetransmit">>
          BY <1>9, <3>2
        <4>3. QED
          BY <4>1, <4>2
      <3>3. CASE p \notin failed
        BY <1>1, <1>2, <1>8, <3>1, <3>3, DeliveryAssumption DEF IInv, Unsent, Outcomes
      <3>4. QED
        BY <3>2, <3>3
    <2>2. QED
      BY <2>1 DEF Unsent, Outcomes
  <1>19. Honest' /\ SuccessMeansAccepted'
    BY <1>1, <1>2, <1>9, ResultsDiffer DEF IInv, TypeOK, Honest, SuccessMeansAccepted
  <1>20. QED
    BY <1>14, <1>15, <1>16, <1>17, <1>18, <1>19 DEF IInv

LEMMA PeerKeeps ==
  ASSUME IInv, NEW p \in Packet, PeerAccepts(p) \/ PeerRefuses(p)
  PROVE  IInv'
  <1>1. UNCHANGED <<pending, route, sent, results, tracked, rx>>
    BY DEF PeerAccepts, PeerRefuses
  <1>2. /\ got \subseteq got' /\ got' \subseteq Packet
        /\ \E nak \in BOOLEAN : answers' = answers \cup {[request |-> p, nak |-> nak]}
        /\ p \notin Unreadable => p \in got'
    BY DEF PeerAccepts, PeerRefuses, IInv, TypeOK
  <1>3. answers' \subseteq Answer
    BY <1>2 DEF IInv, TypeOK, Answer
  <1>4. Honest'
    BY <1>2 DEF IInv, Honest
  <1>5. TypeOK'
    BY <1>1, <1>2, <1>3 DEF IInv, TypeOK
  <1>6. QED
    BY <1>1, <1>2, <1>4, <1>5
       DEF IInv, DueBounded, OnePlace, Attempts, Unsent, Outcomes, SuccessMeansAccepted, Used

LEMMA LoseAnswerKeeps ==
  ASSUME IInv, NEW a \in answers, LoseAnswer(a)
  PROVE  IInv'
  BY DEF LoseAnswer, IInv, TypeOK, DueBounded, OnePlace, Attempts, Unsent, Outcomes, Honest,
         SuccessMeansAccepted, Used

LEMMA StepKeeps == IInv /\ [Next]_vars => IInv'
  <1> SUFFICES ASSUME IInv, [Next]_vars PROVE IInv'
    OBVIOUS
  <1>1. CASE UNCHANGED vars
    BY <1>1 DEF vars, IInv, TypeOK, DueBounded, OnePlace, Attempts, Unsent, Outcomes, Honest,
                SuccessMeansAccepted, Used
  <1>2. ASSUME NEW p \in Packet,
               SendWantAck(p) \/ HearOwnPacket(p) \/ PeerAccepts(p) \/ PeerRefuses(p)
        PROVE  IInv'
    BY <1>2, SendKeeps, HearOwnPacketKeeps, PeerKeeps
  <1>3. ASSUME NEW a \in answers, HearAnswer(a) \/ LoseAnswer(a)
        PROVE  IInv'
    BY <1>3, HearAnswerKeeps, LoseAnswerKeeps
  <1>4. CASE HearOther
    BY <1>4, HearOtherKeeps
  <1>5. CASE TickRetransmissions
    BY <1>5, TickRetransmissionsKeeps
  <1>6. CASE Tick
    BY <1>6, TickKeeps
  <1>7. QED
    BY <1>1, <1>2, <1>3, <1>4, <1>5, <1>6 DEF Next

-----------------------------------------------------------------------------
\* The table, the counters and the answers keep their types; in particular no packet
\* goes out more than 1 + Retries times, and a deadline grows only with the frames
\* received (tick_retransmissions, extend_pending_deadlines).
THEOREM DeliveryTypeCorrect == Spec => []TypeOK
  <1>1. IInv => TypeOK
    BY DEF IInv
  <1>2. QED
    BY InitHolds, StepKeeps, <1>1, PTL DEF Spec

\* However many packets compete for the table and in whatever order answers and timers
\* come, the phone hears of each packet at most once, and never while it is being
\* retried (routing::handle, next_event).
THEOREM PhoneToldOnce == Spec => []OneResult
  <1>1. IInv => OneResult
    <2> SUFFICES ASSUME IInv, NEW p \in Packet
                 PROVE  Len(results[p]) <= 1 /\ (Pending(p) => results[p] = <<>>)
      BY DEF OneResult
    <2>1. Len(results[p]) <= 1
      BY OutcomeLength DEF IInv, Outcomes
    <2>2. Pending(p) => results[p] = <<>>
      BY DEF IInv, Attempts, Pending, Holding, Used
    <2>3. QED
      BY <2>1, <2>2
  <1>2. QED
    BY InitHolds, StepKeeps, <1>1, PTL DEF Spec

\* For every number of retries, "max retransmissions" is reported only when the packet
\* went out once and then once for each retry (tick_retransmissions).
THEOREM FailureOnlyAfterRetries == Spec => []FailureAfterAllAttempts
  <1>1. IInv => FailureAfterAllAttempts
    BY DEF IInv, Outcomes, FailureAfterAllAttempts
  <1>2. QED
    BY InitHolds, StepKeeps, <1>1, PTL DEF Spec

\* Success told of a tracked packet that its destination can read means that the
\* destination has it (routing::handle, HearOwnPacket's silence).
THEOREM SuccessIsTrue == Spec => []SuccessMeansAccepted
  <1>1. IInv => SuccessMeansAccepted
    BY DEF IInv
  <1>2. QED
    BY InitHolds, StepKeeps, <1>1, PTL DEF Spec
=============================================================================
