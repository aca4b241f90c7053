------------------------- MODULE NodeDatabaseProofs -------------------------
(***************************************************************************)
(* Proofs about the node database and its snapshot for any peers and any   *)
(* capacities of the table and of the flash sector.                        *)
(***************************************************************************)
EXTENDS NodeDatabase, FiniteSetTheorems, TLAPS

\* A flush starts only for a dirty database, and nothing cleans it on the way.
SavingMeansDirty == Erasing \/ Writing => dirty

IInv == TypeOK /\ SavingMeansDirty /\ CleanMeansSaved

\* A table of the database, within its capacity.
Table(t) == IsTable(t, Fact) /\ Cardinality(DOMAIN t) <= MaxNodes

\* A snapshot that fits in the sector.
Snapshot(f) == IsTable(f, Stored) /\ Cardinality(DOMAIN f) <= MaxPersisted

\* Nothing that a flush would write, routes aside, distinguishes the tables.
SameStored(t, u) ==
  /\ DOMAIN t = DOMAIN u
  /\ \A n \in DOMAIN t : (t[n] \cap Stored) \ {"route"} = (u[n] \cap Stored) \ {"route"}

-----------------------------------------------------------------------------
(* The operations keep a table a table.                                    *)

LEMMA NodesFinite ==
  /\ IsFiniteSet(Node) /\ MaxNodes \in Nat /\ MaxPersisted \in Nat /\ MaxPersisted <= MaxNodes
  /\ \A S \in SUBSET Node : IsFiniteSet(S) /\ Cardinality(S) \in Nat
  <1>1. IsFiniteSet(Node)
    BY DatabaseAssumption, FS_AddElement DEF Node
  <1>2. ASSUME NEW S \in SUBSET Node PROVE IsFiniteSet(S) /\ Cardinality(S) \in Nat
    BY <1>1, FS_Subset, FS_CardinalityType
  <1>3. QED
    BY <1>1, <1>2, DatabaseAssumption

LEMMA EmptyTable == Table(<< >>) /\ Snapshot(<< >>) /\ DOMAIN << >> = {}
  <1>1. DOMAIN << >> = {}
    OBVIOUS
  <1>2. \A facts : << >> \in [{} -> SUBSET facts]
    OBVIOUS
  <1>3. IsTable(<< >>, Fact) /\ IsTable(<< >>, Stored)
    BY <1>1, <1>2 DEF IsTable
  <1>4. Cardinality(DOMAIN << >>) = 0
    BY <1>1, FS_EmptySet
  <1>5. QED
    BY <1>1, <1>3, <1>4, NodesFinite DEF Table, Snapshot

LEMMA CreatedTable ==
  ASSUME NEW t, Table(t), NEW n \in Node
  PROVE  /\ Table(Created(t, n))
         /\ n \notin DOMAIN Created(t, n) => Created(t, n) = t
         /\ DOMAIN Created(t, n) = DOMAIN t => Created(t, n) = t
         /\ DOMAIN t \subseteq DOMAIN Created(t, n)
         /\ \A m \in DOMAIN t : Created(t, n)[m] = t[m]
  <1>1. CASE n \in DOMAIN t \/ ~HasRoom(t)
    BY <1>1 DEF Created
  <1>2. CASE ~(n \in DOMAIN t \/ ~HasRoom(t))
    <2> DEFINE u == [m \in DOMAIN t \cup {n} |-> IF m = n THEN {} ELSE t[m]]
    <2>1. Created(t, n) = u /\ n \notin DOMAIN t /\ Cardinality(DOMAIN t) < MaxNodes
      BY <1>2 DEF Created, HasRoom
    <2>2. DOMAIN u = DOMAIN t \cup {n} /\ DOMAIN t \subseteq Node
      BY DEF Table, IsTable
    <2>3. Cardinality(DOMAIN u) <= MaxNodes
      BY <2>1, <2>2, NodesFinite, FS_AddElement
    <2>4. u \in [DOMAIN u -> SUBSET Fact]
      BY DEF Table, IsTable
    <2>5. Table(u)
      BY <2>2, <2>3, <2>4 DEF Table, IsTable
    <2>6. QED
      BY <2>1, <2>2, <2>5
  <1>3. QED
    BY <1>1, <1>2

LEMMA WithTable ==
  ASSUME NEW t, Table(t), NEW n, NEW facts \in SUBSET Fact
  PROVE  /\ Table(With(t, n, facts)) /\ DOMAIN With(t, n, facts) = DOMAIN t
         /\ n \notin DOMAIN t => With(t, n, facts) = t
  BY DEF With, Table, IsTable

LEMMA WithoutTable ==
  ASSUME NEW t, Table(t), NEW n, NEW facts
  PROVE  /\ Table(Without(t, n, facts)) /\ DOMAIN Without(t, n, facts) = DOMAIN t
         /\ n \notin DOMAIN t => Without(t, n, facts) = t
  BY DEF Without, Table, IsTable

LEMMA IgnoredTable ==
  ASSUME NEW t, Table(t), NEW n
  PROVE  /\ Table(Ignored(t, n)) /\ DOMAIN Ignored(t, n) = DOMAIN t
         /\ n \notin DOMAIN t => Ignored(t, n) = t
  <1>1. {"ignored"} \in SUBSET Fact
    BY DEF Fact, Stored, Choice
  <1>2. QED
    BY <1>1, WithTable, WithoutTable DEF Ignored

LEMMA RemovedTable ==
  ASSUME NEW t, Table(t), NEW n
  PROVE  /\ Table(Removed(t, n))
         /\ n \notin DOMAIN t => Removed(t, n) = t
  <1>1. DOMAIN Removed(t, n) = DOMAIN t \ {n} /\ DOMAIN t \subseteq Node
    BY DEF Removed, Restrict, Table, IsTable
  <1>2. Cardinality(DOMAIN t \ {n}) <= Cardinality(DOMAIN t)
    BY <1>1, NodesFinite, FS_Subset
  <1>3. Cardinality(DOMAIN t \ {n}) <= MaxNodes
    BY <1>1, <1>2, NodesFinite DEF Table
  <1>4. QED
    BY <1>1, <1>3 DEF Removed, Restrict, Table, IsTable

LEMMA ExtendedTable ==
  ASSUME NEW t, Table(t), NEW S \in SUBSET Node, NEW A \in Additions(t, S)
  PROVE  /\ Table(Extended(t, A))
         /\ DOMAIN Extended(t, A) = DOMAIN t \cup A
         /\ DOMAIN Extended(t, A) = DOMAIN t => Extended(t, A) = t
         /\ \A m \in DOMAIN t : Extended(t, A)[m] = t[m]
  <1> DEFINE u == Extended(t, A)
  <1>1. /\ DOMAIN t \subseteq Node /\ A \subseteq Node /\ A \cap DOMAIN t = {}
        /\ Cardinality(A) <= MaxNodes - Cardinality(DOMAIN t)
    BY DEF Additions, Table, IsTable
  <1>2. DOMAIN u = DOMAIN t \cup A /\ u \in [DOMAIN u -> SUBSET Fact]
    BY DEF Extended, Table, IsTable
  <1>3. Cardinality(DOMAIN t \cup A) = Cardinality(DOMAIN t) + Cardinality(A) - 0
    <2>1. IsFiniteSet(DOMAIN t) /\ IsFiniteSet(A)
      BY <1>1, NodesFinite
    <2>2. DOMAIN t \cap A = {} /\ Cardinality({}) = 0
      BY <1>1, FS_EmptySet
    <2>3. QED
      BY <2>1, <2>2, FS_Union
  <1>4. Cardinality(DOMAIN u) <= MaxNodes
    BY <1>1, <1>2, <1>3, NodesFinite
  <1>5. \A m \in DOMAIN t : u[m] = t[m]
    BY <1>1 DEF Extended
  <1>6. DOMAIN u = DOMAIN t => u = t
    BY <1>1, <1>2, <1>5 DEF Extended, Table, IsTable
  <1>7. QED
    BY <1>1, <1>2, <1>4, <1>5, <1>6 DEF Table, IsTable

-----------------------------------------------------------------------------
(* Snapshots.                                                              *)

LEMMA SnapshotAgrees ==
  ASSUME NEW t, Table(t), NEW f \in Snapshots(t)
  PROVE  Snapshot(f) /\ Agree(t, f)
  <1>1. PICK S \in Kept(t) : f = Restrict(Image(t), S)
    BY DEF Snapshots
  <1>2. /\ S \subseteq DOMAIN t /\ Cardinality(S) <= MaxPersisted
        /\ S = DOMAIN t \/ Cardinality(S) = MaxPersisted
    BY <1>1 DEF Kept
  <1>3. DOMAIN f = S /\ \A n \in S : f[n] = t[n] \cap Stored
    BY <1>1, <1>2 DEF Restrict, Image
  <1>4. IsTable(f, Stored)
    BY <1>1, <1>2, <1>3 DEF Restrict, IsTable, Table
  <1>5. Agree(t, f)
    BY <1>2, <1>3 DEF Agree
  <1>6. QED
    BY <1>2, <1>3, <1>4, <1>5 DEF Snapshot

LEMMA RestrictedSnapshot ==
  ASSUME NEW f, Snapshot(f), NEW A \in SUBSET DOMAIN f
  PROVE  Snapshot(Restrict(f, A)) /\ DOMAIN Restrict(f, A) = A
  <1>1. DOMAIN Restrict(f, A) = A /\ DOMAIN f \subseteq Node
    BY DEF Restrict, Snapshot, IsTable
  <1>2. Cardinality(A) <= MaxPersisted
    BY <1>1, NodesFinite, FS_Subset DEF Snapshot
  <1>3. QED
    BY <1>1, <1>2 DEF Restrict, Snapshot, IsTable

LEMMA CutType ==
  ASSUME NEW e \in SUBSET Stored, NEW k
  PROVE  Cut(e, k) \in SUBSET Stored
  <1>1. \A i \in 1..4 : Fields[i] \subseteq Stored
    BY DEF Fields, Stored
  <1>2. QED
    BY <1>1 DEF Cut

\* Whatever an interrupted write leaves still reads as a snapshot.
LEMMA TornSnapshot ==
  ASSUME NEW t, Table(t), NEW f \in Torn(t)
  PROVE  Snapshot(f)
  <1>1. CASE f = << >>
    BY <1>1, EmptyTable
  <1>2. CASE \E s \in Snapshots(t) : \E A \in SUBSET DOMAIN s : f = Restrict(s, A)
    BY <1>2, SnapshotAgrees, RestrictedSnapshot
  <1>3. CASE \E s \in Snapshots(t), m \in DOMAIN t, k \in Cuts :
               \E A \in {B \in SUBSET DOMAIN s : m \in B} :
                 f = [Restrict(s, A) EXCEPT ![m] = Cut(@, k)]
    <2>0. PICK s \in Snapshots(t), m \in DOMAIN t, k \in Cuts :
            \E A \in SUBSET DOMAIN s :
              m \in A /\ f = [Restrict(s, A) EXCEPT ![m] = Cut(Restrict(s, A)[m], k)]
      BY <1>3
    <2>1. PICK A \in SUBSET DOMAIN s :
            m \in A /\ f = [Restrict(s, A) EXCEPT ![m] = Cut(Restrict(s, A)[m], k)]
      BY <2>0
    <2> DEFINE g == Restrict(s, A)
    <2>2. Snapshot(g) /\ DOMAIN g = A
      BY SnapshotAgrees, RestrictedSnapshot
    <2>3. Cut(g[m], k) \in SUBSET Stored
      BY <2>1, <2>2, CutType DEF Snapshot, IsTable
    <2> HIDE DEF g
    <2>4. f = [g EXCEPT ![m] = Cut(g[m], k)]
      BY <2>1 DEF g
    <2>5. DOMAIN f = A /\ f \in [A -> SUBSET Stored]
      BY <2>2, <2>3, <2>4 DEF Snapshot, IsTable
    <2>6. QED
      BY <2>2, <2>5 DEF Snapshot, IsTable
  <1>4. QED
    BY <1>1, <1>2, <1>3 DEF Torn

LEMMA RestoredAgrees ==
  ASSUME NEW f, Snapshot(f)
  PROVE  Table(Restored(f)) /\ Agree(Restored(f), f)
  <1> DEFINE u == Restored(f)
  <1>1. /\ DOMAIN u = DOMAIN f \ {Us} /\ DOMAIN f \subseteq Node
        /\ \A n \in DOMAIN u : u[n] = f[n] /\ f[n] \subseteq Stored
    BY DEF Restored, Restrict, Snapshot, IsTable
  <1>2. Cardinality(DOMAIN u) <= Cardinality(DOMAIN f)
    BY <1>1, NodesFinite, FS_Subset
  <1>3. Cardinality(DOMAIN u) <= MaxNodes
    <2>1. Cardinality(DOMAIN f) \in Nat /\ Cardinality(DOMAIN u) \in Nat
      BY <1>1, NodesFinite
    <2>2. QED
      BY <1>2, <2>1, NodesFinite DEF Snapshot
  <1>4. Stored \subseteq Fact
    BY DEF Fact
  <1>5. Table(u)
    BY <1>1, <1>3, <1>4 DEF Table, IsTable, Restored, Restrict
  <1>6. Agree(u, f)
    BY <1>1 DEF Agree
  <1>7. QED
    BY <1>5, <1>6

LEMMA AgreeKept ==
  ASSUME NEW t, NEW u, NEW f, Agree(t, f), SameStored(t, u)
  PROVE  Agree(u, f)
  BY DEF Agree, SameStored

\* What is not stored, and the route, makes no difference to a flush.
LEMMA UnstoredKept ==
  ASSUME NEW t, Table(t), NEW n, NEW fact \in {"position", "route"}
  PROVE  /\ SameStored(t, With(t, n, {fact}))
         /\ SameStored(t, Without(t, n, {fact}))
  <1>1. fact \notin Stored \/ fact = "route"
    BY DEF Stored, Choice
  <1>2. QED
    BY <1>1 DEF SameStored, With, Without, Table, IsTable

-----------------------------------------------------------------------------
(* The steps.                                                              *)

LEMMA InitHolds == Init => IInv
  <1> SUFFICES ASSUME Init PROVE IInv
    OBVIOUS
  <1>1. TypeOK
    <2>1. Table(db) /\ Snapshot(flash)
      BY EmptyTable DEF Init
    <2>2. /\ step \in Steps /\ command \in {"none", "shutdown", "reboot"}
          /\ changes \in 0..MaxChanges /\ forgotten \subseteq Node
      BY DatabaseAssumption DEF Init, Steps
    <2>3. /\ dirty \in BOOLEAN /\ elapsed \in BOOLEAN /\ shutdown \in BOOLEAN
          /\ detached \in BOOLEAN
      BY DEF Init
    <2>4. QED
      BY <2>1, <2>2, <2>3 DEF TypeOK, Table, Snapshot
  <1>2. Agree(db, flash)
    <2>1. {n \in DOMAIN << >> : n # Us} = {}
      BY EmptyTable
    <2>2. QED
      BY <2>1, EmptyTable DEF Init, Agree
  <1>3. QED
    BY <1>1, <1>2 DEF Init, IInv, SavingMeansDirty, Erasing, Writing, CleanMeansSaved

LEMMA SameStoredReflexive == \A t : SameStored(t, t)
  BY DEF SameStored

LEMMA LoopSteps ==
  ASSUME NEW d \in BOOLEAN, NEW c
  PROVE  /\ Loop(d, c) \in {"erase", "wait", "commands"}
         /\ Loop(d, c) = "erase" => d
  BY DEF Loop, FlushDue

\* A handler that marks what a flush would miss keeps the promise of mark_clean.
LEMMA HandleKeeps ==
  ASSUME IInv, NEW t, Table(t), NEW marks \in BOOLEAN, Handle(t, marks),
         forgotten' \subseteq Node,
         ~marks /\ DOMAIN t = DOMAIN db => SameStored(db, t)
  PROVE  IInv'
  <1>1. /\ db' = t /\ dirty' = (dirty \/ marks \/ DOMAIN t # DOMAIN db)
        /\ step' = Loop(dirty', command) /\ step = "wait"
        /\ UNCHANGED <<elapsed, flash, command, shutdown, detached>>
    BY DEF Handle
  <1>2. changes' \in 0..MaxChanges
    BY DatabaseAssumption DEF Handle, Counted, IInv, TypeOK
  <1>3. dirty' \in BOOLEAN
    BY <1>1 DEF IInv, TypeOK
  <1>4. step' \in {"erase", "wait", "commands"} /\ (step' = "erase" => dirty')
    BY <1>1, <1>3, LoopSteps
  <1>5. TypeOK'
    BY <1>1, <1>2, <1>3, <1>4 DEF IInv, TypeOK, Table, Steps
  <1>6. SavingMeansDirty'
    BY <1>4 DEF SavingMeansDirty, Erasing, Writing
  <1>7. CleanMeansSaved'
    <2>1. SUFFICES ASSUME ~dirty', ~detached' PROVE Agree(db', flash')
      BY DEF CleanMeansSaved
    <2>2. ~dirty /\ ~detached /\ SameStored(db, t)
      BY <1>1, <2>1
    <2>3. Agree(db, flash)
      BY <1>1, <2>2 DEF IInv, CleanMeansSaved
    <2>4. QED
      BY <1>1, <2>2, <2>3, AgreeKept
  <1>8. QED
    BY <1>5, <1>6, <1>7 DEF IInv

LEMMA TableNow == ASSUME IInv PROVE Table(db) /\ Snapshot(flash)
  BY DEF IInv, TypeOK, Table, Snapshot

LEMMA LearnedType ==
  ASSUME IInv, NEW t, Learned(t)
  PROVE  forgotten' \subseteq Node
  BY DEF Learned, IInv, TypeOK

LEMMA FactSets ==
  /\ {"position"} \in SUBSET Fact /\ {"route"} \in SUBSET Fact
  /\ {"favorite"} \in SUBSET Fact /\ {"ignored"} \in SUBSET Fact /\ {"muted"} \in SUBSET Fact
  /\ \A key \in Key : {"user"} \cup key \in SUBSET Fact
  BY DEF Fact, Stored, Choice, Key

LEMMA ReceiveKeeps ==
  ASSUME IInv, NEW n \in Node,
         \/ ReceivePacket(n) \/ ReceivePosition(n) \/ ReceiveAck(n)
         \/ \E key \in Key : ReceiveNodeInfo(n, key)
  PROVE  IInv'
  <1> DEFINE c == Created(db, n)
  <1>1. Table(c) /\ (DOMAIN c = DOMAIN db => c = db)
    BY TableNow, CreatedTable
  <1> HIDE DEF c
  <1>2. CASE ReceivePacket(n)
    <2>1. Handle(c, FALSE) /\ Learned(c)
      BY <1>2 DEF ReceivePacket, c
    <2>2. DOMAIN c = DOMAIN db => SameStored(db, c)
      BY <1>1, SameStoredReflexive
    <2>3. QED
      BY <1>1, <2>1, <2>2, LearnedType, HandleKeeps
  <1>3. ASSUME NEW fact \in {"position", "route"}, Handle(With(c, n, {fact}), FALSE),
               Learned(With(c, n, {fact}))
        PROVE  IInv'
    <2>1. {fact} \in SUBSET Fact
      BY FactSets
    <2>2. Table(With(c, n, {fact})) /\ DOMAIN With(c, n, {fact}) = DOMAIN c
      BY <1>1, <2>1, WithTable
    <2>3. SameStored(c, With(c, n, {fact}))
      BY <1>1, UnstoredKept
    <2>4. DOMAIN With(c, n, {fact}) = DOMAIN db => SameStored(db, With(c, n, {fact}))
      BY <1>1, <2>2, <2>3
    <2>5. forgotten' \subseteq Node
      BY <1>3, LearnedType
    <2>6. QED
      BY <1>3, <2>2, <2>4, <2>5, HandleKeeps
  <1>4. CASE ReceivePosition(n)
    BY <1>3, <1>4 DEF ReceivePosition, c
  <1>5. CASE ReceiveAck(n)
    BY <1>3, <1>5 DEF ReceiveAck, c
  <1>6. ASSUME NEW key \in Key, ReceiveNodeInfo(n, key)
        PROVE  IInv'
    <2> DEFINE t == With(c, n, {"user"} \cup key)
    <2>1. {"user"} \cup key \in SUBSET Fact
      BY FactSets
    <2>2. Table(t) /\ DOMAIN t = DOMAIN c /\ (n \notin DOMAIN c => t = c)
      BY <1>1, <2>1, WithTable
    <2>3. Handle(t, n \in DOMAIN t) /\ Learned(t)
      BY <1>6 DEF ReceiveNodeInfo, c
    <2> HIDE DEF t
    <2>4. n \notin DOMAIN t /\ DOMAIN t = DOMAIN db => SameStored(db, t)
      BY <1>1, <2>2, SameStoredReflexive
    <2>5. (n \in DOMAIN t) \in BOOLEAN
      OBVIOUS
    <2>6. forgotten' \subseteq Node
      BY <2>3, LearnedType
    <2>7. QED
      BY <2>2, <2>3, <2>4, <2>5, <2>6, HandleKeeps
  <1>7. QED
    BY <1>2, <1>4, <1>5, <1>6

LEMMA ReceiveNeighborInfoKeeps ==
  ASSUME IInv, NEW n \in Node, NEW S \in SUBSET Node, ReceiveNeighborInfo(n, S)
  PROVE  IInv'
  <1> DEFINE c == Created(db, n)
  <1>1. Table(c) /\ (DOMAIN c = DOMAIN db => c = db) /\ DOMAIN db \subseteq DOMAIN c
    BY TableNow, CreatedTable
  <1>2. PICK A \in Additions(c, S) : Handle(Extended(c, A), FALSE) /\ Learned(Extended(c, A))
    BY DEF ReceiveNeighborInfo
  <1> HIDE DEF c
  <1>3. /\ Table(Extended(c, A)) /\ DOMAIN Extended(c, A) = DOMAIN c \cup A
        /\ DOMAIN Extended(c, A) = DOMAIN c => Extended(c, A) = c
    BY <1>1, ExtendedTable
  <1>4. DOMAIN Extended(c, A) = DOMAIN db => SameStored(db, Extended(c, A))
    <2>1. SUFFICES ASSUME DOMAIN Extended(c, A) = DOMAIN db PROVE Extended(c, A) = db
      BY SameStoredReflexive
    <2>2. DOMAIN c = DOMAIN db
      BY <1>1, <1>3, <2>1
    <2>3. QED
      BY <1>1, <1>3, <2>1, <2>2
  <1>5. QED
    BY <1>2, <1>3, <1>4, LearnedType, HandleKeeps

LEMMA LoseRouteKeeps ==
  ASSUME IInv, NEW n, LoseRoute(n)
  PROVE  IInv'
  <1>1. /\ db' = Without(db, n, {"route"})
        /\ UNCHANGED <<dirty, elapsed, flash, step, command, shutdown, detached, forgotten>>
    BY DEF LoseRoute
  <1>2. changes' \in 0..MaxChanges
    BY DatabaseAssumption DEF LoseRoute, Counted, IInv, TypeOK
  <1>3. Table(db') /\ SameStored(db, db')
    BY <1>1, TableNow, WithoutTable, UnstoredKept
  <1>4. TypeOK'
    BY <1>1, <1>2, <1>3 DEF IInv, TypeOK, Table
  <1>5. CleanMeansSaved'
    BY <1>1, <1>3, AgreeKept DEF IInv, CleanMeansSaved
  <1>6. QED
    BY <1>1, <1>4, <1>5 DEF IInv, SavingMeansDirty, Erasing, Writing

LEMMA AddContactKeeps ==
  ASSUME IInv, NEW n \in Node, NEW key \in Key, NEW ignore \in BOOLEAN, AddContact(n, key, ignore)
  PROVE  IInv'
  <1> DEFINE t == With(Created(db, n), n, {"user"} \cup key)
  <1>1. Table(t)
    BY TableNow, CreatedTable, FactSets, WithTable
  <1>2. forgotten' \subseteq Node
    BY LearnedType DEF AddContact
  <1>3. \/ Handle(db, FALSE)
        \/ Handle(Without(Ignored(t, n), n, {"favorite"}), TRUE)
        \/ Handle(With(t, n, {"favorite"}), TRUE)
    BY DEF AddContact
  <1> HIDE DEF t
  <1>4. Table(Without(Ignored(t, n), n, {"favorite"}))
    BY <1>1, IgnoredTable, WithoutTable
  <1>5. Table(With(t, n, {"favorite"}))
    BY <1>1, FactSets, WithTable
  <1>6. QED
    BY <1>2, <1>3, <1>4, <1>5, TableNow, SameStoredReflexive, HandleKeeps

LEMMA FlagKeeps ==
  ASSUME IInv, NEW n \in Node,
         \/ \E on \in BOOLEAN : SetFavorite(n, on) \/ SetIgnored(n, on)
         \/ ToggleMuted(n) \/ RemoveNode(n)
  PROVE  IInv'
  <1>1. \E t : /\ Table(t) /\ Handle(t, n \in DOMAIN db)
               /\ n \notin DOMAIN db => t = db
    <2>1. ASSUME NEW on \in BOOLEAN, SetFavorite(n, on)
          PROVE  \E t : /\ Table(t) /\ Handle(t, n \in DOMAIN db)
                        /\ n \notin DOMAIN db => t = db
      BY <2>1, TableNow, FactSets, WithTable, WithoutTable DEF SetFavorite
    <2>2. ASSUME NEW on \in BOOLEAN, SetIgnored(n, on)
          PROVE  \E t : /\ Table(t) /\ Handle(t, n \in DOMAIN db)
                        /\ n \notin DOMAIN db => t = db
      BY <2>2, TableNow, IgnoredTable, WithoutTable DEF SetIgnored
    <2>3. ASSUME ToggleMuted(n)
          PROVE  \E t : /\ Table(t) /\ Handle(t, n \in DOMAIN db)
                        /\ n \notin DOMAIN db => t = db
      <3>1. n \in DOMAIN db /\ (n \in DOMAIN db) = TRUE
        BY <2>3 DEF ToggleMuted
      <3>2. \/ Handle(Without(db, n, {"muted"}), TRUE)
            \/ Handle(With(db, n, {"muted"}), TRUE)
        BY <2>3 DEF ToggleMuted
      <3>3. Table(Without(db, n, {"muted"})) /\ Table(With(db, n, {"muted"}))
        BY TableNow, FactSets, WithTable, WithoutTable
      <3>4. QED
        BY <3>1, <3>2, <3>3
    <2>4. ASSUME RemoveNode(n)
          PROVE  \E t : /\ Table(t) /\ Handle(t, n \in DOMAIN db)
                        /\ n \notin DOMAIN db => t = db
      BY <2>4, TableNow, RemovedTable DEF RemoveNode
    <2>5. QED
      BY <2>1, <2>2, <2>3, <2>4
  <1>2. PICK t : /\ Table(t) /\ Handle(t, n \in DOMAIN db)
                 /\ n \notin DOMAIN db => t = db
    BY <1>1
  <1>3. UNCHANGED forgotten
    BY DEF SetFavorite, SetIgnored, ToggleMuted, RemoveNode
  <1>4. (n \in DOMAIN db) \in BOOLEAN
    OBVIOUS
  <1>5. n \notin DOMAIN db => SameStored(db, t)
    BY <1>2, SameStoredReflexive
  <1>6. forgotten' \subseteq Node
    BY <1>3 DEF IInv, TypeOK
  <1>7. QED
    BY <1>2, <1>4, <1>5, <1>6, HandleKeeps

LEMMA ResetKeeps ==
  ASSUME IInv, NodedbReset \/ FactoryReset
  PROVE  IInv'
  <1>1. detached' = TRUE
    BY DEF NodedbReset, FactoryReset
  <1>2. changes' \in 0..MaxChanges
    <2>1. Counted
      BY DEF NodedbReset, FactoryReset
    <2>2. QED
      BY <2>1, DatabaseAssumption DEF Counted, IInv, TypeOK
  <1>3. CASE NodedbReset
    <2>1. /\ db' = << >> /\ dirty' = FALSE /\ step' = Loop(FALSE, command)
          /\ UNCHANGED <<elapsed, flash, command, shutdown>>
      BY <1>3 DEF NodedbReset
    <2>2. forgotten' \subseteq Node
      BY <1>3, TableNow DEF NodedbReset, IInv, TypeOK, Table, IsTable
    <2>3. step' \in {"wait", "commands"}
      BY <2>1, LoopSteps
    <2>4. Table(db')
      BY <2>1, EmptyTable
    <2>5. QED
      BY <1>1, <1>2, <2>1, <2>2, <2>3, <2>4
         DEF IInv, TypeOK, Table, Steps, SavingMeansDirty, Erasing, Writing, CleanMeansSaved
  <1>4. CASE FactoryReset
    <2>1. /\ UNCHANGED <<db, dirty, elapsed, shutdown>>
          /\ command' = "reboot" /\ step' = Loop(dirty, "reboot")
          /\ flash' = << >> \/ flash' = flash
      BY <1>4 DEF FactoryReset
    <2>2. forgotten' \subseteq Node
      BY <1>4, TableNow DEF FactoryReset, IInv, TypeOK, Table, Snapshot, IsTable
    <2>3. step' \in {"erase", "wait", "commands"} /\ (step' = "erase" => dirty')
      BY <2>1, LoopSteps DEF IInv, TypeOK
    <2>4. Snapshot(flash')
      BY <2>1, EmptyTable, TableNow
    <2>5. TypeOK'
      BY <1>1, <1>2, <2>1, <2>2, <2>3, <2>4 DEF IInv, TypeOK, Snapshot, Steps
    <2>6. SavingMeansDirty' /\ CleanMeansSaved'
      BY <1>1, <2>3 DEF SavingMeansDirty, Erasing, Writing, CleanMeansSaved
    <2>7. QED
      BY <2>5, <2>6 DEF IInv
  <1>5. QED
    BY <1>3, <1>4

LEMMA CommandKeeps ==
  ASSUME IInv, OtherEvent \/ (\E c \in {"shutdown", "reboot"} : Command(c))
  PROVE  IInv'
  <1>1. /\ UNCHANGED <<db, dirty, elapsed, flash, shutdown, changes, detached>>
        /\ command' \in {"none", "shutdown", "reboot"}
        /\ \E c : step' = Loop(dirty, c)
        /\ forgotten' \subseteq Node /\ step = "wait"
    BY DEF OtherEvent, Command, IInv, TypeOK
  <1>2. step' \in {"erase", "wait", "commands"} /\ (step' = "erase" => dirty')
    BY <1>1, LoopSteps DEF IInv, TypeOK
  <1>3. TypeOK'
    BY <1>1, <1>2 DEF IInv, TypeOK, Steps
  <1>4. SavingMeansDirty'
    BY <1>2 DEF SavingMeansDirty, Erasing, Writing
  <1>5. CleanMeansSaved'
    BY <1>1 DEF IInv, CleanMeansSaved
  <1>6. QED
    BY <1>3, <1>4, <1>5 DEF IInv

LEMMA SavedSteps ==
  ASSUME IInv, Saved
  PROVE  /\ step' \in {"wait", "commands"}
         /\ elapsed' \in BOOLEAN /\ shutdown' \in BOOLEAN
  BY DEF Saved, IInv, TypeOK

LEMMA EraseKeeps ==
  ASSUME IInv, Erase
  PROVE  IInv'
  <1>1. Snapshot(flash')
    BY EmptyTable DEF Erase
  <1>2. step' \in {"final write", "write"} /\ dirty' /\ dirty' = dirty
    BY DEF Erase, IInv, SavingMeansDirty
  <1>3. TypeOK'
    BY <1>1, <1>2 DEF Erase, IInv, TypeOK, Snapshot, Steps
  <1>4. QED
    BY <1>2, <1>3 DEF IInv, SavingMeansDirty, CleanMeansSaved

LEMMA WriteKeeps ==
  ASSUME IInv, Write
  PROVE  IInv'
  <1>1. Saved /\ dirty' = FALSE /\ detached' = FALSE /\ UNCHANGED <<db, command, changes, forgotten>>
    BY DEF Write
  <1>2. Snapshot(flash') /\ Agree(db, flash')
    BY TableNow, SnapshotAgrees DEF Write
  <1>3. TypeOK'
    BY <1>1, <1>2, SavedSteps DEF IInv, TypeOK, Snapshot, Steps
  <1>4. Agree(db', flash')
    BY <1>1, <1>2
  <1>5. QED
    BY <1>1, <1>3, <1>4, SavedSteps
       DEF IInv, SavingMeansDirty, Erasing, Writing, CleanMeansSaved

LEMMA SaveFailsKeeps ==
  ASSUME IInv, SaveFails
  PROVE  IInv' /\ dirty'
  <1>1. Saved /\ UNCHANGED <<db, dirty, command, changes, detached>>
    BY DEF SaveFails
  <1>2. dirty /\ dirty'
    BY <1>1 DEF SaveFails, IInv, SavingMeansDirty
  <1>3. Snapshot(flash')
    BY TableNow, EmptyTable, TornSnapshot DEF SaveFails
  <1>4. forgotten' \subseteq Node
    BY DEF SaveFails, IInv, TypeOK
  <1>5. TypeOK'
    BY <1>1, <1>3, <1>4, SavedSteps DEF IInv, TypeOK, Snapshot, Steps
  <1>6. QED
    BY <1>2, <1>5, SavedSteps DEF IInv, SavingMeansDirty, CleanMeansSaved

LEMMA LoopKeeps ==
  ASSUME IInv, IntervalPasses \/ HandleShutdown \/ HandleReboot
  PROVE  IInv'
  <1>1. UNCHANGED <<db, dirty, flash, changes, detached, forgotten>>
    BY DEF IntervalPasses, HandleShutdown, HandleReboot
  <1>2. /\ step' \in Steps /\ elapsed' \in BOOLEAN /\ shutdown' \in BOOLEAN
        /\ command' \in {"none", "shutdown", "reboot"}
    BY DEF IntervalPasses, HandleShutdown, HandleReboot, IInv, TypeOK, Steps
  <1>3. TypeOK'
    BY <1>1, <1>2 DEF IInv, TypeOK
  <1>4. SavingMeansDirty'
    BY <1>1 DEF IntervalPasses, HandleShutdown, HandleReboot, IInv, SavingMeansDirty,
                Erasing, Writing
  <1>5. step # "off"
    BY DEF IntervalPasses, HandleShutdown, HandleReboot
  <1>6. CleanMeansSaved'
    BY <1>1, <1>5 DEF IInv, CleanMeansSaved
  <1>7. QED
    BY <1>3, <1>4, <1>6 DEF IInv

LEMMA DownKeeps ==
  ASSUME IInv, Reboot \/ ShutdownSleep \/ PowerLost
  PROVE  IInv'
  <1>1. PICK remembered \in SUBSET Node : Down(remembered)
    BY DEF Reboot, ShutdownSleep, PowerLost, IInv, TypeOK
  <1>2. Snapshot(flash')
    BY TableNow, TornSnapshot DEF Reboot, ShutdownSleep, PowerLost
  <1>3. Table(db')
    BY <1>1, EmptyTable DEF Down
  <1>4. TypeOK'
    BY <1>1, <1>2, <1>3 DEF Down, IInv, TypeOK, Table, Snapshot, Steps
  <1>5. QED
    BY <1>1, <1>4 DEF Down, IInv, SavingMeansDirty, Erasing, Writing, CleanMeansSaved

LEMMA BootKeeps ==
  ASSUME IInv, Boot
  PROVE  IInv'
  <1>1. /\ db' = Restored(flash) /\ step' = "wait"
        /\ UNCHANGED <<dirty, elapsed, flash, command, shutdown, changes, detached, forgotten>>
    BY DEF Boot
  <1>2. Table(db') /\ Agree(db', flash')
    BY <1>1, TableNow, RestoredAgrees
  <1>3. TypeOK'
    BY <1>1, <1>2 DEF IInv, TypeOK, Table, Steps
  <1>4. QED
    BY <1>1, <1>2, <1>3 DEF IInv, SavingMeansDirty, Erasing, Writing, CleanMeansSaved

LEMMA TrafficIsReceived ==
  ASSUME Traffic
  PROVE  \E n \in Peer :
           \/ ReceivePacket(n) \/ ReceivePosition(n) \/ ReceiveAck(n) \/ LoseRoute(n)
           \/ \E key \in Key : ReceiveNodeInfo(n, key)
           \/ \E S \in SUBSET Node : ReceiveNeighborInfo(n, S)
  BY DEF Traffic

LEMMA StepKeeps == IInv /\ [Next]_vars => IInv'
  <1> SUFFICES ASSUME IInv, [Next]_vars PROVE IInv'
    OBVIOUS
  <1>1. CASE UNCHANGED vars
    <2>1. UNCHANGED <<db, dirty, elapsed, flash, step, command, shutdown, changes, detached, forgotten>>
      BY <1>1 DEF vars
    <2>2. TypeOK'
      BY <2>1 DEF IInv, TypeOK
    <2>3. QED
      BY <2>1, <2>2 DEF IInv, SavingMeansDirty, Erasing, Writing, CleanMeansSaved
  <1>2. CASE Traffic
    <2>1. PICK n \in Peer :
            \/ ReceivePacket(n) \/ ReceivePosition(n) \/ ReceiveAck(n) \/ LoseRoute(n)
            \/ \E key \in Key : ReceiveNodeInfo(n, key)
            \/ \E S \in SUBSET Node : ReceiveNeighborInfo(n, S)
      BY <1>2, TrafficIsReceived
    <2>2. n \in Node
      BY DEF Node
    <2>3. QED
      BY <2>1, <2>2, ReceiveKeeps, ReceiveNeighborInfoKeeps, LoseRouteKeeps
  <1>3. CASE Admin
    <2>1. ASSUME NEW n \in Node, NEW key \in Key, NEW ignore \in BOOLEAN, AddContact(n, key, ignore)
          PROVE  IInv'
      BY <2>1, AddContactKeeps
    <2>2. ASSUME NEW n \in Node,
                 \/ \E on \in BOOLEAN : SetFavorite(n, on) \/ SetIgnored(n, on)
                 \/ ToggleMuted(n) \/ RemoveNode(n)
          PROVE  IInv'
      BY <2>2, FlagKeeps
    <2>3. CASE NodedbReset \/ FactoryReset
      BY <2>3, ResetKeeps
    <2>4. CASE \E c \in {"shutdown", "reboot"} : Command(c)
      BY <2>4, CommandKeeps
    <2>5. QED
      BY <1>3, <2>1, <2>2, <2>3, <2>4 DEF Admin
  <1>4. CASE OtherEvent
    BY <1>4, CommandKeeps
  <1>5. CASE Erase
    BY <1>5, EraseKeeps
  <1>6. CASE Write
    BY <1>6, WriteKeeps
  <1>7. CASE SaveFails
    BY <1>7, SaveFailsKeeps
  <1>8. CASE IntervalPasses \/ HandleShutdown \/ HandleReboot
    BY <1>8, LoopKeeps
  <1>9. CASE Reboot \/ ShutdownSleep \/ PowerLost
    BY <1>9, DownKeeps
  <1>10. CASE Boot
    BY <1>10, BootKeeps
  <1>11. QED
    BY <1>1, <1>2, <1>3, <1>4, <1>5, <1>6, <1>7, <1>8, <1>9, <1>10 DEF Next

-----------------------------------------------------------------------------
\* The table never outgrows MAX_NODES nor the snapshot MAX_PERSISTED_NODES, whatever
\* packets, commands, cut writes and restarts do (NodeDB, save_node_db).
THEOREM DatabaseTypeCorrect == Spec => []TypeOK
  <1>1. IInv => TypeOK
    BY DEF IInv
  <1>2. QED
    BY InitHolds, StepKeeps, <1>1, PTL DEF Spec

\* For any peers and capacities, a database that is not dirty is what a restart brings
\* back, as far as the sector has room and no reset emptied one copy (is_dirty,
\* mark_clean, restore_snapshot).
THEOREM CleanIsSaved == Spec => []CleanMeansSaved
  <1>1. IInv => CleanMeansSaved
    BY DEF IInv
  <1>2. QED
    BY InitHolds, StepKeeps, <1>1, PTL DEF Spec

\* The watchdog is never told to count down while a change is neither in flash nor its
\* flush was tried (the shutdown branch of mesh_task, save_node_db).
THEOREM ShutdownSaves == Spec => ShutdownSavesFirst
  <1> DEFINE A == ~shutdown /\ shutdown' =>
                    IF dirty' THEN Final ELSE detached' \/ Agree(db', flash')
  <1>1. IInv /\ [Next]_vars => [A]_vars
    <2> SUFFICES ASSUME IInv, Next, ~shutdown, shutdown'
                 PROVE  IF dirty' THEN Final ELSE detached' \/ Agree(db', flash')
      OBVIOUS
    <2>1. CASE Write
      BY <2>1, TableNow, SnapshotAgrees DEF Write
    <2>2. CASE SaveFails
      BY <2>2, SaveFailsKeeps DEF SaveFails, Saved
    <2>3. CASE HandleShutdown
      BY <2>3 DEF HandleShutdown, IInv, CleanMeansSaved
    <2>4. ASSUME NEW t, NEW marks, Handle(t, marks)
          PROVE  FALSE
      BY <2>4 DEF Handle
    <2>5. CASE Traffic
      BY <2>4, <2>5 DEF Traffic, ReceivePacket, ReceivePosition, ReceiveAck, LoseRoute,
                        ReceiveNodeInfo, ReceiveNeighborInfo
    <2>6. CASE Admin
      BY <2>4, <2>6 DEF Admin, AddContact, SetFavorite, SetIgnored, ToggleMuted, RemoveNode,
                        NodedbReset, FactoryReset, Command
    <2>7. CASE OtherEvent \/ Erase \/ IntervalPasses \/ HandleReboot \/ Boot
      BY <2>7 DEF OtherEvent, Erase, IntervalPasses, HandleReboot, Boot
    <2>8. CASE Reboot \/ ShutdownSleep \/ PowerLost
      BY <2>8 DEF Reboot, ShutdownSleep, PowerLost, Down
    <2>9. QED
      BY <2>1, <2>2, <2>3, <2>5, <2>6, <2>7, <2>8 DEF Next
  <1>2. QED
    BY InitHolds, StepKeeps, <1>1, PTL DEF Spec, ShutdownSavesFirst

LEMMA WithKeepsChoices ==
  ASSUME NEW t, NEW n, NEW facts, facts \cap Choice = {}, NEW m \in DOMAIN t
  PROVE  /\ m \in DOMAIN With(t, n, facts) /\ m \in DOMAIN Without(t, n, facts)
         /\ With(t, n, facts)[m] \cap Choice = t[m] \cap Choice
         /\ Without(t, n, facts)[m] \cap Choice = t[m] \cap Choice
  BY DEF With, Without

\* No packet of any peer drops a node or changes what the user decided about one, and
\* a full table turns the newcomer away (touch, get_or_create, NodeDB's setters).
THEOREM TrafficSparesChoices == Spec => TrafficKeepsChoices
  <1> DEFINE Keeps(u) == \A m \in DOMAIN db : m \in DOMAIN u /\ u[m] \cap Choice = db[m] \cap Choice
             A == Traffic => \A n \in DOMAIN db :
                               n \in DOMAIN db' /\ db'[n] \cap Choice = db[n] \cap Choice
  <1>1. IInv /\ [Next]_vars => [A]_vars
    <2> SUFFICES ASSUME IInv, Traffic PROVE Keeps(db')
      OBVIOUS
    <2>1. PICK n \in Peer :
            \/ ReceivePacket(n) \/ ReceivePosition(n) \/ ReceiveAck(n) \/ LoseRoute(n)
            \/ \E key \in Key : ReceiveNodeInfo(n, key)
            \/ \E S \in SUBSET Node : ReceiveNeighborInfo(n, S)
      BY TrafficIsReceived
    <2>2. n \in Node /\ Table(db)
      BY TableNow DEF Node
    <2> DEFINE c == Created(db, n)
    <2>3. Table(c) /\ Keeps(c)
      BY <2>2, CreatedTable
    <2> HIDE DEF c
    <2>4. \A facts : facts \cap Choice = {} => Keeps(With(c, n, facts))
      BY <2>3, WithKeepsChoices
    <2>5. /\ {"position"} \cap Choice = {} /\ {"route"} \cap Choice = {}
          /\ \A key \in Key : ({"user"} \cup key) \cap Choice = {}
      BY DEF Choice, Key
    <2>6. CASE ReceivePacket(n)
      BY <2>3, <2>6 DEF ReceivePacket, Handle, c
    <2>7. CASE ReceivePosition(n)
      BY <2>4, <2>5, <2>7 DEF ReceivePosition, Handle, c
    <2>8. CASE ReceiveAck(n)
      BY <2>4, <2>5, <2>8 DEF ReceiveAck, Handle, c
    <2>9. CASE LoseRoute(n)
      BY <2>5, <2>9, WithKeepsChoices DEF LoseRoute
    <2>10. ASSUME NEW key \in Key, ReceiveNodeInfo(n, key)
           PROVE  Keeps(db')
      BY <2>4, <2>5, <2>10 DEF ReceiveNodeInfo, Handle, c
    <2>11. ASSUME NEW S \in SUBSET Node, ReceiveNeighborInfo(n, S)
           PROVE  Keeps(db')
      <3>1. PICK X \in Additions(c, S) : db' = Extended(c, X)
        BY <2>11 DEF ReceiveNeighborInfo, Handle, c
      <3>2. \A m \in DOMAIN c : m \in DOMAIN Extended(c, X) /\ Extended(c, X)[m] = c[m]
        BY <2>3, ExtendedTable
      <3>3. QED
        BY <2>3, <3>1, <3>2
    <2>12. QED
      BY <2>1, <2>6, <2>7, <2>8, <2>9, <2>10, <2>11
  <1>2. QED
    BY InitHolds, StepKeeps, <1>1, PTL DEF Spec, TrafficKeepsChoices
=============================================================================
