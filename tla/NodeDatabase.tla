---------------------------- MODULE NodeDatabase ----------------------------
(***************************************************************************)
(* The node database of the mesh task and its snapshot in flash: what      *)
(* received packets and admin commands change, the debounced flush after   *)
(* each event, the final flush of a shutdown, and power lost, asleep or    *)
(* restarted between any two flash operations.                             *)
(*                                                                         *)
(* An entry is the set of facts it holds.  Signal strength, hops and last  *)
(* seen are left out: like the route they reach flash with the next flush  *)
(* and ask for none.  The order of the entries is left out too: last_heard *)
(* is always 0, so the order that selects what a snapshot keeps is         *)
(* arbitrary.  A torn write that leaves half a node number is left out.    *)
(***************************************************************************)
EXTENDS Naturals, FiniteSets, Functions

CONSTANTS
  Peer,          \* the other nodes
  Us,            \* our own node number; peers name it among their neighbours
  MaxNodes,      \* MAX_NODES
  MaxPersisted,  \* MAX_PERSISTED_NODES
  MaxChanges,    \* bound: events that change the database
  Cuts           \* bound: after how many of its fields the record being written may be cut

ASSUME DatabaseAssumption ==
  /\ Us \notin Peer
  /\ IsFiniteSet(Peer)
  /\ MaxPersisted \in Nat /\ MaxNodes \in Nat
  /\ MaxPersisted <= MaxNodes      \* 42 of 96
  /\ MaxChanges \in Nat
  /\ Cuts \subseteq 0..3

Node == Peer \cup {Us}

\* What a phone's user decides about a node, and no packet may change.
Choice == {"favorite", "ignored", "muted"}

\* "position" stands for everything that is in RAM only.
Stored == Choice \cup {"user", "key", "route"}
Fact == Stored \cup {"position"}

\* The tables: partial functions from nodes to the facts known of them.
IsTable(t, facts) == DOMAIN t \subseteq Node /\ t \in [DOMAIN t -> SUBSET facts]

VARIABLES
  db,         \* NodeDB.nodes
  dirty,      \* NodeDB.dirty
  elapsed,    \* NODE_DB_FLUSH_INTERVAL_MS have passed since last_node_db_flush
  flash,      \* the records of the NodeDB sector; none when it is erased or invalid
  step,       \* where the loop of the mesh task is
  command,    \* shutdown_after_secs and reboot_after_secs: "none", "shutdown", "reboot"
  shutdown,   \* shutdown_cmd is signalled: the watchdog counts down to sleep
  changes,    \* events counted against MaxChanges
  detached,   \* a reset emptied the RAM or the flash copy alone
  forgotten   \* nodes a reset forgot, not heard of since

vars == <<db, dirty, elapsed, flash, step, command, shutdown,
          changes, detached, forgotten>>

Steps == {"off", "wait", "erase", "write", "commands", "final erase", "final write", "reboot"}

Init ==
  /\ db = << >> /\ dirty = FALSE /\ flash = << >>
  /\ elapsed = FALSE
  /\ step = "wait" /\ command = "none" /\ shutdown = FALSE
  /\ changes = 0
  /\ detached = FALSE /\ forgotten = {}

-----------------------------------------------------------------------------
(* The operations of NodeDB, on a table. *)

\* Faulty variant of HasRoom: one entry too many.
HasRoomForOneMore(t) == Cardinality(DOMAIN t) <= MaxNodes

HasRoom(t) == Cardinality(DOMAIN t) < MaxNodes

\* Faulty variant of Created: a full table gives up one of its nodes.
CreatedEvicting(t, n) ==
  IF n \in DOMAIN t THEN t
  ELSE LET old == IF HasRoom(t) THEN {} ELSE {CHOOSE m \in DOMAIN t : TRUE} IN
       [m \in (DOMAIN t \ old) \cup {n} |-> IF m = n THEN {} ELSE t[m]]

\* get_or_create; touch adds only what it does when the table is full: nothing,
\* since prune_stale keeps every entry whose last_heard is 0.
Created(t, n) ==
  IF n \in DOMAIN t \/ ~HasRoom(t) THEN t
  ELSE [m \in DOMAIN t \cup {n} |-> IF m = n THEN {} ELSE t[m]]

\* A node that is not in the table is left alone.
With(t, n, facts) == [m \in DOMAIN t |-> IF m = n THEN t[m] \cup facts ELSE t[m]]
Without(t, n, facts) == [m \in DOMAIN t |-> IF m = n THEN t[m] \ facts ELSE t[m]]
Removed(t, n) == Restrict(t, DOMAIN t \ {n})

\* set_ignored(true) scrubs what was learned of the node.
Ignored(t, n) == With(Without(t, n, {"position", "key"}), n, {"ignored"})

\* touch for each neighbour a packet lists: those that still fit are added.
Additions(t, S) ==
  {A \in SUBSET (S \ DOMAIN t) :
     LET room == MaxNodes - Cardinality(DOMAIN t) IN
     Cardinality(A) <= room /\ (A = S \ DOMAIN t \/ Cardinality(A) = room)}
Extended(t, A) == [m \in DOMAIN t \cup A |-> IF m \in A THEN {} ELSE t[m]]

\* to_snapshot: the stored facts of at most MaxPersisted nodes.
Image(t) == [n \in DOMAIN t |-> t[n] \cap Stored]
Kept(t) ==
  {S \in SUBSET DOMAIN t :
     Cardinality(S) <= MaxPersisted /\ (S = DOMAIN t \/ Cardinality(S) = MaxPersisted)}
Snapshots(t) == {Restrict(Image(t), S) : S \in Kept(t)}

\* A record cut after k of its fields, in the order of their offsets: a field
\* that was not written reads as ones, and there is no checksum.
Fields == << {"route"}, Choice, {"user"}, {"key"} >>
Cut(e, k) == UNION {IF i <= k THEN e \cap Fields[i] ELSE Fields[i] : i \in 1..4}

\* What an interrupted write of a snapshot leaves: nothing valid, or the
\* records written so far, the last of them cut.
Torn(t) ==
  {<< >>} \cup
  (UNION {{Restrict(s, A) : A \in SUBSET DOMAIN s} : s \in Snapshots(t)}) \cup
  (UNION {{[Restrict(s, A) EXCEPT ![m] = Cut(@, k)] : A \in {B \in SUBSET DOMAIN s : m \in B}} :
            s \in Snapshots(t), m \in DOMAIN t, k \in Cuts})

\* restore_snapshot: our own record is not taken back.
Restored(f) == Restrict(f, DOMAIN f \ {Us})

-----------------------------------------------------------------------------
(* One event of the mesh task: the handler, then the loop decides on the flush. *)

\* Faulty variant of FlushDue: every event restarts the interval before it is looked at.
FlushDueRestarted(d) == FALSE

FlushDue(d) == d /\ elapsed

Loop(d, c) ==
  IF FlushDue(d) THEN "erase" ELSE IF c = "none" THEN "wait" ELSE "commands"

Counted == changes < MaxChanges /\ changes' = changes + 1

\* A handler that leaves table t behind and marks it dirty, or not.
Handle(t, marks) ==
  /\ step = "wait"
  /\ Counted
  /\ db' = t
  /\ dirty' = (dirty \/ marks \/ DOMAIN t # DOMAIN db)
  /\ step' = Loop(dirty', command)
  /\ UNCHANGED <<elapsed, flash, command, shutdown, detached>>

Learned(t) == forgotten' = forgotten \ DOMAIN t

\* Any decoded packet: touch.
ReceivePacket(n) ==
  LET t == Created(db, n) IN Handle(t, FALSE) /\ Learned(t)

\* The key, when the packet has one, then the user.
ReceiveNodeInfo(n, key) ==
  LET t == With(Created(db, n), n, {"user"} \cup key) IN
  /\ Handle(t, n \in DOMAIN t)
  /\ Learned(t)

\* Position, and telemetry: no flush for what is not stored.
ReceivePosition(n) ==
  LET t == With(Created(db, n), n, {"position"}) IN Handle(t, FALSE) /\ Learned(t)

ReceiveNeighborInfo(n, S) ==
  LET t == Created(db, n) IN
  \E A \in Additions(t, S) : Handle(Extended(t, A), FALSE) /\ Learned(Extended(t, A))

\* learn_route on the answer to a packet of ours.
ReceiveAck(n) ==
  LET t == With(Created(db, n), n, {"route"}) IN Handle(t, FALSE) /\ Learned(t)

\* tick_retransmissions forgets the route at the last attempt; it runs inside
\* next_event, which the flush does not follow.
LoseRoute(n) ==
  /\ step = "wait" /\ n \in DOMAIN db /\ "route" \in db[n]
  /\ Counted
  /\ db' = Without(db, n, {"route"})
  /\ UNCHANGED <<dirty, elapsed, flash, step, command, shutdown, detached, forgotten>>

\* An event that leaves the database alone; the heartbeat is one, and always comes.
OtherEvent ==
  /\ step = "wait"
  /\ step' = Loop(dirty, command)
  /\ UNCHANGED <<db, dirty, elapsed, flash, command, shutdown, changes, detached, forgotten>>

-----------------------------------------------------------------------------
(* Admin commands. *)

AddContact(n, key, ignore) ==
  LET t == With(Created(db, n), n, {"user"} \cup key) IN
  /\ IF n \notin DOMAIN t THEN Handle(db, FALSE)
     ELSE IF ignore THEN Handle(Without(Ignored(t, n), n, {"favorite"}), TRUE)
     ELSE Handle(With(t, n, {"favorite"}), TRUE)
  /\ Learned(t)

SetFavorite(n, on) ==
  /\ Handle(IF on THEN With(db, n, {"favorite"}) ELSE Without(db, n, {"favorite"}), n \in DOMAIN db)
  /\ UNCHANGED forgotten

\* Faulty variant of SetIgnored: the flag is set on the entry, past the dirty mark.
SetIgnoredQuietly(n, on) ==
  /\ Handle(IF on THEN Ignored(db, n) ELSE Without(db, n, {"ignored"}), FALSE)
  /\ UNCHANGED forgotten

SetIgnored(n, on) ==
  /\ Handle(IF on THEN Ignored(db, n) ELSE Without(db, n, {"ignored"}), n \in DOMAIN db)
  /\ UNCHANGED forgotten

ToggleMuted(n) ==
  /\ n \in DOMAIN db
  /\ Handle(IF "muted" \in db[n] THEN Without(db, n, {"muted"}) ELSE With(db, n, {"muted"}), TRUE)
  /\ UNCHANGED forgotten

RemoveNode(n) == Handle(Removed(db, n), n \in DOMAIN db) /\ UNCHANGED forgotten

\* A new NodeDB is clean.  A reset after the shutdown's flush is not promised anything.
NodedbReset ==
  /\ step = "wait"
  /\ Counted
  /\ db' = << >> /\ dirty' = FALSE
  /\ step' = Loop(FALSE, command)
  /\ detached' = TRUE
  /\ forgotten' = IF shutdown THEN {} ELSE forgotten \cup DOMAIN db
  /\ UNCHANGED <<elapsed, flash, command, shutdown>>

\* erase_config erases the sector and leaves the RAM copy; the erase may fail.
FactoryReset ==
  /\ step = "wait"
  /\ Counted
  /\ \/ flash' = << >> /\ forgotten' = forgotten \cup DOMAIN db \cup DOMAIN flash
     \/ UNCHANGED flash /\ forgotten' = {}
  /\ detached' = TRUE
  /\ command' = "reboot"
  /\ step' = Loop(dirty, "reboot")
  /\ UNCHANGED <<db, dirty, elapsed, shutdown>>

Command(c) ==
  /\ step = "wait"
  /\ command' = c
  /\ forgotten' = IF c = "reboot" THEN {} ELSE forgotten
  /\ step' = Loop(dirty, c)
  /\ UNCHANGED <<db, dirty, elapsed, flash, shutdown, changes, detached>>

-----------------------------------------------------------------------------
(* save_node_db: the sector is erased and written; the flush and the final   *)
(* flush of a shutdown go through the same two steps.                        *)

Final == step \in {"final erase", "final write"}
Erasing == step \in {"erase", "final erase"}
Writing == step \in {"write", "final write"}

\* After a flush the interval starts again; after a final flush the watchdog is told.
Saved ==
  /\ elapsed' = IF Final THEN elapsed ELSE FALSE
  /\ shutdown' = IF Final THEN TRUE ELSE shutdown
  /\ step' = IF ~Final /\ command # "none" THEN "commands" ELSE "wait"

Erase ==
  /\ Erasing
  /\ flash' = << >>
  /\ step' = IF Final THEN "final write" ELSE "write"
  /\ UNCHANGED <<db, dirty, elapsed, command, shutdown, changes, detached, forgotten>>

Write ==
  /\ Writing
  /\ flash' \in Snapshots(db)
  /\ dirty' = FALSE
  /\ detached' = FALSE
  /\ Saved
  /\ UNCHANGED <<db, command, changes, forgotten>>

\* An error of either operation leaves the database dirty, for the next flush.
SaveFails ==
  /\ Erasing \/ Writing
  /\ flash' \in IF Erasing THEN {flash, << >>} ELSE Torn(db)
  /\ forgotten' = IF Final THEN {} ELSE forgotten
  /\ Saved
  /\ UNCHANGED <<db, dirty, command, changes, detached>>

IntervalPasses ==
  /\ step # "off" /\ ~elapsed
  /\ elapsed' = TRUE
  /\ UNCHANGED <<db, dirty, flash, step, command, shutdown, changes, detached, forgotten>>

\* Faulty variant of HandleShutdown: the watchdog is told at once.
HandleShutdownUnsaved ==
  /\ step = "commands" /\ command = "shutdown"
  /\ command' = "none"
  /\ step' = "wait" /\ shutdown' = TRUE
  /\ UNCHANGED <<db, dirty, elapsed, flash, changes, detached, forgotten>>

HandleShutdown ==
  /\ step = "commands" /\ command = "shutdown"
  /\ command' = "none"
  /\ IF dirty THEN step' = "final erase" /\ UNCHANGED shutdown
     ELSE step' = "wait" /\ shutdown' = TRUE
  /\ UNCHANGED <<db, dirty, elapsed, flash, changes, detached, forgotten>>

\* The mesh task sleeps out the delay and resets, without a flush.
HandleReboot ==
  /\ step = "commands" /\ command = "reboot"
  /\ command' = "none"
  /\ step' = "reboot"
  /\ UNCHANGED <<db, dirty, elapsed, flash, shutdown, changes, detached, forgotten>>

-----------------------------------------------------------------------------
(* The power.  RAM is lost with it: nothing distinguishes the states of a     *)
(* node that is off but its flash.                                           *)

Down(remembered) ==
  /\ step' = "off"
  /\ db' = << >> /\ dirty' = FALSE /\ elapsed' = FALSE
  /\ command' = "none" /\ shutdown' = FALSE
  /\ detached' = FALSE
  /\ forgotten' = remembered
  /\ UNCHANGED changes

Reboot == step = "reboot" /\ Down(forgotten) /\ UNCHANGED flash

\* The watchdog's sleep after an admin shutdown, while the mesh task awaits an event.
ShutdownSleep == step = "wait" /\ shutdown /\ Down(forgotten) /\ UNCHANGED flash

\* A power cut or a reset at any point, and the watchdog's sleep on a low
\* battery or on inactivity, which asks for no flush.
PowerLost ==
  /\ step # "off"
  /\ flash' \in IF Writing THEN Torn(db) ELSE {flash}
  /\ Down({})

Boot ==
  /\ step = "off"
  /\ db' = Restored(flash)
  /\ step' = "wait"
  /\ UNCHANGED <<dirty, elapsed, flash, command, shutdown, changes, detached, forgotten>>

-----------------------------------------------------------------------------
Key == {{}, {"key"}}

Traffic ==
  \/ \E n \in Peer :
       \/ ReceivePacket(n) \/ ReceivePosition(n) \/ ReceiveAck(n) \/ LoseRoute(n)
       \/ \E key \in Key : ReceiveNodeInfo(n, key)
       \/ \E S \in SUBSET Node : ReceiveNeighborInfo(n, S)

Admin ==
  \/ \E n \in Node :
       \/ \E key \in Key, ignore \in BOOLEAN : AddContact(n, key, ignore)
       \/ \E on \in BOOLEAN : SetFavorite(n, on) \/ SetIgnored(n, on)
       \/ ToggleMuted(n) \/ RemoveNode(n)
  \/ NodedbReset \/ FactoryReset
  \/ \E c \in {"shutdown", "reboot"} : Command(c)

Next ==
  \/ Traffic \/ Admin \/ OtherEvent
  \/ Erase \/ Write \/ SaveFails \/ IntervalPasses
  \/ HandleShutdown \/ HandleReboot
  \/ Reboot \/ ShutdownSleep \/ PowerLost \/ Boot

\* The task goes on, the heartbeat ticks and the clock runs; flash that is
\* asked for ever again does not fail for ever.
Fairness ==
  /\ WF_vars(OtherEvent) /\ WF_vars(IntervalPasses)
  /\ WF_vars(HandleShutdown) /\ WF_vars(HandleReboot) /\ WF_vars(Reboot)
  /\ SF_vars(Erase) /\ SF_vars(Write)

Spec == Init /\ [][Next]_vars /\ Fairness

-----------------------------------------------------------------------------
\* The database, its snapshot and the state of the flush (NodeDB, mesh_task).
TypeOK ==
  /\ IsTable(db, Fact) /\ Cardinality(DOMAIN db) <= MaxNodes
  /\ IsTable(flash, Stored) /\ Cardinality(DOMAIN flash) <= MaxPersisted
  /\ dirty \in BOOLEAN /\ elapsed \in BOOLEAN /\ shutdown \in BOOLEAN
  /\ step \in Steps
  /\ command \in {"none", "shutdown", "reboot"}
  /\ changes \in 0..MaxChanges
  /\ detached \in BOOLEAN
  /\ forgotten \subseteq Node

\* A table agrees with a snapshot: the snapshot holds what the table stores,
\* routes aside, of every node of the table, or of as many as it has room for.
Agree(t, f) ==
  LET own(n) == n # Us
      nodes == {n \in DOMAIN f : own(n)} IN
  /\ nodes \subseteq DOMAIN t
  /\ \A n \in nodes : f[n] \ {"route"} = (t[n] \cap Stored) \ {"route"}
  /\ {n \in DOMAIN t : own(n)} \subseteq nodes \/ Cardinality(DOMAIN f) = MaxPersisted

\* What mark_clean promises: whenever the database is not dirty, a restart
\* brings back what it holds (is_dirty, "True when in-memory state diverges
\* from the last persisted snapshot").  A reset that changes one of the two
\* copies only is left out; routes are learned without a flush.
CleanMeansSaved ==
  step # "off" /\ ~dirty /\ ~detached => Agree(db, flash)

\* Nothing waits for ever: a change that asks for a flush is written, or lost
\* with the power; a failed save is tried again at the next interval.
ChangesReachFlash == dirty ~> ~dirty

\* The watchdog is told to count down only when the changes made before the
\* shutdown command are in flash, unless saving them was tried and failed: its
\* sleep flushes nothing.
ShutdownSavesFirst ==
  [][~shutdown /\ shutdown' =>
       IF dirty' THEN Final ELSE detached' \/ Agree(db', flash')]_vars

\* Packets never drop a node, nor change what the user decided about one:
\* a full database drops the newcomer.
TrafficKeepsChoices ==
  [][Traffic => \A n \in DOMAIN db : n \in DOMAIN db' /\ db'[n] \cap Choice = db[n] \cap Choice]_vars

\* A node forgotten by a NodeDB reset or by a factory reset, and not heard of
\* since, is not there after the shutdown or reboot that ends in order ("Factory
\* reset wipes node DB too: the new owner shouldn't inherit a stranger's mesh
\* history", erase_config).
ForgottenStaysForgotten == [][Boot => forgotten \cap DOMAIN db' = {}]_vars
=============================================================================
