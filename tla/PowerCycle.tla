----------------------------- MODULE PowerCycle -----------------------------
(***************************************************************************)
(* The watchdog task, which feeds the hardware watchdog and alone puts the *)
(* board to sleep, with what it waits for: the admin's shutdown, the level *)
(* the battery task measures, which the BLE task of a connected phone also *)
(* consumes, and the activity the mesh task reports.  Time passes in ticks *)
(* of 500 ms; a task whose timer is due runs before the next tick.         *)
(***************************************************************************)
EXTENDS Naturals, Sequences

CONSTANTS
  Boards,       \* subset of {"esp32", "nrf52"}
  Supplies,     \* battery voltages (mV)
  Delays,       \* seconds an admin's shutdown may ask for
  IdleTicks,    \* INACTIVITY_TIMEOUT_MS in ticks
  WdtTicks,     \* the hardware watchdog's 90 s in ticks
  None          \* an empty signal

FeedTicks == 1        \* WATCHDOG_FEED_INTERVAL_MS
GraceTicks == 1       \* SLEEP_GRACE_MS
ChunkTicks == 2       \* a countdown's step of one second

\* The hardware watchdog waits longer than one round, the grace period and one step take.
ASSUME PowerAssumption ==
  /\ Boards \subseteq {"esp32", "nrf52"} /\ Supplies \subseteq Nat /\ Delays \subseteq Nat
  /\ IdleTicks \in Nat \ {0}
  /\ WdtTicks \in Nat /\ WdtTicks > FeedTicks + GraceTicks + ChunkTicks
  /\ None \notin Nat

VARIABLES
  board,
  mode,        \* "on" or "asleep"
  supply,       \* the battery's voltage
  voltage,      \* last_voltage of the battery task
  batLevel,     \* bat_level signal
  shutdownCmd,  \* shutdown_cmd signal
  activity,     \* activity signal
  phone,        \* a phone is connected
  disconnCmd,   \* disconn_cmd holds a command
  wd,           \* where the watchdog task is: "watch", "grace" or "countdown"
  due,          \* ticks until its timer
  remaining,    \* remaining_secs of a shutdown
  idle,         \* ticks since last_activity
  unfed         \* ticks since the hardware watchdog was fed

signals == <<batLevel, shutdownCmd, activity>>
battery == <<supply, voltage>>
ble == <<phone, disconnCmd>>
watchdog == <<wd, due, remaining, idle, unfed>>
PowerVars == <<board, mode, battery, signals, ble, watchdog>>

LowBattery == 5       \* LOW_BATTERY_THRESHOLD
AssumedVoltage == 3700

Table == <<4200, 4050, 3900, 3800, 3730, 3680, 3630, 3570, 3500, 3400, 3100>>

Segment(mv) == CHOOSE j \in 1..10 : mv < Table[j] /\ mv >= Table[j + 1]

\* Faulty variant: counts from the entry above.
VoltageToLevelAbove(mv) ==
  IF mv >= Table[1] THEN 100
  ELSE IF mv <= Table[11] THEN 0
  ELSE LET i == Segment(mv)
       IN  10 * (11 - i) + ((mv - Table[i + 1]) * 10) \div (Table[i] - Table[i + 1])

\* voltage_to_level: percent, linear between the entries of OCV_TABLE.
VoltageToLevel(mv) ==
  IF mv >= Table[1] THEN 100
  ELSE IF mv <= Table[11] THEN 0
  ELSE LET i == Segment(mv)
       IN  10 * (10 - i) + ((mv - Table[i + 1]) * 10) \div (Table[i] - Table[i + 1])

\* Faulty variant: the threshold itself is not low.
IsLowBelow(level) == level \in Nat /\ level > 0 /\ level < LowBattery

\* A level of 0 is taken for a missing battery.
IsLow(level) == level \in Nat /\ level > 0 /\ level <= LowBattery

\* read_battery_level: the first reading counts only above the assumed voltage, the next
\* ones by half.
FirstReading == IF supply > AssumedVoltage THEN supply ELSE AssumedVoltage
NextReading == (voltage + supply) \div 2

(***************************************************************************)
(* The surroundings and the other tasks.                                   *)
(***************************************************************************)
BatterySample ==
  /\ mode = "on"
  /\ voltage' = NextReading
  /\ batLevel' = VoltageToLevel(voltage')
  /\ UNCHANGED <<board, mode, supply, shutdownCmd, activity, ble, watchdog>>

Discharge ==
  /\ \E s \in Supplies : s < supply /\ supply' = s
  /\ UNCHANGED <<board, mode, voltage, signals, ble, watchdog>>

\* The mesh task reports packets of other nodes, writes of the phone and its connection.
Activity ==
  /\ mode = "on" /\ activity' = TRUE
  /\ UNCHANGED <<board, mode, battery, batLevel, shutdownCmd, ble, watchdog>>

\* The mesh task hands an admin's Shutdown to the watchdog.
RequestShutdown(secs) ==
  /\ mode = "on" /\ shutdownCmd' = secs
  /\ UNCHANGED <<board, mode, battery, batLevel, activity, ble, watchdog>>

Connect ==
  /\ mode = "on" /\ ~phone /\ phone' = TRUE /\ activity' = TRUE
  /\ UNCHANGED <<board, mode, battery, batLevel, shutdownCmd, disconnCmd, watchdog>>

\* The phone's ToRadio.disconnect: the mesh task passes it on, if the command fits.
RequestDisconnect ==
  /\ mode = "on" /\ phone /\ disconnCmd' = TRUE
  /\ UNCHANGED <<board, mode, battery, signals, phone, watchdog>>

\* The link ends; the mesh task may handle the phone's request only after that.
Disconnect ==
  /\ phone /\ phone' = FALSE
  /\ disconnCmd' \in {disconnCmd, TRUE}
  /\ UNCHANGED <<board, mode, battery, signals, watchdog>>

\* The BLE task ends the connection, whichever the command was meant for.
BleDisconnects ==
  /\ phone /\ disconnCmd
  /\ phone' = FALSE /\ disconnCmd' = FALSE
  /\ UNCHANGED <<board, mode, battery, signals, watchdog>>

\* The BLE task of a connected phone takes the level out of the signal to notify it.
BleTakesLevel ==
  /\ phone /\ batLevel # None /\ batLevel' = None
  /\ UNCHANGED <<board, mode, battery, shutdownCmd, activity, ble, watchdog>>

(***************************************************************************)
(* The watchdog task.                                                      *)
(***************************************************************************)
\* Faulty variant: the command waits for room in disconn_cmd.
PrepareSleepWaiting(secs) ==
  /\ ~disconnCmd /\ disconnCmd' = TRUE
  /\ wd' = "grace" /\ due' = GraceTicks /\ remaining' = secs
  /\ UNCHANGED unfed

\* The phone is told to go, if the command fits, and given the grace period.
PrepareSleep(secs) ==
  /\ disconnCmd' = TRUE
  /\ wd' = "grace" /\ due' = GraceTicks /\ remaining' = secs
  /\ UNCHANGED unfed

Feed ==
  /\ unfed' = 0 /\ due' = FeedTicks
  /\ UNCHANGED <<disconnCmd, wd, remaining>>

\* sleep_on_inactivity: System Off of the nRF52 has nothing to wake it.
SleepsOnInactivity == board = "esp32"

\* One round of the loop: the activity signal or the feed interval ends the wait, the
\* three reasons to sleep are looked at in turn, and the next round feeds the watchdog.
Watch ==
  /\ mode = "on" /\ wd = "watch"
  /\ due = 0 \/ activity
  /\ activity' = FALSE
  /\ idle' = IF activity THEN 0 ELSE idle
  /\ shutdownCmd' = None
  /\ batLevel' = IF shutdownCmd = None THEN None ELSE batLevel
  /\ IF shutdownCmd # None THEN PrepareSleep(shutdownCmd)
     ELSE IF IsLow(batLevel) \/ (SleepsOnInactivity /\ idle' = IdleTicks) THEN PrepareSleep(0)
     ELSE Feed
  /\ UNCHANGED <<board, mode, battery, phone>>

EnterSleep ==
  /\ mode' = "asleep"
  /\ UNCHANGED <<board, battery, signals, ble, watchdog>>

GraceEnds ==
  /\ mode = "on" /\ wd = "grace" /\ due = 0
  /\ IF remaining = 0 THEN EnterSleep
     ELSE /\ wd' = "countdown" /\ due' = ChunkTicks
          /\ UNCHANGED <<board, mode, battery, signals, ble, remaining, idle, unfed>>

\* Faulty variant: the watchdog is not fed while the delay runs.
CountdownUnfed ==
  /\ mode = "on" /\ wd = "countdown" /\ due = 0
  /\ remaining' = remaining - 1
  /\ due' = ChunkTicks
  /\ mode' = IF remaining' = 0 THEN "asleep" ELSE mode
  /\ UNCHANGED <<board, battery, signals, ble, wd, idle, unfed>>

\* A second of the delay has passed: feed, count down, sleep at the end.
Countdown ==
  /\ mode = "on" /\ wd = "countdown" /\ due = 0
  /\ remaining' = remaining - 1
  /\ due' = ChunkTicks /\ unfed' = 0
  /\ mode' = IF remaining' = 0 THEN "asleep" ELSE mode
  /\ UNCHANGED <<board, battery, signals, ble, wd, idle>>

UpTo(n, limit) == IF n < limit THEN n ELSE limit

Tick ==
  /\ mode = "on" /\ due > 0
  /\ due' = due - 1
  /\ idle' = UpTo(idle + 1, IdleTicks)
  /\ unfed' = UpTo(unfed + 1, WdtTicks)
  /\ UNCHANGED <<board, mode, battery, signals, ble, wd, remaining>>

\* A wake-up, or the reset button of a board without one, is a boot: the first sample is
\* signalled and the watchdog task starts.
Wake ==
  /\ mode = "asleep" /\ mode' = "on"
  /\ voltage' = FirstReading /\ batLevel' = VoltageToLevel(voltage')
  /\ shutdownCmd' = None /\ activity' = FALSE
  /\ phone' = FALSE /\ disconnCmd' = FALSE
  /\ wd' = "watch" /\ due' = FeedTicks /\ remaining' = 0 /\ idle' = 0 /\ unfed' = 0
  /\ UNCHANGED <<board, supply>>

-----------------------------------------------------------------------------
PowerInit ==
  /\ board \in Boards /\ mode = "on"
  /\ supply \in Supplies /\ voltage = FirstReading /\ batLevel = VoltageToLevel(voltage)
  /\ shutdownCmd = None /\ activity = FALSE
  /\ phone = FALSE /\ disconnCmd = FALSE
  /\ wd = "watch" /\ due = FeedTicks /\ remaining = 0 /\ idle = 0 /\ unfed = 0

Surroundings ==
  \/ BatterySample \/ Discharge \/ Activity
  \/ Connect \/ RequestDisconnect \/ Disconnect
  \/ BleDisconnects \/ BleTakesLevel \/ Wake
  \/ \E secs \in Delays : RequestShutdown(secs)

PowerNext == Surroundings \/ Watch \/ GraceEnds \/ Countdown \/ Tick

\* Timers run and the tasks they wake run; the battery is sampled again and again.
PowerFairness ==
  /\ WF_PowerVars(Watch) /\ WF_PowerVars(GraceEnds) /\ WF_PowerVars(Countdown)
  /\ WF_PowerVars(Tick) /\ WF_PowerVars(BatterySample)

PowerSpec == PowerInit /\ [][PowerNext]_PowerVars /\ PowerFairness

-----------------------------------------------------------------------------
\* The state of the tasks, their signals and counters.
PowerTypeOK ==
  /\ board \in Boards /\ mode \in {"on", "asleep"}
  /\ supply \in Supplies /\ voltage \in Nat
  /\ batLevel \in 0..100 \cup {None} /\ shutdownCmd \in Delays \cup {None}
  /\ {activity, phone, disconnCmd} \subseteq BOOLEAN
  /\ wd \in {"watch", "grace", "countdown"} /\ due \in 0..ChunkTicks
  /\ remaining \in Nat /\ idle \in 0..IdleTicks /\ unfed \in 0..WdtTicks

\* The hardware watchdog never resets a board whose tasks run, not even during a delay
\* longer than its period.
NeverStarved == unfed < WdtTicks

\* An admin's shutdown is carried out, whoever else holds the signal of disconnection.
ShutdownObeyed == (shutdownCmd # None) ~> (mode = "asleep")

\* A battery whose reading stays low puts a board without a phone to sleep.
LowBatterySleeps ==
  <>[](mode = "on" => VoltageToLevel(voltage) \in 1..LowBattery /\ ~phone)
    => []<>(mode = "asleep")

=============================================================================
