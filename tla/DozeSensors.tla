------------------------------ MODULE DozeSensors ------------------------------
(***************************************************************************)
(* What the sensors of a live doze service do with their readings          *)
(* (PickupSensor.java, ProximitySensor.java): decide by the time between   *)
(* readings whether the display is pulsed.  The service enables them when  *)
(* the display goes off and disables them when it comes on; an executor    *)
(* per sensor registers and unregisters the listener, while readings       *)
(* arrive on the main thread.                                              *)
(*                                                                         *)
(* The proximity sensor reports its state when it is registered and then   *)
(* each change of it; what really covers it is a state of its own.         *)
(***************************************************************************)
EXTENDS Integers, Sequences

CONSTANTS
  HandwaveMaxDelta,  \* HANDWAVE_MAX_DELTA_NS, in ticks
  PocketMinDelta,    \* POCKET_MIN_DELTA_NS
  MinPulseInterval,  \* MIN_PULSE_INTERVAL_MS
  MaxTime,           \* bound: ticks
  MaxTasks           \* bound: tasks that wait when the display switches

ASSUME SensorsAssumption ==
  /\ HandwaveMaxDelta \in Nat \ {0} /\ PocketMinDelta \in Nat \ {0}
  /\ MinPulseInterval \in Nat \ {0}
  /\ MaxTime \in Nat /\ MaxTasks \in Nat \ {0}

Gestures == {"pick_up", "hand_wave", "pocket"}
Sensors == {"pickup", "proximity"}

VARIABLES
  prefs,           \* gestures switched on
  display,         \* the display is on
  tasks,           \* tasks waiting for the executor of each sensor
  listening,       \* sensors whose listener is registered
  now,             \* SystemClock.elapsedRealtime, event.timestamp
  entryTimestamp,  \* mEntryTimestamp
  sawNear,         \* mSawNear
  inPocketTime,    \* mInPocketTime
  unread,          \* the proximity listener has a state to be told
  covered,         \* something covers the proximity sensor
  coveredSince,    \* and when it was covered last
  watched,         \* history: the listener was registered all that time
  picked           \* history: the last pulse for a pick-up

proximity == <<sawNear, inPocketTime, unread>>
cover == <<covered, coveredSince, watched>>
vars == <<prefs, display, tasks, listening, now, entryTimestamp, proximity,
                 cover, picked>>

LongAgo == -MinPulseInterval

Init ==
  /\ prefs \in SUBSET Gestures /\ display = TRUE
  /\ tasks = [s \in Sensors |-> <<>>] /\ listening = {}
  /\ now = 0
  /\ entryTimestamp = LongAgo /\ picked = LongAgo
  /\ sawNear = FALSE /\ inPocketTime = LongAgo /\ unread = FALSE
  /\ covered = FALSE /\ coveredSince = 0 /\ watched = FALSE

------------------------------------------------------------------------------
Wanted == {s \in Sensors : IF s = "pickup" THEN "pick_up" \in prefs
                           ELSE prefs \cap {"hand_wave", "pocket"} # {}}

(* onDisplayOn, onDisplayOff *)
DisplaySwitched ==
  /\ \A s \in Sensors : Len(tasks[s]) < MaxTasks
  /\ display' = ~display
  /\ tasks' = [s \in Sensors |->
                 IF s \notin Wanted THEN tasks[s]
                 ELSE Append(tasks[s], IF display THEN "enable" ELSE "disable")]
  /\ UNCHANGED <<prefs, listening, now, entryTimestamp, proximity,
                 cover, picked>>

GestureSwitched(g) ==
  /\ display
  /\ prefs' = IF g \in prefs THEN prefs \ {g} ELSE prefs \cup {g}
  /\ UNCHANGED <<display, tasks, listening, now, entryTimestamp, proximity,
                 cover, picked>>

(* The executors.  Registering the pick-up listener and starting its        *)
(* interval are two steps of a task: a reading may come between them.       *)
Runs(s, task) ==
  tasks[s] # <<>> /\ Head(tasks[s]) = task /\ tasks' = [tasks EXCEPT ![s] = Tail(@)]

RegisterPickup ==
  /\ tasks["pickup"] # <<>> /\ Head(tasks["pickup"]) = "enable"
  /\ tasks' = [tasks EXCEPT !["pickup"] = <<"stamp">> \o Tail(@)]
  /\ listening' = listening \cup {"pickup"}
  /\ UNCHANGED <<prefs, display, now, entryTimestamp, proximity, cover, picked>>

(* Mutant: a registration forgets the last pulse. *)
StampPickupForgets ==
  /\ Runs("pickup", "stamp")
  /\ entryTimestamp' = LongAgo
  /\ UNCHANGED <<prefs, display, listening, now, proximity, cover, picked>>

StampPickup ==
  /\ Runs("pickup", "stamp")
  /\ entryTimestamp' = now
  /\ UNCHANGED <<prefs, display, listening, now, proximity, cover, picked>>

EnableProximity ==
  /\ Runs("proximity", "enable")
  /\ listening' = listening \cup {"proximity"}
  /\ unread' = (unread \/ "proximity" \notin listening)
  /\ UNCHANGED <<prefs, display, now, entryTimestamp, sawNear, inPocketTime,
                 cover, picked>>

Disable(s) ==
  /\ Runs(s, "disable")
  /\ listening' = listening \ {s}
  /\ unread' = (unread /\ s # "proximity")
  /\ watched' = (watched /\ s # "proximity")
  /\ UNCHANGED <<prefs, display, now, entryTimestamp, sawNear, inPocketTime,
                 covered, coveredSince, picked>>

------------------------------------------------------------------------------
(* PickupSensor.onSensorChanged: readings that come too early are dropped,  *)
(* and a put-down starts the interval as a pick-up does.                    *)
PickupEvent(up) ==
  /\ "pickup" \in listening
  /\ now - entryTimestamp >= MinPulseInterval
  /\ entryTimestamp' = now
  /\ picked' = IF up THEN now ELSE picked
  /\ UNCHANGED <<prefs, display, tasks, listening, now, proximity, cover>>

(* Mutant: one gesture is enough to accept any time. *)
ShouldPulseAny(delta) == prefs \cap {"hand_wave", "pocket"} # {}

(* shouldPulse *)
ShouldPulse(delta) ==
  \/ {"hand_wave", "pocket"} \subseteq prefs
  \/ "hand_wave" \in prefs /\ "pocket" \notin prefs /\ delta < HandwaveMaxDelta
  \/ "pocket" \in prefs /\ "hand_wave" \notin prefs /\ delta >= PocketMinDelta

(* ProximitySensor.onSensorChanged *)
ProximityPulses == sawNear /\ ~covered /\ ShouldPulse(now - inPocketTime)
ProximityEvent ==
  /\ "proximity" \in listening /\ unread /\ unread' = FALSE
  /\ inPocketTime' = IF sawNear /\ ~covered THEN inPocketTime ELSE now
  /\ sawNear' = covered
  /\ UNCHANGED <<prefs, display, tasks, listening, now, entryTimestamp, cover,
                 picked>>

------------------------------------------------------------------------------
(* Time passes when no reading waits to be told; hands and pockets come and *)
(* go.                                                                      *)
Tick ==
  /\ now < MaxTime /\ now' = now + 1 /\ ~unread
  /\ UNCHANGED <<prefs, display, tasks, listening, entryTimestamp, proximity,
                 cover, picked>>
CoverChanges ==
  /\ ~unread /\ unread' = ("proximity" \in listening)
  /\ covered' = ~covered
  /\ IF covered THEN UNCHANGED <<coveredSince, watched>>
     ELSE coveredSince' = now /\ watched' = ("proximity" \in listening)
  /\ UNCHANGED <<prefs, display, tasks, listening, now, entryTimestamp, sawNear,
                 inPocketTime, picked>>

Next ==
  \/ DisplaySwitched \/ \E g \in Gestures : GestureSwitched(g)
  \/ RegisterPickup \/ StampPickup \/ EnableProximity \/ \E s \in Sensors : Disable(s)
  \/ \E up \in BOOLEAN : PickupEvent(up)
  \/ ProximityEvent
  \/ Tick \/ CoverChanges

Spec == Init /\ [][Next]_vars

------------------------------------------------------------------------------
(* MIN_PULSE_INTERVAL_MS: two pulses for a pick-up are never closer, also   *)
(* when the display went on and off and the sensor was registered again     *)
(* between them.                                                            *)
PickupPulsesApart == [][picked' # picked => picked' - picked >= MinPulseInterval]_vars

(* shouldPulse: a cover that the listener saw begin and end pulses only for *)
(* the gestures that are on: alone, a hand wave is shorter and a pocket is  *)
(* longer than its limit.                                                   *)
Pulses == ProximityEvent /\ ProximityPulses
CoverTime == now - coveredSince
WaveOn == "hand_wave" \in prefs
PocketOn == "pocket" \in prefs
GestureMade == \/ WaveOn /\ (PocketOn \/ CoverTime < HandwaveMaxDelta)
               \/ PocketOn /\ (WaveOn \/ CoverTime >= PocketMinDelta)
WatchedCovers == [][Pulses /\ watched => GestureMade]_vars
==============================================================================
