------------------------------ MODULE DozeService ------------------------------
(***************************************************************************)
(* The life of the doze service (doze/src): a settings screen and a boot   *)
(* receiver start and stop it, and it registers the pick-up and proximity  *)
(* sensors while the display is off.  What the sensors then do with their  *)
(* readings is in DozeSensors.                                             *)
(*                                                                         *)
(* The service, the settings screen and the broadcast receivers run on the *)
(* main thread, one after the other; life-cycle calls and screen           *)
(* broadcasts wait in its queue.  Each sensor object registers its         *)
(* listener on an executor thread of its own.  A service that is stopped   *)
(* and started again has new sensor objects, so what belongs to a service  *)
(* is indexed by its number.                                               *)
(***************************************************************************)
EXTENDS Integers, Sequences

CONSTANTS
  MaxServices,  \* bound: services created one after the other
  MaxMail,      \* bound: messages that wait when the user or the screen acts
  MaxTasks      \* bound: tasks that wait when the screen switches

ASSUME DozeAssumption ==
  MaxServices \in Nat \ {0} /\ MaxMail \in Nat \ {0} /\ MaxTasks \in Nat \ {0}

Gestures == {"pick_up", "hand_wave", "pocket"}
Sensors == {"pickup", "proximity"}
Services == 1..MaxServices
SensorObjects == Services \X Sensors

VARIABLES
  dozeEnabled,  \* Settings.Secure.DOZE_ENABLED
  prefs,        \* gestures switched on in the shared preferences
  booted,       \* BOOT_COMPLETED was sent
  started,      \* the activity manager has the service started
  created,      \* number of the service created last, or about to be
  service,      \* the live service, 0 when there is none
  mail,         \* messages waiting for the main thread
  tasks,        \* tasks waiting for the executor of each sensor object
  listening,    \* sensor objects whose listener is registered
  display       \* the display is on

settings == <<dozeEnabled, prefs, booted>>
threads == <<service, tasks, listening>>
vars == <<settings, started, created, mail, threads, display>>

Init ==
  /\ dozeEnabled \in BOOLEAN /\ prefs \in SUBSET Gestures
  /\ booted = FALSE /\ started = FALSE
  /\ created = 0 /\ service = 0 /\ mail = <<>>
  /\ tasks = [o \in SensorObjects |-> <<>>]
  /\ listening = {}
  /\ display \in BOOLEAN

------------------------------------------------------------------------------
(* Utils: the activity manager turns changes of `started' into messages.    *)
Message(what, i) == [do |-> what, to |-> i]

StartService ==
  /\ started' = TRUE
  /\ IF started THEN UNCHANGED <<mail, created>>
     ELSE /\ created < MaxServices /\ created' = created + 1
          /\ mail' = Append(mail, Message("create", created'))

StopService ==
  /\ started' = FALSE /\ UNCHANGED created
  /\ mail' = IF started THEN Append(mail, Message("destroy", created)) ELSE mail

SensorsEnabled == prefs # {}

(* Mutant: the gestures alone decide. *)
CheckDozeServiceByGestures(enabled) ==
  IF SensorsEnabled THEN StartService ELSE StopService

CheckDozeService(enabled) ==
  IF enabled /\ SensorsEnabled THEN StartService ELSE StopService

BootCompleted ==
  /\ ~booted /\ booted' = TRUE
  /\ IF dozeEnabled /\ SensorsEnabled THEN StartService
     ELSE UNCHANGED <<started, created, mail>>
  /\ UNCHANGED <<dozeEnabled, prefs, threads, display>>

(* onCheckedChanged: the master switch. *)
SettingsOpen == booted /\ display /\ Len(mail) < MaxMail
DozeSwitched ==
  /\ SettingsOpen
  /\ dozeEnabled' = ~dozeEnabled
  /\ CheckDozeService(dozeEnabled')
  /\ UNCHANGED <<prefs, booted, threads, display>>

(* A gesture's switch stores the preference and calls nothing: the fragment *)
(* is registered as listener of no preference, so the service is neither    *)
(* started nor stopped before the next boot or use of the master switch.    *)
(* The preferences are disabled while doze is off.                          *)
GestureSwitched(g) ==
  /\ SettingsOpen /\ dozeEnabled
  /\ prefs' = IF g \in prefs THEN prefs \ {g} ELSE prefs \cup {g}
  /\ UNCHANGED <<dozeEnabled, booted, started, created, mail, threads, display>>

------------------------------------------------------------------------------
(* The main thread takes a message. *)
Takes(what) == mail # <<>> /\ Head(mail).do = what /\ mail' = Tail(mail)
Submit(task, who) ==
  tasks' = [o \in SensorObjects |->
              IF o \in {service} \X who THEN Append(tasks[o], task) ELSE tasks[o]]

OnCreate ==
  /\ Takes("create")
  /\ service' = Head(mail).to
  /\ UNCHANGED <<settings, started, created, tasks, listening, display>>

(* The sensors that the preferences ask for. *)
Wanted == {s \in Sensors : IF s = "pickup" THEN "pick_up" \in prefs
                           ELSE prefs \cap {"hand_wave", "pocket"} # {}}

(* Mutant: onDestroy disables the sensors as onDisplayOn does. *)
OnDestroyGuarded ==
  /\ Takes("destroy")
  /\ Submit("disable", Wanted)
  /\ service' = 0
  /\ UNCHANGED <<settings, started, created, listening, display>>

OnDestroy ==
  /\ Takes("destroy")
  /\ Submit("disable", Sensors)
  /\ service' = 0
  /\ UNCHANGED <<settings, started, created, listening, display>>

(* onDisplayOn, onDisplayOff; a broadcast to a receiver that is gone is     *)
(* dropped.                                                                 *)
OnScreen(on) ==
  /\ Takes(IF on THEN "screen_on" ELSE "screen_off")
  /\ IF Head(mail).to = service
     THEN Submit(IF on THEN "disable" ELSE "enable", Wanted)
     ELSE UNCHANGED tasks
  /\ UNCHANGED <<settings, started, created, service, listening, display>>

(* An executor runs its next task. *)
Runs(o, task) ==
  tasks[o] # <<>> /\ Head(tasks[o]) = task /\ tasks' = [tasks EXCEPT ![o] = Tail(@)]
Enable(o) ==
  /\ Runs(o, "enable")
  /\ listening' = listening \cup {o}
  /\ UNCHANGED <<settings, started, created, mail, service, display>>
Disable(o) ==
  /\ Runs(o, "disable")
  /\ listening' = listening \ {o}
  /\ UNCHANGED <<settings, started, created, mail, service, display>>

------------------------------------------------------------------------------
(* The screen is switched; the broadcast goes to the receiver of the live   *)
(* service.                                                                 *)
DisplaySwitched ==
  /\ Len(mail) < MaxMail
  /\ \A o \in SensorObjects : Len(tasks[o]) < MaxTasks
  /\ display' = ~display
  /\ mail' = IF service = 0 THEN mail
             ELSE Append(mail, Message(IF display THEN "screen_off" ELSE "screen_on",
                                       service))
  /\ UNCHANGED <<settings, started, created, threads>>

(* The process dies with its service, listeners and threads; a sticky       *)
(* service is created again.                                                *)
ProcessDies ==
  /\ service' = 0 /\ listening' = {}
  /\ tasks' = [o \in SensorObjects |-> <<>>]
  /\ IF started
     THEN /\ created < MaxServices /\ created' = created + 1
          /\ mail' = <<Message("create", created')>>
     ELSE mail' = <<>> /\ UNCHANGED created
  /\ UNCHANGED <<settings, started, display>>

MainThread == OnCreate \/ OnDestroy \/ \E on \in BOOLEAN : OnScreen(on)
Executor(o) == Enable(o) \/ Disable(o)

Next ==
  \/ BootCompleted \/ DozeSwitched \/ \E g \in Gestures : GestureSwitched(g)
  \/ MainThread
  \/ \E o \in SensorObjects : Executor(o)
  \/ DisplaySwitched \/ ProcessDies

Spec == Init /\ [][Next]_vars

(* The main thread takes its messages and the executors run their tasks;    *)
(* nobody has to touch the settings or the screen.                          *)
Fairness == WF_vars(MainThread) /\ \A o \in SensorObjects : WF_vars(Executor(o))
FairSpec == Spec /\ Fairness

------------------------------------------------------------------------------
(* onDestroy: a listener, registered or about to be, of a service that is   *)
(* gone is on its way out, whatever the preferences and the screen were.    *)
StoppedServiceLetsGo ==
  \A o \in SensorObjects :
    o[1] # service /\ (o \in listening \/ tasks[o] # <<>>) =>
      tasks[o] # <<>> /\ tasks[o][Len(tasks[o])] = "disable"

(* Utils.checkDozeService: a user who leaves doze switched off ends up with *)
(* no listener on any sensor, through the activity manager, the main        *)
(* thread, the executors and deaths of the process in between.              *)
DozeOffSilencesSensors == <>[](booted /\ ~dozeEnabled) => <>[](listening = {})
==============================================================================
