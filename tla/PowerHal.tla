------------------------------- MODULE PowerHal -------------------------------
(***************************************************************************)
(* The power HAL (power/power.c): the input devices, the maximum CPU       *)
(* frequencies and the boosts of the CPU governor as the framework         *)
(* switches between interactive and non-interactive and in and out of low  *)
(* power.  The HAL service has one thread, so a call is one step; the      *)
(* sysfs nodes are shared with other components, which write them between  *)
(* any two calls.                                                          *)
(***************************************************************************)
EXTENDS Naturals

CONSTANTS Frequencies,    \* maximum frequencies the kernel may be set to
          PowerSaveCap,   \* function: the maximum set for low power, per cluster
          BoostBuild,     \* ro.build.user and host are the ones asked for
          TapToWakeNode,  \* built with TARGET_TAP_TO_WAKE_NODE
          Faults          \* "read", "open": nodes can be unreadable, or
                          \* cannot be opened; "write": nodes can refuse what
                          \* is written to them; "restart"

Clusters == {"cpu0", "cpu4"}
Profiles == {"POWER_SAVE", "BALANCED"}
Panel == {"DARK", "LIT", "UNKNOWN"}
Boosts == {"boostpulse", "boostpulse2"}
InputDevices == {"touchscreen", "touchkeys"}

ASSUME PowerAssumption ==
  /\ PowerSaveCap \in [Clusters -> Frequencies]
  /\ Faults \subseteq {"read", "open", "write", "restart"}
  /\ BoostBuild \in BOOLEAN /\ TapToWakeNode \in BOOLEAN

VARIABLES
  touchscreen, touchkeys,  \* the `enabled' nodes of the input devices
  maxFreq,                 \* scaling_max_freq of each cluster
  savedFreq,               \* cpu0_max_freq, cpu4_max_freq of the HAL
  profile,                 \* current_power_profile
  touchkeysBlocked,        \* touchkeys_blocked of set_interactive
  ioBusy,                  \* the io_is_busy nodes of the governor
  boosts,                  \* the boosts of the governor that are running
  fds,                     \* boost nodes the HAL has open
  doubleTap,               \* the doubletap2wake node
  interactive,             \* what the framework told last
  panel,                   \* get_cur_panel_brightness
  touchDisabled,           \* the framework's last disable-touch hint
  keysDisabled,            \* another component has disabled the touchkeys
  chosenFreq,              \* what the rest of the system set as maximum
  lost,                    \* history: clusters whose maximum was lost by a fault
  refused                  \* history: input devices that refused what was last
                           \* written to them

inputs == <<touchscreen, touchkeys, touchkeysBlocked, refused>>
freqs == <<maxFreq, savedFreq, profile>>
environment == <<interactive, panel, touchDisabled, keysDisabled, chosenFreq>>
governor == <<ioBusy, boosts, fds, doubleTap>>
vars == <<inputs, freqs, governor, environment, lost>>

(* boostpulse_open, boostpulse2_open, boost2_open: the last two nodes are   *)
(* opened only by the build of one builder.                                 *)
Openable == IF "open" \in Faults THEN BOOLEAN ELSE {TRUE}
BoostNodes == IF BoostBuild THEN Boosts \cup {"boost2"} ELSE {"boostpulse"}
BoostOpen == fds' \in {{n \in BoostNodes : ok[n]} : ok \in [BoostNodes -> Openable]}

(* samsung_power_init *)
Init ==
  /\ fds = BoostNodes /\ boosts = {} /\ ioBusy = [c \in Clusters |-> FALSE]
  /\ doubleTap = FALSE
  /\ touchscreen = TRUE /\ touchkeys = TRUE /\ touchkeysBlocked = FALSE
  /\ refused = {}
  /\ \E f \in Frequencies :
       /\ maxFreq = [c \in Clusters |-> f]
       /\ savedFreq = maxFreq /\ chosenFreq = maxFreq
  /\ profile = "BALANCED"
  /\ interactive = TRUE /\ panel = "LIT"
  /\ touchDisabled = FALSE /\ keysDisabled = FALSE
  /\ lost = {}

(* sysfs_read: an unreadable node leaves the buffer as it was; sysfs_write: *)
(* a node that cannot be written stays as it was, and nobody is told.       *)
Readable == IF "read" \in Faults THEN BOOLEAN ELSE {TRUE}
Writable == IF "write" \in Faults THEN BOOLEAN ELSE {TRUE}
SysfsRead(node, buffer, readable) == IF readable THEN node ELSE buffer
SysfsWrite(node, value, writable) == IF writable THEN value ELSE node
Noted(devices, device, writable) ==
  IF writable THEN devices \ {device} ELSE devices \cup {device}

------------------------------------------------------------------------------
(* The way out of set_interactive, whatever it did before. *)
IoIsBusy(on) ==
  /\ \E writable \in [Clusters -> Writable] :
       ioBusy' = [c \in Clusters |-> SysfsWrite(ioBusy[c], on, writable[c])]
  /\ UNCHANGED <<boosts, fds, doubleTap>>

(* The write to the touchkeys' node, where the device is not left alone. *)
SwitchKeys(on, devices) ==
  \E writable \in Writable :
    /\ touchkeys' = SysfsWrite(touchkeys, on, writable)
    /\ refused' = Noted(devices, "touchkeys", writable)

(* Input devices are switched on, but not touchkeys that were off already   *)
(* when the device went to sleep.                                           *)
SetInteractiveOn ==
  /\ ~interactive /\ interactive' = TRUE /\ IoIsBusy(TRUE)
  /\ \E screen \in Writable :
       LET after == Noted(refused, "touchscreen", screen) IN
       /\ touchscreen' = SysfsWrite(touchscreen, TRUE, screen)
       /\ IF touchkeysBlocked THEN UNCHANGED touchkeys /\ refused' = after
          ELSE SwitchKeys(TRUE, after)
  /\ UNCHANGED <<touchkeysBlocked, freqs, panel, touchDisabled, keysDisabled,
                 chosenFreq, lost>>

(* Mutant: the keys are switched off before their state is read. *)
SetInteractiveOffSwapped ==
  /\ interactive /\ interactive' = FALSE /\ IoIsBusy(FALSE)
  /\ IF panel = "LIT" THEN UNCHANGED inputs
     ELSE /\ touchscreen' = FALSE /\ touchkeys' = FALSE /\ touchkeysBlocked' = TRUE
          /\ UNCHANGED refused
  /\ UNCHANGED <<freqs, panel, touchDisabled, keysDisabled, chosenFreq, lost>>

(* The framework reports only changes.  With the panel lit nothing is       *)
(* disabled; keys that are off already are not switched on at the next      *)
(* resume; keys whose node cannot be read are left alone.                   *)
SetInteractiveOff ==
  /\ interactive /\ interactive' = FALSE /\ IoIsBusy(FALSE)
  /\ IF panel = "LIT" THEN UNCHANGED inputs
     ELSE \E screen \in Writable, readable \in Readable :
            LET after == Noted(refused, "touchscreen", screen) IN
            /\ touchscreen' = SysfsWrite(touchscreen, FALSE, screen)
            /\ touchkeysBlocked' = IF readable THEN ~touchkeys ELSE touchkeysBlocked
            /\ IF readable /\ touchkeys THEN SwitchKeys(FALSE, after)
               ELSE UNCHANGED touchkeys /\ refused' = after
  /\ UNCHANGED <<freqs, panel, touchDisabled, keysDisabled, chosenFreq, lost>>

(* Mutant: the profile is set again although it is in force. *)
SetPowerProfileAlways(p) ==
  /\ IF p = "POWER_SAVE"
     THEN savedFreq' = maxFreq /\ maxFreq' = PowerSaveCap
     ELSE maxFreq' = savedFreq /\ UNCHANGED savedFreq
  /\ profile' = p /\ UNCHANGED lost

(* set_power_profile: remember the maxima and cap them, or write them back. *)
SetPowerProfile(p) ==
  IF profile = p THEN UNCHANGED <<freqs, lost>>
  ELSE /\ profile' = p
       /\ IF p = "POWER_SAVE"
          THEN \E readable \in [Clusters -> Readable],
                  writable \in [Clusters -> Writable] :
                 /\ savedFreq' = [c \in Clusters |->
                      SysfsRead(maxFreq[c], savedFreq[c], readable[c])]
                 /\ maxFreq' = [c \in Clusters |->
                      SysfsWrite(maxFreq[c], PowerSaveCap[c], writable[c])]
                 /\ lost' = lost \cup {c \in Clusters : ~readable[c]}
          ELSE \E writable \in [Clusters -> Writable] :
                 /\ maxFreq' = [c \in Clusters |->
                      SysfsWrite(maxFreq[c], savedFreq[c], writable[c])]
                 /\ lost' = lost \cup {c \in Clusters : ~writable[c]}
                 /\ UNCHANGED savedFreq

(* samsung_power_hint: low power and disable touch are always heeded. *)
LowPowerHint(p) ==
  SetPowerProfile(p) /\ UNCHANGED <<inputs, governor, environment>>
DisableTouchHint(off) ==
  /\ touchDisabled' = off
  /\ \E writable \in Writable :
       /\ touchscreen' = SysfsWrite(touchscreen, ~off, writable)
       /\ refused' = Noted(refused, "touchscreen", writable)
  /\ UNCHANGED <<touchkeys, touchkeysBlocked, freqs, governor, interactive,
                 panel, keysDisabled, chosenFreq, lost>>

(* send_boostpulse, send_boostpulse2, stop_boostpulse2, of nodes that are   *)
(* open.                                                                    *)
Send(node, after) ==
  /\ boosts' = IF node \in fds THEN after ELSE boosts
  /\ UNCHANGED <<inputs, freqs, ioBusy, fds, doubleTap, environment, lost>>

(* The other hints are ignored in low power. *)
LaunchHint ==
  profile = "BALANCED" /\ Send("boostpulse", boosts \cup {"boostpulse"})
InteractionHint ==
  profile = "BALANCED" /\ Send("boostpulse2", boosts \cup {"boostpulse2"})
VsyncHint ==
  profile = "BALANCED" /\ Send("boost2", boosts \ {"boostpulse2"})

(* samsung_set_feature *)
SetFeature(on) ==
  /\ TapToWakeNode
  /\ doubleTap' = on
  /\ UNCHANGED <<inputs, freqs, ioBusy, boosts, fds, environment, lost>>

(* The service dies and is started again: static data is gone, and init     *)
(* reads the maxima of the moment.                                          *)
Restart ==
  /\ "restart" \in Faults
  /\ touchkeysBlocked' = FALSE
  /\ profile' = "BALANCED"
  /\ savedFreq' = maxFreq
  /\ lost' = IF profile = "POWER_SAVE" THEN Clusters ELSE lost
  /\ BoostOpen
  /\ UNCHANGED <<touchscreen, touchkeys, maxFreq, ioBusy, boosts, doubleTap,
                 refused, environment>>

------------------------------------------------------------------------------
(* The rest of the system: the panel, the component that disables the       *)
(* touchkeys, and whoever sets the maximum frequencies, which leaves them   *)
(* alone in low power.                                                      *)
PanelChanges ==
  /\ panel' \in Panel
  /\ UNCHANGED <<inputs, freqs, governor, interactive, touchDisabled, keysDisabled,
                 chosenFreq, lost>>
KeysSwitched ==
  /\ keysDisabled' = ~keysDisabled
  /\ touchkeys' = keysDisabled
  /\ refused' = refused \ {"touchkeys"}
  /\ UNCHANGED <<touchscreen, touchkeysBlocked, freqs, governor, interactive,
                 panel, touchDisabled, chosenFreq, lost>>
FrequencyChosen(c, f) ==
  /\ profile = "BALANCED"
  /\ maxFreq' = [maxFreq EXCEPT ![c] = f]
  /\ chosenFreq' = [chosenFreq EXCEPT ![c] = f]
  /\ lost' = lost \ {c}
  /\ UNCHANGED <<inputs, savedFreq, profile, governor, interactive, panel, touchDisabled,
                 keysDisabled>>
(* A boost of the governor ends by itself. *)
BoostEnds(b) ==
  /\ b \in boosts /\ boosts' = boosts \ {b}
  /\ UNCHANGED <<inputs, freqs, ioBusy, fds, doubleTap, environment, lost>>

Next ==
  \/ SetInteractiveOn \/ SetInteractiveOff
  \/ \E p \in Profiles : LowPowerHint(p)
  \/ \E off \in BOOLEAN : DisableTouchHint(off) \/ SetFeature(off)
  \/ LaunchHint \/ InteractionHint \/ VsyncHint
  \/ Restart
  \/ PanelChanges \/ KeysSwitched
  \/ \E c \in Clusters, f \in Frequencies : FrequencyChosen(c, f)
  \/ \E b \in Boosts : BoostEnds(b)

Spec == Init /\ [][Next]_vars

------------------------------------------------------------------------------
(* set_power_profile: out of low power each cluster runs at the maximum     *)
(* that the rest of the system chose, however often and in whatever order   *)
(* the hints came, unless a fault lost it: a cap is never remembered as if  *)
(* it had been chosen.                                                      *)
CapsRestored ==
  profile = "BALANCED" =>
    \A c \in Clusters : c \in lost \/ maxFreq[c] = chosenFreq[c]

(* set_interactive: an interactive device has its touchscreen and its       *)
(* touchkeys, unless the framework or another component disabled them or    *)
(* the device's own node refused the write, whatever the panel showed, a    *)
(* node hid or a restart forgot while the device slept.                     *)
InputsComeBack ==
  interactive =>
    /\ touchDisabled \/ touchscreen \/ "touchscreen" \in refused
    /\ keysDisabled \/ touchkeys \/ "touchkeys" \in refused
==============================================================================
