--------------------------------- MODULE Boot ---------------------------------
(***************************************************************************)
(* A phone that is switched on and off: init derives the properties from   *)
(* the bootloader's name, the init script writes kernel nodes, and the     *)
(* process that holds the lineagehw classes loads them, serves the user    *)
(* and may die.  The nodes start anew with the kernel; the file with the   *)
(* user's default display mode stays.  The audio server opens the audio    *)
(* device, which reads properties that init has set, and may die, too.     *)
(* Writes and opening may fail, MaxFailures times in all.                  *)
(***************************************************************************)
EXTENDS BootProperties, HardwareControls, AudioDevice

CONSTANTS Bootloaders,   \* the names init may find
          Platform,      \* ro.board.platform
          LargeBattery,  \* the values of uses.s7e_battery
          VoiceConfigs,  \* the values of audio_hal.force_voice_config
          VolumeSteps,   \* ro.config.vc_call_vol_steps, 0 when it is no number
          Refusals,      \* how often a sound card may refuse before it answers
          Permissions,   \* the sets of nodes that can be opened
          ModeMax,       \* what the mode_max node holds
          UserModes,     \* the display modes the user picks, when available
          Intensities,   \* the intensities the user picks
          Colors,        \* the calibrations the user picks
          MaxFailures, MaxBoots

VARIABLES phase,         \* "off", "booting", "up"
          bootloader, s7e, props,
          audio,         \* the audio device
          files,
          classes,       \* the lineagehw classes are loaded
          readingLoaded, \* ReadingEnhancement.sMode
          chosen,        \* the last mode stored as the default, NoMode: none
          accepted,      \* the last accepted value of each control
          failures, boots
vars == <<phase, bootloader, s7e, props, audio, files, classes, readingLoaded,
          chosen, accepted, failures, boots>>

NothingSet == [c \in {} |-> 0]

(* The kernel's nodes when it starts: the second mode, all off. *)
KernelLine == [mode |-> 1, modeMax |-> ModeMax, vibrator |-> 0, rgb |-> 255,
               reading |-> 0, cabc |-> 0, fade |-> 0]
KernelFiles(open, stored) ==
  [p \in Paths |-> IF p = "default" THEN stored
                   ELSE [r |-> p \in open, w |-> p \in open,
                         line |-> KernelLine[p]]]

Init ==
  /\ phase = "off"
  /\ bootloader \in Bootloaders
  /\ s7e \in LargeBattery
  /\ props = Factory
  /\ audio = NoDevice
  /\ files = KernelFiles({}, Absent)
  /\ classes = FALSE /\ readingLoaded = FALSE
  /\ chosen = NoMode
  /\ accepted = NothingSet
  /\ failures = 0 /\ boots = 0

(* A write may fail while failures are left. *)
Outcome(ok) ==
  /\ ok \/ failures < MaxFailures
  /\ failures' = IF ok THEN failures ELSE failures + 1

Accepted(control, value, written) ==
  accepted' =
    IF ~written THEN accepted
    ELSE [c \in DOMAIN accepted \cup {control} |->
            IF c = control THEN value ELSE accepted[c]]

(* init writes as root, whatever the processes may open. *)
RootWrite(p, line) == files' = [files EXCEPT ![p].line = line]

------------------------------------------------------------------------------
(* Power comes on: vendor_load_properties, and on boot the script's write *)
(* to the vibrator.                                                       *)
PowerOn ==
  /\ phase = "off" /\ boots < MaxBoots
  /\ phase' = "booting" /\ boots' = boots + 1
  /\ props' = LoadProperties(bootloader, Platform, s7e)
  /\ \E open \in Permissions :
       files' = [KernelFiles(open, files["default"]) EXCEPT
                   !["vibrator"].line = DefaultIntensity]
  /\ UNCHANGED <<bootloader, s7e, audio, classes, readingLoaded, chosen,
                 accepted, failures>>

(* sys.boot_completed: the script selects mode 4. *)
BootCompleted ==
  /\ phase = "booting" /\ classes
  /\ phase' = "up"
  /\ RootWrite("mode", 4)
  /\ UNCHANGED <<bootloader, s7e, props, audio, classes, readingLoaded,
                 chosen, accepted, failures, boots>>

PowerOff ==
  /\ phase # "off"
  /\ phase' = "off"
  /\ classes' = FALSE /\ readingLoaded' = FALSE
  /\ accepted' = NothingSet
  /\ audio' = NoDevice
  /\ UNCHANGED <<bootloader, s7e, props, files, chosen, failures, boots>>

(* The process starts: the static initialisers. *)
LoadClasses ==
  /\ phase # "off" /\ ~classes
  /\ classes' = TRUE
  /\ readingLoaded' = SwitchSupported(files, "reading")
  /\ \E ok \in BOOLEAN :
       /\ Outcome(ok)
       /\ files' = LoadDisplayModes(files, ok, ok)
       /\ chosen' = IF chosen = NoMode THEN GetDefaultMode(files') ELSE chosen
  /\ UNCHANGED <<phase, bootloader, s7e, props, audio, accepted, boots>>

ProcessDies ==
  /\ phase # "off" /\ classes
  /\ classes' = FALSE /\ readingLoaded' = FALSE
  /\ UNCHANGED <<phase, bootloader, s7e, props, audio, files, chosen, accepted,
                 failures, boots>>

------------------------------------------------------------------------------
(* The user's calls.  One of the two writes of setMode may fail. *)
UserSetsMode ==
  /\ classes
  /\ \E mode \in UserModes \cap Range(AvailableModes(files)),
        makeDefault, okNode, okFile \in BOOLEAN :
       /\ Outcome(okNode /\ okFile)
       /\ files' = SetMode(files, mode, makeDefault, okNode, okFile)
       /\ chosen' = IF /\ makeDefault
                       /\ SetModeAnswer(files, mode, TRUE, okNode, okFile)
                    THEN mode ELSE chosen
  /\ UNCHANGED <<phase, bootloader, s7e, props, audio, classes, readingLoaded,
                 accepted, boots>>

UserSwitches ==
  /\ classes
  /\ \E s \in Switches, on, ok \in BOOLEAN :
       /\ Outcome(ok)
       /\ files' = SetSwitch(files, s, on, ok)
       /\ Accepted(s, on, Writes(files, s, ok))
  /\ UNCHANGED <<phase, bootloader, s7e, props, audio, classes, readingLoaded,
                 chosen, boots>>

UserSetsIntensity ==
  /\ classes
  /\ \E i \in Intensities, ok \in BOOLEAN :
       /\ Outcome(ok)
       /\ files' = SetIntensity(files, i, ok)
       /\ Accepted("vibrator", i, Writes(files, "vibrator", ok))
  /\ UNCHANGED <<phase, bootloader, s7e, props, audio, classes, readingLoaded,
                 chosen, boots>>

UserSetsColors ==
  /\ classes
  /\ \E colors \in Colors, ok \in BOOLEAN :
       /\ Outcome(ok)
       /\ files' = SetColors(files, colors, ok)
       /\ Accepted("rgb", colors, Writes(files, "rgb", ok))
  /\ UNCHANGED <<phase, bootloader, s7e, props, audio, classes, readingLoaded,
                 chosen, boots>>

------------------------------------------------------------------------------
(* The audio server opens its device once; a refused open is tried again by *)
(* the next process.  The property of the forced band may be set meanwhile. *)
OpenAudio ==
  /\ phase # "off" /\ ~audio.open
  /\ \E config \in VoiceConfigs, refused \in Refusals, routes, ril \in BOOLEAN :
       /\ audio' = AdevOpen(props.audience, config, VolumeSteps,
                            [c \in Cards |-> refused], routes, ril)
       /\ Outcome(refused = 0 /\ routes /\ ril)
  /\ UNCHANGED <<phase, bootloader, s7e, props, files, classes, readingLoaded,
                 chosen, accepted, boots>>

(* The audio server closes its device or dies. *)
CloseAudio ==
  /\ audio.open
  /\ audio' = AdevClose(audio)
  /\ UNCHANGED <<phase, bootloader, s7e, props, files, classes, readingLoaded,
                 chosen, accepted, failures, boots>>

(* The audio server asks its device; some it answers, whatever its state,    *)
(* some it refuses, so the server itself scales and mutes what it mixes.    *)
AudioAnswers  == audio.open /\ UNCHANGED vars
MasterRefused == audio.open /\ UNCHANGED vars
AudioDump     == audio.open /\ UNCHANGED vars

Next == \/ PowerOn \/ BootCompleted \/ PowerOff
        \/ LoadClasses \/ ProcessDies
        \/ UserSetsMode \/ UserSwitches \/ UserSetsIntensity
        \/ UserSetsColors
        \/ OpenAudio \/ CloseAudio
        \/ AudioAnswers \/ MasterRefused \/ AudioDump
Spec == Init /\ [][Next]_vars

------------------------------------------------------------------------------
(* The variant's own branch is taken: no pattern that the bootloader's name *)
(* contains is longer than the one whose properties are set, and a name     *)
(* that contains any pattern has its properties set.                        *)
MostSpecificVariant ==
  phase # "off" =>
    LET matching == {i \in 1..Len(Branches) :
                       IsPrefix(Branches[i].pattern, bootloader)}
    IN  matching # {} =>
          \E i \in matching :
            /\ props = Override(Factory, Branches[i], s7e)
            /\ \A j \in matching :
                 Len(Branches[j].pattern) <= Len(Branches[i].pattern)

(* The default display mode is the last one that was stored, across         *)
(* reboots, deaths of the process, the script's own write of the mode and   *)
(* failed writes.                                                           *)
UserDefaultSurvives == chosen # NoMode => GetDefaultMode(files) = chosen

(* What a control reports is the last value whose write was accepted since   *)
(* the phone was switched on, in whatever process it is asked.               *)
Reported(control) ==
  CASE control \in Switches -> SwitchEnabled(files, control, readingLoaded)
    [] control = "vibrator" -> CurIntensity(files)
    [] control = "rgb"      -> CurColors(files)
ControlsReport ==
  classes => \A c \in DOMAIN accepted : Reported(c) = accepted[c]

(* Loading the classes makes the display modes supported: the file with the *)
(* default exists from then on, unless a write failed or the node cannot be *)
(* opened.                                                                  *)
SupportedOnceLoaded ==
  classes /\ failures = 0 /\ SwitchSupported(files, "mode") =>
    DisplaySupported(files)

(* An open audio device is one that AudioHal can start from: its mixers     *)
(* include the card of every PCM device that a stream may be given, the     *)
(* volume of a call has steps, and it knows of the voice processor exactly  *)
(* when the variant named by the bootloader has one, which no forced band   *)
(* overrules.                                                               *)
DeviceComplete ==
  audio.open =>
    /\ \A i \in DOMAIN PcmDevices : PcmDevices[i].card \in audio.mixers
    /\ audio.steps # 0
    /\ LET b == BranchOf(bootloader)
       IN  audio.audience <=> b # 0 /\ "audience" \in Branches[b].traits
    /\ audio.audience => ~audio.forced /\ ~audio.wbAmr
==============================================================================
