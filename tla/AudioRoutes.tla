----------------------------- MODULE AudioRoutes -----------------------------
(***************************************************************************)
(* The pure device selection of the audio HAL (audio/audio_hw.c): which    *)
(* sound device - that is, which mixer path - serves a set of output       *)
(* devices in a given mode, which one serves the microphone, and which     *)
(* path the modem is told to use for a call.                               *)
(*                                                                         *)
(* A set of audio_devices_t bits is a set of names, so `devices & X' is an *)
(* intersection and popcount is Cardinality.  An input device is one name, *)
(* because the policy routes an input to a single device.  A snd_device_t  *)
(* is a pair <<profile, transducer>>: SND_DEVICE_OUT_INCALL_SPEAKER_WB is  *)
(* <<"INCALL_WB", "SPEAKER">>, SND_DEVICE_IN_HEADSET_MIC is                *)
(* <<"MEDIA", "HEADSET_MIC">>.                                             *)
(***************************************************************************)
EXTENDS Integers, FiniteSets, Sequences

Modes == {"NORMAL", "RINGTONE", "IN_CALL", "IN_COMMUNICATION"}

OutDevices == {"EARPIECE", "SPEAKER", "WIRED_HEADSET", "WIRED_HEADPHONE",
               "SCO_HEADSET", "SCO_CARKIT"}
Wired == {"WIRED_HEADSET", "WIRED_HEADPHONE"}
AllSco == {"SCO_HEADSET", "SCO_CARKIT"}

InDevices == {"BUILTIN_MIC", "BACK_MIC", "WIRED_HEADSET", "SCO_HEADSET",
              "VOICE_CALL", "FM_TUNER"}

(* The PCM devices by number; deep is the one of playbacks that need not be *)
(* fast, and the calls' are opened by number only.                          *)
SoundIds == [playback |-> 6, deep |-> 3, capture |-> 0, voice |-> 1, sco |-> 2]
SoundCard == 0

(* The profiles of the PCM devices; get_pcm_device takes the first that     *)
(* serves all the devices of a stream.                                      *)
PcmProfile == [type : {"PLAYBACK", "CAPTURE"}, card : Nat, id : Nat,
               devices : SUBSET (OutDevices \cup InDevices)]
PcmDevices == <<
  [type |-> "PLAYBACK", card |-> SoundCard, id |-> SoundIds.playback,
   devices |-> OutDevices],
  [type |-> "CAPTURE",  card |-> SoundCard, id |-> SoundIds.capture,
   devices |-> {"BUILTIN_MIC", "BACK_MIC", "WIRED_HEADSET", "SCO_HEADSET"}],
  [type |-> "PLAYBACK", card |-> SoundCard, id |-> SoundIds.playback,
   devices |-> {"SPEAKER"} \cup Wired] >>

GetPcmDevice(type, devices) ==
  {i \in DOMAIN PcmDevices :
     LET Serves(j) == /\ PcmDevices[j].type = type
                      /\ devices # {} /\ devices \subseteq PcmDevices[j].devices
     IN  Serves(i) /\ \A j \in 1..(i - 1) : ~Serves(j)}
CanCapture(device) == GetPcmDevice("CAPTURE", {device}) # {}

Sources == {"DEFAULT", "MIC", "CAMCORDER", "VOICE_RECOGNITION",
            "VOICE_COMMUNICATION", "OTHER"}

NONE == <<"NONE", "NONE">>
OutSndDevice == {"MEDIA", "INCALL", "INCALL_WB", "COMM"}
                  \X {"EARPIECE", "SPEAKER", "HEADPHONES",
                      "SPEAKER_AND_HEADPHONES", "BT_SCO"}
InSndDevice == {"MEDIA", "INCALL", "INCALL_WB", "COMM", "CAMCORDER",
                "VOICE_RECOGNITION"}
                  \X {"EARPIECE_MIC", "SPEAKER_MIC", "HEADSET_MIC",
                      "BT_SCO_MIC", "MIC"}
DeviceTable == OutSndDevice \cup InSndDevice
SndDevice == {NONE} \cup DeviceTable  \* those with a name

InCallProfile(wide) == IF wide THEN "INCALL_WB" ELSE "INCALL"

Touches(devices, mask) == devices \cap mask # {}

------------------------------------------------------------------------------
(* get_output_snd_device: each mode has its own precedence of transducers,  *)
(* and a call or communication mode falls through to the media devices when *)
(* it knows no route.                                                       *)
InCallOutput(devices, wbAmr, btWb) ==
  IF Touches(devices, AllSco)       THEN <<InCallProfile(btWb), "BT_SCO">>
  ELSE IF Touches(devices, Wired)   THEN <<InCallProfile(wbAmr), "HEADPHONES">>
  ELSE IF "SPEAKER" \in devices     THEN <<InCallProfile(wbAmr), "SPEAKER">>
  ELSE IF "EARPIECE" \in devices    THEN <<InCallProfile(wbAmr), "EARPIECE">>
  ELSE NONE

CommOutput(devices) ==
  IF Touches(devices, Wired)        THEN <<"COMM", "HEADPHONES">>
  ELSE IF Touches(devices, AllSco)  THEN <<"COMM", "BT_SCO">>
  ELSE IF "SPEAKER" \in devices     THEN <<"COMM", "SPEAKER">>
  ELSE IF "EARPIECE" \in devices    THEN <<"COMM", "EARPIECE">>
  ELSE NONE

MediaOutput(devices) ==
  IF \E w \in Wired : devices = {w, "SPEAKER"}
                                    THEN <<"MEDIA", "SPEAKER_AND_HEADPHONES">>
  ELSE IF Cardinality(devices) # 1  THEN NONE
  ELSE IF Touches(devices, Wired)   THEN <<"MEDIA", "HEADPHONES">>
  ELSE IF "SPEAKER" \in devices     THEN <<"MEDIA", "SPEAKER">>
  ELSE IF Touches(devices, AllSco)  THEN <<"MEDIA", "BT_SCO">>
  ELSE IF "EARPIECE" \in devices    THEN <<"MEDIA", "EARPIECE">>
  ELSE NONE

GetOutputSndDevice(mode, wbAmr, btWb, devices) ==
  LET special == IF mode = "IN_CALL" THEN InCallOutput(devices, wbAmr, btWb)
                 ELSE IF mode = "IN_COMMUNICATION" THEN CommOutput(devices)
                 ELSE NONE
  IN  IF special # NONE THEN special ELSE MediaOutput(devices)

------------------------------------------------------------------------------
(* get_input_snd_device: `source' and `inDev' are those of the active input *)
(* (every caller has one: the usecase list holds a capture or a call).      *)
InCallInput(outs, wbAmr, btWb) ==
  IF Touches(outs, AllSco)          THEN <<InCallProfile(btWb), "BT_SCO_MIC">>
  ELSE IF "WIRED_HEADSET" \in outs  THEN <<InCallProfile(wbAmr), "HEADSET_MIC">>
  ELSE IF Touches(outs, {"EARPIECE", "WIRED_HEADPHONE"})
                                    THEN <<InCallProfile(wbAmr), "EARPIECE_MIC">>
  ELSE IF "SPEAKER" \in outs        THEN <<InCallProfile(wbAmr), "SPEAKER_MIC">>
  ELSE NONE

CommInput(outs, inDev) ==
  IF "SCO_HEADSET" \in outs         THEN <<"COMM", "BT_SCO_MIC">>
  ELSE IF inDev = "BACK_MIC" \/ "SPEAKER" \in outs
                                    THEN <<"COMM", "SPEAKER_MIC">>
  ELSE IF inDev = "BUILTIN_MIC"
       THEN <<"COMM", IF "WIRED_HEADPHONE" \in outs THEN "SPEAKER_MIC"
                                                    ELSE "EARPIECE_MIC">>
  ELSE IF inDev = "WIRED_HEADSET"   THEN <<"COMM", "HEADSET_MIC">>
  ELSE NONE

RecognitionInput(inDev) ==
  IF inDev = "BUILTIN_MIC"          THEN <<"VOICE_RECOGNITION", "MIC">>
  ELSE IF inDev = "WIRED_HEADSET"   THEN <<"VOICE_RECOGNITION", "HEADSET_MIC">>
  ELSE IF inDev = "SCO_HEADSET"     THEN <<"VOICE_RECOGNITION", "BT_SCO_MIC">>
  ELSE NONE

MicInput(outs) ==
  IF "WIRED_HEADSET" \in outs       THEN <<"MEDIA", "HEADSET_MIC">>
  ELSE IF Touches(outs, {"EARPIECE", "WIRED_HEADPHONE"})
                                    THEN <<"MEDIA", "EARPIECE_MIC">>
  ELSE IF "SPEAKER" \in outs        THEN <<"MEDIA", "SPEAKER_MIC">>
  ELSE NONE

(* The tail of get_input_snd_device: by the input device when it names a    *)
(* microphone, by the output devices otherwise; the earpiece microphone is  *)
(* the default of both.                                                     *)
FallbackInput(outs, inDev) ==
  IF inDev \notin {"NONE", "VOICE_CALL"}
  THEN <<"MEDIA", CASE inDev = "BACK_MIC"      -> "SPEAKER_MIC"
                    [] inDev = "WIRED_HEADSET" -> "HEADSET_MIC"
                    [] inDev = "SCO_HEADSET"   -> "BT_SCO_MIC"
                    [] OTHER                   -> "EARPIECE_MIC">>
  ELSE <<"MEDIA", IF "EARPIECE" \in outs           THEN "EARPIECE_MIC"
                  ELSE IF "WIRED_HEADSET" \in outs THEN "HEADSET_MIC"
                  ELSE IF "SPEAKER" \in outs       THEN "SPEAKER_MIC"
                  ELSE IF "WIRED_HEADPHONE" \in outs THEN "EARPIECE_MIC"
                  ELSE IF "SCO_HEADSET" \in outs   THEN "BT_SCO_MIC"
                  ELSE "EARPIECE_MIC">>

GetInputSndDevice(mode, wbAmr, btWb, source, inDev, outs) ==
  LET comm    == mode # "IN_CALL" /\
                 (source = "VOICE_COMMUNICATION" \/ mode = "IN_COMMUNICATION")
      special == IF mode = "IN_CALL" THEN InCallInput(outs, wbAmr, btWb)
                 ELSE IF comm THEN CommInput(outs, inDev)
                 ELSE IF source = "CAMCORDER"
                      THEN <<"CAMCORDER", IF inDev = "WIRED_HEADSET"
                                          THEN "HEADSET_MIC" ELSE "MIC">>
                 ELSE IF source = "VOICE_RECOGNITION" THEN RecognitionInput(inDev)
                 ELSE IF source = "MIC" THEN MicInput(outs)
                 ELSE NONE
      nothing == \/ mode = "IN_CALL" /\ outs = {}
                 \/ mode # "IN_CALL" /\ ~comm /\ source = "DEFAULT"
  IN  IF nothing THEN NONE
      ELSE IF special # NONE THEN special
      ELSE FallbackInput(outs, inDev)

------------------------------------------------------------------------------
(* do_routing_for_call: the path the modem is told to use.                  *)
AudioPaths == {"EARPIECE", "SPEAKER", "HEADSET", "HEADPHONE", "BLUETOOTH",
               "BLUETOOTH_NO_NR", "BLUETOOTH_WB", "BLUETOOTH_WB_NO_NR"}

CallAudioPath(outs, nrec, btWb) ==
  IF Touches(outs, AllSco)
  THEN IF btWb THEN IF nrec THEN "BLUETOOTH_WB" ELSE "BLUETOOTH_WB_NO_NR"
               ELSE IF nrec THEN "BLUETOOTH"    ELSE "BLUETOOTH_NO_NR"
  ELSE IF "SPEAKER" \in outs         THEN "SPEAKER"
  ELSE IF "EARPIECE" \in outs        THEN "EARPIECE"
  ELSE IF "WIRED_HEADSET" \in outs   THEN "HEADSET"
  ELSE IF "WIRED_HEADPHONE" \in outs THEN "HEADPHONE"
  ELSE "EARPIECE"

(* set_voice_volume: the kind of transducer a call volume is for. *)
SoundTypes == {"VOICE", "SPEAKER", "HEADSET", "BTVOICE"}

SoundType(outs) ==
  IF Touches(outs, AllSco)       THEN "BTVOICE"
  ELSE IF "EARPIECE" \in outs    THEN "VOICE"
  ELSE IF "SPEAKER" \in outs     THEN "SPEAKER"
  ELSE IF Touches(outs, Wired)   THEN "HEADSET"
  ELSE "VOICE"
==============================================================================
