------------------------------ MODULE AudioHalMC ------------------------------
(***************************************************************************)
(* Instances of AudioHal for TLC.  Each run enlarges one dimension of the  *)
(* environment - routes, modes, sources, failures - and keeps the others   *)
(* at the smallest values that still let the properties fail.              *)
(***************************************************************************)
EXTENDS AudioHal

(* Routes: built-in transducers and a Bluetooth headset. *)
SpeakerSco == {{"SPEAKER"}, {"SCO_HEADSET"}}

BuiltinMic == {"BUILTIN_MIC"}
BuiltinAndCallMic == {"BUILTIN_MIC", "VOICE_CALL"}
PlainSource == {"MIC"}
VoipSource == {"VOICE_COMMUNICATION"}

(* A cellular call rings or is dialled and ends in normal mode. *)
CellularModes ==
  {<<"NORMAL", "RINGTONE">>, <<"RINGTONE", "IN_CALL">>, <<"RINGTONE", "NORMAL">>,
   <<"NORMAL", "IN_CALL">>, <<"IN_CALL", "NORMAL">>}
(* The least that starts and ends a call. *)
CallModes == {<<"NORMAL", "IN_CALL">>, <<"IN_CALL", "NORMAL">>}
(* Any mode may follow any other, as when a VoIP call joins a cellular one. *)
AllModes == {m \in Modes \X Modes : m[1] # m[2]}
VoipModes == {m \in AllModes : "RINGTONE" \notin {m[1], m[2]}}

OneVolume == {0}
TwoVolumes == {0, 1}
NoBtParams == {}
WidebandSwitch == {<<FALSE, FALSE>>, <<FALSE, TRUE>>}
NoReports == {}
WideReport == {1}
OneGarbage == {[source |-> "MIC", inDev |-> "NONE", outs |-> {"WIRED_HEADPHONE"}]}
NoFaults == {}
StartFaults == {"pcm", "register"}
ModemAndResampler == {"rild", "resampler"}

(* No guard reads what the modem was told, or the mute state and the chip   *)
(* that only it and the voice processor are told of: where no property is   *)
(* about them, states that differ in nothing else are explored once.        *)
Deciding == [hal EXCEPT !.modem = "told", !.micMute = FALSE, !.ear = "told"]
==============================================================================
