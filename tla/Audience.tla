------------------------------- MODULE Audience -------------------------------
(***************************************************************************)
(* The Audience earSmart voice processor (audio/audience.c), which cleans  *)
(* the sound of a call on the devices that have one: a chip behind three   *)
(* sysfs nodes.  The state of the chip is what was last written to them.   *)
(***************************************************************************)
EXTENDS AudioRoutes

(* audience-routes.h: the values of route_value.  A call route is named by  *)
(* its microphones - headset, far talk, close talk, Bluetooth - and is      *)
(* narrow or wide.                                                          *)
NarrowRoute == [HS |-> 0, FT |-> 1, CT |-> 2, BT |-> 10]
WideRoute   == [HS |-> 21, FT |-> 22, CT |-> 23, BT |-> 20]
AudienceSleep == 40

Microphones == DOMAIN NarrowRoute
CallRoute(mics, wide) == IF wide THEN WideRoute[mics] ELSE NarrowRoute[mics]
CallRoutes(mics) == {NarrowRoute[mics], WideRoute[mics]}

(* `configured': the extra volume and the voice equaliser were written.     *)
Chip == [route : 0..AudienceSleep, configured : BOOLEAN]
ChipAtBoot == [route |-> AudienceSleep, configured |-> FALSE]

(* es_device_to_route: an unknown device is taken for the earpiece, and a   *)
(* Bluetooth route is wide by the headset's band, not by the call's.        *)
RouteMicrophones(devices) ==
  IF "EARPIECE" \in devices         THEN "CT"
  ELSE IF "SPEAKER" \in devices     THEN "FT"
  ELSE IF Touches(devices, Wired)   THEN "HS"
  ELSE IF Touches(devices, AllSco)  THEN "BT"
  ELSE "CT"

EsDeviceToRoute(devices, wbAmr, btWb) ==
  LET mics == RouteMicrophones(devices)
  IN  CallRoute(mics, IF mics = "BT" THEN btWb ELSE wbAmr)

(* es_start_voice_session, es_stop_voice_session: the nodes are there on a  *)
(* device with the chip, so write_int of a value leaves that value in them. *)
EsStartVoiceSession(route) == [route |-> route, configured |-> TRUE]
EsStopVoiceSession(chip) == [chip EXCEPT !.route = AudienceSleep]
==============================================================================
