----------------------------- MODULE AudioDevice -----------------------------
(***************************************************************************)
(* Opening and closing the audio HAL's device: adev_open, adev_close       *)
(* (audio/audio_hw.c) and ril_open (audio/ril_interface.c).  What streams  *)
(* and calls do with an open device is AudioHal; here the device is what   *)
(* it has read from properties, and the mixers of its sound cards.         *)
(***************************************************************************)
EXTENDS AudioRoutes

RetryNumber == 10
VolumeStepsDefault == 5

(* A device; paths is the configuration of its mixers. *)
NoDevice == [open |-> FALSE, mixers |-> {}, paths |-> "none",
             audience |-> FALSE, forced |-> FALSE, wbAmr |-> FALSE, steps |-> 0]

MixerPaths(audience) == IF audience THEN "mixer_paths_audience" ELSE "mixer_paths"

Cards == {PcmDevices[i].card : i \in DOMAIN PcmDevices}

(* mixer_init: the cards that have a mixer; none when it fails.  A card is  *)
(* asked again RETRY_NUMBER times; refusals tells how often it refuses,     *)
(* routes whether audio_route_init and the allocations succeed.             *)
MixerInit(refusals, routes) ==
  IF routes /\ \A c \in Cards : refusals[c] <= RetryNumber THEN Cards ELSE {}

(* ril_open: the steps of the call volume, from a property; 0: no number *)
RilOpen(property) == IF property = 0 THEN VolumeStepsDefault ELSE property

(* Mutant: the band is forced on every phone. *)
ForcedVoiceConfigFirst(audience, config) == config # ""
(* The band of calls that a property forces, "" when it is not set; it is   *)
(* always narrow on a phone with a voice processor.                         *)
ForcedVoiceConfig(audience, config) == ~audience /\ config # ""
ForcedWideband(audience, config) ==
  ForcedVoiceConfig(audience, config) /\ config = "wide"

(* adev_open.  mixer_init runs before the device knows of the processor. *)
AdevOpen(audience, config, property, refusals, routes, ril) ==
  LET unknown == NoDevice.audience
      mixers  == MixerInit(refusals, routes)
  IN  IF mixers = {} \/ ~ril THEN NoDevice
      ELSE [open |-> TRUE, mixers |-> mixers, paths |-> MixerPaths(unknown),
            audience |-> audience,
            forced |-> ForcedVoiceConfig(audience, config),
            wbAmr |-> ForcedWideband(audience, config),
            steps |-> RilOpen(property)]

(* adev_close *)
AdevClose(device) == NoDevice
==============================================================================
