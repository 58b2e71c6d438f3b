------------------------------- MODULE AudioHal -------------------------------
(***************************************************************************)
(* The audio HAL of audio/audio_hw.c: streams, the list of active          *)
(* usecases, the reference counts of the mixer paths, the voice call and   *)
(* the Bluetooth SCO session.  Every operation that changes this state     *)
(* runs under adev->lock, so an action is one whole critical section; the  *)
(* few unlocked writes (Bluetooth parameters, the modem's wideband         *)
(* callback) are single assignments and actions of their own.              *)
(*                                                                         *)
(* struct audio_device, the streams and what the modem was last told are   *)
(* one record, and a C function is an operator from that record to its     *)
(* value when the function returns: composing operators is calling         *)
(* functions one after the other.                                          *)
(*                                                                         *)
(* Init is the state after adev_open and the framework's opening of the    *)
(* primary output.  The framework has one input stream at a time and never *)
(* closes the primary output (environment assumptions, see README).        *)
(***************************************************************************)
EXTENDS Audience

CONSTANTS
  OutRoutes,    \* sets of output devices the policy routes a stream to
  InRoutes,     \* input devices the policy routes the capture stream to
  UsedSources,  \* audio sources the capture stream is opened with
  ModeChanges,  \* pairs <<old, new>> of modes the framework sets
  Volumes,      \* voice volumes
  BtParams,     \* pairs <<nrec, wideband>> the Bluetooth stack sets
  WbReports,    \* codec reports of the modem: 0 narrow, 1 wide, 2 wide with NS
  Garbage,      \* what reading a stream through a pointer of the wrong type gives
  Faults,       \* failures of the environment: "pcm", "resampler", "register",
                \* "rild"
  Audience,     \* adev->audience_enabled
  ForcedVoice,  \* audio_hal.force_voice_config: "no", "narrow" or "wide"
  MaxCallEntries, \* bound: entries of the voice call in usecase_list
  MaxLostUsers  \* bound: users of a path before a linked capture is started again

GarbageType == [source : Sources \ {"VOICE_COMMUNICATION"},
                inDev  : InDevices \cup {"NONE"},
                outs   : SUBSET OutDevices]

ASSUME RoutesAssumption ==
  /\ OutRoutes \subseteq SUBSET OutDevices
  /\ {} \notin OutRoutes
  /\ {"SPEAKER"} \in OutRoutes
  /\ InRoutes \subseteq InDevices
  /\ UsedSources \subseteq Sources
  /\ Garbage \subseteq GarbageType
  /\ Garbage # {}
ASSUME EnvironmentAssumption ==
  /\ ModeChanges \subseteq Modes \X Modes
  /\ Volumes \subseteq Nat
  /\ BtParams \subseteq BOOLEAN \X BOOLEAN
  /\ WbReports \subseteq 0..2
  /\ 0 \in Volumes
  /\ Faults \subseteq {"pcm", "resampler", "register", "rild"}
  /\ Audience \in BOOLEAN
  /\ ForcedVoice \in {"no", "narrow", "wide"}
  /\ MaxCallEntries \in Nat \ {0}
  /\ MaxLostUsers \in Nat

VARIABLE hal

Outs == {"primary", "fast"}
Playbacks == {"DEEP_BUFFER", "PLAYBACK"}
Usecases == Playbacks \cup {"CAPTURE", "VOICE_CALL"}
UsecaseOf(s) == IF s = "primary" THEN "DEEP_BUFFER" ELSE "PLAYBACK"
Sides == {"out", "in"}

StreamStates == {"CLOSED", "STANDBY", "ACTIVE"}
OutStream == [state : StreamStates, devices : OutRoutes]
InStream  == [state : StreamStates, source : Sources, device : InDevices,
              pcm : BOOLEAN, stale : BOOLEAN]
Modem == [path   : AudioPaths \cup {"NONE"},
          twoMic : BOOLEAN,
          tx     : {"MUTED", "UNMUTED"},
          sound  : SoundTypes,
          volume : Volumes,
          wbAmr  : 0..2]

(* `listed' and `tx' are usecase_list: the playback usecases, whose order   *)
(* no code observes, and the others in list order.  `snd' is the            *)
(* out_snd_device and in_snd_device of the first entry of each usecase,     *)
(* NONE when it is not listed.  Later entries of the voice call always hold *)
(* NONE.  `pcmVoice' and `pcmSco' say that both PCMs of the pair are open.  *)
(* Of `in', `pcm' says that the PCM of the capture is open, and `stale'     *)
(* that its entry in usecase_list points to a stream that has been freed.   *)
HalState ==
  [up : BOOLEAN, mode : Modes, inCall : BOOLEAN, inCallSco : BOOLEAN,
   inCommSco : BOOLEAN, pcmVoice : BOOLEAN, pcmSco : BOOLEAN,
   micMute : BOOLEAN, volume : Volumes, nrec : BOOLEAN, btWb : BOOLEAN,
   wbAmr : BOOLEAN,
   listed : SUBSET Playbacks, tx : Seq({"CAPTURE", "VOICE_CALL"}),
   snd : [Usecases \X Sides -> SndDevice], ref : [SndDevice -> Nat],
   out : [Outs -> OutStream], in : InStream,
   rilClient : BOOLEAN, rilUp : BOOLEAN, wbCallback : BOOLEAN,
   modem : Modem, ear : Chip]

------------------------------------------------------------------------------
(* No input stream *)
InClosed == [state |-> "CLOSED", source |-> "DEFAULT", device |-> "BUILTIN_MIC",
             pcm |-> FALSE, stale |-> FALSE]

(* adev_open: the fields of a fresh audio_device (volume 0 stands for its   *)
(* 1.0f); the modem and the voice processor keep their state.               *)
Fresh(modem, rilUp, ear) ==
  [up |-> TRUE, mode |-> "NORMAL", inCall |-> FALSE, inCallSco |-> FALSE,
   inCommSco |-> FALSE, pcmVoice |-> FALSE, pcmSco |-> FALSE,
   micMute |-> FALSE, volume |-> 0, nrec |-> FALSE, btWb |-> FALSE,
   wbAmr |-> ~Audience /\ ForcedVoice = "wide",
   listed |-> {}, tx |-> <<>>,
   snd |-> [s \in Usecases \X Sides |-> NONE], ref |-> [d \in SndDevice |-> 0],
   out |-> [s \in Outs |->
              [state |-> IF s = "primary" THEN "STANDBY" ELSE "CLOSED",
               devices |-> {"SPEAKER"}]],
   in |-> InClosed,
   rilClient |-> TRUE, rilUp |-> rilUp, wbCallback |-> FALSE,
   modem |-> modem, ear |-> ear]

Init == \E v \in Volumes :
          hal = Fresh([path |-> "NONE", twoMic |-> FALSE, tx |-> "UNMUTED",
                       sound |-> "VOICE", volume |-> v, wbAmr |-> 0],
                      TRUE, ChipAtBoot)

(* Undefined behaviour ends the audio server. *)
Crash(h) == [h EXCEPT !.up = FALSE]

------------------------------------------------------------------------------
(* usecase_list *)
Listed(h, u) == u \in h.listed \/ \E i \in DOMAIN h.tx : h.tx[i] = u
Entries(h, u) == Cardinality({i \in DOMAIN h.tx : h.tx[i] = u})
CallEntries(h) == Entries(h, "VOICE_CALL")

(* list_remove of the first entry of usecase u. *)
Unlink(list, u) ==
  LET i == CHOOSE i \in DOMAIN list :
             list[i] = u /\ \A j \in DOMAIN list : j < i => list[j] # u
  IN  SubSeq(list, 1, i - 1) \o SubSeq(list, i + 1, Len(list))

(* A second entry of a call or a capture is linked through the same         *)
(* uc_list_node as the first: the mixer_list of the first then runs into    *)
(* foreign memory.                                                          *)
MixerListBroken(h, u) == Entries(h, u) > 1

(* Mutant: disable_snd_device without the test of a count already at 0. *)
DisableSndDeviceUnchecked(h, u, d) == [h EXCEPT !.ref[d] = @ - 1]

(* enable_snd_device, disable_snd_device: count the users of a mixer path   *)
(* and touch the mixer only for the first and the last.                     *)
EnableSndDevice(h, u, d) ==
  LET n == [h EXCEPT !.ref[d] = @ + 1]
  IN  IF n.ref[d] = 1 /\ MixerListBroken(h, u) THEN Crash(n) ELSE n

DisableSndDevice(h, u, d) ==
  IF h.ref[d] <= 0 THEN h
  ELSE LET n == [h EXCEPT !.ref[d] = @ - 1]
       IN  IF n.ref[d] = 0 /\ MixerListBroken(h, u) THEN Crash(n) ELSE n

------------------------------------------------------------------------------
(* The modem, through the ril client: a command that cannot be delivered is *)
(* dropped and the caller goes on.                                          *)
Reaches(h) == h.up /\ h.rilClient /\ h.rilUp
SetCallAudioPath(h, p) == IF Reaches(h) THEN [h EXCEPT !.modem.path = p] ELSE h
RilSetMute(h, c) == IF Reaches(h) THEN [h EXCEPT !.modem.tx = c] ELSE h
SetTwoMic(h, on) == IF Reaches(h) THEN [h EXCEPT !.modem.twoMic = on] ELSE h
RilSetVolume(h, t, v) ==
  IF Reaches(h) THEN [h EXCEPT !.modem.sound = t, !.modem.volume = v] ELSE h

(* set_voice_volume: the volume is that of the primary output's devices. *)
VoiceVolume(h) ==
  IF h.mode = "IN_CALL"
  THEN RilSetVolume(h, SoundType(h.out["primary"].devices), h.volume) ELSE h

(* do_routing_for_call: both microphones are used away from the head. *)
SetCallPath(h, outs) ==
  SetCallAudioPath(SetTwoMic(h, Touches(outs, {"EARPIECE", "SPEAKER"})),
                   CallAudioPath(outs, h.nrec, h.btWb))

(* Mutant: routing a call does not send the cached volume. *)
RoutingForCallOnly(h, outs) == SetCallPath(h, outs)

RoutingForCall(h, outs) == VoiceVolume(SetCallPath(h, outs))

------------------------------------------------------------------------------
(* select_devices *)

(* The stream of the first capture or call usecase, read as a stream_in: a  *)
(* call's stream is the primary output, and its fields are garbage, as are  *)
(* those of a stream that was freed.                                        *)
ActiveInput(h, g) ==
  IF h.tx[1] = "CAPTURE" /\ ~h.in.stale
  THEN [source |-> h.in.source, inDev |-> h.in.device]
  ELSE [source |-> g.source, inDev |-> g.inDev]

OutputDevice(h, outs) == GetOutputSndDevice(h.mode, h.wbAmr, h.btWb, outs)
InputDevice(h, g, outs) ==
  GetInputSndDevice(h.mode, h.wbAmr, h.btWb, ActiveInput(h, g).source,
                    ActiveInput(h, g).inDev, outs)

(* One iteration of check_and_route_usecases: move usecase w, which shares  *)
(* the backend, to device d.                                                *)
Reroute(h, u, w, side, d) ==
  IF w # u /\ Listed(h, w) /\ h.snd[<<w, side>>] # d
  THEN [EnableSndDevice(DisableSndDevice(h, w, h.snd[<<w, side>>]), w, d)
          EXCEPT !.snd[<<w, side>>] = d]
  ELSE h

(* Mutant: the deep buffer is not on the shared backend. *)
CheckAndRouteFastOnly(h, u, side, d) ==
  Reroute(h, u, IF side = "out" THEN "PLAYBACK" ELSE "CAPTURE", side, d)

CheckAndRoute(h, u, side, d) ==
  IF side = "out"
  THEN Reroute(Reroute(h, u, "DEEP_BUFFER", side, d), u, "PLAYBACK", side, d)
  ELSE Reroute(h, u, "CAPTURE", side, d)

DisableCurrent(h, u, side) ==
  IF h.snd[<<u, side>>] # NONE THEN DisableSndDevice(h, u, h.snd[<<u, side>>]) ELSE h
EnableNew(h, u, side, d) ==
  IF d # NONE THEN EnableSndDevice(CheckAndRoute(h, u, side, d), u, d) ELSE h

(* Mutant: the microphone is unmuted after every switch. *)
UnmuteCallAlways(h) == RilSetMute(h, "UNMUTED")

UnmuteCall(h) == IF h.micMute THEN h ELSE RilSetMute(h, "UNMUTED")

(* The part of select_devices after the devices are chosen.  `outs' is      *)
(* active_out->devices, which the modem is routed by in a call.             *)
SwitchDevices(h, u, out, in, outs) ==
  LET call   == u = "VOICE_CALL" \/ h.inCall
      routed == IF call THEN RoutingForCall(h, outs) ELSE h
      off    == DisableCurrent(DisableCurrent(routed, u, "out"), u, "in")
      on     == EnableNew(EnableNew(off, u, "out", out), u, "in", in)
      done   == IF call THEN UnmuteCall(on) ELSE on
  IN  IF h.snd[<<u, "out">>] = out /\ h.snd[<<u, "in">>] = in THEN h
      ELSE [done EXCEPT !.snd[<<u, "out">>] = out, !.snd[<<u, "in">>] = in]

(* Mutant: a usecase started in a call derives the call's devices from the  *)
(* settings of the moment.                                                  *)
CallDeviceDerived(h, side) ==
  IF h.inCall /\ h.mode = "IN_CALL" /\ side = "out"
  THEN OutputDevice(h, h.out["primary"].devices) ELSE NONE

(* The devices of the running call, which other usecases adopt. *)
CallDevice(h, side) ==
  IF h.inCall /\ h.mode = "IN_CALL" /\ Listed(h, "VOICE_CALL")
  THEN h.snd[<<"VOICE_CALL", side>>] ELSE NONE

SelectVoiceCall(h, g) ==
  LET outs == h.out["primary"].devices
  IN  SwitchDevices(h, "VOICE_CALL", OutputDevice(h, outs),
                    InputDevice(h, g, outs), outs)

SelectCapture(h, g) ==
  LET voip == /\ ActiveInput(h, g).source = "VOICE_COMMUNICATION"
              /\ h.out["primary"].state = "ACTIVE"
      in   == IF CallDevice(h, "in") # NONE THEN CallDevice(h, "in")
              ELSE InputDevice(h, g, IF voip THEN h.out["primary"].devices ELSE {})
  IN  SwitchDevices(h, "CAPTURE", NONE, in, g.outs)

SelectPlayback(h, s, g) ==
  LET outs == h.out[s].devices
      own  == CallDevice(h, "out") = NONE
      voip == /\ own /\ s = "primary" /\ h.tx # <<>>
              /\ ActiveInput(h, g).source = "VOICE_COMMUNICATION"
      h1   == IF voip THEN SelectCapture(h, g) ELSE h
  IN  SwitchDevices(h1, UsecaseOf(s),
                    IF own THEN OutputDevice(h, outs) ELSE CallDevice(h, "out"),
                    NONE, outs)

------------------------------------------------------------------------------
(* The Bluetooth SCO session *)
StopSco(h) == [h EXCEPT !.pcmSco = FALSE, !.inCallSco = FALSE]

(* Mutant: the error path keeps in_call_sco. *)
StartScoKeepsFlag(h, opened) ==
  IF h.inCallSco \/ h.pcmSco THEN h
  ELSE [h EXCEPT !.pcmSco = opened, !.inCallSco = TRUE]

StartSco(h, opened) ==
  IF h.inCallSco \/ h.pcmSco \/ ~opened THEN h
  ELSE [h EXCEPT !.pcmSco = TRUE, !.inCallSco = TRUE]

StopScoOfCall(h) == IF h.inCallSco THEN StopSco(h) ELSE h

(* The voice processor of a call, on the devices that have one. *)
StartEar(h) ==
  IF Audience
  THEN [h EXCEPT !.ear = EsStartVoiceSession(
          EsDeviceToRoute(h.out["primary"].devices, h.wbAmr, h.btWb))]
  ELSE h

(* Mutant: hanging up leaves the voice processor awake. *)
StopEarNever(h) == h

StopEar(h) == IF Audience THEN [h EXCEPT !.ear = EsStopVoiceSession(@)] ELSE h

(* start_voice_call, stop_voice_call.  `r' says which PCMs of the call can  *)
(* be opened.  When the TX PCM cannot, the error path closes the RX PCM     *)
(* that was never opened; when the RX PCM cannot, it leaves the usecase in  *)
(* the list.                                                                *)
StartVoiceCall(h, g, r) ==
  LET entered == SelectVoiceCall([h EXCEPT !.tx = Append(@, "VOICE_CALL")], g)
      started == [entered EXCEPT !.inCall = TRUE]
      sco     == IF Touches(h.out["primary"].devices, AllSco)
                 THEN StartSco(started, r.sco) ELSE started
  IN  IF started.pcmVoice   THEN started
      ELSE IF r.tx /\ r.rx  THEN StartEar([sco EXCEPT !.pcmVoice = TRUE])
      ELSE IF ~r.tx         THEN Crash(sco)
      ELSE [StopScoOfCall(sco) EXCEPT !.inCall = FALSE]

StopVoiceCall(h) ==
  LET closed == StopEar([StopScoOfCall(h) EXCEPT !.pcmVoice = FALSE])
      off    == DisableSndDevice(
                  DisableSndDevice(closed, "VOICE_CALL", h.snd[<<"VOICE_CALL", "out">>]),
                  "VOICE_CALL", h.snd[<<"VOICE_CALL", "in">>])
  IN  IF ~Listed(h, "VOICE_CALL") THEN closed
      ELSE [off EXCEPT !.tx = Unlink(@, "VOICE_CALL"),
                       !.snd[<<"VOICE_CALL", "out">>] = NONE,
                       !.snd[<<"VOICE_CALL", "in">>] = NONE,
                       !.inCall = FALSE]

(* Mutant: disable_output_path_l forgets disable_snd_device. *)
StopOutputLeaks(h, s) ==
  [h EXCEPT !.listed = @ \ {UsecaseOf(s)}, !.snd[<<UsecaseOf(s), "out">>] = NONE]

------------------------------------------------------------------------------
(* out_open_pcm_devices: every output device is served by the first profile,*)
(* but a deep-buffer playback has a PCM of its own.                         *)
OutPcm(s) == IF UsecaseOf(s) = "DEEP_BUFFER" THEN SoundIds.deep
             ELSE LET i == CHOOSE i \in GetPcmDevice("PLAYBACK", {"SPEAKER"}) : TRUE
                  IN  PcmDevices[i].id

(* The PCMs that play, by who opened them. *)
OpenPcms(h) ==
  {<<s, OutPcm(s)>> : s \in {t \in Outs : h.out[t].state = "ACTIVE"}}
  \cup (IF h.pcmVoice THEN {<<"call", SoundIds.voice>>} ELSE {})
  \cup (IF h.pcmSco   THEN {<<"sco", SoundIds.sco>>} ELSE {})

(* Streams: enable_output_path_l, disable_output_path_l, start_input_stream,*)
(* stop_input_stream and the two do_*_standby_l.                            *)
StopOutput(h, s) ==
  LET u == UsecaseOf(s)
  IN  IF ~Listed(h, u) THEN h
      ELSE [DisableSndDevice(h, u, h.snd[<<u, "out">>])
              EXCEPT !.listed = @ \ {u}, !.snd[<<u, "out">>] = NONE]

(* Mutant: a PCM that does not open leaves the usecase in the list. *)
StartOutputUnchecked(h, s, g, opened) ==
  LET on == SelectPlayback([h EXCEPT !.listed = @ \cup {UsecaseOf(s)}], s, g)
  IN  IF opened THEN [on EXCEPT !.out[s].state = "ACTIVE"] ELSE on

StartOutput(h, s, g, opened) ==
  LET on == SelectPlayback([h EXCEPT !.listed = @ \cup {UsecaseOf(s)}], s, g)
  IN  IF opened THEN [on EXCEPT !.out[s].state = "ACTIVE"] ELSE StopOutput(on, s)

StandbyOutput(h, s) == StopOutput([h EXCEPT !.out[s].state = "STANDBY"], s)

(* Mutant: the capture is not taken out of the list. *)
StopInputLeaks(h) ==
  IF ~Listed(h, "CAPTURE") THEN h
  ELSE [DisableSndDevice(h, "CAPTURE", h.snd[<<"CAPTURE", "in">>])
          EXCEPT !.snd[<<"CAPTURE", "in">>] = NONE]

StopInput(h) ==
  IF ~Listed(h, "CAPTURE") THEN h
  ELSE [DisableSndDevice(h, "CAPTURE", h.snd[<<"CAPTURE", "in">>])
          EXCEPT !.tx = Unlink(@, "CAPTURE"), !.snd[<<"CAPTURE", "in">>] = NONE]

(* check_and_route_usecases, when the capture has a second entry, which     *)
(* holds no path: it finds that one elsewhere and moves both, by their id.  *)
MoveBoth(h, from, to) ==
  EnableSndDevice(EnableSndDevice(DisableSndDevice(h, "CAPTURE", from),
                                  "CAPTURE", to), "CAPTURE", to)

(* start_input_stream of a capture that is in the list already, its PCM     *)
(* open: the new entry comes second, everything but the list looks at the   *)
(* first, the PCM is busy, and the error path takes out the first.          *)
StartInputAgain(h, g) ==
  LET from  == h.snd[<<"CAPTURE", "in">>]
      on    == SelectCapture([h EXCEPT !.tx = Append(@, "CAPTURE")], g)
      to    == on.snd[<<"CAPTURE", "in">>]
      moved == IF to \in {from, NONE} THEN on ELSE MoveBoth(on, from, to)
  IN  [StopInput(moved) EXCEPT
         !.snd[<<"CAPTURE", "in">>] = IF to = from THEN NONE ELSE to,
         !.in.stale = FALSE]

(* The result of create_resampler is kept and looked at only by the caller: *)
(* without the resampler the PCM is opened, the usecase stays in the list,  *)
(* and in_read, told of an error, leaves the stream in standby.             *)
StartInput(h, g, opened, created) ==
  LET on == SelectCapture([h EXCEPT !.tx = Append(@, "CAPTURE")], g)
  IN  IF ~CanCapture(h.in.device) THEN h
      ELSE IF h.in.pcm THEN StartInputAgain(h, g)
      ELSE IF ~opened  THEN StopInput(on)
      ELSE [on EXCEPT !.in.pcm = TRUE,
                      !.in.state = IF created THEN "ACTIVE" ELSE @]

StandbyInput(h) ==
  IF h.in.state # "ACTIVE" THEN h
  ELSE [StopInput(h) EXCEPT !.in.state = "STANDBY", !.in.pcm = FALSE]

------------------------------------------------------------------------------
(* What out_set_parameters does after the stream has its new devices: the   *)
(* SCO session, then the call.                                              *)
RouteSco(h, s, scoOpened) ==
  LET sco == Touches(h.out[s].devices, AllSco)
  IN  IF h.mode = "IN_COMMUNICATION" /\ sco /\ ~h.inCallSco /\ ~h.inCommSco
      THEN StartSco([h EXCEPT !.inCommSco = TRUE], scoOpened)
      ELSE IF ~sco /\ h.inCallSco THEN StopSco([h EXCEPT !.inCommSco = FALSE])
      ELSE h

(* Mutant: a new route restarts the call without stopping it. *)
RouteCallNoStop(h, s, changed, g, r) ==
  IF h.mode # "IN_CALL" \/ s # "primary" THEN h
  ELSE IF ~h.inCall \/ changed THEN StartVoiceCall(h, g, r) ELSE h

RouteCall(h, s, changed, g, r) ==
  IF h.mode # "IN_CALL" \/ s # "primary" THEN h
  ELSE IF ~h.inCall THEN StartVoiceCall(h, g, r)
  ELSE IF changed THEN StartVoiceCall(StopVoiceCall(h), g, r)
  ELSE h

SetOutputRoute(h, s, d, g, r) ==
  LET changed == h.out[s].devices # d
      moved   == [h EXCEPT !.out[s].devices = d]
      routed  == IF h.out[s].state # "ACTIVE" THEN moved
                 ELSE IF changed THEN StandbyOutput(moved, s)
                 ELSE SelectPlayback(moved, s, g)
  IN  RouteCall(RouteSco(routed, s, r.sco), s, changed, g, r)

(* in_set_parameters: a source of 0, the default source, means no source.   *)
SetInputRoute(h, source, device, g) ==
  LET h1 == IF source = "DEFAULT" THEN h ELSE [h EXCEPT !.in.source = source]
      h2 == [h1 EXCEPT !.in.device = device]
  IN  IF h.in.device = device THEN h1
      ELSE IF h.in.state # "ACTIVE" THEN h2
      ELSE IF CanCapture(device) THEN SelectCapture(h2, g)
      ELSE StandbyInput(h2)

------------------------------------------------------------------------------
(* The operations.  A handler that crashes leaves only what the modem was   *)
(* told before.                                                             *)
Dead(h) == [Fresh(h.modem, h.rilUp, h.ear) EXCEPT !.up = FALSE]
Return(h) == hal' = IF h.up THEN h ELSE Dead(h)

(* What may be read in place of a stream_in: a freed one may still have its *)
(* fields, or those of the stream opened since.                             *)
Remains == IF hal.in.stale /\ hal.tx # <<>> /\ hal.tx[1] = "CAPTURE"
           THEN {[g EXCEPT !.source = hal.in.source, !.inDev = hal.in.device] :
                   g \in Garbage}
           ELSE {}
Strays == IF Listed(hal, "VOICE_CALL") \/ hal.in.stale THEN Garbage \cup Remains
          ELSE {CHOOSE g \in Garbage : TRUE}
Created == IF "resampler" \in Faults THEN BOOLEAN ELSE {TRUE}
Opened == IF "pcm" \in Faults THEN BOOLEAN ELSE {TRUE}
CallResults == [sco : Opened, tx : Opened, rx : Opened]
IsOpen(s) == hal.up /\ hal.out[s].state # "CLOSED"

AdevOpenOutputStream(s, d) ==
  /\ hal.up /\ hal.out[s].state = "CLOSED"
  /\ ~Listed(hal, UsecaseOf(s))
  /\ Return([hal EXCEPT !.out[s] = [state |-> "STANDBY", devices |-> d]])

AdevCloseOutputStream(s) ==
  /\ IsOpen(s) /\ s # "primary"
  /\ LET h == IF hal.out[s].state = "ACTIVE" THEN StandbyOutput(hal, s) ELSE hal
     IN  Return([h EXCEPT !.out[s] = [state |-> "CLOSED", devices |-> {"SPEAKER"}]])

(* out_write of a stream in standby; otherwise it only writes samples. *)
OutWrite(s) ==
  /\ IsOpen(s) /\ hal.out[s].state = "STANDBY"
  /\ \E g \in Strays, opened \in Opened :
       Return(StartOutput(hal, s, g, opened))

OutStandby(s) ==
  /\ IsOpen(s) /\ hal.out[s].state = "ACTIVE"
  /\ Return(StandbyOutput(hal, s))

OutSetParameters(s, d) ==
  /\ IsOpen(s)
  /\ ~(s = "primary" /\ hal.mode = "IN_CALL" /\ ~hal.inCall
         /\ CallEntries(hal) >= MaxCallEntries)
  /\ \E g \in Strays, r \in CallResults : Return(SetOutputRoute(hal, s, d, g, r))

AdevOpenInputStream(source, device) ==
  /\ hal.up /\ hal.in.state = "CLOSED"
  /\ CanCapture(device)
  /\ Return([hal EXCEPT !.in.state = "STANDBY", !.in.source = source,
                         !.in.device = device])

(* Freed: an entry that is still in the list goes on pointing to it. *)
AdevCloseInputStream ==
  /\ hal.up /\ hal.in.state # "CLOSED"
  /\ LET h == StandbyInput(hal)
     IN  Return([h EXCEPT
                   !.in = IF h.in.pcm THEN [h.in EXCEPT !.state = "CLOSED", !.stale = TRUE]
                          ELSE InClosed])

(* in_read of a stream in standby; otherwise it only reads samples. *)
InRead ==
  /\ hal.up /\ hal.in.state = "STANDBY"
  /\ hal.in.pcm => \A d \in SndDevice : hal.ref[d] <= MaxLostUsers
  /\ \E g \in Strays, opened \in Opened, created \in Created :
       Return(StartInput(hal, g, opened, created))

InStandby ==
  /\ hal.up /\ hal.in.state = "ACTIVE"
  /\ Return(StandbyInput(hal))

InSetParameters(source, device) ==
  /\ hal.up /\ hal.in.state # "CLOSED"
  /\ \E g \in Strays : Return(SetInputRoute(hal, source, device, g))

(* Registering the modem's callbacks on the way into a call: when it fails  *)
(* the client is closed, or stays as it was when closing it fails too.      *)
RegisterCallbacks(h) ==
  {[h EXCEPT !.wbCallback = @ \/ h.rilClient]} \cup
  (IF "register" \in Faults
   THEN {[h EXCEPT !.rilClient = FALSE, !.wbCallback = FALSE], h} ELSE {})

AdevSetMode(mode) ==
  /\ hal.up /\ <<hal.mode, mode>> \in ModeChanges
  /\ \E h1 \in IF mode = "IN_CALL" THEN RegisterCallbacks(hal) ELSE {hal} :
       LET h2 == [h1 EXCEPT !.mode = mode]
       IN  Return(IF mode = "NORMAL" /\ h2.inCall THEN StopVoiceCall(h2) ELSE h2)

AdevSetMicMute(state) ==
  /\ hal.up
  /\ LET h == [hal EXCEPT !.micMute = state]
     IN  Return(IF h.mode = "IN_CALL"
                THEN RilSetMute(h, IF state THEN "MUTED" ELSE "UNMUTED") ELSE h)

AdevGetMicMute == hal.up /\ UNCHANGED hal

AdevSetVoiceVolume(volume) ==
  hal.up /\ Return(VoiceVolume([hal EXCEPT !.volume = volume]))

AdevSetParameters(nrec, wb) ==
  hal.up /\ Return([hal EXCEPT !.nrec = nrec, !.btWb = wb])

(* Both callbacks are in the globals of ril_interface.c. *)
Registered(h) == h.up /\ h.wbCallback

(* audio_set_wb_amr_callback, called when the modem reports a codec. *)
WbAmrOf(h, t) ==
  IF t # 0 /\ ~Audience /\ ForcedVoice = "no"
  THEN IF t # 0 /\ ~h.wbAmr THEN TRUE
       ELSE IF t = 0 /\ h.wbAmr THEN FALSE ELSE h.wbAmr
  ELSE h.wbAmr
WbAmrCallback(t) ==
  /\ Registered(hal)
  /\ Return([hal EXCEPT !.modem.wbAmr = t, !.wbAmr = WbAmrOf(hal, t)])

(* audio_set_pcm_clock_callback, called when the modem starts its clock:    *)
(* that this starts the call is commented out.                              *)
SetPcmClock(h) == h
PcmClockCallback == Registered(hal) /\ Return(SetPcmClock(hal))

(* The environment: rild goes away and comes back; init restarts a dead     *)
(* audio server, which finds the modem as the last one left it.             *)
RilToggles ==
  /\ "rild" \in Faults
  /\ hal' = [hal EXCEPT !.rilUp = ~@]
Restart ==
  /\ ~hal.up
  /\ hal' = Fresh(hal.modem, hal.rilUp, hal.ear)

Next ==
  \/ \E s \in Outs :
       \/ AdevCloseOutputStream(s)
       \/ OutWrite(s)
       \/ OutStandby(s)
       \/ \E d \in OutRoutes : AdevOpenOutputStream(s, d) \/ OutSetParameters(s, d)
  \/ \E source \in UsedSources, device \in InRoutes :
       AdevOpenInputStream(source, device) \/ InSetParameters(source, device)
  \/ AdevCloseInputStream
  \/ InRead
  \/ InStandby
  \/ \E mode \in Modes : AdevSetMode(mode)
  \/ \E state \in BOOLEAN : AdevSetMicMute(state)
  \/ AdevGetMicMute
  \/ \E volume \in Volumes : AdevSetVoiceVolume(volume)
  \/ \E p \in BtParams : AdevSetParameters(p[1], p[2])
  \/ \E t \in WbReports : WbAmrCallback(t)
  \/ PcmClockCallback
  \/ RilToggles
  \/ Restart

Spec == Init /\ [][Next]_hal

------------------------------------------------------------------------------
(* The state is well formed: every field of struct audio_device, the        *)
(* streams and the modem hold values of their C types.                      *)
TypeOK == hal \in HalState

(* snd_dev_ref_cnt[d] is the number of usecases routed to d, through every  *)
(* switch, nested select_devices, forced reroute, standby, failed start and *)
(* call restart: otherwise a mixer path stays powered or is cut under a     *)
(* usecase that still plays.  It is a property of the HAL whose resamplers  *)
(* are created: StartInputAgain loses count.                                *)
Users(snd, d) == {s \in Usecases \X Sides : snd[s] = d}
RefCountsMatch ==
  /\ hal.ref[NONE] = 0
  /\ \A d \in SndDevice \ {NONE} : hal.ref[d] = Cardinality(Users(hal.snd, d))

(* A playback is in the list exactly while its stream is out of standby,    *)
(* the capture exactly while its PCM is open, and what is not in the list   *)
(* holds no path: the error paths of start_*_stream undo what they linked,  *)
(* and each entry, PCM and path that is left has the others to be stopped   *)
(* by.  Only where create_resampler fails does the capture's outlast the    *)
(* standby of the stream, and its close.                                    *)
StreamsMatchUsecases ==
  /\ \A s \in Outs : hal.out[s].state = "ACTIVE" <=> Listed(hal, UsecaseOf(s))
  /\ hal.in.pcm <=> Listed(hal, "CAPTURE")
  /\ hal.in.state = "ACTIVE" => hal.in.pcm
  /\ hal.in.pcm /\ hal.in.state # "ACTIVE" => "resampler" \in Faults
  /\ \A s \in Usecases \X Sides : Listed(hal, s[1]) \/ hal.snd[s] = NONE

(* check_and_route_usecases: the playback usecases share one backend, so    *)
(* they are never on two sound devices, whatever devices their streams were *)
(* routed to.                                                               *)
PlaybacksShareDevice ==
  \A u, w \in hal.listed :
    hal.snd[<<u, "out">>] # hal.snd[<<w, "out">>] =>
      NONE \in {hal.snd[<<u, "out">>], hal.snd[<<w, "out">>]}

(* The flags that guard the next start or stop agree with the PCMs that are *)
(* open: no call without its PCMs, no PCM or SCO session left behind a      *)
(* cleared flag, and a call is always in the list for stop_voice_call; and  *)
(* no PCM, which the kernel opens once, is opened by two.                   *)
SessionsMatchPcms ==
  /\ hal.inCall <=> hal.pcmVoice
  /\ hal.inCallSco <=> hal.pcmSco
  /\ hal.inCall => Listed(hal, "VOICE_CALL")
  /\ \A p, q \in OpenPcms(hal) : p[2] = q[2] => p = q

(* No operation but adev_set_mic_mute(false) unmutes the microphone towards *)
(* the modem while the user has it muted, although every switch of devices  *)
(* in a call ends with unmute commands.                                     *)
NoUnmuteWhileMuted ==
  [][hal.modem.tx = "MUTED" /\ hal'.modem.tx = "UNMUTED" => ~hal'.micMute]_hal

(* With PCMs that open, hanging up takes the call out of the usecase list,  *)
(* exactly one entry exists during a call, and nothing ever follows the     *)
(* mixer list of an entry that is linked twice.                             *)
OneCallEntry ==
  /\ hal.up
  /\ CallEntries(hal) = (IF hal.inCall THEN 1 ELSE 0)
  /\ hal.mode = "NORMAL" => ~hal.inCall

(* select_devices: during a call every active usecase uses the sound        *)
(* devices of the call, so starting or rerouting another stream switches no *)
(* device under the call.                                                   *)
CallSharesDevices ==
  hal.inCall /\ hal.mode = "IN_CALL" =>
    /\ \A u \in hal.listed : hal.snd[<<u, "out">>] = hal.snd[<<"VOICE_CALL", "out">>]
    /\ hal.in.state = "ACTIVE" =>
         hal.snd[<<"CAPTURE", "in">>] = hal.snd[<<"VOICE_CALL", "in">>]

(* A volume set before, during or between calls is the one the modem uses   *)
(* in a call: set_voice_volume caches it and routing a call sends it again. *)
CallVolumeDelivered ==
  hal.inCall /\ hal.mode = "IN_CALL" => hal.modem.volume = hal.volume

(* What is outside the CPU is set up for the call there is: the modem's     *)
(* volume is that of the primary output's transducer, the voice processor   *)
(* is on a route of its microphones during a call, through every move of    *)
(* the call, and sleeps otherwise.                                          *)
EndpointsAgree ==
  LET devices == hal.out["primary"].devices
  IN  /\ hal.inCall /\ hal.mode = "IN_CALL" =>
           hal.modem.sound = SoundType(devices)
      /\ Audience => hal.ear.route \in (IF hal.inCall
           THEN CallRoutes(RouteMicrophones(devices)) ELSE {AudienceSleep})

------------------------------------------------------------------------------
(* What a comment of the source says and the code does not do.              *)

(* out_set_parameters: `Turn on bluetooth sco if needed': routing a stream  *)
(* to SCO in communication mode leaves the SCO session running.             *)
ScoOnIfNeeded ==
  [][\A s \in Outs, d \in OutRoutes :
       Touches(d, AllSco) /\ hal.mode = "IN_COMMUNICATION" /\ OutSetParameters(s, d)
         => hal'.inCallSco]_hal

==============================================================================
