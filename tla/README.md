# TLA+ models of the zero-common device tree

`src/` is the device tree that the Samsung Galaxy S6 family (zero) shares: HALs
and services in C, C++ and Java that connect Android to the hardware. This
directory holds TLA+ modules for the parts of it that keep state, TLC
configurations that check them, and proofs that their safety properties hold for
every value of the constants.
`PROJECT.json` maps every definition to the lines it models and lists the runs,
the hazards of the code and the findings.

## 1. The system

| component | state | operations | interacts with |
|---|---|---|---|
| audio HAL, `audio/audio_hw.c` | streams, list of active usecases, reference count of every mixer path, mode, call and SCO sessions; per stream frames, buffers and times | `audio_stream_out`, `audio_stream_in`, `audio_hw_device` entry points, called by several threads of the audio server | ALSA mixer and PCMs, modem interface, voice processor |
| modem sound interface, `audio/ril_interface.c` | connection to rild, callbacks | volume, mute, path, two-mic, clock, callback registration | called by the audio HAL under its lock; calls back from a rild client thread |
| Audience voice processor, `audio/audience.c` | route, extra volume and equaliser of the chip | start and stop of a voice session | called by the audio HAL around a call |
| power HAL, `power/power.c` | saved frequency maxima, profile, `touchkeys_blocked`, boost nodes | `set_interactive`, hints, features | sysfs nodes that other components write too |
| camera wrappers, `camera/*Wrapper.cpp` | vendor device of each session; preview window, deferred start, callbacks, kept parameters as globals | open, close, preview, callbacks, parameters, forwarded calls | camera service, vendor camera HAL |
| camera parameters, `camera/CameraParameters.cpp` | a map from keys to values | flatten, unflatten, set, get, typed getters and setters, lists of sizes | both sides of the camera wrapper |
| doze service, `doze/` | preferences, service, sensor listeners, times of readings | settings, boot and screen broadcasts, sensor callbacks | activity manager, sensor service, one executor per sensor |
| lineagehw, `lineagehw/` | display mode and its stored default, LED, vibrator and colour nodes | getters and setters, static initialisers | sysfs, init's own writes |
| libinit, `libinit/init_sec.cpp` | system properties | one pass at boot | read by the audio HAL, rild and the framework |
| shims, build, configuration | forwarding and tables | - | - |

What is hard in it:

* **audio**: one routing operation nests others (`select_devices` calls itself
  for the capture stream, reroutes other usecases and commands the modem). A
  call starts and stops as a side effect of routes and modes, PCMs fail in the
  middle of that, and four kinds of locks are taken by every thread. Positions
  and buffer sizes are computed from the states of several counters, while
  standbys and failures reset some of them.
* **modem**: commands are dropped silently when rild is gone, and codec reports
  arrive at any time.
* **power**: the nodes are shared, and the HAL decides at resume by what it
  sampled when the device went to sleep.
* **doze**: life-cycle calls and broadcasts wait in the main thread's queue,
  registrations in executors' queues, and the preferences that decide change in
  between. Times are remembered across registrations.
* **camera**: window, deferred start and callbacks are global to all camera
  devices and outlive sessions; parameters travel as strings.
* **boot**: init, static initialisers of classes in several processes and the
  user write the same nodes in an order nobody fixes, and boots repeat.

What makes each component correct:

* audio: a path is powered exactly while a usecase needs it; usecases that share
  a backend are on one device; a stream is active exactly when its usecase is
  listed; a call has its PCMs, its list entry, its volume and its voice
  processor, and ends; the microphone stays muted; locks are ordered and control
  calls return; frames come in order and positions can be relied on.
* power: the chosen maxima come back, and so do the input devices, except those
  that someone else disabled or whose nodes refuse the write.
* camera: a preview runs once it was started and has a window; nothing of an
  earlier session reaches a later one; what one side sets the other reads.
* doze: no listener outlives its service or doze being switched off, and pulses
  obey the times of their gestures.
* boot: the variant's own properties are set, the stored display mode survives,
  controls report what was set.

## 2. Modules

    AudioRoutes            device selection and tables, pure operators
       ^        ^
    Audience   AudioDevice (opening)     BootProperties   HardwareControls
       ^             ^                         ^                ^
       |             +-------------------------+----------------+
    AudioHal         Boot  <-  BootMC, BootProofs
       ^      ^
    AudioHalMC  AudioHalProofs        StreamLife <(refined by)- AudioLocks
                                               AudioLocks <- AudioLocksMC, AudioLocksProofs

    CameraParameters                         StreamData <- StreamDataMC, StreamDataProofs
       ^            ^                        PowerHal   <- PowerHalMC, PowerHalProofs
    Camera        CameraSettings             DozeService <- DozeServiceProofs
       ^     ^      ^     ^                  DozeSensors <- DozeSensorsProofs
    CameraMC CameraProofs CameraSettingsMC

### AudioRoutes
`get_output_snd_device`, `get_input_snd_device`, the path choice of
`do_routing_for_call` and the table of PCM devices. A device mask is a set of
names and a `snd_device_t` is a pair of profile and transducer.

### AudioHal
The routing state machine. All of `struct audio_device`, the streams and what
the modem was last told are one record `hal`; a C function is an operator from
that record to its value when the function returns, so calls that follow each
other are composed operators and an entry point is one action. This is sound
because every entry point that changes this state holds `adev->lock` from its
first read to its last write of it; the discipline itself is AudioLocks'
subject. The unlocked writes, `adev_set_parameters` and the wideband callback,
assign one or two independent flags and are actions of their own.

| C | TLA+ |
|---|---|
| `adev->usecase_list` | `listed` (playbacks, whose order no code observes) and `tx` (capture and call, in list order) |
| `uc_info->out_snd_device`, `in_snd_device` | `snd[<<usecase, side>>]` |
| `snd_dev_ref_cnt[]` | `ref` |
| `pcm_voice_rx/tx`, `pcm_sco_rx/tx` | `pcmVoice`, `pcmSco` (both of the pair are open) |
| `out->standby`, `in->standby` | `state` of the stream: CLOSED, STANDBY, ACTIVE |
| the PCM in `in->pcm_dev_list` | `in.pcm`: it is open |
| `uc_info->stream` of the capture | `in.stale`: the entry points to a stream that has been freed |
| `select_devices` | `SelectVoiceCall`, `SelectCapture`, `SelectPlayback`, which choose, and `SwitchDevices` |
| `check_and_route_usecases` | `CheckAndRoute`, one `Reroute` per usecase |
| `ril_*` | `SetCallAudioPath`, `RilSetMute`, `RilSetVolume`, `SetTwoMic`: no effect unless `Reaches` |
| `es_start_voice_session`, `es_stop_voice_session` | `StartEar`, `StopEar` over `ear`, the chip of module Audience |
| the PCMs a usecase opens | `OutPcm`, `OpenPcms`: which device numbers are open, and by whom |

`start_input_stream` keeps the result of `create_resampler` and looks at it only
when it returns (`audio_hw.c:1280`, `1318`). With a resampler refused (`StartInput`
with `~created`) the PCM is open and the usecase linked, while `in_read`, told of
an error, leaves the stream in standby, where neither a standby nor a close stops
it. The next start (`StartInputAgain`) links a second entry behind the first. Its
switch of devices looks at the first, `check_and_route_usecases` moves both, the
PCM is busy, and the error path takes out the first entry with the path it holds.

Three kinds of undefined behaviour are part of the code's behaviour:

* `get_usecase_from_type(PCM_CAPTURE | VOICE_CALL)` may return the call, whose
  stream is the primary *output*, and `select_devices` reads it as a
  `stream_in`. What it then finds is a choice from the constant `Garbage`.
  (At those offsets a `stream_out` has pointers and list links. The value
  VOICE_COMMUNICATION cannot appear there, and `GarbageType` says so.)
* The entry of a capture whose resampler was refused outlives the stream. What is
  then read of the freed `stream_in` is what it last held, what the stream opened
  since holds, or `Garbage` (`Remains`, `Strays`).
* `pcm_close(NULL)` on the error path of `start_voice_call`, and following the
  mixer list of a usecase linked twice, end the server: `Crash`, then `Restart`
  with a fresh `adev` and the modem as it was.

Environment assumptions: the framework opens the primary output right after
`adev_open` and never closes it, has one input stream at a time, and routes
every output to at least one device. `USECASE_AUDIO_PLAYBACK_MULTI_CH` is never
created by `adev_open_output_stream` in this tree. Bounds: `MaxCallEntries`,
the number of call entries that failing starts may leave in the list, and
`MaxLostUsers`, the users a path may have when a linked capture is started once
more, because each such start may raise a count that nothing lowers again.

### Audience
The voice processor: its microphones for each set of output devices, the values
of `route_value` for a narrow or wide call, and the two operations that start and
end a session. AudioHal calls them where `start_voice_call` and
`stop_voice_call` do.

### AudioDevice
`adev_open` and `adev_close` with `mixer_init` and `ril_open`: which cards have a
mixer after how many refusals, the forced band, the volume's steps, and the
order in which the fields are set. Boot composes it with init.

### StreamData
One stream, capture or playback, and time. Frames are counted and not looked at:
`captured`, `read` and `taken` are positions in the device's sequence of frames,
so a frame handed out twice, skipped or left over from an earlier start shows as
a gap. `Pull` is one turn of the loop of `read_frames` with the resampler's
`get_next_buffer`; `Standby` is another thread's, whenever the stream's lock is
free (`LockFree`). Time is in frames of the device; `Sleep` is the `usleep` after
a failed transfer. A fast capture writes its period into the profile all captures
share, as the code does.

### AudioLocks and StreamLife
The same entry points as sequences of lock operations and of work between them,
run by several threads. `Program` is the sequence of an entry point; the work
steps continue with what the code does after the branch taken (`CheckRead`,
`RecheckRead`, `CheckStandby` ...). Of the streams only the standby flag and the
usecase entries are kept: `entries` counts those of starts that completed, and
`halfStarted` has the capture whose start was refused its resampler and left one
behind. A mutex is the set of threads that hold it. `Begin`
contains the framework's contract: calls are made on open streams, and a stream is
opened or closed while no other call on it is in progress. Who may call what is
the constant `Operations`; the second reader is there because `in_read` looks at
the standby flag twice, which makes sense only for two.

`StreamLife` is the promise: closed -> standby -> running -> standby -> closed,
one step at a time. AudioLocks implements it under the mapping `Life`, which
reads the life of a stream from the usecase list, not from the standby flag. The
code leaves this circle in one place, and the promise names it: a start of a
stream in `MayStick` - the capture, where a resampler may be refused - can leave
it "stuck", in standby with its usecase listed. Such a stream never runs again,
and its usecase outlives its close ("leaked") and meets the next stream opened.

### PowerHal
`power.c` with the nodes it shares. The HAL service has one thread, so a call is
one action; the other writers are actions of the environment (panel, the
component that disables keys, writers of the maxima, who leave them alone in low
power because the caps would override them). `set_interactive` is called only on
changes. Nodes that cannot be read, written or opened and a restart of the
service are in `Faults`. Two history variables keep what such faults have
spoilt: `lost` names the clusters whose chosen maximum is gone, `refused` the
input devices whose node refused the last write. `BoostNodes` are the nodes that the build
opens at all: two of them only for one builder's `ro.build.user` and host. A
boost is running or not; it ends by itself (`BoostEnds`).

### DozeService
The life cycle. `mail` is the main thread's queue, `tasks[o]` the queue of the
executor of sensor object `o`. Services are numbered because a service that
is started again has new sensor objects and threads. The screen broadcast goes
to the service alive when it is sent and is dropped when its receiver is
unregistered before it arrives. A gesture switch changes its preference and
nothing else: the fragment has an `onPreferenceChange`, but no preference is
given it as listener. Settings can be used only with the
display on, and gestures only with doze enabled. Executors are never shut down
in the code, so tasks of a destroyed service still run.

### DozeSensors
One live service and time. The proximity sensor reports its state when it is
registered and at each change; time does not pass over an unread reading.
`coveredSince` and `covered` are what really happened, `entryTimestamp`,
`sawNear` and `inPocketTime` what the code remembers. Registering the pick-up
listener and stamping its interval are two steps.

### CameraParameters and CameraSettings
The string map. A string is a sequence of tokens - the separators `=`, `;`, `,`
and `x`, and texts that hold none - and `Find`, `Strtol` and `Format` are what
the C library does with such strings. `Unflatten` and `ParseSizesList` follow the
code's pointers over the string, as recursive functions over the position.
That the position only grows makes them well defined for every string, which the
proofs have to show first.
Setters that differ only in their key share an operator (`SetSize`, `SetFormat`,
`SetInt`). CameraSettings is an object in the hands of its user: any short string
to start from, any setter next.

### Camera
Sessions: a camera from its open to its close, of either API version. The
wrapper's globals are variables (`window`, `deferred`, `user`, `fixed`); what the
camera service knows and asked is `session`, the vendor's device is `vendor`.
Forwarded operations change the vendor's device only. Opens fail in the wrapper's
own lookups, at the vendor, or after the vendor has opened (`OpenUnfinished`: the
vendor's device stays open for good). `open_legacy` returns success without a
device when the vendor's module is missing; the service then dies (`Die`) and
starts again. When two API 1 sessions overlap, `shared` is set until all are
closed: the globals then belong to nobody, and the properties about them are off.

### BootProperties, HardwareControls, Boot
`vendor_load_properties` is a sequence of branches tried in order; a bootloader's
name is a sequence of the parts by which the branches tell variants apart.
HardwareControls has the nodes as records (readable, writable, line) and the
classes' getters and setters as operators. Boot runs them: power on (init's
properties and `on boot` writes), the classes' static initialisers in a process
that may start before or after `sys.boot_completed` and may die, the user's calls
with writes that fail, the audio device that is opened and closed, and power off.
`chosen` and `accepted` are histories of what was asked and answered.

## 3. Runs

| run | module | asks | environment and bounds | distinct states |
|---|---|---|---|---|
| `cellular_call` | AudioHalMC | `OneCallEntry` `CallSharesDevices` `CallVolumeDelivered` `EndpointsAgree` `NoUnmuteWhileMuted` | speaker and SCO, narrow and wide; ring, call, hang up; two playbacks, one capture; two volumes; voice processor; a codec report | 946,896 |
| `pcm_failures` | AudioHalMC | `TypeOK` `RefCountsMatch` `StreamsMatchUsecases` `SessionsMatchPcms` | any `pcm_open` or callback registration fails; server death and restart; an input device without a PCM; at most two call entries | 375,278 |
| `voip_mixed_modes` | AudioHalMC | `PlaybacksShareDevice` `StreamsMatchUsecases` | normal, cellular, VoIP in any order; VoIP source; rild toggling; resamplers refused; a view (below) | 623,042 |
| `threads_and_locks` | AudioLocksMC | `LocksInOrder` `FlagMatchesUsecase` `ImplementsStreamLife` `CallsReturn` | a writer, two readers of which one is the thread that calls everything else; a resampler that is refused | 60,326 |
| `stream_data` | StreamDataMC | `BufferHoldsPeriod` `FailuresKeepPace` `FramesInOrder` `PositionsCredible` | a rate with and one without resampler; calls of less than and of a fast period; 2,048 captured and 800 written frames | 7,724,454 |
| `power_nodes` | PowerHalMC | `CapsRestored` `InputsComeBack` | two clusters, two maxima of which one is the cap; nodes that cannot be read or written; restarts | 1,824,576 |
| `doze_life_cycle` | DozeService | `StoppedServiceLetsGo` `DozeOffSilencesSensors` | two services, queues of two, death of the process | 230,423 |
| `sensor_timing` | DozeSensors | `PickupPulsesApart` `WatchedCovers` | limits of 1, 2 and 3 ticks, six ticks, queues of two | 2,829,424 |
| `camera` | CameraMC | `StartedPreviewRuns` `PreviewWasAsked` `CallbackFindsUser` `ReleasedOnce` `KeptParamsAreCurrent` | two cameras, two sessions after or beside each other, both API versions, three kinds of failing opens, preview starts that fail | 1,422,582 |
| `camera_settings` | CameraSettingsMC | `RoundTrip` `SettingsArrive` `SizesUpToFirstError` `OneItemChanges` | every string of up to four tokens, then every setter, at most two items | 31,802 |
| `boot` | BootMC | `MostSpecificVariant` `UserDefaultSurvives` `ControlsReport` `SupportedOnceLoaded` `DeviceComplete` | seven bootloaders, two boots, one failed write, deaths of processes, three display modes | 1,145,784 |
| `sco_on_if_needed` | AudioHalMC | `ScoOnIfNeeded` (violated) | cellular and VoIP on SCO | about 14,000 until the violation |

Why the bounds are enough:

* Each audio run enlarges one dimension of the environment and keeps the others
  at the smallest values that let its properties fail. Two routes are enough for
  a switch, because the code only compares devices, and with narrow and wide
  profiles they give the call four devices. Two playbacks are all there are:
  `adev_open_output_stream` admits each usecase once. Every PCM of a step may
  fail independently of the others. Two users of a path suffice for
  `MaxLostUsers`: one that is there and one that has been lost.
* `voip_mixed_modes` explores states once that differ only in what the modem was
  told, the mute and the voice processor (`VIEW Deciding`). These decide nothing
  but each other, and neither of the run's properties is about them.
* Three threads are all that matter to the locks: one that writes, two that read
  (so that the second look at the standby flag in `in_read` has something to
  find), and one of them also makes every other call.
* 2,048 captured frames are two normal periods or eight fast ones, with starts and
  standbys anywhere among them; 800 written frames fill the kernel's buffer of a fast
  playback and make it block.
* Two maxima per cluster suffice because the code only stores and copies them;
  one of them is the cap, which the chosen maximum may equal. The boost nodes
  bear on neither invariant, so the run has the one every build opens.
* Two doze services suffice to have an old one with work queued beside a new one.
  Six ticks fit two pick-up intervals, or two covers with a display cycle between
  them. `MaxMail` and `MaxTasks` stop the user and the screen from acting, not
  the threads from working.
* Two camera sessions suffice to have one inherit the globals of another;
  `MaxBusy` lets a device have one forwarded activity under way, which only the
  vendor's device tells apart.
* Four tokens are an item and a separator or a text in any wrong place; the
  values of calls to `set` bring longer strings and lists of sizes.
* Two boots suffice for what one boot leaves to the next.

`camera`, `boot` and `stream_data` are checked without deadlock detection: the
number of sessions, of boots and of frames is bounded, so their behaviours end.

Every property has a mutant: a definition changed as a bug would change it,
under which the run finds the property violated. Mutants stand in front of the
definition they change and no action uses them. The one shape invariant that is
checked is AudioHal's `TypeOK`, because it says that no reference count goes
below zero, which is a property of the code; the types of the other modules are
part of their proofs' invariants.

### Findings

`sco_on_if_needed` shows that the code does not do what its comment says:
`in_comm_sco` outlives the SCO session that a call's end closes (`audio_hw.c:1548`),
so the next VoIP route to SCO opens nothing (`audio_hw.c:1907`, whose comment is
"Turn on bluetooth sco if needed").

The models do as the code does in more places that a reader of the code should
know of, and where a property has to step around one, its comment or the hazard
in `PROJECT.json` says so.

* Audio. A wideband report of 0 is swallowed by the guard in front of it
  (`audio_hw.c:2762`, against `ril_interface.h:27`). A playback started during a
  call routes the modem by its own devices (`audio_hw.c:949`). A mode that goes
  from in-call to communication keeps the call on its device while playbacks move
  (`audio_hw.c:2791`), which is why `CellularModes` end a call in normal mode. A
  mute set before a call is not sent to the modem (`audio_hw.c:2809`).
  `mixer_init` looks at `audience_enabled` before `adev_open` sets it
  (`audio_hw.c:283`, `3042`), so the voice processor's own mixer paths are never
  loaded. A capture whose resampler is refused keeps its PCM open and its usecase
  listed after the error (`audio_hw.c:1280`, `1318`): no later start of a capture
  succeeds, the entry outlives the stream it points to, and each further start may
  miscount the users of a path, or end the server when it switches the first or
  the last user of one while both entries hang on one mixer list. A server
  that dies, or a call whose start fails, leaves the voice processor awake. A
  fast capture writes its period into the shared profile (`audio_hw.c:1223`). A
  reported capture position adds frames counted at different rates.
* Power. Touchkeys disabled during sleep, or before it with the panel lit, come
  back on (`power.c:313`), and a touchscreen disabled by hint during sleep comes
  back on at resume (`power.c:294`): `InputsComeBack` asks that devices come back,
  not that they stay off. Touchkeys that a resume could not switch on are taken
  for disabled by another component at the next sleep and stay off. A boost that
  runs when low power begins is not stopped (`power.c:337`).
* Camera. `stop_preview` does not clear the deferred start, and
  `set_preview_window` drops the result of the start it makes up for
  (`Camera2Wrapper.cpp:123`), so a refused one is lost silently; the field `lost` of
  a session marks it. Two sessions share
  all globals; closing one takes them from the other (`Camera2Wrapper.cpp:450`).
  An id equal to the number of cameras passes the check (`:498`). A device whose
  ops table cannot be allocated stays open at the vendor (`Camera3Wrapper.cpp:237`).
  `open_legacy` answers success without a device.
* Boot. The init script's own write of the display mode overrides the default
  that a class restored before it. A node that can be read and not written counts
  as supported. A bootloader whose variant is not in the list gets the names of
  another that is part of its own, or those of the fallback.
* Doze. A near reading of an earlier display-off period starts the pocket time of
  a later one (`ProximitySensor.java:47`), and a cover that began before the
  listener was registered counts from the registration: `WatchedCovers` speaks of
  watched covers. `onPreferenceChange` is never registered
  (`DozeSettingsFragment.java:62`): the first gesture switched on starts no service,
  and a service goes on with every gesture off. A gesture switched off
  after the display went on and before the service was told leaves its listener
  registered (`DozeService.java:67`).

### Fairness

Runs without liveness properties use none. `threads_and_locks` assumes weak
fairness of a thread's work and of the stream mutexes, and strong fairness of
`pre_lock`, `lock_inputs` and `adev->lock`. The strong ones are held briefly and
by threads that then block elsewhere, so a waiter gets them in the end; the
stream mutex is held nearly all the time by the thread that moves samples, and
only weak fairness is assumed of it: that is why the code has `pre_lock`, and
without it (the mutant `LockStreamDirectly`) the property fails.
`in_get_capture_position` takes `in->lock` without `pre_lock`, so nothing in the
code bounds how long it or those it competes with wait; `CallsReturn` is claimed
of behaviours in which it is not asked again and again.
`DozeOffSilencesSensors` assumes weak fairness of the main thread and of each
executor, which the looper and the thread pools give; nothing is assumed of the
user, the screen or deaths of the process.

## 4. Proofs

TLC checks small instances; the theorems below hold for every value of the
constants, under the assumptions that the modules state and TLC evaluates in the
runs. Each follows from an invariant that is inductive: initial states satisfy
it, every action keeps it, and it implies the property.

| module | theorem | property |
|---|---|---|
| AudioHalProofs | `TypeCorrect` | `TypeOK` |
| | `RefCountsExact`, where resamplers are created | `RefCountsMatch` |
| | `StreamsMatch` | `StreamsMatchUsecases` |
| | `PlaybacksShare` | `PlaybacksShareDevice` |
| | `SessionsMatch` | `SessionsMatchPcms` |
| | `MuteHolds` | `NoUnmuteWhileMuted` |
| | `OneCall`, where PCMs open and resamplers are created | `OneCallEntry` |
| | `CallShares`, the same, and calls end in normal mode | `CallSharesDevices` |
| | `VolumeDelivered`, without faults, same mode changes | `CallVolumeDelivered` |
| | `EndpointsFollow`, without faults, same mode changes | `EndpointsAgree` |
| AudioLocksProofs | `OrderKept` | `LocksInOrder` |
| | `FlagTells` | `FlagMatchesUsecase` |
| | `LifeCycle` | `ImplementsStreamLife` |
| StreamDataProofs | `NoFrameLost` | `FramesInOrder` |
| | `BufferLasts` | `BufferHoldsPeriod` |
| | `PositionsHold` | `PositionsCredible` |
| | `FailuresTakeTime` | `FailuresKeepPace` |
| PowerHalProofs | `MaximaComeBack` | `CapsRestored` |
| | `InputDevicesComeBack` | `InputsComeBack` |
| CameraProofs | `PreviewStarts` | `StartedPreviewRuns` |
| | `NoStalePreview` | `PreviewWasAsked` |
| | `CallbackReachesUser` | `CallbackFindsUser` |
| | `NoSecondRelease` | `ReleasedOnce` |
| | `KeptForItsSession` | `KeptParamsAreCurrent` |
| | `MapsOnly` | |
| | `RoundTripHolds` | `RoundTrip` |
| | `OneItemChangesHolds` | `OneItemChanges` |
| | `SettingsArriveHolds` | `SettingsArrive` |
| | `SizesUpToFirstErrorHolds` | `SizesUpToFirstError` |
| DozeServiceProofs | `GoneServiceSilent` | `StoppedServiceLetsGo` |
| DozeSensorsProofs | `PulsesApart` | `PickupPulsesApart` |
| | `CoversJudged` | `WatchedCovers` |
| BootProofs | `DefaultSurvives` | `UserDefaultSurvives` |
| | `ControlsAgree` | `ControlsReport` |
| | `LoadedIsSupported` | `SupportedOnceLoaded` |
| | `VariantIsOwn`, on exynos5 | `MostSpecificVariant` |
| | `DeviceIsComplete`, on exynos5 | `DeviceComplete` |

**AudioHal**, under `RoutesAssumption` and `EnvironmentAssumption`. The counts
are not exact in the middle of a switch: `select_devices` releases and raises
paths before it stores the usecase's new devices, and reroutes other usecases in
between. The lemmas therefore compare the counts with a *view* `V` of who holds
which path. `CountDown` and `CountUp` say how one release and one acquisition
move the view; `RerouteTracks`, `CheckAndRouteTracks`, `DisableCurrentTracks` and
`EnableNewTracks` carry it through the phases of a switch; `SwitchDevicesSound`
ends where `V` and `hal.snd` agree again. From there every C function has a lemma
that it keeps `Sound`, and every action follows from those of the functions it
calls. The type invariant is needed throughout, because the counts are only
cardinalities of sets when devices are devices. A second start of a linked capture
loses count, so `Counts` is about builds that create every resampler
(`ResamplersMade`); the types hold in all.

**The usecases and the call**, on top of that invariant. `Slotted` is what the
paths owe the list: only a linked usecase holds a path, and two playbacks that hold
one hold the same. `Matched` adds the streams (a playback active exactly when
linked, the capture linked once exactly when its PCM is open) and the sessions
(`in_call` with the voice PCMs, `in_call_sco` with the SCO PCMs, and a call that
is up is linked). It is inductive for every route, mode change and fault, and
`StreamsMatch`, `PlaybacksShare`, `SessionsMatch` and `MuteHolds` have no further
hypothesis. A second start of a linked capture keeps it although its entries pass
through each other's hands: `StartInputAgainCore` follows the switch to the
state in which again one entry is linked. What a C function may change is stated
once as a relation of `hal` before and after: `Same` for `select_devices`,
`Core` for the start and end of a stream, `Around` for those of a call.

What a call promises is `CallSafe`: it is linked once exactly while it is up and
never up in normal mode (`One`, `Rested`), every other usecase is on its devices
(`Led`), the modem has its volume (`Informed`) and the voice processor a route for
its microphones (`Heard`). Operations in the middle of a call have to be shown to
keep it (`Kept`), those that start or end one establish it anew (`Begun`). The
hypotheses of the four theorems mark where the code gives the promise up:

* PCMs that do not open. `start_voice_call` leaves its entry linked when the
  second PCM fails, and a retry links a second one; `StreamsMatchUsecases` and
  `SessionsMatchPcms` hold even then, the four call properties do not.
* Resamplers that are refused. The capture's entry that is left makes the next
  start of a capture link a mixer list twice, which may end the server in the
  middle of a call.
* A modem that is not there. `ril_set_call_volume` answers success without rild
  (`ril_interface.c:239`), and its return does not send the volume again.
* A mode that goes from in-call to communication, with what `audio_hw.c:2791`
  does of it (see Findings). The telephony framework ends a call in normal
  mode; `CallsEndInNormal` asks that and no more, every other mode change is
  allowed.

The run `cellular_call` satisfies all of them.

**AudioLocks**, for any threads and any choice of what each of them may call.
The invariant looks ahead: what is left of every thread's program, whatever
branches it still takes, `Runs` from the locks that the thread holds to none, and
each of its steps is `Allowed` at the locks held there; besides, a lock has at
most one owner. `Then` joins two such runs, so there is one lemma for each text
of an entry point and one for each text that a branch continues with, and a step
of a thread only takes the first element off a run.

The second half is about what the locks are for. A thread looks at the standby
flag and acts on it several steps later, possibly with `adev->lock` in between,
for which it may have had to wait. `SInv` says what the rest of an operation may
take for granted: a step that relies on an earlier look has nothing between
itself and the start of what is left but the taking and giving of other locks
(`Placed`), and while such a step is ahead the thread holds its stream,
which still is as it looked (`Knows`). `Entitled` is the framework's contract: a
stream is opened when closed, and closed with no other call on it. Under `SInv` the flag
and the usecases of completed starts agree (`Kept`) except between
`start_input_stream` and the assignment in `in_read` (`Starts`). A capture whose
start failed half way keeps its one entry and its flag, because none of its later
starts completes (`HInv`), and `FlagTells` follows.

The refinement is then a matter of single steps: `Alive` shows that each step of a
thread either moves one stream along an edge of `StreamLife` (`LifeMoves`) or none
(`LifeStays`). `SInv` and `HInv` are what rules out the edges that `StreamLife`
does not have: a second `start_output_stream`, a free of a running stream, a stuck capture that
runs.

**StreamData**, for any rates the HAL takes, any calls, steps of time and failures.
`Buffered` says where the contents of the buffer lie in what the device delivered:
they are the last `bufFrames` frames read, and what was handed out ends right in front of them.
`BufferHoldsPeriod` rests on the period of a profile never going back to the longer
one (`Opened`). The positions need the frames that a call in progress has been
given and not yet counted (`Given`). `FailuresKeepPace` needs that
conversions of frames to time lose at most what they round: `LastingAdds`, the
sum of two calls lasts no longer than the calls.

**PowerHal**, for any clusters' maxima and caps and any faults. `CapsRestored`
alone is not inductive: in low power it says nothing. `SavedIsChosen` adds that
what the HAL remembers then is what was chosen, for every cluster that no fault
has lost. `InputsComeBack` needs to know of a sleeping device:
`BlockedKeysAreDisabled` says that the HAL believes touchkeys blocked only when
another component disabled them, their node refused to switch them on before or
they are on already, so a resume that skips them skips nobody's.

**Camera**, for any number of cameras and sessions and any failures. `Single` is
what holds of every session by itself, and the release is counted there, so
`ReleasedOnce` does not need the globals. `Alone`, `Owned` and `NothingLeft` say
whose the globals are: without an overlap at most one API 1 session is open, all
the globals hold is its own (`Owner`), and with none open they are as at the
start. The last is what a new session relies on, and what `camera2_device_close`
must restore. `Used`, `Elsewhere` and `Beside` are the three kinds of steps, and
every operation is shown to be one of them. `KeptForOpen` is about the strings
that `camera2_set_parameters` keeps per camera: one is kept only for the id of an
open session, and only one that the fix-up has made. That a second fix-up changes
no such string (`FixupTwice`) is a fact about `flatten` and `unflatten`.

**CameraSettings**, for any strings, keys, values and numerals, under
`NumeralsAssumption` (a numeral is a text of its own and stands for an integer) and
`SettingsAssumption` (what is given to the object are strings). `ParamMap` is the
invariant: the map is finite, no key holds a "=" and no value a ";". `set()` refuses
what would break it, and `unflatten` cannot, because it ends a key at the first "="
and a value at the first ";" (`ItemsMap`). It allows keys with a ";" and values with
a "=", which some of the strings that the object is read from give it.

* `RoundTrip`: `Layout` says where the items lie in the string that `flatten`
  writes, one after the other in the order of the listed keys. `ItemAt` reads
  one item where it lies, and the reading goes on behind it, so from the last item
  to the first the loop collects the map of the keys from there on (`SentIsSame`).
* `OneItemChanges`: every operation adds or removes one key (`OneKeyStep`), and the
  round trip carries that to the other side.
* `SettingsArrive`: `SettersAdd` computes what each setter writes, `PairRead` and
  `NumberRead` what its getter makes of it.
* `SizesUpToFirstError`: `parse_pair` reads of the list what it would read of the
  text between two commas alone (`PairOfPiece`), and it reads such a text to its end
  exactly when the text is a size (`SizeParsed`, `ParsedSize`). `LoopAgrees` goes
  from the end of the list to its start and compares what the loop returns from a
  text on with the meant sizes from there on, numbered by the texts before them
  (`NthIs`).

The loops are recursive functions over the position. That there is a function
which fits its own definition (`ReadingFits`, `SizesFit`) and what it returns is
shown by induction over numbers as a statement about one set of numbers
(`Induction`, `Downwards`, from the library's theorem that a non-empty set of
numbers has a least element).

**DozeService**, for any number of services and any length of the queues.
`StoppedServiceLetsGo` depends on `onDestroy` being taken while its service is
the live one. `Fits` says why: the life-cycle messages that wait alternate, the
first fits whether a service lives and the last whether one is started. `Taken`
and `Appended` are the two lemmas about queues that every action uses.

**DozeSensors**, for any limits. `StampsInOrder`: the pick-up stamp is never
later than the clock and never earlier than the last pulse, also between a
registration and its stamp. `CoverRemembered`: once the begin of a watched cover
has been read, the two fields that the code remembers tell when it was.

**Boot**, for any bootloaders, permissions, modes and values and any number of
boots and failures. `Stored`: the file on /data is absent until a mode is chosen
and holds that mode from then on; it survives because `setMode` writes it only
after the node has taken the mode, tells in its answer whether it did, and nothing
else writes the file. `Held`: the node of
every accepted control is open and holds its line, which is what survives a death
of the process, and the reading mode's class remembers from its load whether its
node is open. `Complete` counts failures. `NodeWritten` and `DefaultWritten` say
what one write does to all the files. For the properties of init, `BranchesTable`
goes through the table of branches once: how long the patterns are, and that those
of three parts share their first two with no pattern of two parts (except the
first, which is tried before all). So the first branch that matches has the longest
pattern (`FirstIsLongest`), for any name; the table is ordered well although it is
not ordered by length. `DeviceInv` ties the open audio device to those properties.
The two theorems about init assume `ro.board.platform` to be exynos5, the only
platform on which `vendor_load_properties` does anything.

Only model-checked: liveness (`CallsReturn`, `DozeOffSilencesSensors`), which is
out of the prover's reach, and the finding. The invariants and action properties of
every passing run are stated by a theorem.

## 5. Not modelled

* Audio: channel remapping and the contents of frames; the resampler other than
  by its counts; the tail of `out_write` after its unlock, which walks a list
  that another thread may free, and the read of the list head in
  `in_get_capture_position` before its lock (AudioLocks keeps lock order and
  flags, not list nodes); closing the primary output; the modem's clock command
  and RX mute, whose results nothing reads; parsing of mixer paths and of
  parameter strings.
* Boot: fingerprints and descriptions, which follow the model's name; the rest of
  the init script, which writes nodes that no component here reads back.
* Doze: the help dialog and the layout of the settings.
* Shims forward symbols of binary blobs and keep no state. Build files, overlays,
  sepolicy, patches and configuration are data. The headers under `include/` are
  copies of other projects' interfaces; `CameraParameters` is modelled because
  this tree has its own version of the implementation.

## 6. Plan

1. Proofs: `OneCallEntry` with a bound on the entries that failing PCMs leave.
2. The nodes of the PCM list in AudioLocks, for the unlocked tail of `out_write`.
3. The primary output with its failures and its closing, which AudioHal assumes
   away.
4. A reference definition of device selection (which transducers are acceptable
   for a route), checked over all routes, modes and sources.
