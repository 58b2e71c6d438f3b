-------------------------------- MODULE Camera --------------------------------
(***************************************************************************)
(* The camera wrapper (camera/CameraWrapper.cpp, Camera2Wrapper.cpp and    *)
(* Camera3Wrapper.cpp): a camera module that forwards to the vendor's      *)
(* module.  Camera2Wrapper keeps the preview window, a deferred start of   *)
(* the preview and the callbacks in globals that all its devices share.    *)
(*                                                                         *)
(* A session is a camera from its open to its close.  The camera service   *)
(* calls one operation of a device at a time, and devices of the two API   *)
(* versions share nothing but the vendor, so an operation is one step;     *)
(* when two API 1 sessions overlap, `shared' is set and the properties     *)
(* that need the globals to belong to one session are off until all of     *)
(* them are closed.                                                        *)
(***************************************************************************)
EXTENDS CameraParameters, FiniteSets

CONSTANTS
  Cameras,      \* the number of cameras that the vendor reports
  MaxSessions,  \* bound: sessions one after the other or side by side
  MaxBusy,      \* bound: forwarded activities of a device at a time
  Settings,     \* parameter strings of the vendor and of the camera service
  Faults        \* failures: "module", "open", "ops", "preview"

ASSUME CameraAssumption ==
  /\ Cameras \in Nat \ {0} /\ MaxSessions \in Nat \ {0} /\ MaxBusy \in Nat
  /\ Settings # {} /\ Settings \subseteq Seq(STRING)
  /\ Faults \subseteq {"module", "open", "ops", "preview"}

Sessions == 1..MaxSessions
NONE == 0
Unset == <<"unset">>

VARIABLES
  found,     \* the files whose gVendorModule is set
  numCameras,  \* num_cameras of Camera2Wrapper
  fixed,     \* fixed_set_params, <<>> before it is allocated
  window,    \* gPreviewWindow: the session whose window it is
  deferred,  \* gPreviewStartDeferred
  user,      \* gUserCameraDevice and the callbacks set with it
  session,   \* the wrapper's devices and what the camera service knows
  vendor,    \* the vendor's devices
  shared     \* two API 1 sessions have overlapped

globals == <<numCameras, window, deferred, user>>
vars == <<found, globals, fixed, session, vendor, shared>>

Session == [api |-> 0, id |-> 0, stage |-> "none", released |-> FALSE,
            wants |-> FALSE, asked |-> FALSE, lost |-> FALSE]
Over == [Session EXCEPT !.stage = "closed"]
VendorDevice == [open |-> FALSE, releases |-> 0, window |-> NONE,
                 preview |-> FALSE, on |-> {}, callbacks |-> FALSE,
                 requests |-> FALSE, params |-> Unset]

Init ==
  /\ found = {} /\ numCameras = 0 /\ fixed = <<>>
  /\ window = NONE /\ deferred = FALSE /\ user = NONE
  /\ session = [s \in Sessions |-> Session]
  /\ vendor = [s \in Sessions |-> VendorDevice]
  /\ shared = FALSE

Open1 == {s \in Sessions : session[s].stage = "open" /\ session[s].api = 1}

------------------------------------------------------------------------------
(* Opening.  The camera service opens a camera once at a time. *)
Fresh(s) == /\ session[s].stage = "none"
            /\ \A r \in Sessions : r < s => session[r].stage # "none"
Held(id) == \E s \in Sessions : session[s].stage = "open" /\ session[s].id = id
(* The files that look the vendor's module up on the way. *)
File(api) == IF api = 1 THEN "camera2" ELSE "camera3"
CheckVendorModule(files) == found' = found \cup files

(* check_vendor_module fails in CameraWrapper, where open_legacy then       *)
(* returns success without a device, or in the file of the API.             *)
LookupFails(s, api) ==
  /\ "module" \in Faults /\ Fresh(s) /\ "module" \notin found
  /\ session' = [session EXCEPT ![s].stage = IF api = 1 THEN "phantom"
                                                        ELSE "refused"]
  /\ UNCHANGED <<found, globals, fixed, vendor, shared>>
FileLookupFails(s, api) ==
  /\ "module" \in Faults /\ Fresh(s) /\ File(api) \notin found
  /\ session' = [session EXCEPT ![s].stage = "refused"]
  /\ CheckVendorModule({"module"})
  /\ UNCHANGED <<globals, fixed, vendor, shared>>

(* The questions to the module and its torch are forwarded, or answered     *)
(* with 0 when the vendor's module is not found.                            *)
AskModule ==
  /\ CheckVendorModule({"module"})
  /\ UNCHANGED <<globals, fixed, session, vendor, shared>>

(* Both modules are found; camera2_device_open reads the number of cameras  *)
(* and allocates the block of parameter strings the first time.             *)
Enter(api) ==
  /\ CheckVendorModule({"module", File(api)})
  /\ IF api # 1 THEN UNCHANGED <<numCameras, fixed>>
     ELSE /\ numCameras' = IF numCameras = 0 THEN Cameras ELSE numCameras
          /\ fixed' = IF fixed # <<>> THEN fixed
                      ELSE [i \in 0..numCameras' - 1 |-> Unset]
  /\ UNCHANGED <<window, deferred, user>>

(* The id is out of bounds, or the vendor refuses it; the wrapper lets one  *)
(* id too many pass, which the vendor does not have.                        *)
OpenRefused(s, api, id) ==
  /\ Fresh(s) /\ ~Held(id)
  /\ id >= Cameras \/ "open" \in Faults
  /\ Enter(api)
  /\ session' = [session EXCEPT ![s].stage = "refused"]
  /\ UNCHANGED <<vendor, shared>>

(* The table of operations cannot be allocated; the vendor stays open. *)
OpenUnfinished(s, api, id) ==
  /\ "ops" \in Faults
  /\ Fresh(s) /\ ~Held(id) /\ id < Cameras
  /\ Enter(api)
  /\ session' = [session EXCEPT ![s].stage = "leaked"]
  /\ vendor' = [vendor EXCEPT ![s].open = TRUE]
  /\ UNCHANGED shared

Open(s, api, id) ==
  /\ Fresh(s) /\ ~Held(id) /\ id < Cameras
  /\ Enter(api)
  /\ session' = [session EXCEPT ![s] = [Session EXCEPT !.api = api, !.id = id,
                                                       !.stage = "open"]]
  /\ \E p \in Settings :
       vendor' = [vendor EXCEPT ![s].open = TRUE, ![s].params = p]

Camera2DeviceOpen(s, id) == Open(s, 1, id) /\ shared' = (shared \/ Open1 # {})
Camera3DeviceOpen(s, id) == Open(s, 3, id) /\ UNCHANGED shared

(* The camera service uses a device that open_legacy did not set: the       *)
(* process dies, and init starts it again.                                  *)
Die ==
  /\ \E s \in Sessions : session[s].stage = "phantom"
  /\ found' = {} /\ numCameras' = 0 /\ fixed' = <<>>
  /\ window' = NONE /\ deferred' = FALSE /\ user' = NONE
  /\ session' = [s \in Sessions |->
                   IF session[s].stage = "none" THEN session[s] ELSE Over]
  /\ vendor' = [s \in Sessions |-> VendorDevice]
  /\ shared' = FALSE

------------------------------------------------------------------------------
(* The operations of an API 1 device *)
Uses(s) == s \in Open1 /\ ~session[s].released

(* The vendor may refuse a start. *)
Answers == IF "preview" \in Faults THEN BOOLEAN ELSE {TRUE}

(* Mutant: the deferred start is forgotten, not made. *)
SetPreviewWindowOnly(s, w) ==
  /\ Uses(s)
  /\ window' = w
  /\ deferred' = (deferred /\ w = NONE)
  /\ vendor' = IF w = NONE THEN vendor ELSE [vendor EXCEPT ![s].window = w]
  /\ UNCHANGED <<found, numCameras, user, fixed, session, shared>>

(* set_preview_window: a null window is not forwarded; after the release it *)
(* is the last thing the camera service sets.  The deferred start is made   *)
(* even if the vendor refuses the window, and whether it refuses the start  *)
(* is told to nobody: `lost' remembers it.  The vendor's `window' is the    *)
(* one that it was handed last.                                             *)
SetPreviewWindow(s, w) ==
  /\ Uses(s) \/ (s \in Open1 /\ w = NONE)
  /\ window' = w
  /\ IF w = NONE THEN UNCHANGED <<vendor, session, deferred>>
     ELSE \E starts \in Answers :
            /\ vendor' = [vendor EXCEPT ![s].window = w,
                                        ![s].preview = @ \/ (deferred /\ starts)]
            /\ session' = [session EXCEPT
                 ![s].lost = @ \/ (deferred /\ session[s].wants /\ ~starts)]
            /\ deferred' = FALSE
  /\ UNCHANGED <<found, numCameras, user, fixed, shared>>

(* Mutant: the callbacks of the first session are kept. *)
SetCallbacksOnce(s) ==
  /\ Uses(s)
  /\ user' = IF user = NONE THEN s ELSE user
  /\ vendor' = [vendor EXCEPT ![s].callbacks = TRUE]
  /\ UNCHANGED <<found, numCameras, window, deferred, fixed, session, shared>>

SetCallbacks(s) ==
  /\ Uses(s)
  /\ user' = s
  /\ vendor' = [vendor EXCEPT ![s].callbacks = TRUE]
  /\ UNCHANGED <<found, numCameras, window, deferred, fixed, session, shared>>

(* The camera service is told what became of a start that is not deferred. *)
StartPreview(s) ==
  /\ Uses(s)
  /\ \E starts \in IF window # NONE THEN Answers ELSE {TRUE} :
       /\ session' = [session EXCEPT ![s].asked = TRUE, ![s].wants = @ \/ starts,
                                     ![s].lost = @ /\ ~starts]
       /\ vendor' = [vendor EXCEPT ![s].preview = @ \/ (window # NONE /\ starts)]
  /\ deferred' = (deferred \/ window = NONE)
  /\ UNCHANGED <<found, numCameras, window, user, fixed, shared>>

(* stop_preview leaves a deferred start in place. *)
StopPreview(s) ==
  /\ Uses(s)
  /\ session' = [session EXCEPT ![s].wants = FALSE, ![s].lost = FALSE]
  /\ vendor' = [vendor EXCEPT ![s].preview = FALSE]
  /\ UNCHANGED <<found, globals, fixed, shared>>

PreviewEnabled(s) == deferred \/ vendor[s].preview

(* The calls that are only forwarded: the vendor begins and ends an         *)
(* activity and is asked for it.                                            *)
Forward(s, call, on) ==
  /\ Uses(s) /\ on # (call \in vendor[s].on)
  /\ on => Cardinality(vendor[s].on) < MaxBusy
  /\ vendor' = [vendor EXCEPT ![s].on = IF on THEN @ \cup {call} ELSE @ \ {call}]
  /\ UNCHANGED <<found, globals, fixed, session, shared>>

MsgType(s, on) == Forward(s, "msg_type", on)
AutoFocus(s, on) == Forward(s, "auto_focus", on)
Picture(s, on) == Forward(s, "picture", on)
MetaDataInBuffers(s, on) == Forward(s, "meta_data", on)
Recording(s, on) == (on => PreviewEnabled(s)) /\ Forward(s, "recording", on)

(* What leaves the vendor as it is. *)
Passes(s) == Uses(s) /\ UNCHANGED vars
ReleaseRecordingFrame(s) == "recording" \in vendor[s].on /\ Passes(s)
SendCommand(s) == Passes(s)
Dump(s) == Passes(s)

(* camera2_fixup_setparams, camera2_fixup_getparams *)
Fixup(p) == Flatten(Unflatten(p))

(* The vendor takes the parameters or refuses them. *)
SetParameters(s, p) ==
  /\ Uses(s)
  /\ fixed' = [fixed EXCEPT ![session[s].id] = Fixup(p)]
  /\ \/ vendor' = [vendor EXCEPT ![s].params = Fixup(p)]
     \/ UNCHANGED vendor
  /\ UNCHANGED <<found, globals, session, shared>>
GetParameters(s) == Fixup(vendor[s].params)

VendorRelease(v) ==
  [v EXCEPT !.releases = @ + 1, !.preview = FALSE, !.on = {}]
Release(s) ==
  /\ Uses(s)
  /\ vendor' = [vendor EXCEPT ![s] = VendorRelease(@)]
  /\ session' = [session EXCEPT ![s].released = TRUE, ![s].wants = FALSE,
                                ![s].lost = FALSE]
  /\ UNCHANGED <<found, globals, fixed, shared>>

------------------------------------------------------------------------------
(* Closing *)
VendorClose(v) == [VendorDevice EXCEPT !.releases = v.releases]
Closed(s) == session' = [session EXCEPT ![s] = Over]

(* Mutants: the window and the deferred start are left; the release that    *)
(* the camera service made is forgotten; the parameters stay.               *)
CloseKeepsWindow(s) ==
  /\ s \in Open1
  /\ fixed' = [fixed EXCEPT ![session[s].id] = Unset]
  /\ vendor' = [vendor EXCEPT ![s] =
                  VendorClose(IF session[s].released THEN @ ELSE VendorRelease(@))]
  /\ Closed(s)
  /\ shared' = (shared /\ Open1 # {s})
  /\ UNCHANGED <<found, globals>>
CloseReleases(s) ==
  /\ s \in Open1
  /\ fixed' = [fixed EXCEPT ![session[s].id] = Unset]
  /\ vendor' = [vendor EXCEPT ![s] = VendorClose(VendorRelease(@))]
  /\ Closed(s)
  /\ window' = NONE /\ deferred' = FALSE
  /\ shared' = (shared /\ Open1 # {s})
  /\ UNCHANGED <<found, numCameras, user>>
CloseKeepsParams(s) ==
  /\ s \in Open1
  /\ vendor' = [vendor EXCEPT ![s] =
                  VendorClose(IF session[s].released THEN @ ELSE VendorRelease(@))]
  /\ Closed(s)
  /\ window' = NONE /\ deferred' = FALSE
  /\ shared' = (shared /\ Open1 # {s})
  /\ UNCHANGED <<found, numCameras, user, fixed>>

(* camera2_device_close *)
Close1(s) ==
  /\ s \in Open1
  /\ fixed' = [fixed EXCEPT ![session[s].id] = Unset]
  /\ vendor' = [vendor EXCEPT ![s] =
                  VendorClose(IF session[s].released THEN @ ELSE VendorRelease(@))]
  /\ Closed(s)
  /\ window' = NONE /\ deferred' = FALSE
  /\ shared' = (shared /\ Open1 # {s})
  /\ UNCHANGED <<found, numCameras, user>>

Uses3(s) == session[s].stage = "open" /\ session[s].api = 3

(* The operations of an API 3 device are forwarded without any state: the   *)
(* camera service has requests in progress until it flushes them.           *)
Request3(s, capturing) ==
  /\ Uses3(s)
  /\ vendor' = [vendor EXCEPT ![s].requests = capturing]
  /\ UNCHANGED <<found, globals, fixed, session, shared>>

(* camera3_device_close *)
Close3(s) ==
  /\ Uses3(s)
  /\ vendor' = [vendor EXCEPT ![s] = VendorClose(@)]
  /\ Closed(s)
  /\ UNCHANGED <<found, globals, fixed, shared>>

Next ==
  \/ Die \/ AskModule
  \/ \E s \in Sessions, api \in {1, 3} :
       \/ LookupFails(s, api) \/ FileLookupFails(s, api)
       \/ \E id \in 0..Cameras : \/ OpenRefused(s, api, id)
                                 \/ OpenUnfinished(s, api, id)
  \/ \E s \in Sessions, id \in 0..Cameras :
       Camera2DeviceOpen(s, id) \/ Camera3DeviceOpen(s, id)
  \/ \E s \in Sessions :
       \/ \E w \in {NONE, s} : SetPreviewWindow(s, w)
       \/ SetCallbacks(s) \/ StartPreview(s) \/ StopPreview(s)
       \/ \E on \in BOOLEAN : \/ MsgType(s, on) \/ AutoFocus(s, on)
                              \/ Picture(s, on) \/ Recording(s, on)
                              \/ MetaDataInBuffers(s, on)
       \/ ReleaseRecordingFrame(s) \/ SendCommand(s) \/ Dump(s)
       \/ \E capturing \in BOOLEAN : Request3(s, capturing)
       \/ \E p \in Settings : SetParameters(s, p)
       \/ Release(s) \/ Close1(s) \/ Close3(s)

Spec == Init /\ [][Next]_vars

------------------------------------------------------------------------------
(* A preview that the camera service was told is started runs as soon as    *)
(* there is a window, in whatever order the two come, and until then it is  *)
(* reported as enabled; only a deferred start that the vendor refuses is    *)
(* lost, because set_preview_window drops its result with the flag.         *)
StartedPreviewRuns ==
  ~shared => \A s \in Open1 :
    session[s].wants /\ ~session[s].lost =>
      /\ PreviewEnabled(s)
      /\ window # NONE => vendor[s].preview

(* The vendor never shows a preview that nobody asked for in this session,  *)
(* and none before it was handed the window of this session: neither the    *)
(* window nor the deferred start of an earlier session is left.             *)
PreviewWasAsked ==
  ~shared => \A s \in Open1 :
    vendor[s].preview => session[s].asked /\ vendor[s].window = s

(* A vendor device that has callbacks finds the user of its own session in  *)
(* the globals.                                                             *)
CallbackFindsUser ==
  ~shared => \A s \in Open1 : vendor[s].callbacks => user = s

(* The vendor's device is released once, by the camera service or by the    *)
(* close.                                                                   *)
ReleasedOnce ==
  \A s \in Sessions :
    /\ vendor[s].releases <= 1
    /\ vendor[s].open => (vendor[s].releases = 1 <=> session[s].released)

(* The string kept for a camera is the one its open session set last: it is *)
(* gone after the close, and what the vendor reads back from it is the same *)
(* again.                                                                   *)
KeptParamsAreCurrent ==
  fixed # <<>> =>
    \A i \in DOMAIN fixed :
      fixed[i] # Unset => /\ \E s \in Open1 : session[s].id = i
                          /\ Fixup(fixed[i]) = fixed[i]
==============================================================================
