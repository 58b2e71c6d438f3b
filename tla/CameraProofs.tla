----------------------------- MODULE CameraProofs -----------------------------
(***************************************************************************)
(* Proofs about Camera for any number of cameras and sessions and any      *)
(* failures: nothing that one session leaves behind reaches the next.      *)
(* Proofs about CameraSettings and the operators of CameraParameters for   *)
(* any strings: what one side of the wrapper sets, the other side reads.   *)
(***************************************************************************)
EXTENDS Camera, CameraSettings, TLAPS, FiniteSetTheorems, SequenceTheorems,
        WellFoundedInduction

Strings == {Unset} \cup Settings \cup {Fixup(p) : p \in Settings}
Calls == {"msg_type", "auto_focus", "picture", "meta_data", "recording"}
Stages == {"none", "phantom", "refused", "leaked", "open", "closed"}
SessionType ==
  [api : {0, 1, 3}, id : 0..Cameras, stage : Stages, released : BOOLEAN,
   wants : BOOLEAN, asked : BOOLEAN, lost : BOOLEAN]
VendorType ==
  [open : BOOLEAN, releases : Nat, window : {NONE} \cup Sessions,
   preview : BOOLEAN, on : SUBSET Calls, callbacks : BOOLEAN,
   requests : BOOLEAN, params : Strings]

Typed ==
  /\ session \in [Sessions -> SessionType]
  /\ vendor \in [Sessions -> VendorType]
  /\ window \in {NONE} \cup Sessions /\ {deferred, shared} \subseteq BOOLEAN

(* Unless sessions overlap, the globals belong to the one that is open.  x  *)
(* and v are what session and vendor hold of it.                            *)
Alone == ~shared => \A r, s \in Open1 : r = s
Owner(s, x, v, w, d, u) ==
  /\ w # NONE => w = s /\ v.window = s
  /\ d => w = NONE /\ x.asked
  /\ x.wants /\ ~x.lost => (d \/ v.preview) /\ (w # NONE => v.preview)
  /\ v.preview => x.asked /\ v.window = s
  /\ v.callbacks => u = s
Owned ==
  ~shared => \A s \in Open1 :
               Owner(s, session[s], vendor[s], window, deferred, user)
NothingLeft == Open1 = {} => window = NONE /\ ~deferred /\ ~shared

(* Each session by itself: a camera that was never opened is as it was made, *)
(* an open one is open at the vendor, and the release is counted.            *)
Single(x, v) ==
  /\ x.stage = "none" => ~x.released /\ v = VendorDevice
  /\ x.stage = "open" => v.open
  /\ v.releases <= 1
  /\ v.open => (v.releases = 1 <=> x.released)
Singles == \A s \in Sessions : Single(session[s], vendor[s])

IInv == Typed /\ Singles /\ Alone /\ Owned /\ NothingLeft

------------------------------------------------------------------------------
LEMMA AtFirst ==
  /\ Session \in SessionType /\ VendorDevice \in VendorType
  /\ Single(Session, VendorDevice) /\ Session.stage = "none"
  BY CameraAssumption DEF Session, SessionType, VendorDevice, VendorType, Stages,
                          Strings, NONE, Single

(* A session that is over *)
LEMMA OverEnds ==
  /\ Over \in SessionType /\ Over.stage = "closed"
  /\ \A v \in VendorType : v.releases <= 1 /\ ~v.open => Single(Over, v)
  <1>1. Over \in SessionType /\ Over.stage = "closed"
    BY AtFirst DEF Over, Session, SessionType, Stages
  <1> QED
    BY <1>1 DEF Single

LEMMA InitIInv == Init => IInv
  <1> SUFFICES ASSUME Init PROVE IInv
    OBVIOUS
  <1>1. Typed /\ Singles
    BY AtFirst DEF Init, Typed, Singles
  <1>2. Open1 = {}
    BY AtFirst DEF Init, Open1
  <1> QED
    BY <1>1, <1>2 DEF Init, IInv, Alone, Owned, NothingLeft

(* A step of one session *)
LEMMA OneSession ==
  ASSUME IInv, NEW s \in Sessions, NEW x \in SessionType, NEW v \in VendorType,
         session' = [session EXCEPT ![s] = x],
         vendor' = [vendor EXCEPT ![s] = v],
         Single(x, v)
  PROVE  /\ session' \in [Sessions -> SessionType]
         /\ vendor' \in [Sessions -> VendorType]
         /\ session'[s] = x /\ vendor'[s] = v
         /\ \A r \in Sessions :
              r # s => session'[r] = session[r] /\ vendor'[r] = vendor[r]
         /\ Open1' = IF x.stage = "open" /\ x.api = 1 THEN Open1 \cup {s}
                     ELSE Open1 \ {s}
         /\ Singles'
  <1>1. /\ session \in [Sessions -> SessionType]
        /\ vendor \in [Sessions -> VendorType]
    BY DEF IInv, Typed
  <1>2. /\ session' \in [Sessions -> SessionType]
        /\ vendor' \in [Sessions -> VendorType]
    BY <1>1
  <1>3. /\ session'[s] = x /\ vendor'[s] = v
        /\ \A r \in Sessions :
              r # s => session'[r] = session[r] /\ vendor'[r] = vendor[r]
    BY <1>1
  <1>4. Open1' = IF x.stage = "open" /\ x.api = 1 THEN Open1 \cup {s}
                 ELSE Open1 \ {s}
    BY <1>3 DEF Open1
  <1>5. Singles'
    BY <1>3 DEF Singles, IInv
  <1> QED
    BY <1>2, <1>3, <1>4, <1>5

(* A step that leaves the sessions with an API 1 device as they are *)
LEMMA Elsewhere ==
  ASSUME IInv, NEW s \in Sessions, NEW x \in SessionType, NEW v \in VendorType,
         session' = [session EXCEPT ![s] = x],
         vendor' = [vendor EXCEPT ![s] = v],
         Single(x, v), s \notin Open1, ~(x.stage = "open" /\ x.api = 1),
         UNCHANGED <<window, deferred, user, shared>>
  PROVE  IInv'
  <1>1. Open1' = IF x.stage = "open" /\ x.api = 1 THEN Open1 \cup {s}
                 ELSE Open1 \ {s}
    BY OneSession
  <1>2. Open1' = Open1
    BY <1>1
  <1>3. \A r \in Open1 : session'[r] = session[r] /\ vendor'[r] = vendor[r]
    BY OneSession DEF Open1
  <1>4. Typed' /\ Singles'
    BY OneSession DEF IInv, Typed
  <1> QED
    BY <1>2, <1>3, <1>4 DEF IInv, Alone, Owned, NothingLeft

(* A step of a session that keeps its API 1 device *)
LEMMA Used ==
  ASSUME IInv, NEW s \in Open1, NEW x \in SessionType, NEW v \in VendorType,
         session' = [session EXCEPT ![s] = x],
         vendor' = [vendor EXCEPT ![s] = v],
         Single(x, v), x.stage = "open", x.api = 1, shared' = shared,
         window' \in {NONE} \cup Sessions, deferred' \in BOOLEAN,
         Owner(s, session[s], vendor[s], window, deferred, user)
           => Owner(s, x, v, window', deferred', user')
  PROVE  IInv'
  <1>1. s \in Sessions
    BY DEF Open1
  <1>2. Open1' = IF x.stage = "open" /\ x.api = 1 THEN Open1 \cup {s}
                 ELSE Open1 \ {s}
    BY <1>1, OneSession
  <1>3. Open1' = Open1
    BY <1>2
  <1>4. Typed' /\ Singles' /\ session'[s] = x /\ vendor'[s] = v
    BY <1>1, OneSession DEF IInv, Typed
  <1>5. Owned'
    <2> SUFFICES ASSUME ~shared, NEW r \in Open1
                 PROVE  Owner(r, session'[r], vendor'[r],
                              window', deferred', user')
      BY <1>3 DEF Owned
    <2>1. r = s
      BY DEF IInv, Alone
    <2> QED
      BY <1>4, <2>1 DEF IInv, Owned
  <1> QED
    BY <1>3, <1>4, <1>5 DEF IInv, Alone, NothingLeft

(* What a step finds of a session *)
LEMMA OfASession ==
  ASSUME IInv, NEW s \in Sessions
  PROVE  /\ session[s] \in SessionType /\ vendor[s] \in VendorType
         /\ Single(session[s], vendor[s])
         /\ session = [session EXCEPT ![s] = session[s]]
         /\ vendor = [vendor EXCEPT ![s] = vendor[s]]
         /\ s # NONE /\ s \in {NONE} \cup Sessions
  BY CameraAssumption DEF IInv, Typed, Singles, Sessions, NONE

------------------------------------------------------------------------------
(* Opening *)
LEMMA LookupFailsKeeps ==
  ASSUME IInv, NEW s \in Sessions, NEW api \in {1, 3},
         LookupFails(s, api) \/ FileLookupFails(s, api)
  PROVE  IInv'
  <1>1. PICK y \in {"phantom", "refused"} :
             session' = [session EXCEPT ![s].stage = y]
    BY DEF LookupFails, FileLookupFails
  <1> DEFINE x == [session[s] EXCEPT !.stage = y]
  <1>2. /\ session[s].stage = "none" /\ ~session[s].released
        /\ vendor[s] = VendorDevice /\ vendor' = vendor
        /\ UNCHANGED <<window, deferred, user, shared>>
    BY OfASession DEF LookupFails, FileLookupFails, Fresh, Single, globals
  <1>3. x \in SessionType /\ Single(x, vendor[s]) /\ x.stage = y
    BY <1>2, OfASession DEF Single, Session, VendorDevice, SessionType, Stages
  <1>4. s \notin Open1
    BY <1>2 DEF Open1, Session
  <1>5. session' = [session EXCEPT ![s] = x]
    BY <1>1, OfASession DEF IInv, Typed
  <1>6. vendor' = [vendor EXCEPT ![s] = vendor[s]]
    BY <1>2, OfASession
  <1> QED
    BY <1>2, <1>3, <1>4, <1>5, <1>6, OfASession, Elsewhere

LEMMA OpenRefusedKeeps ==
  ASSUME IInv, NEW s \in Sessions, NEW api \in {1, 3}, NEW id \in 0..Cameras,
         OpenRefused(s, api, id)
  PROVE  IInv'
  <1> DEFINE x == [session[s] EXCEPT !.stage = "refused"]
  <1>2. /\ session[s].stage = "none" /\ ~session[s].released
        /\ vendor[s] = VendorDevice /\ vendor' = vendor
        /\ UNCHANGED <<window, deferred, user, shared>>
    BY OfASession DEF OpenRefused, Enter, Fresh, Single
  <1>3. x \in SessionType /\ Single(x, vendor[s]) /\ x.stage = "refused"
    BY <1>2, OfASession DEF Single, Session, VendorDevice, SessionType, Stages
  <1>4. s \notin Open1
    BY <1>2 DEF Open1, Session
  <1>5. session' = [session EXCEPT ![s] = x]
    BY OfASession DEF IInv, Typed, OpenRefused
  <1>6. vendor' = [vendor EXCEPT ![s] = vendor[s]]
    BY <1>2, OfASession
  <1> QED
    BY <1>2, <1>3, <1>4, <1>5, <1>6, OfASession, Elsewhere

LEMMA OpenUnfinishedKeeps ==
  ASSUME IInv, NEW s \in Sessions, NEW api \in {1, 3}, NEW id \in 0..Cameras,
         OpenUnfinished(s, api, id)
  PROVE  IInv'
  <1> DEFINE x == [session[s] EXCEPT !.stage = "leaked"]
             v == [vendor[s] EXCEPT !.open = TRUE]
  <1>2. /\ session[s].stage = "none" /\ ~session[s].released
        /\ vendor[s] = VendorDevice
        /\ UNCHANGED <<window, deferred, user, shared>>
    BY OfASession DEF OpenUnfinished, Enter, Fresh, Single
  <1>3. x \in SessionType /\ x.stage = "leaked"
    BY <1>2, OfASession DEF Session, SessionType, Stages
  <1>4. v \in VendorType
    BY <1>2, OfASession DEF VendorType, VendorDevice
  <1>5. Single(x, v)
    BY <1>2 DEF Single, Session, VendorDevice
  <1>6. s \notin Open1
    BY <1>2 DEF Open1, Session
  <1>7. /\ session' = [session EXCEPT ![s] = x]
        /\ vendor' = [vendor EXCEPT ![s] = v]
    BY OfASession DEF IInv, Typed, OpenUnfinished
  <1> QED
    BY <1>2, <1>3, <1>4, <1>5, <1>6, <1>7, Elsewhere

(* An open device is as new at both ends. *)
LEMMA Opened ==
  ASSUME IInv, NEW s \in Sessions, NEW api \in {1, 3}, NEW id \in 0..Cameras,
         Open(s, api, id)
  PROVE  /\ UNCHANGED <<window, deferred, user>> /\ s \notin Open1
         /\ \E x \in SessionType, v \in VendorType :
              /\ session' = [session EXCEPT ![s] = x]
              /\ vendor' = [vendor EXCEPT ![s] = v]
              /\ Single(x, v) /\ x.stage = "open" /\ x.api = api
              /\ ~x.wants /\ ~v.preview /\ ~v.callbacks
  <1> DEFINE x == [Session EXCEPT !.api = api, !.id = id, !.stage = "open"]
  <1>1. PICK p \in Settings :
             vendor' = [vendor EXCEPT ![s].open = TRUE, ![s].params = p]
    BY DEF Open
  <1> DEFINE v == [vendor[s] EXCEPT !.open = TRUE, !.params = p]
  <1>2. session[s].stage = "none" /\ vendor[s] = VendorDevice
    BY OfASession DEF Open, Fresh, Single
  <1>3. x \in SessionType
    BY DEF Session, SessionType, Stages
  <1>4. v \in VendorType
    BY <1>2, OfASession DEF VendorType, VendorDevice, Strings
  <1>5. /\ Single(x, v) /\ x.stage = "open" /\ x.api = api
        /\ ~x.wants /\ ~v.preview /\ ~v.callbacks
    BY <1>2 DEF Single, Session, VendorDevice
  <1>6. session' = [session EXCEPT ![s] = x]
    BY DEF Open
  <1>7. vendor' = [vendor EXCEPT ![s] = v]
    BY <1>1 DEF IInv, Typed
  <1>8. UNCHANGED <<window, deferred, user>> /\ s \notin Open1
    BY <1>2 DEF Open, Enter, Open1, Session
  <1> HIDE DEF x, v
  <1> QED
    BY <1>3, <1>4, <1>5, <1>6, <1>7, <1>8

LEMMA Camera3DeviceOpenKeeps ==
  ASSUME IInv, NEW s \in Sessions, NEW id \in 0..Cameras,
         Camera3DeviceOpen(s, id)
  PROVE  IInv'
  <1>1. Open(s, 3, id) /\ UNCHANGED shared
    BY DEF Camera3DeviceOpen
  <1> QED
    BY <1>1, Opened, Elsewhere

(* Where the device is the only one, the globals are as after the last close. *)
LEMMA Camera2DeviceOpenKeeps ==
  ASSUME IInv, NEW s \in Sessions, NEW id \in 0..Cameras,
         Camera2DeviceOpen(s, id)
  PROVE  IInv'
  <1>1. Open(s, 1, id) /\ shared' = (shared \/ Open1 # {})
    BY DEF Camera2DeviceOpen
  <1>2. PICK x \in SessionType, v \in VendorType :
              /\ session' = [session EXCEPT ![s] = x]
              /\ vendor' = [vendor EXCEPT ![s] = v]
              /\ Single(x, v) /\ x.stage = "open" /\ x.api = 1
              /\ ~x.wants /\ ~v.preview /\ ~v.callbacks
    BY <1>1, Opened
  <1>3. UNCHANGED <<window, deferred, user>>
    BY <1>1, Opened
  <1>4. Open1' = IF x.stage = "open" /\ x.api = 1 THEN Open1 \cup {s}
                 ELSE Open1 \ {s}
    BY <1>2, OneSession
  <1>5. Open1' = Open1 \cup {s}
    BY <1>2, <1>4
  <1>6. Singles' /\ Typed' /\ session'[s] = x /\ vendor'[s] = v
    BY <1>1, <1>2, <1>3, OneSession DEF IInv, Typed
  <1>7. ~shared' => Open1 = {} /\ Open1' = {s}
    BY <1>1, <1>5
  <1>8. ~shared' => Owner(s, x, v, window', deferred', user')
    BY <1>2, <1>3, <1>7 DEF IInv, NothingLeft, Owner
  <1>9. Alone' /\ Owned'
    BY <1>6, <1>7, <1>8 DEF Alone, Owned
  <1> QED
    BY <1>5, <1>6, <1>9 DEF IInv, NothingLeft

(* A process that starts again has no device and clean globals. *)
LEMMA DieKeeps ==
  ASSUME IInv, Die
  PROVE  IInv'
  <1> DEFINE X(s) == IF session[s].stage = "none" THEN session[s] ELSE Over
  <1>1. \A s \in Sessions : session'[s] = X(s) /\ vendor'[s] = VendorDevice
    BY DEF Die
  <1>2. \A s \in Sessions : X(s) \in SessionType /\ X(s).stage # "open"
    BY OfASession, OverEnds
  <1>3. ASSUME NEW s \in Sessions
        PROVE  Single(X(s), VendorDevice)
    <2>1. VendorDevice.releases <= 1 /\ ~VendorDevice.open
      BY DEF VendorDevice
    <2> QED
      BY <2>1, AtFirst, OfASession, OverEnds DEF Single
  <1>4. Open1' = {}
    BY <1>1, <1>2 DEF Open1
  <1>5. session' = [s \in Sessions |-> X(s)]
    BY DEF Die
  <1> HIDE DEF X
  <1>6. Typed' /\ Singles'
    BY <1>1, <1>2, <1>3, <1>5, AtFirst DEF Die, Typed, Singles
  <1> QED
    BY <1>4, <1>6 DEF IInv, Alone, Owned, NothingLeft, Die

------------------------------------------------------------------------------
(* The operations of an API 1 device *)
LEMMA OfADevice ==
  ASSUME IInv, NEW s \in Open1
  PROVE  /\ s \in Sessions /\ session[s].stage = "open" /\ session[s].api = 1
         /\ vendor[s].open
  BY OfASession DEF Open1, Single

LEMMA VendorFields ==
  ASSUME NEW v \in VendorType, NEW b \in BOOLEAN
  PROVE  /\ [v EXCEPT !.preview = b] \in VendorType
         /\ [v EXCEPT !.callbacks = b] \in VendorType
         /\ \A w \in Sessions :
              [v EXCEPT !.window = w, !.preview = b] \in VendorType
         /\ [v EXCEPT !.releases = @ + 1, !.preview = b, !.on = {}] \in VendorType
  <1>1. [v EXCEPT !.preview = b] \in VendorType
    BY DEF VendorType
  <1>2. [v EXCEPT !.callbacks = b] \in VendorType
    BY DEF VendorType
  <1>3. ASSUME NEW w \in Sessions
        PROVE  [v EXCEPT !.window = w, !.preview = b] \in VendorType
    BY DEF VendorType
  <1>4. [v EXCEPT !.releases = @ + 1, !.preview = b, !.on = {}] \in VendorType
    <2>1. ASSUME NEW n \in Nat
          PROVE  [v EXCEPT !.releases = n, !.preview = b, !.on = {}] \in VendorType
      BY DEF VendorType
    <2>2. v.releases + 1 \in Nat
      BY DEF VendorType
    <2> QED
      BY <2>1, <2>2
  <1> QED
    BY <1>1, <1>2, <1>3, <1>4

LEMMA SessionFields ==
  ASSUME NEW x \in SessionType, NEW a \in BOOLEAN, NEW b \in BOOLEAN,
         NEW c \in BOOLEAN
  PROVE  /\ [x EXCEPT !.lost = a] \in SessionType
         /\ [x EXCEPT !.wants = a, !.lost = b] \in SessionType
         /\ [x EXCEPT !.asked = a, !.wants = b, !.lost = c] \in SessionType
         /\ [x EXCEPT !.released = a, !.wants = b, !.lost = c] \in SessionType
  <1>1. [x EXCEPT !.lost = a] \in SessionType
    BY DEF SessionType
  <1>2. [x EXCEPT !.wants = a, !.lost = b] \in SessionType
    BY DEF SessionType
  <1>3. [x EXCEPT !.asked = a, !.wants = b, !.lost = c] \in SessionType
    BY DEF SessionType
  <1>4. [x EXCEPT !.released = a, !.wants = b, !.lost = c] \in SessionType
    BY DEF SessionType
  <1> QED
    BY <1>1, <1>2, <1>3, <1>4

(* A refused deferred start is lost; then the preview that was told is not   *)
(* promised to run.                                                          *)
LEMMA SetPreviewWindowKeeps ==
  ASSUME IInv, NEW s \in Sessions, NEW w \in {NONE, s}, SetPreviewWindow(s, w)
  PROVE  IInv'
  <1>1. s \in Open1 /\ window' = w /\ UNCHANGED <<user, shared>>
    BY DEF SetPreviewWindow, Uses
  <1>2. PICK x \in SessionType, v \in VendorType :
          /\ session' = [session EXCEPT ![s] = x]
          /\ vendor' = [vendor EXCEPT ![s] = v]
          /\ x.stage = session[s].stage /\ x.api = session[s].api
          /\ Single(x, v)
          /\ Owner(s, session[s], vendor[s], window, deferred, user)
               => Owner(s, x, v, window', deferred', user')
    <2>1. CASE w = NONE
      BY <1>1, <2>1, OfASession DEF SetPreviewWindow, Owner
    <2>2. CASE w # NONE
      <3>1. PICK starts \in Answers :
              /\ vendor' = [vendor EXCEPT ![s].window = w,
                              ![s].preview = @ \/ (deferred /\ starts)]
              /\ session' = [session EXCEPT
                   ![s].lost = @ \/ (deferred /\ session[s].wants /\ ~starts)]
              /\ deferred' = FALSE
        BY <2>2 DEF SetPreviewWindow
      <3> DEFINE b == vendor[s].preview \/ (deferred /\ starts)
                 c == session[s].lost \/ (deferred /\ session[s].wants /\ ~starts)
                 x == [session[s] EXCEPT !.lost = c]
                 v == [vendor[s] EXCEPT !.window = w, !.preview = b]
      <3>2. b \in BOOLEAN /\ c \in BOOLEAN /\ w \in Sessions /\ w = s
        BY <2>2
      <3>3. x \in SessionType /\ v \in VendorType
        <4> HIDE DEF b, c
        <4> QED
          BY <3>2, OfASession, SessionFields, VendorFields
      <3>4. /\ session' = [session EXCEPT ![s] = x]
            /\ vendor' = [vendor EXCEPT ![s] = v]
        BY <3>1, OfASession DEF IInv, Typed
      <3>5. /\ x.stage = session[s].stage /\ x.api = session[s].api
            /\ Single(x, v)
        BY <1>1, OfASession, OfADevice DEF Single, VendorType, SessionType
      <3>6. Owner(s, session[s], vendor[s], window, deferred, user)
              => Owner(s, x, v, window', deferred', user')
        BY <1>1, <3>1, <3>2, OfASession DEF Owner, VendorType, SessionType
      <3> HIDE DEF x, v
      <3> QED
        BY <3>3, <3>4, <3>5, <3>6
    <2> QED
      BY <2>1, <2>2
  <1>3. deferred' \in BOOLEAN /\ window' \in {NONE} \cup Sessions
    BY OfASession DEF SetPreviewWindow, IInv, Typed
  <1> QED
    BY <1>1, <1>2, <1>3, OfASession, OfADevice, Used

LEMMA SetCallbacksKeeps ==
  ASSUME IInv, NEW s \in Sessions, SetCallbacks(s)
  PROVE  IInv'
  <1> DEFINE v == [vendor[s] EXCEPT !.callbacks = TRUE]
  <1>1. /\ s \in Open1 /\ user' = s
        /\ UNCHANGED <<session, window, deferred, shared>>
    BY DEF SetCallbacks, Uses
  <1>2. v \in VendorType
    BY TRUE \in BOOLEAN, OfASession, VendorFields
  <1>3. vendor' = [vendor EXCEPT ![s] = v]
    BY DEF SetCallbacks, IInv, Typed
  <1>4. Single(session[s], v)
    BY <1>1, OfASession, OfADevice DEF Single, VendorType
  <1>5. Owner(s, session[s], vendor[s], window, deferred, user)
          => Owner(s, session[s], v, window', deferred', user')
    BY <1>1, OfASession DEF Owner, VendorType
  <1>6. deferred' \in BOOLEAN /\ window' \in {NONE} \cup Sessions
    BY <1>1 DEF IInv, Typed
  <1> HIDE DEF v
  <1> QED
    BY <1>1, <1>2, <1>3, <1>4, <1>5, <1>6, OfASession, OfADevice, Used

LEMMA StartPreviewKeeps ==
  ASSUME IInv, NEW s \in Sessions, StartPreview(s)
  PROVE  IInv'
  <1>1. PICK starts \in BOOLEAN :
          /\ window = NONE => starts
          /\ session' = [session EXCEPT ![s].asked = TRUE, ![s].wants = @ \/ starts,
                                        ![s].lost = @ /\ ~starts]
          /\ vendor' = [vendor EXCEPT ![s].preview = @ \/ (window # NONE /\ starts)]
          /\ deferred' = (deferred \/ window = NONE)
    BY DEF StartPreview, Answers
  <1> DEFINE a == session[s].wants \/ starts
             b == session[s].lost /\ ~starts
             c == vendor[s].preview \/ (window # NONE /\ starts)
             x == [session[s] EXCEPT !.asked = TRUE, !.wants = a, !.lost = b]
             v == [vendor[s] EXCEPT !.preview = c]
  <1>2. /\ s \in Open1 /\ ~session[s].released
        /\ UNCHANGED <<window, user, shared>>
    BY DEF StartPreview, Uses
  <1>3. x \in SessionType /\ v \in VendorType
    <2>1. a \in BOOLEAN /\ b \in BOOLEAN /\ c \in BOOLEAN /\ TRUE \in BOOLEAN
      OBVIOUS
    <2> HIDE DEF a, b, c
    <2> QED
      BY <2>1, OfASession, SessionFields, VendorFields
  <1>4. x.stage = "open" /\ x.api = 1
    BY <1>2, OfASession, OfADevice DEF SessionType
  <1>5. /\ session' = [session EXCEPT ![s] = x]
        /\ vendor' = [vendor EXCEPT ![s] = v]
    BY <1>1, OfASession DEF IInv, Typed
  <1>6. Single(x, v)
    BY <1>2, OfASession, OfADevice DEF Single, VendorType, SessionType
  <1>7. Owner(s, session[s], vendor[s], window, deferred, user)
          => Owner(s, x, v, window', deferred', user')
    BY <1>1, <1>2, OfASession DEF Owner, VendorType, SessionType
  <1>8. deferred' \in BOOLEAN /\ window' \in {NONE} \cup Sessions
    BY <1>1, <1>2 DEF IInv, Typed
  <1> HIDE DEF x, v
  <1> QED
    BY <1>2, <1>3, <1>4, <1>5, <1>6, <1>7, <1>8, Used

(* Stopping leaves a deferred start, which still waits for a window. *)
LEMMA StopPreviewKeeps ==
  ASSUME IInv, NEW s \in Sessions, StopPreview(s)
  PROVE  IInv'
  <1> DEFINE x == [session[s] EXCEPT !.wants = FALSE, !.lost = FALSE]
             v == [vendor[s] EXCEPT !.preview = FALSE]
  <1>1. /\ s \in Open1 /\ ~session[s].released
        /\ UNCHANGED <<window, deferred, user, shared>>
    BY DEF StopPreview, Uses, globals
  <1>2. x \in SessionType /\ x.stage = "open" /\ x.api = 1
    BY <1>1, OfASession, OfADevice DEF SessionType
  <1>3. v \in VendorType
    BY FALSE \in BOOLEAN, OfASession, VendorFields
  <1>4. /\ session' = [session EXCEPT ![s] = x]
        /\ vendor' = [vendor EXCEPT ![s] = v]
    BY OfASession DEF StopPreview, IInv, Typed
  <1>5. Single(x, v)
    BY <1>1, OfASession, OfADevice DEF Single, VendorType, SessionType
  <1>6. Owner(s, session[s], vendor[s], window, deferred, user)
          => Owner(s, x, v, window', deferred', user')
    BY <1>1, OfASession DEF Owner, VendorType, SessionType
  <1>7. deferred' \in BOOLEAN /\ window' \in {NONE} \cup Sessions
    BY <1>1 DEF IInv, Typed
  <1> HIDE DEF x, v
  <1> QED
    BY <1>1, <1>2, <1>3, <1>4, <1>5, <1>6, <1>7, Used

(* A step that changes only what the vendor does beside the preview *)
LEMMA Beside ==
  ASSUME IInv, NEW s \in Open1, NEW v \in VendorType,
         vendor' = [vendor EXCEPT ![s] = v],
         UNCHANGED <<session, window, deferred, user, shared>>,
         v.open = vendor[s].open, v.releases = vendor[s].releases,
         v.window = vendor[s].window, v.preview = vendor[s].preview,
         v.callbacks = vendor[s].callbacks
  PROVE  IInv'
  <1>1. Single(session[s], v)
    BY OfASession, OfADevice DEF Single
  <1>2. Owner(s, session[s], vendor[s], window, deferred, user)
          => Owner(s, session[s], v, window', deferred', user')
    BY DEF Owner
  <1>3. deferred' \in BOOLEAN /\ window' \in {NONE} \cup Sessions
    BY DEF IInv, Typed
  <1> QED
    BY <1>1, <1>2, <1>3, OfASession, OfADevice, Used

LEMMA ForwardKeeps ==
  ASSUME IInv, NEW s \in Sessions, NEW call \in Calls, NEW on \in BOOLEAN,
         Forward(s, call, on)
  PROVE  IInv'
  <1> DEFINE v == [vendor[s] EXCEPT !.on = IF on THEN @ \cup {call}
                                           ELSE @ \ {call}]
  <1>1. s \in Open1 /\ UNCHANGED <<session, window, deferred, user, shared>>
    BY DEF Forward, Uses, globals
  <1>2. v \in VendorType
    BY OfASession DEF VendorType
  <1>3. vendor' = [vendor EXCEPT ![s] = v]
    BY DEF Forward, IInv, Typed
  <1>4. /\ v.open = vendor[s].open /\ v.releases = vendor[s].releases
        /\ v.window = vendor[s].window /\ v.preview = vendor[s].preview
        /\ v.callbacks = vendor[s].callbacks
    BY OfASession DEF VendorType
  <1> HIDE DEF v
  <1> QED
    BY <1>1, <1>2, <1>3, <1>4, Beside

LEMMA SetParametersKeeps ==
  ASSUME IInv, NEW s \in Sessions, NEW p \in Settings, SetParameters(s, p)
  PROVE  IInv'
  <1>1. s \in Open1 /\ UNCHANGED <<session, window, deferred, user, shared>>
    BY DEF SetParameters, Uses, globals
  <1>2. CASE UNCHANGED vendor
    BY <1>1, <1>2, OfASession, Beside
  <1>3. CASE vendor' = [vendor EXCEPT ![s].params = Fixup(p)]
    <2> DEFINE v == [vendor[s] EXCEPT !.params = Fixup(p)]
    <2>1. v \in VendorType
      BY OfASession DEF VendorType, Strings
    <2>2. vendor' = [vendor EXCEPT ![s] = v]
      BY <1>3 DEF IInv, Typed
    <2>3. /\ v.open = vendor[s].open /\ v.releases = vendor[s].releases
          /\ v.window = vendor[s].window /\ v.preview = vendor[s].preview
          /\ v.callbacks = vendor[s].callbacks
      BY OfASession DEF VendorType
    <2> HIDE DEF v
    <2> QED
      BY <1>1, <2>1, <2>2, <2>3, Beside
  <1> QED
    BY <1>2, <1>3 DEF SetParameters

LEMMA ReleaseKeeps ==
  ASSUME IInv, NEW s \in Sessions, Release(s)
  PROVE  IInv'
  <1> DEFINE x == [session[s] EXCEPT !.released = TRUE, !.wants = FALSE,
                                     !.lost = FALSE]
             v == VendorRelease(vendor[s])
  <1>1. /\ s \in Open1 /\ ~session[s].released
        /\ UNCHANGED <<window, deferred, user, shared>>
    BY DEF Release, Uses, globals
  <1>2. x \in SessionType /\ x.stage = "open" /\ x.api = 1
    BY <1>1, OfASession, OfADevice DEF SessionType
  <1>3. v \in VendorType
    BY FALSE \in BOOLEAN, OfASession, VendorFields DEF VendorRelease
  <1>4. /\ session' = [session EXCEPT ![s] = x]
        /\ vendor' = [vendor EXCEPT ![s] = v]
    BY OfASession DEF Release, IInv, Typed
  <1>5. vendor[s].releases = 0
    BY <1>1, OfASession, OfADevice DEF Single, VendorType
  <1>6. Single(x, v)
    BY <1>1, <1>5, OfASession, OfADevice
       DEF Single, VendorType, SessionType, VendorRelease
  <1>7. Owner(s, session[s], vendor[s], window, deferred, user)
          => Owner(s, x, v, window', deferred', user')
    BY <1>1, OfASession DEF Owner, VendorType, SessionType, VendorRelease
  <1>8. deferred' \in BOOLEAN /\ window' \in {NONE} \cup Sessions
    BY <1>1 DEF IInv, Typed
  <1> HIDE DEF x, v
  <1> QED
    BY <1>1, <1>2, <1>3, <1>4, <1>6, <1>7, <1>8, Used

------------------------------------------------------------------------------
(* Closing *)
LEMMA Close3Keeps ==
  ASSUME IInv, NEW s \in Sessions, Close3(s)
  PROVE  IInv'
  <1> DEFINE x == Over
             v == VendorClose(vendor[s])
  <1>1. s \notin Open1 /\ UNCHANGED <<window, deferred, user, shared>>
    BY DEF Close3, Uses3, Open1, globals
  <1>2. x \in SessionType /\ x.stage = "closed"
    BY OverEnds
  <1>3. v \in VendorType
    BY OfASession, AtFirst DEF VendorType, VendorClose
  <1>4. /\ session' = [session EXCEPT ![s] = x]
        /\ vendor' = [vendor EXCEPT ![s] = v]
    BY OfASession DEF Close3, Closed, IInv, Typed
  <1>5. Single(x, v)
    BY <1>2, <1>3, OfASession, OverEnds DEF Single, VendorType, VendorClose, VendorDevice
  <1> HIDE DEF x, v
  <1> QED
    BY <1>1, <1>2, <1>3, <1>4, <1>5, Elsewhere

LEMMA Request3Keeps ==
  ASSUME IInv, NEW s \in Sessions, NEW capturing \in BOOLEAN,
         Request3(s, capturing)
  PROVE  IInv'
  <1> DEFINE v == [vendor[s] EXCEPT !.requests = capturing]
  <1>1. /\ s \notin Open1 /\ ~(session[s].stage = "open" /\ session[s].api = 1)
        /\ session[s].stage = "open" /\ vendor[s].open
        /\ UNCHANGED <<session, window, deferred, user, shared>>
    BY OfASession DEF Request3, Uses3, Open1, globals, Single
  <1>2. v \in VendorType
    BY OfASession DEF VendorType
  <1>3. vendor' = [vendor EXCEPT ![s] = v]
    BY DEF Request3, IInv, Typed
  <1>4. Single(session[s], v)
    BY <1>1, OfASession DEF Single, VendorType
  <1> HIDE DEF v
  <1> QED
    BY <1>1, <1>2, <1>3, <1>4, OfASession, Elsewhere

(* The last close of an API 1 device leaves clean globals, and no other *)
(* close ends an overlap.                                               *)
LEMMA Close1Keeps ==
  ASSUME IInv, NEW s \in Sessions, Close1(s)
  PROVE  IInv'
  <1> DEFINE x == Over
             v == VendorClose(IF session[s].released THEN vendor[s]
                              ELSE VendorRelease(vendor[s]))
  <1>1. /\ s \in Open1 /\ window' = NONE /\ ~deferred' /\ deferred' \in BOOLEAN
        /\ shared' = (shared /\ Open1 # {s})
    BY DEF Close1
  <1>2. x \in SessionType /\ x.stage = "closed"
    BY OverEnds
  <1>3. v \in VendorType
    BY OfASession, AtFirst DEF VendorType, VendorClose, VendorRelease
  <1>4. /\ session' = [session EXCEPT ![s] = x]
        /\ vendor' = [vendor EXCEPT ![s] = v]
    BY OfASession DEF Close1, Closed, IInv, Typed
  <1>5. ~session[s].released => vendor[s].releases = 0
    BY <1>1, OfASession, OfADevice DEF Single, VendorType
  <1>6. Single(x, v)
    BY <1>2, <1>3, <1>5, OfASession, OverEnds
       DEF Single, VendorType, VendorClose, VendorRelease, VendorDevice
  <1> HIDE DEF x, v
  <1>7. Open1' = IF x.stage = "open" /\ x.api = 1 THEN Open1 \cup {s}
                 ELSE Open1 \ {s}
    BY <1>2, <1>3, <1>4, <1>6, OneSession
  <1>8. Open1' = Open1 \ {s}
    BY <1>2, <1>7
  <1>9. Typed' /\ Singles'
    BY <1>1, <1>2, <1>3, <1>4, <1>6, OneSession DEF IInv, Typed
  <1>10. ~shared' => Open1' = {}
    BY <1>1, <1>8 DEF IInv, Alone
  <1> QED
    BY <1>1, <1>8, <1>9, <1>10 DEF IInv, Alone, Owned, NothingLeft

------------------------------------------------------------------------------
LEMMA NextIInv == IInv /\ [Next]_vars => IInv'
  <1> SUFFICES ASSUME IInv, [Next]_vars PROVE IInv'
    OBVIOUS
  <1>1. CASE UNCHANGED <<session, vendor, window, deferred, user, shared>>
    BY <1>1 DEF IInv, Typed, Singles, Alone, Owned, NothingLeft, Open1
  <1>2. CASE Die
    BY <1>2, DieKeeps
  <1>3. ASSUME NEW s \in Sessions, NEW api \in {1, 3},
               \/ LookupFails(s, api) \/ FileLookupFails(s, api)
               \/ \E id \in 0..Cameras : \/ OpenRefused(s, api, id)
                                         \/ OpenUnfinished(s, api, id)
        PROVE  IInv'
    BY <1>3, LookupFailsKeeps, OpenRefusedKeeps, OpenUnfinishedKeeps
  <1>4. ASSUME NEW s \in Sessions, NEW id \in 0..Cameras,
               Camera2DeviceOpen(s, id) \/ Camera3DeviceOpen(s, id)
        PROVE  IInv'
    BY <1>4, Camera2DeviceOpenKeeps, Camera3DeviceOpenKeeps
  <1>5. ASSUME NEW s \in Sessions,
               \/ \E w \in {NONE, s} : SetPreviewWindow(s, w)
               \/ SetCallbacks(s) \/ StartPreview(s) \/ StopPreview(s)
        PROVE  IInv'
    BY <1>5, SetPreviewWindowKeeps, SetCallbacksKeeps, StartPreviewKeeps,
       StopPreviewKeeps
  <1>6. ASSUME NEW s \in Sessions, NEW on \in BOOLEAN,
               \/ MsgType(s, on) \/ AutoFocus(s, on) \/ Picture(s, on)
               \/ Recording(s, on) \/ MetaDataInBuffers(s, on)
        PROVE  IInv'
    <2>1. \E call \in Calls : Forward(s, call, on)
      BY <1>6 DEF MsgType, AutoFocus, Picture, Recording, MetaDataInBuffers, Calls
    <2> QED
      BY <2>1, ForwardKeeps
  <1>7. ASSUME NEW s \in Sessions,
               \/ \E capturing \in BOOLEAN : Request3(s, capturing)
               \/ \E p \in Settings : SetParameters(s, p)
               \/ Release(s) \/ Close1(s) \/ Close3(s)
        PROVE  IInv'
    BY <1>7, Request3Keeps, SetParametersKeeps, ReleaseKeeps, Close1Keeps,
       Close3Keeps
  <1>8. CASE AskModule
    BY <1>1, <1>8 DEF AskModule, globals
  <1>9. CASE \E s \in Sessions :
               ReleaseRecordingFrame(s) \/ SendCommand(s) \/ Dump(s)
    BY <1>1, <1>9
       DEF ReleaseRecordingFrame, SendCommand, Dump, Passes, vars, globals
  <1>10. CASE UNCHANGED vars
    BY <1>1, <1>10 DEF vars, globals
  <1> QED
    BY <1>2, <1>3, <1>4, <1>5, <1>6, <1>7, <1>8, <1>9, <1>10 DEF Next

LEMMA Invariance == Spec => []IInv
  BY InitIInv, NextIInv, PTL DEF Spec

(* A preview that the camera service started runs once there is a window,   *)
(* in whatever order start_preview and set_preview_window come, however     *)
(* many sessions there are and whatever starts the vendor refuses - except  *)
(* a refused deferred start, of which camera2_set_preview_window tells      *)
(* nobody.                                                                  *)
THEOREM PreviewStarts == Spec => []StartedPreviewRuns
  <1>1. IInv => StartedPreviewRuns
    BY DEF IInv, Owned, Owner, StartedPreviewRuns, PreviewEnabled
  <1> QED
    BY <1>1, Invariance, PTL

(* No preview is shown that its session did not ask for: the window and the *)
(* deferred start of a session do not outlive its camera2_device_close.     *)
THEOREM NoStalePreview == Spec => []PreviewWasAsked
  <1>1. IInv => PreviewWasAsked
    BY DEF IInv, Owned, Owner, PreviewWasAsked
  <1> QED
    BY <1>1, Invariance, PTL

(* The callback wrappers hand the vendor's calls to the session whose       *)
(* device made them.                                                        *)
THEOREM CallbackReachesUser == Spec => []CallbackFindsUser
  <1>1. IInv => CallbackFindsUser
    BY DEF IInv, Owned, Owner, CallbackFindsUser
  <1> QED
    BY <1>1, Invariance, PTL

(* The vendor's device is never released by both the camera service and     *)
(* camera2_device_close, also when sessions overlap.                        *)
THEOREM NoSecondRelease == Spec => []ReleasedOnce
  <1>1. IInv => ReleasedOnce
    BY DEF IInv, Singles, Single, ReleasedOnce
  <1> QED
    BY <1>1, Invariance, PTL

------------------------------------------------------------------------------
(* The strings that camera2_set_parameters keeps *)

(* A string is kept for the id of an open session only, and it is one that   *)
(* the fix-up has made.                                                      *)
FixedUp == {Fixup(p) : p \in Settings}
KeptForOpen ==
  \A i \in DOMAIN fixed :
    fixed[i] # Unset => /\ \E s \in Open1 : session[s].id = i
                        /\ fixed[i] \in FixedUp

(* A step that closes no API 1 device, and keeps the strings or allocates    *)
(* their block                                                               *)
LEMMA NoneCloses ==
  ASSUME KeptForOpen,
         fixed' = fixed \/ \A i \in DOMAIN fixed' : fixed'[i] = Unset,
         \A s \in Open1 : s \in Open1' /\ session'[s].id = session[s].id
  PROVE  KeptForOpen'
  BY DEF KeptForOpen, FixedUp, Fixup, Flatten

LEMMA EnterAllocates ==
  ASSUME NEW api, Enter(api)
  PROVE  fixed' = fixed \/ \A i \in DOMAIN fixed' : fixed'[i] = Unset
  BY DEF Enter

LEMMA NextKept ==
  ASSUME IInv, KeptForOpen, [Next]_vars
  PROVE  KeptForOpen'
  <1>0. session \in [Sessions -> SessionType]
    BY DEF IInv, Typed
  <1>1. CASE UNCHANGED <<session, fixed>>
    BY <1>1, NoneCloses DEF Open1
  <1>2. CASE Die
    <2>1. fixed' = <<>>
      BY <1>2 DEF Die
    <2>2. DOMAIN <<>> = {}
      OBVIOUS
    <2> QED
      BY <2>1, <2>2 DEF KeptForOpen
  <1>3. ASSUME NEW s \in Sessions, NEW api,
               LookupFails(s, api) \/ FileLookupFails(s, api)
        PROVE  KeptForOpen'
    <2>1. /\ fixed' = fixed /\ session[s].stage = "none"
          /\ \A r \in Sessions : r # s => session'[r] = session[r]
      BY <1>0, <1>3 DEF LookupFails, FileLookupFails, Fresh
    <2> QED
      BY <2>1, NoneCloses DEF Open1
  <1>4. ASSUME NEW s \in Sessions, NEW api, NEW id,
               \/ OpenRefused(s, api, id) \/ OpenUnfinished(s, api, id)
               \/ Open(s, api, id)
        PROVE  KeptForOpen'
    <2>1. /\ Enter(api) /\ session[s].stage = "none"
          /\ \A r \in Sessions : r # s => session'[r] = session[r]
      BY <1>0, <1>4 DEF OpenRefused, OpenUnfinished, Open, Fresh
    <2> QED
      BY <2>1, EnterAllocates, NoneCloses DEF Open1
  <1>5. ASSUME NEW s \in Sessions,
               \/ StartPreview(s) \/ StopPreview(s) \/ Release(s)
               \/ \E w \in {NONE, s} : SetPreviewWindow(s, w)
        PROVE  KeptForOpen'
    <2>1. /\ fixed' = fixed
          /\ \A r \in Sessions : /\ session'[r].stage = session[r].stage
                                 /\ session'[r].api = session[r].api
                                 /\ session'[r].id = session[r].id
      <3>1. CASE StartPreview(s)
        BY <1>0, <3>1 DEF StartPreview, SessionType
      <3>2. CASE StopPreview(s) \/ Release(s)
        BY <1>0, <3>2 DEF StopPreview, Release, SessionType
      <3>3. ASSUME NEW w \in {NONE, s}, SetPreviewWindow(s, w)
            PROVE  /\ fixed' = fixed
                   /\ \/ session' = session
                      \/ \E c : session' = [session EXCEPT ![s].lost = c]
        BY <3>3 DEF SetPreviewWindow
      <3>4. CASE \E w \in {NONE, s} : SetPreviewWindow(s, w)
        BY <1>0, <3>3, <3>4 DEF SessionType
      <3> QED
        BY <1>5, <3>1, <3>2, <3>4
    <2> QED
      BY <2>1, NoneCloses DEF Open1
  <1>6. ASSUME NEW s \in Sessions, NEW p \in Settings, SetParameters(s, p)
        PROVE  KeptForOpen'
    <2>1. /\ s \in Open1 /\ session' = session
          /\ fixed' = [fixed EXCEPT ![session[s].id] = Fixup(p)]
      BY <1>6 DEF SetParameters, Uses
    <2>2. Open1' = Open1
      BY <2>1 DEF Open1
    <2>3. Fixup(p) \in FixedUp
      BY DEF FixedUp
    <2> HIDE DEF FixedUp
    <2>4. ASSUME NEW i \in DOMAIN fixed', fixed'[i] # Unset
          PROVE  (\E r \in Open1' : session'[r].id = i) /\ fixed'[i] \in FixedUp
      BY <2>1, <2>2, <2>3, <2>4 DEF KeptForOpen
    <2> QED
      BY <2>4 DEF KeptForOpen, FixedUp
  <1>7. ASSUME NEW s \in Sessions, Close1(s)
        PROVE  KeptForOpen'
    <2>1. /\ fixed' = [fixed EXCEPT ![session[s].id] = Unset]
          /\ \A r \in Sessions : r # s => session'[r] = session[r]
      BY <1>0, <1>7 DEF Close1, Closed
    <2>2. \A r \in Open1 : r # s => r \in Open1' /\ session'[r].id = session[r].id
      BY <2>1 DEF Open1
    <2>3. ASSUME NEW i \in DOMAIN fixed', fixed'[i] # Unset
          PROVE  (\E r \in Open1' : session'[r].id = i) /\ fixed'[i] \in FixedUp
      <3>1. i \in DOMAIN fixed /\ i # session[s].id /\ fixed'[i] = fixed[i]
        BY <2>1, <2>3
      <3> QED
        BY <2>2, <2>3, <3>1 DEF KeptForOpen
    <2> QED
      BY <2>3 DEF KeptForOpen, FixedUp
  <1>8. ASSUME NEW s \in Sessions, Close3(s)
        PROVE  KeptForOpen'
    <2>1. /\ fixed' = fixed /\ s \notin Open1
          /\ \A r \in Sessions : r # s => session'[r] = session[r]
      BY <1>0, <1>8 DEF Close3, Closed, Uses3, Open1
    <2> QED
      BY <2>1, NoneCloses DEF Open1
  <1>9. ASSUME NEW s \in Sessions,
               \/ SetCallbacks(s)
               \/ \E on \in BOOLEAN : \/ MsgType(s, on) \/ AutoFocus(s, on)
                                      \/ Picture(s, on) \/ Recording(s, on)
                                      \/ MetaDataInBuffers(s, on)
               \/ ReleaseRecordingFrame(s) \/ SendCommand(s) \/ Dump(s)
               \/ \E capturing \in BOOLEAN : Request3(s, capturing)
        PROVE  KeptForOpen'
    BY <1>1, <1>9
       DEF SetCallbacks, MsgType, AutoFocus, Picture, Recording,
           MetaDataInBuffers, Forward, ReleaseRecordingFrame, SendCommand, Dump,
           Passes, vars, Request3
  <1>10. CASE AskModule \/ UNCHANGED vars
    BY <1>1, <1>10 DEF AskModule, vars
  <1>11. ASSUME NEW s \in Sessions, NEW api \in {1, 3},
                \/ LookupFails(s, api) \/ FileLookupFails(s, api)
                \/ \E id \in 0..Cameras : \/ OpenRefused(s, api, id)
                                          \/ OpenUnfinished(s, api, id)
         PROVE  KeptForOpen'
    BY <1>3, <1>4, <1>11
  <1>12. ASSUME NEW s \in Sessions, NEW id \in 0..Cameras,
                Camera2DeviceOpen(s, id) \/ Camera3DeviceOpen(s, id)
         PROVE  KeptForOpen'
    BY <1>4, <1>12 DEF Camera2DeviceOpen, Camera3DeviceOpen
  <1>13. ASSUME NEW s \in Sessions, \E p \in Settings : SetParameters(s, p)
         PROVE  KeptForOpen'
    BY <1>6, <1>13
  <1> QED
    BY <1>2, <1>5, <1>7, <1>8, <1>9, <1>10, <1>11, <1>12, <1>13 DEF Next

------------------------------------------------------------------------------
(* The strings between the camera service, the wrapper and the vendor *)

(* Texts are strings; that a literal is one, the provers do not know by       *)
(* themselves.                                                               *)
KeyNames == {"preview-size", "picture-size", "video-size", "preview-format",
             "picture-format", "preview-frame-rate", "jpeg-quality"}
Texts == STRING \cup KeyNames \cup FormatNames \cup {"=", ";", "x"}

(* A sequence of strings is one of texts. *)
LEMMA StringTexts ==
  ASSUME NEW s \in Seq(STRING) PROVE s \in Seq(Texts)
<1>1. STRING \subseteq Texts
  BY Zenon DEF Texts
<1>2. QED
  BY <1>1, SeqMonotonic, Zenon

(* Induction over numbers, for a set of them *)
LEMMA Induction ==
  ASSUME NEW P \in SUBSET Nat, 0 \in P, \A n \in P : n + 1 \in P
  PROVE  P = Nat
<1> SUFFICES ASSUME Nat \ P # {} PROVE FALSE
  OBVIOUS
<1>1. PICK n \in Nat \ P : \A j \in Nat \ P : ~(<<j, n>> \in OpToRel(<, Nat))
  BY WFMin, NatLessThanWellFounded
<1>2. n \in Nat /\ n \notin P /\ n # 0
  OBVIOUS
<1>3. ~(<<n - 1, n>> \in OpToRel(<, Nat)) \/ n - 1 \in P
  <2>1. n - 1 \in Nat
    BY <1>2
  <2>2. QED
    BY <1>1, <2>1, Zenon
<1>4. n - 1 \in Nat /\ n - 1 + 1 = n /\ <<n - 1, n>> \in OpToRel(<, Nat)
  BY <1>2 DEF OpToRel
<1>5. n - 1 \in P
  BY <1>3, <1>4, Zenon
<1>6. QED
  BY <1>2, <1>4, <1>5

(* The least of a set of numbers *)
LEMMA MinIs ==
  ASSUME NEW I \in SUBSET Nat, I # {}
  PROVE  Min(I) \in I /\ \A j \in I : Min(I) <= j
<1>1. PICK k \in I : \A j \in I : ~(<<j, k>> \in OpToRel(<, Nat))
  BY WFMin, NatLessThanWellFounded
<1>2. ASSUME NEW j \in I PROVE k <= j
  <2>1. k \in Nat /\ j \in Nat
    OBVIOUS
  <2>2. ~(<<j, k>> \in OpToRel(<, Nat))
    BY <1>1, Zenon
  <2>3. QED
    BY <2>1, <2>2 DEF OpToRel
<1>3. QED
  BY <1>2 DEF Min

(* strchr finds the first one. *)
LEMMA FindFirst ==
  ASSUME NEW s \in Seq(Texts), NEW c, NEW i \in Nat \ {0}
  PROVE  \/ /\ Find(s, c, i) = 0
            /\ \A j \in i..Len(s) : s[j] # c
         \/ /\ Find(s, c, i) \in i..Len(s) /\ s[Find(s, c, i)] = c
            /\ \A j \in i..Find(s, c, i) - 1 : s[j] # c
<1> DEFINE I == {j \in i..Len(s) : s[j] = c}
<1>1. Find(s, c, i) = IF I # {} THEN Min(I) ELSE 0
  BY DEF Find, SelectInSubSeq
<1>2. ASSUME I # {} PROVE Min(I) \in I /\ \A j \in I : Min(I) <= j
  <2>1. I \in SUBSET Nat
    OBVIOUS
  <2> HIDE DEF I
  <2>2. QED
    BY <1>2, <2>1, MinIs
<1>3. CASE I = {}
  BY <1>1, <1>3
<1>4. CASE I # {}
  <2> DEFINE f == Find(s, c, i)
  <2>1. f \in i..Len(s) /\ s[f] = c /\ \A j \in I : f <= j
    BY <1>1, <1>2, <1>4
  <2> HIDE DEF f
  <2>2. \A j \in i..f - 1 : s[j] # c
    BY <2>1
  <2>3. QED
    BY <2>1, <2>2 DEF f
<1>5. QED
  BY <1>3, <1>4

(* The position that is the first one is the one strchr returns. *)
LEMMA FindIs ==
  ASSUME NEW s \in Seq(Texts), NEW c, NEW i \in Nat \ {0},
         NEW k \in i..Len(s), s[k] = c, \A j \in i..k - 1 : s[j] # c
  PROVE  Find(s, c, i) = k
<1> DEFINE f == Find(s, c, i)
<1>1. \/ f = 0 /\ \A j \in i..Len(s) : s[j] # c
      \/ f \in i..Len(s) /\ s[f] = c /\ \A j \in i..f - 1 : s[j] # c
  BY FindFirst
<1> HIDE DEF f
<1>2. f \in i..Len(s) /\ s[f] = c /\ \A j \in i..f - 1 : s[j] # c
  BY <1>1
<1>3. ~(f < k) /\ ~(k < f)
  BY <1>2
<1>4. QED
  BY <1>2, <1>3 DEF f

(* The fields of unflatten's loop *)
Semi == ";"
ItemsFrom(s, i, Items) ==
  LET e == Find(s, "=", i)
      z == Find(s, Semi, e + 1)
      Key == SubSeq(s, i, e - 1)
  IN  IF e = 0 THEN NoParams
      ELSE IF z = 0 THEN Add(NoParams, Key, SubSeq(s, e + 1, Len(s)))
      ELSE AddBefore(Items[z + 1], Key, SubSeq(s, e + 1, z - 1))
Reading(s) == CHOOSE Items : Items = [i \in 1..Len(s) + 1 |-> ItemsFrom(s, i, Items)]

(* unflatten returns what its loop reads from the first position. *)
LEMMA UnflattenReads ==
  ASSUME NEW s PROVE Unflatten(s) = Reading(s)[1]
BY Zenon DEF Unflatten, Reading, ItemsFrom, Semi

(* The loop reads on after an item only, so what it reads from i on depends  *)
(* on what it reads from later positions.                                    *)
LEMMA ItemsLater ==
  ASSUME NEW s \in Seq(Texts), NEW i \in 1..Len(s) + 1, NEW F, NEW G,
         \A j \in i + 1..Len(s) + 1 : F[j] = G[j]
  PROVE  ItemsFrom(s, i, F) = ItemsFrom(s, i, G)
<1> DEFINE e == Find(s, "=", i)
           z == Find(s, Semi, e + 1)
<1>1. Len(s) \in Nat /\ i \in Nat \ {0}
  OBVIOUS
<1>2. e = 0 \/ e \in i..Len(s)
  BY <1>1, FindFirst
<1>3. ASSUME e # 0, z # 0 PROVE z + 1 \in i + 1..Len(s) + 1
  <2>1. e \in i..Len(s)
    BY <1>2, <1>3
  <2> HIDE DEF e
  <2>2. e + 1 \in Nat \ {0}
    BY <1>1, <2>1
  <2>3. z = 0 \/ z \in e + 1..Len(s)
    BY <2>2, FindFirst
  <2> HIDE DEF z
  <2>4. QED
    BY <1>1, <1>3, <2>1, <2>3
<1>4. e # 0 /\ z # 0 => F[z + 1] = G[z + 1]
  BY <1>3
<1>5. QED
  BY <1>4 DEF ItemsFrom

(* The loop is well defined: what it reads from a position follows from what *)
(* it reads from later ones, from the end of the string back to its start.   *)
LEMMA ReadingFits ==
  ASSUME NEW s \in Seq(Texts)
  PROVE  Reading(s) = [i \in 1..Len(s) + 1 |-> ItemsFrom(s, i, Reading(s))]
<1> DEFINE L == Len(s) + 1
           P == {n \in Nat : n < L =>
                   \E F : F = [i \in L - n..L |-> ItemsFrom(s, i, F)]}
<1>1. L \in Nat /\ L >= 1
  OBVIOUS
<1>2. 0 \in P
  <2> DEFINE F == [i \in L - 0..L |-> ItemsFrom(s, i, 0)]
  <2>1. \A i \in L - 0..L : ItemsFrom(s, i, F) = ItemsFrom(s, i, 0)
    <3> SUFFICES ASSUME NEW i \in L - 0..L PROVE ItemsFrom(s, i, F) = ItemsFrom(s, i, 0)
      OBVIOUS
    <3>1. i \in 1..Len(s) + 1 /\ \A j \in i + 1..Len(s) + 1 : F[j] = (0)[j]
      BY <1>1
    <3> HIDE DEF F
    <3>2. QED
      BY <3>1, ItemsLater
  <2>2. F = [i \in L - 0..L |-> ItemsFrom(s, i, F)]
    BY <2>1
  <2>3. QED
    BY <2>2
<1>3. ASSUME NEW n \in P PROVE n + 1 \in P
  <2> SUFFICES ASSUME n + 1 < L
               PROVE  \E G : G = [i \in L - (n + 1)..L |-> ItemsFrom(s, i, G)]
    BY <1>1
  <2>1. PICK F : F = [i \in L - n..L |-> ItemsFrom(s, i, F)]
    BY <1>1
  <2> DEFINE k == L - (n + 1)
             G == [i \in k..L |-> IF i = k THEN ItemsFrom(s, k, F) ELSE F[i]]
  <2>2. k \in 1..L /\ k + 1 = L - n
    BY <1>1
  <2>3. ASSUME NEW i \in k..L PROVE ItemsFrom(s, i, G) = ItemsFrom(s, i, F)
    <3>1. i \in 1..Len(s) + 1
      BY <1>1, <2>2
    <3>2. \A j \in i + 1..Len(s) + 1 : G[j] = F[j]
      BY <1>1, <2>2
    <3> HIDE DEF G
    <3>3. QED
      BY <3>1, <3>2, ItemsLater
  <2>4. ASSUME NEW i \in k..L PROVE G[i] = ItemsFrom(s, i, F)
    <3>1. CASE i = k
      BY <3>1
    <3>2. CASE i # k
      <4>1. i \in L - n..L
        <5>1. n \in Int
          BY <1>3
        <5> HIDE DEF P, G
        <5>2. QED
          BY <1>1, <2>2, <3>2, <5>1
      <4>2. F[i] = ItemsFrom(s, i, F)
        BY <2>1, <4>1
      <4>3. QED
        BY <3>2, <4>2
    <3>3. QED
      BY <3>1, <3>2
  <2>5. G = [i \in k..L |-> G[i]]
    OBVIOUS
  <2> HIDE DEF G
  <2>6. G = [i \in k..L |-> ItemsFrom(s, i, G)]
    BY <2>3, <2>4, <2>5
  <2>7. QED
    BY <2>6
<1>4. P = Nat
  <2> HIDE DEF P
  <2>1. P \in SUBSET Nat
    BY DEF P
  <2>2. QED
    BY <1>2, <1>3, <2>1, Induction
<1>5. \E F : F = [i \in L - (L - 1)..L |-> ItemsFrom(s, i, F)]
  <2>1. L - 1 \in Nat /\ L - 1 < L
    BY <1>1
  <2>2. L - 1 \in P
    BY <1>4, <2>1
  <2>3. QED
    BY <2>1, <2>2
<1>6. L - (L - 1) = 1
  BY <1>1
<1>7. \E F : F = [i \in 1..Len(s) + 1 |-> ItemsFrom(s, i, F)]
  BY <1>5, <1>6
<1>8. QED
  BY <1>7, Zenon DEF Reading

(* One round of the loop *)
LEMMA ReadingAt ==
  ASSUME NEW s \in Seq(Texts), NEW i \in 1..Len(s) + 1
  PROVE  Reading(s)[i] = ItemsFrom(s, i, Reading(s))
BY ReadingFits

(* Counting down *)
LEMMA Downwards ==
  ASSUME NEW L \in Nat, NEW S \in SUBSET (1..L),
         \A i \in 1..L : (i + 1..L \subseteq S) => i \in S
  PROVE  S = 1..L
<1> DEFINE P == {n \in Nat : n <= L => L - n + 1..L \subseteq S}
<1>1. 0 \in P
  OBVIOUS
<1>2. ASSUME NEW n \in P PROVE n + 1 \in P
  <2> SUFFICES ASSUME n + 1 <= L PROVE L - (n + 1) + 1..L \subseteq S
    OBVIOUS
  <2>1. n \in Nat /\ L - n + 1..L \subseteq S
    OBVIOUS
  <2>2. L - n \in 1..L
    BY <2>1
  <2>3. L - n \in S
    BY <2>1, <2>2
  <2> HIDE DEF P
  <2>4. \A i \in L - (n + 1) + 1..L : i = L - n \/ i \in L - n + 1..L
    BY <2>1
  <2>5. QED
    BY <2>1, <2>3, <2>4
<1>3. P = Nat
  <2> HIDE DEF P
  <2>1. P \in SUBSET Nat
    BY DEF P
  <2>2. QED
    BY <1>1, <1>2, <2>1, Induction
<1>4. L \in P
  BY <1>3
<1>5. L - L + 1..L \subseteq S
  <2>1. L <= L
    OBVIOUS
  <2>2. QED
    BY <1>4, <2>1
<1>6. L - L + 1 = 1
  OBVIOUS
<1>7. QED
  BY <1>5, <1>6, Zenon

(* A text without a character *)
Plain(s, c) == s \in Seq(Texts) /\ \A i \in DOMAIN s : s[i] # c

(* What every map holds *)
ParamMap(m) ==
  /\ IsFiniteSet(DOMAIN m)
  /\ m = [k \in DOMAIN m |-> m[k]]
  /\ \A k \in DOMAIN m : Plain(k, "=") /\ Plain(m[k], Semi)

(* A part of a string that avoids a character *)
LEMMA PartPlain ==
  ASSUME NEW s \in Seq(Texts), NEW c, NEW i \in 1..Len(s) + 1, NEW j \in i - 1..Len(s),
         \A l \in i..j : s[l] # c
  PROVE  Plain(SubSeq(s, i, j), c)
<1> DEFINE r == SubSeq(s, i, j)
<1>1. \A l \in i..j : s[l] \in Texts
  OBVIOUS
<1>2. /\ r \in Seq(Texts) /\ Len(r) = j - i + 1
      /\ \A l \in 1..j - i + 1 : r[l] = s[i + l - 1]
  BY <1>1
<1> HIDE DEF r
<1>3. \A l \in 1..j - i + 1 : i + l - 1 \in i..j
  OBVIOUS
<1>4. \A l \in DOMAIN r : r[l] # c
  BY <1>2, <1>3
<1>5. QED
  BY <1>2, <1>4 DEF Plain, r

(* The empty map is one, *)
LEMMA NoParamsMap == ParamMap(NoParams)
<1>1. DOMAIN NoParams = {}
  BY DEF NoParams
<1>2. NoParams = [k \in DOMAIN NoParams |-> NoParams[k]]
  BY DEF NoParams
<1>3. QED
  BY <1>1, <1>2, FS_EmptySet DEF ParamMap

(* and so is a map with one more item, which holds the new value and the     *)
(* other ones as they were.                                                  *)
LEMMA AddMap ==
  ASSUME NEW m, ParamMap(m), NEW k, NEW v, Plain(k, "="), Plain(v, Semi)
  PROVE  /\ ParamMap(Add(m, k, v)) /\ DOMAIN Add(m, k, v) = DOMAIN m \cup {k}
         /\ Add(m, k, v)[k] = v
         /\ \A l \in DOMAIN m \ {k} : Add(m, k, v)[l] = m[l]
<1> DEFINE a == Add(m, k, v)
<1>1. /\ DOMAIN a = DOMAIN m \cup {k} /\ a[k] = v
      /\ \A l \in DOMAIN m \ {k} : a[l] = m[l]
  BY DEF Add
<1>2. a = [l \in DOMAIN a |-> a[l]]
  BY DEF Add
<1>3. IsFiniteSet(DOMAIN m \cup {k})
  BY FS_AddElement DEF ParamMap
<1> HIDE DEF a
<1>4. \A l \in DOMAIN a : Plain(l, "=") /\ Plain(a[l], Semi)
  BY <1>1 DEF ParamMap
<1>5. ParamMap(a)
  BY <1>1, <1>2, <1>3, <1>4 DEF ParamMap
<1>6. QED
  BY <1>1, <1>5 DEF a

(* One round of unflatten makes a map of a map: the key ends at the first    *)
(* "=", the value at the first ";".                                          *)
LEMMA ItemsMap ==
  ASSUME NEW s \in Seq(Texts), NEW i \in 1..Len(s) + 1, NEW F,
         \A j \in i + 1..Len(s) + 1 : ParamMap(F[j])
  PROVE  ParamMap(ItemsFrom(s, i, F))
<1>1. Len(s) \in Nat /\ i \in Nat \ {0}
  OBVIOUS
<1>2. PICK e : e = Find(s, "=", i)
  OBVIOUS
<1>3. PICK z : z = Find(s, Semi, e + 1)
  OBVIOUS
<1>4. PICK key : key = SubSeq(s, i, e - 1)
  OBVIOUS
<1>5. ItemsFrom(s, i, F) =
        IF e = 0 THEN NoParams
        ELSE IF z = 0 THEN Add(NoParams, key, SubSeq(s, e + 1, Len(s)))
        ELSE AddBefore(F[z + 1], key, SubSeq(s, e + 1, z - 1))
  BY <1>2, <1>3, <1>4 DEF ItemsFrom
<1>6. CASE e = 0
  BY <1>5, <1>6, NoParamsMap
<1>7. CASE e # 0
  <2>1. e \in i..Len(s) /\ \A j \in i..e - 1 : s[j] # "="
    BY <1>1, <1>2, <1>7, FindFirst, Zenon
  <2>2. /\ e + 1 \in Nat \ {0} /\ e + 1 \in 1..Len(s) + 1
        /\ e - 1 \in i - 1..Len(s) /\ Len(s) \in e + 1 - 1..Len(s)
    BY <1>1, <2>1
  <2>3. Plain(key, "=")
    BY <1>4, <2>1, <2>2, PartPlain
  <2>4. \/ z = 0 /\ \A j \in e + 1..Len(s) : s[j] # Semi
        \/ z \in e + 1..Len(s) /\ \A j \in e + 1..z - 1 : s[j] # Semi
    BY <1>3, <2>2, FindFirst, Zenon
  <2>5. CASE z = 0
    <3>1. \A j \in e + 1..Len(s) : s[j] # Semi
      BY <1>1, <2>1, <2>4, <2>5
    <3>2. Plain(SubSeq(s, e + 1, Len(s)), Semi)
      BY <2>2, <3>1, PartPlain
    <3>3. ItemsFrom(s, i, F) = Add(NoParams, key, SubSeq(s, e + 1, Len(s)))
      BY <1>5, <1>7, <2>5, Zenon
    <3>4. ParamMap(Add(NoParams, key, SubSeq(s, e + 1, Len(s))))
      BY <2>3, <3>2, NoParamsMap, AddMap
    <3>5. QED
      BY <3>3, <3>4, Zenon
  <2>6. CASE z # 0
    <3>1. z \in e + 1..Len(s) /\ \A j \in e + 1..z - 1 : s[j] # Semi
      BY <2>4, <2>6
    <3>2. z - 1 \in e + 1 - 1..Len(s) /\ z + 1 \in i + 1..Len(s) + 1
      BY <1>1, <2>1, <3>1
    <3>3. Plain(SubSeq(s, e + 1, z - 1), Semi)
      BY <2>2, <3>1, <3>2, PartPlain
    <3>4. ParamMap(F[z + 1])
      BY <3>2
    <3>5. ItemsFrom(s, i, F) = AddBefore(F[z + 1], key, SubSeq(s, e + 1, z - 1))
      BY <1>5, <1>7, <2>6, Zenon
    <3>6. ParamMap(Add(F[z + 1], key, SubSeq(s, e + 1, z - 1)))
      BY <2>3, <3>3, <3>4, AddMap
    <3>7. QED
      BY <3>4, <3>5, <3>6, Zenon DEF AddBefore
  <2>7. QED
    BY <2>5, <2>6
<1>8. QED
  BY <1>6, <1>7

(* From the end of the string back to its start *)
LEMMA ReadingMap ==
  ASSUME NEW s \in Seq(Texts) PROVE \A i \in 1..Len(s) + 1 : ParamMap(Reading(s)[i])
<1> DEFINE S == {i \in 1..Len(s) + 1 : ParamMap(Reading(s)[i])}
<1>1. ASSUME NEW i \in 1..Len(s) + 1, i + 1..Len(s) + 1 \subseteq S
      PROVE  i \in S
  <2>1. \A j \in i + 1..Len(s) + 1 : ParamMap(Reading(s)[j])
    BY <1>1
  <2>2. ParamMap(ItemsFrom(s, i, Reading(s)))
    BY <2>1, ItemsMap
  <2>3. QED
    BY <2>2, ReadingAt
<1>2. S \in SUBSET (1..Len(s) + 1) /\ Len(s) + 1 \in Nat
  OBVIOUS
<1> HIDE DEF S
<1>3. S = 1..Len(s) + 1
  BY <1>1, <1>2, Downwards
<1>4. QED
  BY <1>3 DEF S

(* Whatever the string, what unflatten reads is such a map. *)
LEMMA UnflattenMap ==
  ASSUME NEW s \in Seq(Texts) PROVE ParamMap(Unflatten(s))
<1>1. 1 \in 1..Len(s) + 1
  OBVIOUS
<1>2. QED
  BY <1>1, UnflattenReads, ReadingMap

(* set() adds an item that can be told apart in the string, or nothing. *)
LEMMA SetMap ==
  ASSUME NEW m, ParamMap(m), NEW k \in Seq(Texts), NEW v \in Seq(Texts)
  PROVE  /\ ParamMap(Set(m, k, v))
         /\ \/ Set(m, k, v) = m
            \/ Plain(k, "=") /\ Plain(v, Semi) /\ Set(m, k, v) = Add(m, k, v)
<1>1. CASE \E c \in {"=", ";"} : Contains(k, c) \/ Contains(v, c)
  BY <1>1, Zenon DEF Set
<1>2. CASE \A c \in {"=", ";"} : ~Contains(k, c) /\ ~Contains(v, c)
  <2>1. Set(m, k, v) = Add(m, k, v)
    BY <1>2, Zenon DEF Set
  <2>2. ~Contains(k, "=") /\ ~Contains(v, Semi)
    BY <1>2, Zenon DEF Semi
  <2>3. Plain(k, "=") /\ Plain(v, Semi)
    BY <2>2 DEF Plain, Contains
  <2>4. ParamMap(Add(m, k, v))
    BY <2>3, AddMap
  <2>5. QED
    BY <2>1, <2>3, <2>4, Zenon
<1>3. QED
  BY <1>1, <1>2, Zenon

(* A value in which set() finds nothing to refuse is in the map. *)
LEMMA SetAdds ==
  ASSUME NEW m, NEW k \in Seq(Texts), NEW v \in Seq(Texts),
         Plain(k, "="), Plain(k, Semi), Plain(v, "="), Plain(v, Semi)
  PROVE  Set(m, k, v) = Add(m, k, v)
<1>1. ~Contains(k, "=") /\ ~Contains(k, Semi) /\ ~Contains(v, "=") /\ ~Contains(v, Semi)
  BY DEF Plain, Contains
<1>2. \A c \in {"=", ";"} : ~Contains(k, c) /\ ~Contains(v, c)
  BY <1>1, Zenon DEF Semi
<1>3. QED
  BY <1>2, Zenon DEF Set

(* remove() leaves a map. *)
LEMMA RemoveKeyMap ==
  ASSUME NEW m, ParamMap(m), NEW k
  PROVE  ParamMap(RemoveKey(m, k))
<1> DEFINE r == RemoveKey(m, k)
<1>1. /\ DOMAIN r = DOMAIN m \ {k} /\ r = [l \in DOMAIN r |-> r[l]]
      /\ \A l \in DOMAIN r : r[l] = m[l]
  BY DEF RemoveKey
<1>2. IsFiniteSet(DOMAIN m \ {k})
  BY FS_RemoveElement DEF ParamMap
<1> HIDE DEF r
<1>3. ParamMap(r)
  BY <1>1, <1>2 DEF ParamMap
<1>4. QED
  BY <1>3 DEF r

(* The text of a number *)
LEMMA FormatIs ==
  ASSUME NEW t \in DOMAIN Numerals
  PROVE  /\ Format(Numerals[t]) \in DOMAIN Numerals
         /\ Numerals[Format(Numerals[t])] = Numerals[t]
<1>1. \E u \in DOMAIN Numerals : Numerals[u] = Numerals[t]
  BY Zenon
<1>2. QED
  BY <1>1, Zenon DEF Format

(* A numeral is none of the characters the code looks for. *)
LEMMA NumeralText ==
  ASSUME NEW t \in DOMAIN Numerals
  PROVE  /\ t \in Texts /\ t # "=" /\ t # Semi /\ t # "x" /\ t # ","
         /\ Numerals[t] \in Int
BY NumeralsAssumption, Zenon DEF Semi, Texts

(* A value of one text, *)
LEMMA OneText ==
  ASSUME NEW t \in Texts, t # "=", t # Semi
  PROVE  <<t>> \in Seq(Texts) /\ Plain(<<t>>, "=") /\ Plain(<<t>>, Semi)
BY DEF Plain

(* that of a size, *)
LEMMA SizeText ==
  ASSUME NEW t \in DOMAIN Numerals, NEW u \in DOMAIN Numerals
  PROVE  /\ <<t, "x", u>> \in Seq(Texts)
         /\ Plain(<<t, "x", u>>, "=") /\ Plain(<<t, "x", u>>, Semi)
<1> DEFINE x == "x"
<1>1. /\ t \in Texts /\ t # "=" /\ t # Semi /\ u \in Texts /\ u # "=" /\ u # Semi
  BY NumeralText
<1>2. x \in Texts /\ x # "=" /\ x # Semi
  BY Zenon DEF Semi, Texts
<1> HIDE DEF x
<1>3. /\ <<t, x, u>> \in Seq(Texts)
      /\ Plain(<<t, x, u>>, "=") /\ Plain(<<t, x, u>>, Semi)
  BY <1>1, <1>2 DEF Plain
<1>4. QED
  BY <1>3, Zenon DEF x

(* the keys of the setters *)
LEMMA KeyText ==
  /\ \A keys \in {PreviewKeys, PictureKeys, VideoKeys} :
       \E t \in Texts : keys.size = <<t>> /\ t # "=" /\ t # Semi
  /\ \A keys \in {PreviewKeys, PictureKeys} :
       \E t \in Texts : keys.format = <<t>> /\ t # "=" /\ t # Semi
  /\ \E t \in Texts : PreviewKeys.rate = <<t>> /\ t # "=" /\ t # Semi
  /\ \E t \in Texts : FileKeys.quality = <<t>> /\ t # "=" /\ t # Semi
<1>1. /\ PreviewKeys.size = <<"preview-size">> /\ PictureKeys.size = <<"picture-size">>
      /\ VideoKeys.size = <<"video-size">>
      /\ PreviewKeys.format = <<"preview-format">>
      /\ PictureKeys.format = <<"picture-format">>
      /\ PreviewKeys.rate = <<"preview-frame-rate">>
      /\ FileKeys.quality = <<"jpeg-quality">>
  BY DEF PreviewKeys, PictureKeys, VideoKeys, FileKeys
<1>2. \A t \in KeyNames : t \in Texts /\ t # "=" /\ t # Semi
  BY Zenon DEF KeyNames, Texts, Semi
<1>3. \A t \in KeyNames : \E u \in Texts : <<t>> = <<u>> /\ u # "=" /\ u # Semi
  BY <1>2, Zenon
<1>4. QED
  BY <1>1, <1>3, Zenon DEF KeyNames

(* and the names of formats are none of them either. *)
LEMMA FormatText ==
  ASSUME NEW f \in FormatNames
  PROVE  f \in Texts /\ f # "=" /\ f # Semi
BY Zenon DEF FormatNames, Semi, Texts

(* What the setters are, as one item of the map *)
SizeAdded(m, keys, t, u) ==
  \E a, b \in DOMAIN Numerals :
    /\ Numerals[a] = Numerals[t] /\ Numerals[b] = Numerals[u]
    /\ Plain(keys.size, "=") /\ Plain(<<a, "x", b>>, Semi)
    /\ SetSize(m, keys, Numerals[t], Numerals[u]) = Add(m, keys.size, <<a, "x", b>>)
NumberAdded(m, k, t) ==
  \E a \in DOMAIN Numerals :
    /\ Numerals[a] = Numerals[t]
    /\ Plain(k, "=") /\ Plain(<<a>>, Semi)
    /\ SetInt(m, k, Numerals[t]) = Add(m, k, <<a>>)

(* Each setter adds one item, in which a number is written as a numeral that *)
(* has its value.                                                            *)
LEMMA SettersAdd ==
  ASSUME NEW m
  PROVE  /\ \A keys \in {PreviewKeys, PictureKeys, VideoKeys}, t, u \in DOMAIN Numerals :
              SizeAdded(m, keys, t, u)
         /\ \A keys \in {PreviewKeys, PictureKeys}, f \in FormatNames :
              /\ Plain(keys.format, "=") /\ Plain(<<f>>, Semi)
              /\ SetFormat(m, keys, <<f>>) = Add(m, keys.format, <<f>>)
         /\ \A k \in {PreviewKeys.rate, FileKeys.quality}, t \in DOMAIN Numerals :
              NumberAdded(m, k, t)
<1>1. ASSUME NEW keys \in {PreviewKeys, PictureKeys, VideoKeys},
             NEW t \in DOMAIN Numerals, NEW u \in DOMAIN Numerals
      PROVE  SizeAdded(m, keys, t, u)
  <2>1. PICK a, b : a = Format(Numerals[t]) /\ b = Format(Numerals[u])
    OBVIOUS
  <2>2. /\ a \in DOMAIN Numerals /\ Numerals[a] = Numerals[t]
        /\ b \in DOMAIN Numerals /\ Numerals[b] = Numerals[u]
    BY <2>1, FormatIs, Zenon
  <2>3. keys.size \in Seq(Texts) /\ Plain(keys.size, "=") /\ Plain(keys.size, Semi)
    BY KeyText, OneText, Zenon
  <2>4. /\ <<a, "x", b>> \in Seq(Texts)
        /\ Plain(<<a, "x", b>>, "=") /\ Plain(<<a, "x", b>>, Semi)
    BY <2>2, SizeText, Zenon
  <2>5. SetSize(m, keys, Numerals[t], Numerals[u]) = Set(m, keys.size, <<a, "x", b>>)
    BY <2>1, Zenon DEF SetSize
  <2>6. SetSize(m, keys, Numerals[t], Numerals[u]) = Add(m, keys.size, <<a, "x", b>>)
    BY <2>3, <2>4, <2>5, SetAdds, Zenon
  <2>7. QED
    BY <2>2, <2>3, <2>4, <2>6, Zenon DEF SizeAdded
<1>2. ASSUME NEW keys \in {PreviewKeys, PictureKeys}, NEW f \in FormatNames
      PROVE  /\ Plain(keys.format, "=") /\ Plain(<<f>>, Semi)
             /\ SetFormat(m, keys, <<f>>) = Add(m, keys.format, <<f>>)
  <2>1. keys.format \in Seq(Texts) /\ Plain(keys.format, "=") /\ Plain(keys.format, Semi)
    BY KeyText, OneText, Zenon
  <2>2. <<f>> \in Seq(Texts) /\ Plain(<<f>>, "=") /\ Plain(<<f>>, Semi)
    BY FormatText, OneText, Zenon
  <2>3. QED
    BY <2>1, <2>2, SetAdds, Zenon DEF SetFormat
<1>3. ASSUME NEW k \in {PreviewKeys.rate, FileKeys.quality}, NEW t \in DOMAIN Numerals
      PROVE  NumberAdded(m, k, t)
  <2>1. PICK a : a = Format(Numerals[t])
    OBVIOUS
  <2>2. a \in DOMAIN Numerals /\ Numerals[a] = Numerals[t]
    BY <2>1, FormatIs, Zenon
  <2>3. k \in Seq(Texts) /\ Plain(k, "=") /\ Plain(k, Semi)
    BY KeyText, OneText, Zenon
  <2>4. <<a>> \in Seq(Texts) /\ Plain(<<a>>, "=") /\ Plain(<<a>>, Semi)
    BY <2>2, NumeralText, OneText, Zenon
  <2>5. SetInt(m, k, Numerals[t]) = Set(m, k, <<a>>)
    BY <2>1, Zenon DEF SetInt
  <2>6. SetInt(m, k, Numerals[t]) = Add(m, k, <<a>>)
    BY <2>3, <2>4, <2>5, SetAdds, Zenon
  <2>7. QED
    BY <2>2, <2>3, <2>4, <2>6, Zenon DEF NumberAdded
<1>4. QED
  BY <1>1, <1>2, <1>3, Zenon

(* Whatever string a CameraParameters object was read from and whatever was  *)
(* set in it or removed since: no key of its map holds a "=" and no value a  *)
(* ";", so its items can be told apart once they are one string. set() sees  *)
(* to that for what it is given, and unflatten by where it ends a key and a  *)
(* value.                                                                    *)
THEOREM MapsOnly == ParamsSpec => []ParamMap(params)
<1>1. ParamsInit => ParamMap(params)
  <2>1. \A s \in Inputs : s \in Seq(Texts)
    BY SettingsAssumption, StringTexts, Zenon
  <2>2. QED
    BY <2>1, UnflattenMap, Zenon DEF ParamsInit
<1>2. ParamMap(params) /\ [ParamsNext]_params => ParamMap(params)'
  <2> SUFFICES ASSUME ParamMap(params), [ParamsNext]_params PROVE ParamMap(params')
    BY Zenon DEF ParamMap
  <2>1. CASE UNCHANGED params
    BY <2>1, Zenon
  <2>2. CASE ParamsDump
    BY <2>2, Zenon DEF ParamsDump
  <2>3. ASSUME NEW k \in Keys, NEW v \in Values, Changes(Set(params, k, v))
        PROVE  ParamMap(params')
    <3>1. k \in Seq(Texts) /\ v \in Seq(Texts)
      BY SettingsAssumption, StringTexts, Zenon
    <3>2. QED
      BY <2>3, <3>1, SetMap, Zenon DEF Changes
  <2>4. ASSUME NEW k \in Keys, Changes(RemoveKey(params, k)) PROVE ParamMap(params')
    BY <2>4, RemoveKeyMap, Zenon DEF Changes
  <2>5. ASSUME NEW keys \in {PreviewKeys, PictureKeys, VideoKeys}, NEW s \in Sizes,
               Changes(SetSize(params, keys, Numerals[s[1]], Numerals[s[2]]))
        PROVE  ParamMap(params')
    <3>1. s[1] \in DOMAIN Numerals /\ s[2] \in DOMAIN Numerals
      BY DEF Sizes
    <3>2. PICK a, b \in DOMAIN Numerals :
            /\ Plain(keys.size, "=") /\ Plain(<<a, "x", b>>, Semi)
            /\ SetSize(params, keys, Numerals[s[1]], Numerals[s[2]])
                 = Add(params, keys.size, <<a, "x", b>>)
      <4>1. SizeAdded(params, keys, s[1], s[2])
        BY <3>1, SettersAdd, Zenon
      <4>2. QED
        BY <4>1, Zenon DEF SizeAdded
    <3> DEFINE v == <<a, "x", b>>
    <3>3. /\ Plain(keys.size, "=") /\ Plain(v, Semi)
          /\ params' = Add(params, keys.size, v)
      BY <2>5, <3>2, Zenon DEF Changes
    <3> HIDE DEF v
    <3>4. ParamMap(Add(params, keys.size, v))
      BY <3>3, AddMap
    <3>5. QED
      BY <3>3, <3>4, Zenon
  <2>6. ASSUME NEW keys \in {PreviewKeys, PictureKeys}, NEW f \in FormatNames,
               Changes(SetFormat(params, keys, <<f>>))
        PROVE  ParamMap(params')
    <3>1. /\ Plain(keys.format, "=") /\ Plain(<<f>>, Semi)
          /\ params' = Add(params, keys.format, <<f>>)
      BY <2>6, SettersAdd, Zenon DEF Changes
    <3>2. ParamMap(Add(params, keys.format, <<f>>))
      BY <3>1, AddMap
    <3>3. QED
      BY <3>1, <3>2, Zenon
  <2>7. ASSUME NEW t \in DOMAIN Numerals, NEW k \in {PreviewKeys.rate, FileKeys.quality},
               Changes(SetInt(params, k, Numerals[t]))
        PROVE  ParamMap(params')
    <3>1. PICK a \in DOMAIN Numerals :
            /\ Plain(k, "=") /\ Plain(<<a>>, Semi)
            /\ params' = Add(params, k, <<a>>)
      <4>1. NumberAdded(params, k, t)
        BY SettersAdd, Zenon
      <4>2. QED
        BY <2>7, <4>1, Zenon DEF NumberAdded, Changes
    <3>2. ParamMap(Add(params, k, <<a>>))
      BY <3>1, AddMap
    <3>3. QED
      BY <3>1, <3>2, Zenon
  <2>8. QED
    BY <2>1, <2>2, <2>3, <2>4, <2>5, <2>6, <2>7, Zenon
       DEF ParamsNext, SetPreviewFrameRate
<1>3. QED
  BY <1>1, <1>2, PTL DEF ParamsSpec

(* SetToSeq lists every element once. *)
Lists(f, n, S) ==
  /\ n \in Nat /\ f \in [1..n -> S] /\ Len(f) = n
  /\ \A i, j \in 1..n : f[i] = f[j] => i = j
  /\ \A k \in S : \E i \in 1..n : f[i] = k

(* the keys of a finite map among them *)
LEMMA Listing ==
  ASSUME NEW S, IsFiniteSet(S)
  PROVE  Lists(SetToSeq(S), Cardinality(S), S)
<1> DEFINE n == Cardinality(S)
           f == SetToSeq(S)
<1>1. n \in Nat /\ ExistsBijection(1..n, S)
  BY FS_CardinalityType
<1>2. \E g \in [1..n -> S] : IsInjective(g)
  BY <1>1, Zenon DEF ExistsBijection, Bijection, Injection
<1>3. f \in [1..n -> S] /\ IsInjective(f)
  BY <1>2, Zenon DEF SetToSeq
<1>4. IsFiniteSet(1..n) /\ Cardinality(1..n) = n
  BY <1>1, FS_Interval
<1> HIDE DEF f
<1>5. f \in Injection(1..n, S)
  BY <1>3, Zenon DEF Injection
<1>6. f \in Surjection(1..n, S)
  BY <1>4, <1>5, FS_Injection, Zenon
<1>7. /\ \A i, j \in 1..n : f[i] = f[j] => i = j
      /\ \A k \in S : \E i \in 1..n : f[i] = k
  BY <1>3, <1>6, Zenon DEF IsInjective, Surjection
<1>8. Len(f) = n
  BY <1>1, <1>3
<1>9. QED
  BY <1>1, <1>3, <1>7, <1>8, Zenon DEF f, Lists

(* FlattenSeq appends one by one. *)
LEMMA FlattenSteps ==
  ASSUME NEW T, NEW seqs \in Seq(Seq(T)), Len(seqs) # 0
  PROVE  \E F \in [1..Len(seqs) -> Seq(T)] :
           /\ FlattenSeq(seqs) = F[Len(seqs)] /\ F[1] = seqs[1]
           /\ \A i \in 2..Len(seqs) : F[i] = F[i - 1] \o seqs[i]
<1> DEFINE L == Len(seqs)
           Next1(F, i) == IF i = 1 THEN seqs[i] ELSE F[i - 1] \o seqs[i]
           Fits(F, n) == F = [i \in 1..n |-> Next1(F, i)]
           P == {n \in Nat : \E F : Fits(F, n)}
<1>1. L \in Nat /\ L >= 1 /\ \A i \in 1..L : seqs[i] \in Seq(T)
  OBVIOUS
<1>2. 0 \in P
  <2> DEFINE F == [i \in 1..0 |-> 0]
  <2>1. Fits(F, 0)
    OBVIOUS
  <2>2. QED
    BY <2>1
<1>3. ASSUME NEW n \in P PROVE n + 1 \in P
  <2>1. n \in Nat
    OBVIOUS
  <2>2. PICK F : Fits(F, n)
    OBVIOUS
  <2> DEFINE G == [i \in 1..n + 1 |-> IF i = n + 1 THEN Next1(F, i) ELSE F[i]]
  <2>3. ASSUME NEW i \in 1..n + 1 PROVE Next1(G, i) = Next1(F, i)
    <3>1. i # 1 => i - 1 \in 1..n + 1 /\ i - 1 # n + 1
      BY <2>1
    <3>2. i # 1 => G[i - 1] = F[i - 1]
      BY <3>1
    <3> HIDE DEF G
    <3>3. CASE i = 1
      BY <3>3, Zenon
    <3>4. CASE i # 1
      BY <3>2, <3>4, Zenon
    <3>5. QED
      BY <3>3, <3>4, Zenon
  <2>4. ASSUME NEW i \in 1..n + 1 PROVE G[i] = Next1(F, i)
    <3>1. CASE i = n + 1
      BY <3>1
    <3>2. CASE i # n + 1
      <4>1. i \in 1..n
        BY <2>1, <3>2
      <4>2. F[i] = Next1(F, i)
        BY <2>2, <4>1, Zenon
      <4>3. G[i] = F[i]
        BY <3>2
      <4>4. QED
        BY <4>2, <4>3, Zenon
    <3>3. QED
      BY <3>1, <3>2
  <2>5. G = [i \in 1..n + 1 |-> G[i]]
    BY Zenon
  <2> HIDE DEF G, Next1
  <2>6. Fits(G, n + 1)
    BY <2>3, <2>4, <2>5
  <2>7. QED
    BY <2>1, <2>6
<1>4. P = Nat
  <2> HIDE DEF P
  <2>1. P \in SUBSET Nat
    BY DEF P
  <2>2. QED
    BY <1>2, <1>3, <2>1, Induction
<1>5. \E F : Fits(F, L)
  BY <1>1, <1>4
<1> DEFINE F == CHOOSE F : Fits(F, L)
<1>6. Fits(F, L)
  BY <1>5, Zenon
<1>7. FlattenSeq(seqs) = F[L]
  BY Zenon DEF FlattenSeq
<1> HIDE DEF F
<1>8. F[1] = seqs[1] /\ \A i \in 2..L : F[i] = F[i - 1] \o seqs[i]
  <2>1. \A i \in 1..L : F[i] = Next1(F, i)
    BY <1>6, Zenon
  <2>2. 1 \in 1..L /\ \A i \in 2..L : i \in 1..L /\ i # 1
    BY <1>1
  <2>3. QED
    BY <2>1, <2>2, Zenon
<1> HIDE DEF Fits, P, Next1
<1>9. \A i \in 1..L : F[i] \in Seq(T)
  <2> DEFINE Q == {n \in Nat : n + 1 \in 1..L => F[n + 1] \in Seq(T)}
  <2>1. 0 \in Q
    BY <1>1, <1>8
  <2>2. ASSUME NEW n \in Q PROVE n + 1 \in Q
    <3> SUFFICES ASSUME n + 1 + 1 \in 1..L PROVE F[n + 1 + 1] \in Seq(T)
      OBVIOUS
    <3>1. n \in Nat /\ (n + 1 \in 1..L => F[n + 1] \in Seq(T))
      OBVIOUS
    <3> HIDE DEF Q
    <3>2. /\ n + 1 \in 1..L /\ n + 1 + 1 \in 2..L /\ n + 1 + 1 - 1 = n + 1
          /\ n + 1 + 1 \in 1..L
      BY <1>1, <3>1
    <3>3. F[n + 1 + 1] = F[n + 1] \o seqs[n + 1 + 1]
      <4>1. PICK k : k = n + 1 + 1
        OBVIOUS
      <4>2. k \in 2..L /\ k - 1 = n + 1
        BY <3>2, <4>1
      <4>3. F[k] = F[k - 1] \o seqs[k]
        BY <1>8, <4>2, Zenon
      <4>4. QED
        BY <4>1, <4>2, <4>3, Zenon
    <3>4. F[n + 1] \in Seq(T) /\ seqs[n + 1 + 1] \in Seq(T)
      BY <1>1, <3>1, <3>2, Zenon
    <3>5. QED
      BY <3>3, <3>4, ConcatProperties, Zenon
  <2>3. Q = Nat
    <3> HIDE DEF Q
    <3>1. Q \in SUBSET Nat
      BY DEF Q
    <3>2. QED
      BY <2>1, <2>2, <3>1, Induction
  <2>4. ASSUME NEW i \in 1..L PROVE F[i] \in Seq(T)
    <3>1. i - 1 \in Nat /\ i - 1 + 1 = i
      BY <1>1
    <3>2. i - 1 \in Q
      BY <2>3, <3>1
    <3>3. F[i - 1 + 1] \in Seq(T)
      BY <3>1, <3>2
    <3>4. QED
      BY <3>1, <3>3, Zenon
  <2>5. QED
    BY <2>4
<1>10. F = [i \in 1..L |-> F[i]]
  BY <1>6, Zenon DEF Fits
<1>11. F \in [1..L -> Seq(T)]
  BY <1>9, <1>10
<1>12. QED
  BY <1>7, <1>8, <1>11, Zenon

(* Where the parts are in the whole *)
LaidOut(off, s, seqs, n) ==
  /\ off \in [0..n -> Nat] /\ off[0] = 0 /\ off[n] = Len(s)
  /\ \A j \in 1..n :
       /\ off[j] = off[j - 1] + Len(seqs[j]) /\ off[j] <= Len(s)
       /\ \A x \in 1..Len(seqs[j]) : s[off[j - 1] + x] = seqs[j][x]

(* The parts lie in the string one after the other, each at an offset of its *)
(* own.                                                                      *)
LEMMA Layout ==
  ASSUME NEW T, NEW seqs \in Seq(Seq(T)), Len(seqs) # 0
  PROVE  /\ FlattenSeq(seqs) \in Seq(T)
         /\ \E off : LaidOut(off, FlattenSeq(seqs), seqs, Len(seqs))
<1> DEFINE L == Len(seqs)
<1>1. L \in Nat /\ L >= 1 /\ \A i \in 1..L : seqs[i] \in Seq(T)
  OBVIOUS
<1>2. PICK F \in [1..L -> Seq(T)] :
        /\ FlattenSeq(seqs) = F[L] /\ F[1] = seqs[1]
        /\ \A i \in 2..L : F[i] = F[i - 1] \o seqs[i]
  BY FlattenSteps, Zenon
<1> DEFINE off == [j \in 0..L |-> IF j = 0 THEN 0 ELSE Len(F[j])]
           Laid(k, j) == /\ off[j] = off[j - 1] + Len(seqs[j]) /\ off[j] <= Len(F[k])
                         /\ \A x \in 1..Len(seqs[j]) : F[k][off[j - 1] + x] = seqs[j][x]
<1>3. off \in [0..L -> Nat] /\ off[0] = 0 /\ \A j \in 1..L : off[j] = Len(F[j])
  <2>1. \A j \in 1..L : F[j] \in Seq(T) /\ Len(F[j]) \in Nat
    BY <1>2, LenProperties, Zenon
  <2>2. \A j \in 0..L : j = 0 \/ j \in 1..L
    BY <1>1
  <2>3. \A j \in 1..L : j # 0 /\ j \in 0..L
    BY <1>1
  <2>4. 0 \in 0..L
    BY <1>1
  <2> HIDE DEF L
  <2>5. QED
    BY <2>1, <2>2, <2>3, <2>4
<1> DEFINE P == {n \in Nat : n + 1 \in 1..L => \A j \in 1..n + 1 : Laid(n + 1, j)}
<1>4. 0 \in P
  <2>1. \A x \in 1..Len(seqs[1]) : 0 + x = x
    BY <1>1
  <2>2. off[1] = Len(seqs[1]) /\ Len(seqs[1]) \in Nat /\ 1 \in 1..L
    BY <1>1, <1>2, <1>3
  <2> HIDE DEF off
  <2>3. off[1] = off[0] + Len(seqs[1]) /\ off[1] <= Len(F[1]) /\ 1 - 1 = 0
    BY <1>1, <1>2, <1>3, <2>2
  <2>4. Laid(1, 1)
    BY <1>2, <1>3, <2>1, <2>3, Zenon
  <2>5. \A j \in 1..0 + 1 : j = 1
    OBVIOUS
  <2> HIDE DEF Laid
  <2>6. QED
    BY <2>4, <2>5
<1>5. ASSUME NEW n \in P PROVE n + 1 \in P
  <2>1. n \in Nat /\ (n + 1 \in 1..L => \A j \in 1..n + 1 : Laid(n + 1, j))
    OBVIOUS
  <2> PICK k : k = n + 2
    OBVIOUS
  <2> HIDE DEF L, off, P, Laid
  <2>2. ASSUME k \in 1..L, NEW j \in 1..k PROVE Laid(k, j)
    <3>1. /\ n + 1 \in 1..L /\ k \in 2..L /\ k - 1 = n + 1 /\ k - 1 \in 1..L
          /\ (j = k \/ j \in 1..k - 1) /\ j \in 1..L /\ j - 1 \in 0..L
      BY <1>1, <2>1, <2>2
    <3>2. F[k] = F[k - 1] \o seqs[k]
      BY <1>2, <3>1, Zenon
    <3>3. F[k - 1] \in Seq(T) /\ seqs[k] \in Seq(T) /\ F[k] \in Seq(T)
      BY <1>1, <1>2, <2>2, <3>1, Zenon
    <3>4. /\ Len(F[k - 1] \o seqs[k]) = Len(F[k - 1]) + Len(seqs[k])
          /\ \A i \in 1..Len(F[k - 1]) + Len(seqs[k]) : (F[k - 1] \o seqs[k])[i] =
               IF i <= Len(F[k - 1]) THEN F[k - 1][i] ELSE seqs[k][i - Len(F[k - 1])]
      <4>1. PICK f, q : f = F[k - 1] /\ q = seqs[k]
        OBVIOUS
      <4>2. f \in Seq(T) /\ q \in Seq(T)
        BY <3>3, <4>1, Zenon
      <4>3. /\ Len(f \o q) = Len(f) + Len(q)
            /\ \A i \in 1..Len(f) + Len(q) :
                 (f \o q)[i] = IF i <= Len(f) THEN f[i] ELSE q[i - Len(f)]
        BY <4>2, ConcatProperties, Zenon
      <4>4. QED
        BY <4>1, <4>3, Zenon
    <3>5. PICK a, b : a = Len(F[k - 1]) /\ b = Len(seqs[k])
      OBVIOUS
    <3>6. a \in Nat /\ b \in Nat
      BY <3>3, <3>5, LenProperties, Zenon
    <3>7. /\ Len(F[k]) = a + b
          /\ \A i \in 1..a + b : F[k][i] = IF i <= a THEN F[k - 1][i] ELSE seqs[k][i - a]
      BY <3>2, <3>4, <3>5, Zenon
    <3>8. off[k] = a + b /\ off[k - 1] = a
      BY <1>3, <2>2, <3>1, <3>5, <3>7, Zenon
    <3>9. CASE j = k
      <4>1. ASSUME NEW x \in 1..b PROVE F[k][a + x] = seqs[k][x]
        <5>1. PICK i : i = a + x
          OBVIOUS
        <5>2. i \in 1..a + b /\ ~(i <= a) /\ i - a = x
          BY <3>6, <5>1
        <5>3. F[k][i] = seqs[k][i - a]
          BY <3>7, <5>2, Zenon
        <5>4. QED
          BY <5>1, <5>2, <5>3, Zenon
      <4>2. off[k] <= Len(F[k])
        BY <3>6, <3>7, <3>8
      <4>3. QED
        BY <3>5, <3>8, <3>9, <4>1, <4>2, Zenon DEF Laid
    <3>10. CASE j \in 1..k - 1
      <4>1. Laid(k - 1, j)
        BY <2>1, <3>1, <3>10, Zenon
      <4>2. PICK o, c : o = off[j - 1] /\ c = Len(seqs[j])
        OBVIOUS
      <4>3. o \in Nat /\ c \in Nat
        <5>1. seqs[j] \in Seq(T)
          BY <1>1, <3>1, Zenon
        <5>2. c \in Nat
          BY <4>2, <5>1, LenProperties, Zenon
        <5>3. off[j - 1] \in Nat
          BY <1>3, <3>1, Zenon
        <5>4. QED
          BY <4>2, <5>2, <5>3, Zenon
      <4>4. /\ off[j] = o + c /\ off[j] <= a
            /\ \A x \in 1..c : F[k - 1][o + x] = seqs[j][x]
        BY <3>5, <4>1, <4>2, Zenon DEF Laid
      <4>5. ASSUME NEW x \in 1..c PROVE F[k][o + x] = seqs[j][x]
        <5>1. o + x \in 1..a + b /\ o + x <= a
          BY <3>6, <4>3, <4>4
        <5>2. QED
          BY <3>7, <4>4, <5>1, Zenon
      <4>6. off[j] <= Len(F[k])
        BY <3>6, <3>7, <4>3, <4>4
      <4>7. QED
        BY <4>2, <4>4, <4>5, <4>6, Zenon DEF Laid
    <3>11. QED
      BY <3>1, <3>9, <3>10, Zenon
  <2>3. k = n + 1 + 1 /\ n + 1 \in Nat
    BY <2>1
  <2>4. QED
    BY <2>2, <2>3, Zenon DEF P
<1>6. P = Nat
  <2> HIDE DEF P
  <2>1. P \in SUBSET Nat
    BY DEF P
  <2>2. QED
    BY <1>4, <1>5, <2>1, Induction
<1>7. \A j \in 1..L : Laid(L, j)
  <2> HIDE DEF Laid
  <2>1. L - 1 \in Nat /\ L - 1 + 1 = L /\ L \in 1..L
    BY <1>1
  <2>2. L - 1 \in P
    BY <1>6, <2>1, Zenon
  <2>3. L - 1 + 1 \in 1..L => \A j \in 1..L - 1 + 1 : Laid(L - 1 + 1, j)
    BY <2>2, Zenon
  <2>4. QED
    BY <2>1, <2>3, Zenon
<1>8. F[L] \in Seq(T) /\ off[L] = Len(F[L])
  <2>1. L \in 1..L
    BY <1>1
  <2>2. QED
    BY <1>2, <1>3, <2>1, Zenon
<1>9. QED
  <2> HIDE DEF off
  <2>1. LaidOut(off, FlattenSeq(seqs), seqs, Len(seqs))
    BY <1>2, <1>3, <1>7, <1>8, Zenon DEF LaidOut
  <2>2. QED
    BY <1>2, <1>8, <2>1, Zenon

(* A part is cut out again where it lies. *)
LEMMA PartIs ==
  ASSUME NEW T, NEW s \in Seq(T), NEW r \in Seq(T), NEW p \in Nat,
         p + Len(r) <= Len(s), \A x \in 1..Len(r) : s[p + x] = r[x]
  PROVE  SubSeq(s, p + 1, p + Len(r)) = r
<1> DEFINE q == SubSeq(s, p + 1, p + Len(r))
<1>1. Len(s) \in Nat /\ Len(r) \in Nat
  OBVIOUS
<1>2. /\ q \in Seq(T) /\ Len(q) = Len(r)
      /\ \A x \in 1..Len(r) : q[x] = s[p + x]
  <2>1. \A i \in p + 1..p + Len(r) : s[i] \in T
    BY <1>1
  <2>2. QED
    BY <1>1, <2>1
<1> HIDE DEF q
<1>3. q = r
  BY <1>2, SeqEqual
<1>4. QED
  BY <1>3 DEF q

(* A key, a character and a value as one text *)
IsItem(T, it, k, c, v) ==
  /\ it \in Seq(T) /\ Len(it) = Len(k) + 1 + Len(v)
  /\ \A x \in 1..Len(k) : it[x] = k[x]
  /\ it[Len(k) + 1] = c
  /\ \A x \in 1..Len(v) : it[Len(k) + 1 + x] = v[x]

(* The characters of an item: its key, the "=" and its value *)
LEMMA ItemText ==
  ASSUME NEW T, NEW k \in Seq(T), NEW v \in Seq(T), NEW c \in T, NEW it,
         it = k \o <<c>> \o v
  PROVE  IsItem(T, it, k, c, v)
<1>1. Len(k) \in Nat /\ Len(v) \in Nat
  OBVIOUS
<1>2. PICK h : h = k \o <<c>>
  OBVIOUS
<1>3. /\ h \in Seq(T) /\ Len(h) = Len(k) + 1 /\ h[Len(k) + 1] = c
      /\ \A x \in 1..Len(k) : h[x] = k[x]
  BY <1>2
<1>4. it = h \o v
  BY <1>2, Zenon
<1>5. /\ it \in Seq(T) /\ Len(it) = Len(h) + Len(v)
      /\ \A i \in 1..Len(h) + Len(v) :
           it[i] = IF i <= Len(h) THEN h[i] ELSE v[i - Len(h)]
  <2>1. /\ h \o v \in Seq(T) /\ Len(h \o v) = Len(h) + Len(v)
        /\ \A i \in 1..Len(h) + Len(v) :
             (h \o v)[i] = IF i <= Len(h) THEN h[i] ELSE v[i - Len(h)]
    BY <1>3, ConcatProperties, Zenon
  <2>2. QED
    BY <1>4, <2>1, Zenon
<1>6. QED
  BY <1>1, <1>3, <1>5 DEF IsItem

(* A part that ends in a ";" *)
LEMMA ClosedItem ==
  ASSUME NEW T, NEW it \in Seq(T), NEW d \in T, NEW r, r = it \o <<d>>
  PROVE  /\ r \in Seq(T) /\ Len(r) = Len(it) + 1 /\ r[Len(it) + 1] = d
         /\ \A x \in 1..Len(it) : r[x] = it[x]
OBVIOUS

(* unflatten at the start of an item that flatten wrote *)
ReadsItem(m, s, e, k, v, R) ==
  /\ e + Len(v) = Len(s) => m = Add(NoParams, k, v)
  /\ e + Len(v) < Len(s) /\ s[e + Len(v) + 1] = Semi
       => m = AddBefore(R[e + Len(v) + 2], k, v)
(* The loop reads an item where it lies. *)
LEMMA ItemAt ==
  ASSUME NEW s \in Seq(Texts), NEW k, NEW v, Plain(k, "="), Plain(v, Semi),
         NEW p \in Nat, NEW e, e = p + Len(k) + 1, e + Len(v) <= Len(s),
         \A x \in 1..Len(k) : s[p + x] = k[x], s[e] = "=",
         \A x \in 1..Len(v) : s[e + x] = v[x], NEW R
  PROVE  ReadsItem(ItemsFrom(s, p + 1, R), s, e, k, v, R)
<1>1. k \in Seq(Texts) /\ v \in Seq(Texts)
  BY Zenon DEF Plain
<1>2. PICK a, b, L : a = Len(k) /\ b = Len(v) /\ L = Len(s)
  OBVIOUS
<1>3. a \in Nat /\ b \in Nat /\ L \in Nat
  BY <1>1, <1>2, LenProperties, Zenon
<1>4. (\A x \in 1..a : k[x] # "=") /\ \A x \in 1..b : v[x] # Semi
  <2>1. DOMAIN k = 1..a /\ DOMAIN v = 1..b
    BY <1>1, <1>2, LenProperties, Zenon
  <2>2. QED
    BY <2>1, Zenon DEF Plain
<1>5. Find(s, "=", p + 1) = e
  <2>1. \A j \in p + 1..e - 1 : s[j] # "="
    <3> SUFFICES ASSUME NEW j \in p + 1..e - 1 PROVE s[j] # "="
      OBVIOUS
    <3>1. PICK x : x = j - p
      OBVIOUS
    <3>2. x \in 1..a /\ p + x = j
      BY <1>2, <1>3, <3>1
    <3>3. s[p + x] = k[x] /\ k[x] # "="
      BY <1>2, <1>4, <3>2, Zenon
    <3>4. QED
      BY <3>2, <3>3, Zenon
  <2>2. p + 1 \in Nat \ {0} /\ e \in p + 1..Len(s)
    BY <1>2, <1>3
  <2>3. QED
    BY <2>1, <2>2, FindIs, Zenon
<1>6. SubSeq(s, p + 1, e - 1) = k
  <2>1. e - 1 = p + Len(k) /\ p + Len(k) <= Len(s)
    BY <1>2, <1>3
  <2>2. SubSeq(s, p + 1, p + Len(k)) = k
    BY <1>1, <2>1, PartIs, Zenon
  <2>3. QED
    BY <2>1, <2>2, Zenon
<1>7. SubSeq(s, e + 1, e + Len(v)) = v /\ e \in Nat /\ e # 0
  <2>1. e \in Nat /\ e # 0
    BY <1>2, <1>3
  <2>2. QED
    BY <1>1, <2>1, PartIs, Zenon
<1>8. \A j \in e + 1..e + b : s[j] # Semi
  <2> SUFFICES ASSUME NEW j \in e + 1..e + b PROVE s[j] # Semi
    OBVIOUS
  <2>1. PICK x : x = j - e
    OBVIOUS
  <2>2. x \in 1..b /\ e + x = j
    BY <1>3, <1>7, <2>1
  <2>3. s[e + x] = v[x] /\ v[x] # Semi
    BY <1>2, <1>4, <2>2, Zenon
  <2>4. QED
    BY <2>2, <2>3, Zenon
<1>9. PICK z : z = Find(s, Semi, e + 1)
  OBVIOUS
<1>10. e + 1 \in Nat \ {0}
  BY <1>7
<1>11. ItemsFrom(s, p + 1, R) =
         IF z = 0 THEN Add(NoParams, k, SubSeq(s, e + 1, Len(s)))
         ELSE AddBefore(R[z + 1], k, SubSeq(s, e + 1, z - 1))
  BY <1>5, <1>6, <1>7, <1>9, Zenon DEF ItemsFrom
<1>12. ASSUME e + Len(v) = Len(s) PROVE ItemsFrom(s, p + 1, R) = Add(NoParams, k, v)
  <2>1. \/ /\ z = 0
           /\ \A j \in e + 1..Len(s) : s[j] # Semi
        \/ /\ z \in e + 1..Len(s) /\ s[z] = Semi
           /\ \A j \in e + 1..z - 1 : s[j] # Semi
    BY <1>9, <1>10, FindFirst
  <2>2. z = 0
    BY <1>2, <1>8, <1>12, <2>1, Zenon
  <2>3. QED
    BY <1>7, <1>11, <1>12, <2>2, Zenon
<1>13. ASSUME e + Len(v) < Len(s), s[e + Len(v) + 1] = Semi
       PROVE  ItemsFrom(s, p + 1, R) = AddBefore(R[e + Len(v) + 2], k, v)
  <2>1. PICK w : w = e + Len(v) + 1
    OBVIOUS
  <2>2. w \in e + 1..Len(s) /\ w - 1 = e + b /\ w # 0 /\ w + 1 = e + Len(v) + 2
    BY <1>2, <1>3, <1>7, <1>13, <2>1
  <2>3. s[w] = Semi /\ \A j \in e + 1..w - 1 : s[j] # Semi
    BY <1>8, <1>13, <2>1, <2>2, Zenon
  <2>4. z = w
    BY <1>9, <1>10, <2>2, <2>3, FindIs, Zenon
  <2>5. QED
    BY <1>2, <1>7, <1>11, <2>2, <2>4, Zenon
<1>14. QED
  BY <1>12, <1>13, Zenon DEF ReadsItem

(* What flatten writes for the i-th key *)
ItemOf(m, k) == k \o <<"=">> \o m[k]
PartOf(m, keys, i) ==
  IF i = Len(keys) THEN ItemOf(m, keys[i]) ELSE ItemOf(m, keys[i]) \o <<Semi>>

(* flatten lays out one part for each key. *)
LEMMA FlattenParts ==
  ASSUME NEW m
  PROVE  Flatten(m) = FlattenSeq([i \in DOMAIN SetToSeq(DOMAIN m) |->
                                    PartOf(m, SetToSeq(DOMAIN m), i)])
BY Zenon DEF Flatten, PartOf, ItemOf, Semi

IsPart(p, k, v, last) ==
  /\ p \in Seq(Texts)
  /\ last => Len(p) = Len(k) + 1 + Len(v)
  /\ ~last => Len(p) = Len(k) + 1 + Len(v) + 1
  /\ \A x \in 1..Len(k) : p[x] = k[x]
  /\ p[Len(k) + 1] = "="
  /\ \A x \in 1..Len(v) : p[Len(k) + 1 + x] = v[x]
  /\ ~last => p[Len(k) + Len(v) + 2] = Semi

(* What the part of a key looks like *)
LEMMA PartText ==
  ASSUME NEW m, ParamMap(m), NEW keys, NEW i, keys[i] \in DOMAIN m
  PROVE  IsPart(PartOf(m, keys, i), keys[i], m[keys[i]], i = Len(keys))
<1> PICK k, v, p, q : /\ k = keys[i] /\ v = m[k] /\ p = PartOf(m, keys, i)
                      /\ q = k \o <<"=">> \o v
  OBVIOUS
<1>1. Plain(k, "=") /\ Plain(v, Semi)
  BY Zenon DEF ParamMap
<1>2. k \in Seq(Texts) /\ v \in Seq(Texts)
  BY <1>1, Zenon DEF Plain
<1>3. PICK c, d : c = "=" /\ d = Semi
  OBVIOUS
<1>4. c \in Texts /\ d \in Texts
  BY <1>3, Zenon DEF Texts, Semi
<1>5. /\ q \in Seq(Texts) /\ Len(q) = Len(k) + 1 + Len(v)
      /\ \A x \in 1..Len(k) : q[x] = k[x]
      /\ q[Len(k) + 1] = c
      /\ \A x \in 1..Len(v) : q[Len(k) + 1 + x] = v[x]
  <2>1. q = k \o <<c>> \o v
    BY <1>3, Zenon
  <2>2. IsItem(Texts, q, k, c, v)
    BY <1>2, <1>4, <2>1, ItemText, Zenon
  <2>3. QED
    BY <2>2, Zenon DEF IsItem
<1>6. Len(k) \in Nat /\ Len(v) \in Nat
  BY <1>2, LenProperties, Zenon
<1>7. p = IF i = Len(keys) THEN q ELSE q \o <<d>>
  BY <1>3, Zenon DEF PartOf, ItemOf
<1>8. CASE i = Len(keys)
  <2>1. p = q
    BY <1>7, <1>8, Zenon
  <2>2. /\ p \in Seq(Texts) /\ Len(p) = Len(k) + 1 + Len(v)
        /\ \A x \in 1..Len(k) : p[x] = k[x]
        /\ p[Len(k) + 1] = c
        /\ \A x \in 1..Len(v) : p[Len(k) + 1 + x] = v[x]
    BY <1>5, <2>1, Zenon
  <2> HIDE <2>1
  <2>3. QED
    BY <1>3, <1>8, <2>2 DEF IsPart
<1>9. CASE i # Len(keys)
  <2>1. p = q \o <<d>>
    BY <1>7, <1>9, Zenon
  <2>2. /\ p \in Seq(Texts) /\ Len(p) = Len(q) + 1 /\ p[Len(q) + 1] = d
        /\ \A x \in 1..Len(q) : p[x] = q[x]
    BY <1>4, <1>5, <2>1, ClosedItem
  <2> HIDE <2>1
  <2>3. /\ Len(p) = Len(k) + 1 + Len(v) + 1 /\ Len(q) + 1 = Len(k) + Len(v) + 2
        /\ \A x \in 1..Len(k) : x \in 1..Len(q)
        /\ Len(k) + 1 \in 1..Len(q)
        /\ \A x \in 1..Len(v) : Len(k) + 1 + x \in 1..Len(q)
    BY <1>5, <1>6, <2>2
  <2>4. \A x \in 1..Len(k) : p[x] = k[x]
    BY <1>5, <2>2, <2>3, Zenon
  <2>5. p[Len(k) + 1] = c
    BY <1>5, <2>2, <2>3, Zenon
  <2>6. ASSUME NEW x \in 1..Len(v) PROVE p[Len(k) + 1 + x] = v[x]
    <3>1. PICK y : y = Len(k) + 1 + x
      OBVIOUS
    <3>2. y \in 1..Len(q) /\ q[y] = v[x]
      BY <1>5, <2>3, <3>1, Zenon
    <3>3. QED
      BY <2>2, <3>1, <3>2, Zenon
  <2>7. p[Len(k) + Len(v) + 2] = d
    BY <2>2, <2>3, Zenon
  <2>8. QED
    BY <1>3, <1>9, <2>2, <2>3, <2>4, <2>5, <2>6, <2>7 DEF IsPart
<1>10. QED
  BY <1>8, <1>9, Zenon

(* The map of some of the keys *)
Some(m, S) == [k \in S |-> m[k]]

(* Reading one item more *)
LEMMA AddSome ==
  ASSUME NEW m, NEW S, NEW k, k \notin S
  PROVE  AddBefore(Some(m, S), k, m[k]) = Some(m, S \cup {k})
<1>1. AddBefore(Some(m, S), k, m[k]) = Add(Some(m, S), k, m[k])
  BY DEF AddBefore, Some
<1>2. Add(Some(m, S), k, m[k]) = Some(m, S \cup {k})
  BY DEF Add, Some
<1>3. QED
  BY <1>1, <1>2, Zenon

(* and the last one, which is read first *)
LEMMA AddFirst ==
  ASSUME NEW m, NEW k
  PROVE  Add(NoParams, k, m[k]) = Some(m, {k})
BY DEF Add, NoParams, Some

Spans(a, b, c, e, p, L) ==
  /\ e + b <= L /\ p + 1 \in 1..L + 1
  /\ a + 1 \in 1..c /\ p + (a + 1) = e
  /\ \A x \in 1..a : x \in 1..c
  /\ \A x \in 1..b : a + 1 + x \in 1..c /\ p + (a + 1 + x) = e + x

(* Where the parts of an item lie in the string *)
LEMMA Widths ==
  ASSUME NEW a \in Nat, NEW b \in Nat, NEW p \in Nat, NEW L \in Nat, NEW c, NEW e,
         c = a + 1 + b \/ c = a + 1 + b + 1, e = p + a + 1, p + c <= L
  PROVE  Spans(a, b, c, e, p, L)
BY DEF Spans

(* The empty map is the empty string. *)
LEMMA SentEmpty ==
  ASSUME NEW m, ParamMap(m), DOMAIN m = {}
  PROVE  Unflatten(Flatten(m)) = m /\ Flatten(m) \in Seq(Texts)
<1> DEFINE keys == SetToSeq(DOMAIN m)
           seqs == [i \in DOMAIN keys |-> PartOf(m, keys, i)]
           s == Flatten(m)
<1>1. Cardinality(DOMAIN m) = 0
  BY FS_EmptySet
<1>2. keys \in [1..0 -> DOMAIN m]
  BY <1>1, Listing, Zenon DEF ParamMap, Lists
<1>3. DOMAIN keys = 1..0
  BY <1>2, Zenon
<1> HIDE DEF keys
<1>4. seqs = [i \in 1..0 |-> PartOf(m, keys, i)]
  BY <1>3, Zenon
<1>5. seqs = <<>>
  <2> HIDE DEF seqs
  <2>1. QED
    BY <1>4
<1>6. s = seqs
  <2>1. s = FlattenSeq(seqs)
    BY FlattenParts, Zenon DEF keys
  <2>2. Len(seqs) = 0
    BY <1>5
  <2>3. QED
    BY <2>1, <2>2, Zenon DEF FlattenSeq
<1>7. s = <<>>
  BY <1>5, <1>6, Zenon
<1> HIDE DEF s
<1>8. s \in Seq(Texts) /\ 1 \in 1..Len(s) + 1 /\ 1 \in Nat \ {0} /\ Len(s) = 0
  BY <1>7
<1>9. Find(s, "=", 1) = 0
  <2>1. \/ Find(s, "=", 1) = 0
        \/ Find(s, "=", 1) \in 1..Len(s)
    BY <1>8, FindFirst
  <2>2. 1..Len(s) = {}
    BY <1>8
  <2>3. QED
    BY <2>1, <2>2, Zenon
<1>10. Reading(s)[1] = NoParams
  <2>1. Reading(s)[1] = ItemsFrom(s, 1, Reading(s))
    BY <1>8, ReadingAt, Zenon
  <2>2. QED
    BY <1>9, <2>1, Zenon DEF ItemsFrom
<1>11. m = NoParams
  BY DEF ParamMap, NoParams
<1>12. QED
  BY <1>8, <1>10, <1>11, UnflattenReads, Zenon DEF s

(* unflatten reads what flatten wrote. *)
LEMMA SentIsSame ==
  ASSUME NEW m, ParamMap(m)
  PROVE  Unflatten(Flatten(m)) = m /\ Flatten(m) \in Seq(Texts)
<1>1. CASE DOMAIN m = {}
  BY <1>1, SentEmpty, Zenon
<1>2. CASE DOMAIN m # {}
  <2> PICK keys, n, s : /\ keys = SetToSeq(DOMAIN m) /\ n = Cardinality(DOMAIN m)
                        /\ s = Flatten(m)
    OBVIOUS
  <2>1. /\ n \in Nat /\ keys \in [1..n -> DOMAIN m] /\ Len(keys) = n
        /\ \A i, j \in 1..n : keys[i] = keys[j] => i = j
        /\ \A k \in DOMAIN m : \E i \in 1..n : keys[i] = k
    <3>1. Lists(keys, n, DOMAIN m)
      BY Listing, Zenon DEF ParamMap
    <3>2. QED
      BY <3>1, Zenon DEF Lists
  <2>2. n # 0
    BY <1>2, FS_EmptySet, Zenon DEF ParamMap
  <2> DEFINE seqs == [i \in DOMAIN keys |-> PartOf(m, keys, i)]
  <2>3. DOMAIN keys = 1..n /\ \A i \in 1..n : keys[i] \in DOMAIN m
    BY <2>1, Zenon
  <2>4. \A i \in 1..n : PartOf(m, keys, i) \in Seq(Texts)
    <3>1. \A i \in 1..n : IsPart(PartOf(m, keys, i), keys[i], m[keys[i]], i = Len(keys))
      BY <2>3, PartText, Zenon
    <3>2. QED
      BY <3>1, Zenon DEF IsPart
  <2>5. /\ seqs \in Seq(Seq(Texts)) /\ Len(seqs) = n
        /\ \A i \in 1..n : seqs[i] = PartOf(m, keys, i)
    <3>1. seqs = [i \in 1..n |-> PartOf(m, keys, i)]
      BY <2>3, Zenon
    <3>2. PICK Q : Q = Seq(Texts)
      OBVIOUS
    <3>3. \A i \in 1..n : seqs[i] = PartOf(m, keys, i) /\ seqs[i] \in Q
      BY <2>4, <3>1, <3>2, Zenon
    <3> HIDE DEF seqs
    <3>4. seqs = [i \in 1..n |-> seqs[i]]
      BY <3>1, <3>3, Zenon
    <3>5. seqs \in Seq(Q) /\ Len(seqs) = n
      BY <2>1, <3>3, <3>4
    <3>6. QED
      BY <3>2, <3>3, <3>5, Zenon
  <2>6. s = FlattenSeq(seqs)
    BY FlattenParts, Zenon
  <2> HIDE DEF seqs
  <2>7. s \in Seq(Texts) /\ \E off : LaidOut(off, s, seqs, n)
    BY <2>2, <2>5, <2>6, Layout, Zenon
  <2>8. PICK off \in [0..n -> Nat] :
              /\ off[0] = 0 /\ off[n] = Len(s)
              /\ \A j \in 1..n :
                   /\ off[j] = off[j - 1] + Len(seqs[j])
                   /\ off[j] <= Len(s)
                   /\ \A x \in 1..Len(seqs[j]) : s[off[j - 1] + x] = seqs[j][x]
    BY <2>7, Zenon DEF LaidOut
  <2> DEFINE R == Reading(s)
             Rest(i) == {keys[x] : x \in i..n}
             S == {i \in 1..n : R[off[i - 1] + 1] = Some(m, Rest(i))}
  <2>9. ASSUME NEW i \in 1..n, i + 1..n \subseteq S PROVE i \in S
    <3> PICK k, v, p, e, r : /\ k = keys[i] /\ v = m[k] /\ p = off[i - 1]
                             /\ e = p + Len(k) + 1 /\ r = seqs[i]
      OBVIOUS
    <3>1. k \in DOMAIN m /\ Plain(k, "=") /\ Plain(v, Semi)
      BY <2>3, Zenon DEF ParamMap
    <3>2. PICK a, b, L : a = Len(k) /\ b = Len(v) /\ L = Len(s)
      OBVIOUS
    <3>3. a \in Nat /\ b \in Nat /\ L \in Nat
      BY <2>7, <3>1, <3>2, LenProperties, Zenon DEF Plain
    <3>4. /\ i = n => Len(r) = a + 1 + b
          /\ i # n => Len(r) = a + 1 + b + 1
          /\ \A x \in 1..a : r[x] = k[x]
          /\ r[a + 1] = "="
          /\ \A x \in 1..b : r[a + 1 + x] = v[x]
          /\ i # n => r[a + b + 2] = Semi
      <4>1. IsPart(r, k, v, i = n)
        <5>1. keys[i] \in DOMAIN m
          BY <2>3, Zenon
        <5>2. IsPart(PartOf(m, keys, i), keys[i], m[keys[i]], i = Len(keys))
          BY <5>1, PartText, Zenon
        <5>3. QED
          BY <2>1, <2>5, <5>2, Zenon
      <4>2. QED
        BY <3>2, <4>1, Zenon DEF IsPart
    <3>5. /\ off[i] = p + Len(r) /\ off[i] <= L
          /\ \A x \in 1..Len(r) : s[p + x] = r[x]
      BY <2>8, <3>2, Zenon
    <3>6. p \in Nat /\ i - 1 \in 0..n
      <4>1. i - 1 \in 0..n
        BY <2>1
      <4>2. QED
        BY <4>1, <2>8, Zenon
    <3>7. /\ e = p + a + 1 /\ e + b <= L /\ p + 1 \in 1..L + 1
          /\ \A x \in 1..a : x \in 1..Len(r)
          /\ a + 1 \in 1..Len(r) /\ p + (a + 1) = e
          /\ \A x \in 1..b : a + 1 + x \in 1..Len(r) /\ p + (a + 1 + x) = e + x
      <4>1. PICK c : c = Len(r)
        OBVIOUS
      <4>2. c = a + 1 + b \/ c = a + 1 + b + 1
        BY <3>4, <4>1, Zenon
      <4>3. e = p + a + 1 /\ p + c <= L
        BY <3>2, <3>5, <4>1, Zenon
      <4>4. Spans(a, b, c, e, p, L)
        BY <3>3, <3>6, <4>2, <4>3, Widths, Zenon
      <4>5. QED
        BY <4>1, <4>3, <4>4, Zenon DEF Spans
    <3>8. /\ \A x \in 1..Len(k) : s[p + x] = k[x]
          /\ s[e] = "="
          /\ \A x \in 1..Len(v) : s[e + x] = v[x]
      <4>1. \A x \in 1..a : s[p + x] = k[x]
        BY <3>4, <3>5, <3>7, Zenon
      <4>2. s[e] = "="
        BY <3>4, <3>5, <3>7, Zenon
      <4>3. ASSUME NEW x \in 1..b PROVE s[e + x] = v[x]
        <5>1. s[p + (a + 1 + x)] = r[a + 1 + x]
          BY <3>5, <3>7, Zenon
        <5>2. QED
          BY <3>4, <3>7, <5>1, Zenon
      <4>4. QED
        BY <3>2, <4>1, <4>2, <4>3, Zenon
    <3>9. R[p + 1] = ItemsFrom(s, p + 1, R)
      BY <2>7, <3>2, <3>7, ReadingAt, Zenon
    <3>10. /\ e + Len(v) = Len(s) => R[p + 1] = Add(NoParams, k, v)
           /\ e + Len(v) < Len(s) /\ s[e + Len(v) + 1] = Semi
                => R[p + 1] = AddBefore(R[e + Len(v) + 2], k, v)
      <4> HIDE DEF R
      <4>1. e + Len(v) <= Len(s)
        BY <3>2, <3>7, Zenon
      <4>2. ReadsItem(ItemsFrom(s, p + 1, R), s, e, k, v, R)
        <5>1. e = p + Len(k) + 1
          BY <3>2, <3>7, Zenon
        <5>2. QED
          BY <2>7, <3>1, <3>6, <3>8, <4>1, <5>1, ItemAt, Zenon
      <4>3. QED
        BY <3>9, <4>2, Zenon DEF ReadsItem
    <3>11. R[p + 1] = Some(m, Rest(i))
      <4>1. CASE i = n
        <5>1. e + b = L
          <6> HIDE DEF S, R, Rest
          <6>1. off[n] = L /\ Len(r) = a + 1 + b
            BY <2>8, <3>2, <3>4, <4>1, Zenon
          <6>2. QED
            BY <3>3, <3>5, <3>6, <3>7, <4>1, <6>1
        <5>2. R[p + 1] = Add(NoParams, k, v)
          BY <3>2, <3>10, <5>1, Zenon
        <5>3. Rest(i) = {k}
          BY <2>1, <4>1
        <5>4. Add(NoParams, k, m[k]) = Some(m, {k})
          BY AddFirst, Zenon
        <5>5. QED
          BY <5>2, <5>3, <5>4, Zenon
      <4>2. CASE i # n
        <5>1. /\ e + b + 1 = off[i] /\ e + b < L /\ e + b + 2 = off[i] + 1
              /\ a + b + 2 \in 1..Len(r) /\ p + (a + b + 2) = e + b + 1
          <6> HIDE DEF S, R, Rest
          <6>1. PICK c, o : c = Len(r) /\ o = off[i]
            OBVIOUS
          <6>2. c = a + 1 + b + 1 /\ o = p + c /\ o <= L /\ e = p + a + 1
            BY <3>4, <3>5, <3>7, <4>2, <6>1, Zenon
          <6>3. /\ e + b + 1 = o /\ e + b < L /\ e + b + 2 = o + 1
                /\ a + b + 2 \in 1..c /\ p + (a + b + 2) = e + b + 1
            BY <3>3, <3>6, <6>2, SMTT(30)
          <6>4. QED
            BY <6>1, <6>3, Zenon
        <5>2. s[e + b + 1] = Semi
          <6>1. s[p + (a + b + 2)] = r[a + b + 2]
            BY <3>5, <5>1, Zenon
          <6>2. QED
            BY <3>4, <4>2, <5>1, <6>1, Zenon
        <5>3. R[p + 1] = AddBefore(R[off[i] + 1], k, v)
          BY <3>2, <3>10, <5>1, <5>2, Zenon
        <5>4. i + 1 \in i + 1..n /\ i + 1 - 1 = i
          BY <2>1, <4>2
        <5>5. i + 1 \in S
          BY <2>9, <5>4, Zenon
        <5>6. PICK j : j = i + 1
          OBVIOUS
        <5>7. R[off[i] + 1] = Some(m, Rest(i + 1))
          <6> HIDE DEF S
          <6>0. j - 1 = i
            BY <5>6
          <6>1. j \in S
            BY <5>5, <5>6, Zenon
          <6> HIDE DEF R, Rest
          <6>2. R[off[j - 1] + 1] = Some(m, Rest(j))
            BY <6>1, Zenon DEF S
          <6>3. R[off[i] + 1] = Some(m, Rest(j))
            BY <6>0, <6>2, Zenon
          <6>4. QED
            BY <5>6, <6>3, Zenon
        <5>8. k \notin Rest(i + 1) /\ Rest(i + 1) \cup {k} = Rest(i)
          <6>1. \A x \in i + 1..n : x \in 1..n /\ x # i /\ x \in i..n
            BY <2>1
          <6>2. \A x \in i..n : x = i \/ x \in i + 1..n
            BY <2>1
          <6>3. i \in i..n
            BY <2>1
          <6> HIDE DEF S, R
          <6>4. k \notin Rest(i + 1)
            BY <2>1, <6>1, Zenon
          <6>5. Rest(i + 1) \cup {k} \subseteq Rest(i)
            BY <6>1, <6>3, Zenon
          <6>6. Rest(i) \subseteq Rest(i + 1) \cup {k}
            BY <6>2, Zenon
          <6>7. QED
            BY <6>4, <6>5, <6>6, Zenon
        <5>9. AddBefore(Some(m, Rest(i + 1)), k, m[k]) = Some(m, Rest(i + 1) \cup {k})
          <6> HIDE DEF Rest
          <6>1. PICK Q : Q = Rest(i + 1)
            OBVIOUS
          <6>2. k \notin Q
            BY <5>8, <6>1, Zenon
          <6>3. AddBefore(Some(m, Q), k, m[k]) = Some(m, Q \cup {k})
            BY <6>2, AddSome
          <6>4. QED
            BY <6>1, <6>3, Zenon
        <5>10. QED
          BY <5>3, <5>7, <5>8, <5>9, Zenon
      <4>3. QED
        BY <4>1, <4>2, Zenon
    <3>12. QED
      BY <3>11, Zenon
  <2>10. S = 1..n
    <3>1. S \in SUBSET (1..n)
      OBVIOUS
    <3> HIDE DEF S
    <3>2. QED
      BY <2>1, <2>9, <3>1, Downwards, Zenon
  <2>11. R[1] = Some(m, Rest(1))
    <3>1. 1 \in 1..n /\ 1 - 1 = 0 /\ 0 + 1 = 1
      BY <2>1, <2>2
    <3>2. 1 \in S
      BY <2>10, <3>1, Zenon
    <3>3. R[off[1 - 1] + 1] = Some(m, Rest(1))
      BY <3>2, Zenon
    <3>4. off[1 - 1] + 1 = 1
      BY <2>8, <3>1, Zenon
    <3>5. QED
      BY <3>3, <3>4, Zenon
  <2>12. Rest(1) = DOMAIN m
    <3>1. Rest(1) \subseteq DOMAIN m
      BY <2>3, Zenon
    <3>2. DOMAIN m \subseteq Rest(1)
      BY <2>1, Zenon
    <3> HIDE DEF Rest
    <3>3. QED
      BY <3>1, <3>2
  <2>13. Some(m, DOMAIN m) = m
    BY Zenon DEF Some, ParamMap
  <2>14. QED
    BY <2>7, <2>11, <2>12, <2>13, UnflattenReads, Zenon
<1>3. QED
  BY <1>1, <1>2, Zenon

(* What get() returns after a value was added *)
LEMMA AddGet ==
  ASSUME NEW m, NEW k, NEW v
  PROVE  Get(Add(m, k, v), k) = v
BY DEF Add, Get

(* for the other keys *)
LEMMA AddGetOther ==
  ASSUME NEW m, NEW k, NEW v
  PROVE  \A l : l # k => Get(Add(m, k, v), l) = Get(m, l)
<1>1. /\ DOMAIN Add(m, k, v) = DOMAIN m \cup {k}
      /\ \A l \in DOMAIN m \ {k} : Add(m, k, v)[l] = m[l]
  BY DEF Add
<1>2. QED
  BY <1>1 DEF Get

(* and after one was removed *)
LEMMA RemoveGet ==
  ASSUME NEW m, NEW k
  PROVE  \A l : l # k \/ k \notin DOMAIN m => Get(RemoveKey(m, k), l) = Get(m, l)
<1>1. /\ DOMAIN RemoveKey(m, k) = DOMAIN m \ {k}
      /\ \A l \in DOMAIN m \ {k} : RemoveKey(m, k)[l] = m[l]
  BY DEF RemoveKey
<1>2. QED
  BY <1>1 DEF Get

(* What one side of the wrapper flattens the other one unflattens to the     *)
(* same map: no item is lost, split or joined, whatever was set before.      *)
THEOREM RoundTripHolds == ParamsSpec => []RoundTrip
<1>1. ParamMap(params) => RoundTrip
  BY SentIsSame, Zenon DEF RoundTrip, Sent
<1>2. QED
  BY <1>1, MapsOnly, PTL

(* At most the value of one key differs. *)
OneKey(m, n) ==
  \E k \in DOMAIN m \cup DOMAIN n \cup {<<>>} :
    \A l \in (DOMAIN m \cup DOMAIN n) \ {k} : Get(n, l) = Get(m, l)

(* Two maps that differ in one key at most: *)
LEMMA OneKeyBut ==
  ASSUME NEW m, NEW n, NEW k \in DOMAIN m \cup DOMAIN n \cup {<<>>},
         \A l : l # k => Get(n, l) = Get(m, l)
  PROVE  OneKey(m, n)
BY Zenon DEF OneKey

(* a map and itself, *)
LEMMA OneKeySame == ASSUME NEW m PROVE OneKey(m, m)
BY Zenon DEF OneKey

(* with a value added *)
LEMMA OneKeyAdd == ASSUME NEW m, NEW k, NEW v PROVE OneKey(m, Add(m, k, v))
<1>1. k \in DOMAIN Add(m, k, v)
  BY DEF Add
<1>2. QED
  <2>1. PICK n : n = Add(m, k, v)
    OBVIOUS
  <2>2. \A l : l # k => Get(Add(m, k, v), l) = Get(m, l)
    BY AddGetOther
  <2>3. (\A l : l # k => Get(n, l) = Get(m, l)) /\ k \in DOMAIN n
    BY <1>1, <2>1, <2>2, Zenon
  <2>4. OneKey(m, n)
    BY <2>3, OneKeyBut
  <2>5. QED
    BY <2>1, <2>4, Zenon

(* and with one removed. *)
LEMMA OneKeyRemove == ASSUME NEW m, NEW k PROVE OneKey(m, RemoveKey(m, k))
<1>1. CASE k \in DOMAIN m
  <2>1. \A l : l # k => Get(RemoveKey(m, k), l) = Get(m, l)
    BY RemoveGet
  <2>2. QED
    BY <1>1, <2>1, OneKeyBut
<1>2. CASE k \notin DOMAIN m
  <2>1. \A l : Get(RemoveKey(m, k), l) = Get(m, l)
    BY <1>2, RemoveGet, Zenon
  <2>2. QED
    BY <2>1, Zenon DEF OneKey
<1>3. QED
  BY <1>1, <1>2, Zenon

(* Each operation changes one key at most. *)
LEMMA OneKeyStep ==
  ASSUME ParamMap(params), ParamsNext
  PROVE  OneKey(params, params')
<1>1. CASE ParamsDump
  BY <1>1, OneKeySame, Zenon DEF ParamsDump
<1>2. ASSUME NEW k \in Keys, NEW v \in Values, Changes(Set(params, k, v))
      PROVE  OneKey(params, params')
  <2>1. k \in Seq(Texts) /\ v \in Seq(Texts)
    BY SettingsAssumption, StringTexts, Zenon
  <2>2. params' = params \/ params' = Add(params, k, v)
    BY <1>2, <2>1, SetMap, Zenon DEF Changes
  <2>3. QED
    BY <2>2, OneKeySame, OneKeyAdd, Zenon
<1>3. ASSUME NEW k \in Keys, Changes(RemoveKey(params, k)) PROVE OneKey(params, params')
  BY <1>3, OneKeyRemove, Zenon DEF Changes
<1>4. ASSUME NEW keys \in {PreviewKeys, PictureKeys, VideoKeys}, NEW s \in Sizes,
             Changes(SetSize(params, keys, Numerals[s[1]], Numerals[s[2]]))
      PROVE  OneKey(params, params')
  <2>1. s[1] \in DOMAIN Numerals /\ s[2] \in DOMAIN Numerals
    BY DEF Sizes
  <2>2. \E v : params' = Add(params, keys.size, v)
    <3>1. SizeAdded(params, keys, s[1], s[2])
      BY <2>1, SettersAdd, Zenon
    <3>2. QED
      BY <1>4, <3>1, Zenon DEF SizeAdded, Changes
  <2>3. QED
    BY <2>2, OneKeyAdd, Zenon
<1>5. ASSUME NEW keys \in {PreviewKeys, PictureKeys}, NEW f \in FormatNames,
             Changes(SetFormat(params, keys, <<f>>))
      PROVE  OneKey(params, params')
  <2>1. params' = Add(params, keys.format, <<f>>)
    BY <1>5, SettersAdd, Zenon DEF Changes
  <2>2. QED
    BY <2>1, OneKeyAdd, Zenon
<1>6. ASSUME NEW t \in DOMAIN Numerals, NEW k \in {PreviewKeys.rate, FileKeys.quality},
             Changes(SetInt(params, k, Numerals[t]))
      PROVE  OneKey(params, params')
  <2>1. \E v : params' = Add(params, k, v)
    <3>1. NumberAdded(params, k, t)
      BY SettersAdd, Zenon
    <3>2. QED
      BY <1>6, <3>1, Zenon DEF NumberAdded, Changes
  <2>2. QED
    BY <2>1, OneKeyAdd, Zenon
<1>7. QED
  BY <1>1, <1>2, <1>3, <1>4, <1>5, <1>6, Zenon DEF ParamsNext, SetPreviewFrameRate

(* An operation on the object changes one item as the other side reads it,   *)
(* since set() lets no value bring an item of its own.                       *)
THEOREM OneItemChangesHolds == ParamsSpec => OneItemChanges
<1> DEFINE A == \E k \in DOMAIN Sent(params) \cup DOMAIN Sent(params') \cup {<<>>} :
                  \A l \in (DOMAIN Sent(params) \cup DOMAIN Sent(params')) \ {k} :
                    Get(Sent(params'), l) = Get(Sent(params), l)
<1>1. ParamMap(params) /\ ParamMap(params)' /\ [ParamsNext]_params => [A]_params
  <2> SUFFICES ASSUME ParamMap(params), ParamMap(params)', ParamsNext PROVE A
    BY Zenon
  <2>1. ParamMap(params')
    BY Zenon DEF ParamMap
  <2>2. Sent(params) = params /\ Sent(params') = params'
    BY <2>1, SentIsSame, Zenon DEF Sent
  <2>3. OneKey(params, params')
    BY OneKeyStep, Zenon
  <2>4. QED
    BY <2>2, <2>3, Zenon DEF OneKey
<1>2. QED
  BY <1>1, MapsOnly, PTL DEF ParamsSpec, OneItemChanges

(* The readers of one value *)
LEMMA PairRead ==
  ASSUME NEW t \in DOMAIN Numerals, NEW u \in DOMAIN Numerals
  PROVE  ParsePair(<<t, "x", u>>, 1, "x").pair = <<Numerals[t], Numerals[u]>>
<1> PICK x : x = "x"
  OBVIOUS
<1>1. PICK s : s = <<t, x, u>>
  OBVIOUS
<1>2. /\ 1 \in DOMAIN s /\ 2 \in DOMAIN s /\ 3 \in DOMAIN s
      /\ s[1] = t /\ s[2] = x /\ s[3] = u
  BY <1>1
<1>3. After(s, 1) = 2
  BY <1>2 DEF After, HasNumeral
<1>4. Strtol(s, 1) = Numerals[t] /\ Strtol(s, 3) = Numerals[u] /\ 2 + 1 = 3
  BY <1>2 DEF Strtol, HasNumeral
<1>5. ParsePair(s, 1, x).pair = <<Strtol(s, 1), Strtol(s, 2 + 1)>>
  BY <1>2, <1>3 DEF ParsePair
<1>6. ParsePair(s, 1, x).pair = <<Numerals[t], Numerals[u]>>
  BY <1>4, <1>5, Zenon
<1>7. QED
  BY <1>1, <1>6, Zenon

(* getInt reads the numeral it finds. *)
LEMMA NumberRead ==
  ASSUME NEW m, NEW k, NEW t \in DOMAIN Numerals, Get(m, k) = <<t>>
  PROVE  GetInt(m, k) = Numerals[t]
<1>1. <<t>> # <<>> /\ 1 \in DOMAIN <<t>> /\ <<t>>[1] = t
  OBVIOUS
<1>2. QED
  BY <1>1, Zenon DEF GetInt, Strtol, HasNumeral

(* A value that can be told apart is read by the other side. *)
LEMMA MapArrives ==
  ASSUME NEW m, ParamMap(m), NEW k, NEW v, Plain(k, "="), Plain(v, Semi)
  PROVE  Get(Sent(Add(m, k, v)), k) = v
<1>1. ParamMap(Add(m, k, v))
  BY AddMap
<1>2. Sent(Add(m, k, v)) = Add(m, k, v)
  BY <1>1, SentIsSame, Zenon DEF Sent
<1>3. Get(Add(m, k, v), k) = v
  BY AddGet
<1>4. QED
  BY <1>2, <1>3, Zenon

(* setPreviewSize and its like, setPreviewFrameRate and the setters of       *)
(* formats write what their getters read on the other side of the wrapper,   *)
(* for every map that the value may be set in.                               *)
THEOREM SettingsArriveHolds == ParamsSpec => []SettingsArrive
<1>1. ParamMap(params) => SettingsArrive
  <2> SUFFICES ASSUME ParamMap(params) PROVE SettingsArrive
    OBVIOUS
  <2>1. ASSUME NEW keys \in {PreviewKeys, PictureKeys, VideoKeys},
               NEW t \in DOMAIN Numerals, NEW u \in DOMAIN Numerals
        PROVE  GetSize(Sent(SetSize(params, keys, Numerals[t], Numerals[u])), keys)
                 = <<Numerals[t], Numerals[u]>>
    <3>1. PICK a, b \in DOMAIN Numerals :
            /\ Numerals[a] = Numerals[t] /\ Numerals[b] = Numerals[u]
            /\ Plain(keys.size, "=") /\ Plain(<<a, "x", b>>, Semi)
            /\ SetSize(params, keys, Numerals[t], Numerals[u])
                 = Add(params, keys.size, <<a, "x", b>>)
      <4>1. SizeAdded(params, keys, t, u)
        BY SettersAdd, Zenon
      <4>2. QED
        BY <4>1, Zenon DEF SizeAdded
    <3> DEFINE v == <<a, "x", b>>
    <3>2. /\ Plain(keys.size, "=") /\ Plain(v, Semi)
          /\ SetSize(params, keys, Numerals[t], Numerals[u]) = Add(params, keys.size, v)
      BY <3>1, Zenon
    <3>3. Get(Sent(Add(params, keys.size, v)), keys.size) = v
      <4> HIDE DEF v
      <4>1. QED
        BY <3>2, MapArrives, Zenon
    <3>4. QED
      BY <3>1, <3>2, <3>3, PairRead, Zenon DEF GetSize, PairOf
  <2>2. ASSUME NEW t \in DOMAIN Numerals
        PROVE  GetPreviewFrameRate(Sent(SetPreviewFrameRate(params, Numerals[t])))
                 = Numerals[t]
    <3>1. PICK a \in DOMAIN Numerals :
            /\ Numerals[a] = Numerals[t]
            /\ Plain(PreviewKeys.rate, "=") /\ Plain(<<a>>, Semi)
            /\ SetInt(params, PreviewKeys.rate, Numerals[t])
                 = Add(params, PreviewKeys.rate, <<a>>)
      <4>1. NumberAdded(params, PreviewKeys.rate, t)
        BY SettersAdd, Zenon
      <4>2. QED
        BY <4>1, Zenon DEF NumberAdded
    <3>2. Get(Sent(Add(params, PreviewKeys.rate, <<a>>)), PreviewKeys.rate) = <<a>>
      BY <3>1, MapArrives, Zenon
    <3>3. QED
      BY <3>1, <3>2, NumberRead, Zenon DEF GetPreviewFrameRate, SetPreviewFrameRate
  <2>3. ASSUME NEW keys \in {PreviewKeys, PictureKeys}, NEW f \in FormatNames
        PROVE  GetFormat(Sent(SetFormat(params, keys, <<f>>)), keys) = <<f>>
    <3>1. /\ Plain(keys.format, "=") /\ Plain(<<f>>, Semi)
          /\ SetFormat(params, keys, <<f>>) = Add(params, keys.format, <<f>>)
      BY SettersAdd, Zenon
    <3>2. QED
      BY <3>1, MapArrives, Zenon DEF GetFormat
  <2>4. ASSUME NEW keys \in {PreviewKeys, PictureKeys, VideoKeys},
               NEW w \in {Numerals[t] : t \in DOMAIN Numerals},
               NEW h \in {Numerals[t] : t \in DOMAIN Numerals}
        PROVE  /\ GetSize(Sent(SetSize(params, keys, w, h)), keys) = <<w, h>>
               /\ GetPreviewFrameRate(Sent(SetPreviewFrameRate(params, w))) = w
    <3>1. PICK t, u \in DOMAIN Numerals : w = Numerals[t] /\ h = Numerals[u]
      BY Zenon
    <3>2. QED
      BY <2>1, <2>2, <3>1, Zenon
  <2>5. QED
    BY <2>3, <2>4, Zenon DEF SettingsArrive
<1>2. QED
  BY <1>1, MapsOnly, PTL

(* Sequences put together of single elements *)
LEMMA Appended ==
  ASSUME NEW T, NEW a \in T, NEW b \in T, NEW c \in T
  PROVE  <<a>> \o <<b>> = <<a, b>> /\ <<a, b>> \o <<c>> = <<a, b, c>>
<1>1. /\ <<a>> \in Seq(T) /\ <<b>> \in Seq(T) /\ <<c>> \in Seq(T)
      /\ <<a, b>> \in Seq(T) /\ <<a, b, c>> \in Seq(T)
  OBVIOUS
<1>2. <<a>> \o <<b>> = <<a, b>>
  <2>1. PICK s : s = <<a>> \o <<b>>
    OBVIOUS
  <2>2. s \in Seq(T) /\ Len(s) = 2 /\ s[1] = a /\ s[2] = b
    BY <1>1, <2>1
  <2>3. s = <<a, b>>
    BY <2>2
  <2>4. QED
    BY <2>1, <2>3, Zenon
<1>3. <<a, b>> \o <<c>> = <<a, b, c>>
  <2>1. PICK s : s = <<a, b>> \o <<c>>
    OBVIOUS
  <2>2. s \in Seq(T) /\ Len(s) = 3 /\ s[1] = a /\ s[2] = b /\ s[3] = c
    BY <1>1, <2>1
  <2>3. s = <<a, b, c>>
    BY <2>2
  <2>4. QED
    BY <2>1, <2>3, Zenon
<1>4. QED
  BY <1>2, <1>3

(* A text is a size when it is an "x" with or without numerals around it. *)
LEMMA SizeForms ==
  ASSUME NEW r
  PROVE  IsSize(r) <=>
           \/ r = <<"x">>
           \/ \E t \in DOMAIN Numerals : r = <<t, "x">> \/ r = <<"x", t>>
           \/ \E t, u \in DOMAIN Numerals : r = <<t, "x", u>>
<1> PICK x : x = "x"
  OBVIOUS
<1>1. ASSUME NEW t, NEW u
      PROVE  /\ <<>> \o <<x>> \o <<>> = <<x>> /\ <<t>> \o <<x>> \o <<>> = <<t, x>>
             /\ <<>> \o <<x>> \o <<u>> = <<x, u>> /\ <<t>> \o <<x>> \o <<u>> = <<t, x, u>>
  <2>1. <<>> \o <<x>> = <<x>>
    OBVIOUS
  <2> DEFINE T == {t, x, u}
  <2>2. t \in T /\ x \in T /\ u \in T
    OBVIOUS
  <2> HIDE DEF T
  <2>3. <<x>> \o <<>> = <<x>>
    OBVIOUS
  <2>4. <<t, x>> \o <<>> = <<t, x>>
    OBVIOUS
  <2>5. <<t>> \o <<x>> = <<t, x>> /\ <<x>> \o <<u>> = <<x, u>>
    BY <2>2, Appended
  <2>6. <<t, x>> \o <<u>> = <<t, x, u>>
    BY <2>2, Appended
  <2>7. QED
    BY <2>1, <2>3, <2>4, <2>5, <2>6, Zenon
<1>2. ASSUME IsSize(r)
      PROVE  \/ r = <<x>>
             \/ \E t \in DOMAIN Numerals : r = <<t, x>> \/ r = <<x, t>>
             \/ \E t, u \in DOMAIN Numerals : r = <<t, x, u>>
  <2>1. PICK a, b \in Side : r = a \o <<x>> \o b
    BY <1>2, Zenon DEF IsSize
  <2>2. /\ a = <<>> \/ \E t \in DOMAIN Numerals : a = <<t>>
        /\ b = <<>> \/ \E t \in DOMAIN Numerals : b = <<t>>
    BY Zenon DEF Side
  <2>3. CASE a = <<>> /\ b = <<>>
    BY <1>1, <2>1, <2>3, Zenon
  <2>4. ASSUME NEW t \in DOMAIN Numerals, a = <<t>>, b = <<>> PROVE r = <<t, x>>
    BY <1>1, <2>1, <2>4, Zenon
  <2>5. ASSUME NEW u \in DOMAIN Numerals, a = <<>>, b = <<u>> PROVE r = <<x, u>>
    BY <1>1, <2>1, <2>5, Zenon
  <2>6. ASSUME NEW t \in DOMAIN Numerals, NEW u \in DOMAIN Numerals, a = <<t>>, b = <<u>>
        PROVE  r = <<t, x, u>>
    BY <1>1, <2>1, <2>6, Zenon
  <2>7. QED
    BY <2>2, <2>3, <2>4, <2>5, <2>6, Zenon
<1>3. ASSUME r = <<x>> PROVE IsSize(r)
  <2>1. r = <<>> \o <<x>> \o <<>> /\ <<>> \in Side
    BY <1>1, <1>3, Zenon DEF Side
  <2>2. QED
    BY <2>1, Zenon DEF IsSize
<1>4. ASSUME NEW t \in DOMAIN Numerals PROVE r = <<t, x>> => IsSize(r)
  <2>1. <<t>> \o <<x>> \o <<>> = <<t, x>> /\ <<>> \in Side /\ <<t>> \in Side
    BY <1>1, Zenon DEF Side
  <2>2. QED
    BY <2>1, Zenon DEF IsSize
<1>5. ASSUME NEW u \in DOMAIN Numerals PROVE r = <<x, u>> => IsSize(r)
  <2>1. <<>> \o <<x>> \o <<u>> = <<x, u>> /\ <<>> \in Side /\ <<u>> \in Side
    BY <1>1, Zenon DEF Side
  <2>2. QED
    BY <2>1, Zenon DEF IsSize
<1>6. ASSUME NEW t \in DOMAIN Numerals, NEW u \in DOMAIN Numerals
      PROVE  r = <<t, x, u>> => IsSize(r)
  <2>1. <<t>> \o <<x>> \o <<u>> = <<t, x, u>> /\ <<t>> \in Side /\ <<u>> \in Side
    BY <1>1, Zenon DEF Side
  <2>2. QED
    BY <2>1, Zenon DEF IsSize
<1>7. QED
  BY <1>2, <1>3, <1>4, <1>5, <1>6, Zenon

(* What parse_pair does with one text *)
LEMMA SizeParsed ==
  ASSUME NEW r \in Seq(Texts), IsSize(r)
  PROVE  /\ ParsePair(r, 1, "x").end = Len(r) + 1
         /\ ParsePair(r, 1, "x").pair = SizeOf(r)
<1> PICK x : x = "x"
  OBVIOUS
<1>1. \A t \in DOMAIN Numerals : t # x
  BY NumeralText, Zenon
<1>2. x \notin DOMAIN Numerals
  BY <1>1, Zenon
<1>3. ASSUME NEW d \in {1, 2}, After(r, 1) = d, d \in DOMAIN r, r[d] = x,
             \A j \in 1..d - 1 : r[j] # x, After(r, d + 1) = Len(r) + 1
      PROVE  /\ ParsePair(r, 1, x).end = Len(r) + 1
             /\ ParsePair(r, 1, x).pair = SizeOf(r)
  <2>1. ParsePair(r, 1, x) = [end |-> Len(r) + 1, pair |-> <<Strtol(r, 1), Strtol(r, d + 1)>>]
    BY <1>3, Zenon DEF ParsePair
  <2>2. d \in 1..Len(r) /\ 1 \in Nat \ {0}
    BY <1>3
  <2>3. Find(r, x, 1) = d
    BY <1>3, <2>2, FindIs, Zenon
  <2>4. SizeOf(r) = <<Strtol(r, 1), Strtol(r, d + 1)>>
    BY <2>3, Zenon DEF SizeOf
  <2>5. QED
    BY <2>1, <2>4
<1>4. CASE r = <<x>>
  <2>1. /\ DOMAIN r = 1..1 /\ Len(r) = 1 /\ r[1] = x /\ 1 \in DOMAIN r
        /\ 2 \notin DOMAIN r /\ \A j \in 1..1 - 1 : r[j] # x
    BY <1>4
  <2>2. After(r, 1) = 1 /\ After(r, 1 + 1) = Len(r) + 1
    BY <1>2, <2>1 DEF After, HasNumeral
  <2>3. QED
    BY <1>3, <2>1, <2>2
<1>5. ASSUME NEW t \in DOMAIN Numerals, r = <<t, x>>
      PROVE  /\ ParsePair(r, 1, x).end = Len(r) + 1
             /\ ParsePair(r, 1, x).pair = SizeOf(r)
  <2>1. /\ Len(r) = 2 /\ r[1] = t /\ r[2] = x /\ 1 \in DOMAIN r /\ 2 \in DOMAIN r
        /\ 3 \notin DOMAIN r /\ \A j \in 1..2 - 1 : r[j] # x
    BY <1>1, <1>5
  <2>2. After(r, 1) = 2 /\ After(r, 2 + 1) = Len(r) + 1
    BY <1>2, <2>1 DEF After, HasNumeral
  <2>3. QED
    BY <1>3, <2>1, <2>2
<1>6. ASSUME NEW u \in DOMAIN Numerals, r = <<x, u>>
      PROVE  /\ ParsePair(r, 1, x).end = Len(r) + 1
             /\ ParsePair(r, 1, x).pair = SizeOf(r)
  <2>1. /\ Len(r) = 2 /\ r[1] = x /\ r[2] = u /\ 1 \in DOMAIN r /\ 2 \in DOMAIN r
        /\ \A j \in 1..1 - 1 : r[j] # x
    BY <1>6
  <2>2. After(r, 1) = 1 /\ After(r, 1 + 1) = Len(r) + 1
    BY <1>2, <2>1 DEF After, HasNumeral
  <2>3. QED
    BY <1>3, <2>1, <2>2
<1>7. ASSUME NEW t \in DOMAIN Numerals, NEW u \in DOMAIN Numerals, r = <<t, x, u>>
      PROVE  /\ ParsePair(r, 1, x).end = Len(r) + 1
             /\ ParsePair(r, 1, x).pair = SizeOf(r)
  <2>1. /\ Len(r) = 3 /\ r[1] = t /\ r[2] = x /\ r[3] = u
        /\ 1 \in DOMAIN r /\ 2 \in DOMAIN r /\ 3 \in DOMAIN r
        /\ \A j \in 1..2 - 1 : r[j] # x
    BY <1>1, <1>7
  <2>2. After(r, 1) = 2 /\ After(r, 2 + 1) = Len(r) + 1
    BY <1>2, <2>1 DEF After, HasNumeral
  <2>3. QED
    BY <1>3, <2>1, <2>2
<1>8. QED
  BY <1>4, <1>5, <1>6, <1>7, SizeForms, Zenon

(* and a text that it reads to its end is a size. *)
LEMMA ParsedSize ==
  ASSUME NEW r \in Seq(Texts), NEW e, e = ParsePair(r, 1, "x").end
  PROVE  /\ e = 0 \/ e \in 1..Len(r) + 1
         /\ e = Len(r) + 1 => IsSize(r)
<1> PICK x : x = "x"
  OBVIOUS
<1>1. PICK d : d = After(r, 1)
  OBVIOUS
<1>2. d = 1 \/ (d = 2 /\ 1 \in DOMAIN r /\ r[1] \in DOMAIN Numerals)
  BY <1>1 DEF After, HasNumeral
<1>3. DOMAIN r = 1..Len(r) /\ Len(r) \in Nat
  OBVIOUS
<1>4. CASE d \notin DOMAIN r \/ r[d] # x
  <2>1. e = 0
    BY <1>1, <1>4 DEF ParsePair
  <2>2. QED
    BY <1>3, <2>1
<1>5. CASE d \in DOMAIN r /\ r[d] = x
  <2>1. e = After(r, d + 1)
    BY <1>1, <1>5 DEF ParsePair
  <2>2. \/ e = d + 1
        \/ e = d + 2 /\ d + 1 \in DOMAIN r /\ r[d + 1] \in DOMAIN Numerals
    BY <1>2, <2>1 DEF After, HasNumeral
  <2>3. e \in 1..Len(r) + 1
    BY <1>2, <1>3, <1>5, <2>2
  <2>4. ASSUME e = Len(r) + 1 PROVE IsSize(r)
    <3>1. CASE d = 1 /\ e = d + 1
      <4>1. Len(r) = 1 /\ r[1] = x
        BY <1>3, <1>5, <2>4, <3>1
      <4>2. r = <<x>>
        BY <4>1
      <4>3. QED
        BY <4>2, SizeForms, Zenon
    <3>2. CASE d = 2 /\ e = d + 1
      <4>1. Len(r) = 2 /\ r[2] = x /\ r[1] \in DOMAIN Numerals
        BY <1>2, <1>3, <1>5, <2>4, <3>2
      <4>2. r = <<r[1], x>>
        BY <4>1
      <4>3. QED
        BY <4>1, <4>2, SizeForms, Zenon
    <3>3. CASE d = 1 /\ e = d + 2 /\ r[d + 1] \in DOMAIN Numerals
      <4>1. Len(r) = 2 /\ r[1] = x /\ r[2] \in DOMAIN Numerals
        BY <1>3, <1>5, <2>4, <3>3
      <4>2. r = <<x, r[2]>>
        BY <4>1
      <4>3. QED
        BY <4>1, <4>2, SizeForms, Zenon
    <3>4. CASE d = 2 /\ e = d + 2 /\ r[d + 1] \in DOMAIN Numerals
      <4>1. /\ Len(r) = 3 /\ r[2] = x /\ r[1] \in DOMAIN Numerals
            /\ r[3] \in DOMAIN Numerals
        BY <1>2, <1>3, <1>5, <2>4, <3>4
      <4>2. r = <<r[1], x, r[3]>>
        BY <4>1
      <4>3. QED
        BY <4>1, <4>2, SizeForms, Zenon
    <3>5. QED
      BY <1>2, <2>2, <3>1, <3>2, <3>3, <3>4
  <2>5. QED
    BY <2>3, <2>4
<1>6. QED
  BY <1>4, <1>5

(* The fields of parseSizesList's loop *)
Comma == ","
SizesFrom(s, i, From) ==
  LET p == ParsePair(s, i, "x")
  IN  IF p.end = 0 THEN <<>>
      ELSE IF p.end > Len(s) THEN <<p.pair>>
      ELSE IF s[p.end] # Comma THEN <<>>
      ELSE <<p.pair>> \o From[p.end + 1]
SizesRead(s) == CHOOSE From : From = [i \in 1..Len(s) + 1 |-> SizesFrom(s, i, From)]

(* parseSizesList returns what its loop reads from the first position. *)
LEMMA ListReads ==
  ASSUME NEW s PROVE ParseSizesList(s) = IF s = <<>> THEN <<>> ELSE SizesRead(s)[1]
BY Zenon DEF ParseSizesList, SizesRead, SizesFrom, Comma

(* parse_pair stops past where it started. *)
LEMMA PairEnd ==
  ASSUME NEW s \in Seq(Texts), NEW i \in 1..Len(s) + 1, NEW e,
         e = ParsePair(s, i, "x").end
  PROVE  e = 0 \/ e \in i + 1..Len(s) + 1
<1> PICK x : x = "x"
  OBVIOUS
<1>1. PICK d, L : d = After(s, i) /\ L = Len(s)
  OBVIOUS
<1>2. DOMAIN s = 1..L /\ L \in Nat
  BY <1>1
<1>3. d \in {i, i + 1}
  BY <1>1 DEF After
<1>4. CASE d \notin DOMAIN s \/ s[d] # x
  BY <1>1, <1>4 DEF ParsePair
<1>5. CASE d \in DOMAIN s /\ s[d] = x
  <2>1. e = After(s, d + 1)
    BY <1>1, <1>5 DEF ParsePair
  <2>2. e = d + 1 \/ (e = d + 2 /\ d + 1 \in DOMAIN s)
    BY <1>2, <1>5, <2>1 DEF After, HasNumeral
  <2>3. QED
    BY <1>1, <1>2, <1>3, <1>5, <2>2
<1>6. QED
  BY <1>4, <1>5

(* What the loop reads from i on depends on what it reads from later         *)
(* positions,                                                                *)
LEMMA SizesLater ==
  ASSUME NEW s \in Seq(Texts), NEW i \in 1..Len(s) + 1, NEW F, NEW G,
         \A j \in i + 1..Len(s) + 1 : F[j] = G[j]
  PROVE  SizesFrom(s, i, F) = SizesFrom(s, i, G)
<1>1. PICK p : p = ParsePair(s, i, "x")
  OBVIOUS
<1>2. PICK e : e = p.end
  OBVIOUS
<1>3. e = 0 \/ e \in i + 1..Len(s) + 1
  BY <1>1, <1>2, PairEnd, Zenon
<1>4. e # 0 /\ ~(e > Len(s)) => F[e + 1] = G[e + 1]
  <2>1. ASSUME e # 0, ~(e > Len(s)) PROVE e + 1 \in i + 1..Len(s) + 1
    BY <1>3, <2>1
  <2>2. QED
    BY <2>1
<1>5. QED
  BY <1>1, <1>2, <1>4, Zenon DEF SizesFrom

(* so the loop is well defined. *)
LEMMA SizesFit ==
  ASSUME NEW s \in Seq(Texts)
  PROVE  SizesRead(s) = [i \in 1..Len(s) + 1 |-> SizesFrom(s, i, SizesRead(s))]
<1> DEFINE L == Len(s) + 1
           P == {n \in Nat : n < L =>
                   \E F : F = [i \in L - n..L |-> SizesFrom(s, i, F)]}
<1>1. L \in Nat /\ L >= 1
  OBVIOUS
<1>2. 0 \in P
  <2> DEFINE F == [i \in L - 0..L |-> SizesFrom(s, i, 0)]
  <2>1. \A i \in L - 0..L : SizesFrom(s, i, F) = SizesFrom(s, i, 0)
    <3> SUFFICES ASSUME NEW i \in L - 0..L PROVE SizesFrom(s, i, F) = SizesFrom(s, i, 0)
      OBVIOUS
    <3>1. i \in 1..Len(s) + 1 /\ \A j \in i + 1..Len(s) + 1 : F[j] = (0)[j]
      BY <1>1
    <3> HIDE DEF F
    <3>2. QED
      BY <3>1, SizesLater
  <2>2. F = [i \in L - 0..L |-> SizesFrom(s, i, F)]
    BY <2>1
  <2>3. QED
    BY <2>2
<1>3. ASSUME NEW n \in P PROVE n + 1 \in P
  <2> SUFFICES ASSUME n + 1 < L
               PROVE  \E G : G = [i \in L - (n + 1)..L |-> SizesFrom(s, i, G)]
    BY <1>1
  <2>1. PICK F : F = [i \in L - n..L |-> SizesFrom(s, i, F)]
    BY <1>1
  <2> DEFINE k == L - (n + 1)
             G == [i \in k..L |-> IF i = k THEN SizesFrom(s, k, F) ELSE F[i]]
  <2>2. k \in 1..L /\ k + 1 = L - n
    BY <1>1
  <2>3. ASSUME NEW i \in k..L PROVE SizesFrom(s, i, G) = SizesFrom(s, i, F)
    <3>1. i \in 1..Len(s) + 1
      BY <1>1, <2>2
    <3>2. \A j \in i + 1..Len(s) + 1 : G[j] = F[j]
      BY <1>1, <2>2
    <3> HIDE DEF G
    <3>3. QED
      BY <3>1, <3>2, SizesLater
  <2>4. ASSUME NEW i \in k..L PROVE G[i] = SizesFrom(s, i, F)
    <3>1. CASE i = k
      BY <3>1
    <3>2. CASE i # k
      <4>1. i \in L - n..L
        <5>1. n \in Int
          BY <1>3
        <5> HIDE DEF P, G
        <5>2. QED
          BY <1>1, <2>2, <3>2, <5>1
      <4>2. F[i] = SizesFrom(s, i, F)
        BY <2>1, <4>1
      <4>3. QED
        BY <3>2, <4>2
    <3>3. QED
      BY <3>1, <3>2
  <2>5. G = [i \in k..L |-> G[i]]
    OBVIOUS
  <2> HIDE DEF G
  <2>6. G = [i \in k..L |-> SizesFrom(s, i, G)]
    BY <2>3, <2>4, <2>5
  <2>7. QED
    BY <2>6
<1>4. P = Nat
  <2> HIDE DEF P
  <2>1. P \in SUBSET Nat
    BY DEF P
  <2>2. QED
    BY <1>2, <1>3, <2>1, Induction
<1>5. \E F : F = [i \in L - (L - 1)..L |-> SizesFrom(s, i, F)]
  <2>1. L - 1 \in Nat /\ L - 1 < L
    BY <1>1
  <2>2. L - 1 \in P
    BY <1>4, <2>1
  <2>3. QED
    BY <2>1, <2>2
<1>6. L - (L - 1) = 1
  BY <1>1
<1>7. \E F : F = [i \in 1..Len(s) + 1 |-> SizesFrom(s, i, F)]
  BY <1>5, <1>6
<1>8. QED
  BY <1>7, Zenon DEF SizesRead

(* One round of the loop *)
LEMMA SizesAt ==
  ASSUME NEW s \in Seq(Texts), NEW i \in 1..Len(s) + 1
  PROVE  SizesRead(s)[i] = SizesFrom(s, i, SizesRead(s))
BY SizesFit

(* A text ends at the first comma after its start. *)
EndAt(s, i) ==
  LET ends == {j \in Commas(s) : j >= i}
  IN  IF ends = {} THEN Len(s) + 1 ELSE Min(ends)

(* Where a text ends *)
LEMMA PieceEnds ==
  ASSUME NEW s \in Seq(Texts), NEW i \in 1..Len(s) + 1
  PROVE  /\ EndAt(s, i) \in i..Len(s) + 1
         /\ PieceAt(s, i) = SubSeq(s, i, EndAt(s, i) - 1)
         /\ EndAt(s, i) <= Len(s) => s[EndAt(s, i)] = Comma
         /\ \A j \in i..EndAt(s, i) - 1 : s[j] # Comma
<1> PICK c, L : c = Comma /\ L = Len(s)
  OBVIOUS
<1>1. L \in Nat /\ DOMAIN s = 1..L
  OBVIOUS
<1>0. Commas(s) = {j \in DOMAIN s : s[j] = c}
  BY Zenon DEF Commas, Comma
<1> DEFINE ends == {j \in Commas(s) : j >= i}
<1>2. \A j : j \in ends <=> j \in i..L /\ s[j] = c
  BY <1>0, <1>1
<1>3. PICK e : e = EndAt(s, i)
  OBVIOUS
<1>4. CASE ends = {}
  <2>1. e = Len(s) + 1
    BY <1>3, <1>4, Zenon DEF EndAt
  <2>2. PieceAt(s, i) = SubSeq(s, i, Len(s))
    BY <1>4, Zenon DEF PieceAt
  <2>3. \A j \in i..L : s[j] # c
    BY <1>2, <1>4, Zenon
  <2> HIDE DEF ends
  <2>4. e - 1 = L /\ e \in i..L + 1 /\ ~(e <= L)
    BY <1>1, <2>1
  <2>5. \A j \in i..e - 1 : s[j] # c
    BY <2>3, <2>4, Zenon
  <2>6. QED
    BY <1>3, <2>2, <2>4, <2>5, Zenon
<1>5. CASE ends # {}
  <2>1. e = Min(ends) /\ PieceAt(s, i) = SubSeq(s, i, e - 1)
    BY <1>3, <1>5, Zenon DEF EndAt, PieceAt
  <2> HIDE DEF ends
  <2>2. ends \in SUBSET Nat
    BY <1>1, <1>2
  <2>3. e \in ends /\ \A j \in ends : e <= j
    BY <1>5, <2>1, <2>2, MinIs, Zenon
  <2>4. e \in i..L /\ s[e] = c
    BY <1>2, <2>3, Zenon
  <2>5. ASSUME NEW j \in i..e - 1 PROVE s[j] # c
    <3>1. j \in i..L /\ ~(e <= j)
      BY <1>1, <2>4
    <3>2. QED
      BY <1>2, <2>3, <3>1, Zenon
  <2>6. e \in i..L + 1
    BY <1>1, <2>4
  <2>7. QED
    BY <1>3, <2>1, <2>4, <2>5, <2>6, Zenon
<1>6. QED
  BY <1>4, <1>5

(* parse_pair sees of the whole what it sees of the text alone. *)
SeenAlike(r, p, q, i, E) ==
  /\ r \in Seq(Texts) /\ Len(r) = E - i
  /\ q.end = 0 => p.end = 0
  /\ q.end # 0 => p.end = q.end + i - 1 /\ p.pair = q.pair

(* parse_pair reads of the list what it reads of the text that starts there, *)
(* since a "," is neither an "x" nor a numeral.                              *)
LEMMA PairOfPiece ==
  ASSUME NEW s \in Seq(Texts), NEW i \in 1..Len(s) + 1, NEW r, r = PieceAt(s, i),
         NEW p, p = ParsePair(s, i, "x"), NEW q, q = ParsePair(r, 1, "x")
  PROVE  SeenAlike(r, p, q, i, EndAt(s, i))
<1> PICK x, c, L, E : x = "x" /\ c = Comma /\ L = Len(s) /\ E = EndAt(s, i)
  OBVIOUS
<1>1. L \in Nat /\ DOMAIN s = 1..L /\ i \in 1..L + 1
  OBVIOUS
<1>2. /\ E \in i..L + 1 /\ r = SubSeq(s, i, E - 1)
      /\ E <= L => s[E] = c
  BY PieceEnds, Zenon
<1>3. x # c /\ c \notin DOMAIN Numerals
  BY NumeralText, Zenon DEF Comma
<1>4. /\ r \in Seq(Texts) /\ Len(r) = E - i /\ DOMAIN r = 1..E - i
      /\ \A y \in 1..E - i : r[y] = s[y + i - 1]
  <2>1. \A l \in i..E - 1 : s[l] \in Texts
    BY <1>1, <1>2
  <2>2. i \in Int /\ E - 1 \in Int
    BY <1>1, <1>2
  <2>3. /\ r \in Seq(Texts) /\ Len(r) = IF i <= E - 1 THEN E - 1 - i + 1 ELSE 0
        /\ \A y \in 1..E - 1 - i + 1 : r[y] = s[i + y - 1]
    <3>1. PICK f : f = E - 1
      OBVIOUS
    <3>2. /\ SubSeq(s, i, f) \in Seq(Texts)
          /\ Len(SubSeq(s, i, f)) = IF i <= f THEN f - i + 1 ELSE 0
          /\ \A y \in 1..f - i + 1 : SubSeq(s, i, f)[y] = s[i + y - 1]
      BY <2>1, <2>2, <3>1, SubSeqProperties
    <3>3. r = SubSeq(s, i, f)
      BY <1>2, <3>1, Zenon
    <3>4. QED
      BY <3>1, <3>2, <3>3, Zenon
  <2>4. Len(r) = E - i /\ E - 1 - i + 1 = E - i
    BY <1>1, <1>2, <2>3
  <2>5. \A y \in 1..E - i : y + i - 1 = i + y - 1
    BY <1>1
  <2>6. DOMAIN r = 1..Len(r)
    BY <2>3, LenProperties, Zenon
  <2>7. QED
    BY <2>3, <2>4, <2>5, <2>6, Zenon
<1>5. ASSUME NEW y \in 1..E - i + 1
      PROVE  /\ HasNumeral(s, y + i - 1) <=> HasNumeral(r, y)
             /\ y + i - 1 \in DOMAIN s /\ s[y + i - 1] = x <=> y \in DOMAIN r /\ r[y] = x
  <2>1. CASE y \in 1..E - i
    <3>1. y + i - 1 \in 1..L
      BY <1>1, <1>2, <2>1
    <3>2. QED
      BY <1>1, <1>4, <2>1, <3>1, Zenon DEF HasNumeral
  <2>2. CASE y = E - i + 1
    <3>1. y + i - 1 = E /\ y \notin 1..E - i /\ (E \in 1..L => E <= L)
      BY <1>1, <1>2, <2>2
    <3>2. E \in DOMAIN s => s[E] = c
      BY <1>1, <1>2, <3>1, Zenon
    <3>3. QED
      BY <1>3, <1>4, <3>1, <3>2, Zenon DEF HasNumeral
  <2>3. QED
    BY <1>1, <1>2, <2>1, <2>2
<1>6. ASSUME NEW y \in 1..E - i + 1
      PROVE  After(s, y + i - 1) = After(r, y) + i - 1
  <2>1. HasNumeral(s, y + i - 1) <=> HasNumeral(r, y)
    BY <1>5, Zenon
  <2>2. y + i - 1 + 1 = y + 1 + i - 1
    BY <1>1
  <2>3. QED
    BY <2>1, <2>2, Zenon DEF After
<1>7. ASSUME NEW y \in 1..E - i + 1
      PROVE  Strtol(s, y + i - 1) = Strtol(r, y)
  <2>1. HasNumeral(s, y + i - 1) <=> HasNumeral(r, y)
    BY <1>5, Zenon
  <2>2. CASE HasNumeral(r, y)
    <3>1. y \in 1..E - i
      BY <1>4, <2>2, Zenon DEF HasNumeral
    <3>2. r[y] = s[y + i - 1]
      BY <1>4, <3>1, Zenon
    <3>3. QED
      BY <2>1, <2>2, <3>2, Zenon DEF Strtol
  <2>3. CASE ~HasNumeral(r, y)
    BY <2>1, <2>3, Zenon DEF Strtol
  <2>4. QED
    BY <2>2, <2>3
<1>8. PICK d : d = After(r, 1)
  OBVIOUS
<1>9. 1 \in 1..E - i + 1 /\ 1 + i - 1 = i
  BY <1>1, <1>2
<1>10. d \in 1..E - i + 1
  <2>1. d = 1 \/ (d = 2 /\ 1 \in DOMAIN r)
    BY <1>8 DEF After, HasNumeral
  <2>2. QED
    BY <1>1, <1>2, <1>4, <2>1
<1>11. After(s, i) = d + i - 1 /\ Strtol(s, i) = Strtol(r, 1)
  BY <1>6, <1>7, <1>8, <1>9, Zenon
<1>12. CASE ~(d \in DOMAIN r /\ r[d] = x)
  <2>1. ~(d + i - 1 \in DOMAIN s /\ s[d + i - 1] = x)
    BY <1>5, <1>10, <1>12, Zenon
  <2>2. p.end = 0 /\ q.end = 0
    BY <1>8, <1>11, <1>12, <2>1 DEF ParsePair
  <2>3. QED
    BY <1>4, <2>2, Zenon DEF SeenAlike
<1>13. CASE d \in DOMAIN r /\ r[d] = x
  <2>1. d + i - 1 \in DOMAIN s /\ s[d + i - 1] = x
    BY <1>5, <1>10, <1>13, Zenon
  <2>2. /\ p.end = After(s, d + i - 1 + 1)
        /\ p.pair = <<Strtol(s, i), Strtol(s, d + i - 1 + 1)>>
        /\ q.end = After(r, d + 1)
        /\ q.pair = <<Strtol(r, 1), Strtol(r, d + 1)>>
    BY <1>8, <1>11, <1>13, <2>1 DEF ParsePair
  <2>3. d + 1 \in 1..E - i + 1 /\ d + i - 1 + 1 = d + 1 + i - 1
    <3>1. d \in 1..E - i
      BY <1>4, <1>13, Zenon
    <3>2. QED
      BY <1>1, <1>2, <3>1
  <2>4. p.end = q.end + i - 1 /\ p.pair = q.pair
    BY <1>6, <1>7, <1>11, <2>2, <2>3, Zenon
  <2>5. q.end # 0
    <3>1. q.end = d + 1 \/ q.end = d + 1 + 1
      BY <2>2 DEF After
    <3>2. QED
      BY <1>10, <3>1
  <2>6. QED
    BY <1>4, <2>4, <2>5, Zenon DEF SeenAlike
<1>14. QED
  BY <1>12, <1>13, Zenon

(* What the loop does with the text at i *)
LEMMA PieceRead ==
  ASSUME NEW s \in Seq(Texts), NEW i \in 1..Len(s) + 1
  PROVE  LET p == ParsePair(s, i, "x")
         IN  /\ IsSize(PieceAt(s, i))
                  => /\ p.end = EndAt(s, i) /\ p.end # 0
                     /\ p.pair = SizeOf(PieceAt(s, i))
             /\ ~IsSize(PieceAt(s, i))
                  => p.end = 0 \/ (p.end <= Len(s) /\ s[p.end] # Comma)
<1>1. PICK r, p, q : /\ r = PieceAt(s, i) /\ p = ParsePair(s, i, "x")
                     /\ q = ParsePair(r, 1, "x")
  OBVIOUS
<1>2. PICK E, L : E = EndAt(s, i) /\ L = Len(s)
  OBVIOUS
<1>3. /\ r \in Seq(Texts) /\ Len(r) = E - i
      /\ q.end = 0 => p.end = 0
      /\ q.end # 0 => p.end = q.end + i - 1 /\ p.pair = q.pair
  <2>1. SeenAlike(r, p, q, i, E)
    BY <1>1, <1>2, PairOfPiece, Zenon
  <2>2. QED
    BY <2>1, Zenon DEF SeenAlike
<1>4. E \in i..L + 1 /\ \A j \in i..E - 1 : s[j] # Comma
  BY <1>2, PieceEnds, Zenon
<1>5. L \in Nat /\ i \in 1..L + 1
  BY <1>2
<1>6. PICK e : e = q.end
  OBVIOUS
<1>7. CASE IsSize(r)
  <2>1. q.end = Len(r) + 1 /\ q.pair = SizeOf(r)
    BY <1>1, <1>3, <1>7, SizeParsed, Zenon
  <2>2. e = E - i + 1
    BY <1>3, <1>6, <2>1, Zenon
  <2>3. e # 0 /\ e + i - 1 = E /\ E # 0
    BY <1>4, <1>5, <2>2
  <2>4. p.end = E /\ p.pair = SizeOf(r)
    BY <1>3, <1>6, <2>1, <2>3, Zenon
  <2>5. QED
    BY <1>1, <1>2, <1>7, <2>3, <2>4, Zenon
<1>8. CASE ~IsSize(r)
  <2>1. /\ e = 0 \/ e \in 1..Len(r) + 1
        /\ e = Len(r) + 1 => IsSize(r)
    BY <1>1, <1>3, <1>6, ParsedSize
  <2>2. e = 0 \/ (e \in 1..E - i + 1 /\ e # E - i + 1)
    BY <1>3, <1>8, <2>1, Zenon
  <2>3. CASE e = 0
    BY <1>1, <1>3, <1>6, <1>8, <2>3, Zenon
  <2>4. CASE e # 0
    <3>1. PICK f : f = e + i - 1
      OBVIOUS
    <3>2. f \in i..E - 1 /\ f <= L
      BY <1>4, <1>5, <2>2, <2>4, <3>1
    <3>3. p.end = f
      BY <1>3, <1>6, <2>4, <3>1, Zenon
    <3>4. QED
      BY <1>1, <1>2, <1>4, <1>8, <3>2, <3>3, Zenon
  <2>5. QED
    BY <2>3, <2>4
<1>9. QED
  BY <1>7, <1>8

(* The members of a set that come before one of them *)
Before(S, i) == {j \in S : j < i}

(* They can be counted, *)
LEMMA BeforeCounts ==
  ASSUME NEW S \in SUBSET Nat, IsFiniteSet(S), NEW i
  PROVE  /\ Before(S, i) \subseteq S
         /\ IsFiniteSet(Before(S, i))
         /\ Cardinality(Before(S, i)) \in Nat
         /\ Cardinality(Before(S, i)) <= Cardinality(S)
<1>1. Before(S, i) \in SUBSET S
  BY DEF Before
<1>2. QED
  BY <1>1, FS_Subset, FS_CardinalityType

(* and their number tells which one it is. *)
LEMMA NthIs ==
  ASSUME NEW S \in SUBSET Nat, IsFiniteSet(S), NEW i \in S
  PROVE  Nth(S, Cardinality(Before(S, i)) + 1) = i
<1>1. ASSUME NEW k \in S, NEW l \in S, k < l
      PROVE  Cardinality(Before(S, k)) < Cardinality(Before(S, l))
  <2>1. /\ IsFiniteSet(Before(S, k)) /\ Cardinality(Before(S, k)) \in Nat
        /\ IsFiniteSet(Before(S, l)) /\ Cardinality(Before(S, l)) \in Nat
    BY BeforeCounts
  <2>2. k \notin Before(S, k) /\ Before(S, k) \cup {k} \in SUBSET Before(S, l)
    <3>1. k \in Nat /\ l \in Nat /\ \A j \in S : j \in Nat
      OBVIOUS
    <3>2. \A j \in Before(S, k) \cup {k} : j \in S /\ j < l
      BY <1>1, <3>1 DEF Before
    <3>3. k \notin Before(S, k)
      BY <3>1 DEF Before
    <3>4. QED
      BY <3>2, <3>3 DEF Before
  <2>3. Cardinality(Before(S, k) \cup {k}) = Cardinality(Before(S, k)) + 1
    BY <2>1, <2>2, FS_AddElement
  <2>4. Cardinality(Before(S, k) \cup {k}) <= Cardinality(Before(S, l))
    BY <2>1, <2>2, FS_Subset
  <2>5. QED
    BY <2>1, <2>3, <2>4
<1>2. PICK c : c = Cardinality(Before(S, i))
  OBVIOUS
<1>3. c \in Nat /\ (c + 1) - 1 = c
  BY <1>2, BeforeCounts
<1>4. ASSUME NEW k \in S, Cardinality(Before(S, k)) = c PROVE k = i
  <2>1. /\ k < i => Cardinality(Before(S, k)) < c
        /\ i < k => c < Cardinality(Before(S, k))
    BY <1>1, <1>2
  <2>2. QED
    BY <1>3, <1>4, <2>1
<1>5. PICK n : n = Nth(S, c + 1)
  OBVIOUS
<1>6. /\ n \in S /\ Cardinality(Before(S, n)) = (c + 1) - 1
  <2>1. \E k \in S : Cardinality({j \in S : j < k}) = (c + 1) - 1
    BY <1>2, <1>3, Zenon DEF Before
  <2>2. n = CHOOSE k \in S : Cardinality({j \in S : j < k}) = (c + 1) - 1
    BY <1>5 DEF Nth
  <2>3. n \in S /\ Cardinality({j \in S : j < n}) = (c + 1) - 1
    BY <2>1, <2>2
  <2>4. QED
    BY <2>3, Zenon DEF Before
<1>7. QED
  BY <1>2, <1>3, <1>4, <1>5, <1>6

(* n values of g, after the first c *)
Slice(g, c, n) == [k \in 1..n |-> g[k + c]]

(* The first of them in front of the others *)
LEMMA SliceFirst ==
  ASSUME NEW g, NEW c \in Nat, NEW n \in Nat, n >= 1
  PROVE  <<g[c + 1]>> \o Slice(g, c + 1, n - 1) = Slice(g, c, n)
<1> DEFINE T == {g[k] : k \in Nat}
<1>1. <<g[c + 1]>> \in Seq(T) /\ Len(<<g[c + 1]>>) = 1
  BY DEF T
<1>2. \A k \in 1..n - 1 : g[k + (c + 1)] \in T
  BY DEF T
<1>3. Slice(g, c + 1, n - 1) \in Seq(T) /\ Len(Slice(g, c + 1, n - 1)) = n - 1
  BY <1>2 DEF Slice
<1> HIDE DEF T
<1>4. PICK a, b : a = <<g[c + 1]>> /\ b = Slice(g, c + 1, n - 1)
  OBVIOUS
<1>5. a \in Seq(T) /\ b \in Seq(T) /\ Len(a) = 1 /\ Len(b) = n - 1
  BY <1>1, <1>3, <1>4
<1>6. PICK s, r : s = a \o b /\ r = Slice(g, c, n)
  OBVIOUS
<1>7. /\ s \in Seq(T) /\ Len(s) = Len(a) + Len(b)
      /\ \A k \in 1..Len(a) + Len(b) :
           s[k] = IF k <= Len(a) THEN a[k] ELSE b[k - Len(a)]
  BY <1>5, <1>6, ConcatProperties, Zenon
<1>8. Len(s) = n /\ \A k \in 1..n : s[k] = IF k <= 1 THEN a[k] ELSE b[k - 1]
  BY <1>5, <1>7
<1>9. r \in Seq(T) /\ Len(r) = n /\ \A k \in 1..n : r[k] = g[k + c]
  <2>1. \A k \in 1..n : g[k + c] \in T
    BY DEF T
  <2>2. QED
    BY <1>6, <2>1 DEF Slice
<1>10. ASSUME NEW k \in 1..n PROVE s[k] = r[k]
  <2>1. CASE k = 1
    BY <1>4, <1>8, <1>9, <2>1
  <2>2. CASE k # 1
    <3>1. s[k] = b[k - 1] /\ k - 1 \in 1..n - 1
      BY <1>8, <2>2
    <3>2. k - 1 + (c + 1) = k + c
      OBVIOUS
    <3>3. b[k - 1] = g[k - 1 + (c + 1)]
      BY <1>4, <3>1 DEF Slice
    <3>4. QED
      BY <1>9, <3>1, <3>2, <3>3, Zenon
  <2>3. QED
    BY <2>1, <2>2
<1>11. s = r
  BY <1>7, <1>8, <1>9, <1>10, SeqEqual
<1>12. QED
  BY <1>4, <1>6, <1>11, Zenon

(* Where the texts of a list start *)
LEMMA StartsAre ==
  ASSUME NEW s \in Seq(Texts)
  PROVE  /\ 1 \in Starts(s) /\ Starts(s) \in SUBSET (1..Len(s) + 1)
         /\ GoodStarts(s) \in SUBSET Nat /\ IsFiniteSet(GoodStarts(s))
         /\ GoodStarts(s) \in SUBSET Starts(s)
<1>1. Commas(s) \subseteq DOMAIN s
  BY Zenon DEF Commas
<1>2. Len(s) \in Nat /\ DOMAIN s = 1..Len(s)
  OBVIOUS
<1>3. 1 \in Starts(s) /\ Starts(s) \in SUBSET (1..Len(s) + 1)
  BY <1>1, <1>2 DEF Starts
<1>4. GoodStarts(s) \in SUBSET Starts(s)
  BY DEF GoodStarts
<1>5. IsFiniteSet(1..Len(s) + 1)
  BY <1>2, FS_Interval
<1>6. GoodStarts(s) \in SUBSET (1..Len(s) + 1) /\ 1..Len(s) + 1 \in SUBSET Nat
  BY <1>2, <1>3, <1>4
<1>7. IsFiniteSet(GoodStarts(s))
  BY <1>5, <1>6, FS_Subset
<1>8. QED
  BY <1>3, <1>4, <1>6, <1>7

(* The text after the one at i begins after the comma that ends that one. *)
LEMMA NextStart ==
  ASSUME NEW s \in Seq(Texts), NEW i \in 1..Len(s) + 1
  PROVE  /\ EndAt(s, i) \in i..Len(s) + 1
         /\ EndAt(s, i) <= Len(s) => EndAt(s, i) + 1 \in Starts(s)
         /\ \A j \in Starts(s) : j > i => j > EndAt(s, i)
<1>1. PICK c, E, L : c = Comma /\ E = EndAt(s, i) /\ L = Len(s)
  OBVIOUS
<1>2. L \in Nat /\ DOMAIN s = 1..L /\ i \in 1..L + 1
  BY <1>1
<1>3. Commas(s) = {j \in DOMAIN s : s[j] = c}
  BY <1>1, Zenon DEF Commas, Comma
<1>4. /\ E \in i..L + 1
      /\ E <= L => s[E] = c
      /\ \A j \in i..E - 1 : s[j] # c
  BY <1>1, PieceEnds, Zenon
<1>5. E <= L => E + 1 \in Starts(s)
  BY <1>2, <1>3, <1>4 DEF Starts
<1>6. ASSUME NEW j \in Starts(s), j > i PROVE j > E
  <2>1. PICK k \in Commas(s) : j = k + 1
    BY <1>2, <1>6 DEF Starts
  <2>2. k \in 1..L /\ s[k] = c
    BY <1>2, <1>3, <2>1
  <2>3. k >= i /\ ~(k \in i..E - 1)
    BY <1>2, <1>4, <1>6, <2>1, <2>2
  <2>4. QED
    BY <1>2, <1>4, <2>1, <2>2, <2>3
<1>7. QED
  BY <1>1, <1>4, <1>5, <1>6, Zenon

(* Every text before the one at i is a size, *)
Clean(s, i) == i \in Starts(s) /\ \A j \in Starts(s) : j < i => IsSize(PieceAt(s, j))
(* and what the list means from there on. *)
Meant(s) == [n \in Nat |-> SizeOf(PieceAt(s, Nth(GoodStarts(s), n)))]
Ahead(s, i) == Cardinality(Before(GoodStarts(s), i))
MeantFrom(s, i) ==
  Slice(Meant(s), Ahead(s, i), Cardinality(GoodStarts(s)) - Ahead(s, i))

(* At a text that is not a size the loop stops, and the list means no more. *)
LEMMA NoSizeLeft ==
  ASSUME NEW s \in Seq(Texts), NEW i \in 1..Len(s) + 1, Clean(s, i),
         ~IsSize(PieceAt(s, i))
  PROVE  SizesRead(s)[i] = <<>> /\ MeantFrom(s, i) = <<>>
<1>1. PICK G : G = GoodStarts(s)
  OBVIOUS
<1>2. G \in SUBSET Nat /\ IsFiniteSet(G) /\ i \in Nat
  BY <1>1, StartsAre
<1>3. ASSUME NEW j \in G PROVE j < i
  <2>1. ~(i <= j)
    BY <1>1, Zenon DEF GoodStarts, Clean
  <2>2. QED
    BY <1>2, <2>1
<1>4. Before(G, i) = G
  BY <1>3 DEF Before
<1>5. Cardinality(G) - Ahead(s, i) = 0 /\ Ahead(s, i) \in Nat
  BY <1>1, <1>2, <1>4, FS_CardinalityType DEF Ahead
<1>6. MeantFrom(s, i) = <<>>
  BY <1>1, <1>5 DEF MeantFrom, Slice
<1>7. PICK p : p = ParsePair(s, i, "x")
  OBVIOUS
<1>8. p.end = 0 \/ (p.end <= Len(s) /\ s[p.end] # Comma)
  BY <1>7, PieceRead, Zenon
<1>9. p.end = 0 \/ (~(p.end > Len(s)) /\ s[p.end] # Comma)
  <2>1. p.end = 0 \/ p.end \in i + 1..Len(s) + 1
    BY <1>7, PairEnd, Zenon
  <2>2. QED
    BY <1>2, <1>8, <2>1
<1>10. SizesFrom(s, i, SizesRead(s)) = <<>>
  BY <1>7, <1>9, Zenon DEF SizesFrom
<1>11. QED
  BY <1>6, <1>10, SizesAt, Zenon

(* A size counts as the next one that the list means. *)
LEMMA SizeIsMeant ==
  ASSUME NEW s \in Seq(Texts), NEW i \in 1..Len(s) + 1, Clean(s, i),
         IsSize(PieceAt(s, i))
  PROVE  /\ i \in GoodStarts(s) /\ Ahead(s, i) \in Nat
         /\ Meant(s)[Ahead(s, i) + 1] = SizeOf(PieceAt(s, i))
         /\ Cardinality(Before(GoodStarts(s), i) \cup {i}) = Ahead(s, i) + 1
<1>1. PICK G, c : G = GoodStarts(s) /\ c = Ahead(s, i)
  OBVIOUS
<1>2. /\ G \in SUBSET Nat /\ IsFiniteSet(G) /\ i \in Nat
      /\ Starts(s) \in SUBSET Nat
  BY <1>1, StartsAre
<1>3. i \in G
  <2>1. ASSUME NEW j \in Starts(s), j <= i PROVE IsSize(PieceAt(s, j))
    <3>1. j < i \/ j = i
      BY <1>2, <2>1
    <3>2. QED
      BY <3>1, Zenon DEF Clean
  <2>2. QED
    BY <1>1, <2>1, Zenon DEF GoodStarts, Clean
<1>4. c = Cardinality(Before(G, i)) /\ c \in Nat /\ IsFiniteSet(Before(G, i))
  BY <1>1, <1>2, BeforeCounts DEF Ahead
<1>5. Nth(G, c + 1) = i
  BY <1>2, <1>3, <1>4, NthIs
<1>6. c + 1 \in Nat
  BY <1>4
<1>7. Meant(s)[c + 1] = SizeOf(PieceAt(s, i))
  BY <1>1, <1>5, <1>6, Zenon DEF Meant
<1>8. i \notin Before(G, i)
  BY <1>2 DEF Before
<1>9. Cardinality(Before(G, i) \cup {i}) = c + 1
  BY <1>4, <1>8, FS_AddElement
<1>10. QED
  BY <1>1, <1>3, <1>4, <1>7, <1>9, Zenon

(* From the end of the list to its start *)
LEMMA LoopAgrees ==
  ASSUME NEW s \in Seq(Texts), NEW i \in 1..Len(s) + 1, Clean(s, i),
         \A j \in i + 1..Len(s) + 1 :
           Clean(s, j) => SizesRead(s)[j] = MeantFrom(s, j)
  PROVE  SizesRead(s)[i] = MeantFrom(s, i)
<1>1. CASE ~IsSize(PieceAt(s, i))
  BY <1>1, NoSizeLeft, Zenon
<1>2. CASE IsSize(PieceAt(s, i))
  <2>1. PICK G, N, c, E, L, p :
          /\ G = GoodStarts(s) /\ N = Cardinality(G) /\ c = Ahead(s, i)
          /\ E = EndAt(s, i) /\ L = Len(s) /\ p = ParsePair(s, i, "x")
    OBVIOUS
  <2>2. /\ i \in G /\ c \in Nat /\ Meant(s)[c + 1] = SizeOf(PieceAt(s, i))
        /\ Cardinality(Before(G, i) \cup {i}) = c + 1
    BY <1>2, <2>1, SizeIsMeant, Zenon
  <2>3. /\ p.end = E /\ E # 0 /\ p.pair = Meant(s)[c + 1]
    BY <1>2, <2>1, <2>2, PieceRead, Zenon
  <2>4. /\ E \in i..L + 1
        /\ E <= L => E + 1 \in Starts(s)
        /\ \A j \in Starts(s) : j > i => j > E
    BY <2>1, NextStart, Zenon
  <2>5. /\ G \in SUBSET Nat /\ IsFiniteSet(G) /\ G \in SUBSET Starts(s)
        /\ Starts(s) \in SUBSET (1..L + 1)
    BY <2>1, StartsAre, Zenon
  <2>6. L \in Nat /\ i \in 1..L + 1 /\ N \in Nat
    BY <2>1, <2>5, FS_CardinalityType
  <2>7. SizesRead(s)[i] = SizesFrom(s, i, SizesRead(s))
    BY SizesAt
  <2>8. CASE E > L
    <3>1. SizesFrom(s, i, SizesRead(s)) = <<Meant(s)[c + 1]>>
      BY <2>1, <2>3, <2>8, Zenon DEF SizesFrom
    <3>2. ASSUME NEW j \in G PROVE j \in Before(G, i) \cup {i}
      <4>1. j \in 1..L + 1 /\ (j > i => j > E)
        BY <2>4, <2>5
      <4>2. j < i \/ j = i
        BY <2>4, <2>6, <2>8, <4>1
      <4>3. QED
        BY <4>2 DEF Before
    <3>3. G = Before(G, i) \cup {i}
      BY <2>2, <3>2 DEF Before
    <3>4. N - c = 1
      <4>1. N = c + 1
        BY <2>1, <2>2, <3>3, Zenon
      <4>2. QED
        BY <2>2, <4>1
    <3>5. MeantFrom(s, i) = Slice(Meant(s), c, 1)
      BY <2>1, <3>4, Zenon DEF MeantFrom
    <3>6. Slice(Meant(s), c, 1) = <<Meant(s)[c + 1]>>
      <4>1. PICK g : g = Meant(s)
        OBVIOUS
      <4>2. Slice(g, c, 1) = <<g[c + 1]>>
        BY <2>2 DEF Slice
      <4>3. QED
        BY <4>1, <4>2, Zenon
    <3>7. QED
      BY <2>7, <3>1, <3>5, <3>6, Zenon
  <2>9. CASE E <= L
    <3>1. PICK k : k = E + 1
      OBVIOUS
    <3>2. k \in i + 1..L + 1 /\ k \in Starts(s) /\ ~(E > L)
      BY <2>4, <2>6, <2>9, <3>1
    <3>3. s[E] = Comma
      BY <2>1, <2>9, PieceEnds, Zenon
    <3>4. SizesFrom(s, i, SizesRead(s)) = <<Meant(s)[c + 1]>> \o SizesRead(s)[k]
      BY <2>1, <2>3, <3>1, <3>2, <3>3, Zenon DEF SizesFrom
    <3>5. ASSUME NEW j \in Starts(s), j < k PROVE j < i \/ j = i
      <4>1. j \in 1..L + 1 /\ (j > i => j > E)
        BY <2>4, <2>5
      <4>2. QED
        BY <2>4, <2>6, <3>1, <3>5, <4>1
    <3>6. Clean(s, k)
      BY <1>2, <3>2, <3>5, Zenon DEF Clean
    <3>7. SizesRead(s)[k] = MeantFrom(s, k)
      BY <2>1, <3>2, <3>6, Zenon
    <3>8. Before(G, k) = Before(G, i) \cup {i}
      <4>1. i < k /\ \A j \in G : j < i => j < k
        BY <2>5, <2>6, <3>2
      <4>2. QED
        BY <2>2, <2>5, <3>5, <4>1 DEF Before
    <3>9. Ahead(s, k) = c + 1
      BY <2>1, <2>2, <3>8, Zenon DEF Ahead
    <3>10. c + 1 <= N
      <4>1. Cardinality(Before(G, k)) <= Cardinality(G)
        BY <2>5, BeforeCounts
      <4>2. QED
        BY <2>1, <2>2, <3>8, <4>1, Zenon
    <3>11. N - c \in Nat /\ N - c >= 1 /\ N - (c + 1) = (N - c) - 1
      BY <2>2, <2>6, <3>10
    <3>12. /\ MeantFrom(s, k) = Slice(Meant(s), c + 1, (N - c) - 1)
           /\ MeantFrom(s, i) = Slice(Meant(s), c, N - c)
      BY <2>1, <3>9, <3>11, Zenon DEF MeantFrom
    <3>13. <<Meant(s)[c + 1]>> \o Slice(Meant(s), c + 1, (N - c) - 1)
             = Slice(Meant(s), c, N - c)
      BY <2>2, <3>11, SliceFirst, Zenon
    <3>14. QED
      BY <2>7, <3>4, <3>7, <3>12, <3>13, Zenon
  <2>10. QED
    BY <2>4, <2>6, <2>8, <2>9
<1>3. QED
  BY <1>1, <1>2

(* The loop returns what the list means, whatever the string. *)
LEMMA SizesMeant ==
  ASSUME NEW s \in Seq(Texts)
  PROVE  ParseSizesList(s) = MeantSizes(s)
<1>1. PICK L, G : L = Len(s) + 1 /\ G = GoodStarts(s)
  OBVIOUS
<1>2. L \in Nat /\ 1 \in 1..L
  BY <1>1
<1>3. /\ G \in SUBSET Nat /\ IsFiniteSet(G) /\ 1 \in Starts(s)
      /\ Starts(s) \in SUBSET (1..L) /\ G \in SUBSET Starts(s)
  BY <1>1, StartsAre
<1>4. MeantSizes(s) = MeantFrom(s, 1)
  <2>1. Before(G, 1) = {}
    <3>1. \A j \in G : j \in 1..L /\ ~(j < 1)
      BY <1>2, <1>3
    <3>2. QED
      BY <3>1, Zenon DEF Before
  <2>2. Ahead(s, 1) = 0
    BY <1>1, <2>1, FS_EmptySet, Zenon DEF Ahead
  <2>3. PICK N : N = Cardinality(G)
    OBVIOUS
  <2>4. N \in Nat /\ N - 0 = N
    BY <1>3, <2>3, FS_CardinalityType
  <2>5. MeantFrom(s, 1) = Slice(Meant(s), 0, N)
    BY <1>1, <2>2, <2>3, <2>4, Zenon DEF MeantFrom
  <2>6. Slice(Meant(s), 0, N) = [n \in 1..N |-> SizeOf(PieceAt(s, Nth(G, n)))]
    <3>1. Slice(Meant(s), 0, N) = [n \in 1..N |-> Meant(s)[n + 0]]
      BY DEF Slice
    <3>2. ASSUME NEW n \in 1..N
          PROVE  Meant(s)[n + 0] = SizeOf(PieceAt(s, Nth(G, n)))
      <4>1. n \in Nat /\ n + 0 = n
        BY <2>4
      <4>2. QED
        BY <1>1, <4>1, Zenon DEF Meant
    <3>3. QED
      BY <3>1, <3>2, Zenon
  <2>7. QED
    BY <1>1, <2>3, <2>5, <2>6, Zenon DEF MeantSizes
<1>5. Clean(s, 1)
  <2>1. \A j \in Starts(s) : ~(j < 1)
    BY <1>2, <1>3
  <2>2. QED
    BY <1>3, <2>1, Zenon DEF Clean
<1>6. SizesRead(s)[1] = MeantFrom(s, 1)
  <2> DEFINE S == {i \in 1..L : Clean(s, i) => SizesRead(s)[i] = MeantFrom(s, i)}
  <2>1. ASSUME NEW i \in 1..L, i + 1..L \subseteq S PROVE i \in S
    <3>1. \A j \in i + 1..L : Clean(s, j) => SizesRead(s)[j] = MeantFrom(s, j)
      BY <2>1, Zenon
    <3>2. Clean(s, i) => SizesRead(s)[i] = MeantFrom(s, i)
      BY <1>1, <3>1, LoopAgrees, Zenon
    <3>3. QED
      BY <3>2, Zenon
  <2>2. S \in SUBSET (1..L)
    OBVIOUS
  <2> HIDE DEF S
  <2>3. S = 1..L
    BY <1>2, <2>1, <2>2, Downwards
  <2>4. 1 \in S
    BY <1>2, <2>3
  <2>5. QED
    BY <1>5, <2>4, Zenon DEF S
<1>7. ASSUME s = <<>> PROVE MeantFrom(s, 1) = <<>>
  <2>1. PICK p : p = ParsePair(s, 1, "x")
    OBVIOUS
  <2>2. p.end = 0
    BY <1>7, <2>1 DEF ParsePair, After, HasNumeral
  <2>3. ~IsSize(PieceAt(s, 1))
    BY <1>1, <1>2, <2>1, <2>2, PieceRead, Zenon
  <2>4. QED
    BY <1>1, <1>2, <1>5, <2>3, NoSizeLeft, Zenon
<1>8. QED
  BY <1>4, <1>6, <1>7, ListReads, Zenon

(* getSupportedPreviewSizes and its like return the sizes that the string   *)
(* holds before the first text that is not one: the loop of parseSizesList  *)
(* agrees with what the list means, whatever the string.                    *)
THEOREM SizesUpToFirstErrorHolds == ParamsSpec => []SizesUpToFirstError
<1>1. ParamMap(params) => SizesUpToFirstError
  <2> SUFFICES ASSUME ParamMap(params), NEW keys \in {PreviewKeys, PictureKeys, VideoKeys}
               PROVE  GetSupportedSizes(params, keys)
                        = MeantSizes(Get(params, keys.sizes))
    BY Zenon DEF SizesUpToFirstError
  <2>1. PICK k : k = keys.sizes
    OBVIOUS
  <2>2. Get(params, k) \in Seq(Texts)
    <3>1. CASE k \in DOMAIN params
      <4>1. params[k] \in Seq(Texts)
        BY <3>1, Zenon DEF ParamMap, Plain
      <4>2. QED
        BY <3>1, <4>1, Zenon DEF Get
    <3>2. CASE k \notin DOMAIN params
      <4>1. <<>> \in Seq(Texts)
        OBVIOUS
      <4>2. QED
        BY <3>2, <4>1, Zenon DEF Get
    <3>3. QED
      BY <3>1, <3>2
  <2>3. QED
    BY <2>1, <2>2, SizesMeant, Zenon DEF GetSupportedSizes
<1>2. QED
  BY <1>1, MapsOnly, PTL

------------------------------------------------------------------------------
(* A second fix-up of a string changes nothing, since the first one left    *)
(* the string of a map.                                                     *)
LEMMA FixupTwice ==
  ASSUME NEW p \in Settings
  PROVE  Fixup(Fixup(p)) = Fixup(p)
<1>1. p \in Seq(Texts)
  BY CameraAssumption, StringTexts
<1>2. PICK m : m = Unflatten(p)
  OBVIOUS
<1>3. ParamMap(m)
  BY <1>1, <1>2, UnflattenMap, Zenon
<1>4. Unflatten(Flatten(m)) = m
  BY <1>3, SentIsSame, Zenon
<1>5. QED
  BY <1>2, <1>4, Zenon DEF Fixup

(* camera2_set_parameters keeps its fixed-up string for the camera it was    *)
(* called for, and camera2_device_close of that camera frees it, in whatever *)
(* order two sessions open, set and close; and the vendor reads back the     *)
(* same string again, whatever strings it is given.                          *)
THEOREM KeptForItsSession == Spec => []KeptParamsAreCurrent
<1>1. Init => KeptForOpen
  BY DEF Init, KeptForOpen
<1>2. IInv /\ KeptForOpen /\ [Next]_vars => KeptForOpen'
  BY NextKept
<1>3. KeptForOpen => KeptParamsAreCurrent
  <2>1. \A f \in FixedUp : Fixup(f) = f
    BY FixupTwice, Zenon DEF FixedUp
  <2>2. QED
    BY <2>1, Zenon DEF KeptForOpen, KeptParamsAreCurrent
<1> QED
  BY <1>1, <1>2, <1>3, Invariance, PTL DEF Spec
==============================================================================
