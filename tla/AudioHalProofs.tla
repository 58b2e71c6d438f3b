---------------------------- MODULE AudioHalProofs ----------------------------
(***************************************************************************)
(* Proofs about AudioHal, for every choice of routes, modes, sources,      *)
(* faults and garbage: type correctness and the exactness of the reference *)
(* counts of the mixer paths; then the usecases and the voice call.  The   *)
(* type, the streams, the sessions and the mute are proved whatever fails. *)
(* The counts are proved for a build that creates every resampler, as a    *)
(* refused one makes them wrong (StartInputAgain), and what is said of a   *)
(* call for PCMs that open as well.                                        *)
(*                                                                         *)
(* The counts are exact only between two operations: inside select_devices *)
(* a path is released before its usecase is told so.  The lemmas therefore *)
(* compare the counts with a view V of which slot (usecase and side) holds *)
(* which path, which each step of a switch updates and which agrees with   *)
(* hal.snd again when the switch is over.                                  *)
(***************************************************************************)
EXTENDS AudioHal, TLAPS, FiniteSetTheorems, SequenceTheorems, WellFoundedInduction

Slots == Usecases \X Sides

(* A capture that is started is started whole. *)
ResamplersMade == "resampler" \notin Faults

(* The reference counts are those of the view V. *)
Exact(ref, V) ==
  /\ ref[NONE] = 0
  /\ \A d \in SndDevice \ {NONE} : ref[d] = Cardinality(Users(V, d))
Counts(ref, V) == ResamplersMade => Exact(ref, V)

(* The inductive invariant, as a predicate of a record. *)
Sound(h) == h \in HalState /\ Counts(h.ref, h.snd)
IInv == Sound(hal)

(* n is a state like h with the same counts and the same devices. *)
SameRoutes(h, n) == n \in HalState /\ n.ref = h.ref /\ n.snd = h.snd

(* V agrees with snd outside the slots of usecase u, which is being switched. *)
Agrees(V, snd, u) == \A s \in Slots : s[1] # u => V[s] = snd[s]

------------------------------------------------------------------------------
(* Counting *)

LEMMA SlotsFinite == IsFiniteSet(Slots)
<1>1. ASSUME NEW a, NEW b
      PROVE  IsFiniteSet({a, b})
  <2>1. IsFiniteSet({a}) /\ IsFiniteSet({b}) /\ {a, b} = {a} \cup {b}
    BY FS_Singleton
  <2>2. QED
    BY <2>1, FS_Union
<1>2. IsFiniteSet(Usecases)
  <2>1. Usecases = {"DEEP_BUFFER", "PLAYBACK"} \cup {"CAPTURE", "VOICE_CALL"}
    BY DEF Usecases, Playbacks
  <2>2. /\ IsFiniteSet({"DEEP_BUFFER", "PLAYBACK"})
        /\ IsFiniteSet({"CAPTURE", "VOICE_CALL"})
    BY <1>1
  <2>3. QED
    BY <2>1, <2>2, FS_Union
<1>3. IsFiniteSet(Sides)
  BY <1>1 DEF Sides
<1>4. IsFiniteSet(Usecases \X Sides)
  BY <1>2, <1>3, FS_Product
<1>5. QED
  BY <1>4 DEF Slots

LEMMA UsersFinite ==
  ASSUME NEW V, NEW d
  PROVE  /\ IsFiniteSet(Users(V, d))
         /\ Cardinality(Users(V, d)) \in Nat
<1>1. Users(V, d) \in SUBSET Slots
  BY DEF Users, Slots
<1>2. QED
  BY <1>1, SlotsFinite, FS_Subset, FS_CardinalityType

(* A slot lets go of its path: the count of that path is positive, and one  *)
(* less is exact for the view without it.                                   *)
LEMMA CountDown ==
  ASSUME NEW ref \in [SndDevice -> Nat], NEW V \in [Slots -> SndDevice],
         Exact(ref, V), NEW s \in Slots, V[s] # NONE
  PROVE  /\ ref[V[s]] > 0
         /\ Exact([ref EXCEPT ![V[s]] = @ - 1], [V EXCEPT ![s] = NONE])
<1> DEFINE W == [V EXCEPT ![s] = NONE]
           r == [ref EXCEPT ![V[s]] = @ - 1]
<1>1. NONE \in SndDevice
  BY DEF SndDevice
<1>2. Users(W, V[s]) = Users(V, V[s]) \ {s} /\ s \in Users(V, V[s])
  BY DEF Users, Slots
<1>3. \A d \in SndDevice \ {NONE} : d # V[s] => Users(W, d) = Users(V, d)
  BY DEF Users, Slots
<1>4. Cardinality(Users(V, V[s])) > 0
  <2>1. Users(V, V[s]) # {}
    BY <1>2
  <2>2. QED
    BY <2>1, UsersFinite, FS_EmptySet
<1>5. Cardinality(Users(W, V[s])) = Cardinality(Users(V, V[s])) - 1
  <2>1. IsFiniteSet(Users(V, V[s]))
    BY UsersFinite
  <2>2. Cardinality(Users(V, V[s]) \ {s}) = Cardinality(Users(V, V[s])) - 1
    BY <1>2, <2>1, FS_RemoveElement
  <2>3. QED
    BY <1>2, <2>2
<1>6. ref[V[s]] > 0
  BY <1>4 DEF Exact
<1>7. \A d \in SndDevice \ {NONE} : r[d] = Cardinality(Users(W, d))
  BY <1>3, <1>5 DEF Exact
<1>8. r[NONE] = 0
  BY <1>1 DEF Exact
<1>9. QED
  BY <1>6, <1>7, <1>8 DEF Exact

(* A slot without a path takes one. *)
LEMMA CountUp ==
  ASSUME NEW ref \in [SndDevice -> Nat], NEW V \in [Slots -> SndDevice],
         Exact(ref, V), NEW s \in Slots, V[s] = NONE,
         NEW d \in SndDevice, d # NONE
  PROVE  Exact([ref EXCEPT ![d] = @ + 1], [V EXCEPT ![s] = d])
<1> DEFINE W == [V EXCEPT ![s] = d]
           r == [ref EXCEPT ![d] = @ + 1]
<1>1. NONE \in SndDevice
  BY DEF SndDevice
<1>2. Users(W, d) = Users(V, d) \cup {s} /\ s \notin Users(V, d)
  BY DEF Users, Slots
<1>3. \A e \in SndDevice \ {NONE} : e # d => Users(W, e) = Users(V, e)
  BY DEF Users, Slots
<1>4. Cardinality(Users(W, d)) = Cardinality(Users(V, d)) + 1
  BY <1>2, UsersFinite, FS_AddElement
<1>5. \A e \in SndDevice \ {NONE} : r[e] = Cardinality(Users(W, e))
  BY <1>3, <1>4 DEF Exact
<1>6. r[NONE] = 0
  BY <1>1 DEF Exact
<1>7. QED
  BY <1>5, <1>6 DEF Exact

------------------------------------------------------------------------------
(* Mixer paths *)

LEMMA CrashRoutes ==
  ASSUME NEW h \in HalState
  PROVE  SameRoutes(h, Crash(h))
BY ZenonT(60) DEF HalState, Crash, SameRoutes

LEMMA EnableState ==
  ASSUME NEW h \in HalState, NEW u, NEW d \in SndDevice
  PROVE  LET n == EnableSndDevice(h, u, d)
         IN  /\ n \in HalState /\ n.snd = h.snd
             /\ n.ref = [h.ref EXCEPT ![d] = @ + 1]
<1> DEFINE r == [h.ref EXCEPT ![d] = @ + 1]
           n == [h EXCEPT !.ref = r]
<1>1. h.ref \in [SndDevice -> Nat]
  BY DEF HalState
<1>2. r \in [SndDevice -> Nat]
  BY <1>1
<1>3. n \in HalState /\ n.ref = r /\ n.snd = h.snd
  BY <1>2, ZenonT(60) DEF HalState
<1>4. EnableSndDevice(h, u, d) \in {n, Crash(n)}
  BY DEF EnableSndDevice
<1>5. QED
  BY <1>3, <1>4, CrashRoutes DEF SameRoutes

LEMMA DisableState ==
  ASSUME NEW h \in HalState, NEW u, NEW d \in SndDevice
  PROVE  LET n == DisableSndDevice(h, u, d)
         IN  /\ n \in HalState /\ n.snd = h.snd
             /\ n.ref = IF h.ref[d] > 0 THEN [h.ref EXCEPT ![d] = @ - 1] ELSE h.ref
<1> DEFINE r == [h.ref EXCEPT ![d] = @ - 1]
           n == [h EXCEPT !.ref = r]
<1>1. h.ref \in [SndDevice -> Nat]
  BY DEF HalState
<1>2. CASE h.ref[d] <= 0
  BY <1>1, <1>2 DEF DisableSndDevice
<1>3. CASE ~(h.ref[d] <= 0)
  <2>1. r \in [SndDevice -> Nat]
    BY <1>1, <1>3
  <2>2. n \in HalState /\ n.ref = r /\ n.snd = h.snd
    BY <2>1, ZenonT(60) DEF HalState
  <2>3. DisableSndDevice(h, u, d) \in {n, Crash(n)}
    BY <1>3 DEF DisableSndDevice
  <2>4. h.ref[d] > 0
    BY <1>1, <1>3
  <2>5. QED
    BY <2>2, <2>3, <2>4, CrashRoutes DEF SameRoutes
<1>4. QED
  BY <1>2, <1>3

(* Releasing the path of a slot. *)
LEMMA DisableCounts ==
  ASSUME NEW h \in HalState, NEW V \in [Slots -> SndDevice], Counts(h.ref, V),
         NEW s \in Slots, NEW u
  PROVE  LET n == DisableSndDevice(h, u, V[s])
         IN  /\ n \in HalState /\ n.snd = h.snd
             /\ Counts(n.ref, [V EXCEPT ![s] = NONE])
<1>1. h.ref \in [SndDevice -> Nat] /\ V[s] \in SndDevice
  BY DEF HalState
<1>5. CASE ~ResamplersMade
  BY <1>1, <1>5, DisableState DEF Counts
<1>2. CASE ResamplersMade /\ V[s] = NONE
  <2>1. [V EXCEPT ![s] = NONE] = V
    BY <1>2
  <2>2. h.ref[V[s]] = 0
    BY <1>2 DEF Counts, Exact
  <2>3. DisableSndDevice(h, u, V[s]) = h
    BY <2>2 DEF DisableSndDevice
  <2>4. QED
    BY <2>1, <2>3
<1>3. CASE ResamplersMade /\ V[s] # NONE
  <2> DEFINE n == DisableSndDevice(h, u, V[s])
             r == [h.ref EXCEPT ![V[s]] = @ - 1]
  <2>6. Exact(h.ref, V)
    BY <1>3 DEF Counts
  <2>1. h.ref[V[s]] > 0 /\ Exact(r, [V EXCEPT ![s] = NONE])
    BY <1>1, <1>3, <2>6, CountDown
  <2>2. /\ n \in HalState /\ n.snd = h.snd
        /\ n.ref = IF h.ref[V[s]] > 0 THEN r ELSE h.ref
    BY <1>1, DisableState
  <2>3. n.ref = r
    BY <2>1, <2>2
  <2> HIDE DEF n, r
  <2>4. Counts(n.ref, [V EXCEPT ![s] = NONE])
    BY <2>1, <2>3 DEF Counts
  <2>5. QED
    BY <2>2, <2>4 DEF n
<1>4. QED
  BY <1>2, <1>3, <1>5

(* Taking a path for a slot that has none. *)
LEMMA EnableCounts ==
  ASSUME NEW h \in HalState, NEW V \in [Slots -> SndDevice], Counts(h.ref, V),
         NEW s \in Slots, V[s] = NONE, NEW u, NEW d \in SndDevice, d # NONE
  PROVE  LET n == EnableSndDevice(h, u, d)
         IN  /\ n \in HalState /\ n.snd = h.snd
             /\ Counts(n.ref, [V EXCEPT ![s] = d])
<1>1. h.ref \in [SndDevice -> Nat]
  BY DEF HalState
<1> DEFINE n == EnableSndDevice(h, u, d)
           r == [h.ref EXCEPT ![d] = @ + 1]
<1>2. Counts(r, [V EXCEPT ![s] = d])
  BY <1>1, CountUp DEF Counts
<1>3. n \in HalState /\ n.snd = h.snd /\ n.ref = r
  BY EnableState
<1> HIDE DEF n, r
<1>4. Counts(n.ref, [V EXCEPT ![s] = d])
  BY <1>2, <1>3
<1>5. QED
  BY <1>3, <1>4 DEF n

------------------------------------------------------------------------------
(* The modem *)

LEMMA ModemRoutes ==
  ASSUME NEW h \in HalState
  PROVE  /\ \A p \in AudioPaths : SameRoutes(h, SetCallAudioPath(h, p))
         /\ \A c \in {"MUTED", "UNMUTED"} : SameRoutes(h, RilSetMute(h, c))
         /\ \A b \in BOOLEAN : SameRoutes(h, SetTwoMic(h, b))
         /\ \A t \in SoundTypes, v \in Volumes : SameRoutes(h, RilSetVolume(h, t, v))
         /\ SameRoutes(h, VoiceVolume(h))
         /\ SameRoutes(h, UnmuteCall(h))
<1> DEFINE Told(m) == [h EXCEPT !.modem = m]
<1>1. h.modem \in Modem /\ h.volume \in Volumes /\ SameRoutes(h, h)
  BY DEF HalState, SameRoutes
<1>2. \A m \in Modem : SameRoutes(h, Told(m))
  BY ZenonT(60) DEF HalState, SameRoutes
<1>3. ASSUME NEW p \in AudioPaths
      PROVE  SameRoutes(h, SetCallAudioPath(h, p))
  <2>1. [h.modem EXCEPT !.path = p] \in Modem
    BY <1>1 DEF Modem
  <2>2. SetCallAudioPath(h, p) \in {h, Told([h.modem EXCEPT !.path = p])}
    BY DEF SetCallAudioPath
  <2>3. QED
    BY <1>1, <1>2, <2>1, <2>2
<1>4. ASSUME NEW c \in {"MUTED", "UNMUTED"}
      PROVE  SameRoutes(h, RilSetMute(h, c))
  <2>1. [h.modem EXCEPT !.tx = c] \in Modem
    BY <1>1 DEF Modem
  <2>2. RilSetMute(h, c) \in {h, Told([h.modem EXCEPT !.tx = c])}
    BY DEF RilSetMute
  <2>3. QED
    BY <1>1, <1>2, <2>1, <2>2
<1>5. ASSUME NEW t \in SoundTypes, NEW v \in Volumes
      PROVE  SameRoutes(h, RilSetVolume(h, t, v))
  <2>1. [h.modem EXCEPT !.sound = t, !.volume = v] \in Modem
    BY <1>1 DEF Modem
  <2>2. RilSetVolume(h, t, v) \in {h, Told([h.modem EXCEPT !.sound = t, !.volume = v])}
    BY DEF RilSetVolume
  <2>3. QED
    BY <1>1, <1>2, <2>1, <2>2
<1>6. SameRoutes(h, VoiceVolume(h))
  <2>1. SoundType(h.out["primary"].devices) \in SoundTypes
    BY DEF SoundType, SoundTypes
  <2>2. QED
    BY <1>1, <1>5, <2>1 DEF VoiceVolume
<1>9. ASSUME NEW b \in BOOLEAN
      PROVE  SameRoutes(h, SetTwoMic(h, b))
  <2>1. [h.modem EXCEPT !.twoMic = b] \in Modem
    BY <1>1 DEF Modem
  <2>2. SetTwoMic(h, b) \in {h, Told([h.modem EXCEPT !.twoMic = b])}
    BY DEF SetTwoMic
  <2>3. QED
    BY <1>1, <1>2, <2>1, <2>2
<1>7. SameRoutes(h, UnmuteCall(h))
  BY <1>1, <1>4 DEF UnmuteCall
<1>8. QED
  BY <1>3, <1>4, <1>5, <1>6, <1>7, <1>9

LEMMA RoutingForCallRoutes ==
  ASSUME NEW h \in HalState, NEW outs
  PROVE  SameRoutes(h, RoutingForCall(h, outs))
<1> DEFINE p == CallAudioPath(outs, h.nrec, h.btWb)
<1>1. p \in AudioPaths
  BY DEF CallAudioPath, AudioPaths
<1> DEFINE mics == SetTwoMic(h, Touches(outs, {"EARPIECE", "SPEAKER"}))
           path == SetCallAudioPath(mics, p)
<1>2. SameRoutes(h, mics)
  BY ModemRoutes DEF Touches
<1> HIDE DEF mics, p
<1>3. SameRoutes(mics, path)
  BY <1>1, <1>2, ModemRoutes DEF SameRoutes
<1> HIDE DEF path
<1>4. SameRoutes(path, VoiceVolume(path))
  BY <1>3, ModemRoutes DEF SameRoutes
<1>5. RoutingForCall(h, outs) = VoiceVolume(path)
  BY DEF RoutingForCall, SetCallPath, path, mics, p
<1>6. QED
  BY <1>2, <1>3, <1>4, <1>5 DEF SameRoutes

------------------------------------------------------------------------------
(* Switching the devices of a usecase *)

(* V is a view of h while usecase u is being switched. *)
Tracks(h, V, u) ==
  /\ h \in HalState
  /\ V \in [Slots -> SndDevice]
  /\ Counts(h.ref, V)
  /\ Agrees(V, h.snd, u)

(* The views hold the same paths for usecase u. *)
SameFor(V, W, u) == \A s \in Slots : s[1] = u => W[s] = V[s]

LEMMA AssignSnd ==
  ASSUME NEW h \in HalState, NEW s \in Slots, NEW d \in SndDevice
  PROVE  LET n == [h EXCEPT !.snd[s] = d]
         IN  n \in HalState /\ n.ref = h.ref /\ n.snd = [h.snd EXCEPT ![s] = d]
<1>1. h.snd \in [Slots -> SndDevice]
  BY DEF HalState, Slots
<1>2. [h.snd EXCEPT ![s] = d] \in [Usecases \X Sides -> SndDevice]
  BY <1>1 DEF Slots
<1>3. QED
  BY <1>2, ZenonT(60) DEF HalState

LEMMA RerouteTracks ==
  ASSUME NEW h, NEW V, NEW u, NEW w \in Usecases, NEW side \in Sides,
         NEW d \in SndDevice, d # NONE, Tracks(h, V, u)
  PROVE  \E W : Tracks(Reroute(h, u, w, side, d), W, u) /\ SameFor(V, W, u)
<1>1. CASE ~(w # u /\ Listed(h, w) /\ h.snd[<<w, side>>] # d)
  BY <1>1 DEF Reroute, SameFor
<1>2. CASE w # u /\ Listed(h, w) /\ h.snd[<<w, side>>] # d
  <2> DEFINE s == <<w, side>>
             m == DisableSndDevice(h, w, V[s])
             W == [V EXCEPT ![s] = NONE]
             k == EnableSndDevice(m, w, d)
             X == [W EXCEPT ![s] = d]
             n == [k EXCEPT !.snd[s] = d]
  <2>1. s \in Slots /\ s[1] = w /\ V[s] = h.snd[s] /\ NONE \in SndDevice
    BY <1>2 DEF Slots, Tracks, Agrees, SndDevice
  <2>2. m \in HalState /\ m.snd = h.snd /\ Counts(m.ref, W)
    BY <2>1, DisableCounts DEF Tracks
  <2>3. W \in [Slots -> SndDevice] /\ W[s] = NONE
    BY <2>1 DEF Tracks
  <2> HIDE DEF m, W
  <2>4. k \in HalState /\ k.snd = m.snd /\ Counts(k.ref, X)
    BY <2>1, <2>2, <2>3, EnableCounts
  <2> HIDE DEF k
  <2>5. n \in HalState /\ n.ref = k.ref /\ n.snd = [k.snd EXCEPT ![s] = d]
    BY <2>1, <2>4, AssignSnd
  <2>6. X \in [Slots -> SndDevice]
    BY <2>3
  <2>7. X = [V EXCEPT ![s] = d]
    BY <2>3 DEF W
  <2>8. h.snd \in [Slots -> SndDevice]
    BY DEF Tracks, HalState, Slots
  <2> HIDE DEF n, X
  <2>9. Agrees(X, n.snd, u) /\ SameFor(V, X, u)
    BY <1>2, <2>1, <2>2, <2>4, <2>5, <2>7, <2>8 DEF Agrees, SameFor, Tracks
  <2>10. Reroute(h, u, w, side, d) = n
    BY <1>2, <2>1 DEF Reroute, n, k, m
  <2>11. QED
    BY <2>4, <2>5, <2>6, <2>9, <2>10 DEF Tracks
<1>3. QED
  BY <1>1, <1>2

LEMMA CheckAndRouteTracks ==
  ASSUME NEW h, NEW V, NEW u, NEW side \in Sides,
         NEW d \in SndDevice, d # NONE, Tracks(h, V, u)
  PROVE  \E W : Tracks(CheckAndRoute(h, u, side, d), W, u) /\ SameFor(V, W, u)
<1>1. {"DEEP_BUFFER", "PLAYBACK", "CAPTURE"} \subseteq Usecases
  BY DEF Usecases, Playbacks
<1>2. CASE side = "out"
  <2> DEFINE m == Reroute(h, u, "DEEP_BUFFER", side, d)
             n == Reroute(m, u, "PLAYBACK", side, d)
  <2>1. PICK W : Tracks(m, W, u) /\ SameFor(V, W, u)
    BY <1>1, RerouteTracks
  <2> HIDE DEF m
  <2>2. PICK X : Tracks(n, X, u) /\ SameFor(W, X, u)
    BY <1>1, <2>1, RerouteTracks
  <2>3. CheckAndRoute(h, u, side, d) = n
    BY <1>2 DEF CheckAndRoute, m
  <2>4. SameFor(V, X, u)
    BY <2>1, <2>2 DEF SameFor
  <2>5. QED
    BY <2>2, <2>3, <2>4
<1>3. CASE side # "out"
  BY <1>1, <1>3, RerouteTracks DEF CheckAndRoute
<1>4. QED
  BY <1>2, <1>3

(* The slot of the switched usecase that is routed to d. *)
LEMMA EnableNewTracks ==
  ASSUME NEW h, NEW V, NEW u \in Usecases, NEW side \in Sides,
         NEW d \in SndDevice, Tracks(h, V, u), V[<<u, side>>] = NONE
  PROVE  \E W : /\ Tracks(EnableNew(h, u, side, d), W, u)
                /\ \A t \in Sides : W[<<u, t>>] = IF t = side THEN d ELSE V[<<u, t>>]
<1>1. CASE d = NONE
  BY <1>1 DEF EnableNew
<1>2. CASE d # NONE
  <2> DEFINE m == CheckAndRoute(h, u, side, d)
             n == EnableSndDevice(m, u, d)
             s == <<u, side>>
  <2>1. PICK W : Tracks(m, W, u) /\ SameFor(V, W, u)
    BY <1>2, CheckAndRouteTracks
  <2>2. \A t \in Sides : <<u, t>> \in Slots /\ W[<<u, t>>] = V[<<u, t>>]
    BY <2>1 DEF SameFor, Slots
  <2> DEFINE X == [W EXCEPT ![s] = d]
  <2> HIDE DEF m
  <2>3. n \in HalState /\ n.snd = m.snd /\ Counts(n.ref, X)
    BY <1>2, <2>1, <2>2, EnableCounts DEF Tracks
  <2>4. X \in [Slots -> SndDevice] /\ \A t \in Slots : X[t] = IF t = s THEN d ELSE W[t]
    BY <2>1, <2>2 DEF Tracks
  <2>5. EnableNew(h, u, side, d) = n
    BY <1>2 DEF EnableNew, m
  <2> HIDE DEF X, n
  <2>6. Agrees(X, n.snd, u)
    BY <2>1, <2>3, <2>4 DEF Agrees, Tracks
  <2>7. \A t \in Sides : X[<<u, t>>] = IF t = side THEN d ELSE V[<<u, t>>]
    BY <2>2, <2>4
  <2>8. QED
    BY <2>3, <2>4, <2>5, <2>6, <2>7 DEF Tracks
<1>3. QED
  BY <1>1, <1>2

(* The slot of the switched usecase that is released. *)
LEMMA DisableCurrentTracks ==
  ASSUME NEW h, NEW V, NEW u \in Usecases, NEW side \in Sides,
         Tracks(h, V, u), V[<<u, side>>] = h.snd[<<u, side>>]
  PROVE  /\ Tracks(DisableCurrent(h, u, side), [V EXCEPT ![<<u, side>>] = NONE], u)
         /\ DisableCurrent(h, u, side).snd = h.snd
<1> DEFINE s == <<u, side>>
           n == DisableSndDevice(h, u, V[s])
           W == [V EXCEPT ![s] = NONE]
<1>1. s \in Slots /\ s[1] = u /\ NONE \in SndDevice
  BY DEF Slots, SndDevice
<1>2. n \in HalState /\ n.snd = h.snd /\ Counts(n.ref, W)
  BY <1>1, DisableCounts DEF Tracks
<1>3. W \in [Slots -> SndDevice] /\ Agrees(W, h.snd, u)
  BY <1>1 DEF Tracks, Agrees
<1>4. CASE h.snd[s] = NONE
  <2>1. W = V
    BY <1>4 DEF Tracks
  <2>2. DisableCurrent(h, u, side) = h
    BY <1>4 DEF DisableCurrent
  <2>3. QED
    BY <2>1, <2>2
<1>5. CASE h.snd[s] # NONE
  <2>1. DisableCurrent(h, u, side) = n
    BY <1>5 DEF DisableCurrent
  <2> HIDE DEF n, W
  <2>2. Tracks(n, W, u)
    BY <1>2, <1>3 DEF Tracks
  <2>3. QED
    BY <1>2, <2>1, <2>2 DEF W
<1>6. QED
  BY <1>4, <1>5

LEMMA SoundTracks ==
  ASSUME NEW h, Sound(h), NEW n, SameRoutes(h, n), NEW u
  PROVE  Sound(n) /\ Tracks(n, h.snd, u)
<1>1. h.snd \in [Slots -> SndDevice]
  BY DEF Sound, HalState, Slots
<1>2. QED
  BY <1>1 DEF Sound, SameRoutes, Tracks, Agrees

LEMMA SwitchDevicesSound ==
  ASSUME NEW h, Sound(h), NEW u \in Usecases, NEW out \in SndDevice,
         NEW in \in SndDevice, NEW outs
  PROVE  Sound(SwitchDevices(h, u, out, in, outs))
<1> DEFINE call   == u = "VOICE_CALL" \/ h.inCall
           routed == IF call THEN RoutingForCall(h, outs) ELSE h
           off1   == DisableCurrent(routed, u, "out")
           off2   == DisableCurrent(off1, u, "in")
           on1    == EnableNew(off2, u, "out", out)
           on2    == EnableNew(on1, u, "in", in)
           done   == IF call THEN UnmuteCall(on2) ELSE on2
           a      == <<u, "out">>
           b      == <<u, "in">>
           V      == h.snd
           V1     == [V EXCEPT ![a] = NONE]
           V2     == [V1 EXCEPT ![b] = NONE]
           half   == [done EXCEPT !.snd[a] = out]
           n      == [half EXCEPT !.snd[b] = in]
<1>1. /\ h \in HalState /\ SameRoutes(h, h) /\ "out" \in Sides /\ "in" \in Sides
      /\ a \in Slots /\ b \in Slots /\ a # b
      /\ \A s \in Slots : s[1] = u => s \in {a, b}
  BY DEF Sound, SameRoutes, Sides, Slots
<1>2. SameRoutes(h, routed)
  BY <1>1, RoutingForCallRoutes
<1> HIDE DEF routed
<1>3. Tracks(routed, V, u) /\ routed.snd = V
  BY <1>2, SoundTracks DEF SameRoutes
<1>4. Tracks(off1, V1, u) /\ off1.snd = V
  BY <1>1, <1>3, DisableCurrentTracks
<1>5. V1[b] = V[b] /\ V1[a] = NONE
  BY <1>1, <1>3 DEF Tracks
<1> HIDE DEF off1, V1
<1>6. Tracks(off2, V2, u)
  BY <1>1, <1>4, <1>5, DisableCurrentTracks
<1>7. V2[a] = NONE /\ V2[b] = NONE
  BY <1>1, <1>4, <1>5 DEF Tracks
<1> HIDE DEF off2, V2
<1>8. PICK W1 : /\ Tracks(on1, W1, u)
                /\ W1[a] = out /\ W1[b] = NONE
  BY <1>1, <1>6, <1>7, EnableNewTracks
<1> HIDE DEF on1
<1>9. PICK W2 : /\ Tracks(on2, W2, u)
                /\ W2[a] = out /\ W2[b] = in
  BY <1>1, <1>8, EnableNewTracks
<1> HIDE DEF on2
<1>10. SameRoutes(on2, done)
  BY <1>9, ModemRoutes DEF Tracks, SameRoutes
<1> HIDE DEF done
<1>11. half \in HalState /\ half.ref = done.ref /\ half.snd = [done.snd EXCEPT ![a] = out]
  BY <1>1, <1>10, AssignSnd DEF SameRoutes
<1> HIDE DEF half
<1>12. n \in HalState /\ n.ref = half.ref /\ n.snd = [half.snd EXCEPT ![b] = in]
  BY <1>1, <1>11, AssignSnd
<1>13. n.snd = W2
  <2>1. done.snd \in [Slots -> SndDevice] /\ done.snd = on2.snd
    BY <1>10 DEF SameRoutes, HalState, Slots
  <2>2. W2 \in [Slots -> SndDevice] /\ \A s \in Slots : s \notin {a, b} => W2[s] = on2.snd[s]
    BY <1>1, <1>9 DEF Tracks, Agrees
  <2> HIDE DEF n
  <2>3. n.snd \in [Slots -> SndDevice]
    BY <1>11, <1>12, <2>1, ZenonT(60)
  <2>4. ASSUME NEW s \in Slots PROVE n.snd[s] = W2[s]
    BY <1>1, <1>9, <1>11, <1>12, <2>1, <2>2
  <2>5. QED
    BY <2>2, <2>3, <2>4
<1>14. Counts(n.ref, n.snd)
  BY <1>9, <1>10, <1>11, <1>12, <1>13 DEF Tracks, SameRoutes
<1>15. SwitchDevices(h, u, out, in, outs) \in {h, n}
  BY DEF SwitchDevices, n, half, done, on2, on1, off2, off1, routed
<1>16. Sound(n)
  BY <1>12, <1>14 DEF Sound
<1>17. QED
  BY <1>15, <1>16

LEMMA CallDeviceType ==
  ASSUME NEW h \in HalState, NEW side \in Sides
  PROVE  CallDevice(h, side) \in SndDevice
<1>1. h.snd \in [Slots -> SndDevice] /\ <<"VOICE_CALL", side>> \in Slots
  BY DEF HalState, Slots, Usecases
<1>2. QED
  BY <1>1 DEF CallDevice, SndDevice

LEMMA OutputDeviceType ==
  ASSUME NEW h, NEW outs
  PROVE  OutputDevice(h, outs) \in SndDevice
BY DEF OutputDevice, GetOutputSndDevice, InCallOutput, CommOutput, MediaOutput,
       InCallProfile, SndDevice, DeviceTable, OutSndDevice, NONE

LEMMA InputDeviceType ==
  ASSUME NEW h, NEW g, NEW outs
  PROVE  InputDevice(h, g, outs) \in SndDevice
<1>1. \A wide : InCallProfile(wide) \in {"INCALL", "INCALL_WB"}
  BY DEF InCallProfile
<1>2. \A x, wb, bt : InCallInput(x, wb, bt) \in SndDevice
  BY <1>1 DEF InCallInput, SndDevice, DeviceTable, InSndDevice
<1>3. \A x, i : CommInput(x, i) \in SndDevice
  BY DEF CommInput, SndDevice, DeviceTable, InSndDevice
<1>4. \A i : RecognitionInput(i) \in SndDevice
  BY DEF RecognitionInput, SndDevice, DeviceTable, InSndDevice
<1>5. \A x : MicInput(x) \in SndDevice
  BY DEF MicInput, SndDevice, DeviceTable, InSndDevice
<1>6. \A x, i : FallbackInput(x, i) \in SndDevice
  BY DEF FallbackInput, SndDevice, DeviceTable, InSndDevice
<1>7. QED
  BY <1>2, <1>3, <1>4, <1>5, <1>6
     DEF InputDevice, GetInputSndDevice, SndDevice, DeviceTable, InSndDevice

LEMMA SelectVoiceCallSound ==
  ASSUME NEW h, Sound(h), NEW g
  PROVE  Sound(SelectVoiceCall(h, g))
BY SwitchDevicesSound, OutputDeviceType, InputDeviceType DEF SelectVoiceCall, Usecases

LEMMA SelectCaptureSound ==
  ASSUME NEW h, Sound(h), NEW g
  PROVE  Sound(SelectCapture(h, g))
<1>1. h \in HalState /\ "in" \in Sides /\ "CAPTURE" \in Usecases /\ NONE \in SndDevice
  BY DEF Sound, Sides, Usecases, SndDevice
<1>2. CallDevice(h, "in") \in SndDevice
  BY <1>1, CallDeviceType
<1>3. QED
  BY <1>1, <1>2, SwitchDevicesSound, InputDeviceType DEF SelectCapture

LEMMA SelectPlaybackSound ==
  ASSUME NEW h, Sound(h), NEW s \in Outs, NEW g
  PROVE  Sound(SelectPlayback(h, s, g))
<1>1. h \in HalState /\ "out" \in Sides /\ UsecaseOf(s) \in Usecases /\ NONE \in SndDevice
  BY DEF Sound, Sides, Usecases, Playbacks, UsecaseOf, SndDevice
<1>2. CallDevice(h, "out") \in SndDevice /\ Sound(SelectCapture(h, g))
  BY <1>1, CallDeviceType, SelectCaptureSound
<1>3. QED
  BY <1>1, <1>2, SwitchDevicesSound, OutputDeviceType DEF SelectPlayback

------------------------------------------------------------------------------
(* Fields that the counts do not depend on, and usecases leaving the list *)

LEMMA SoundFields ==
  ASSUME NEW h, Sound(h)
  PROVE  /\ \A b \in BOOLEAN : Sound([h EXCEPT !.inCall = b])
         /\ \A b \in BOOLEAN : Sound([h EXCEPT !.pcmVoice = b])
         /\ \A b \in BOOLEAN : Sound([h EXCEPT !.inCommSco = b])
         /\ \A b \in BOOLEAN : Sound([h EXCEPT !.micMute = b])
         /\ \A b, c \in BOOLEAN : Sound([h EXCEPT !.pcmSco = b, !.inCallSco = c])
         /\ \A b, c \in BOOLEAN : Sound([h EXCEPT !.nrec = b, !.btWb = c])
         /\ \A b, c \in BOOLEAN : Sound([h EXCEPT !.rilClient = b, !.wbCallback = c])
         /\ \A m \in Modes : Sound([h EXCEPT !.mode = m])
         /\ \A v \in Volumes : Sound([h EXCEPT !.volume = v])
         /\ \A x \in SUBSET Playbacks : Sound([h EXCEPT !.listed = x])
         /\ \A x \in Seq({"CAPTURE", "VOICE_CALL"}) : Sound([h EXCEPT !.tx = x])
         /\ \A x \in [Outs -> OutStream] : Sound([h EXCEPT !.out = x])
         /\ \A x \in InStream : Sound([h EXCEPT !.in = x])
         /\ \A b \in BOOLEAN : Sound([h EXCEPT !.rilUp = b])
         /\ \A b \in BOOLEAN : Sound([h EXCEPT !.wbCallback = b])
         /\ \A x \in Chip : Sound([h EXCEPT !.ear = x])
<1>0. h \in HalState /\ Counts(h.ref, h.snd)
  BY DEF Sound
<1>1. ASSUME NEW b \in BOOLEAN
      PROVE  Sound([h EXCEPT !.inCall = b])
  <2>1. [h EXCEPT !.inCall = b] \in HalState
    BY <1>0, ZenonT(60) DEF HalState
  <2>2. QED
    BY <1>0, <2>1 DEF Sound, HalState
<1>2. ASSUME NEW b \in BOOLEAN
      PROVE  Sound([h EXCEPT !.pcmVoice = b])
  <2>1. [h EXCEPT !.pcmVoice = b] \in HalState
    BY <1>0, ZenonT(60) DEF HalState
  <2>2. QED
    BY <1>0, <2>1 DEF Sound, HalState
<1>3. ASSUME NEW b \in BOOLEAN
      PROVE  Sound([h EXCEPT !.inCommSco = b])
  <2>1. [h EXCEPT !.inCommSco = b] \in HalState
    BY <1>0, ZenonT(60) DEF HalState
  <2>2. QED
    BY <1>0, <2>1 DEF Sound, HalState
<1>4. ASSUME NEW b \in BOOLEAN
      PROVE  Sound([h EXCEPT !.micMute = b])
  <2>1. [h EXCEPT !.micMute = b] \in HalState
    BY <1>0, ZenonT(60) DEF HalState
  <2>2. QED
    BY <1>0, <2>1 DEF Sound, HalState
<1>5. ASSUME NEW b \in BOOLEAN, NEW c \in BOOLEAN
      PROVE  Sound([h EXCEPT !.pcmSco = b, !.inCallSco = c])
  <2>1. [h EXCEPT !.pcmSco = b, !.inCallSco = c] \in HalState
    BY <1>0, ZenonT(60) DEF HalState
  <2>2. QED
    BY <1>0, <2>1 DEF Sound, HalState
<1>6. ASSUME NEW b \in BOOLEAN, NEW c \in BOOLEAN
      PROVE  Sound([h EXCEPT !.nrec = b, !.btWb = c])
  <2>1. [h EXCEPT !.nrec = b, !.btWb = c] \in HalState
    BY <1>0, ZenonT(60) DEF HalState
  <2>2. QED
    BY <1>0, <2>1 DEF Sound, HalState
<1>7. ASSUME NEW b \in BOOLEAN, NEW c \in BOOLEAN
      PROVE  Sound([h EXCEPT !.rilClient = b, !.wbCallback = c])
  <2>1. [h EXCEPT !.rilClient = b, !.wbCallback = c] \in HalState
    BY <1>0, ZenonT(60) DEF HalState
  <2>2. QED
    BY <1>0, <2>1 DEF Sound, HalState
<1>8. ASSUME NEW m \in Modes
      PROVE  Sound([h EXCEPT !.mode = m])
  <2>1. [h EXCEPT !.mode = m] \in HalState
    BY <1>0, ZenonT(60) DEF HalState
  <2>2. QED
    BY <1>0, <2>1 DEF Sound, HalState
<1>9. ASSUME NEW v \in Volumes
      PROVE  Sound([h EXCEPT !.volume = v])
  <2>1. [h EXCEPT !.volume = v] \in HalState
    BY <1>0, ZenonT(60) DEF HalState
  <2>2. QED
    BY <1>0, <2>1 DEF Sound, HalState
<1>10. ASSUME NEW x \in SUBSET Playbacks
      PROVE  Sound([h EXCEPT !.listed = x])
  <2>1. [h EXCEPT !.listed = x] \in HalState
    BY <1>0, ZenonT(60) DEF HalState
  <2>2. QED
    BY <1>0, <2>1 DEF Sound, HalState
<1>11. ASSUME NEW x \in Seq({"CAPTURE", "VOICE_CALL"})
      PROVE  Sound([h EXCEPT !.tx = x])
  <2>1. [h EXCEPT !.tx = x] \in HalState
    BY <1>0, ZenonT(60) DEF HalState
  <2>2. QED
    BY <1>0, <2>1 DEF Sound, HalState
<1>12. ASSUME NEW x \in [Outs -> OutStream]
      PROVE  Sound([h EXCEPT !.out = x])
  <2>1. [h EXCEPT !.out = x] \in HalState
    BY <1>0, ZenonT(60) DEF HalState
  <2>2. QED
    BY <1>0, <2>1 DEF Sound, HalState
<1>13. ASSUME NEW x \in InStream
      PROVE  Sound([h EXCEPT !.in = x])
  <2>1. [h EXCEPT !.in = x] \in HalState
    BY <1>0, ZenonT(60) DEF HalState
  <2>2. QED
    BY <1>0, <2>1 DEF Sound, HalState
<1>14. ASSUME NEW b \in BOOLEAN
      PROVE  Sound([h EXCEPT !.rilUp = b])
  <2>1. [h EXCEPT !.rilUp = b] \in HalState
    BY <1>0, ZenonT(60) DEF HalState
  <2>2. QED
    BY <1>0, <2>1 DEF Sound, HalState
<1>15. ASSUME NEW b \in BOOLEAN
      PROVE  Sound([h EXCEPT !.wbCallback = b])
  <2>1. [h EXCEPT !.wbCallback = b] \in HalState
    BY <1>0, ZenonT(60) DEF HalState
  <2>2. QED
    BY <1>0, <2>1 DEF Sound, HalState
<1>16. ASSUME NEW x \in Chip
      PROVE  Sound([h EXCEPT !.ear = x])
  <2>1. [h EXCEPT !.ear = x] \in HalState
    BY <1>0, ZenonT(60) DEF HalState
  <2>2. QED
    BY <1>0, <2>1 DEF Sound, HalState
<1>17. QED
  BY <1>1, <1>2, <1>3, <1>4, <1>5, <1>6, <1>7, <1>8, <1>9, <1>10, <1>11, <1>12,
     <1>13, <1>14, <1>15, <1>16

LEMMA CrashSound ==
  ASSUME NEW h, Sound(h)
  PROVE  Sound(Crash(h))
<1>1. [h EXCEPT !.up = FALSE] \in HalState
  BY ZenonT(60) DEF Sound, HalState
<1>2. QED
  BY <1>1 DEF Sound, HalState, Crash

LEMMA UnlinkType ==
  ASSUME NEW T, NEW list \in Seq(T), NEW u, NEW k \in DOMAIN list, list[k] = u
  PROVE  Unlink(list, u) \in Seq(T)
<1> DEFINE I == {i \in DOMAIN list : list[i] = u}
           First(i) == /\ i \in DOMAIN list /\ list[i] = u
                       /\ \A j \in DOMAIN list : j < i => list[j] # u
           e == CHOOSE i \in DOMAIN list :
                  list[i] = u /\ \A j \in DOMAIN list : j < i => list[j] # u
<1>1. DOMAIN list = 1..Len(list) /\ Len(list) \in Nat
  BY LenProperties
<1>2. I # {} /\ I \subseteq Nat
  BY <1>1
<1>3. PICK i \in I : \A j \in I : ~(<<j, i>> \in OpToRel(<, Nat))
  BY <1>2, WFMin, NatLessThanWellFounded
<1>4. First(i)
  BY <1>1, <1>2, <1>3 DEF OpToRel
<1>5. e \in 1..Len(list)
  BY <1>1, <1>4
<1> HIDE DEF e
<1>6. SubSeq(list, 1, e - 1) \in Seq(T) /\ SubSeq(list, e + 1, Len(list)) \in Seq(T)
  BY <1>1, <1>5, SubSeqProperties
<1>7. SubSeq(list, 1, e - 1) \o SubSeq(list, e + 1, Len(list)) \in Seq(T)
  BY <1>6, ConcatProperties
<1>8. QED
  BY <1>7 DEF Unlink, e

LEMMA UnlinkSound ==
  ASSUME NEW h, Sound(h), NEW u \in {"CAPTURE", "VOICE_CALL"}, Listed(h, u)
  PROVE  Unlink(h.tx, u) \in Seq({"CAPTURE", "VOICE_CALL"})
<1>1. h.tx \in Seq({"CAPTURE", "VOICE_CALL"}) /\ u \notin h.listed
  BY DEF Sound, HalState, Playbacks
<1>2. PICK k \in DOMAIN h.tx : h.tx[k] = u
  BY <1>1 DEF Listed
<1>3. QED
  BY <1>1, <1>2, UnlinkType

(* The usecase on slot s releases its path and forgets it. *)
LEMMA ReleaseSound ==
  ASSUME NEW h, Sound(h), NEW s \in Slots, NEW u
  PROVE  Sound([DisableSndDevice(h, u, h.snd[s]) EXCEPT !.snd[s] = NONE])
<1> DEFINE m == DisableSndDevice(h, u, h.snd[s])
           n == [m EXCEPT !.snd[s] = NONE]
<1>1. h \in HalState /\ h.snd \in [Slots -> SndDevice] /\ NONE \in SndDevice
  BY DEF Sound, HalState, Slots, SndDevice
<1>2. m \in HalState /\ m.snd = h.snd /\ Counts(m.ref, [h.snd EXCEPT ![s] = NONE])
  BY <1>1, DisableCounts DEF Sound
<1> HIDE DEF m
<1>3. n \in HalState /\ n.ref = m.ref /\ n.snd = [m.snd EXCEPT ![s] = NONE]
  BY <1>1, <1>2, AssignSnd
<1>4. QED
  BY <1>2, <1>3 DEF Sound, m

------------------------------------------------------------------------------
(* Starting and stopping streams and the call *)

LEMMA ScoSound ==
  ASSUME NEW h, Sound(h), NEW b \in BOOLEAN
  PROVE  Sound(StopSco(h)) /\ Sound(StartSco(h, b)) /\ Sound(StopScoOfCall(h))
BY SoundFields DEF StopSco, StartSco, StopScoOfCall

LEMMA StopOutputSound ==
  ASSUME NEW h, Sound(h), NEW s \in Outs
  PROVE  Sound(StopOutput(h, s))
<1> DEFINE u == UsecaseOf(s)
           t == <<u, "out">>
           m == [DisableSndDevice(h, u, h.snd[t]) EXCEPT !.snd[t] = NONE]
           n == [m EXCEPT !.listed = @ \ {u}]
<1>1. t \in Slots
  BY DEF UsecaseOf, Slots, Usecases, Playbacks, Sides
<1>2. Sound(m)
  BY <1>1, ReleaseSound
<1>3. StopOutput(h, s) \in {h, n}
  BY DEF StopOutput
<1> HIDE DEF m
<1>4. m.listed \ {u} \in SUBSET Playbacks
  BY <1>2 DEF Sound, HalState
<1>5. Sound(n)
  BY <1>2, <1>4, SoundFields
<1>6. QED
  BY <1>3, <1>5

LEMMA StartOutputSound ==
  ASSUME NEW h, Sound(h), NEW s \in Outs, NEW g, NEW opened \in BOOLEAN
  PROVE  Sound(StartOutput(h, s, g, opened))
<1> DEFINE linked == [h EXCEPT !.listed = @ \cup {UsecaseOf(s)}]
           on == SelectPlayback(linked, s, g)
           n  == [on EXCEPT !.out[s].state = "ACTIVE"]
<1>1. h.listed \cup {UsecaseOf(s)} \in SUBSET Playbacks
  BY DEF Sound, HalState, UsecaseOf, Playbacks
<1>2. Sound(linked)
  BY <1>1, SoundFields
<1> HIDE DEF linked
<1>3. Sound(on)
  BY <1>2, SelectPlaybackSound
<1> HIDE DEF on
<1>4. [on.out EXCEPT ![s].state = "ACTIVE"] \in [Outs -> OutStream]
  <2>1. on.out \in [Outs -> OutStream]
    BY <1>3 DEF Sound, HalState
  <2>2. QED
    BY <2>1 DEF OutStream, StreamStates
<1>5. Sound(n)
  BY <1>3, <1>4, SoundFields
<1>6. Sound(StopOutput(on, s))
  BY <1>3, StopOutputSound
<1>7. StartOutput(h, s, g, opened) \in {n, StopOutput(on, s)}
  BY DEF StartOutput, on, linked
<1>8. QED
  BY <1>5, <1>6, <1>7

LEMMA StandbyOutputSound ==
  ASSUME NEW h, Sound(h), NEW s \in Outs
  PROVE  Sound(StandbyOutput(h, s))
<1>1. [h.out EXCEPT ![s].state = "STANDBY"] \in [Outs -> OutStream]
  BY DEF Sound, HalState, OutStream, StreamStates
<1>2. Sound([h EXCEPT !.out[s].state = "STANDBY"])
  BY <1>1, SoundFields
<1>3. QED
  BY <1>2, StopOutputSound DEF StandbyOutput

LEMMA StopInputSound ==
  ASSUME NEW h, Sound(h)
  PROVE  Sound(StopInput(h))
<1>1. CASE ~Listed(h, "CAPTURE")
  BY <1>1 DEF StopInput
<1>2. CASE Listed(h, "CAPTURE")
  <2> DEFINE t == <<"CAPTURE", "in">>
             m == [DisableSndDevice(h, "CAPTURE", h.snd[t]) EXCEPT !.snd[t] = NONE]
             n == [m EXCEPT !.tx = Unlink(h.tx, "CAPTURE")]
  <2>1. t \in Slots
    BY DEF Slots, Usecases, Sides
  <2>2. Sound(m)
    BY <2>1, ReleaseSound
  <2>3. DisableSndDevice(h, "CAPTURE", h.snd[t]).tx = h.tx
    BY DEF DisableSndDevice, Crash
  <2>4. StopInput(h) = n
    BY <1>2, <2>3 DEF StopInput
  <2> HIDE DEF m
  <2>5. Sound(n)
    BY <1>2, <2>2, UnlinkSound, SoundFields
  <2>6. QED
    BY <2>4, <2>5
<1>3. QED
  BY <1>1, <1>2

LEMMA MoveBothState ==
  ASSUME NEW h \in HalState, NEW from \in SndDevice, NEW to \in SndDevice
  PROVE  MoveBoth(h, from, to) \in HalState
<1> DEFINE m == DisableSndDevice(h, "CAPTURE", from)
           k == EnableSndDevice(m, "CAPTURE", to)
           n == EnableSndDevice(k, "CAPTURE", to)
<1>1. m \in HalState
  BY DisableState
<1> HIDE DEF m
<1>2. k \in HalState
  BY <1>1, EnableState
<1> HIDE DEF k
<1>3. n \in HalState
  BY <1>2, EnableState
<1>4. QED
  BY <1>3 DEF MoveBoth, k, m

(* A capture that is started again: its counts are not compared. *)
LEMMA StartInputAgainSound ==
  ASSUME NEW h, Sound(h), NEW g, ~ResamplersMade
  PROVE  Sound(StartInputAgain(h, g))
<1> DEFINE t      == <<"CAPTURE", "in">>
           from   == h.snd[t]
           linked == [h EXCEPT !.tx = Append(@, "CAPTURE")]
           on     == SelectCapture(linked, g)
           to     == on.snd[t]
           moved  == IF to \in {from, NONE} THEN on ELSE MoveBoth(on, from, to)
           off    == StopInput(moved)
           d      == IF to = from THEN NONE ELSE to
           half   == [off EXCEPT !.snd[t] = d]
           n      == [half EXCEPT !.in.stale = FALSE]
<1>1. Append(h.tx, "CAPTURE") \in Seq({"CAPTURE", "VOICE_CALL"})
  BY AppendProperties DEF Sound, HalState
<1>2. Sound(linked)
  BY <1>1, SoundFields
<1> HIDE DEF linked
<1>3. Sound(on)
  BY <1>2, SelectCaptureSound
<1> HIDE DEF on
<1>4. t \in Slots /\ from \in SndDevice /\ to \in SndDevice /\ d \in SndDevice
  BY <1>3 DEF Sound, HalState, Slots, Usecases, Sides, SndDevice
<1> HIDE DEF from, to, d
<1>5. Sound(moved)
  BY <1>3, <1>4, MoveBothState DEF Sound, Counts
<1> HIDE DEF moved
<1>6. Sound(off)
  BY <1>5, StopInputSound
<1> HIDE DEF off
<1>7. Sound(half)
  BY <1>4, <1>6, AssignSnd DEF Sound, Counts
<1> HIDE DEF half
<1>8. [half.in EXCEPT !.stale = FALSE] \in InStream
  BY <1>7 DEF Sound, HalState, InStream
<1>9. Sound(n)
  BY <1>7, <1>8, SoundFields
<1>10. StartInputAgain(h, g) = n
  BY DEF StartInputAgain, n, half, off, moved, d, to, on, linked, from
<1>11. QED
  BY <1>9, <1>10

(* The PCM of a capture is open while the stream is active, and after that  *)
(* only where a resampler could not be created.                             *)
Paired(h) == h.in.pcm /\ h.in.state # "ACTIVE" => ~ResamplersMade

LEMMA StartInputSound ==
  ASSUME NEW h, Sound(h), h.in.pcm => ~ResamplersMade, NEW g,
         NEW opened \in BOOLEAN, NEW created \in BOOLEAN
  PROVE  Sound(StartInput(h, g, opened, created))
<1> DEFINE linked == [h EXCEPT !.tx = Append(@, "CAPTURE")]
           on == SelectCapture(linked, g)
           x  == [on.in EXCEPT !.pcm = TRUE,
                               !.state = IF created THEN "ACTIVE" ELSE @]
           n  == [on EXCEPT !.in = x]
<1>1. Append(h.tx, "CAPTURE") \in Seq({"CAPTURE", "VOICE_CALL"})
  BY AppendProperties DEF Sound, HalState
<1>2. Sound(linked)
  BY <1>1, SoundFields
<1> HIDE DEF linked
<1>3. Sound(on)
  BY <1>2, SelectCaptureSound
<1> HIDE DEF on
<1>4. x \in InStream
  BY <1>3 DEF Sound, HalState, InStream, StreamStates
<1>5. Sound(n)
  <2> HIDE DEF x
  <2>1. QED
    BY <1>3, <1>4, SoundFields
<1>6. Sound(StopInput(on))
  BY <1>3, StopInputSound
<1>7. CASE h.in.pcm
  BY <1>7, StartInputAgainSound DEF StartInput
<1>8. CASE ~h.in.pcm
  <2>1. StartInput(h, g, opened, created) \in {h, n, StopInput(on)}
    BY <1>8 DEF StartInput, on, linked
  <2>2. QED
    BY <1>5, <1>6, <2>1
<1>9. QED
  BY <1>7, <1>8

LEMMA StandbyInputSound ==
  ASSUME NEW h, Sound(h)
  PROVE  Sound(StandbyInput(h))
<1> DEFINE m == StopInput(h)
           x == [m.in EXCEPT !.state = "STANDBY", !.pcm = FALSE]
<1>1. Sound(m)
  BY StopInputSound
<1> HIDE DEF m
<1>2. x \in InStream
  BY <1>1 DEF Sound, HalState, InStream, StreamStates
<1>3. Sound([m EXCEPT !.in = x])
  <2> HIDE DEF x
  <2>1. QED
    BY <1>1, <1>2, SoundFields
<1>4. StandbyInput(h) \in {h, [m EXCEPT !.in = x]}
  BY DEF StandbyInput, m
<1>5. QED
  BY <1>3, <1>4

(* The voice processor's state does not touch the counts. *)
LEMMA EarSound ==
  ASSUME NEW h, Sound(h)
  PROVE  Sound(StartEar(h)) /\ Sound(StopEar(h))
<1> DEFINE route == EsDeviceToRoute(h.out["primary"].devices, h.wbAmr, h.btWb)
<1>1. route \in 0..AudienceSleep
  BY DEF EsDeviceToRoute, RouteMicrophones, CallRoute, NarrowRoute, WideRoute,
         AudienceSleep
<1>2. h.ear \in Chip
  BY DEF Sound, HalState
<1>3. EsStartVoiceSession(route) \in Chip /\ EsStopVoiceSession(h.ear) \in Chip
  BY <1>1, <1>2 DEF EsStartVoiceSession, EsStopVoiceSession, Chip, AudienceSleep
<1> HIDE DEF route
<1>4. QED
  BY <1>3, SoundFields DEF StartEar, StopEar, route

LEMMA StopVoiceCallSound ==
  ASSUME NEW h, Sound(h)
  PROVE  Sound(StopVoiceCall(h))
<1> DEFINE c    == StopScoOfCall(h)
           e    == [c EXCEPT !.pcmVoice = FALSE]
           closed == StopEar(e)
           a    == <<"VOICE_CALL", "out">>
           b    == <<"VOICE_CALL", "in">>
           V    == h.snd
           V1   == [V EXCEPT ![a] = NONE]
           V2   == [V1 EXCEPT ![b] = NONE]
           off1 == DisableSndDevice(closed, "VOICE_CALL", V[a])
           off2 == DisableSndDevice(off1, "VOICE_CALL", V1[b])
           m1   == [off2 EXCEPT !.snd[a] = NONE]
           m2   == [m1 EXCEPT !.snd[b] = NONE]
           m3   == [m2 EXCEPT !.tx = Unlink(h.tx, "VOICE_CALL")]
           n    == [m3 EXCEPT !.inCall = FALSE]
<1>1. /\ a \in Slots /\ b \in Slots /\ a # b /\ NONE \in SndDevice
      /\ V \in [Slots -> SndDevice]
  BY DEF Slots, Usecases, Sides, SndDevice, Sound, HalState
<1>2. Sound(closed)
  <2>1. Sound(c)
    BY ScoSound
  <2>2. Sound(e)
    BY <2>1, SoundFields
  <2> HIDE DEF e
  <2>3. QED
    BY <2>2, EarSound
<1>3. closed.snd = V /\ closed.tx = h.tx
  BY DEF StopScoOfCall, StopSco, StopEar
<1>4. CASE ~Listed(h, "VOICE_CALL")
  BY <1>2, <1>4 DEF StopVoiceCall
<1>5. CASE Listed(h, "VOICE_CALL")
  <2>1. off2.tx = h.tx
    BY <1>3 DEF DisableSndDevice, Crash
  <2>2. V1 \in [Slots -> SndDevice] /\ V1[b] = V[b]
    BY <1>1
  <2>3. StopVoiceCall(h) = n
    BY <1>5, <2>1, <2>2 DEF StopVoiceCall
  <2> HIDE DEF c, e, closed
  <2>4. off1 \in HalState /\ off1.snd = V /\ Counts(off1.ref, V1)
    BY <1>1, <1>2, <1>3, DisableCounts DEF Sound
  <2> HIDE DEF V1, off1
  <2>5. off2 \in HalState /\ off2.snd = V /\ Counts(off2.ref, V2)
    <3> HIDE DEF V2
    <3>1. V1 \in [Slots -> SndDevice] /\ Counts(off1.ref, V1) /\ b \in Slots
      BY <1>1, <2>2, <2>4
    <3>2. LET k == DisableSndDevice(off1, "VOICE_CALL", V1[b])
          IN  /\ k \in HalState /\ k.snd = off1.snd
              /\ Counts(k.ref, [V1 EXCEPT ![b] = NONE])
      BY <2>4, <3>1, DisableCounts
    <3>3. QED
      BY <2>4, <3>2 DEF V2
  <2> HIDE DEF off2
  <2>6. m1 \in HalState /\ m1.ref = off2.ref /\ m1.snd = V1
    BY <1>1, <2>5, AssignSnd DEF V1
  <2> HIDE DEF m1
  <2>7. m2 \in HalState /\ m2.ref = off2.ref /\ m2.snd = V2
    BY <1>1, <2>6, AssignSnd
  <2>8. Sound(m2)
    BY <2>5, <2>7 DEF Sound
  <2> HIDE DEF m2
  <2>9. Sound(m3)
    BY <1>5, <2>8, UnlinkSound, SoundFields
  <2> HIDE DEF m3
  <2>10. Sound(n)
    BY <2>9, SoundFields
  <2>11. QED
    BY <2>3, <2>10
<1>6. QED
  BY <1>4, <1>5

LEMMA StartVoiceCallSound ==
  ASSUME NEW h, Sound(h), NEW g, NEW r \in [sco : BOOLEAN, tx : BOOLEAN, rx : BOOLEAN]
  PROVE  Sound(StartVoiceCall(h, g, r))
<1> DEFINE linked  == [h EXCEPT !.tx = Append(@, "VOICE_CALL")]
           entered == SelectVoiceCall(linked, g)
           started == [entered EXCEPT !.inCall = TRUE]
           sco     == IF Touches(h.out["primary"].devices, AllSco)
                      THEN StartSco(started, r.sco) ELSE started
           closed  == StopScoOfCall(sco)
           call    == [sco EXCEPT !.pcmVoice = TRUE]
<1>1. Append(h.tx, "VOICE_CALL") \in Seq({"CAPTURE", "VOICE_CALL"})
  BY AppendProperties DEF Sound, HalState
<1>2. Sound(linked)
  BY <1>1, SoundFields
<1> HIDE DEF linked
<1>3. Sound(entered)
  BY <1>2, SelectVoiceCallSound
<1> HIDE DEF entered
<1>4. Sound(started)
  BY <1>3, SoundFields
<1> HIDE DEF started
<1>5. Sound(sco)
  BY <1>4, ScoSound
<1> HIDE DEF sco
<1>6. Sound(closed) /\ Sound(Crash(sco)) /\ Sound(call)
  BY <1>5, ScoSound, CrashSound, SoundFields
<1> HIDE DEF closed, call
<1>10. Sound(StartEar(call))
  BY <1>6, EarSound
<1>7. Sound([closed EXCEPT !.inCall = FALSE])
  BY <1>6, SoundFields
<1>8. StartVoiceCall(h, g, r) \in {started, Crash(sco), StartEar(call),
                                   [closed EXCEPT !.inCall = FALSE]}
  BY DEF StartVoiceCall, call, closed, sco, started, entered, linked
<1>9. QED
  BY <1>4, <1>6, <1>7, <1>8, <1>10

LEMMA RouteScoSound ==
  ASSUME NEW h, Sound(h), NEW s, NEW b \in BOOLEAN
  PROVE  Sound(RouteSco(h, s, b))
<1>1. Sound([h EXCEPT !.inCommSco = TRUE]) /\ Sound([h EXCEPT !.inCommSco = FALSE])
  BY SoundFields
<1>2. QED
  BY <1>1, ScoSound DEF RouteSco

LEMMA RouteCallSound ==
  ASSUME NEW h, Sound(h), NEW s, NEW changed, NEW g,
         NEW r \in [sco : BOOLEAN, tx : BOOLEAN, rx : BOOLEAN]
  PROVE  Sound(RouteCall(h, s, changed, g, r))
BY StartVoiceCallSound, StopVoiceCallSound DEF RouteCall

LEMMA SetOutputRouteSound ==
  ASSUME NEW h, Sound(h), NEW s \in Outs, NEW d \in OutRoutes, NEW g,
         NEW r \in [sco : BOOLEAN, tx : BOOLEAN, rx : BOOLEAN]
  PROVE  Sound(SetOutputRoute(h, s, d, g, r))
<1> DEFINE changed == h.out[s].devices # d
           moved   == [h EXCEPT !.out[s].devices = d]
           routed  == IF h.out[s].state # "ACTIVE" THEN moved
                      ELSE IF changed THEN StandbyOutput(moved, s)
                      ELSE SelectPlayback(moved, s, g)
           sco     == RouteSco(routed, s, r.sco)
<1>1. [h.out EXCEPT ![s].devices = d] \in [Outs -> OutStream]
  BY ZenonT(60) DEF Sound, HalState, OutStream
<1>2. Sound(moved)
  BY <1>1, SoundFields
<1> HIDE DEF moved
<1>3. Sound(routed)
  BY <1>2, StandbyOutputSound, SelectPlaybackSound
<1> HIDE DEF routed
<1>4. Sound(sco)
  BY <1>3, RouteScoSound
<1> HIDE DEF sco
<1>5. Sound(RouteCall(sco, s, changed, g, r))
  BY <1>4, RouteCallSound
<1>6. SetOutputRoute(h, s, d, g, r) = RouteCall(sco, s, changed, g, r)
  BY DEF SetOutputRoute, sco, routed, moved
<1>7. QED
  BY <1>5, <1>6

LEMMA SetInputRouteSound ==
  ASSUME NEW h, Sound(h), NEW source \in Sources, NEW device \in InDevices, NEW g
  PROVE  Sound(SetInputRoute(h, source, device, g))
<1> DEFINE h1 == IF source = "DEFAULT" THEN h ELSE [h EXCEPT !.in.source = source]
           h2 == [h1 EXCEPT !.in.device = device]
<1>1. Sound(h1)
  <2>1. [h.in EXCEPT !.source = source] \in InStream
    BY DEF Sound, HalState, InStream
  <2>2. QED
    BY <2>1, SoundFields
<1> HIDE DEF h1
<1>2. Sound(h2)
  <2>1. [h1.in EXCEPT !.device = device] \in InStream
    BY <1>1 DEF Sound, HalState, InStream
  <2>2. QED
    BY <1>1, <2>1, SoundFields
<1> HIDE DEF h2
<1>3. Sound(SelectCapture(h2, g)) /\ Sound(StandbyInput(h2))
  BY <1>2, SelectCaptureSound, StandbyInputSound
<1>4. SetInputRoute(h, source, device, g) \in
        {h1, h2, SelectCapture(h2, g), StandbyInput(h2)}
  BY DEF SetInputRoute, h1, h2
<1>5. QED
  BY <1>1, <1>2, <1>3, <1>4

------------------------------------------------------------------------------
(* The initial state, and the state after a crash *)

LEMMA FreshSound ==
  ASSUME NEW modem \in Modem, NEW rilUp \in BOOLEAN, NEW ear \in Chip
  PROVE  Sound(Fresh(modem, rilUp, ear))
<1> DEFINE f == Fresh(modem, rilUp, ear)
<1>1. NONE \in SndDevice
  BY DEF SndDevice
<1>2. /\ 0 \in Volumes /\ {"SPEAKER"} \in OutRoutes
      /\ <<>> \in Seq({"CAPTURE", "VOICE_CALL"})
  BY RoutesAssumption, EnvironmentAssumption
<1>3. f \in HalState
  BY <1>1, <1>2
     DEF Fresh, HalState, Modes, OutStream, InClosed, InStream, StreamStates, Sources,
         InDevices
<1>4. ASSUME NEW d \in SndDevice, d # NONE
      PROVE  f.ref[d] = Cardinality(Users(f.snd, d))
  <2>1. Users(f.snd, d) = {} /\ f.ref[d] = 0
    BY <1>4 DEF Fresh, Users
  <2>2. QED
    BY <2>1, FS_EmptySet
<1>5. f.ref[NONE] = 0
  BY <1>1 DEF Fresh
<1>6. QED
  BY <1>3, <1>4, <1>5 DEF Sound, Counts, Exact

LEMMA ReturnSound ==
  ASSUME NEW h, Sound(h), Return(h)
  PROVE  IInv'
<1>1. h.modem \in Modem /\ h.rilUp \in BOOLEAN /\ h.ear \in Chip
  BY DEF Sound, HalState
<1> DEFINE f == Fresh(h.modem, h.rilUp, h.ear)
<1>2. Sound(f)
  BY <1>1, FreshSound
<1> HIDE DEF f
<1>3. Sound([f EXCEPT !.up = FALSE])
  BY <1>2, CrashSound DEF Crash
<1>4. Sound(hal')
  BY <1>3 DEF Return, Dead, f
<1>5. QED
  BY <1>4 DEF IInv

LEMMA InitSound == Init => IInv
<1>1. \A v \in Volumes :
        [path |-> "NONE", twoMic |-> FALSE, tx |-> "UNMUTED", sound |-> "VOICE",
         volume |-> v, wbAmr |-> 0] \in Modem
  BY DEF Modem, SoundTypes
<1>2. ChipAtBoot \in Chip
  BY DEF ChipAtBoot, Chip, AudienceSleep
<1>3. QED
  BY <1>1, <1>2, FreshSound DEF Init, IInv

------------------------------------------------------------------------------
(* Every operation keeps the invariant *)

LEMMA EnvironmentInputs ==
  /\ Opened \subseteq BOOLEAN /\ Created \subseteq BOOLEAN
  /\ CallResults \subseteq [sco : BOOLEAN, tx : BOOLEAN, rx : BOOLEAN]
BY DEF CallResults, Opened, Created

LEMMA OutStreamOps ==
  ASSUME IInv, NEW s \in Outs,
         \/ AdevCloseOutputStream(s) \/ OutWrite(s) \/ OutStandby(s)
         \/ \E d \in OutRoutes : AdevOpenOutputStream(s, d) \/ OutSetParameters(s, d)
  PROVE  IInv'
<1>1. Sound(hal)
  BY DEF IInv
<1>2. CASE AdevCloseOutputStream(s)
  <2> DEFINE h == IF hal.out[s].state = "ACTIVE" THEN StandbyOutput(hal, s) ELSE hal
             n == [h EXCEPT !.out[s] = [state |-> "CLOSED", devices |-> {"SPEAKER"}]]
  <2>1. Sound(h)
    BY <1>1, StandbyOutputSound
  <2>2. Return(n)
    BY <1>2 DEF AdevCloseOutputStream
  <2> HIDE DEF h
  <2>3. [h.out EXCEPT ![s] = [state |-> "CLOSED", devices |-> {"SPEAKER"}]]
          \in [Outs -> OutStream]
    BY <2>1, RoutesAssumption DEF Sound, HalState, OutStream, StreamStates
  <2>4. Sound(n)
    BY <2>1, <2>3, SoundFields
  <2>5. QED
    BY <2>2, <2>4, ReturnSound
<1>3. CASE OutWrite(s)
  <2>1. PICK g \in Strays, opened \in Opened : Return(StartOutput(hal, s, g, opened))
    BY <1>3 DEF OutWrite
  <2>2. Sound(StartOutput(hal, s, g, opened))
    BY <1>1, EnvironmentInputs, StartOutputSound
  <2>3. QED
    BY <2>1, <2>2, ReturnSound
<1>4. CASE OutStandby(s)
  BY <1>1, <1>4, StandbyOutputSound, ReturnSound DEF OutStandby
<1>5. ASSUME NEW d \in OutRoutes, AdevOpenOutputStream(s, d)
      PROVE  IInv'
  <2> DEFINE n == [hal EXCEPT !.out[s] = [state |-> "STANDBY", devices |-> d]]
  <2>1. Return(n)
    BY <1>5 DEF AdevOpenOutputStream
  <2>2. [hal.out EXCEPT ![s] = [state |-> "STANDBY", devices |-> d]] \in [Outs -> OutStream]
    BY <1>1 DEF Sound, HalState, OutStream, StreamStates
  <2>3. Sound(n)
    BY <1>1, <2>2, SoundFields
  <2>4. QED
    BY <2>1, <2>3, ReturnSound
<1>6. ASSUME NEW d \in OutRoutes, OutSetParameters(s, d)
      PROVE  IInv'
  <2>1. PICK g \in Strays, r \in CallResults : Return(SetOutputRoute(hal, s, d, g, r))
    BY <1>6 DEF OutSetParameters
  <2>2. Sound(SetOutputRoute(hal, s, d, g, r))
    BY <1>1, EnvironmentInputs, SetOutputRouteSound
  <2>3. QED
    BY <2>1, <2>2, ReturnSound
<1>7. QED
  BY <1>2, <1>3, <1>4, <1>5, <1>6

LEMMA InStreamOps ==
  ASSUME IInv, Paired(hal),
         \/ AdevCloseInputStream \/ InRead \/ InStandby
         \/ \E source \in UsedSources, device \in InRoutes :
              AdevOpenInputStream(source, device) \/ InSetParameters(source, device)
  PROVE  IInv'
<1>1. Sound(hal)
  BY DEF IInv
<1>2. CASE AdevCloseInputStream
  <2> DEFINE h == StandbyInput(hal)
             c == IF h.in.pcm THEN [h.in EXCEPT !.state = "CLOSED", !.stale = TRUE]
                  ELSE InClosed
             n == [h EXCEPT !.in = c]
  <2>1. Sound(h)
    BY <1>1, StandbyInputSound
  <2>2. Return(n)
    BY <1>2 DEF AdevCloseInputStream
  <2> HIDE DEF h
  <2>3. c \in InStream
    BY <2>1 DEF InClosed, Sound, HalState, InStream, StreamStates, Sources, InDevices
  <2> HIDE DEF c
  <2>4. Sound(n)
    BY <2>1, <2>3, SoundFields
  <2>5. QED
    BY <2>2, <2>4, ReturnSound
<1>3. CASE InRead
  <2>1. PICK g \in Strays, opened \in Opened, created \in Created :
          Return(StartInput(hal, g, opened, created))
    BY <1>3 DEF InRead
  <2>2. hal.in.pcm => ~ResamplersMade
    BY <1>3 DEF InRead, Paired
  <2>4. Sound(StartInput(hal, g, opened, created))
    BY <1>1, <2>2, EnvironmentInputs, StartInputSound
  <2>3. QED
    BY <2>1, <2>4, ReturnSound
<1>4. CASE InStandby
  BY <1>1, <1>4, StandbyInputSound, ReturnSound DEF InStandby
<1>5. ASSUME NEW source \in UsedSources, NEW device \in InRoutes,
             AdevOpenInputStream(source, device)
      PROVE  IInv'
  <2> DEFINE i == [hal.in EXCEPT !.state = "STANDBY", !.source = source,
                                 !.device = device]
             n == [hal EXCEPT !.in = i]
  <2>1. Return(n)
    BY <1>5 DEF AdevOpenInputStream
  <2>2. i \in InStream
    BY <1>1, RoutesAssumption DEF Sound, HalState, InStream, StreamStates
  <2> HIDE DEF i
  <2>3. Sound(n)
    BY <1>1, <2>2, SoundFields
  <2>4. QED
    BY <2>1, <2>3, ReturnSound
<1>6. ASSUME NEW source \in UsedSources, NEW device \in InRoutes,
             InSetParameters(source, device)
      PROVE  IInv'
  <2>1. PICK g \in Strays : Return(SetInputRoute(hal, source, device, g))
    BY <1>6 DEF InSetParameters
  <2>2. Sound(SetInputRoute(hal, source, device, g))
    BY <1>1, RoutesAssumption, SetInputRouteSound
  <2>3. QED
    BY <2>1, <2>2, ReturnSound
<1>7. QED
  BY <1>2, <1>3, <1>4, <1>5, <1>6

LEMMA SetModeOp ==
  ASSUME IInv, NEW mode \in Modes, AdevSetMode(mode)
  PROVE  IInv'
<1>1. Sound(hal) /\ hal.rilClient \in BOOLEAN /\ hal.wbCallback \in BOOLEAN
  BY DEF IInv, Sound, HalState
<1>2. \A h1 \in RegisterCallbacks(hal) : Sound(h1)
  <2>1. Sound([hal EXCEPT !.rilClient = FALSE, !.wbCallback = FALSE])
    BY <1>1, SoundFields
  <2>2. hal.wbCallback \/ hal.rilClient \in BOOLEAN
    BY <1>1
  <2>3. Sound([hal EXCEPT !.wbCallback = @ \/ hal.rilClient])
    <3> DEFINE b == hal.wbCallback \/ hal.rilClient
    <3> HIDE DEF b
    <3>1. Sound([hal EXCEPT !.wbCallback = b])
      BY <1>1, <2>2, SoundFields DEF b
    <3>2. QED
      BY <3>1 DEF b
  <2>4. QED
    BY <1>1, <2>1, <2>3 DEF RegisterCallbacks
<1>3. PICK h1 \in IF mode = "IN_CALL" THEN RegisterCallbacks(hal) ELSE {hal} :
        LET h2 == [h1 EXCEPT !.mode = mode]
        IN  Return(IF mode = "NORMAL" /\ h2.inCall THEN StopVoiceCall(h2) ELSE h2)
  BY DEF AdevSetMode
<1> DEFINE h2 == [h1 EXCEPT !.mode = mode]
<1>4. Sound(h2)
  BY <1>1, <1>2, <1>3, SoundFields
<1> HIDE DEF h2
<1>5. Sound(StopVoiceCall(h2))
  BY <1>4, StopVoiceCallSound
<1>6. Return(h2) \/ Return(StopVoiceCall(h2))
  BY <1>3 DEF h2
<1>7. QED
  BY <1>4, <1>5, <1>6, ReturnSound

LEMMA SettingOps ==
  ASSUME IInv,
         \/ \E state \in BOOLEAN : AdevSetMicMute(state)
         \/ \E volume \in Volumes : AdevSetVoiceVolume(volume)
         \/ \E p \in BtParams : AdevSetParameters(p[1], p[2])
         \/ \E t \in WbReports : WbAmrCallback(t)
  PROVE  IInv'
<1>1. Sound(hal)
  BY DEF IInv
<1>2. ASSUME NEW state \in BOOLEAN, AdevSetMicMute(state)
      PROVE  IInv'
  <2> DEFINE h == [hal EXCEPT !.micMute = state]
             c == IF state THEN "MUTED" ELSE "UNMUTED"
             n == RilSetMute(h, c)
  <2>1. Sound(h)
    BY <1>1, SoundFields
  <2>2. Return(h) \/ Return(n)
    BY <1>2 DEF AdevSetMicMute
  <2> HIDE DEF h
  <2>3. SameRoutes(h, n)
    BY <2>1, ModemRoutes DEF Sound
  <2>4. Sound(n)
    BY <2>1, <2>3, SoundTracks
  <2>5. QED
    BY <2>1, <2>2, <2>4, ReturnSound
<1>3. ASSUME NEW volume \in Volumes, AdevSetVoiceVolume(volume)
      PROVE  IInv'
  <2> DEFINE h == [hal EXCEPT !.volume = volume]
  <2>1. Sound(h)
    BY <1>1, SoundFields
  <2>2. Return(VoiceVolume(h))
    BY <1>3 DEF AdevSetVoiceVolume
  <2> HIDE DEF h
  <2>3. SameRoutes(h, VoiceVolume(h))
    BY <2>1, ModemRoutes DEF Sound
  <2>4. QED
    BY <2>1, <2>2, <2>3, SoundTracks, ReturnSound
<1>4. ASSUME NEW p \in BtParams, AdevSetParameters(p[1], p[2])
      PROVE  IInv'
  <2>1. p[1] \in BOOLEAN /\ p[2] \in BOOLEAN
    BY EnvironmentAssumption
  <2>2. Sound([hal EXCEPT !.nrec = p[1], !.btWb = p[2]])
    BY <1>1, <2>1, SoundFields
  <2>3. QED
    BY <1>4, <2>2, ReturnSound DEF AdevSetParameters
<1>5. ASSUME NEW t \in WbReports, WbAmrCallback(t)
      PROVE  IInv'
  <2> DEFINE n == [hal EXCEPT !.modem.wbAmr = t, !.wbAmr = WbAmrOf(hal, t)]
  <2>1. WbAmrOf(hal, t) \in BOOLEAN
    BY <1>1 DEF WbAmrOf, Sound, HalState
  <2>2. [hal.modem EXCEPT !.wbAmr = t] \in Modem
    BY <1>1, EnvironmentAssumption DEF Sound, HalState, Modem
  <2>3. Sound(n)
    BY <1>1, <2>1, <2>2, ZenonT(60) DEF Sound, HalState
  <2>4. QED
    BY <1>5, <2>3, ReturnSound DEF WbAmrCallback
<1>6. QED
  BY <1>2, <1>3, <1>4, <1>5

LEMMA SurroundingsOps ==
  ASSUME IInv, AdevGetMicMute \/ PcmClockCallback \/ RilToggles \/ Restart
  PROVE  IInv'
<1>1. /\ Sound(hal) /\ hal.modem \in Modem /\ hal.rilUp \in BOOLEAN
      /\ hal.ear \in Chip
  BY DEF IInv, Sound, HalState
<1>2. CASE RilToggles
  <2> DEFINE b == ~hal.rilUp
  <2>1. b \in BOOLEAN
    OBVIOUS
  <2> HIDE DEF b
  <2>2. Sound([hal EXCEPT !.rilUp = b])
    BY <1>1, <2>1, SoundFields
  <2>3. QED
    BY <1>2, <2>2 DEF RilToggles, IInv, b
<1>3. CASE Restart
  BY <1>1, <1>3, FreshSound DEF Restart, IInv
<1>4. CASE PcmClockCallback
  BY <1>1, <1>4, ReturnSound DEF PcmClockCallback, SetPcmClock
<1>5. CASE AdevGetMicMute
  BY <1>5 DEF AdevGetMicMute, IInv
<1>6. QED
  BY <1>2, <1>3, <1>4, <1>5

LEMMA NextSound == IInv /\ Paired(hal) /\ [Next]_hal => IInv'
<1> SUFFICES ASSUME IInv, Paired(hal), [Next]_hal
             PROVE  IInv'
  OBVIOUS
<1>1. CASE Next
  BY <1>1, OutStreamOps, InStreamOps, SetModeOp, SettingOps, SurroundingsOps DEF Next
<1>2. CASE UNCHANGED hal
  BY <1>2 DEF IInv
<1>3. QED
  BY <1>1, <1>2

------------------------------------------------------------------------------
(***************************************************************************)
(* The usecases: usecase_list, the sound devices of the usecases, the      *)
(* voice call and the SCO session of audio/audio_hw.c.                     *)
(*                                                                         *)
(* A usecase holds a path only while it is linked, and the playbacks hold  *)
(* the same one (Slotted); the streams, the list, the paths and the flags  *)
(* of the sessions agree (Matched).  Matched is inductive together with    *)
(* IInv above.  A C function is an operator on the                         *)
(* record of the HAL, and what it may change is stated once, as a relation *)
(* of the record before it and after it: Same for select_devices, Core for *)
(* the start and the end of a stream, Around for those of a call.          *)
(*                                                                         *)
(* What a call promises (CallSafe: one entry, shared devices, an informed  *)
(* modem, a listening voice processor) is kept by every operation (Kept)   *)
(* where the PCMs open and a call ends in the normal mode; the start and   *)
(* the end of a call establish it anew (Begun).                            *)
(***************************************************************************)

------------------------------------------------------------------------------
(* What a switch of devices leaves alone *)

(* At most one entry of a list is u. *)
Once(list, u) == \A i, j \in DOMAIN list : list[i] = u /\ list[j] = u => i = j

(* No usecase of a list has a second entry. *)
Whole(list) == Once(list, "CAPTURE") /\ Once(list, "VOICE_CALL")

(* The modem was told the call volume, and for which transducer. *)
Told(h) == /\ h.modem.volume = h.volume
           /\ h.modem.sound = SoundType(h.out["primary"].devices)

(* From h to n only the streams, the usecase list, the mixer paths and what *)
(* the modem was told may change; a muted microphone stays muted, and a     *)
(* modem that knows the volume still does.                                  *)
Core(h, n) ==
  /\ n \in HalState
  /\ n.mode = h.mode /\ n.inCall = h.inCall /\ n.inCallSco = h.inCallSco
  /\ n.inCommSco = h.inCommSco /\ n.pcmVoice = h.pcmVoice /\ n.pcmSco = h.pcmSco
  /\ n.micMute = h.micMute /\ n.volume = h.volume /\ n.nrec = h.nrec
  /\ n.btWb = h.btWb /\ n.wbAmr = h.wbAmr
  /\ n.rilClient = h.rilClient /\ n.rilUp = h.rilUp
  /\ n.wbCallback = h.wbCallback /\ n.ear = h.ear
  /\ h.micMute => n.modem.tx = h.modem.tx
  /\ Told(h) => Told(n)

(* The streams stay too. *)
Rest(h, n) == Core(h, n) /\ n.out = h.out /\ n.in = h.in

(* The list stays too, and usecases that are linked once do not end the     *)
(* audio server.                                                            *)
Same(h, n) ==
  /\ Rest(h, n)
  /\ n.listed = h.listed /\ n.tx = h.tx
  /\ Whole(h.tx) => n.up = h.up

LEMMA SameSelf == ASSUME NEW h \in HalState PROVE Same(h, h)
BY DEF Same, Rest, Core

LEMMA SameTrans ==
  ASSUME NEW h, NEW m, NEW n, Same(h, m), Same(m, n)
  PROVE  Same(h, n)
BY DEF Same, Rest, Core

(* Entries that are linked once leave no mixer list broken. *)
LEMMA MixerListWhole ==
  ASSUME NEW h \in HalState, Whole(h.tx), NEW u
  PROVE  ~MixerListBroken(h, u)
<1> DEFINE I == {i \in DOMAIN h.tx : h.tx[i] = u}
<1>1. CASE I = {}
  BY <1>1, FS_EmptySet DEF MixerListBroken, Entries
<1>2. CASE I # {}
  <2>1. PICK k : k \in I
    BY <1>2
  <2>2. u \in {"CAPTURE", "VOICE_CALL"}
    BY <2>1 DEF HalState
  <2>3. I = {k}
    BY <2>1, <2>2 DEF Whole, Once
  <2>4. Entries(h, u) = 1
    BY <2>3, FS_Singleton DEF Entries
  <2>5. QED
    BY <2>4 DEF MixerListBroken
<1>3. QED
  BY <1>1, <1>2

LEMMA PathsSame ==
  ASSUME NEW h \in HalState, NEW u, NEW d \in SndDevice
  PROVE  /\ Same(h, EnableSndDevice(h, u, d))
         /\ Same(h, DisableSndDevice(h, u, d))
<1>1. ASSUME NEW r \in [SndDevice -> Nat]
      PROVE  LET n == [h EXCEPT !.ref = r]
             IN  Same(h, n) /\ n.up = h.up /\ n.tx = h.tx
  <2>1. [h EXCEPT !.ref = r] \in HalState
    BY <1>1, ZenonT(60) DEF HalState
  <2>2. QED
    BY <2>1, ZenonT(60) DEF Same, Rest, Core, HalState, Told
<1>2. ASSUME NEW n, Same(h, n), ~Whole(h.tx)
      PROVE  Same(h, Crash(n))
  <2>1. Crash(n) \in HalState
    <3>1. n \in HalState
      BY <1>2 DEF Same, Rest, Core
    <3>2. QED
      BY <3>1, CrashRoutes DEF SameRoutes
  <2>2. QED
    BY <1>2, <2>1, ZenonT(60) DEF Same, Rest, Core, HalState, Crash, Told
<1>3. h.ref \in [SndDevice -> Nat] /\ Same(h, h)
  BY SameSelf DEF HalState
<1>4. Same(h, EnableSndDevice(h, u, d))
  <2> DEFINE n == [h EXCEPT !.ref[d] = @ + 1]
  <2>1. [h.ref EXCEPT ![d] = @ + 1] \in [SndDevice -> Nat]
    BY <1>3
  <2>2. Same(h, n) /\ n.tx = h.tx
    BY <1>1, <2>1
  <2>3. EnableSndDevice(h, u, d) = IF n.ref[d] = 1 /\ MixerListBroken(h, u)
                                   THEN Crash(n) ELSE n
    BY DEF EnableSndDevice
  <2> HIDE DEF n
  <2>4. QED
    BY <1>2, <2>2, <2>3, MixerListWhole
<1>5. Same(h, DisableSndDevice(h, u, d))
  <2> DEFINE n == [h EXCEPT !.ref[d] = @ - 1]
  <2>1. CASE h.ref[d] <= 0
    BY <1>3, <2>1 DEF DisableSndDevice
  <2>2. CASE ~(h.ref[d] <= 0)
    <3>1. [h.ref EXCEPT ![d] = @ - 1] \in [SndDevice -> Nat]
      BY <1>3, <2>2
    <3>2. Same(h, n) /\ n.tx = h.tx
      BY <1>1, <3>1
    <3>3. DisableSndDevice(h, u, d) = IF n.ref[d] = 0 /\ MixerListBroken(h, u)
                                      THEN Crash(n) ELSE n
      BY <2>2 DEF DisableSndDevice
    <3> HIDE DEF n
    <3>4. QED
      BY <1>2, <3>2, <3>3, MixerListWhole
  <2>3. QED
    BY <2>1, <2>2
<1>6. QED
  BY <1>4, <1>5

(* A command to the modem other than an unmute. *)
LEMMA ModemSame ==
  ASSUME NEW h \in HalState, NEW m \in Modem,
         h.micMute => m.tx = h.modem.tx,
         Told(h) => /\ m.volume = h.volume
                    /\ m.sound = SoundType(h.out["primary"].devices)
  PROVE  Same(h, [h EXCEPT !.modem = m])
<1>1. [h EXCEPT !.modem = m] \in HalState
  BY ZenonT(60) DEF HalState
<1>2. QED
  BY <1>1, ZenonT(60) DEF Same, Rest, Core, HalState, Told

LEMMA RoutingForCallSame ==
  ASSUME NEW h \in HalState, NEW outs
  PROVE  /\ Same(h, RoutingForCall(h, outs))
         /\ h.mode = "IN_CALL" /\ Reaches(h) /\ Whole(h.tx)
              => Told(RoutingForCall(h, outs))
<1>1. \A k \in HalState : k.modem \in Modem /\ Same(k, k)
  BY SameSelf DEF HalState
<1> DEFINE b    == Touches(outs, {"EARPIECE", "SPEAKER"})
           p    == CallAudioPath(outs, h.nrec, h.btWb)
           mics == SetTwoMic(h, b)
           path == SetCallAudioPath(mics, p)
           t    == SoundType(path.out["primary"].devices)
           n    == RilSetVolume(path, t, path.volume)
<1>2. b \in BOOLEAN /\ p \in AudioPaths
  BY DEF Touches, CallAudioPath, AudioPaths
<1> HIDE DEF b, p
<1>3. Same(h, mics)
  <2>1. [h.modem EXCEPT !.twoMic = b] \in Modem
    BY <1>1, <1>2 DEF Modem
  <2> DEFINE m == [h.modem EXCEPT !.twoMic = b]
  <2>2. /\ m.tx = h.modem.tx /\ m.volume = h.modem.volume
        /\ m.sound = h.modem.sound
    BY <1>1 DEF Modem
  <2>3. Same(h, [h EXCEPT !.modem = m])
    BY <2>1, <2>2, ModemSame DEF Told
  <2>4. QED
    BY <1>1, <2>3 DEF SetTwoMic
<1> HIDE DEF mics
<1>4. mics \in HalState
  BY <1>3 DEF Same, Rest, Core
<1>5. Same(mics, path)
  <2>1. [mics.modem EXCEPT !.path = p] \in Modem
    BY <1>1, <1>2, <1>4 DEF Modem
  <2> DEFINE m == [mics.modem EXCEPT !.path = p]
  <2>2. /\ m.tx = mics.modem.tx /\ m.volume = mics.modem.volume
        /\ m.sound = mics.modem.sound
    BY <1>1, <1>4 DEF Modem
  <2>3. Same(mics, [mics EXCEPT !.modem = m])
    BY <1>4, <2>1, <2>2, ModemSame DEF Told
  <2>4. QED
    BY <1>1, <1>4, <2>3 DEF SetCallAudioPath
<1> HIDE DEF path
<1>6. path \in HalState
  BY <1>5 DEF Same, Rest, Core
<1>7. Same(path, n)
  <2>1. t \in SoundTypes /\ path.volume \in Volumes
    BY <1>6 DEF SoundType, SoundTypes, HalState
  <2> DEFINE m == [path.modem EXCEPT !.sound = t, !.volume = path.volume]
  <2> HIDE DEF t
  <2>2. /\ m \in Modem /\ m.tx = path.modem.tx
        /\ m.volume = path.volume /\ m.sound = t
    BY <1>1, <1>6, <2>1 DEF Modem
  <2> HIDE DEF m
  <2>3. Same(path, [path EXCEPT !.modem = m])
    BY <1>6, <2>2, ModemSame DEF t
  <2>4. n \in {path, [path EXCEPT !.modem = m]}
    BY DEF RilSetVolume, t, m
  <2>5. QED
    BY <1>1, <1>6, <2>3, <2>4
<1>8. Same(path, VoiceVolume(path))
  BY <1>1, <1>6, <1>7 DEF VoiceVolume
<1>9. RoutingForCall(h, outs) = VoiceVolume(path)
  BY DEF RoutingForCall, SetCallPath, path, mics, p, b
<1>10. Same(h, RoutingForCall(h, outs))
  BY <1>3, <1>5, <1>8, <1>9, SameTrans
<1>11. ASSUME h.mode = "IN_CALL", Reaches(h), Whole(h.tx)
       PROVE  Told(VoiceVolume(path))
  <2>1. Reaches(path) /\ path.mode = "IN_CALL"
    BY <1>3, <1>5, <1>11 DEF Same, Rest, Core, Reaches
  <2>2. VoiceVolume(path) = RilSetVolume(path, t, path.volume)
    BY <2>1 DEF VoiceVolume
  <2> HIDE DEF t
  <2> DEFINE m == [path.modem EXCEPT !.sound = t, !.volume = path.volume]
  <2>3. RilSetVolume(path, t, path.volume) = [path EXCEPT !.modem = m]
    BY <2>1 DEF RilSetVolume
  <2>4. m.volume = path.volume /\ m.sound = t
    BY <1>1, <1>6 DEF Modem
  <2> HIDE DEF m
  <2>5. /\ VoiceVolume(path).modem.volume = path.volume
        /\ VoiceVolume(path).modem.sound = t
        /\ VoiceVolume(path).volume = path.volume
        /\ VoiceVolume(path).out = path.out
    BY <1>6, <2>2, <2>3, <2>4 DEF HalState
  <2>6. QED
    BY <2>5 DEF Told, t
<1>12. QED
  BY <1>9, <1>10, <1>11

LEMMA UnmuteCallSame ==
  ASSUME NEW h \in HalState
  PROVE  Same(h, UnmuteCall(h))
<1>1. h.modem \in Modem /\ Same(h, h)
  BY SameSelf DEF HalState
<1>2. CASE h.micMute
  BY <1>1, <1>2 DEF UnmuteCall
<1>3. CASE ~h.micMute
  <2> DEFINE m == [h.modem EXCEPT !.tx = "UNMUTED"]
  <2>1. /\ m \in Modem /\ m.volume = h.modem.volume
        /\ m.sound = h.modem.sound
    BY <1>1 DEF Modem
  <2>2. Same(h, [h EXCEPT !.modem = m])
    BY <1>3, <2>1, ModemSame DEF Told
  <2>3. QED
    BY <1>1, <2>2 DEF UnmuteCall, RilSetMute
<1>4. QED
  BY <1>2, <1>3

LEMMA AssignSame ==
  ASSUME NEW h \in HalState, NEW s \in Slots, NEW d \in SndDevice
  PROVE  Same(h, [h EXCEPT !.snd[s] = d])
<1> DEFINE n == [h EXCEPT !.snd[s] = d]
<1>1. n \in HalState
  BY AssignSnd
<1>2. \A x : LET k == [h EXCEPT !.snd = x]
             IN  k \in HalState => Same(h, k)
  BY ZenonT(60) DEF Same, Rest, Core, HalState, Told
<1>3. QED
  BY <1>1, <1>2

------------------------------------------------------------------------------
(* Where a switch leaves the usecases *)

(* The devices after usecase u was switched to out and in: the usecases of  *)
(* the same backend follow it.                                              *)
Backend(side) == IF side = "out" THEN Playbacks ELSE {"CAPTURE"}
Moved(h, u, out, in, s) ==
  LET d == IF s[2] = "out" THEN out ELSE in
  IN  IF s[1] = u \/ (d # NONE /\ Listed(h, s[1]) /\ s[1] \in Backend(s[2]))
      THEN d ELSE h.snd[s]

(* The same, of one side, before the slots of u itself are assigned. *)
Pulled(h, u, side, d, s) ==
  IF s[1] # u /\ s[2] = side /\ d # NONE /\ Listed(h, s[1]) /\ s[1] \in Backend(side)
  THEN d ELSE h.snd[s]

LEMMA EnableSame ==
  ASSUME NEW h \in HalState, NEW u, NEW d \in SndDevice
  PROVE  LET n == EnableSndDevice(h, u, d)
         IN  Same(h, n) /\ n \in HalState /\ n.snd = h.snd
<1> DEFINE n == EnableSndDevice(h, u, d)
<1>1. Same(h, n)
  BY PathsSame
<1>2. n \in HalState /\ n.snd = h.snd /\ n.ref = [h.ref EXCEPT ![d] = @ + 1]
  BY EnableState
<1>3. QED
  BY <1>1, <1>2

LEMMA DisableSame ==
  ASSUME NEW h \in HalState, NEW u, NEW d \in SndDevice
  PROVE  LET n == DisableSndDevice(h, u, d)
         IN  Same(h, n) /\ n \in HalState /\ n.snd = h.snd
<1> DEFINE n == DisableSndDevice(h, u, d)
<1>1. Same(h, n)
  BY PathsSame
<1>2. n \in HalState /\ n.snd = h.snd
  BY DisableState
<1>3. QED
  BY <1>1, <1>2

LEMMA RerouteSnd ==
  ASSUME NEW h \in HalState, NEW u, NEW w \in Usecases, NEW side \in Sides,
         NEW d \in SndDevice
  PROVE  LET n == Reroute(h, u, w, side, d)
         IN  /\ Same(h, n)
             /\ \A s \in Slots :
                  n.snd[s] = IF w # u /\ s = <<w, side>> /\ Listed(h, w)
                             THEN d ELSE h.snd[s]
<1> DEFINE s == <<w, side>>
           m == DisableSndDevice(h, w, h.snd[s])
           k == EnableSndDevice(m, w, d)
           n == [k EXCEPT !.snd[s] = d]
<1>1. h.snd \in [Slots -> SndDevice] /\ s \in Slots
  BY DEF HalState, Slots
<1>2. CASE ~(w # u /\ Listed(h, w) /\ h.snd[s] # d)
  BY <1>2, SameSelf DEF Reroute
<1>3. CASE w # u /\ Listed(h, w) /\ h.snd[s] # d
  <2>1. Same(h, m) /\ m \in HalState /\ m.snd = h.snd
    BY <1>1, DisableSame
  <2> HIDE DEF m
  <2>2. Same(m, k) /\ k \in HalState /\ k.snd = m.snd
    BY <2>1, EnableSame
  <2> HIDE DEF k
  <2>3. Same(k, n) /\ n.snd = [k.snd EXCEPT ![s] = d]
    BY <1>1, <2>2, AssignSame, AssignSnd
  <2> HIDE DEF n
  <2>4. Same(h, n)
    BY <2>1, <2>2, <2>3, SameTrans
  <2>5. n.snd = [h.snd EXCEPT ![s] = d]
    BY <2>1, <2>2, <2>3
  <2>6. Reroute(h, u, w, side, d) = n
    BY <1>3 DEF Reroute, n, k, m
  <2>7. QED
    BY <1>1, <1>3, <2>4, <2>5, <2>6
<1>4. QED
  BY <1>2, <1>3

LEMMA CheckAndRouteSnd ==
  ASSUME NEW h \in HalState, NEW u, NEW side \in Sides, NEW d \in SndDevice, d # NONE
  PROVE  LET n == CheckAndRoute(h, u, side, d)
         IN  /\ Same(h, n)
             /\ \A s \in Slots : n.snd[s] = Pulled(h, u, side, d, s)
<1>1. {"DEEP_BUFFER", "PLAYBACK", "CAPTURE"} \subseteq Usecases
  BY DEF Usecases, Playbacks
<1>2. CASE side = "out"
  <2> DEFINE m == Reroute(h, u, "DEEP_BUFFER", side, d)
             n == Reroute(m, u, "PLAYBACK", side, d)
  <2>1. /\ Same(h, m)
        /\ \A s \in Slots :
             m.snd[s] = IF "DEEP_BUFFER" # u /\ s = <<"DEEP_BUFFER", side>>
                             /\ Listed(h, "DEEP_BUFFER")
                        THEN d ELSE h.snd[s]
    BY <1>1, RerouteSnd
  <2> HIDE DEF m
  <2>2. m \in HalState /\ Listed(m, "PLAYBACK") = Listed(h, "PLAYBACK")
    BY <2>1 DEF Same, Rest, Core, Listed
  <2>3. /\ Same(m, n)
        /\ \A s \in Slots :
             n.snd[s] = IF "PLAYBACK" # u /\ s = <<"PLAYBACK", side>>
                             /\ Listed(m, "PLAYBACK")
                        THEN d ELSE m.snd[s]
    BY <1>1, <2>2, RerouteSnd
  <2>4. CheckAndRoute(h, u, side, d) = n
    BY <1>2 DEF CheckAndRoute, m
  <2> HIDE DEF n
  <2>5. Same(h, n)
    BY <2>1, <2>3, SameTrans
  <2>6. ASSUME NEW s \in Slots
        PROVE  n.snd[s] = Pulled(h, u, side, d, s)
    <3>1. s = <<s[1], s[2]>>
      BY DEF Slots
    <3>2. CASE s = <<"DEEP_BUFFER", "out">>
      BY <1>2, <2>1, <2>3, <3>2 DEF Pulled, Backend, Playbacks
    <3>3. CASE s = <<"PLAYBACK", "out">>
      BY <1>2, <2>1, <2>2, <2>3, <3>3 DEF Pulled, Backend, Playbacks
    <3>4. CASE s \notin {<<"DEEP_BUFFER", "out">>, <<"PLAYBACK", "out">>}
      <4>1. ~(s[2] = "out" /\ s[1] \in Playbacks)
        BY <3>1, <3>4 DEF Playbacks
      <4>2. QED
        BY <1>2, <2>1, <2>3, <3>4, <4>1 DEF Pulled, Backend
    <3>5. QED
      BY <3>2, <3>3, <3>4
  <2>7. QED
    BY <2>4, <2>5, <2>6
<1>3. CASE side # "out"
  <2> DEFINE n == Reroute(h, u, "CAPTURE", side, d)
  <2>1. /\ Same(h, n)
        /\ \A s \in Slots :
             n.snd[s] = IF "CAPTURE" # u /\ s = <<"CAPTURE", side>>
                             /\ Listed(h, "CAPTURE")
                        THEN d ELSE h.snd[s]
    BY <1>1, RerouteSnd
  <2>2. CheckAndRoute(h, u, side, d) = n
    BY <1>3 DEF CheckAndRoute
  <2> HIDE DEF n
  <2>3. ASSUME NEW s \in Slots
        PROVE  n.snd[s] = Pulled(h, u, side, d, s)
    <3>1. s = <<s[1], s[2]>>
      BY DEF Slots
    <3>2. QED
      BY <1>3, <2>1, <3>1 DEF Pulled, Backend
  <2>4. QED
    BY <2>1, <2>2, <2>3
<1>4. QED
  BY <1>2, <1>3

LEMMA EnableNewSnd ==
  ASSUME NEW h \in HalState, NEW u, NEW side \in Sides, NEW d \in SndDevice
  PROVE  LET n == EnableNew(h, u, side, d)
         IN  /\ Same(h, n)
             /\ \A s \in Slots : n.snd[s] = Pulled(h, u, side, d, s)
<1>1. CASE d = NONE
  BY <1>1, SameSelf DEF EnableNew, Pulled
<1>2. CASE d # NONE
  <2> DEFINE m == CheckAndRoute(h, u, side, d)
             n == EnableSndDevice(m, u, d)
  <2>1. Same(h, m) /\ \A s \in Slots : m.snd[s] = Pulled(h, u, side, d, s)
    BY <1>2, CheckAndRouteSnd
  <2>2. m \in HalState
    BY <2>1 DEF Same, Rest, Core
  <2> HIDE DEF m
  <2>3. Same(m, n) /\ n.snd = m.snd
    BY <2>2, EnableSame
  <2>4. EnableNew(h, u, side, d) = n
    BY <1>2 DEF EnableNew, m
  <2> HIDE DEF n
  <2>5. QED
    BY <2>1, <2>3, <2>4, SameTrans
<1>3. QED
  BY <1>1, <1>2

LEMMA DisableCurrentSame ==
  ASSUME NEW h \in HalState, NEW u \in Usecases, NEW side \in Sides
  PROVE  LET n == DisableCurrent(h, u, side)
         IN  Same(h, n) /\ n.snd = h.snd
<1>1. h.snd[<<u, side>>] \in SndDevice
  BY DEF HalState
<1>2. QED
  BY <1>1, SameSelf, DisableSame DEF DisableCurrent
(* What select_devices makes of h: nothing happens, or every slot is moved  *)
(* and a call's volume is sent.                                             *)
Switched(h, u, out, in, n) ==
  /\ Same(h, n)
  /\ n.snd[<<u, "out">>] = out /\ n.snd[<<u, "in">>] = in
  /\ n = h \/ \A s \in Slots : n.snd[s] = Moved(h, u, out, in, s)
  /\ (u = "VOICE_CALL" \/ h.inCall) /\ h.mode = "IN_CALL" /\ Reaches(h)
        /\ Whole(h.tx)
       => n = h \/ Told(n)

LEMMA SwitchDevicesSwitched ==
  ASSUME NEW h \in HalState, NEW u \in Usecases, NEW out \in SndDevice,
         NEW in \in SndDevice, NEW outs
  PROVE  Switched(h, u, out, in, SwitchDevices(h, u, out, in, outs))
<1> DEFINE call   == u = "VOICE_CALL" \/ h.inCall
           routed == IF call THEN RoutingForCall(h, outs) ELSE h
           off1   == DisableCurrent(routed, u, "out")
           off2   == DisableCurrent(off1, u, "in")
           on1    == EnableNew(off2, u, "out", out)
           on2    == EnableNew(on1, u, "in", in)
           done   == IF call THEN UnmuteCall(on2) ELSE on2
           a      == <<u, "out">>
           b      == <<u, "in">>
           half   == [done EXCEPT !.snd[a] = out]
           n      == [half EXCEPT !.snd[b] = in]
<1>1. /\ "out" \in Sides /\ "in" \in Sides /\ a \in Slots /\ b \in Slots /\ a # b
      /\ Same(h, h)
  BY SameSelf DEF Sides, Slots
<1>2. /\ Same(h, routed) /\ routed.snd = h.snd
      /\ call /\ h.mode = "IN_CALL" /\ Reaches(h) /\ Whole(h.tx)
           => Told(routed)
  BY <1>1, RoutingForCallSame, RoutingForCallRoutes DEF SameRoutes
<1> HIDE DEF routed
<1>3. Same(routed, off1) /\ off1.snd = routed.snd
  <2>1. routed \in HalState
    BY <1>2 DEF Same, Rest, Core
  <2>2. QED
    BY <1>1, <2>1, DisableCurrentSame
<1> HIDE DEF off1
<1>4. Same(off1, off2) /\ off2.snd = off1.snd
  <2>1. off1 \in HalState
    BY <1>3 DEF Same, Rest, Core
  <2>2. QED
    BY <1>1, <2>1, DisableCurrentSame
<1> HIDE DEF off2
<1>5. Same(off2, on1) /\ \A s \in Slots : on1.snd[s] = Pulled(off2, u, "out", out, s)
  BY <1>1, <1>4, EnableNewSnd DEF Same, Rest, Core
<1> HIDE DEF on1
<1>6. Same(on1, on2) /\ \A s \in Slots : on2.snd[s] = Pulled(on1, u, "in", in, s)
  BY <1>1, <1>5, EnableNewSnd DEF Same, Rest, Core
<1> HIDE DEF on2
<1>7. Same(on2, done) /\ done.snd = on2.snd
  <2>1. on2 \in HalState
    BY <1>6 DEF Same, Rest, Core
  <2>2. QED
    BY <2>1, SameSelf, UnmuteCallSame, ModemRoutes DEF SameRoutes
<1> HIDE DEF done
<1>8. done \in HalState
  BY <1>7 DEF Same, Rest, Core
<1>9. Same(done, half) /\ half \in HalState /\ half.snd = [done.snd EXCEPT ![a] = out]
  BY <1>1, <1>8, AssignSame, AssignSnd
<1> HIDE DEF half
<1>10. Same(half, n) /\ n.snd = [half.snd EXCEPT ![b] = in]
  BY <1>1, <1>9, AssignSame, AssignSnd
<1> HIDE DEF n
<1>11. Same(routed, n) /\ Same(h, n) /\ Same(h, off2) /\ Same(h, on1)
  BY <1>2, <1>3, <1>4, <1>5, <1>6, <1>7, <1>9, <1>10, SameTrans
<1>12. \A w : Listed(off2, w) = Listed(h, w) /\ Listed(on1, w) = Listed(h, w)
  BY <1>11 DEF Same, Rest, Core, Listed
<1>13. done.snd \in [Slots -> SndDevice]
  BY <1>8 DEF HalState, Slots
<1>14. ASSUME NEW s \in Slots
       PROVE  n.snd[s] = Moved(h, u, out, in, s)
  <2>1. s = <<s[1], s[2]>> /\ s[2] \in {"out", "in"}
    BY DEF Slots, Sides
  <2>2. CASE s[1] = u
    <3>1. s = a \/ s = b
      BY <2>1, <2>2
    <3>2. n.snd[s] = IF s[2] = "out" THEN out ELSE in
      BY <1>1, <1>9, <1>10, <1>13, <3>1
    <3>3. QED
      BY <2>2, <3>2 DEF Moved
  <2>3. CASE s[1] # u
    <3>1. s # a /\ s # b
      BY <2>3
    <3>2. n.snd[s] = on2.snd[s]
      BY <1>7, <1>9, <1>10, <1>13, <3>1
    <3>3. on2.snd[s] = Pulled(on1, u, "in", in, s)
      BY <1>6
    <3>4. on1.snd[s] = Pulled(off2, u, "out", out, s)
      BY <1>5
    <3>5. QED
      BY <1>2, <1>3, <1>4, <1>12, <2>1, <2>3, <3>2, <3>3, <3>4 DEF Pulled, Moved
  <2>4. QED
    BY <2>2, <2>3
<1>15. n.snd[a] = out /\ n.snd[b] = in
  BY <1>1, <1>9, <1>10, <1>13
<1>16. SwitchDevices(h, u, out, in, outs) = IF h.snd[a] = out /\ h.snd[b] = in
                                            THEN h ELSE n
  BY DEF SwitchDevices, n, half, done, on2, on1, off2, off1, routed
<1>17. call /\ h.mode = "IN_CALL" /\ Reaches(h) /\ Whole(h.tx)
         => Told(n)
  BY <1>2, <1>11 DEF Same, Rest, Core
<1> HIDE DEF a, b
<1>18. QED
  BY <1>1, <1>11, <1>14, <1>15, <1>16, <1>17 DEF a, b, Switched

------------------------------------------------------------------------------
(* The slots of the usecases between two steps *)

Holds(list, u) == \E i \in DOMAIN list : list[i] = u

(* What the slots hold: a usecase that is not linked holds no path, a       *)
(* playback has no input, a capture no output, and playbacks share theirs.  *)
Slotted(h) ==
  /\ \A s \in Slots : Listed(h, s[1]) \/ h.snd[s] = NONE
  /\ \A u \in Playbacks : h.snd[<<u, "in">>] = NONE
  /\ h.snd[<<"CAPTURE", "out">>] = NONE
  /\ \A u, w \in h.listed :
       h.snd[<<u, "out">>] # h.snd[<<w, "out">>] =>
         NONE \in {h.snd[<<u, "out">>], h.snd[<<w, "out">>]}

LEMMA SwitchDevicesSlotted ==
  ASSUME NEW h \in HalState, Slotted(h), NEW u \in Usecases, Listed(h, u),
         NEW out \in SndDevice, NEW in \in SndDevice, NEW outs,
         u \in Playbacks => in = NONE, u = "CAPTURE" => out = NONE
  PROVE  Slotted(SwitchDevices(h, u, out, in, outs))
<1> DEFINE n == SwitchDevices(h, u, out, in, outs)
<1>0. Switched(h, u, out, in, n)
  BY SwitchDevicesSwitched
<1> HIDE DEF n
<1>1. /\ Same(h, n)
      /\ n = h \/ \A s \in Slots : n.snd[s] = Moved(h, u, out, in, s)
  BY <1>0 DEF Switched
<1>2. CASE n = h
  BY <1>2 DEF n
<1>3. CASE \A s \in Slots : n.snd[s] = Moved(h, u, out, in, s)
  <2>1. n.listed = h.listed /\ \A w : Listed(n, w) = Listed(h, w)
    BY <1>1 DEF Same, Rest, Core, Listed
  <2>2. ASSUME NEW s \in Slots
        PROVE  Listed(n, s[1]) \/ n.snd[s] = NONE
    BY <1>3, <2>1 DEF Moved, Slotted
  <2>3. ASSUME NEW w \in Playbacks
        PROVE  n.snd[<<w, "in">>] = NONE
    <3>1. <<w, "in">> \in Slots /\ w # "CAPTURE"
      BY DEF Slots, Usecases, Sides, Playbacks
    <3>2. QED
      BY <1>3, <3>1 DEF Moved, Slotted, Backend
  <2>4. n.snd[<<"CAPTURE", "out">>] = NONE
    <3>1. <<"CAPTURE", "out">> \in Slots /\ "CAPTURE" \notin Playbacks
      BY DEF Slots, Usecases, Sides, Playbacks
    <3>2. QED
      BY <1>3, <3>1 DEF Moved, Slotted, Backend
  <2>5. ASSUME NEW w \in h.listed
        PROVE  n.snd[<<w, "out">>] = IF w = u \/ out # NONE THEN out
                                     ELSE h.snd[<<w, "out">>]
    <3>1. <<w, "out">> \in Slots /\ w \in Playbacks /\ Listed(h, w)
      BY DEF Slots, Usecases, Sides, HalState, Listed
    <3>2. QED
      BY <1>3, <3>1 DEF Moved, Backend
  <2>6. ASSUME NEW v \in n.listed, NEW w \in n.listed,
               n.snd[<<v, "out">>] # n.snd[<<w, "out">>]
        PROVE  NONE \in {n.snd[<<v, "out">>], n.snd[<<w, "out">>]}
    <3>1. h.snd[<<v, "out">>] # h.snd[<<w, "out">>] =>
            NONE \in {h.snd[<<v, "out">>], h.snd[<<w, "out">>]}
      BY <2>1 DEF Slotted
    <3>2. QED
      BY <2>1, <2>5, <2>6, <3>1
  <2>7. Slotted(n)
    BY <2>2, <2>3, <2>4, <2>6 DEF Slotted
  <2>8. QED
    BY <2>7 DEF n
<1>4. QED
  BY <1>1, <1>2, <1>3

LEMMA SelectVoiceCallSlotted ==
  ASSUME NEW h \in HalState, Slotted(h), NEW g, Holds(h.tx, "VOICE_CALL")
  PROVE  LET n == SelectVoiceCall(h, g) IN Same(h, n) /\ Slotted(n)
<1>1. /\ "VOICE_CALL" \in Usecases /\ "VOICE_CALL" \notin Playbacks
      /\ Listed(h, "VOICE_CALL")
  BY DEF Usecases, Playbacks, Listed, Holds
<1>2. QED
  BY <1>1, SwitchDevicesSwitched, SwitchDevicesSlotted, OutputDeviceType, InputDeviceType
     DEF SelectVoiceCall, Switched

LEMMA SelectCaptureSlotted ==
  ASSUME NEW h \in HalState, Slotted(h), NEW g, Holds(h.tx, "CAPTURE")
  PROVE  LET n == SelectCapture(h, g) IN Same(h, n) /\ Slotted(n)
<1>1. /\ "CAPTURE" \in Usecases /\ "CAPTURE" \notin Playbacks
      /\ Listed(h, "CAPTURE") /\ NONE \in SndDevice /\ "in" \in Sides
  BY DEF Usecases, Playbacks, Listed, Holds, SndDevice, Sides
<1> DEFINE voip == /\ ActiveInput(h, g).source = "VOICE_COMMUNICATION"
                   /\ h.out["primary"].state = "ACTIVE"
           in   == IF CallDevice(h, "in") # NONE THEN CallDevice(h, "in")
                   ELSE InputDevice(h, g, IF voip THEN h.out["primary"].devices ELSE {})
<1>2. in \in SndDevice
  BY <1>1, CallDeviceType, InputDeviceType
<1>3. SelectCapture(h, g) = SwitchDevices(h, "CAPTURE", NONE, in, g.outs)
  BY DEF SelectCapture
<1> HIDE DEF in
<1> DEFINE n == SwitchDevices(h, "CAPTURE", NONE, in, g.outs)
<1>4. Switched(h, "CAPTURE", NONE, in, n)
  BY <1>1, <1>2, SwitchDevicesSwitched
<1>5. Slotted(n)
  BY <1>1, <1>2, SwitchDevicesSlotted
<1> HIDE DEF n
<1>6. QED
  BY <1>3, <1>4, <1>5 DEF n, Switched

(* Only a capture has the source that nests a selection: the garbage that a *)
(* call's stream is read as never does, and what is left of a freed capture *)
(* does only while the capture is linked.                                   *)
Fits(h, g) == g.source = "VOICE_COMMUNICATION" => Holds(h.tx, "CAPTURE")

LEMMA SelectPlaybackSlotted ==
  ASSUME NEW h \in HalState, Slotted(h), NEW s \in Outs, UsecaseOf(s) \in h.listed,
         NEW g, Fits(h, g)
  PROVE  LET n == SelectPlayback(h, s, g) IN Same(h, n) /\ Slotted(n)
<1> DEFINE outs == h.out[s].devices
           own  == CallDevice(h, "out") = NONE
           voip == /\ own /\ s = "primary" /\ h.tx # <<>>
                   /\ ActiveInput(h, g).source = "VOICE_COMMUNICATION"
           h1   == IF voip THEN SelectCapture(h, g) ELSE h
           out  == IF own THEN OutputDevice(h, outs) ELSE CallDevice(h, "out")
<1>1. /\ UsecaseOf(s) \in Usecases /\ UsecaseOf(s) # "CAPTURE"
      /\ NONE \in SndDevice /\ "out" \in Sides
  BY DEF UsecaseOf, Usecases, Playbacks, SndDevice, Sides
<1>2. voip => Holds(h.tx, "CAPTURE")
  <2>1. SUFFICES ASSUME voip PROVE Holds(h.tx, "CAPTURE")
    OBVIOUS
  <2>2. h.tx[1] = "CAPTURE" \/ Holds(h.tx, "CAPTURE")
    BY <2>1 DEF ActiveInput, Fits
  <2>3. h.tx \in Seq({"CAPTURE", "VOICE_CALL"}) /\ h.tx # <<>>
    BY <2>1 DEF HalState
  <2>4. 1 \in DOMAIN h.tx
    BY <2>3
  <2>5. QED
    BY <2>2, <2>4 DEF Holds
<1>3. Same(h, h1) /\ Slotted(h1)
  BY <1>2, SelectCaptureSlotted, SameSelf
<1> HIDE DEF voip, h1
<1>4. h1 \in HalState /\ Listed(h1, UsecaseOf(s))
  BY <1>3 DEF Same, Rest, Core, Listed
<1>5. out \in SndDevice
  BY <1>1, CallDeviceType, OutputDeviceType
<1>6. SelectPlayback(h, s, g) = SwitchDevices(h1, UsecaseOf(s), out, NONE, outs)
  BY DEF SelectPlayback, h1, voip
<1> HIDE DEF out, outs
<1> DEFINE n == SwitchDevices(h1, UsecaseOf(s), out, NONE, outs)
<1>7. Switched(h1, UsecaseOf(s), out, NONE, n)
  BY <1>1, <1>4, <1>5, SwitchDevicesSwitched
<1>8. Slotted(n)
  BY <1>1, <1>3, <1>4, <1>5, SwitchDevicesSlotted
<1> HIDE DEF n
<1>9. Same(h1, n)
  BY <1>7 DEF Switched
<1>10. Same(h, n)
  BY <1>3, <1>9, SameTrans
<1>11. QED
  BY <1>6, <1>8, <1>10 DEF n

------------------------------------------------------------------------------
(* The list of captures and calls *)

(* list_remove takes out one entry of u and moves the later ones up. *)
LEMMA UnlinkEntries ==
  ASSUME NEW T, NEW list \in Seq(T), NEW u, Holds(list, u)
  PROVE  \E e \in DOMAIN list :
           /\ list[e] = u
           /\ DOMAIN Unlink(list, u) = 1..(Len(list) - 1)
           /\ \A i \in 1..(Len(list) - 1) :
                Unlink(list, u)[i] = IF i < e THEN list[i] ELSE list[i + 1]
<1> DEFINE I == {i \in DOMAIN list : list[i] = u}
           First(i) == /\ i \in DOMAIN list /\ list[i] = u
                       /\ \A j \in DOMAIN list : j < i => list[j] # u
           e == CHOOSE i \in DOMAIN list :
                  list[i] = u /\ \A j \in DOMAIN list : j < i => list[j] # u
           a == SubSeq(list, 1, e - 1)
           b == SubSeq(list, e + 1, Len(list))
<1>1. DOMAIN list = 1..Len(list) /\ Len(list) \in Nat
  BY LenProperties
<1>2. I # {} /\ I \subseteq Nat
  BY <1>1 DEF Holds
<1>3. PICK i \in I : \A j \in I : ~(<<j, i>> \in OpToRel(<, Nat))
  BY <1>2, WFMin, NatLessThanWellFounded
<1>4. First(i)
  BY <1>1, <1>2, <1>3 DEF OpToRel
<1>5. e \in 1..Len(list) /\ list[e] = u
  BY <1>1, <1>4
<1> HIDE DEF e
<1>6. /\ a \in Seq(T) /\ Len(a) = e - 1
      /\ \A k \in 1..(e - 1) : a[k] = list[k]
  BY <1>1, <1>5, SubSeqProperties
<1>7. /\ b \in Seq(T) /\ Len(b) = Len(list) - e
      /\ \A k \in 1..(Len(list) - e) : b[k] = list[e + k]
  <2> DEFINE m == e + 1
             n == Len(list)
  <2>1. n \in Nat /\ e \in 1..n /\ \A k \in m..n : list[k] \in T
    BY <1>1, <1>5
  <2> HIDE DEF n
  <2>2. /\ m \in Int /\ n \in Int /\ e \in Int /\ n - m + 1 = n - e
        /\ \A k \in Int : m + k - 1 = e + k
    BY <2>1
  <2>3. n - e = IF m <= n THEN n - m + 1 ELSE 0
    BY <2>1
  <2> HIDE DEF m
  <2>4. /\ SubSeq(list, m, n) \in Seq(T)
        /\ Len(SubSeq(list, m, n)) = n - e
    BY <2>1, <2>2, <2>3, SubSeqProperties
  <2>5. \A k \in 1..(n - m + 1) : SubSeq(list, m, n)[k] = list[m + k - 1]
    BY <2>1, <2>2, SubSeqProperties
  <2>6. ASSUME NEW k \in 1..(n - e)
        PROVE  SubSeq(list, m, n)[k] = list[e + k]
    <3>1. k \in 1..(n - m + 1) /\ m + k - 1 = e + k
      BY <2>2
    <3>2. QED
      BY <2>5, <3>1
  <2>7. QED
    BY <2>4, <2>6 DEF m, n
<1> HIDE DEF a, b
<1>8. /\ Len(a \o b) = Len(list) - 1
      /\ a \o b \in Seq(T)
      /\ \A k \in 1..(Len(list) - 1) :
           (a \o b)[k] = IF k < e THEN list[k] ELSE list[k + 1]
  <2>1. /\ a \o b \in Seq(T) /\ Len(a \o b) = Len(a) + Len(b)
        /\ \A k \in 1..(Len(a) + Len(b)) :
             (a \o b)[k] = IF k <= Len(a) THEN a[k] ELSE b[k - Len(a)]
    BY <1>6, <1>7, ConcatProperties
  <2>2. ASSUME NEW k \in 1..(Len(list) - 1)
        PROVE  (a \o b)[k] = IF k < e THEN list[k] ELSE list[k + 1]
    <3>1. CASE k < e
      BY <1>1, <1>5, <1>6, <1>7, <2>1, <3>1
    <3>2. CASE ~(k < e)
      <4> DEFINE at == k - (e - 1)
      <4>1. at \in 1..(Len(list) - e) /\ e + at = k + 1
        BY <1>1, <1>5, <3>2
      <4>2. (a \o b)[k] = b[at]
        <5>1. k \in 1..(Len(a) + Len(b)) /\ ~(k <= Len(a)) /\ k - Len(a) = at
          BY <1>1, <1>5, <1>6, <1>7, <3>2
        <5>2. QED
          BY <2>1, <5>1
      <4> HIDE DEF at
      <4>3. b[at] = list[e + at]
        BY <1>7, <4>1
      <4>4. QED
        BY <3>2, <4>1, <4>2, <4>3
    <3>3. QED
      BY <3>1, <3>2
  <2>3. Len(a) + Len(b) = Len(list) - 1
    BY <1>1, <1>5, <1>6, <1>7
  <2>4. QED
    BY <2>1, <2>2, <2>3
<1>9. Unlink(list, u) = a \o b
  BY DEF Unlink, a, b, e
<1>10. DOMAIN (a \o b) = 1..(Len(list) - 1)
  BY <1>8, LenProperties
<1> DEFINE n == a \o b
           last == Len(list) - 1
<1>11. e \in DOMAIN list /\ list[e] = u
  BY <1>1, <1>5
<1>12. DOMAIN n = 1..last
  BY <1>10, Zenon
<1>13. \A k \in 1..last : n[k] = IF k < e THEN list[k] ELSE list[k + 1]
  BY <1>8, Zenon
<1> HIDE DEF n, last
<1>14. QED
  BY <1>9, <1>11, <1>12, <1>13, Zenon DEF n, last

LEMMA UnlinkKeeps ==
  ASSUME NEW T, NEW list \in Seq(T), NEW u, Holds(list, u)
  PROVE  LET n == Unlink(list, u)
         IN  /\ \A v : v # u => (Holds(n, v) <=> Holds(list, v))
             /\ \A v : Once(list, v) => Once(n, v)
             /\ Once(list, u) => ~Holds(n, u)
<1>1. PICK e \in DOMAIN list :
        /\ list[e] = u
        /\ DOMAIN Unlink(list, u) = 1..(Len(list) - 1)
        /\ \A i \in 1..(Len(list) - 1) :
             Unlink(list, u)[i] = IF i < e THEN list[i] ELSE list[i + 1]
  BY UnlinkEntries
<1>2. DOMAIN list = 1..Len(list) /\ Len(list) \in Nat
  BY LenProperties
<1> DEFINE n == Unlink(list, u)
           Old(i) == IF i < e THEN i ELSE i + 1
<1>3. ASSUME NEW i \in DOMAIN n
      PROVE  Old(i) \in DOMAIN list /\ n[i] = list[Old(i)] /\ Old(i) # e
  BY <1>1, <1>2
<1>4. ASSUME NEW j \in DOMAIN list, j # e
      PROVE  \E i \in DOMAIN n : Old(i) = j
  <2>1. CASE j < e
    <3>1. j \in DOMAIN n /\ Old(j) = j
      BY <1>1, <1>2, <2>1
    <3>2. QED
      BY <3>1
  <2>2. CASE j > e
    <3>1. j - 1 \in DOMAIN n /\ Old(j - 1) = j
      BY <1>1, <1>2, <2>2
    <3>2. QED
      BY <3>1
  <2>3. QED
    BY <1>2, <1>4, <2>1, <2>2
<1>5. ASSUME NEW i \in DOMAIN n, NEW j \in DOMAIN n, Old(i) = Old(j)
      PROVE  i = j
  BY <1>1, <1>2, <1>5
<1> HIDE DEF n, Old
<1>6. \A v : v # u => (Holds(n, v) <=> Holds(list, v))
  BY <1>1, <1>3, <1>4 DEF Holds
<1>7. \A v : Once(list, v) => Once(n, v)
  BY <1>3, <1>5 DEF Once
<1>8. Once(list, u) => ~Holds(n, u)
  BY <1>1, <1>3 DEF Once, Holds
<1>9. QED
  BY <1>6, <1>7, <1>8 DEF n

LEMMA LinkKeeps ==
  ASSUME NEW T, NEW list \in Seq(T), NEW u
  PROVE  LET n == Append(list, u)
         IN  /\ \A v : Holds(n, v) <=> (v = u \/ Holds(list, v))
             /\ \A v : v # u /\ Once(list, v) => Once(n, v)
             /\ ~Holds(list, u) => Once(n, u)
<1> DEFINE n == Append(list, u)
<1>1. DOMAIN list = 1..Len(list) /\ Len(list) \in Nat
  BY LenProperties
<1>2. /\ DOMAIN n = 1..(Len(list) + 1) /\ n[Len(list) + 1] = u
      /\ \A i \in DOMAIN list : n[i] = list[i]
  BY <1>1
<1>3. DOMAIN n = DOMAIN list \cup {Len(list) + 1} /\ Len(list) + 1 \notin DOMAIN list
  BY <1>1, <1>2
<1> HIDE DEF n
<1>4. QED
  BY <1>2, <1>3 DEF Holds, Once, n

------------------------------------------------------------------------------
(* Starting and stopping usecases *)

LEMMA ListRest ==
  ASSUME NEW h \in HalState, NEW x \in SUBSET Playbacks
  PROVE  LET n == [h EXCEPT !.listed = x]
         IN  /\ Rest(h, n) /\ n.listed = x /\ n.tx = h.tx /\ n.snd = h.snd
             /\ n.up = h.up
<1>1. [h EXCEPT !.listed = x] \in HalState
  BY ZenonT(60) DEF HalState
<1>2. QED
  BY <1>1, ZenonT(60) DEF Rest, Core, HalState, Told

LEMMA TxRest ==
  ASSUME NEW h \in HalState, NEW x \in Seq({"CAPTURE", "VOICE_CALL"})
  PROVE  LET n == [h EXCEPT !.tx = x]
         IN  /\ Rest(h, n) /\ n.listed = h.listed /\ n.tx = x /\ n.snd = h.snd
             /\ n.up = h.up
<1>1. [h EXCEPT !.tx = x] \in HalState
  BY ZenonT(60) DEF HalState
<1>2. QED
  BY <1>1, ZenonT(60) DEF Rest, Core, HalState, Told

(* The path of a slot is given up. *)
LEMMA ReleaseSame ==
  ASSUME NEW h \in HalState, NEW u, NEW s \in Slots
  PROVE  LET n == [DisableSndDevice(h, u, h.snd[s]) EXCEPT !.snd[s] = NONE]
         IN  Same(h, n) /\ n.snd = [h.snd EXCEPT ![s] = NONE]
<1> DEFINE m == DisableSndDevice(h, u, h.snd[s])
           n == [m EXCEPT !.snd[s] = NONE]
<1>1. h.snd[s] \in SndDevice /\ NONE \in SndDevice
  BY DEF HalState, Slots, SndDevice
<1>2. Same(h, m) /\ m \in HalState /\ m.snd = h.snd
  BY <1>1, DisableSame
<1> HIDE DEF m
<1>3. Same(m, n)
  BY <1>1, <1>2, AssignSame
<1>4. n.snd = [m.snd EXCEPT ![s] = NONE]
  BY <1>1, <1>2, AssignSnd
<1> HIDE DEF n
<1>5. Same(h, n)
  BY <1>2, <1>3, SameTrans
<1>6. n.snd = [h.snd EXCEPT ![s] = NONE]
  BY <1>2, <1>4
<1>7. QED
  BY <1>5, <1>6 DEF n, m

(* A step that only empties slots, and those of a usecase it takes out. *)
LEMMA SlottedKept ==
  ASSUME NEW h \in HalState, Slotted(h), NEW n, n.listed \subseteq Playbacks,
         \A x \in Slots : /\ n.snd[x] \in {h.snd[x], NONE}
                          /\ Listed(h, x[1]) => Listed(n, x[1]) \/ n.snd[x] = NONE
  PROVE  Slotted(n)
<1>1. \A w \in Playbacks : <<w, "in">> \in Slots /\ <<w, "out">> \in Slots
  BY DEF Slots, Usecases, Sides
<1>2. <<"CAPTURE", "out">> \in Slots /\ "CAPTURE" \notin Playbacks
  BY DEF Slots, Usecases, Sides, Playbacks
<1>3. \A x \in Slots : Listed(n, x[1]) \/ n.snd[x] = NONE
  BY DEF Slotted
<1>4. ASSUME NEW w \in Playbacks
      PROVE  n.snd[<<w, "in">>] = NONE
  <2>1. h.snd[<<w, "in">>] = NONE
    BY DEF Slotted
  <2>2. n.snd[<<w, "in">>] \in {h.snd[<<w, "in">>], NONE}
    BY <1>1
  <2>3. QED
    BY <2>1, <2>2
<1>5. n.snd[<<"CAPTURE", "out">>] = NONE
  BY <1>2 DEF Slotted
<1>6. ASSUME NEW w \in Playbacks
      PROVE  w \in h.listed \/ n.snd[<<w, "out">>] = NONE
  <2>1. Listed(h, w) => w \in h.listed
    BY DEF Listed, HalState, Playbacks
  <2>2. Listed(h, w) \/ h.snd[<<w, "out">>] = NONE
    BY <1>1 DEF Slotted
  <2>3. QED
    BY <1>1, <2>1, <2>2
<1>7. ASSUME NEW v \in n.listed, NEW w \in n.listed,
             n.snd[<<v, "out">>] # n.snd[<<w, "out">>]
      PROVE  NONE \in {n.snd[<<v, "out">>], n.snd[<<w, "out">>]}
  <2>1. SUFFICES ASSUME n.snd[<<v, "out">>] # NONE, n.snd[<<w, "out">>] # NONE
                 PROVE  FALSE
    OBVIOUS
  <2>2. /\ v \in h.listed /\ n.snd[<<v, "out">>] = h.snd[<<v, "out">>]
        /\ w \in h.listed /\ n.snd[<<w, "out">>] = h.snd[<<w, "out">>]
    BY <1>1, <1>6, <2>1
  <2>3. QED
    BY <1>7, <2>1, <2>2 DEF Slotted
<1>8. QED
  BY <1>3, <1>4, <1>5, <1>7 DEF Slotted

(* disable_output_path_l takes the playback out of the list. *)
LEMMA StopOutputRest ==
  ASSUME NEW h, Sound(h), Slotted(h), NEW s \in Outs
  PROVE  LET n == StopOutput(h, s)
         IN  /\ Rest(h, n) /\ Slotted(n)
             /\ n.tx = h.tx /\ n.listed = h.listed \ {UsecaseOf(s)}
             /\ \A t \in Slots : n.snd[t] = h.snd[t] \/ t[1] = UsecaseOf(s)
             /\ Whole(h.tx) => n.up = h.up
<1> DEFINE u == UsecaseOf(s)
           n == StopOutput(h, s)
           t == <<u, "out">>
<1>1. /\ h \in HalState /\ h.tx \in Seq({"CAPTURE", "VOICE_CALL"})
      /\ h.listed \in SUBSET Playbacks /\ h.snd \in [Slots -> SndDevice]
      /\ NONE \in SndDevice
  BY DEF Sound, HalState, Slots, SndDevice
<1>2. /\ u \in Playbacks /\ t \in Slots /\ n \in HalState
      /\ Listed(h, u) <=> u \in h.listed
  BY <1>1, StopOutputSound DEF Sound, UsecaseOf, Playbacks, Slots, Usecases, Sides, Listed
<1>3. CASE ~Listed(h, u)
  BY <1>1, <1>2, <1>3, SameSelf DEF StopOutput, Same
<1>4. CASE Listed(h, u)
  <2> DEFINE m == [DisableSndDevice(h, u, h.snd[t]) EXCEPT !.snd[t] = NONE]
  <2>1. Same(h, m) /\ m.snd = [h.snd EXCEPT ![t] = NONE]
    BY <1>1, <1>2, ReleaseSame
  <2>2. n = [m EXCEPT !.listed = @ \ {u}]
    BY <1>4 DEF StopOutput
  <2> HIDE DEF m, n, u
  <2>3. /\ Rest(h, n) /\ n.listed = h.listed \ {u} /\ n.tx = h.tx
        /\ n.snd = [h.snd EXCEPT ![t] = NONE]
        /\ Whole(h.tx) => n.up = h.up
    <3>1. m \in HalState /\ m.listed = h.listed /\ h.listed \ {u} \in SUBSET Playbacks
      BY <1>1, <2>1 DEF Same, Rest, Core
    <3>2. /\ Rest(m, n) /\ n.listed = h.listed \ {u} /\ n.tx = m.tx
          /\ n.snd = m.snd /\ n.up = m.up
      BY <2>2, <3>1, ListRest
    <3>3. QED
      BY <2>1, <3>2 DEF Same, Rest, Core
  <2>4. \A x \in Slots : n.snd[x] = IF x = t THEN NONE ELSE h.snd[x]
    BY <1>1, <2>3
  <2>5. Slotted(n)
    <3>1. ASSUME NEW x \in Slots
          PROVE  /\ n.snd[x] \in {h.snd[x], NONE}
                 /\ Listed(h, x[1]) => Listed(n, x[1]) \/ n.snd[x] = NONE
      <4>1. x[1] = u => x = t \/ x = <<u, "in">>
        BY DEF Slots, Sides
      <4>2. h.snd[<<u, "in">>] = NONE
        BY <1>2 DEF Slotted
      <4>3. x[1] # u => (Listed(n, x[1]) <=> Listed(h, x[1]))
        BY <2>3 DEF Listed
      <4>4. QED
        BY <2>4, <4>1, <4>2, <4>3
    <3>2. QED
      BY <1>1, <2>3, <3>1, SlottedKept
  <2>6. QED
    BY <2>3, <2>4, <2>5 DEF n, u
<1>5. QED
  BY <1>3, <1>4

(* stop_input_stream takes the first capture out of the list. *)
LEMMA StopInputRest ==
  ASSUME NEW h, Sound(h), Slotted(h)
  PROVE  LET n == StopInput(h)
         IN  /\ Rest(h, n) /\ Slotted(n) /\ n.listed = h.listed
             /\ Once(h.tx, "CAPTURE") =>
                  ~Holds(n.tx, "CAPTURE") /\ Once(n.tx, "CAPTURE")
             /\ Holds(n.tx, "VOICE_CALL") <=> Holds(h.tx, "VOICE_CALL")
             /\ Whole(h.tx) => n.up = h.up /\ Whole(n.tx)
             /\ Holds(h.tx, "CAPTURE") => n.tx = Unlink(h.tx, "CAPTURE")
             /\ \A x \in Slots : n.snd[x] = h.snd[x] \/ x[1] = "CAPTURE"
<1> DEFINE n == StopInput(h)
           t == <<"CAPTURE", "in">>
           T == {"CAPTURE", "VOICE_CALL"}
<1>1. /\ h \in HalState /\ h.tx \in Seq(T) /\ t \in Slots
      /\ h.listed \in SUBSET Playbacks /\ h.snd \in [Slots -> SndDevice]
  BY DEF Sound, HalState, Slots, Usecases, Sides
<1>2. Listed(h, "CAPTURE") <=> Holds(h.tx, "CAPTURE")
  BY <1>1 DEF Listed, Holds, Playbacks
<1>3. CASE ~Listed(h, "CAPTURE")
  BY <1>1, <1>2, <1>3, SameSelf DEF StopInput, Same
<1>4. CASE Listed(h, "CAPTURE")
  <2> DEFINE m == [DisableSndDevice(h, "CAPTURE", h.snd[t]) EXCEPT !.snd[t] = NONE]
             l == Unlink(h.tx, "CAPTURE")
  <2>1. Same(h, m) /\ m.snd = [h.snd EXCEPT ![t] = NONE]
    BY <1>1, ReleaseSame
  <2>2. DisableSndDevice(h, "CAPTURE", h.snd[t]).tx = h.tx
    BY DEF DisableSndDevice, Crash
  <2>3. n = [m EXCEPT !.tx = l]
    BY <1>4, <2>2 DEF StopInput
  <2> HIDE DEF m, n
  <2>4. /\ l \in Seq(T)
        /\ Once(h.tx, "CAPTURE") => ~Holds(l, "CAPTURE") /\ Once(l, "CAPTURE")
        /\ Holds(l, "VOICE_CALL") <=> Holds(h.tx, "VOICE_CALL")
        /\ Whole(h.tx) => Whole(l)
    BY <1>1, <1>2, <1>4, UnlinkSound, UnlinkKeeps DEF Whole
  <2> HIDE DEF l
  <2>5. m \in HalState
    BY <2>1 DEF Same, Rest, Core
  <2>6. /\ Rest(m, n) /\ n.listed = m.listed /\ n.tx = l
        /\ n.snd = m.snd /\ n.up = m.up
    BY <2>3, <2>4, <2>5, TxRest
  <2>7. /\ Rest(h, n) /\ n.listed = h.listed
        /\ n.snd = [h.snd EXCEPT ![t] = NONE]
        /\ Whole(h.tx) => n.up = h.up
    BY <2>1, <2>6 DEF Same, Rest, Core
  <2>8. \A x \in Slots : n.snd[x] = IF x = t THEN NONE ELSE h.snd[x]
    BY <1>1, <2>7
  <2>9. Slotted(n)
    <3>1. ASSUME NEW x \in Slots
          PROVE  /\ n.snd[x] \in {h.snd[x], NONE}
                 /\ Listed(h, x[1]) => Listed(n, x[1]) \/ n.snd[x] = NONE
      <4>1. x[1] = "CAPTURE" => x = t \/ x = <<"CAPTURE", "out">>
        BY DEF Slots, Sides
      <4>2. h.snd[<<"CAPTURE", "out">>] = NONE
        BY DEF Slotted
      <4>3. x[1] \in Playbacks \cup {"CAPTURE", "VOICE_CALL"}
        BY DEF Slots, Usecases
      <4>4. x[1] # "CAPTURE" /\ Listed(h, x[1]) => Listed(n, x[1])
        BY <1>1, <2>4, <2>6, <2>7, <4>3 DEF Listed, Holds, Playbacks
      <4>5. QED
        BY <2>8, <4>1, <4>2, <4>4
    <3>2. QED
      BY <1>1, <2>7, <3>1, SlottedKept
  <2>10. \A x \in Slots : n.snd[x] = h.snd[x] \/ x[1] = "CAPTURE"
    BY <2>8
  <2>11. QED
    BY <2>4, <2>6, <2>7, <2>9, <2>10 DEF n, l
<1>5. QED
  BY <1>3, <1>4

(* A playback is linked, holding no path yet. *)
LEMMA LinkOutputRest ==
  ASSUME NEW h, Sound(h), Slotted(h), NEW s \in Outs
  PROVE  LET n == [h EXCEPT !.listed = @ \cup {UsecaseOf(s)}]
         IN  /\ Rest(h, n) /\ Slotted(n) /\ n.tx = h.tx /\ n.snd = h.snd
             /\ n.listed = h.listed \cup {UsecaseOf(s)} /\ n.up = h.up
<1> DEFINE x == h.listed \cup {UsecaseOf(s)}
           n == [h EXCEPT !.listed = x]
<1>1. h \in HalState /\ x \in SUBSET Playbacks
  BY DEF Sound, HalState, UsecaseOf, Playbacks
<1>2. Rest(h, n) /\ n.listed = x /\ n.tx = h.tx /\ n.snd = h.snd /\ n.up = h.up
  BY <1>1, ListRest
<1> HIDE DEF n
<1>3. \A w : Listed(h, w) => Listed(n, w)
  BY <1>2 DEF Listed
<1>4. Slotted(n)
  BY <1>1, <1>2, <1>3, SlottedKept
<1>5. QED
  BY <1>2, <1>4 DEF n

(* start_output_stream: the playback is in the list exactly when its PCM    *)
(* opened.                                                                  *)
LEMMA StartOutputCore ==
  ASSUME NEW h, Sound(h), Slotted(h), NEW s \in Outs, NEW g, Fits(h, g),
         NEW opened \in BOOLEAN
  PROVE  LET n == StartOutput(h, s, g, opened)
         IN  /\ Core(h, n) /\ Slotted(n) /\ n.tx = h.tx /\ n.in = h.in
             /\ opened => /\ n.out = [h.out EXCEPT ![s].state = "ACTIVE"]
                          /\ n.listed = h.listed \cup {UsecaseOf(s)}
             /\ ~opened => /\ n.out = h.out
                           /\ n.listed = h.listed \ {UsecaseOf(s)}
             /\ Whole(h.tx) => n.up = h.up
<1> DEFINE linked == [h EXCEPT !.listed = @ \cup {UsecaseOf(s)}]
           on == SelectPlayback(linked, s, g)
           a  == [on EXCEPT !.out[s].state = "ACTIVE"]
           b  == StopOutput(on, s)
<1>1. /\ Rest(h, linked) /\ Slotted(linked) /\ linked.tx = h.tx
      /\ linked.listed = h.listed \cup {UsecaseOf(s)} /\ linked.up = h.up
  BY LinkOutputRest
<1>2. Sound(linked)
  <2>1. h.listed \cup {UsecaseOf(s)} \in SUBSET Playbacks
    BY DEF Sound, HalState, UsecaseOf, Playbacks
  <2>2. QED
    BY <2>1, SoundFields
<1> HIDE DEF linked
<1>3. linked \in HalState /\ UsecaseOf(s) \in linked.listed /\ Fits(linked, g)
  BY <1>1 DEF Rest, Core, Fits
<1>4. Same(linked, on) /\ Slotted(on)
  BY <1>1, <1>3, SelectPlaybackSlotted
<1>5. Sound(on)
  BY <1>2, SelectPlaybackSound
<1> HIDE DEF on
<1>6. /\ Rest(h, on) /\ on.listed = linked.listed /\ on.tx = h.tx
      /\ Whole(h.tx) => on.up = h.up
  BY <1>1, <1>4 DEF Same, Rest, Core
<1>7. ASSUME opened
      PROVE  /\ Core(h, a) /\ Slotted(a) /\ a.tx = h.tx /\ a.in = h.in
             /\ a.out = [h.out EXCEPT ![s].state = "ACTIVE"]
             /\ a.listed = linked.listed
             /\ Whole(h.tx) => a.up = h.up
  <2> DEFINE x == [on.out EXCEPT ![s].state = "ACTIVE"]
             z == [on EXCEPT !.out = x]
  <2>1. on.out \in [Outs -> OutStream]
    BY <1>5 DEF Sound, HalState
  <2>2. x \in [Outs -> OutStream] /\ x["primary"].devices = on.out["primary"].devices
    BY <2>1 DEF OutStream, StreamStates, Outs
  <2> HIDE DEF x
  <2>3. z \in HalState
    BY <1>5, <2>2, SoundFields DEF Sound
  <2>4. Core(on, z) /\ z.in = on.in /\ z.out = x
        /\ z.listed = on.listed /\ z.tx = on.tx /\ z.snd = on.snd /\ z.up = on.up
    BY <2>2, <2>3, <1>5, ZenonT(60) DEF Core, Sound, HalState, Told
  <2>5. a = z
    BY DEF x
  <2> HIDE DEF z
  <2>6. Slotted(z)
    BY <1>4, <2>4 DEF Slotted, Listed
  <2>7. Core(h, z)
    BY <1>6, <2>4 DEF Rest, Core
  <2>8. x = [h.out EXCEPT ![s].state = "ACTIVE"] /\ on.in = h.in
    BY <1>6 DEF Rest, x
  <2>9. QED
    BY <1>6, <2>4, <2>5, <2>6, <2>7, <2>8
<1>8. /\ Rest(on, b) /\ Slotted(b) /\ b.tx = on.tx
      /\ b.listed = on.listed \ {UsecaseOf(s)}
      /\ Whole(on.tx) => b.up = on.up
  BY <1>4, <1>5, StopOutputRest
<1>9. StartOutput(h, s, g, opened) = IF opened THEN a ELSE b
  BY DEF StartOutput, on, linked
<1> HIDE DEF a, b
<1>10. CASE opened
  BY <1>1, <1>7, <1>9, <1>10
<1>11. CASE ~opened
  <2>1. /\ Core(h, b) /\ b.in = h.in /\ b.out = h.out
    BY <1>6, <1>8 DEF Rest, Core
  <2>2. b.listed = h.listed \ {UsecaseOf(s)}
    BY <1>1, <1>6, <1>8
  <2>3. QED
    BY <1>6, <1>8, <1>9, <1>11, <2>1, <2>2
<1>12. QED
  BY <1>10, <1>11

LEMMA StandbyOutputCore ==
  ASSUME NEW h, Sound(h), Slotted(h), NEW s \in Outs
  PROVE  LET n == StandbyOutput(h, s)
         IN  /\ Core(h, n) /\ Slotted(n) /\ n.tx = h.tx /\ n.in = h.in
             /\ n.out = [h.out EXCEPT ![s].state = "STANDBY"]
             /\ n.listed = h.listed \ {UsecaseOf(s)}
             /\ \A t \in Slots : n.snd[t] = h.snd[t] \/ t[1] = UsecaseOf(s)
             /\ Whole(h.tx) => n.up = h.up
<1> DEFINE x == [h.out EXCEPT ![s].state = "STANDBY"]
           z == [h EXCEPT !.out = x]
           n == StopOutput(z, s)
<1>1. h.out \in [Outs -> OutStream]
  BY DEF Sound, HalState
<1>2. x \in [Outs -> OutStream] /\ x["primary"].devices = h.out["primary"].devices
  BY <1>1 DEF OutStream, StreamStates, Outs
<1>3. StandbyOutput(h, s) = n
  BY DEF StandbyOutput
<1> HIDE DEF x
<1>4. Sound(z)
  BY <1>2, SoundFields
<1>5. Core(h, z) /\ z.in = h.in /\ z.out = x
      /\ z.listed = h.listed /\ z.tx = h.tx /\ z.snd = h.snd /\ z.up = h.up
  BY <1>2, <1>4, ZenonT(60) DEF Core, Sound, HalState, Told
<1> HIDE DEF z
<1>6. Slotted(z)
  BY <1>5 DEF Slotted, Listed
<1>7. /\ Rest(z, n) /\ Slotted(n) /\ n.tx = z.tx
      /\ n.listed = z.listed \ {UsecaseOf(s)}
      /\ \A t \in Slots : n.snd[t] = z.snd[t] \/ t[1] = UsecaseOf(s)
      /\ Whole(z.tx) => n.up = z.up
  BY <1>4, <1>6, StopOutputRest
<1> HIDE DEF n
<1>8. Core(h, n) /\ n.in = h.in /\ n.out = x
  BY <1>5, <1>7 DEF Rest, Core
<1>9. QED
  BY <1>3, <1>5, <1>7, <1>8 DEF x

(* n is h after a start of its capture, which was not linked.               *)
Captures(h, n, opened, created) ==
  LET on == opened /\ CanCapture(h.in.device)
  IN  /\ Core(h, n) /\ Slotted(n) /\ n.listed = h.listed /\ n.out = h.out
      /\ n.in = IF on THEN [h.in EXCEPT !.pcm = TRUE,
                                        !.state = IF created THEN "ACTIVE" ELSE @]
                ELSE h.in
      /\ Holds(n.tx, "CAPTURE") <=> on
      /\ Once(n.tx, "CAPTURE")
      /\ Holds(n.tx, "VOICE_CALL") <=> Holds(h.tx, "VOICE_CALL")
      /\ Whole(h.tx) => n.up = h.up /\ Whole(n.tx)

(* start_input_stream of a capture that is not linked. *)
LEMMA StartInputCore ==
  ASSUME NEW h, Sound(h), Slotted(h), NEW g, NEW opened \in BOOLEAN,
         NEW created \in BOOLEAN, ~h.in.pcm, ~Holds(h.tx, "CAPTURE")
  PROVE  Captures(h, StartInput(h, g, opened, created), opened, created)
<1> DEFINE T == {"CAPTURE", "VOICE_CALL"}
           l == Append(h.tx, "CAPTURE")
           linked == [h EXCEPT !.tx = l]
           on == SelectCapture(linked, g)
           x  == [on.in EXCEPT !.pcm = TRUE,
                               !.state = IF created THEN "ACTIVE" ELSE @]
           a  == [on EXCEPT !.in = x]
           b  == StopInput(on)
<1>1. h \in HalState /\ h.tx \in Seq(T)
  BY DEF Sound, HalState
<1>2. /\ l \in Seq(T)
      /\ \A v : Holds(l, v) <=> (v = "CAPTURE" \/ Holds(h.tx, v))
      /\ Once(l, "CAPTURE")
      /\ Whole(h.tx) => Whole(l)
  BY <1>1, AppendProperties, LinkKeeps DEF Whole
<1> HIDE DEF l
<1>3. /\ Rest(h, linked) /\ linked.tx = l /\ linked.listed = h.listed
      /\ linked.snd = h.snd /\ linked.up = h.up
  BY <1>1, <1>2, TxRest
<1>4. Sound(linked)
  BY <1>2, SoundFields
<1> HIDE DEF linked
<1>5. Slotted(linked)
  <2>1. \A w : Listed(h, w) => Listed(linked, w)
    BY <1>2, <1>3 DEF Listed, Holds
  <2>2. linked.listed \subseteq Playbacks
    BY <1>4 DEF Sound, HalState
  <2>3. QED
    BY <1>1, <1>3, <2>1, <2>2, SlottedKept
<1>6. linked \in HalState /\ Holds(linked.tx, "CAPTURE")
  BY <1>2, <1>3 DEF Rest, Core
<1>7. Same(linked, on) /\ Slotted(on)
  BY <1>5, <1>6, SelectCaptureSlotted
<1>8. Sound(on)
  BY <1>4, SelectCaptureSound
<1>9. StartInput(h, g, opened, created) =
        IF ~CanCapture(h.in.device) THEN h ELSE IF opened THEN a ELSE b
  BY DEF StartInput, linked, l
<1> HIDE DEF on
<1>10. /\ Rest(h, on) /\ on.listed = h.listed /\ on.tx = l
       /\ Whole(h.tx) => on.up = h.up
  <2>1. /\ Rest(linked, on) /\ on.listed = linked.listed /\ on.tx = linked.tx
        /\ Whole(l) => on.up = linked.up
    BY <1>3, <1>7 DEF Same
  <2>2. Rest(h, on)
    BY <1>3, <2>1 DEF Rest, Core
  <2>3. QED
    BY <1>2, <1>3, <2>1, <2>2
<1>11. /\ Core(h, a) /\ Slotted(a) /\ a.listed = h.listed /\ a.out = h.out
       /\ a.in = [h.in EXCEPT !.pcm = TRUE,
                               !.state = IF created THEN "ACTIVE" ELSE @]
       /\ a.tx = l
       /\ Whole(h.tx) => a.up = h.up
  <2>1. x \in InStream
    BY <1>8 DEF Sound, HalState, InStream, StreamStates
  <2>2. x = [h.in EXCEPT !.pcm = TRUE, !.state = IF created THEN "ACTIVE" ELSE @]
    BY <1>10 DEF Rest
  <2> HIDE DEF x
  <2>3. a \in HalState
    BY <1>8, <2>1, SoundFields DEF Sound
  <2>4. /\ Core(on, a) /\ a.in = x /\ a.out = on.out /\ a.listed = on.listed
        /\ a.tx = on.tx /\ a.snd = on.snd /\ a.up = on.up
    BY <1>8, <2>1, <2>3, ZenonT(60) DEF Core, Sound, HalState, Told
  <2> HIDE DEF a
  <2>5. Slotted(a)
    BY <1>7, <2>4 DEF Slotted, Listed
  <2>6. Core(h, a) /\ a.out = h.out
    BY <1>10, <2>4 DEF Rest, Core
  <2>7. QED
    BY <1>10, <2>2, <2>4, <2>5, <2>6
<1>12. /\ Rest(on, b) /\ Slotted(b) /\ b.listed = on.listed
       /\ ~Holds(b.tx, "CAPTURE") /\ Once(b.tx, "CAPTURE")
       /\ Holds(b.tx, "VOICE_CALL") <=> Holds(on.tx, "VOICE_CALL")
       /\ Whole(on.tx) => b.up = on.up /\ Whole(b.tx)
  BY <1>2, <1>7, <1>8, <1>10, StopInputRest
<1> HIDE DEF a, b
<1>13. CASE ~CanCapture(h.in.device)
  <2>1. Core(h, h) /\ Once(h.tx, "CAPTURE")
    BY <1>1, SameSelf DEF Same, Rest, Once, Holds
  <2>2. QED
    BY <1>9, <1>13, <2>1 DEF Captures
<1>14. CASE CanCapture(h.in.device) /\ opened
  BY <1>2, <1>9, <1>11, <1>14 DEF Captures
<1>15. CASE CanCapture(h.in.device) /\ ~opened
  <2>1. Core(h, b) /\ b.out = h.out /\ b.in = h.in
    BY <1>10, <1>12 DEF Rest, Core
  <2>2. QED
    BY <1>2, <1>9, <1>10, <1>12, <1>15, <2>1 DEF Captures
<1>16. QED
  BY <1>13, <1>14, <1>15

(* list_remove of one of two entries leaves the other. *)
LEMMA RelinkKeeps ==
  ASSUME NEW T, NEW u \in T, NEW list \in Seq(T), Holds(list, u), Once(list, u)
  PROVE  LET n == Unlink(Append(list, u), u)
         IN  /\ Holds(n, u) /\ Once(n, u)
             /\ \A v : v # u => (Holds(n, v) <=> Holds(list, v))
<1> DEFINE l == Append(list, u)
           n == Unlink(l, u)
           last == Len(list)
<1>1. DOMAIN list = 1..last /\ last \in Nat
  BY LenProperties
<1>2. /\ l \in Seq(T) /\ Len(l) = last + 1 /\ DOMAIN l = 1..(last + 1)
      /\ l[last + 1] = u /\ \A i \in 1..last : l[i] = list[i]
  BY <1>1, AppendProperties
<1>3. \A v : Holds(l, v) <=> (v = u \/ Holds(list, v))
  BY LinkKeeps
<1> HIDE DEF l
<1>4. PICK e \in DOMAIN l :
        /\ l[e] = u
        /\ DOMAIN Unlink(l, u) = 1..(Len(l) - 1)
        /\ \A i \in 1..(Len(l) - 1) :
             Unlink(l, u)[i] = IF i < e THEN l[i] ELSE l[i + 1]
  BY <1>2, <1>3, UnlinkEntries
<1>5. \A v : v # u => (Holds(n, v) <=> Holds(l, v))
  BY <1>2, <1>3, UnlinkKeeps
<1>6. /\ e \in 1..(last + 1) /\ l[e] = u /\ DOMAIN n = 1..last
      /\ \A i \in 1..last : n[i] = IF i < e THEN l[i] ELSE l[i + 1]
  BY <1>1, <1>2, <1>4
<1> HIDE DEF n, last
<1>7. PICK k \in 1..last : list[k] = u
  BY <1>1 DEF Holds
<1>8. \A i \in 1..(last + 1) : l[i] = u => i = k \/ i = last + 1
  BY <1>1, <1>2, <1>7 DEF Once
<1>9. Holds(n, u)
  <2>1. CASE e = k
    <3>1. last \in 1..last /\ ~(last < e)
      BY <1>1, <1>7, <2>1
    <3>2. n[last] = u
      BY <1>2, <1>6, <3>1
    <3>3. QED
      BY <1>6, <3>1, <3>2 DEF Holds
  <2>2. CASE e = last + 1
    <3>1. n[k] = u
      BY <1>1, <1>2, <1>6, <1>7, <2>2
    <3>2. QED
      BY <1>6, <1>7, <3>1 DEF Holds
  <2>3. QED
    BY <1>6, <1>8, <2>1, <2>2
<1>10. ASSUME NEW i \in 1..last, NEW j \in 1..last, n[i] = u, n[j] = u
       PROVE  i = j
  <2> DEFINE Old(m) == IF m < e THEN m ELSE m + 1
  <2>1. /\ Old(i) \in 1..(last + 1) /\ Old(i) # e /\ l[Old(i)] = u
        /\ Old(j) \in 1..(last + 1) /\ Old(j) # e /\ l[Old(j)] = u
    BY <1>1, <1>6, <1>10
  <2>2. Old(i) = Old(j)
    BY <1>6, <1>8, <2>1
  <2>3. QED
    BY <1>1, <1>6, <2>2
<1>11. Once(n, u)
  BY <1>6, <1>10 DEF Once
<1>12. QED
  BY <1>3, <1>5, <1>9, <1>11 DEF n, l

LEMMA MoveBothSame ==
  ASSUME NEW h \in HalState, NEW from \in SndDevice, NEW to \in SndDevice
  PROVE  LET n == MoveBoth(h, from, to)
         IN  Same(h, n) /\ n.snd = h.snd
<1> DEFINE m == DisableSndDevice(h, "CAPTURE", from)
           k == EnableSndDevice(m, "CAPTURE", to)
           n == EnableSndDevice(k, "CAPTURE", to)
<1>1. Same(h, m) /\ m \in HalState /\ m.snd = h.snd
  BY DisableSame
<1> HIDE DEF m
<1>2. Same(m, k) /\ k \in HalState /\ k.snd = m.snd
  BY <1>1, EnableSame
<1> HIDE DEF k
<1>3. Same(k, n) /\ n.snd = k.snd
  BY <1>2, EnableSame
<1> HIDE DEF n
<1>4. Same(h, n)
  BY <1>1, <1>2, <1>3, SameTrans
<1>5. QED
  BY <1>1, <1>2, <1>3, <1>4 DEF MoveBoth, n, k, m

(* start_input_stream of a capture that is linked: its new entry is what is *)
(* left.                                                                    *)
LEMMA StartInputAgainCore ==
  ASSUME NEW h, Sound(h), Slotted(h), NEW g, ~ResamplersMade,
         Holds(h.tx, "CAPTURE"), Once(h.tx, "CAPTURE")
  PROVE  LET n == StartInputAgain(h, g)
         IN  /\ Core(h, n) /\ Slotted(n) /\ n.listed = h.listed /\ n.out = h.out
             /\ n.in = [h.in EXCEPT !.stale = FALSE]
             /\ Holds(n.tx, "CAPTURE") /\ Once(n.tx, "CAPTURE")
             /\ Holds(n.tx, "VOICE_CALL") <=> Holds(h.tx, "VOICE_CALL")
<1> DEFINE T      == {"CAPTURE", "VOICE_CALL"}
           t      == <<"CAPTURE", "in">>
           from   == h.snd[t]
           l      == Append(h.tx, "CAPTURE")
           linked == [h EXCEPT !.tx = l]
           on     == SelectCapture(linked, g)
           to     == on.snd[t]
           moved  == IF to \in {from, NONE} THEN on ELSE MoveBoth(on, from, to)
           off    == StopInput(moved)
           d      == IF to = from THEN NONE ELSE to
           half   == [off EXCEPT !.snd[t] = d]
           x      == [half.in EXCEPT !.stale = FALSE]
           n      == [half EXCEPT !.in = x]
<1>1. h \in HalState /\ h.tx \in Seq(T) /\ t \in Slots
  BY DEF Sound, HalState, Slots, Usecases, Sides
<1>2. /\ l \in Seq(T)
      /\ \A v : Holds(l, v) <=> (v = "CAPTURE" \/ Holds(h.tx, v))
  BY <1>1, AppendProperties, LinkKeeps
<1>3. /\ Holds(Unlink(l, "CAPTURE"), "CAPTURE")
      /\ Once(Unlink(l, "CAPTURE"), "CAPTURE")
  BY <1>1, RelinkKeeps
<1>4. StartInputAgain(h, g) = n
  BY DEF StartInputAgain
<1> HIDE DEF l
<1>5. /\ Rest(h, linked) /\ linked.tx = l /\ linked.listed = h.listed
      /\ linked.snd = h.snd
  BY <1>1, <1>2, TxRest
<1>6. Sound(linked)
  BY <1>2, SoundFields
<1> HIDE DEF linked
<1>7. Slotted(linked)
  <2>1. \A w : Listed(h, w) => Listed(linked, w)
    BY <1>2, <1>5 DEF Listed, Holds
  <2>2. linked.listed \subseteq Playbacks
    BY <1>6 DEF Sound, HalState
  <2>3. QED
    BY <1>1, <1>5, <2>1, <2>2, SlottedKept
<1>8. linked \in HalState /\ Holds(linked.tx, "CAPTURE")
  BY <1>2, <1>5 DEF Rest, Core
<1>9. Same(linked, on) /\ Slotted(on)
  BY <1>7, <1>8, SelectCaptureSlotted
<1>10. Sound(on)
  BY <1>6, SelectCaptureSound
<1> HIDE DEF on
<1>11. from \in SndDevice /\ to \in SndDevice /\ d \in SndDevice /\ on \in HalState
  BY <1>1, <1>10 DEF Sound, HalState, Slots, SndDevice
<1> HIDE DEF from, to, d
<1>12. Same(on, moved) /\ moved.snd = on.snd
  BY <1>11, SameSelf, MoveBothSame
<1>13. Sound(moved)
  BY <1>12 DEF Sound, Counts, Same, Rest, Core
<1> HIDE DEF moved
<1>14. Slotted(moved)
  BY <1>9, <1>12 DEF Slotted, Listed, Same
<1>15. Rest(h, moved) /\ moved.listed = h.listed /\ moved.tx = l
  BY <1>5, <1>9, <1>12 DEF Same, Rest, Core
<1>16. /\ Rest(moved, off) /\ Slotted(off) /\ off.listed = moved.listed
       /\ Holds(off.tx, "VOICE_CALL") <=> Holds(moved.tx, "VOICE_CALL")
       /\ off.tx = Unlink(l, "CAPTURE")
  BY <1>2, <1>13, <1>14, <1>15, StopInputRest
<1>17. Sound(off)
  BY <1>13, StopInputSound
<1> HIDE DEF off
<1>18. Same(off, half) /\ half.snd = [off.snd EXCEPT ![t] = d]
  BY <1>1, <1>11, <1>17, AssignSame, AssignSnd DEF Sound
<1>19. Sound(half)
  BY <1>18 DEF Sound, Counts, Same, Rest, Core
<1> HIDE DEF half
<1>20. Slotted(half)
  <2>1. off.snd \in [Slots -> SndDevice]
    BY <1>17 DEF Sound, HalState, Slots
  <2>2. \A y \in Slots : y # t => half.snd[y] = off.snd[y]
    BY <1>18, <2>1
  <2>3. /\ \A w \in Playbacks : /\ <<w, "in">> \in Slots /\ <<w, "in">> # t
                                 /\ <<w, "out">> \in Slots /\ <<w, "out">> # t
        /\ <<"CAPTURE", "out">> \in Slots /\ <<"CAPTURE", "out">> # t
    BY DEF Slots, Usecases, Sides, Playbacks
  <2>4. Listed(half, "CAPTURE") /\ half.listed = off.listed /\ off.listed \subseteq Playbacks
    BY <1>3, <1>16, <1>17, <1>18 DEF Listed, Holds, Same, Sound, HalState
  <2>5. \A y \in Slots : Listed(half, y[1]) \/ half.snd[y] = NONE
    BY <1>16, <1>18, <2>2, <2>4 DEF Slotted, Listed, Same
  <2>6. \A w \in Playbacks : /\ half.snd[<<w, "in">>] = off.snd[<<w, "in">>]
                             /\ half.snd[<<w, "out">>] = off.snd[<<w, "out">>]
    BY <2>2, <2>3
  <2>7. half.snd[<<"CAPTURE", "out">>] = off.snd[<<"CAPTURE", "out">>]
    BY <2>2, <2>3
  <2>8. QED
    BY <1>16, <2>4, <2>5, <2>6, <2>7 DEF Slotted
<1>21. /\ Rest(h, half) /\ half.listed = h.listed /\ half.tx = Unlink(l, "CAPTURE")
  BY <1>15, <1>16, <1>18 DEF Same, Rest, Core
<1>22. x \in InStream
  BY <1>19 DEF Sound, HalState, InStream
<1>23. x = [h.in EXCEPT !.stale = FALSE]
  BY <1>21 DEF Rest
<1> HIDE DEF x
<1>24. n \in HalState
  BY <1>19, <1>22, SoundFields DEF Sound
<1>25. /\ Core(half, n) /\ n.in = x /\ n.out = half.out /\ n.listed = half.listed
       /\ n.tx = half.tx /\ n.snd = half.snd
  BY <1>19, <1>22, <1>24, ZenonT(60) DEF Core, Sound, HalState, Told
<1> HIDE DEF n
<1>26. Slotted(n)
  BY <1>20, <1>25 DEF Slotted, Listed
<1>27. Core(h, n) /\ n.out = h.out
  BY <1>21, <1>25 DEF Rest, Core
<1>28. Holds(n.tx, "VOICE_CALL") <=> Holds(h.tx, "VOICE_CALL")
  BY <1>2, <1>15, <1>16, <1>21, <1>25
<1>29. QED
  BY <1>3, <1>4, <1>21, <1>23, <1>25, <1>26, <1>27, <1>28

LEMMA StandbyInputCore ==
  ASSUME NEW h, Sound(h), Slotted(h), Once(h.tx, "CAPTURE"), h.in.state = "ACTIVE"
  PROVE  LET n == StandbyInput(h)
         IN  /\ Core(h, n) /\ Slotted(n) /\ n.listed = h.listed /\ n.out = h.out
             /\ n.in = [h.in EXCEPT !.state = "STANDBY", !.pcm = FALSE]
             /\ ~Holds(n.tx, "CAPTURE") /\ Once(n.tx, "CAPTURE")
             /\ Holds(n.tx, "VOICE_CALL") <=> Holds(h.tx, "VOICE_CALL")
             /\ Whole(h.tx) => n.up = h.up /\ Whole(n.tx)
             /\ \A t \in Slots : n.snd[t] = h.snd[t] \/ t[1] = "CAPTURE"
<1> DEFINE m == StopInput(h)
           x == [m.in EXCEPT !.state = "STANDBY", !.pcm = FALSE]
           n == [m EXCEPT !.in = x]
<1>1. Sound(m)
  BY StopInputSound
<1>2. /\ Rest(h, m) /\ Slotted(m) /\ m.listed = h.listed
      /\ ~Holds(m.tx, "CAPTURE") /\ Once(m.tx, "CAPTURE")
      /\ Holds(m.tx, "VOICE_CALL") <=> Holds(h.tx, "VOICE_CALL")
      /\ Whole(h.tx) => m.up = h.up /\ Whole(m.tx)
      /\ \A t \in Slots : m.snd[t] = h.snd[t] \/ t[1] = "CAPTURE"
  BY StopInputRest
<1>3. StandbyInput(h) = n
  BY DEF StandbyInput
<1> HIDE DEF m
<1>4. x \in InStream /\ x = [h.in EXCEPT !.state = "STANDBY", !.pcm = FALSE]
  BY <1>1, <1>2 DEF Sound, HalState, InStream, StreamStates, Rest
<1> HIDE DEF x
<1>5. n \in HalState
  BY <1>1, <1>4, SoundFields DEF Sound
<1>6. /\ Core(m, n) /\ n.in = x /\ n.out = m.out /\ n.listed = m.listed
      /\ n.tx = m.tx /\ n.snd = m.snd /\ n.up = m.up
  BY <1>1, <1>5, ZenonT(60) DEF Core, Sound, HalState, Told
<1> HIDE DEF n
<1>7. Core(h, n) /\ n.out = h.out
  BY <1>2, <1>6 DEF Rest, Core
<1>8. Slotted(n)
  BY <1>2, <1>6 DEF Slotted, Listed
<1>9. QED
  BY <1>2, <1>3, <1>4, <1>6, <1>7, <1>8

------------------------------------------------------------------------------
(* Starting and stopping a call *)

(* What no step of the call or of the SCO session touches; the modem is     *)
(* commanded as by a switch of devices.                                     *)
Around(h, n) ==
  /\ n \in HalState
  /\ n.mode = h.mode /\ n.micMute = h.micMute /\ n.volume = h.volume
  /\ n.nrec = h.nrec /\ n.btWb = h.btWb /\ n.wbAmr = h.wbAmr
  /\ n.rilClient = h.rilClient /\ n.rilUp = h.rilUp
  /\ n.wbCallback = h.wbCallback
  /\ n.out = h.out /\ n.in = h.in /\ n.listed = h.listed
  /\ h.micMute => n.modem.tx = h.modem.tx
  /\ Told(h) => Told(n)

(* The sessions and the PCMs that are open. *)
SameCall(h, n) == n.inCall = h.inCall /\ n.pcmVoice = h.pcmVoice
SameSco(h, n)  == n.inCallSco = h.inCallSco /\ n.pcmSco = h.pcmSco

(* Only these change, and what is told to the voice processor. *)
Flagged(h, n) == Around(h, n) /\ n.tx = h.tx /\ n.snd = h.snd /\ n.up = h.up

LEMMA AroundTrans ==
  ASSUME NEW h, NEW m, NEW n, Around(h, m), Around(m, n)
  PROVE  Around(h, n)
BY DEF Around

LEMMA FlaggedTrans ==
  ASSUME NEW h, NEW m, NEW n, Flagged(h, m), Flagged(m, n)
  PROVE  Flagged(h, n)
BY AroundTrans DEF Flagged

LEMMA SameAround ==
  ASSUME NEW h, NEW n, Same(h, n)
  PROVE  Around(h, n) /\ SameCall(h, n) /\ SameSco(h, n)
BY DEF Same, Rest, Core, Around, SameCall, SameSco

LEMMA InCallField ==
  ASSUME NEW h \in HalState, NEW b \in BOOLEAN
  PROVE  LET n == [h EXCEPT !.inCall = b]
         IN  Flagged(h, n) /\ SameSco(h, n) /\ n.pcmVoice = h.pcmVoice /\ n.inCall = b
<1>1. [h EXCEPT !.inCall = b] \in HalState
  BY ZenonT(60) DEF HalState
<1>2. QED
  BY <1>1, ZenonT(60) DEF Flagged, Around, SameSco, HalState, Told

LEMMA PcmVoiceField ==
  ASSUME NEW h \in HalState, NEW b \in BOOLEAN
  PROVE  LET n == [h EXCEPT !.pcmVoice = b]
         IN  Flagged(h, n) /\ SameSco(h, n) /\ n.inCall = h.inCall /\ n.pcmVoice = b
<1>1. [h EXCEPT !.pcmVoice = b] \in HalState
  BY ZenonT(60) DEF HalState
<1>2. QED
  BY <1>1, ZenonT(60) DEF Flagged, Around, SameSco, HalState, Told

LEMMA InCallScoField ==
  ASSUME NEW h \in HalState, NEW b \in BOOLEAN
  PROVE  LET n == [h EXCEPT !.inCallSco = b]
         IN  Flagged(h, n) /\ SameCall(h, n) /\ n.pcmSco = h.pcmSco /\ n.inCallSco = b
<1>1. [h EXCEPT !.inCallSco = b] \in HalState
  BY ZenonT(60) DEF HalState
<1>2. QED
  BY <1>1, ZenonT(60) DEF Flagged, Around, SameCall, HalState, Told

LEMMA PcmScoField ==
  ASSUME NEW h \in HalState, NEW b \in BOOLEAN
  PROVE  LET n == [h EXCEPT !.pcmSco = b]
         IN  Flagged(h, n) /\ SameCall(h, n) /\ n.inCallSco = h.inCallSco /\ n.pcmSco = b
<1>1. [h EXCEPT !.pcmSco = b] \in HalState
  BY ZenonT(60) DEF HalState
<1>2. QED
  BY <1>1, ZenonT(60) DEF Flagged, Around, SameCall, HalState, Told

LEMMA InCommScoField ==
  ASSUME NEW h \in HalState, NEW b \in BOOLEAN
  PROVE  LET n == [h EXCEPT !.inCommSco = b]
         IN  Flagged(h, n) /\ SameCall(h, n) /\ SameSco(h, n)
<1>1. [h EXCEPT !.inCommSco = b] \in HalState
  BY ZenonT(60) DEF HalState
<1>2. QED
  BY <1>1, ZenonT(60) DEF Flagged, Around, SameCall, SameSco, HalState, Told

LEMMA FlaggedSelf ==
  ASSUME NEW h \in HalState
  PROVE  Flagged(h, h) /\ SameCall(h, h) /\ SameSco(h, h)
BY DEF Flagged, Around, SameCall, SameSco

(* The SCO session and its PCMs start and stop together. *)
LEMMA ScoTogether ==
  ASSUME NEW h \in HalState, h.inCallSco <=> h.pcmSco, NEW opened \in BOOLEAN,
         NEW n \in {StartSco(h, opened), StopSco(h), StopScoOfCall(h)}
  PROVE  /\ Flagged(h, n) /\ SameCall(h, n)
         /\ n.inCallSco <=> n.pcmSco
<1>1. ASSUME NEW b \in BOOLEAN
      PROVE  LET m == [h EXCEPT !.pcmSco = b, !.inCallSco = b]
             IN  Flagged(h, m) /\ SameCall(h, m) /\ (m.inCallSco <=> m.pcmSco)
  <2> DEFINE k == [h EXCEPT !.pcmSco = b]
             m == [k EXCEPT !.inCallSco = b]
  <2>1. Flagged(h, k) /\ SameCall(h, k) /\ k.pcmSco = b
    BY PcmScoField
  <2>2. k \in HalState
    BY <2>1 DEF Flagged, Around
  <2> HIDE DEF k
  <2>3. Flagged(k, m) /\ SameCall(k, m) /\ m.pcmSco = k.pcmSco /\ m.inCallSco = b
    BY <2>2, InCallScoField
  <2> HIDE DEF m
  <2>4. Flagged(h, m) /\ SameCall(h, m) /\ (m.inCallSco <=> m.pcmSco)
    BY <2>1, <2>3, FlaggedTrans DEF SameCall
  <2>5. m = [h EXCEPT !.pcmSco = b, !.inCallSco = b]
    BY DEF m, k
  <2>6. QED
    BY <2>4, <2>5
<1>2. Flagged(h, h) /\ SameCall(h, h)
  BY FlaggedSelf
<1>3. n \in {h, [h EXCEPT !.pcmSco = TRUE, !.inCallSco = TRUE],
              [h EXCEPT !.pcmSco = FALSE, !.inCallSco = FALSE]}
  BY DEF StartSco, StopSco, StopScoOfCall
<1>4. QED
  BY <1>1, <1>2, <1>3

(* The flags have no part in the voice processor. *)
LEMMA FlagsEar ==
  ASSUME NEW h \in HalState, NEW b \in BOOLEAN
  PROVE  /\ [h EXCEPT !.inCall = b].ear = h.ear
         /\ [h EXCEPT !.pcmVoice = b].ear = h.ear
         /\ [h EXCEPT !.inCommSco = b].ear = h.ear
         /\ StopSco(h).ear = h.ear /\ StopScoOfCall(h).ear = h.ear
         /\ StartSco(h, b).ear = h.ear
<1>1. /\ [h EXCEPT !.inCall = b].ear = h.ear
      /\ [h EXCEPT !.pcmVoice = b].ear = h.ear
      /\ [h EXCEPT !.inCommSco = b].ear = h.ear
  BY DEF HalState
<1>2. /\ [h EXCEPT !.pcmSco = FALSE, !.inCallSco = FALSE].ear = h.ear
      /\ [h EXCEPT !.pcmSco = TRUE, !.inCallSco = TRUE].ear = h.ear
  BY DEF HalState
<1>3. QED
  BY <1>1, <1>2 DEF StopSco, StopScoOfCall, StartSco

(* The voice processor sleeps, or is on a route of the call's microphones. *)
LEMMA EarRoutes ==
  ASSUME NEW h \in HalState, Audience
  PROVE  /\ StopEar(h).ear.route = AudienceSleep
         /\ StartEar(h).ear.route
              \in CallRoutes(RouteMicrophones(h.out["primary"].devices))
<1> DEFINE devices == h.out["primary"].devices
           route   == EsDeviceToRoute(devices, h.wbAmr, h.btWb)
<1>1. StartEar(h) = [h EXCEPT !.ear = EsStartVoiceSession(route)]
  BY DEF StartEar
<1>2. StopEar(h) = [h EXCEPT !.ear = EsStopVoiceSession(h.ear)]
  BY DEF StopEar
<1>3. route \in CallRoutes(RouteMicrophones(devices))
  BY DEF EsDeviceToRoute, CallRoute, CallRoutes
<1>4. EsStopVoiceSession(h.ear).route = AudienceSleep
  BY DEF EsStopVoiceSession, HalState, Chip
<1>5. EsStartVoiceSession(route).route = route
  BY DEF EsStartVoiceSession
<1>6. \A x : [h EXCEPT !.ear = x].ear = x
  BY DEF HalState
<1> HIDE DEF route, devices
<1>7. QED
  BY <1>1, <1>2, <1>3, <1>4, <1>5, <1>6 DEF devices

(* The voice processor has no part in the sessions. *)
LEMMA EarTogether ==
  ASSUME NEW h, Sound(h), NEW n \in {StartEar(h), StopEar(h)}
  PROVE  Flagged(h, n) /\ SameCall(h, n) /\ SameSco(h, n)
<1>1. h \in HalState /\ n \in HalState
  BY EarSound DEF Sound
<1>2. \A x : [h EXCEPT !.ear = x] \in HalState =>
             LET k == [h EXCEPT !.ear = x]
             IN  Flagged(h, k) /\ SameCall(h, k) /\ SameSco(h, k)
  BY <1>1, ZenonT(60) DEF Flagged, Around, SameCall, SameSco, HalState, Told
<1>3. n = h \/ \E x : n = [h EXCEPT !.ear = x]
  BY DEF StartEar, StopEar
<1>4. QED
  BY <1>1, <1>2, <1>3, FlaggedSelf

(* stop_voice_call *)
LEMMA StopVoiceCallAround ==
  ASSUME NEW h, Sound(h), Slotted(h), h.inCallSco <=> h.pcmSco
  PROVE  LET n == StopVoiceCall(h)
         IN  /\ Around(h, n) /\ Slotted(n)
             /\ ~n.pcmVoice
             /\ n.inCall = IF Holds(h.tx, "VOICE_CALL") THEN FALSE ELSE h.inCall
             /\ n.inCallSco <=> n.pcmSco
             /\ Holds(n.tx, "CAPTURE") <=> Holds(h.tx, "CAPTURE")
             /\ Once(h.tx, "CAPTURE") => Once(n.tx, "CAPTURE")
             /\ Whole(h.tx) =>
                  n.up = h.up /\ ~Holds(n.tx, "VOICE_CALL")
             /\ \A x \in Slots : n.snd[x] = h.snd[x] \/ x[1] = "VOICE_CALL"
             /\ Audience => n.ear.route = AudienceSleep
<1> DEFINE T    == {"CAPTURE", "VOICE_CALL"}
           c    == StopScoOfCall(h)
           e    == [c EXCEPT !.pcmVoice = FALSE]
           closed == StopEar(e)
           a    == <<"VOICE_CALL", "out">>
           b    == <<"VOICE_CALL", "in">>
           off1 == DisableSndDevice(closed, "VOICE_CALL", h.snd[a])
           off2 == DisableSndDevice(off1, "VOICE_CALL", h.snd[b])
           m1   == [off2 EXCEPT !.snd[a] = NONE]
           m2   == [m1 EXCEPT !.snd[b] = NONE]
           l    == Unlink(h.tx, "VOICE_CALL")
           m3   == [m2 EXCEPT !.tx = l]
           n    == [m3 EXCEPT !.inCall = FALSE]
<1>1. /\ h \in HalState /\ h.tx \in Seq(T) /\ h.snd \in [Slots -> SndDevice]
      /\ h.listed \in SUBSET Playbacks
      /\ a \in Slots /\ b \in Slots /\ a # b /\ NONE \in SndDevice
  BY DEF Slots, Usecases, Sides, SndDevice, Sound, HalState
<1>2. Listed(h, "VOICE_CALL") <=> Holds(h.tx, "VOICE_CALL")
  BY <1>1 DEF Listed, Holds, Playbacks
<1>3. /\ Flagged(h, closed) /\ closed.inCall = h.inCall /\ ~closed.pcmVoice
      /\ closed.inCallSco <=> closed.pcmSco
      /\ Audience => closed.ear.route = AudienceSleep
  <2>1. Flagged(h, c) /\ SameCall(h, c) /\ (c.inCallSco <=> c.pcmSco)
    BY <1>1, ScoTogether
  <2>2. Sound(c)
    BY ScoSound
  <2> HIDE DEF c
  <2>3. Flagged(c, e) /\ SameSco(c, e) /\ e.inCall = c.inCall /\ e.pcmVoice = FALSE
    BY <2>2, PcmVoiceField DEF Sound
  <2>4. Sound(e)
    BY <2>2, SoundFields
  <2> HIDE DEF e
  <2>5. Flagged(e, closed) /\ SameCall(e, closed) /\ SameSco(e, closed)
    BY <2>4, EarTogether
  <2>6. Audience => closed.ear.route = AudienceSleep
    BY <2>4, EarRoutes DEF Sound
  <2> HIDE DEF closed
  <2>7. Flagged(h, closed)
    BY <2>1, <2>3, <2>5, FlaggedTrans
  <2>8. QED
    BY <2>1, <2>3, <2>5, <2>6, <2>7 DEF SameCall, SameSco
<1>4. CASE ~Listed(h, "VOICE_CALL")
  <2>1. StopVoiceCall(h) = closed
    BY <1>4 DEF StopVoiceCall
  <2> HIDE DEF closed
  <2>2. Slotted(closed)
    BY <1>3 DEF Flagged, Around, Slotted, Listed
  <2>3. QED
    BY <1>2, <1>3, <1>4, <2>1, <2>2 DEF Flagged
<1>5. CASE Listed(h, "VOICE_CALL")
  <2>1. StopVoiceCall(h) = n
    <3>1. off2.tx = h.tx
      BY <1>3 DEF DisableSndDevice, Crash, Flagged
    <3> HIDE DEF c, e, closed
    <3>2. QED
      BY <1>5, <3>1 DEF StopVoiceCall, c, e, closed
  <2> HIDE DEF c, e, closed
  <2>2. closed \in HalState /\ closed.snd = h.snd /\ closed.tx = h.tx
    BY <1>3 DEF Flagged, Around
  <2>3. Same(closed, off1) /\ off1 \in HalState /\ off1.snd = closed.snd
    BY <1>1, <2>2, DisableSame
  <2> HIDE DEF off1
  <2>4. Same(off1, off2) /\ off2 \in HalState /\ off2.snd = off1.snd
    BY <1>1, <2>3, DisableSame
  <2> HIDE DEF off2
  <2>5. Same(off2, m1) /\ m1 \in HalState /\ m1.snd = [off2.snd EXCEPT ![a] = NONE]
    BY <1>1, <2>4, AssignSame, AssignSnd
  <2> HIDE DEF m1
  <2>6. Same(m1, m2) /\ m2 \in HalState /\ m2.snd = [m1.snd EXCEPT ![b] = NONE]
    <3>1. m1 \in HalState /\ b \in Slots /\ NONE \in SndDevice
      BY <1>1, <2>5
    <3>2. Same(m1, m2)
      BY <3>1, AssignSame
    <3>3. m2 \in HalState /\ m2.snd = [m1.snd EXCEPT ![b] = NONE]
      BY <3>1, AssignSnd
    <3>4. QED
      BY <3>2, <3>3
  <2> HIDE DEF m2
  <2>7. Same(closed, m2)
    BY <2>3, <2>4, <2>5, <2>6, SameTrans
  <2>8. \A x \in Slots : m2.snd[x] = IF x \in {a, b} THEN NONE ELSE h.snd[x]
    BY <1>1, <2>2, <2>3, <2>4, <2>5, <2>6
  <2>9. Around(h, m2) /\ (m2.inCallSco <=> m2.pcmSco) /\ ~m2.pcmVoice
    BY <1>3, <2>7, SameAround, AroundTrans DEF Flagged, SameCall, SameSco
  <2>10. m2.listed = h.listed /\ (Whole(h.tx) => m2.up = h.up)
    BY <1>3, <2>7, <2>9 DEF Same, Flagged, Around
  <2>11. /\ l \in Seq(T)
         /\ Holds(l, "CAPTURE") <=> Holds(h.tx, "CAPTURE")
         /\ Once(h.tx, "CAPTURE") => Once(l, "CAPTURE")
         /\ Whole(h.tx) => ~Holds(l, "VOICE_CALL")
    BY <1>1, <1>2, <1>5, UnlinkSound, UnlinkKeeps DEF Whole
  <2> HIDE DEF l
  <2>12. /\ Rest(m2, m3) /\ m3.listed = m2.listed /\ m3.tx = l
         /\ m3.snd = m2.snd /\ m3.up = m2.up
    BY <2>6, <2>11, TxRest
  <2>13. Around(m2, m3) /\ SameCall(m2, m3) /\ SameSco(m2, m3)
    BY <2>12 DEF Rest, Core, Around, SameCall, SameSco
  <2> HIDE DEF m3
  <2>14. Flagged(m3, n) /\ SameSco(m3, n) /\ n.pcmVoice = m3.pcmVoice /\ n.inCall = FALSE
    BY <2>13, InCallField DEF Around
  <2>15. n.ear = closed.ear
    <3>1. n.ear = m3.ear
      BY <2>13, FlagsEar DEF Around
    <3>2. m3.ear = m2.ear /\ m2.ear = closed.ear
      BY <2>7, <2>12 DEF Same, Rest, Core
    <3>3. QED
      BY <3>1, <3>2
  <2> HIDE DEF n
  <2>16. Around(h, n)
    BY <2>9, <2>13, <2>14, AroundTrans DEF Flagged
  <2>17. ~n.pcmVoice /\ (n.inCallSco <=> n.pcmSco)
    BY <2>9, <2>13, <2>14 DEF SameCall, SameSco
  <2>18. /\ n.tx = l
         /\ Whole(h.tx) => n.up = h.up
         /\ \A x \in Slots : n.snd[x] = IF x \in {a, b} THEN NONE ELSE h.snd[x]
         /\ n.listed = h.listed
    BY <2>8, <2>10, <2>12, <2>14, <2>16 DEF Flagged, Around
  <2>19. Slotted(n)
    <3>1. ASSUME NEW x \in Slots
          PROVE  /\ n.snd[x] \in {h.snd[x], NONE}
                 /\ Listed(h, x[1]) => Listed(n, x[1]) \/ n.snd[x] = NONE
      <4>1. x[1] = "VOICE_CALL" => x \in {a, b}
        BY DEF Slots, Sides
      <4>2. x[1] \in Playbacks \cup {"CAPTURE", "VOICE_CALL"}
        BY DEF Slots, Usecases
      <4>3. x[1] # "VOICE_CALL" /\ Listed(h, x[1]) => Listed(n, x[1])
        BY <1>1, <2>11, <2>18, <4>2 DEF Listed, Holds, Playbacks
      <4>4. QED
        BY <2>18, <4>1, <4>3
    <3>2. QED
      BY <1>1, <2>18, <3>1, SlottedKept
  <2>20. \A x \in Slots : n.snd[x] = h.snd[x] \/ x[1] = "VOICE_CALL"
    BY <2>18
  <2>21. Audience => n.ear.route = AudienceSleep
    BY <1>3, <2>15
  <2>22. QED
    BY <1>2, <1>5, <2>1, <2>11, <2>14, <2>16, <2>17, <2>18, <2>19, <2>20, <2>21
<1>6. QED
  BY <1>4, <1>5

(* start_voice_call, of a call that is not up.  `entered' is the state after *)
(* select_devices; the error path of the TX PCM ends the audio server.      *)
LEMMA StartVoiceCallAround ==
  ASSUME NEW h, Sound(h), Slotted(h), ~h.inCall, ~h.pcmVoice,
         h.inCallSco <=> h.pcmSco, NEW g,
         NEW r \in [sco : BOOLEAN, tx : BOOLEAN, rx : BOOLEAN]
  PROVE  LET n == StartVoiceCall(h, g, r)
             entered == SelectVoiceCall([h EXCEPT !.tx = Append(@, "VOICE_CALL")], g)
         IN  IF r.tx
             THEN /\ Around(h, n) /\ Slotted(n)
                  /\ n.tx = Append(h.tx, "VOICE_CALL")
                  /\ (n.inCall <=> r.rx) /\ (n.pcmVoice <=> r.rx)
                  /\ n.inCallSco <=> n.pcmSco
                  /\ Flagged(entered, n)
                  /\ r.rx /\ Audience => n.ear.route \in
                       CallRoutes(RouteMicrophones(h.out["primary"].devices))
             ELSE ~n.up
<1> DEFINE l       == Append(h.tx, "VOICE_CALL")
           linked  == [h EXCEPT !.tx = l]
           entered == SelectVoiceCall(linked, g)
           started == [entered EXCEPT !.inCall = TRUE]
           sco     == IF Touches(h.out["primary"].devices, AllSco)
                      THEN StartSco(started, r.sco) ELSE started
           open    == [sco EXCEPT !.pcmVoice = TRUE]
           ear     == StartEar(open)
           closed  == StopScoOfCall(sco)
           failed  == [closed EXCEPT !.inCall = FALSE]
           n       == StartVoiceCall(h, g, r)
<1>1. /\ h \in HalState /\ l \in Seq({"CAPTURE", "VOICE_CALL"})
      /\ r.sco \in BOOLEAN /\ r.tx \in BOOLEAN /\ r.rx \in BOOLEAN
  BY AppendProperties DEF Sound, HalState
<1>2. \A v : Holds(l, v) <=> (v = "VOICE_CALL" \/ Holds(h.tx, v))
  BY LinkKeeps DEF Sound, HalState
<1>3. Sound(linked)
  BY <1>1, SoundFields
<1> HIDE DEF l
<1>4. /\ Rest(h, linked) /\ linked.listed = h.listed /\ linked.tx = l
      /\ linked.snd = h.snd /\ linked.up = h.up
  BY <1>1, TxRest
<1> HIDE DEF linked
<1>5. Slotted(linked)
  <2>1. \A w : Listed(h, w) => Listed(linked, w)
    BY <1>2, <1>4 DEF Listed, Holds
  <2>2. linked.listed \subseteq Playbacks
    BY <1>3 DEF Sound, HalState
  <2>3. QED
    BY <1>1, <1>4, <2>1, <2>2, SlottedKept
<1>6. Same(linked, entered) /\ Slotted(entered)
  <2>1. linked \in HalState /\ Holds(linked.tx, "VOICE_CALL")
    BY <1>2, <1>3, <1>4 DEF Sound
  <2>2. QED
    BY <1>5, <2>1, SelectVoiceCallSlotted
<1>7. Sound(entered)
  BY <1>3, SelectVoiceCallSound
<1> HIDE DEF entered
<1>8. /\ Around(h, entered) /\ SameCall(h, entered) /\ SameSco(h, entered)
      /\ entered.tx = l
  <2>1. Around(h, linked) /\ SameCall(h, linked) /\ SameSco(h, linked)
    BY <1>4 DEF Rest, Core, Around, SameCall, SameSco
  <2>2. /\ Around(linked, entered) /\ SameCall(linked, entered)
        /\ SameSco(linked, entered)
    BY <1>6, SameAround
  <2>3. Around(h, entered)
    BY <2>1, <2>2, AroundTrans
  <2>4. QED
    BY <1>4, <1>6, <2>1, <2>2, <2>3 DEF Same, SameCall, SameSco
<1>9. /\ Flagged(entered, started) /\ SameSco(entered, started)
      /\ started.pcmVoice = entered.pcmVoice /\ started.inCall = TRUE
  BY <1>7, InCallField DEF Sound
<1>10. Sound(started)
  BY <1>7, SoundFields
<1> HIDE DEF started
<1>11. ~started.pcmVoice /\ (started.inCallSco <=> started.pcmSco)
  BY <1>8, <1>9 DEF SameCall, SameSco
<1>12. /\ Flagged(started, sco) /\ SameCall(started, sco)
       /\ sco.inCallSco <=> sco.pcmSco
  BY <1>1, <1>10, <1>11, ScoTogether, FlaggedSelf DEF Sound
<1>13. Sound(sco)
  BY <1>1, <1>10, ScoSound
<1>14. n = IF r.tx /\ r.rx THEN ear
           ELSE IF ~r.tx THEN Crash(sco) ELSE failed
  <2>1. n = IF started.pcmVoice THEN started
            ELSE IF r.tx /\ r.rx THEN ear
            ELSE IF ~r.tx THEN Crash(sco) ELSE failed
    BY DEF StartVoiceCall, started, entered, linked, l
  <2>2. QED
    BY <1>11, <2>1
<1> HIDE DEF sco, n
<1>15. /\ Flagged(sco, open) /\ SameSco(sco, open)
       /\ open.inCall = sco.inCall /\ open.pcmVoice = TRUE
  BY <1>13, PcmVoiceField DEF Sound
<1>16. Sound(open)
  BY <1>13, SoundFields
<1> HIDE DEF open
<1>17. Flagged(open, ear) /\ SameCall(open, ear) /\ SameSco(open, ear)
  BY <1>16, EarTogether
<1>18. Audience => ear.ear.route \in
                     CallRoutes(RouteMicrophones(h.out["primary"].devices))
  <2>1. open.out = h.out
    BY <1>8, <1>9, <1>12, <1>15 DEF Flagged, Around
  <2>2. QED
    BY <1>16, <2>1, EarRoutes DEF Sound
<1> HIDE DEF ear
<1>19. /\ Flagged(sco, closed) /\ SameCall(sco, closed)
       /\ closed.inCallSco <=> closed.pcmSco
  BY <1>1, <1>12, <1>13, ScoTogether DEF Sound
<1> HIDE DEF closed
<1>20. /\ Flagged(closed, failed) /\ SameSco(closed, failed)
       /\ failed.pcmVoice = closed.pcmVoice /\ failed.inCall = FALSE
  BY <1>19, InCallField DEF Flagged, Around
<1> HIDE DEF failed
<1>21. Flagged(entered, ear) /\ Flagged(entered, failed)
  BY <1>9, <1>12, <1>15, <1>17, <1>19, <1>20, FlaggedTrans
<1>22. /\ ear.inCall = TRUE /\ ear.pcmVoice = TRUE
       /\ ear.inCallSco <=> ear.pcmSco
  BY <1>9, <1>12, <1>15, <1>17 DEF SameCall, SameSco
<1>23. /\ failed.inCall = FALSE /\ ~failed.pcmVoice
       /\ failed.inCallSco <=> failed.pcmSco
  BY <1>11, <1>12, <1>19, <1>20 DEF SameCall, SameSco
<1>24. ASSUME NEW m, Flagged(entered, m)
       PROVE  Around(h, m) /\ Slotted(m) /\ m.tx = l
  <2>1. Around(h, m) /\ m.tx = l
    BY <1>8, <1>24, AroundTrans DEF Flagged
  <2>2. Slotted(m)
    BY <1>6, <1>24 DEF Flagged, Around, Slotted, Listed
  <2>3. QED
    BY <2>1, <2>2
<1>25. CASE ~r.tx
  <2>1. n = Crash(sco)
    BY <1>14, <1>25
  <2>2. ~Crash(sco).up
    BY <1>13 DEF Crash, Sound, HalState
  <2>3. QED
    BY <1>25, <2>1, <2>2 DEF n
<1>26. CASE r.tx
  <2>1. /\ Around(h, n) /\ Slotted(n) /\ n.tx = l
        /\ (n.inCall <=> r.rx) /\ (n.pcmVoice <=> r.rx)
        /\ n.inCallSco <=> n.pcmSco
        /\ Flagged(entered, n)
    BY <1>14, <1>21, <1>22, <1>23, <1>24, <1>26
  <2>2. r.rx /\ Audience => n.ear.route \in
          CallRoutes(RouteMicrophones(h.out["primary"].devices))
    BY <1>14, <1>26, <1>18
  <2>3. QED
    BY <1>26, <2>1, <2>2 DEF n, entered, linked, l
<1>27. QED
  BY <1>25, <1>26

------------------------------------------------------------------------------
(* The streams, the list, the paths and the sessions agree *)

(* A playback is out of standby exactly when its usecase is linked, the PCM *)
(* of the capture is open exactly when its is, once; the flag of a session  *)
(* says that its PCMs are open; and a call that is up is linked.            *)
Matched(h) ==
  /\ \A s \in Outs : h.out[s].state = "ACTIVE" <=> UsecaseOf(s) \in h.listed
  /\ h.in.pcm <=> Holds(h.tx, "CAPTURE")
  /\ h.in.state = "ACTIVE" => h.in.pcm
  /\ Paired(h)
  /\ Once(h.tx, "CAPTURE")
  /\ h.inCall <=> h.pcmVoice
  /\ h.inCallSco <=> h.pcmSco
  /\ h.inCall => Holds(h.tx, "VOICE_CALL")
  /\ Slotted(h)

(* The user's mute, and what the modem was told of a muted microphone.      *)
Muted(h, n) == n.micMute = h.micMute /\ (h.micMute => n.modem.tx = h.modem.tx)

LEMMA MutedTrans ==
  ASSUME NEW h, NEW m, NEW n, Muted(h, m), Muted(m, n)
  PROVE  Muted(h, n)
BY DEF Muted

LEMMA SameMatched ==
  ASSUME NEW h, NEW n, Matched(h), Same(h, n), Slotted(n)
  PROVE  Matched(n) /\ Muted(h, n)
BY DEF Matched, Paired, Muted, Same, Rest, Core

LEMMA StartOutputMatched ==
  ASSUME NEW h, Sound(h), Matched(h), NEW s \in Outs, h.out[s].state # "ACTIVE",
         NEW g, Fits(h, g), NEW opened \in BOOLEAN
  PROVE  LET n == StartOutput(h, s, g, opened) IN Matched(n) /\ Muted(h, n)
<1> DEFINE n == StartOutput(h, s, g, opened)
<1>1. /\ Core(h, n) /\ Slotted(n) /\ n.tx = h.tx /\ n.in = h.in
      /\ opened => /\ n.out = [h.out EXCEPT ![s].state = "ACTIVE"]
                   /\ n.listed = h.listed \cup {UsecaseOf(s)}
      /\ ~opened => /\ n.out = h.out
                    /\ n.listed = h.listed \ {UsecaseOf(s)}
  <2>1. Slotted(h)
    BY DEF Matched
  <2>2. QED
    BY <2>1, StartOutputCore
<1>2. h.out \in [Outs -> OutStream]
  BY DEF Sound, HalState
<1> HIDE DEF n
<1>3. ASSUME NEW t \in Outs
      PROVE  n.out[t].state = "ACTIVE" <=> UsecaseOf(t) \in n.listed
  <2>1. t # s => UsecaseOf(t) # UsecaseOf(s)
    BY DEF Outs, UsecaseOf
  <2>2. h.out[t].state = "ACTIVE" <=> UsecaseOf(t) \in h.listed
    BY DEF Matched
  <2>3. n.out[t].state = IF opened /\ t = s THEN "ACTIVE" ELSE h.out[t].state
    BY <1>1, <1>2 DEF OutStream
  <2>4. QED
    BY <1>1, <2>1, <2>2, <2>3
<1>4. QED
  BY <1>1, <1>3 DEF Matched, Paired, Muted, Core, n

LEMMA StandbyOutputMatched ==
  ASSUME NEW h, Sound(h), Matched(h), NEW s \in Outs
  PROVE  LET n == StandbyOutput(h, s)
         IN  Matched(n) /\ Muted(h, n) /\ n.out[s].state = "STANDBY"
<1> DEFINE n == StandbyOutput(h, s)
<1>1. /\ Core(h, n) /\ Slotted(n) /\ n.tx = h.tx /\ n.in = h.in
      /\ n.out = [h.out EXCEPT ![s].state = "STANDBY"]
      /\ n.listed = h.listed \ {UsecaseOf(s)}
  BY StandbyOutputCore DEF Matched
<1>2. h.out \in [Outs -> OutStream]
  BY DEF Sound, HalState
<1> HIDE DEF n
<1>3. ASSUME NEW t \in Outs
      PROVE  n.out[t].state = "ACTIVE" <=> UsecaseOf(t) \in n.listed
  <2>1. t # s => UsecaseOf(t) # UsecaseOf(s)
    BY DEF Outs, UsecaseOf
  <2>2. h.out[t].state = "ACTIVE" <=> UsecaseOf(t) \in h.listed
    BY DEF Matched
  <2>3. n.out[t].state = IF t = s THEN "STANDBY" ELSE h.out[t].state
    BY <1>1, <1>2 DEF OutStream
  <2>4. QED
    BY <1>1, <2>1, <2>2, <2>3
<1>4. n.out[s].state = "STANDBY"
  BY <1>1, <1>2 DEF OutStream
<1>5. QED
  BY <1>1, <1>3, <1>4 DEF Matched, Paired, Muted, Core, n

LEMMA StartInputMatched ==
  ASSUME NEW h, Sound(h), Matched(h), h.in.state # "ACTIVE", NEW g,
         NEW opened \in BOOLEAN, NEW created \in BOOLEAN, created \/ ~ResamplersMade
  PROVE  LET n == StartInput(h, g, opened, created) IN Matched(n) /\ Muted(h, n)
<1> DEFINE n == StartInput(h, g, opened, created)
           on == opened /\ CanCapture(h.in.device)
           again == StartInputAgain(h, g)
<1>1. h.in \in InStream
  BY DEF Sound, HalState
<1>2. CASE ~h.in.pcm
  <2>1. /\ Core(h, n) /\ Slotted(n) /\ n.listed = h.listed /\ n.out = h.out
        /\ n.in = IF on THEN [h.in EXCEPT !.pcm = TRUE,
                                          !.state = IF created THEN "ACTIVE" ELSE @]
                  ELSE h.in
        /\ Holds(n.tx, "CAPTURE") <=> on
        /\ Once(n.tx, "CAPTURE")
        /\ Holds(n.tx, "VOICE_CALL") <=> Holds(h.tx, "VOICE_CALL")
    <3>1. Sound(h) /\ Slotted(h) /\ ~Holds(h.tx, "CAPTURE") /\ ~h.in.pcm
      BY <1>2 DEF Matched
    <3>2. Captures(h, n, opened, created)
      BY <3>1, StartInputCore
    <3> HIDE DEF n
    <3>3. QED
      BY <3>2 DEF Captures
  <2> HIDE DEF n, on
  <2>2. /\ n.in.pcm <=> on
        /\ n.in.state = "ACTIVE" <=> on /\ created
    BY <1>1, <1>2, <2>1 DEF InStream
  <2>3. Paired(n)
    BY <2>2 DEF Paired
  <2>4. QED
    BY <2>1, <2>2, <2>3 DEF Matched, Muted, Core, n
<1>3. CASE h.in.pcm /\ CanCapture(h.in.device)
  <2>1. ~ResamplersMade /\ Slotted(h) /\ Holds(h.tx, "CAPTURE") /\ Once(h.tx, "CAPTURE")
    BY <1>3 DEF Matched, Paired
  <2>2. /\ Core(h, again) /\ Slotted(again) /\ again.listed = h.listed
        /\ again.out = h.out /\ again.in = [h.in EXCEPT !.stale = FALSE]
        /\ Holds(again.tx, "CAPTURE") /\ Once(again.tx, "CAPTURE")
        /\ Holds(again.tx, "VOICE_CALL") <=> Holds(h.tx, "VOICE_CALL")
    BY <2>1, StartInputAgainCore
  <2>3. n = again
    BY <1>3 DEF StartInput
  <2> HIDE DEF again, n
  <2>4. again.in.state = h.in.state /\ again.in.pcm = h.in.pcm
    BY <1>1, <2>2 DEF InStream
  <2>5. Paired(again)
    BY <2>1 DEF Paired
  <2>6. Matched(again) /\ Muted(h, again)
    BY <1>3, <2>2, <2>4, <2>5 DEF Matched, Muted, Core
  <2>7. QED
    BY <2>3, <2>6 DEF n
<1>4. CASE h.in.pcm /\ ~CanCapture(h.in.device)
  BY <1>4 DEF StartInput, Muted
<1>5. QED
  BY <1>2, <1>3, <1>4

LEMMA StandbyInputMatched ==
  ASSUME NEW h, Sound(h), Matched(h)
  PROVE  LET n == StandbyInput(h)
         IN  Matched(n) /\ Muted(h, n) /\ n.in.state # "ACTIVE"
<1> DEFINE n == StandbyInput(h)
<1>1. CASE h.in.state # "ACTIVE"
  BY <1>1 DEF StandbyInput, Muted
<1>2. CASE h.in.state = "ACTIVE"
  <2>1. /\ Core(h, n) /\ Slotted(n) /\ n.listed = h.listed /\ n.out = h.out
        /\ n.in = [h.in EXCEPT !.state = "STANDBY", !.pcm = FALSE]
        /\ ~Holds(n.tx, "CAPTURE") /\ Once(n.tx, "CAPTURE")
        /\ Holds(n.tx, "VOICE_CALL") <=> Holds(h.tx, "VOICE_CALL")
    BY <1>2, StandbyInputCore DEF Matched
  <2>2. h.in \in InStream
    BY DEF Sound, HalState
  <2> HIDE DEF n
  <2>3. n.in.state = "STANDBY" /\ n.in.pcm = FALSE
    BY <2>1, <2>2 DEF InStream
  <2>4. QED
    BY <2>1, <2>3 DEF Matched, Paired, Muted, Core, n
<1>3. QED
  BY <1>1, <1>2

LEMMA StopVoiceCallMatched ==
  ASSUME NEW h, Sound(h), Matched(h)
  PROVE  LET n == StopVoiceCall(h)
         IN  Matched(n) /\ Muted(h, n) /\ ~n.inCall
<1> DEFINE n == StopVoiceCall(h)
<1>1. /\ Around(h, n) /\ Slotted(n)
      /\ ~n.pcmVoice
      /\ n.inCall = IF Holds(h.tx, "VOICE_CALL") THEN FALSE ELSE h.inCall
      /\ n.inCallSco <=> n.pcmSco
      /\ Holds(n.tx, "CAPTURE") <=> Holds(h.tx, "CAPTURE")
      /\ Once(h.tx, "CAPTURE") => Once(n.tx, "CAPTURE")
  BY StopVoiceCallAround DEF Matched
<1> HIDE DEF n
<1>2. ~n.inCall
  BY <1>1 DEF Matched
<1>3. QED
  BY <1>1, <1>2 DEF Matched, Paired, Muted, Around, n

LEMMA StartVoiceCallMatched ==
  ASSUME NEW h, Sound(h), Matched(h), ~h.inCall, NEW g,
         NEW r \in [sco : BOOLEAN, tx : BOOLEAN, rx : BOOLEAN]
  PROVE  LET n == StartVoiceCall(h, g, r)
         IN  n.up => Matched(n) /\ Muted(h, n)
<1> DEFINE n == StartVoiceCall(h, g, r)
           l == Append(h.tx, "VOICE_CALL")
<1>1. IF r.tx THEN /\ Around(h, n) /\ Slotted(n) /\ n.tx = l
                   /\ (n.inCall <=> r.rx) /\ (n.pcmVoice <=> r.rx)
                   /\ n.inCallSco <=> n.pcmSco
              ELSE ~n.up
  BY StartVoiceCallAround DEF Matched
<1>2. /\ \A v : Holds(l, v) <=> (v = "VOICE_CALL" \/ Holds(h.tx, v))
      /\ \A v : v # "VOICE_CALL" /\ Once(h.tx, v) => Once(l, v)
  BY LinkKeeps DEF Sound, HalState
<1> HIDE DEF n, l
<1>3. QED
  BY <1>1, <1>2 DEF Matched, Paired, Muted, Around, n

LEMMA RouteScoMatched ==
  ASSUME NEW h, Sound(h), Matched(h), NEW s, NEW opened \in BOOLEAN
  PROVE  LET n == RouteSco(h, s, opened)
         IN  /\ Matched(n) /\ Muted(h, n)
             /\ Flagged(h, n) /\ SameCall(h, n)
<1> DEFINE n == RouteSco(h, s, opened)
<1>1. ASSUME NEW b \in BOOLEAN
      PROVE  LET m == [h EXCEPT !.inCommSco = b]
             IN  /\ m \in HalState /\ (m.inCallSco <=> m.pcmSco)
                 /\ Flagged(h, m) /\ SameCall(h, m)
  BY InCommScoField DEF Flagged, Around, SameSco, Matched, Sound
<1>2. ASSUME NEW b \in BOOLEAN,
             NEW k \in {StartSco([h EXCEPT !.inCommSco = b], opened),
                        StopSco([h EXCEPT !.inCommSco = b])}
      PROVE  Flagged(h, k) /\ SameCall(h, k) /\ (k.inCallSco <=> k.pcmSco)
  <2> DEFINE m == [h EXCEPT !.inCommSco = b]
  <2>1. /\ m \in HalState /\ (m.inCallSco <=> m.pcmSco)
        /\ Flagged(h, m) /\ SameCall(h, m)
    BY <1>1
  <2> HIDE DEF m
  <2>2. Flagged(m, k) /\ SameCall(m, k) /\ (k.inCallSco <=> k.pcmSco)
    BY <1>2, <2>1, ScoTogether DEF m
  <2>3. QED
    BY <2>1, <2>2, FlaggedTrans DEF SameCall
<1>3. Flagged(h, h) /\ SameCall(h, h) /\ (h.inCallSco <=> h.pcmSco)
  BY FlaggedSelf DEF Sound, Matched
<1>4. n \in {h, StartSco([h EXCEPT !.inCommSco = TRUE], opened),
             StopSco([h EXCEPT !.inCommSco = FALSE])}
  BY DEF RouteSco
<1>5. Flagged(h, n) /\ SameCall(h, n) /\ (n.inCallSco <=> n.pcmSco)
  BY <1>2, <1>3, <1>4
<1> HIDE DEF n
<1>6. Slotted(n)
  BY <1>5 DEF Matched, Flagged, Around, Slotted, Listed
<1>7. QED
  BY <1>5, <1>6 DEF Matched, Paired, Muted, Flagged, Around, SameCall, n

LEMMA RouteCallMatched ==
  ASSUME NEW h, Sound(h), Matched(h), NEW s, NEW changed, NEW g,
         NEW r \in [sco : BOOLEAN, tx : BOOLEAN, rx : BOOLEAN]
  PROVE  LET n == RouteCall(h, s, changed, g, r)
         IN  n.up => Matched(n) /\ Muted(h, n)
<1> DEFINE stopped == StopVoiceCall(h)
<1>1. Sound(stopped) /\ Matched(stopped) /\ Muted(h, stopped) /\ ~stopped.inCall
  BY StopVoiceCallSound, StopVoiceCallMatched
<1> HIDE DEF stopped
<1> DEFINE n == StartVoiceCall(stopped, g, r)
           k == StartVoiceCall(h, g, r)
<1>2. n.up => Matched(n) /\ Muted(stopped, n)
  BY <1>1, StartVoiceCallMatched
<1>3. ~h.inCall /\ k.up => Matched(k) /\ Muted(h, k)
  BY StartVoiceCallMatched
<1> HIDE DEF n, k
<1>4. Muted(h, h) /\ (n.up => Muted(h, n))
  BY <1>1, <1>2, MutedTrans DEF Muted
<1>5. QED
  BY <1>2, <1>3, <1>4 DEF RouteCall, n, k, stopped

LEMMA OutDevicesMatched ==
  ASSUME NEW h, Sound(h), Matched(h), NEW s \in Outs, NEW d \in OutRoutes
  PROVE  LET n == [h EXCEPT !.out[s].devices = d]
         IN  /\ Sound(n) /\ Matched(n) /\ Muted(h, n)
             /\ n.out[s].state = h.out[s].state
<1> DEFINE x == [h.out EXCEPT ![s].devices = d]
           n == [h EXCEPT !.out = x]
<1>1. h.out \in [Outs -> OutStream]
  BY DEF Sound, HalState
<1>2. /\ x \in [Outs -> OutStream]
      /\ \A t \in Outs : x[t].state = h.out[t].state
  BY <1>1, ZenonT(60) DEF OutStream
<1> HIDE DEF x
<1>3. Sound(n)
  BY <1>2, SoundFields
<1>4. /\ n.out = x /\ n.in = h.in /\ n.listed = h.listed /\ n.tx = h.tx
      /\ n.inCall = h.inCall /\ n.pcmVoice = h.pcmVoice
      /\ n.inCallSco = h.inCallSco /\ n.pcmSco = h.pcmSco /\ n.snd = h.snd
      /\ n.micMute = h.micMute /\ n.modem = h.modem
  BY ZenonT(60) DEF Sound, HalState
<1>5. n = [h EXCEPT !.out[s].devices = d]
  BY DEF x
<1> HIDE DEF n
<1>6. Slotted(n)
  BY <1>4 DEF Matched, Slotted, Listed
<1>7. Matched(n) /\ Muted(h, n)
  BY <1>2, <1>4, <1>6 DEF Matched, Paired, Muted
<1>8. QED
  BY <1>2, <1>3, <1>4, <1>5, <1>7

LEMMA SetOutputRouteMatched ==
  ASSUME NEW h, Sound(h), Matched(h), NEW s \in Outs, NEW d \in OutRoutes,
         NEW g, Fits(h, g),
         NEW r \in [sco : BOOLEAN, tx : BOOLEAN, rx : BOOLEAN]
  PROVE  LET n == SetOutputRoute(h, s, d, g, r)
         IN  n.up => Matched(n) /\ Muted(h, n)
<1> DEFINE changed == h.out[s].devices # d
           moved   == [h EXCEPT !.out[s].devices = d]
           routed  == IF h.out[s].state # "ACTIVE" THEN moved
                      ELSE IF changed THEN StandbyOutput(moved, s)
                      ELSE SelectPlayback(moved, s, g)
           sco     == RouteSco(routed, s, r.sco)
           n       == RouteCall(sco, s, changed, g, r)
<1>1. /\ Sound(moved) /\ Matched(moved) /\ Muted(h, moved) /\ Fits(moved, g)
      /\ moved.out[s].state = h.out[s].state
  BY OutDevicesMatched DEF Fits
<1>2. SetOutputRoute(h, s, d, g, r) = n
  BY DEF SetOutputRoute
<1> HIDE DEF moved, changed
<1>3. Sound(routed) /\ Matched(routed) /\ Muted(h, routed)
  <2>1. CASE h.out[s].state # "ACTIVE"
    BY <1>1, <2>1
  <2>2. CASE h.out[s].state = "ACTIVE" /\ changed
    <3>1. LET k == StandbyOutput(moved, s)
          IN  Sound(k) /\ Matched(k) /\ Muted(moved, k)
      BY <1>1, StandbyOutputSound, StandbyOutputMatched
    <3>2. QED
      BY <1>1, <2>2, <3>1, MutedTrans
  <2>3. CASE h.out[s].state = "ACTIVE" /\ ~changed
    <3> DEFINE k == SelectPlayback(moved, s, g)
    <3>1. moved \in HalState /\ Slotted(moved) /\ UsecaseOf(s) \in moved.listed
      BY <1>1, <2>3 DEF Sound, Matched
    <3>2. Same(moved, k) /\ Slotted(k)
      BY <1>1, <3>1, SelectPlaybackSlotted
    <3>3. Sound(k)
      BY <1>1, SelectPlaybackSound
    <3> HIDE DEF k
    <3>4. Matched(k) /\ Muted(moved, k)
      BY <1>1, <3>2, SameMatched
    <3>5. Muted(h, k)
      BY <1>1, <3>4, MutedTrans
    <3>6. QED
      BY <2>3, <3>3, <3>4, <3>5 DEF k
  <2>4. QED
    BY <2>1, <2>2, <2>3
<1> HIDE DEF routed
<1>4. Sound(sco) /\ Matched(sco) /\ Muted(routed, sco)
  BY <1>3, RouteScoSound, RouteScoMatched
<1> HIDE DEF sco
<1>5. n.up => Matched(n) /\ Muted(sco, n)
  BY <1>4, RouteCallMatched
<1> HIDE DEF n
<1>6. n.up => Muted(h, n)
  BY <1>3, <1>4, <1>5, MutedTrans
<1>7. QED
  BY <1>2, <1>5, <1>6

LEMMA InFieldMatched ==
  ASSUME NEW h, Sound(h), Matched(h), NEW x \in InStream,
         x.state = "ACTIVE" <=> h.in.state = "ACTIVE", x.pcm = h.in.pcm
  PROVE  LET n == [h EXCEPT !.in = x]
         IN  Sound(n) /\ Matched(n) /\ Muted(h, n) /\ n.in = x
<1> DEFINE n == [h EXCEPT !.in = x]
<1>1. Sound(n)
  BY SoundFields
<1>2. /\ n.out = h.out /\ n.in = x /\ n.listed = h.listed /\ n.tx = h.tx
      /\ n.inCall = h.inCall /\ n.pcmVoice = h.pcmVoice
      /\ n.inCallSco = h.inCallSco /\ n.pcmSco = h.pcmSco /\ n.snd = h.snd
      /\ n.micMute = h.micMute /\ n.modem = h.modem
  BY ZenonT(60) DEF Sound, HalState
<1> HIDE DEF n
<1>3. Slotted(n)
  BY <1>2 DEF Matched, Slotted, Listed
<1>4. Matched(n) /\ Muted(h, n)
  BY <1>2, <1>3 DEF Matched, Paired, Muted
<1>5. QED
  BY <1>1, <1>2, <1>4 DEF n

LEMMA SetInputRouteMatched ==
  ASSUME NEW h, Sound(h), Matched(h), NEW source \in Sources,
         NEW device \in InDevices, NEW g
  PROVE  LET n == SetInputRoute(h, source, device, g)
         IN  Matched(n) /\ Muted(h, n)
<1> DEFINE h1 == IF source = "DEFAULT" THEN h ELSE [h EXCEPT !.in.source = source]
           h2 == [h1 EXCEPT !.in.device = device]
<1>1. Sound(h1) /\ Matched(h1) /\ Muted(h, h1) /\ h1.in.state = h.in.state
  <2> DEFINE x == [h.in EXCEPT !.source = source]
  <2>1. x \in InStream /\ x.state = h.in.state /\ x.pcm = h.in.pcm
    BY DEF Sound, HalState, InStream
  <2> HIDE DEF x
  <2>2. LET k == [h EXCEPT !.in = x]
        IN  Sound(k) /\ Matched(k) /\ Muted(h, k) /\ k.in = x
    BY <2>1, InFieldMatched
  <2>3. QED
    BY <2>1, <2>2 DEF x, Muted
<1> HIDE DEF h1
<1>2. Sound(h2) /\ Matched(h2) /\ Muted(h1, h2) /\ h2.in.state = h.in.state
  <2> DEFINE x == [h1.in EXCEPT !.device = device]
  <2>1. x \in InStream /\ x.state = h1.in.state /\ x.pcm = h1.in.pcm
    BY <1>1 DEF Sound, HalState, InStream
  <2> HIDE DEF x
  <2>2. LET k == [h1 EXCEPT !.in = x]
        IN  Sound(k) /\ Matched(k) /\ Muted(h1, k) /\ k.in = x
    BY <1>1, <2>1, InFieldMatched
  <2>3. QED
    BY <1>1, <2>1, <2>2 DEF x
<1> HIDE DEF h2
<1>3. Muted(h, h2)
  BY <1>1, <1>2, MutedTrans
<1>4. ASSUME h.in.state = "ACTIVE"
      PROVE  LET k == SelectCapture(h2, g) IN Matched(k) /\ Muted(h, k)
  <2> DEFINE k == SelectCapture(h2, g)
  <2>1. h2 \in HalState /\ Slotted(h2) /\ Holds(h2.tx, "CAPTURE")
    BY <1>2, <1>4 DEF Sound, Matched
  <2>2. Same(h2, k) /\ Slotted(k)
    BY <2>1, SelectCaptureSlotted
  <2> HIDE DEF k
  <2>3. Matched(k) /\ Muted(h2, k)
    BY <1>2, <2>2, SameMatched
  <2>4. QED
    BY <1>3, <2>3, MutedTrans DEF k
<1>5. LET k == StandbyInput(h2) IN Matched(k) /\ Muted(h, k)
  BY <1>2, <1>3, StandbyInputMatched, MutedTrans
<1>6. SetInputRoute(h, source, device, g) =
        IF h.in.device = device THEN h1
        ELSE IF h.in.state # "ACTIVE" THEN h2
        ELSE IF CanCapture(device) THEN SelectCapture(h2, g)
        ELSE StandbyInput(h2)
  BY DEF SetInputRoute, h1, h2
<1>7. QED
  BY <1>1, <1>2, <1>3, <1>4, <1>5, <1>6

(* A step that leaves the streams, the list, the slots and the sessions.    *)
Alike(h, n) ==
  /\ n.out = h.out /\ n.in = h.in /\ n.listed = h.listed /\ n.tx = h.tx
  /\ n.inCall = h.inCall /\ n.pcmVoice = h.pcmVoice
  /\ n.inCallSco = h.inCallSco /\ n.pcmSco = h.pcmSco /\ n.snd = h.snd

LEMMA AlikeMatched ==
  ASSUME NEW h, NEW n, Matched(h), Alike(h, n)
  PROVE  Matched(n)
<1>1. Slotted(n)
  BY DEF Alike, Matched, Slotted, Listed
<1>2. QED
  BY <1>1 DEF Alike, Matched, Paired

LEMMA OutFieldMatched ==
  ASSUME NEW h, Sound(h), Matched(h), NEW s \in Outs, NEW x \in OutStream,
         x.state = "ACTIVE" <=> h.out[s].state = "ACTIVE"
  PROVE  LET n == [h EXCEPT !.out[s] = x] IN Matched(n) /\ Muted(h, n)
<1> DEFINE y == [h.out EXCEPT ![s] = x]
           n == [h EXCEPT !.out = y]
<1>1. h.out \in [Outs -> OutStream]
  BY DEF Sound, HalState
<1>2. \A t \in Outs : y[t].state = "ACTIVE" <=> h.out[t].state = "ACTIVE"
  BY <1>1
<1>3. n = [h EXCEPT !.out[s] = x]
  BY DEF y
<1> HIDE DEF y
<1>4. /\ n.out = y /\ n.in = h.in /\ n.listed = h.listed /\ n.tx = h.tx
      /\ n.inCall = h.inCall /\ n.pcmVoice = h.pcmVoice
      /\ n.inCallSco = h.inCallSco /\ n.pcmSco = h.pcmSco /\ n.snd = h.snd
      /\ n.micMute = h.micMute /\ n.modem = h.modem
  BY ZenonT(60) DEF Sound, HalState
<1> HIDE DEF n
<1>5. Slotted(n)
  BY <1>4 DEF Matched, Slotted, Listed
<1>6. Matched(n) /\ Muted(h, n)
  BY <1>2, <1>4, <1>5 DEF Matched, Paired, Muted
<1>7. QED
  BY <1>3, <1>6

(* The modem is not told to unmute what stays muted. *)
Quiet(h, n) == h.modem.tx = "MUTED" /\ n.modem.tx = "UNMUTED" => ~n.micMute

LEMMA FreshMatched ==
  ASSUME NEW modem, NEW rilUp, NEW ear
  PROVE  /\ Matched(Fresh(modem, rilUp, ear))
         /\ ~Fresh(modem, rilUp, ear).micMute
         /\ Matched([Fresh(modem, rilUp, ear) EXCEPT !.up = FALSE])
         /\ ~[Fresh(modem, rilUp, ear) EXCEPT !.up = FALSE].micMute
<1> DEFINE f == Fresh(modem, rilUp, ear)
<1>1. /\ \A s \in Outs : f.out[s].state # "ACTIVE"
      /\ f.in.state # "ACTIVE" /\ f.in.pcm = FALSE /\ f.listed = {} /\ f.tx = <<>>
      /\ f.inCall = FALSE /\ f.pcmVoice = FALSE
      /\ f.inCallSco = FALSE /\ f.pcmSco = FALSE
      /\ \A s \in Slots : f.snd[s] = NONE
      /\ f.micMute = FALSE
  BY DEF Fresh, InClosed, Slots
<1>2. /\ \A w \in Playbacks : <<w, "in">> \in Slots
      /\ <<"CAPTURE", "out">> \in Slots
  BY DEF Slots, Usecases, Sides
<1>3. \A u : ~Holds(<<>>, u) /\ Once(<<>>, u)
  BY DEF Holds, Once
<1>4. Alike(f, [f EXCEPT !.up = FALSE]) /\ ~[f EXCEPT !.up = FALSE].micMute
  BY <1>1 DEF Alike, Fresh
<1> HIDE DEF f
<1>5. Slotted(f)
  BY <1>1, <1>2 DEF Slotted
<1>6. Matched(f)
  BY <1>1, <1>3, <1>5 DEF Matched, Paired
<1>7. Matched([f EXCEPT !.up = FALSE])
  BY <1>4, <1>6, AlikeMatched
<1>8. QED
  BY <1>1, <1>4, <1>6, <1>7 DEF f

LEMMA ReturnMatched ==
  ASSUME NEW h, Return(h), h.up => Matched(h) /\ Quiet(hal, h)
  PROVE  Matched(hal') /\ Quiet(hal, hal')
<1>1. CASE h.up
  BY <1>1 DEF Return
<1>2. CASE ~h.up
  BY <1>2, FreshMatched DEF Return, Dead, Quiet
<1>3. QED
  BY <1>1, <1>2

LEMMA MutedQuiet ==
  ASSUME NEW h, NEW n, Muted(h, n)
  PROVE  Quiet(h, n)
BY DEF Muted, Quiet

LEMMA InitMatched == Init => Matched(hal)
<1>1. \A modem, rilUp, ear : Matched(Fresh(modem, rilUp, ear))
  BY FreshMatched
<1>2. QED
  BY <1>1 DEF Init

------------------------------------------------------------------------------
(* Every operation keeps them in agreement *)

LEMMA StraysFit ==
  ASSUME IInv, NEW g \in Strays
  PROVE  Fits(hal, g)
<1>1. (CHOOSE x \in Garbage : TRUE) \in Garbage
  BY RoutesAssumption
<1>2. CASE g \in Garbage
  BY <1>2, RoutesAssumption DEF GarbageType, Fits
<1>3. CASE g \in Remains
  <2>1. hal.tx # <<>> /\ hal.tx[1] = "CAPTURE"
    BY <1>3 DEF Remains
  <2>2. hal.tx \in Seq({"CAPTURE", "VOICE_CALL"})
    BY DEF IInv, Sound, HalState
  <2>3. 1 \in DOMAIN hal.tx
    BY <2>1, <2>2
  <2>4. QED
    BY <2>1, <2>3 DEF Fits, Holds
<1>4. QED
  BY <1>1, <1>2, <1>3 DEF Strays

LEMMA RegisterSound ==
  ASSUME NEW h, Sound(h), NEW n \in RegisterCallbacks(h)
  PROVE  Sound(n)
<1>1. h.rilClient \in BOOLEAN /\ h.wbCallback \in BOOLEAN
  BY DEF Sound, HalState
<1> DEFINE b == h.wbCallback \/ h.rilClient
<1>2. b \in BOOLEAN
  BY <1>1
<1>3. n \in {[h EXCEPT !.wbCallback = b], h,
              [h EXCEPT !.rilClient = FALSE, !.wbCallback = FALSE]}
  BY DEF RegisterCallbacks
<1> HIDE DEF b
<1>4. QED
  BY <1>2, <1>3, SoundFields

LEMMA OutStreamMatched ==
  ASSUME IInv, Matched(hal), NEW s \in Outs,
         \/ AdevCloseOutputStream(s) \/ OutWrite(s) \/ OutStandby(s)
         \/ \E d \in OutRoutes : AdevOpenOutputStream(s, d) \/ OutSetParameters(s, d)
  PROVE  Matched(hal') /\ Quiet(hal, hal')
<1>1. Sound(hal) /\ Muted(hal, hal)
  BY DEF IInv, Muted
<1>2. CASE AdevCloseOutputStream(s)
  <2> DEFINE h == IF hal.out[s].state = "ACTIVE" THEN StandbyOutput(hal, s) ELSE hal
             x == [state |-> "CLOSED", devices |-> {"SPEAKER"}]
             n == [h EXCEPT !.out[s] = x]
  <2>1. Sound(h) /\ Matched(h) /\ Muted(hal, h) /\ h.out[s].state # "ACTIVE"
    BY <1>1, StandbyOutputSound, StandbyOutputMatched
  <2>2. Return(n)
    BY <1>2 DEF AdevCloseOutputStream
  <2> HIDE DEF h
  <2>3. x \in OutStream /\ x.state # "ACTIVE"
    BY RoutesAssumption DEF OutStream, StreamStates
  <2> HIDE DEF x
  <2>4. Matched(n) /\ Muted(h, n)
    BY <2>1, <2>3, OutFieldMatched
  <2> HIDE DEF n
  <2>5. QED
    BY <2>1, <2>2, <2>4, MutedTrans, MutedQuiet, ReturnMatched
<1>3. CASE OutWrite(s)
  <2>1. PICK g \in Strays, opened \in Opened : Return(StartOutput(hal, s, g, opened))
    BY <1>3 DEF OutWrite
  <2>2. Fits(hal, g) /\ opened \in BOOLEAN /\ hal.out[s].state # "ACTIVE"
    BY <1>3, EnvironmentInputs, StraysFit DEF OutWrite
  <2> DEFINE n == StartOutput(hal, s, g, opened)
  <2>3. Matched(n) /\ Muted(hal, n)
    BY <1>1, <2>2, StartOutputMatched
  <2> HIDE DEF n
  <2>4. QED
    BY <2>1, <2>3, MutedQuiet, ReturnMatched DEF n
<1>4. CASE OutStandby(s)
  BY <1>1, <1>4, StandbyOutputMatched, MutedQuiet, ReturnMatched DEF OutStandby
<1>5. ASSUME NEW d \in OutRoutes, AdevOpenOutputStream(s, d)
      PROVE  Matched(hal') /\ Quiet(hal, hal')
  <2> DEFINE x == [state |-> "STANDBY", devices |-> d]
             n == [hal EXCEPT !.out[s] = x]
  <2>1. Return(n) /\ hal.out[s].state = "CLOSED"
    BY <1>5 DEF AdevOpenOutputStream
  <2>2. x \in OutStream /\ x.state # "ACTIVE"
    BY DEF OutStream, StreamStates
  <2> HIDE DEF x
  <2>3. Matched(n) /\ Muted(hal, n)
    BY <1>1, <2>1, <2>2, OutFieldMatched
  <2> HIDE DEF n
  <2>4. QED
    BY <2>1, <2>3, MutedQuiet, ReturnMatched
<1>6. ASSUME NEW d \in OutRoutes, OutSetParameters(s, d)
      PROVE  Matched(hal') /\ Quiet(hal, hal')
  <2>1. PICK g \in Strays, r \in CallResults : Return(SetOutputRoute(hal, s, d, g, r))
    BY <1>6 DEF OutSetParameters
  <2>2. Fits(hal, g) /\ r \in [sco : BOOLEAN, tx : BOOLEAN, rx : BOOLEAN]
    BY EnvironmentInputs, StraysFit
  <2> DEFINE n == SetOutputRoute(hal, s, d, g, r)
  <2>3. n.up => Matched(n) /\ Muted(hal, n)
    BY <1>1, <2>2, SetOutputRouteMatched
  <2> HIDE DEF n
  <2>4. QED
    BY <2>1, <2>3, MutedQuiet, ReturnMatched DEF n
<1>7. QED
  BY <1>2, <1>3, <1>4, <1>5, <1>6

LEMMA InStreamMatched ==
  ASSUME IInv, Matched(hal),
         \/ AdevCloseInputStream \/ InRead \/ InStandby
         \/ \E source \in UsedSources, device \in InRoutes :
              AdevOpenInputStream(source, device) \/ InSetParameters(source, device)
  PROVE  Matched(hal') /\ Quiet(hal, hal')
<1>1. Sound(hal)
  BY DEF IInv
<1>2. CASE AdevCloseInputStream
  <2> DEFINE h == StandbyInput(hal)
             c == IF h.in.pcm THEN [h.in EXCEPT !.state = "CLOSED", !.stale = TRUE]
                  ELSE InClosed
             n == [h EXCEPT !.in = c]
  <2>1. Sound(h) /\ Matched(h) /\ Muted(hal, h) /\ h.in.state # "ACTIVE"
    BY <1>1, StandbyInputSound, StandbyInputMatched
  <2>2. Return(n)
    BY <1>2 DEF AdevCloseInputStream
  <2> HIDE DEF h
  <2>3. c \in InStream /\ c.state # "ACTIVE" /\ c.pcm = h.in.pcm
    BY <2>1 DEF InClosed, Sound, HalState, InStream, StreamStates, Sources, InDevices
  <2> HIDE DEF c
  <2>4. Matched(n) /\ Muted(h, n)
    BY <2>1, <2>3, InFieldMatched
  <2> HIDE DEF n
  <2>5. QED
    BY <2>1, <2>2, <2>4, MutedTrans, MutedQuiet, ReturnMatched
<1>3. CASE InRead
  <2>1. PICK g \in Strays, opened \in Opened, created \in Created :
          Return(StartInput(hal, g, opened, created))
    BY <1>3 DEF InRead
  <2>2. /\ opened \in BOOLEAN /\ created \in BOOLEAN /\ hal.in.state # "ACTIVE"
        /\ created \/ ~ResamplersMade
    BY <1>3, EnvironmentInputs DEF InRead, Created, ResamplersMade
  <2> DEFINE n == StartInput(hal, g, opened, created)
  <2>3. Matched(n) /\ Muted(hal, n)
    BY <1>1, <2>2, StartInputMatched
  <2> HIDE DEF n
  <2>4. QED
    BY <2>1, <2>3, MutedQuiet, ReturnMatched DEF n
<1>4. CASE InStandby
  BY <1>1, <1>4, StandbyInputMatched, MutedQuiet, ReturnMatched DEF InStandby
<1>5. ASSUME NEW source \in UsedSources, NEW device \in InRoutes,
             AdevOpenInputStream(source, device)
      PROVE  Matched(hal') /\ Quiet(hal, hal')
  <2> DEFINE i == [hal.in EXCEPT !.state = "STANDBY", !.source = source,
                                 !.device = device]
             n == [hal EXCEPT !.in = i]
  <2>1. Return(n) /\ hal.in.state = "CLOSED"
    BY <1>5 DEF AdevOpenInputStream
  <2>2. i \in InStream /\ i.state # "ACTIVE" /\ i.pcm = hal.in.pcm
    BY <1>1, RoutesAssumption DEF Sound, HalState, InStream, StreamStates
  <2> HIDE DEF i
  <2>3. Matched(n) /\ Muted(hal, n)
    BY <1>1, <2>1, <2>2, InFieldMatched
  <2> HIDE DEF n
  <2>4. QED
    BY <2>1, <2>3, MutedQuiet, ReturnMatched
<1>6. ASSUME NEW source \in UsedSources, NEW device \in InRoutes,
             InSetParameters(source, device)
      PROVE  Matched(hal') /\ Quiet(hal, hal')
  <2>1. PICK g \in Strays : Return(SetInputRoute(hal, source, device, g))
    BY <1>6 DEF InSetParameters
  <2> DEFINE n == SetInputRoute(hal, source, device, g)
  <2>2. Matched(n) /\ Muted(hal, n)
    BY <1>1, RoutesAssumption, SetInputRouteMatched
  <2> HIDE DEF n
  <2>3. QED
    BY <2>1, <2>2, MutedQuiet, ReturnMatched DEF n
<1>7. QED
  BY <1>2, <1>3, <1>4, <1>5, <1>6

LEMMA SetModeMatched ==
  ASSUME IInv, Matched(hal), NEW mode \in Modes, AdevSetMode(mode)
  PROVE  Matched(hal') /\ Quiet(hal, hal')
<1>1. Sound(hal) /\ hal.rilClient \in BOOLEAN /\ hal.wbCallback \in BOOLEAN
  BY DEF IInv, Sound, HalState
<1>2. PICK h1 \in IF mode = "IN_CALL" THEN RegisterCallbacks(hal) ELSE {hal} :
        LET h2 == [h1 EXCEPT !.mode = mode]
        IN  Return(IF mode = "NORMAL" /\ h2.inCall THEN StopVoiceCall(h2) ELSE h2)
  BY DEF AdevSetMode
<1>3. Sound(h1)
  BY <1>1, <1>2, RegisterSound
<1>4. Alike(hal, h1) /\ Muted(hal, h1)
  <2>1. Alike(hal, hal) /\ Muted(hal, hal)
    BY DEF Alike, Muted
  <2>2. ASSUME NEW b, NEW c, h1 = [hal EXCEPT !.rilClient = b, !.wbCallback = c]
        PROVE  Alike(hal, h1) /\ Muted(hal, h1)
    BY <1>1, <2>2, ZenonT(60) DEF Alike, Muted, Sound, HalState
  <2>3. ASSUME NEW c, h1 = [hal EXCEPT !.wbCallback = c]
        PROVE  Alike(hal, h1) /\ Muted(hal, h1)
    BY <1>1, <2>3, ZenonT(60) DEF Alike, Muted, Sound, HalState
  <2>4. \/ h1 = hal \/ \E c : h1 = [hal EXCEPT !.wbCallback = c]
        \/ \E b, c : h1 = [hal EXCEPT !.rilClient = b, !.wbCallback = c]
    BY <1>2 DEF RegisterCallbacks
  <2>5. QED
    BY <2>1, <2>2, <2>3, <2>4, Zenon
<1> DEFINE h2 == [h1 EXCEPT !.mode = mode]
           n  == StopVoiceCall(h2)
<1>5. Sound(h2)
  BY <1>3, SoundFields
<1>6. Alike(h1, h2) /\ Muted(h1, h2)
  BY <1>3 DEF Alike, Muted
<1>7. Return(h2) \/ Return(n)
  BY <1>2
<1> HIDE DEF h2
<1>8. Matched(h2) /\ Muted(hal, h2)
  BY <1>4, <1>6, AlikeMatched, MutedTrans
<1>9. Matched(n) /\ Muted(h2, n)
  BY <1>5, <1>8, StopVoiceCallMatched
<1> HIDE DEF n
<1>10. QED
  BY <1>7, <1>8, <1>9, MutedTrans, MutedQuiet, ReturnMatched

LEMMA SettingMatched ==
  ASSUME IInv, Matched(hal),
         \/ \E state \in BOOLEAN : AdevSetMicMute(state)
         \/ \E volume \in Volumes : AdevSetVoiceVolume(volume)
         \/ \E p \in BtParams : AdevSetParameters(p[1], p[2])
         \/ \E t \in WbReports : WbAmrCallback(t)
  PROVE  Matched(hal') /\ Quiet(hal, hal')
<1>1. hal \in HalState /\ hal.modem \in Modem
  BY DEF IInv, Sound, HalState
<1>2. ASSUME NEW state \in BOOLEAN, AdevSetMicMute(state)
      PROVE  Matched(hal') /\ Quiet(hal, hal')
  <2> DEFINE h == [hal EXCEPT !.micMute = state]
             c == IF state THEN "MUTED" ELSE "UNMUTED"
             n == RilSetMute(h, c)
  <2>1. Return(IF h.mode = "IN_CALL" THEN n ELSE h)
    BY <1>2 DEF AdevSetMicMute
  <2>2. Alike(hal, h) /\ h.micMute = state /\ h.modem = hal.modem
    BY <1>1, ZenonT(60) DEF Alike, HalState
  <2>3. Sound(h)
    BY SoundFields DEF IInv
  <2>4. /\ Alike(h, n) /\ n.micMute = h.micMute
        /\ n.modem.tx = h.modem.tx \/ n.modem.tx = c
    <3> DEFINE m == [h.modem EXCEPT !.tx = c]
               k == [h EXCEPT !.modem = m]
    <3>1. h \in HalState /\ h.modem \in Modem
      BY <1>1, <2>2, <2>3 DEF Sound
    <3>2. m.tx = c
      BY <3>1 DEF Modem
    <3>3. n = h \/ n = k
      BY DEF RilSetMute
    <3> HIDE DEF h, m, n
    <3>4. Alike(h, k) /\ k.micMute = h.micMute /\ k.modem = m
      BY <3>1, ZenonT(60) DEF Alike, HalState
    <3> HIDE DEF k
    <3>5. Alike(h, h)
      BY DEF Alike
    <3>6. QED
      BY <3>2, <3>3, <3>4, <3>5
  <2> HIDE DEF h, n
  <2>5. Matched(h) /\ Matched(n)
    BY <2>2, <2>4, AlikeMatched
  <2>6. Quiet(hal, h) /\ Quiet(hal, n)
    BY <2>2, <2>4 DEF Quiet
  <2>7. QED
    BY <2>1, <2>5, <2>6, ReturnMatched
<1>3. ASSUME NEW volume \in Volumes, AdevSetVoiceVolume(volume)
      PROVE  Matched(hal') /\ Quiet(hal, hal')
  <2> DEFINE h == [hal EXCEPT !.volume = volume]
             n == VoiceVolume(h)
  <2>1. Return(n)
    BY <1>3 DEF AdevSetVoiceVolume
  <2>2. Alike(hal, h) /\ h.micMute = hal.micMute /\ h.modem = hal.modem
    BY <1>1, ZenonT(60) DEF Alike, HalState
  <2>3. h.modem \in Modem
    BY <1>1, <2>2
  <2> HIDE DEF h
  <2>4. Alike(h, n) /\ n.micMute = h.micMute /\ n.modem.tx = h.modem.tx
    BY <2>3 DEF VoiceVolume, RilSetVolume, Alike, Modem
  <2> HIDE DEF n
  <2>5. Matched(n) /\ Muted(hal, n)
    <3>1. Matched(h)
      BY <2>2, AlikeMatched
    <3>2. QED
      BY <2>2, <2>4, <3>1, AlikeMatched DEF Muted
  <2>6. QED
    BY <2>1, <2>5, MutedQuiet, ReturnMatched
<1>4. ASSUME NEW p \in BtParams, AdevSetParameters(p[1], p[2])
      PROVE  Matched(hal') /\ Quiet(hal, hal')
  <2> DEFINE n == [hal EXCEPT !.nrec = p[1], !.btWb = p[2]]
  <2>1. Return(n)
    BY <1>4 DEF AdevSetParameters
  <2>2. Alike(hal, n) /\ n.micMute = hal.micMute /\ n.modem = hal.modem
    BY <1>1, ZenonT(60) DEF Alike, HalState
  <2> HIDE DEF n
  <2>3. Matched(n) /\ Muted(hal, n)
    BY <2>2, AlikeMatched DEF Muted
  <2>4. QED
    BY <2>1, <2>3, MutedQuiet, ReturnMatched
<1>5. ASSUME NEW t \in WbReports, WbAmrCallback(t)
      PROVE  Matched(hal') /\ Quiet(hal, hal')
  <2> DEFINE h == [hal EXCEPT !.modem.wbAmr = t]
             n == [h EXCEPT !.wbAmr = WbAmrOf(hal, t)]
  <2>1. Return(n)
    BY <1>5 DEF WbAmrCallback
  <2>2. Alike(hal, h) /\ h.micMute = hal.micMute /\ h.modem.tx = hal.modem.tx
    BY <1>1, ZenonT(60) DEF Alike, HalState, Modem
  <2> HIDE DEF h
  <2>3. Alike(h, n) /\ n.micMute = h.micMute /\ n.modem = h.modem
    BY DEF Alike
  <2> HIDE DEF n
  <2>4. Matched(n) /\ Muted(hal, n)
    <3>1. Matched(h)
      BY <2>2, AlikeMatched
    <3>2. QED
      BY <2>2, <2>3, <3>1, AlikeMatched DEF Muted
  <2>5. QED
    BY <2>1, <2>4, MutedQuiet, ReturnMatched
<1>6. QED
  BY <1>2, <1>3, <1>4, <1>5

LEMMA SurroundingsMatched ==
  ASSUME IInv, Matched(hal),
         AdevGetMicMute \/ PcmClockCallback \/ RilToggles \/ Restart
  PROVE  Matched(hal') /\ Quiet(hal, hal')
<1>1. Muted(hal, hal)
  BY DEF Muted
<1>2. CASE RilToggles
  <2>1. /\ Alike(hal, hal') /\ hal'.micMute = hal.micMute
        /\ hal'.modem = hal.modem
    BY <1>2 DEF RilToggles, Alike, IInv, Sound, HalState
  <2>2. QED
    BY <2>1, AlikeMatched DEF Quiet
<1>3. CASE Restart
  BY <1>3, FreshMatched DEF Restart, Quiet
<1>4. CASE PcmClockCallback
  BY <1>1, <1>4, MutedQuiet, ReturnMatched DEF PcmClockCallback, SetPcmClock
<1>5. CASE AdevGetMicMute
  BY <1>1, <1>5, MutedQuiet DEF AdevGetMicMute
<1>6. QED
  BY <1>2, <1>3, <1>4, <1>5

LEMMA NextMatched ==
  IInv /\ Matched(hal) /\ [Next]_hal => Matched(hal') /\ Quiet(hal, hal')
<1> SUFFICES ASSUME IInv, Matched(hal), [Next]_hal
             PROVE  Matched(hal') /\ Quiet(hal, hal')
  OBVIOUS
<1>1. CASE Next
  BY <1>1, OutStreamMatched, InStreamMatched, SetModeMatched, SettingMatched,
     SurroundingsMatched DEF Next
<1>2. CASE UNCHANGED hal
  BY <1>2 DEF Quiet
<1>3. QED
  BY <1>1, <1>2

------------------------------------------------------------------------------
(* The inductive invariant: the reference counts of AudioHalProofs, and that
   the streams, the list, the paths and the flags of the sessions agree.   *)
MInv == IInv /\ Matched(hal)

(* After every entry point of the device and of its streams: the invariant
   that the theorems below rest on.                                        *)
THEOREM MatchedInvariance == Spec => []MInv
<1>1. Init => MInv
  BY InitSound, InitMatched DEF MInv
<1>2. MInv /\ [Next]_hal => MInv'
  BY NextSound, NextMatched DEF MInv, Matched
<1>3. QED
  BY <1>1, <1>2, PTL DEF Spec

(* Every reachable state is well typed: no operation, whatever fails in it  *)
(* and whatever garbage a call's stream is read as, stores a value outside  *)
(* its C type; in particular no reference count of audio_hw.c goes below 0. *)
THEOREM TypeCorrect == Spec => []TypeOK
<1>1. MInv => TypeOK
  BY DEF MInv, IInv, Sound, TypeOK
<1>2. QED
  BY <1>1, MatchedInvariance, PTL

(* Where the resamplers are created, snd_dev_ref_cnt of every mixer path is *)
(* the number of usecases routed to it after every operation of audio_hw.c, *)
(* for all routes, modes, sources, other failures and garbage.              *)
THEOREM RefCountsExact ==
  ASSUME ResamplersMade
  PROVE  Spec => []RefCountsMatch
<1>1. MInv => RefCountsMatch
  BY DEF MInv, IInv, Sound, Counts, Exact, RefCountsMatch
<1>2. QED
  BY <1>1, MatchedInvariance, PTL

(* usecase_list holds the playbacks as a set and the rest as a sequence.   *)
LEMMA ListedHow ==
  ASSUME NEW h \in HalState
  PROVE  /\ \A u \in Playbacks : Listed(h, u) <=> u \in h.listed
         /\ \A u \in {"CAPTURE", "VOICE_CALL"} : Listed(h, u) <=> Holds(h.tx, u)
<1>1. h.listed \in SUBSET Playbacks /\ h.tx \in Seq({"CAPTURE", "VOICE_CALL"})
  BY DEF HalState
<1>2. QED
  BY <1>1 DEF Listed, Holds, Playbacks

(* A playback has its usecase in usecase_list exactly while it is out of
   standby and the capture exactly while its PCM is open, which outlasts the
   stream's activity only where create_resampler may fail; and only a listed
   usecase holds a sound device: start_output_stream, start_input_stream, the
   standby of both and all their error paths.                              *)
THEOREM StreamsMatch == Spec => []StreamsMatchUsecases
<1>1. MInv => StreamsMatchUsecases
  <2> SUFFICES ASSUME MInv PROVE StreamsMatchUsecases
    OBVIOUS
  <2>1. hal \in HalState /\ Matched(hal) /\ Slotted(hal)
    BY DEF MInv, IInv, Sound, Matched
  <2>2. \A s \in Outs : UsecaseOf(s) \in Playbacks
    BY DEF UsecaseOf, Playbacks
  <2>3. QED
    BY <2>1, <2>2, ListedHow
       DEF StreamsMatchUsecases, Matched, Paired, ResamplersMade, Slotted, Slots
<1>2. QED
  BY <1>1, MatchedInvariance, PTL

(* check_and_route_usecases leaves all playbacks in usecase_list on the same
   sound device, whatever the mode and whichever stream was routed.        *)
THEOREM PlaybacksShare == Spec => []PlaybacksShareDevice
<1>1. MInv => PlaybacksShareDevice
  BY DEF MInv, Matched, Slotted, PlaybacksShareDevice
<1>2. QED
  BY <1>1, MatchedInvariance, PTL

(* The PCMs of the call, of SCO and of the two playbacks are four different
   ones.                                                                   *)
LEMMA PcmsApart ==
  /\ SoundIds.voice = 1 /\ SoundIds.sco = 2
  /\ OutPcm("primary") = 3 /\ OutPcm("fast") = 6
<1>1. SoundIds.voice = 1 /\ SoundIds.sco = 2 /\ OutPcm("primary") = 3
  BY DEF SoundIds, OutPcm, UsecaseOf
<1>2. GetPcmDevice("PLAYBACK", {"SPEAKER"}) = {1}
  <2> DEFINE Serves(j) == /\ PcmDevices[j].type = "PLAYBACK"
                          /\ {"SPEAKER"} # {} /\ {"SPEAKER"} \subseteq PcmDevices[j].devices
  <2>1. /\ DOMAIN PcmDevices = 1..3
        /\ PcmDevices[1].type = "PLAYBACK" /\ PcmDevices[1].devices = OutDevices
        /\ PcmDevices[2].type = "CAPTURE"
    BY DEF PcmDevices
  <2>2. "SPEAKER" \in OutDevices
    BY DEF OutDevices
  <2>3. Serves(1) /\ ~Serves(2)
    BY <2>1, <2>2
  <2> HIDE DEF Serves
  <2>4. {i \in DOMAIN PcmDevices : Serves(i) /\ \A j \in 1..(i - 1) : ~Serves(j)} = {1}
    BY <2>1, <2>3
  <2>5. QED
    BY <2>4 DEF GetPcmDevice, Serves
<1>3. OutPcm("fast") = 6
  <2>1. (CHOOSE i \in {1} : TRUE) = 1
    OBVIOUS
  <2>2. PcmDevices[1].id = 6
    BY DEF PcmDevices, SoundIds
  <2>3. UsecaseOf("fast") = "PLAYBACK"
    BY DEF UsecaseOf
  <2>4. QED
    BY <1>2, <2>1, <2>2, <2>3 DEF OutPcm
<1>4. QED
  BY <1>1, <1>3

(* The flags and the PCMs of the call and of the SCO session go together on
   every path of start_voice_call, stop_voice_call and start_bt_sco, the failed
   opens included, and no two users of the card have the same PCM open.    *)
THEOREM SessionsMatch == Spec => []SessionsMatchPcms
<1>1. MInv => SessionsMatchPcms
  <2> SUFFICES ASSUME MInv PROVE SessionsMatchPcms
    OBVIOUS
  <2>1. hal \in HalState /\ Matched(hal)
    BY DEF MInv, IInv, Sound
  <2>2. hal.inCall => Listed(hal, "VOICE_CALL")
    BY <2>1, ListedHow DEF Matched
  <2>3. OpenPcms(hal) \subseteq
          {<<"primary", 3>>, <<"fast", 6>>, <<"call", 1>>, <<"sco", 2>>}
    BY PcmsApart DEF OpenPcms, Outs
  <2>4. QED
    BY <2>1, <2>2, <2>3 DEF SessionsMatchPcms, Matched
<1>2. QED
  BY <1>1, MatchedInvariance, PTL

(* No step unmutes the call on the modem while mic_mute is set: the unmute of
   select_devices and of adev_set_mic_mute.                                *)
THEOREM MuteHolds == Spec => NoUnmuteWhileMuted
<1>1. MInv /\ [Next]_hal =>
        [hal.modem.tx = "MUTED" /\ hal'.modem.tx = "UNMUTED" => ~hal'.micMute]_hal
  BY NextMatched DEF MInv, Quiet
<1>2. QED
  BY <1>1, MatchedInvariance, PTL DEF Spec, NoUnmuteWhileMuted

------------------------------------------------------------------------------
(* What holds of a call, when its PCMs open *)

(* The audio server lives and has its output, and a call that is linked,    *)
(* once, is up.                                                             *)
One(h) ==
  /\ h.up /\ h.out["primary"].state # "CLOSED"
  /\ Whole(h.tx)
  /\ h.inCall <=> Holds(h.tx, "VOICE_CALL")

Rested(h) == h.mode = "NORMAL" => ~h.inCall

(* The other usecases are on the devices of the call. *)
SharedBut(h, u) ==
  /\ h.snd[<<"VOICE_CALL", "out">>] # NONE /\ h.snd[<<"VOICE_CALL", "in">>] # NONE
  /\ \A w \in h.listed \ {u} : h.snd[<<w, "out">>] = h.snd[<<"VOICE_CALL", "out">>]
  /\ Holds(h.tx, "CAPTURE") /\ u # "CAPTURE" =>
       h.snd[<<"CAPTURE", "in">>] = h.snd[<<"VOICE_CALL", "in">>]
Shared(h) == SharedBut(h, "VOICE_CALL")
Led(h) == h.inCall => h.mode = "IN_CALL" /\ Shared(h)

(* The modem can be told, and in a call was. *)
Ready(h) == h.rilClient /\ h.rilUp
Informed(h) == h.inCall => Told(h)

(* The voice processor listens to the call's microphones, or sleeps. *)
Heard(h) ==
  Audience => h.ear.route \in
    (IF h.inCall THEN CallRoutes(RouteMicrophones(h.out["primary"].devices))
     ELSE {AudienceSleep})

(* What an operation in a settled state settles again. *)
Settled(h, n) ==
  /\ One(n)
  /\ n.mode = h.mode
  /\ Rested(h) => Rested(n)
  /\ Ready(h) => Ready(n)
  /\ Led(h) => Led(n)
Kept(h, n) ==
  /\ Settled(h, n)
  /\ Led(h) /\ Heard(h) => Heard(n)
  /\ Led(h) /\ Ready(h) /\ Informed(h) => Informed(n)

LEMMA SettledTrans ==
  ASSUME NEW h, NEW m, NEW n, Settled(h, m), Settled(m, n)
  PROVE  Settled(h, n)
BY DEF Settled

LEMMA KeptTrans ==
  ASSUME NEW h, NEW m, NEW n, Kept(h, m), Kept(m, n)
  PROVE  Kept(h, n)
<1>1. Settled(h, n)
  BY SettledTrans DEF Kept
<1>2. QED
  BY <1>1 DEF Kept, Settled

LEMMA KeptSelf == ASSUME NEW h, One(h) PROVE Kept(h, h)
BY DEF Kept, Settled

(* The start or the end of a stream. *)
LEMMA CoreKept ==
  ASSUME NEW h, NEW n, One(h), Core(h, n), n.up = h.up,
         Whole(n.tx),
         Holds(n.tx, "VOICE_CALL") <=> Holds(h.tx, "VOICE_CALL"),
         n.out["primary"].devices = h.out["primary"].devices,
         h.out["primary"].state # "CLOSED" => n.out["primary"].state # "CLOSED",
         h.inCall /\ h.mode = "IN_CALL" /\ Shared(h) => Shared(n)
  PROVE  Kept(h, n)
<1>1. /\ n.inCall = h.inCall /\ n.mode = h.mode /\ n.ear = h.ear
      /\ n.rilClient = h.rilClient /\ n.rilUp = h.rilUp
      /\ Told(h) => Told(n)
  BY DEF Core
<1>2. One(n)
  BY <1>1 DEF One
<1>3. (Rested(h) => Rested(n)) /\ (Ready(h) => Ready(n))
  BY <1>1 DEF Rested, Ready
<1>4. Led(h) => Led(n)
  BY <1>1 DEF Led
<1>5. Heard(h) => Heard(n)
  BY <1>1 DEF Heard
<1>6. Informed(h) => Informed(n)
  BY <1>1 DEF Informed
<1>7. QED
  BY <1>1, <1>2, <1>3, <1>4, <1>5, <1>6 DEF Kept, Settled

(* A step that only changes settings. *)
LEMMA SharedAlike ==
  ASSUME NEW h, NEW n, n.snd = h.snd, n.listed = h.listed, n.tx = h.tx, Shared(h)
  PROVE  Shared(n)
BY DEF Shared, SharedBut

(* In a call, another usecase is put on the devices of the call. *)
LEMMA SwitchShared ==
  ASSUME NEW h \in HalState, NEW u \in {"DEEP_BUFFER", "PLAYBACK", "CAPTURE"},
         Listed(h, u), SharedBut(h, u), NEW outs,
         NEW out, out = IF u = "CAPTURE" THEN NONE ELSE h.snd[<<"VOICE_CALL", "out">>],
         NEW in, in = IF u = "CAPTURE" THEN h.snd[<<"VOICE_CALL", "in">>] ELSE NONE
  PROVE  Shared(SwitchDevices(h, u, out, in, outs))
<1> DEFINE n == SwitchDevices(h, u, out, in, outs)
           a == <<"VOICE_CALL", "out">>
           b == <<"VOICE_CALL", "in">>
           c == <<"CAPTURE", "in">>
<1>1. /\ a \in Slots /\ b \in Slots /\ c \in Slots /\ NONE \in SndDevice
      /\ u \in Usecases
      /\ \A w \in Playbacks : <<w, "out">> \in Slots
      /\ h.listed \subseteq Playbacks
  BY DEF Slots, Usecases, Sides, Playbacks, SndDevice, HalState
<1>2. h.snd[a] \in SndDevice /\ h.snd[b] \in SndDevice
  BY <1>1 DEF HalState, Slots
<1>3. out \in SndDevice /\ in \in SndDevice
  BY <1>1, <1>2
<1>4. Switched(h, u, out, in, n)
  BY <1>1, <1>3, SwitchDevicesSwitched
<1> HIDE DEF n
<1>5. /\ Same(h, n)
      /\ n.snd[<<u, "out">>] = out /\ n.snd[<<u, "in">>] = in
      /\ n = h \/ \A s \in Slots : n.snd[s] = Moved(h, u, out, in, s)
  BY <1>4 DEF Switched
<1>6. n.listed = h.listed /\ n.tx = h.tx
  BY <1>5 DEF Same
<1>7. n.snd[a] = h.snd[a] /\ n.snd[b] = h.snd[b]
  <2>1. Moved(h, u, out, in, a) = h.snd[a] /\ Moved(h, u, out, in, b) = h.snd[b]
    BY DEF Moved, Backend, Playbacks
  <2>2. QED
    BY <1>1, <1>5, <2>1
<1>8. ASSUME NEW w \in h.listed
      PROVE  n.snd[<<w, "out">>] = h.snd[a]
  <2>1. <<w, "out">> \in Slots /\ w # "CAPTURE" /\ Listed(h, w) /\ w \in Playbacks
    BY <1>1 DEF Playbacks, Listed
  <2>2. CASE w = u
    BY <1>5, <2>1, <2>2
  <2>3. CASE w # u
    <3>1. h.snd[<<w, "out">>] = h.snd[a]
      BY <2>1, <2>3 DEF SharedBut
    <3>2. Moved(h, u, out, in, <<w, "out">>) \in {out, h.snd[<<w, "out">>]}
      BY DEF Moved
    <3>3. u = "CAPTURE" => Moved(h, u, out, in, <<w, "out">>) = h.snd[<<w, "out">>]
      BY <2>3 DEF Moved
    <3>4. QED
      BY <1>5, <2>1, <3>1, <3>2, <3>3
  <2>4. QED
    BY <2>2, <2>3
<1>9. ASSUME Holds(h.tx, "CAPTURE")
      PROVE  n.snd[c] = h.snd[b]
  <2>1. CASE u = "CAPTURE"
    BY <1>5, <2>1
  <2>2. CASE u # "CAPTURE"
    <3>1. h.snd[c] = h.snd[b]
      BY <1>9, <2>2 DEF SharedBut
    <3>2. Moved(h, u, out, in, c) = h.snd[c]
      BY <2>2 DEF Moved
    <3>3. QED
      BY <1>1, <1>5, <3>1, <3>2
  <2>3. QED
    BY <2>1, <2>2
<1>10. Shared(n)
  BY <1>6, <1>7, <1>8, <1>9 DEF Shared, SharedBut
<1>11. QED
  BY <1>10 DEF n

LEMMA SelectPlaybackShared ==
  ASSUME NEW h \in HalState, NEW s \in Outs, UsecaseOf(s) \in h.listed, NEW g,
         h.inCall, h.mode = "IN_CALL", Holds(h.tx, "VOICE_CALL"),
         SharedBut(h, UsecaseOf(s))
  PROVE  Shared(SelectPlayback(h, s, g))
<1> DEFINE u == UsecaseOf(s)
           out == h.snd[<<"VOICE_CALL", "out">>]
<1>1. /\ u \in {"DEEP_BUFFER", "PLAYBACK"} /\ Listed(h, u)
      /\ Listed(h, "VOICE_CALL")
  BY DEF UsecaseOf, Listed, Holds
<1>2. CallDevice(h, "out") = out /\ out # NONE
  BY <1>1 DEF CallDevice, SharedBut
<1>3. SelectPlayback(h, s, g) = SwitchDevices(h, u, out, NONE, h.out[s].devices)
  BY <1>2 DEF SelectPlayback
<1>4. Shared(SwitchDevices(h, u, out, NONE, h.out[s].devices))
  <2> HIDE DEF u, out
  <2>1. u \in {"DEEP_BUFFER", "PLAYBACK", "CAPTURE"} /\ u # "CAPTURE"
    BY <1>1
  <2>2. SharedBut(h, u) /\ out = h.snd[<<"VOICE_CALL", "out">>]
    BY DEF u, out
  <2>3. QED
    BY <1>1, <2>1, <2>2, SwitchShared
<1>5. QED
  BY <1>3, <1>4

LEMMA SelectCaptureShared ==
  ASSUME NEW h \in HalState, NEW g, Holds(h.tx, "CAPTURE"),
         h.inCall, h.mode = "IN_CALL", Holds(h.tx, "VOICE_CALL"),
         SharedBut(h, "CAPTURE")
  PROVE  Shared(SelectCapture(h, g))
<1> DEFINE in == h.snd[<<"VOICE_CALL", "in">>]
<1>1. Listed(h, "CAPTURE") /\ Listed(h, "VOICE_CALL")
  BY DEF Listed, Holds
<1>2. CallDevice(h, "in") = in /\ in # NONE
  BY <1>1 DEF CallDevice, SharedBut
<1>3. SelectCapture(h, g) = SwitchDevices(h, "CAPTURE", NONE, in, g.outs)
  BY <1>2 DEF SelectCapture
<1>4. Shared(SwitchDevices(h, "CAPTURE", NONE, in, g.outs))
  BY <1>1, SwitchShared
<1>5. QED
  BY <1>3, <1>4

(* Other fields than those of a stream keep their values. *)
LEMMA OutField ==
  ASSUME NEW h \in HalState, NEW x \in [Outs -> OutStream]
  PROVE  LET n == [h EXCEPT !.out = x]
         IN  /\ n \in HalState /\ n.out = x /\ n.in = h.in
             /\ n.snd = h.snd /\ n.listed = h.listed /\ n.tx = h.tx
             /\ SameCall(h, n) /\ SameSco(h, n) /\ n.up = h.up /\ n.mode = h.mode
             /\ n.rilClient = h.rilClient /\ n.rilUp = h.rilUp
             /\ n.modem = h.modem /\ n.volume = h.volume /\ n.ear = h.ear
<1>1. [h EXCEPT !.out = x] \in HalState
  BY ZenonT(60) DEF HalState
<1>2. QED
  BY <1>1, ZenonT(60) DEF HalState, SameCall, SameSco

LEMMA InField ==
  ASSUME NEW h \in HalState, NEW x \in InStream
  PROVE  LET n == [h EXCEPT !.in = x]
         IN  /\ n \in HalState /\ n.out = h.out /\ n.in = x
             /\ n.snd = h.snd /\ n.listed = h.listed /\ n.tx = h.tx
             /\ SameCall(h, n) /\ SameSco(h, n) /\ n.up = h.up /\ n.mode = h.mode
             /\ n.rilClient = h.rilClient /\ n.rilUp = h.rilUp
             /\ n.modem = h.modem /\ n.volume = h.volume /\ n.ear = h.ear
<1>1. [h EXCEPT !.in = x] \in HalState
  BY ZenonT(60) DEF HalState
<1>2. QED
  BY <1>1, ZenonT(60) DEF HalState, SameCall, SameSco

LEMMA SameKept ==
  ASSUME NEW h, NEW n, One(h), Same(h, n),
         h.inCall /\ h.mode = "IN_CALL" /\ Shared(h) => Shared(n)
  PROVE  Kept(h, n)
<1>1. /\ Core(h, n) /\ n.up = h.up /\ n.out = h.out /\ n.tx = h.tx
  BY DEF One, Same, Rest
<1>2. Whole(n.tx)
  BY <1>1 DEF One
<1>3. QED
  BY <1>1, <1>2, CoreKept

LEMMA SelectPlaybackKept ==
  ASSUME NEW h, Sound(h), Matched(h), One(h), NEW s \in Outs,
         h.out[s].state = "ACTIVE", NEW g, Fits(h, g)
  PROVE  Kept(h, SelectPlayback(h, s, g))
<1> DEFINE n == SelectPlayback(h, s, g)
<1>1. h \in HalState /\ Slotted(h) /\ UsecaseOf(s) \in h.listed
  BY DEF Sound, Matched
<1>2. Same(h, n)
  BY <1>1, SelectPlaybackSlotted
<1>3. h.inCall /\ h.mode = "IN_CALL" /\ Shared(h) => Shared(n)
  <2> SUFFICES ASSUME h.inCall, h.mode = "IN_CALL", Shared(h) PROVE Shared(n)
    OBVIOUS
  <2>1. SharedBut(h, UsecaseOf(s)) /\ Holds(h.tx, "VOICE_CALL")
    BY DEF Shared, SharedBut, One
  <2>2. QED
    BY <1>1, <2>1, SelectPlaybackShared
<1> HIDE DEF n
<1>4. Kept(h, n)
  BY <1>2, <1>3, SameKept
<1>5. QED
  BY <1>4 DEF n

LEMMA SelectCaptureKept ==
  ASSUME NEW h, Sound(h), Matched(h), One(h), h.in.state = "ACTIVE", NEW g
  PROVE  Kept(h, SelectCapture(h, g))
<1> DEFINE n == SelectCapture(h, g)
<1>1. h \in HalState /\ Slotted(h) /\ Holds(h.tx, "CAPTURE")
  BY DEF Sound, Matched
<1>2. Same(h, n)
  BY <1>1, SelectCaptureSlotted
<1>3. h.inCall /\ h.mode = "IN_CALL" /\ Shared(h) => Shared(n)
  <2> SUFFICES ASSUME h.inCall, h.mode = "IN_CALL", Shared(h) PROVE Shared(n)
    OBVIOUS
  <2>1. SharedBut(h, "CAPTURE") /\ Holds(h.tx, "VOICE_CALL")
    BY DEF Shared, SharedBut, One, Playbacks
  <2>2. QED
    BY <1>1, <2>1, SelectCaptureShared
<1> HIDE DEF n
<1>4. Kept(h, n)
  BY <1>2, <1>3, SameKept
<1>5. QED
  BY <1>4 DEF n

LEMMA StartOutputKept ==
  ASSUME NEW h, Sound(h), Matched(h), One(h), NEW s \in Outs,
         NEW g, Fits(h, g), NEW opened \in BOOLEAN
  PROVE  opened => Kept(h, StartOutput(h, s, g, opened))
<1> DEFINE n == StartOutput(h, s, g, opened)
           u == UsecaseOf(s)
           linked == [h EXCEPT !.listed = @ \cup {u}]
           on == SelectPlayback(linked, s, g)
<1>1. Slotted(h) /\ h.out \in [Outs -> OutStream] /\ "primary" \in Outs
  BY DEF Matched, Sound, HalState, Outs
<1>2. /\ Core(h, n) /\ Slotted(n) /\ n.tx = h.tx /\ n.in = h.in
      /\ opened => /\ n.out = [h.out EXCEPT ![s].state = "ACTIVE"]
                   /\ n.listed = h.listed \cup {u}
      /\ ~opened => /\ n.out = h.out
                    /\ n.listed = h.listed \ {u}
      /\ Whole(h.tx) => n.up = h.up
  <2>1. Slotted(h)
    BY DEF Matched
  <2>2. QED
    BY <2>1, StartOutputCore
<1> SUFFICES ASSUME opened PROVE Kept(h, n)
  OBVIOUS
<1>3. h.inCall /\ h.mode = "IN_CALL" /\ Shared(h) => Shared(n)
  <2> SUFFICES ASSUME h.inCall, h.mode = "IN_CALL", Shared(h) PROVE Shared(n)
    OBVIOUS
  <2>1. /\ Rest(h, linked) /\ Slotted(linked) /\ linked.tx = h.tx
        /\ linked.snd = h.snd /\ linked.listed = h.listed \cup {u}
        /\ linked.up = h.up
    BY <1>1, LinkOutputRest
  <2>2. n = [on EXCEPT !.out = [@ EXCEPT ![s].state = "ACTIVE"]]
    BY DEF StartOutput
  <2> HIDE DEF linked, n
  <2>3. /\ linked \in HalState /\ linked.inCall /\ linked.mode = "IN_CALL"
        /\ u \in linked.listed /\ Holds(linked.tx, "VOICE_CALL")
    <3>1. Core(h, linked) /\ Holds(h.tx, "VOICE_CALL")
      BY <2>1 DEF Rest, One
    <3>2. linked \in HalState /\ linked.inCall = h.inCall /\ linked.mode = h.mode
      BY <3>1 DEF Core
    <3>3. QED
      BY <2>1, <3>1, <3>2
  <2>4. SharedBut(linked, u)
    BY <2>1 DEF Shared, SharedBut
  <2>5. Shared(on)
    BY <2>3, <2>4, SelectPlaybackShared
  <2>6. on \in HalState
    <3>1. Fits(linked, g)
      BY <2>1 DEF Fits
    <3>2. QED
      BY <2>1, <2>3, <3>1, SelectPlaybackSlotted DEF Same, Rest, Core
  <2> HIDE DEF on
  <2> DEFINE x == [on.out EXCEPT ![s].state = "ACTIVE"]
  <2>7. x \in [Outs -> OutStream]
    BY <2>6 DEF HalState, OutStream, StreamStates
  <2>8. n = [on EXCEPT !.out = x]
    BY <2>2
  <2> HIDE DEF x
  <2>9. n.snd = on.snd /\ n.listed = on.listed /\ n.tx = on.tx
    BY <2>6, <2>7, <2>8, OutField
  <2>10. QED
    BY <2>5, <2>9, SharedAlike
<1> HIDE DEF n
<1>4. /\ n.out["primary"].devices = h.out["primary"].devices
      /\ h.out["primary"].state # "CLOSED" => n.out["primary"].state # "CLOSED"
  BY <1>1, <1>2 DEF OutStream
<1>5. n.up = h.up /\ Whole(n.tx)
  BY <1>2 DEF One
<1>6. Kept(h, n)
  BY <1>2, <1>3, <1>4, <1>5, CoreKept
<1>7. QED
  BY <1>6

LEMMA StandbyOutputKept ==
  ASSUME NEW h, Sound(h), Matched(h), One(h), NEW s \in Outs
  PROVE  Kept(h, StandbyOutput(h, s))
<1> DEFINE n == StandbyOutput(h, s)
           u == UsecaseOf(s)
<1>1. Slotted(h) /\ h.out \in [Outs -> OutStream] /\ "primary" \in Outs
      /\ h.listed \subseteq Playbacks
  BY DEF Matched, Sound, HalState, Outs
<1>2. /\ Core(h, n) /\ n.tx = h.tx
      /\ n.out = [h.out EXCEPT ![s].state = "STANDBY"]
      /\ n.listed = h.listed \ {u}
      /\ \A t \in Slots : n.snd[t] = h.snd[t] \/ t[1] = u
      /\ Whole(h.tx) => n.up = h.up
  BY <1>1, StandbyOutputCore
<1> HIDE DEF n
<1>3. h.inCall /\ h.mode = "IN_CALL" /\ Shared(h) => Shared(n)
  <2>1. /\ u # "VOICE_CALL" /\ u # "CAPTURE"
        /\ \A w \in Playbacks : <<w, "out">> \in Slots
        /\ <<"VOICE_CALL", "out">> \in Slots /\ <<"VOICE_CALL", "in">> \in Slots
        /\ <<"CAPTURE", "in">> \in Slots
    BY DEF UsecaseOf, Slots, Usecases, Sides
  <2> HIDE DEF u
  <2>2. /\ n.snd[<<"VOICE_CALL", "out">>] = h.snd[<<"VOICE_CALL", "out">>]
        /\ n.snd[<<"VOICE_CALL", "in">>] = h.snd[<<"VOICE_CALL", "in">>]
        /\ n.snd[<<"CAPTURE", "in">>] = h.snd[<<"CAPTURE", "in">>]
    BY <1>2, <2>1
  <2>3. ASSUME NEW w \in n.listed
        PROVE  n.snd[<<w, "out">>] = h.snd[<<w, "out">>]
    <3>1. w \in Playbacks /\ w # u
      BY <1>1, <1>2
    <3>2. <<w, "out">> \in Slots /\ <<w, "out">>[1] = w
      BY <2>1, <3>1
    <3>3. QED
      BY <1>2, <3>1, <3>2
  <2>4. QED
    BY <1>2, <2>2, <2>3 DEF Shared, SharedBut
<1>4. /\ n.out["primary"].devices = h.out["primary"].devices
      /\ h.out["primary"].state # "CLOSED" => n.out["primary"].state # "CLOSED"
  BY <1>1, <1>2 DEF OutStream
<1>5. n.up = h.up /\ Whole(n.tx)
  BY <1>2 DEF One
<1>6. Kept(h, n)
  BY <1>2, <1>3, <1>4, <1>5, CoreKept
<1>7. QED
  BY <1>6 DEF n

LEMMA StartInputKept ==
  ASSUME NEW h, Sound(h), Matched(h), One(h), ~h.in.pcm,
         NEW g, NEW opened \in BOOLEAN, NEW created \in BOOLEAN
  PROVE  opened => Kept(h, StartInput(h, g, opened, created))
<1> DEFINE n == StartInput(h, g, opened, created)
           l == Append(h.tx, "CAPTURE")
           linked == [h EXCEPT !.tx = l]
           on == SelectCapture(linked, g)
           can == opened /\ CanCapture(h.in.device)
<1>1. Slotted(h) /\ ~Holds(h.tx, "CAPTURE")
  BY DEF Matched
<1>2. Captures(h, n, opened, created)
  BY <1>1, StartInputCore
<1> SUFFICES ASSUME opened PROVE Kept(h, n)
  OBVIOUS
<1>3. h.inCall /\ h.mode = "IN_CALL" /\ Shared(h) => Shared(n)
  <2> SUFFICES ASSUME h.inCall, h.mode = "IN_CALL", Shared(h) PROVE Shared(n)
    OBVIOUS
  <2>1. h \in HalState /\ l \in Seq({"CAPTURE", "VOICE_CALL"})
    BY AppendProperties DEF Sound, HalState
  <2>2. \A v : Holds(l, v) <=> (v = "CAPTURE" \/ Holds(h.tx, v))
    BY LinkKeeps DEF Sound, HalState
  <2> HIDE DEF l
  <2>3. /\ Rest(h, linked) /\ linked.listed = h.listed /\ linked.tx = l
        /\ linked.snd = h.snd
    BY <2>1, TxRest
  <2>4. n = IF CanCapture(h.in.device)
            THEN [on EXCEPT !.in.pcm = TRUE,
                            !.in.state = IF created THEN "ACTIVE" ELSE @]
            ELSE h
    BY DEF StartInput, l
  <2> HIDE DEF linked, n
  <2>5. /\ linked \in HalState /\ linked.inCall /\ linked.mode = "IN_CALL"
        /\ Holds(linked.tx, "CAPTURE") /\ Holds(linked.tx, "VOICE_CALL")
    <3>1. Core(h, linked) /\ Holds(h.tx, "VOICE_CALL")
      BY <2>3 DEF Rest, One
    <3>2. linked \in HalState /\ linked.inCall = h.inCall /\ linked.mode = h.mode
      BY <3>1 DEF Core
    <3>3. QED
      BY <2>2, <2>3, <3>1, <3>2
  <2>6. SharedBut(linked, "CAPTURE")
    BY <2>3 DEF Shared, SharedBut
  <2>7. Shared(on)
    BY <2>5, <2>6, SelectCaptureShared
  <2>8. on \in HalState
    <3>1. Slotted(linked)
      <4>1. \A w : Listed(h, w) => Listed(linked, w)
        BY <2>2, <2>3 DEF Listed, Holds
      <4>2. linked.listed \subseteq Playbacks
        BY <2>5 DEF HalState
      <4>3. QED
        BY <1>1, <2>1, <2>3, <4>1, <4>2, SlottedKept
    <3>2. QED
      BY <2>5, <3>1, SelectCaptureSlotted DEF Same, Rest, Core
  <2> HIDE DEF on
  <2> DEFINE x == [on.in EXCEPT !.pcm = TRUE,
                                !.state = IF created THEN "ACTIVE" ELSE @]
  <2>9. x \in InStream
    BY <2>8 DEF HalState, InStream, StreamStates
  <2>10. n = h \/ n = [on EXCEPT !.in = x]
    BY <2>4
  <2> HIDE DEF x
  <2>11. n = h \/ (n.snd = on.snd /\ n.listed = on.listed /\ n.tx = on.tx)
    <3>1. CASE n = [on EXCEPT !.in = x]
      BY <2>8, <2>9, <3>1, InField
    <3>2. QED
      BY <2>10, <3>1
  <2>12. QED
    BY <2>7, <2>11, SharedAlike
<1> HIDE DEF n
<1>4. n.up = h.up /\ Whole(n.tx)
  BY <1>2 DEF One, Captures
<1>5. /\ Core(h, n) /\ n.out = h.out
      /\ Holds(n.tx, "VOICE_CALL") <=> Holds(h.tx, "VOICE_CALL")
  BY <1>2 DEF Captures
<1>6. Kept(h, n)
  BY <1>3, <1>4, <1>5, CoreKept
<1>7. QED
  BY <1>6

LEMMA StandbyInputKept ==
  ASSUME NEW h, Sound(h), Matched(h), One(h)
  PROVE  Kept(h, StandbyInput(h))
<1> DEFINE n == StandbyInput(h)
<1>1. CASE h.in.state # "ACTIVE"
  BY <1>1, KeptSelf DEF StandbyInput
<1>2. CASE h.in.state = "ACTIVE"
  <2>1. Slotted(h) /\ Once(h.tx, "CAPTURE") /\ h.listed \subseteq Playbacks
    BY DEF Matched, Sound, HalState
  <2>2. /\ Core(h, n) /\ n.listed = h.listed /\ n.out = h.out
        /\ ~Holds(n.tx, "CAPTURE")
        /\ Holds(n.tx, "VOICE_CALL") <=> Holds(h.tx, "VOICE_CALL")
        /\ Whole(h.tx) => n.up = h.up /\ Whole(n.tx)
        /\ \A t \in Slots : n.snd[t] = h.snd[t] \/ t[1] = "CAPTURE"
    BY <1>2, <2>1, StandbyInputCore
  <2> HIDE DEF n
  <2>3. h.inCall /\ h.mode = "IN_CALL" /\ Shared(h) => Shared(n)
    <3>1. /\ \A w \in Playbacks : <<w, "out">> \in Slots /\ w # "CAPTURE"
          /\ <<"VOICE_CALL", "out">> \in Slots /\ <<"VOICE_CALL", "in">> \in Slots
      BY DEF Slots, Usecases, Sides, Playbacks
    <3>2. /\ n.snd[<<"VOICE_CALL", "out">>] = h.snd[<<"VOICE_CALL", "out">>]
          /\ n.snd[<<"VOICE_CALL", "in">>] = h.snd[<<"VOICE_CALL", "in">>]
      BY <2>2, <3>1
    <3>3. ASSUME NEW w \in n.listed
          PROVE  n.snd[<<w, "out">>] = h.snd[<<w, "out">>]
      <4>1. w \in Playbacks
        BY <2>1, <2>2
      <4>2. <<w, "out">> \in Slots /\ <<w, "out">>[1] = w /\ w # "CAPTURE"
        BY <3>1, <4>1
      <4>3. QED
        BY <2>2, <4>2
    <3>4. QED
      BY <2>2, <3>2, <3>3 DEF Shared, SharedBut
  <2>4. n.up = h.up /\ Whole(n.tx)
    BY <2>2 DEF One
  <2>5. Kept(h, n)
    BY <2>2, <2>3, <2>4, CoreKept
  <2>6. QED
    BY <2>5 DEF n
<1>3. QED
  BY <1>1, <1>2

(* A call was started or stopped: everything around it is told. *)
Begun(h, n) ==
  /\ Settled(h, n) /\ Led(n) /\ Heard(n)
  /\ Ready(h) => Informed(n)

LEMMA BegunKept ==
  ASSUME NEW h, NEW n, Begun(h, n)
  PROVE  Kept(h, n)
BY DEF Begun, Kept

LEMMA SettledBegun ==
  ASSUME NEW h, NEW m, NEW n, Settled(h, m), Begun(m, n)
  PROVE  Begun(h, n)
<1>1. Settled(h, n)
  BY SettledTrans DEF Begun
<1>2. Ready(h) => Ready(m)
  BY DEF Settled
<1>3. QED
  BY <1>1, <1>2 DEF Begun

(* The session of SCO. *)
LEMMA RouteScoKept ==
  ASSUME NEW h, Sound(h), Matched(h), One(h), NEW s, NEW opened \in BOOLEAN
  PROVE  Kept(h, RouteSco(h, s, opened))
<1> DEFINE n == RouteSco(h, s, opened)
           a == [h EXCEPT !.inCommSco = TRUE]
           b == [h EXCEPT !.inCommSco = FALSE]
<1>1. Flagged(h, n) /\ SameCall(h, n)
  BY RouteScoMatched
<1>2. n.ear = h.ear
  <2>1. h \in HalState /\ a \in HalState /\ b \in HalState
    BY InCommScoField DEF Sound, Flagged, Around
  <2>2. a.ear = h.ear /\ b.ear = h.ear
    BY <2>1, FlagsEar
  <2>3. n \in {h, StartSco(a, opened), StopSco(b)}
    BY DEF RouteSco
  <2> HIDE DEF a, b, n
  <2>4. StartSco(a, opened).ear = a.ear /\ StopSco(b).ear = b.ear
    BY <2>1, FlagsEar
  <2>5. QED
    BY <2>2, <2>3, <2>4
<1> HIDE DEF n
<1>3. /\ n.mode = h.mode /\ n.out = h.out /\ n.listed = h.listed
      /\ n.rilClient = h.rilClient /\ n.rilUp = h.rilUp
      /\ Told(h) => Told(n)
      /\ n.tx = h.tx /\ n.snd = h.snd /\ n.up = h.up /\ n.inCall = h.inCall
  BY <1>1 DEF Flagged, Around, SameCall
<1>4. One(n) /\ (Rested(h) => Rested(n)) /\ (Ready(h) => Ready(n))
  BY <1>3 DEF One, Rested, Ready
<1>5. (Led(h) => Led(n)) /\ (Heard(h) => Heard(n)) /\ (Informed(h) => Informed(n))
  BY <1>2, <1>3, SharedAlike DEF Led, Heard, Informed
<1>6. Kept(h, n)
  BY <1>3, <1>4, <1>5 DEF Kept, Settled
<1>7. QED
  BY <1>6 DEF n

LEMMA StopVoiceCallBegun ==
  ASSUME NEW h, Sound(h), Matched(h), One(h)
  PROVE  Begun(h, StopVoiceCall(h)) /\ ~StopVoiceCall(h).inCall
<1> DEFINE n == StopVoiceCall(h)
<1>1. /\ Around(h, n) /\ Slotted(n)
      /\ ~n.pcmVoice
      /\ n.inCall = IF Holds(h.tx, "VOICE_CALL") THEN FALSE ELSE h.inCall
      /\ n.inCallSco <=> n.pcmSco
      /\ Holds(n.tx, "CAPTURE") <=> Holds(h.tx, "CAPTURE")
      /\ Once(h.tx, "CAPTURE") => Once(n.tx, "CAPTURE")
      /\ Whole(h.tx) =>
           n.up = h.up /\ ~Holds(n.tx, "VOICE_CALL")
      /\ \A x \in Slots : n.snd[x] = h.snd[x] \/ x[1] = "VOICE_CALL"
      /\ Audience => n.ear.route = AudienceSleep
  BY StopVoiceCallAround DEF Matched
<1> HIDE DEF n
<1>2. ~n.inCall
  BY <1>1 DEF One
<1>3. n.up /\ ~Holds(n.tx, "VOICE_CALL")
  BY <1>1 DEF One
<1>4. /\ n.mode = h.mode /\ n.out = h.out
      /\ n.rilClient = h.rilClient /\ n.rilUp = h.rilUp
  BY <1>1 DEF Around
<1>5. One(n)
  BY <1>1, <1>2, <1>3, <1>4 DEF Matched, One, Whole, Once, Holds
<1>6. Rested(n) /\ (Ready(h) => Ready(n)) /\ Led(n) /\ Informed(n)
  BY <1>2, <1>4 DEF Rested, Ready, Led, Informed
<1>7. Heard(n)
  BY <1>1, <1>2 DEF Heard
<1>8. Begun(h, n)
  BY <1>4, <1>5, <1>6, <1>7 DEF Begun, Settled
<1>9. QED
  BY <1>2, <1>8 DEF n

(* In a call, any route has an output and a microphone. *)
LEMMA CallDevices ==
  ASSUME NEW h, h.mode = "IN_CALL", NEW outs \in SUBSET OutDevices, outs # {}, NEW g
  PROVE  OutputDevice(h, outs) # NONE /\ InputDevice(h, g, outs) # NONE
<1>1. \/ Touches(outs, AllSco) \/ Touches(outs, Wired)
      \/ "SPEAKER" \in outs \/ "EARPIECE" \in outs
  BY DEF Touches, AllSco, Wired, OutDevices
<1>2. InCallOutput(outs, h.wbAmr, h.btWb) # NONE
  BY <1>1 DEF InCallOutput, InCallProfile, NONE
<1>3. FallbackInput(outs, ActiveInput(h, g).inDev) # NONE
  BY DEF FallbackInput, NONE
<1>4. QED
  BY <1>2, <1>3 DEF OutputDevice, InputDevice, GetOutputSndDevice, GetInputSndDevice

(* select_devices for a call that was just linked puts all on its devices. *)
LEMMA CallShared ==
  ASSUME NEW h \in HalState, Slotted(h), NEW g, h.mode = "IN_CALL",
         h.snd[<<"VOICE_CALL", "out">>] = NONE, Whole(h.tx)
  PROVE  LET n == SelectVoiceCall(h, g)
         IN  Shared(n) /\ (Reaches(h) => Told(n))
<1> DEFINE outs == h.out["primary"].devices
           out  == OutputDevice(h, outs)
           in   == InputDevice(h, g, outs)
           n    == SelectVoiceCall(h, g)
           a    == <<"VOICE_CALL", "out">>
           b    == <<"VOICE_CALL", "in">>
           c    == <<"CAPTURE", "in">>
<1>1. /\ a \in Slots /\ b \in Slots /\ c \in Slots /\ "VOICE_CALL" \in Usecases
      /\ \A w \in Playbacks : <<w, "out">> \in Slots
      /\ h.listed \subseteq Playbacks
  BY DEF Slots, Usecases, Sides, Playbacks, HalState
<1>2. outs \in SUBSET OutDevices /\ outs # {}
  <2>1. outs \in OutRoutes
    BY DEF HalState, OutStream, Outs
  <2>2. QED
    BY <2>1, RoutesAssumption
<1>3. out # NONE /\ in # NONE
  BY <1>2, CallDevices
<1>4. out \in SndDevice /\ in \in SndDevice
  BY OutputDeviceType, InputDeviceType
<1>5. n = SwitchDevices(h, "VOICE_CALL", out, in, outs)
  BY DEF SelectVoiceCall
<1> HIDE DEF outs, out, in, n
<1>6. Switched(h, "VOICE_CALL", out, in, n)
  BY <1>1, <1>4, <1>5, SwitchDevicesSwitched
<1>7. /\ Same(h, n)
      /\ n.snd[a] = out /\ n.snd[b] = in
      /\ n = h \/ \A s \in Slots : n.snd[s] = Moved(h, "VOICE_CALL", out, in, s)
      /\ Reaches(h) => n = h \/ Told(n)
  BY <1>6 DEF Switched
<1>8. n # h
  BY <1>3, <1>7
<1>9. n.listed = h.listed /\ n.tx = h.tx
  BY <1>7 DEF Same
<1>10. ASSUME NEW w \in h.listed
       PROVE  n.snd[<<w, "out">>] = out
  <2>1. <<w, "out">> \in Slots /\ w \in Playbacks /\ Listed(h, w)
    BY <1>1 DEF Listed
  <2>2. Moved(h, "VOICE_CALL", out, in, <<w, "out">>) = out
    BY <1>3, <2>1 DEF Moved, Backend
  <2>3. QED
    BY <1>7, <1>8, <2>1, <2>2
<1>11. ASSUME Holds(h.tx, "CAPTURE")
       PROVE  n.snd[c] = in
  <2>1. Listed(h, "CAPTURE")
    BY <1>11 DEF Listed, Holds
  <2>2. Moved(h, "VOICE_CALL", out, in, c) = in
    BY <1>3, <2>1 DEF Moved, Backend
  <2>3. QED
    BY <1>1, <1>7, <1>8, <2>2
<1>12. Shared(n)
  BY <1>3, <1>7, <1>9, <1>10, <1>11 DEF Shared, SharedBut
<1>13. QED
  BY <1>7, <1>8, <1>12 DEF n

LEMMA StartVoiceCallBegun ==
  ASSUME NEW h, Sound(h), Matched(h), One(h), ~h.inCall, h.mode = "IN_CALL", NEW g,
         NEW r \in [sco : BOOLEAN, tx : BOOLEAN, rx : BOOLEAN], r.tx, r.rx
  PROVE  Begun(h, StartVoiceCall(h, g, r))
<1> DEFINE l       == Append(h.tx, "VOICE_CALL")
           linked  == [h EXCEPT !.tx = l]
           entered == SelectVoiceCall(linked, g)
           n       == StartVoiceCall(h, g, r)
<1>1. /\ Around(h, n) /\ n.tx = l /\ n.inCall /\ Flagged(entered, n)
      /\ Audience => n.ear.route \in
           CallRoutes(RouteMicrophones(h.out["primary"].devices))
  <2>1. Slotted(h) /\ ~h.pcmVoice /\ (h.inCallSco <=> h.pcmSco)
    BY DEF Matched
  <2>2. IF r.tx
        THEN /\ Around(h, n) /\ Slotted(n)
             /\ n.tx = l
             /\ (n.inCall <=> r.rx) /\ (n.pcmVoice <=> r.rx)
             /\ n.inCallSco <=> n.pcmSco
             /\ Flagged(entered, n)
             /\ r.rx /\ Audience => n.ear.route \in
                  CallRoutes(RouteMicrophones(h.out["primary"].devices))
        ELSE ~n.up
    BY <2>1, StartVoiceCallAround
  <2> HIDE DEF n, entered, l
  <2>3. QED
    BY <2>2
<1> HIDE DEF n
<1>2. h \in HalState /\ l \in Seq({"CAPTURE", "VOICE_CALL"})
  BY AppendProperties DEF Sound, HalState
<1>3. ~Holds(h.tx, "VOICE_CALL")
  BY DEF One
<1>4. /\ \A v : Holds(l, v) <=> (v = "VOICE_CALL" \/ Holds(h.tx, v))
      /\ Whole(l)
  <2>1. h.tx \in Seq({"CAPTURE", "VOICE_CALL"}) /\ Whole(h.tx)
    BY DEF One, Sound, HalState
  <2>2. QED
    BY <1>3, <2>1, LinkKeeps DEF Whole
<1> HIDE DEF l
<1>5. /\ Rest(h, linked) /\ linked.listed = h.listed /\ linked.tx = l
      /\ linked.snd = h.snd /\ linked.up = h.up
  BY <1>2, TxRest
<1> HIDE DEF linked
<1>6. linked \in HalState /\ linked.mode = "IN_CALL" /\ (Reaches(h) => Reaches(linked))
  BY <1>5 DEF Rest, Core, Reaches
<1>7. Slotted(linked)
  <2>1. \A w : Listed(h, w) => Listed(linked, w)
    BY <1>4, <1>5 DEF Listed, Holds
  <2>2. linked.listed \subseteq Playbacks
    BY <1>6 DEF HalState
  <2>3. QED
    BY <1>2, <1>5, <2>1, <2>2, SlottedKept DEF Matched
<1>8. linked.snd[<<"VOICE_CALL", "out">>] = NONE
  <2>1. ~Listed(h, "VOICE_CALL")
    BY <1>2, <1>3 DEF Listed, Holds, HalState, Playbacks
  <2>2. <<"VOICE_CALL", "out">> \in Slots
    BY DEF Slots, Usecases, Sides
  <2>3. QED
    BY <1>5, <2>1, <2>2 DEF Matched, Slotted
<1>9. Shared(entered) /\ (Reaches(h) => Told(entered))
  BY <1>4, <1>5, <1>6, <1>7, <1>8, CallShared
<1>10. entered.up = h.up
  <2>1. Holds(linked.tx, "VOICE_CALL")
    BY <1>4, <1>5
  <2>2. Same(linked, entered)
    BY <1>6, <1>7, <2>1, SelectVoiceCallSlotted
  <2>3. QED
    BY <1>4, <1>5, <2>2 DEF Same
<1> HIDE DEF entered
<1>11. /\ n.snd = entered.snd /\ n.listed = entered.listed /\ n.tx = entered.tx
       /\ n.up = h.up /\ (Told(entered) => Told(n))
  BY <1>1, <1>10 DEF Flagged, Around
<1>12. /\ n.mode = "IN_CALL" /\ n.out = h.out
       /\ n.rilClient = h.rilClient /\ n.rilUp = h.rilUp
  BY <1>1 DEF Around
<1>13. One(n)
  BY <1>1, <1>4, <1>11, <1>12 DEF One
<1>14. Led(n)
  BY <1>9, <1>11, <1>12, SharedAlike DEF Led
<1>15. Heard(n)
  BY <1>1, <1>12 DEF Heard
<1>16. Ready(h) => Ready(n) /\ Informed(n)
  BY <1>9, <1>11, <1>12 DEF Ready, Informed, Reaches, One
<1>17. Rested(n)
  BY <1>12 DEF Rested
<1>18. Begun(h, n)
  BY <1>12, <1>13, <1>14, <1>15, <1>16, <1>17 DEF Begun, Settled
<1>19. QED
  BY <1>18 DEF n

LEMMA RouteCallKept ==
  ASSUME NEW h, Sound(h), Matched(h), One(h), NEW s, NEW changed \in BOOLEAN, NEW g,
         NEW r \in [sco : BOOLEAN, tx : BOOLEAN, rx : BOOLEAN], r.tx, r.rx
  PROVE  LET n == RouteCall(h, s, changed, g, r)
         IN  /\ Kept(h, n)
             /\ h.mode = "IN_CALL" /\ s = "primary" /\ changed => Begun(h, n)
<1> DEFINE stopped == StopVoiceCall(h)
           again   == StartVoiceCall(stopped, g, r)
           first   == StartVoiceCall(h, g, r)
<1>1. /\ Sound(stopped) /\ Matched(stopped) /\ ~stopped.inCall
      /\ Begun(h, stopped)
  BY StopVoiceCallSound, StopVoiceCallMatched, StopVoiceCallBegun
<1> HIDE DEF stopped
<1>2. One(stopped) /\ stopped.mode = h.mode /\ Settled(h, stopped)
  BY <1>1 DEF Begun, Settled
<1>3. h.mode = "IN_CALL" => Begun(h, again)
  BY <1>1, <1>2, StartVoiceCallBegun, SettledBegun
<1>4. h.mode = "IN_CALL" /\ ~h.inCall => Begun(h, first)
  BY StartVoiceCallBegun
<1>5. RouteCall(h, s, changed, g, r) =
        IF h.mode # "IN_CALL" \/ s # "primary" THEN h
        ELSE IF ~h.inCall THEN first ELSE IF changed THEN again ELSE h
  BY DEF RouteCall, stopped
<1> HIDE DEF again, first
<1>6. CASE h.mode # "IN_CALL" \/ s # "primary" \/ (h.inCall /\ ~changed)
  BY <1>5, <1>6, KeptSelf
<1>7. CASE h.mode = "IN_CALL" /\ s = "primary" /\ ~h.inCall
  BY <1>4, <1>5, <1>7, BegunKept
<1>8. CASE h.mode = "IN_CALL" /\ s = "primary" /\ h.inCall /\ changed
  BY <1>3, <1>5, <1>8, BegunKept
<1>9. QED
  BY <1>6, <1>7, <1>8

(* The new devices of a stream: of the primary output in a call, they are   *)
(* not those of the call yet.                                               *)
LEMMA OutDevicesKept ==
  ASSUME NEW h, Sound(h), Matched(h), One(h), NEW s \in Outs, NEW d \in OutRoutes
  PROVE  LET n == [h EXCEPT !.out[s].devices = d]
         IN  /\ Settled(h, n)
             /\ ~(h.mode = "IN_CALL" /\ s = "primary" /\ h.out[s].devices # d)
                  => Kept(h, n)
<1> DEFINE x == [h.out EXCEPT ![s].devices = d]
           n == [h EXCEPT !.out = x]
<1>1. h \in HalState /\ h.out \in [Outs -> OutStream] /\ "primary" \in Outs
  BY DEF Sound, HalState, Outs
<1>2. /\ x \in [Outs -> OutStream]
      /\ x["primary"].state = h.out["primary"].state
      /\ s # "primary" \/ h.out[s].devices = d
           => x["primary"].devices = h.out["primary"].devices
  BY <1>1, ZenonT(60) DEF OutStream
<1>3. n = [h EXCEPT !.out[s].devices = d]
  BY DEF x
<1> HIDE DEF x
<1>4. /\ n.out = x /\ n.snd = h.snd /\ n.listed = h.listed /\ n.tx = h.tx
      /\ n.inCall = h.inCall /\ n.up = h.up /\ n.mode = h.mode
      /\ n.rilClient = h.rilClient /\ n.rilUp = h.rilUp
      /\ n.modem = h.modem /\ n.volume = h.volume /\ n.ear = h.ear
  BY <1>1, <1>2, OutField DEF SameCall
<1> HIDE DEF n
<1>5. Settled(h, n)
  BY <1>2, <1>4, SharedAlike DEF Settled, One, Rested, Ready, Led
<1>6. CASE s # "primary" \/ h.out[s].devices = d
  <2>1. n.out["primary"].devices = h.out["primary"].devices
    BY <1>2, <1>4, <1>6
  <2>2. (Heard(h) => Heard(n)) /\ (Informed(h) => Informed(n))
    BY <1>4, <2>1 DEF Heard, Informed, Told
  <2>3. Kept(h, n)
    BY <1>5, <2>2 DEF Kept
  <2>4. QED
    BY <1>3, <1>5, <2>3
<1>7. CASE h.mode # "IN_CALL"
  <2>1. Led(h) => ~h.inCall
    BY <1>7 DEF Led
  <2>2. ~h.inCall => (Heard(h) => Heard(n)) /\ Informed(n)
    BY <1>4 DEF Heard, Informed
  <2>3. Kept(h, n)
    BY <1>5, <2>1, <2>2 DEF Kept
  <2>4. QED
    BY <1>3, <1>5, <2>3
<1>8. QED
  BY <1>3, <1>5, <1>6, <1>7

LEMMA SetOutputRouteKept ==
  ASSUME NEW h, Sound(h), Matched(h), One(h), NEW s \in Outs, NEW d \in OutRoutes,
         NEW g, Fits(h, g),
         NEW r \in [sco : BOOLEAN, tx : BOOLEAN, rx : BOOLEAN], r.tx, r.rx
  PROVE  Kept(h, SetOutputRoute(h, s, d, g, r))
<1> DEFINE changed == h.out[s].devices # d
           moved   == [h EXCEPT !.out[s].devices = d]
           routed  == IF h.out[s].state # "ACTIVE" THEN moved
                      ELSE IF changed THEN StandbyOutput(moved, s)
                      ELSE SelectPlayback(moved, s, g)
           sco     == RouteSco(routed, s, r.sco)
           n       == RouteCall(sco, s, changed, g, r)
           restart == h.mode = "IN_CALL" /\ s = "primary" /\ changed
<1>1. /\ Sound(moved) /\ Matched(moved) /\ Fits(moved, g)
      /\ moved.out[s].state = h.out[s].state
  BY OutDevicesMatched DEF Fits
<1>2. Settled(h, moved) /\ (~restart => Kept(h, moved))
  BY OutDevicesKept
<1>3. SetOutputRoute(h, s, d, g, r) = n
  BY DEF SetOutputRoute
<1>4. changed \in BOOLEAN /\ r.sco \in BOOLEAN
  OBVIOUS
<1> HIDE DEF moved, changed
<1>5. One(moved)
  BY <1>2 DEF Settled
<1>6. Sound(routed) /\ Matched(routed) /\ Kept(moved, routed)
  <2>1. CASE h.out[s].state # "ACTIVE"
    BY <1>1, <1>5, <2>1, KeptSelf
  <2>2. CASE h.out[s].state = "ACTIVE" /\ changed
    BY <1>1, <1>5, <2>2, StandbyOutputSound, StandbyOutputMatched, StandbyOutputKept
  <2>3. CASE h.out[s].state = "ACTIVE" /\ ~changed
    <3> DEFINE k == SelectPlayback(moved, s, g)
    <3>1. moved \in HalState /\ Slotted(moved) /\ UsecaseOf(s) \in moved.listed
      BY <1>1, <2>3 DEF Sound, Matched
    <3>2. Same(moved, k) /\ Slotted(k)
      BY <1>1, <3>1, SelectPlaybackSlotted
    <3>3. Sound(k)
      BY <1>1, SelectPlaybackSound
    <3>4. Kept(moved, k)
      BY <1>1, <1>5, <2>3, SelectPlaybackKept
    <3> HIDE DEF k
    <3>5. Matched(k)
      BY <1>1, <3>2, SameMatched
    <3>6. QED
      BY <2>3, <3>3, <3>4, <3>5 DEF k
  <2>4. QED
    BY <2>1, <2>2, <2>3
<1> HIDE DEF routed
<1>7. One(routed)
  BY <1>6 DEF Kept, Settled
<1>8. Sound(sco) /\ Matched(sco) /\ Kept(routed, sco)
  BY <1>4, <1>6, <1>7, RouteScoSound, RouteScoMatched, RouteScoKept
<1> HIDE DEF sco
<1>9. One(sco) /\ Kept(moved, sco) /\ sco.mode = h.mode
  BY <1>2, <1>6, <1>8, KeptTrans DEF Kept, Settled
<1>10. Kept(sco, n) /\ (restart => Begun(sco, n))
  BY <1>4, <1>8, <1>9, RouteCallKept
<1> HIDE DEF n
<1>11. CASE restart
  <2>1. Settled(h, sco)
    BY <1>2, <1>9, SettledTrans DEF Kept
  <2>2. Begun(h, n)
    BY <1>10, <1>11, <2>1, SettledBegun
  <2>3. QED
    BY <1>3, <2>2, BegunKept
<1>12. CASE ~restart
  BY <1>2, <1>3, <1>9, <1>10, <1>12, KeptTrans
<1>13. QED
  BY <1>11, <1>12

LEMMA InFieldKept ==
  ASSUME NEW h, Sound(h), One(h), NEW x \in InStream
  PROVE  Kept(h, [h EXCEPT !.in = x])
<1> DEFINE n == [h EXCEPT !.in = x]
<1>1. /\ n.out = h.out /\ n.snd = h.snd /\ n.listed = h.listed /\ n.tx = h.tx
      /\ n.inCall = h.inCall /\ n.up = h.up /\ n.mode = h.mode
      /\ n.rilClient = h.rilClient /\ n.rilUp = h.rilUp
      /\ n.modem = h.modem /\ n.volume = h.volume /\ n.ear = h.ear
  BY InField DEF SameCall, Sound
<1> HIDE DEF n
<1>2. Settled(h, n)
  BY <1>1, SharedAlike DEF Settled, One, Rested, Ready, Led
<1>3. (Heard(h) => Heard(n)) /\ (Informed(h) => Informed(n))
  BY <1>1 DEF Heard, Informed, Told
<1>4. Kept(h, n)
  BY <1>2, <1>3 DEF Kept
<1>5. QED
  BY <1>4 DEF n

LEMMA SetInputRouteKept ==
  ASSUME NEW h, Sound(h), Matched(h), One(h), NEW source \in Sources,
         NEW device \in InDevices, NEW g
  PROVE  Kept(h, SetInputRoute(h, source, device, g))
<1> DEFINE h1 == IF source = "DEFAULT" THEN h ELSE [h EXCEPT !.in.source = source]
           h2 == [h1 EXCEPT !.in.device = device]
<1>1. Sound(h1) /\ Matched(h1) /\ Kept(h, h1) /\ h1.in.state = h.in.state
  <2> DEFINE x == [h.in EXCEPT !.source = source]
  <2>1. x \in InStream /\ x.state = h.in.state /\ x.pcm = h.in.pcm
    BY DEF Sound, HalState, InStream
  <2> HIDE DEF x
  <2>2. LET k == [h EXCEPT !.in = x]
        IN  Sound(k) /\ Matched(k) /\ Muted(h, k) /\ k.in = x
    BY <2>1, InFieldMatched
  <2>3. Kept(h, [h EXCEPT !.in = x]) /\ Kept(h, h)
    BY <2>1, InFieldKept, KeptSelf
  <2>4. QED
    BY <2>1, <2>2, <2>3 DEF x
<1> HIDE DEF h1
<1>2. One(h1)
  BY <1>1 DEF Kept, Settled
<1>3. Sound(h2) /\ Matched(h2) /\ Kept(h1, h2) /\ h2.in.state = h.in.state
  <2> DEFINE x == [h1.in EXCEPT !.device = device]
  <2>1. x \in InStream /\ x.state = h1.in.state /\ x.pcm = h1.in.pcm
    BY <1>1 DEF Sound, HalState, InStream
  <2> HIDE DEF x
  <2>2. LET k == [h1 EXCEPT !.in = x]
        IN  Sound(k) /\ Matched(k) /\ Muted(h1, k) /\ k.in = x
    BY <1>1, <2>1, InFieldMatched
  <2>3. Kept(h1, [h1 EXCEPT !.in = x])
    BY <1>1, <1>2, <2>1, InFieldKept
  <2>4. QED
    BY <1>1, <2>1, <2>2, <2>3 DEF x
<1> HIDE DEF h2
<1>4. Kept(h, h2) /\ One(h2)
  BY <1>1, <1>3, KeptTrans DEF Kept, Settled
<1>5. h.in.state = "ACTIVE" => Kept(h, SelectCapture(h2, g))
  BY <1>3, <1>4, SelectCaptureKept, KeptTrans
<1>6. Kept(h, StandbyInput(h2))
  BY <1>3, <1>4, StandbyInputKept, KeptTrans
<1>7. SetInputRoute(h, source, device, g) =
        IF h.in.device = device THEN h1
        ELSE IF h.in.state # "ACTIVE" THEN h2
        ELSE IF CanCapture(device) THEN SelectCapture(h2, g)
        ELSE StandbyInput(h2)
  BY DEF SetInputRoute, h1, h2
<1>8. QED
  BY <1>1, <1>4, <1>5, <1>6, <1>7

------------------------------------------------------------------------------
(* Every operation keeps what holds of a call *)

(* Every PCM opens, and so does every resampler. *)
StartsSucceed == "pcm" \notin Faults /\ ResamplersMade

(* The framework ends a cellular call by going to the normal mode. *)
CallsEndInNormal ==
  \A m \in ModeChanges : m[1] = "IN_CALL" => m[2] \in {"IN_CALL", "NORMAL"}

CallSafe(h) ==
  /\ One(h) /\ Rested(h)
  /\ CallsEndInNormal => /\ Led(h) /\ Heard(h)
                         /\ Faults = {} => Ready(h) /\ Informed(h)

(* The inductive invariant of a call. *)
CallInv == StartsSucceed => CallSafe(hal)

LEMMA KeptSafe ==
  ASSUME NEW h, NEW n, CallSafe(h), Kept(h, n)
  PROVE  CallSafe(n)
BY DEF CallSafe, Kept, Settled

LEMMA ReturnSafe ==
  ASSUME NEW n, Return(n), CallSafe(n)
  PROVE  CallSafe(hal')
<1>1. hal' = n
  BY DEF Return, CallSafe, One
<1>2. QED
  BY <1>1

LEMMA ReturnKept ==
  ASSUME NEW n, Return(n), CallSafe(hal), Kept(hal, n)
  PROVE  CallSafe(hal')
BY KeptSafe, ReturnSafe

LEMMA OutFieldKept ==
  ASSUME NEW h, Sound(h), One(h), NEW s \in Outs, s # "primary", NEW x \in OutStream
  PROVE  Kept(h, [h EXCEPT !.out[s] = x])
<1> DEFINE y == [h.out EXCEPT ![s] = x]
           n == [h EXCEPT !.out = y]
<1>1. h \in HalState /\ h.out \in [Outs -> OutStream] /\ "primary" \in Outs
  BY DEF Sound, HalState, Outs
<1>2. y \in [Outs -> OutStream] /\ y["primary"] = h.out["primary"]
  BY <1>1
<1> HIDE DEF y
<1>3. /\ n.out = y /\ n.snd = h.snd /\ n.listed = h.listed /\ n.tx = h.tx
      /\ n.inCall = h.inCall /\ n.up = h.up /\ n.mode = h.mode
      /\ n.rilClient = h.rilClient /\ n.rilUp = h.rilUp
      /\ n.modem = h.modem /\ n.volume = h.volume /\ n.ear = h.ear
  BY <1>1, <1>2, OutField DEF SameCall
<1> HIDE DEF n
<1>4. Settled(h, n)
  BY <1>2, <1>3, SharedAlike DEF Settled, One, Rested, Ready, Led
<1>5. (Heard(h) => Heard(n)) /\ (Informed(h) => Informed(n))
  BY <1>2, <1>3 DEF Heard, Informed, Told
<1>6. Kept(h, n)
  BY <1>4, <1>5 DEF Kept
<1>7. QED
  BY <1>6 DEF n, y

(* A step that leaves the streams, the list, the slots and the sessions. *)
LEMMA AlikeKept ==
  ASSUME NEW h, NEW n, One(h), Alike(h, n), n.up = h.up, n.mode = h.mode,
         n.ear = h.ear, n.rilClient = h.rilClient, n.rilUp = h.rilUp,
         Led(h) /\ Ready(h) /\ Informed(h) => Informed(n)
  PROVE  Kept(h, n)
<1>1. Settled(h, n)
  BY SharedAlike DEF Alike, Settled, One, Rested, Ready, Led
<1>2. Heard(h) => Heard(n)
  BY DEF Alike, Heard
<1>3. QED
  BY <1>1, <1>2 DEF Kept

LEMMA CallInputs ==
  ASSUME StartsSucceed
  PROVE  /\ \A opened \in Opened : opened \in BOOLEAN /\ opened
         /\ \A r \in CallResults :
              /\ r \in [sco : BOOLEAN, tx : BOOLEAN, rx : BOOLEAN]
              /\ r.tx /\ r.rx
<1>1. Opened = {TRUE}
  BY DEF StartsSucceed, Opened
<1>2. \A opened \in Opened : opened \in BOOLEAN /\ opened
  BY <1>1, Zenon
<1>3. QED
  BY <1>1, <1>2 DEF CallResults

LEMMA OutStreamSafe ==
  ASSUME MInv, StartsSucceed, CallSafe(hal), NEW s \in Outs,
         \/ AdevCloseOutputStream(s) \/ OutWrite(s) \/ OutStandby(s)
         \/ \E d \in OutRoutes : AdevOpenOutputStream(s, d) \/ OutSetParameters(s, d)
  PROVE  CallSafe(hal')
<1>1. Sound(hal) /\ Matched(hal) /\ One(hal)
  BY DEF MInv, IInv, CallSafe
<1>2. CASE AdevCloseOutputStream(s)
  <2> DEFINE h == IF hal.out[s].state = "ACTIVE" THEN StandbyOutput(hal, s) ELSE hal
             x == [state |-> "CLOSED", devices |-> {"SPEAKER"}]
             n == [h EXCEPT !.out[s] = x]
  <2>1. Sound(h) /\ Kept(hal, h)
    BY <1>1, StandbyOutputSound, StandbyOutputKept, KeptSelf
  <2>2. Return(n) /\ s # "primary"
    BY <1>2 DEF AdevCloseOutputStream
  <2> HIDE DEF h
  <2>3. x \in OutStream
    BY RoutesAssumption DEF OutStream, StreamStates
  <2> HIDE DEF x
  <2>4. One(h)
    BY <2>1 DEF Kept, Settled
  <2>5. Kept(h, n)
    BY <2>1, <2>2, <2>3, <2>4, OutFieldKept
  <2> HIDE DEF n
  <2>6. QED
    BY <2>1, <2>2, <2>5, KeptTrans, ReturnKept
<1>3. CASE OutWrite(s)
  <2>1. PICK g \in Strays, opened \in Opened : Return(StartOutput(hal, s, g, opened))
    BY <1>3 DEF OutWrite
  <2>2. opened \in BOOLEAN /\ opened
    BY CallInputs, Zenon
  <2>3. Fits(hal, g)
    BY StraysFit DEF MInv
  <2>4. Kept(hal, StartOutput(hal, s, g, opened))
    BY <1>1, <2>2, <2>3, StartOutputKept
  <2>5. QED
    BY <2>1, <2>4, ReturnKept
<1>4. CASE OutStandby(s)
  BY <1>1, <1>4, StandbyOutputKept, ReturnKept DEF OutStandby
<1>5. ASSUME NEW d \in OutRoutes, AdevOpenOutputStream(s, d)
      PROVE  CallSafe(hal')
  <2> DEFINE x == [state |-> "STANDBY", devices |-> d]
             n == [hal EXCEPT !.out[s] = x]
  <2>1. Return(n) /\ s # "primary"
    BY <1>1, <1>5 DEF AdevOpenOutputStream, One
  <2>2. x \in OutStream
    BY DEF OutStream, StreamStates
  <2> HIDE DEF x
  <2>3. Kept(hal, n)
    BY <1>1, <2>1, <2>2, OutFieldKept
  <2> HIDE DEF n
  <2>4. QED
    BY <2>1, <2>3, ReturnKept
<1>6. ASSUME NEW d \in OutRoutes, OutSetParameters(s, d)
      PROVE  CallSafe(hal')
  <2>1. PICK g \in Strays, r \in CallResults : Return(SetOutputRoute(hal, s, d, g, r))
    BY <1>6 DEF OutSetParameters
  <2>2. /\ Fits(hal, g) /\ r \in [sco : BOOLEAN, tx : BOOLEAN, rx : BOOLEAN]
        /\ r.tx /\ r.rx
    BY CallInputs, StraysFit DEF MInv
  <2>3. Kept(hal, SetOutputRoute(hal, s, d, g, r))
    BY <1>1, <2>2, SetOutputRouteKept
  <2>4. QED
    BY <2>1, <2>3, ReturnKept
<1>7. QED
  BY <1>2, <1>3, <1>4, <1>5, <1>6

LEMMA InStreamSafe ==
  ASSUME MInv, StartsSucceed, CallSafe(hal),
         \/ AdevCloseInputStream \/ InRead \/ InStandby
         \/ \E source \in UsedSources, device \in InRoutes :
              AdevOpenInputStream(source, device) \/ InSetParameters(source, device)
  PROVE  CallSafe(hal')
<1>1. Sound(hal) /\ Matched(hal) /\ One(hal)
  BY DEF MInv, IInv, CallSafe
<1>2. CASE AdevCloseInputStream
  <2> DEFINE h == StandbyInput(hal)
             c == IF h.in.pcm THEN [h.in EXCEPT !.state = "CLOSED", !.stale = TRUE]
                  ELSE InClosed
             n == [h EXCEPT !.in = c]
  <2>1. Sound(h) /\ Kept(hal, h)
    BY <1>1, StandbyInputSound, StandbyInputKept
  <2>2. Return(n)
    BY <1>2 DEF AdevCloseInputStream
  <2> HIDE DEF h
  <2>3. c \in InStream
    BY <2>1 DEF InClosed, Sound, HalState, InStream, StreamStates, Sources, InDevices
  <2> HIDE DEF c
  <2>4. One(h)
    BY <2>1 DEF Kept, Settled
  <2>5. Kept(h, n)
    BY <2>1, <2>3, <2>4, InFieldKept
  <2> HIDE DEF n
  <2>6. QED
    BY <2>1, <2>2, <2>5, KeptTrans, ReturnKept
<1>3. CASE InRead
  <2>1. PICK g \in Strays, opened \in Opened, created \in Created :
          Return(StartInput(hal, g, opened, created))
    BY <1>3 DEF InRead
  <2>2. opened \in BOOLEAN /\ opened
    BY CallInputs, Zenon
  <2>3. created \in BOOLEAN
    BY DEF Created
  <2>4. ~hal.in.pcm
    BY <1>1, <1>3 DEF InRead, Matched, Paired, StartsSucceed
  <2>5. Kept(hal, StartInput(hal, g, opened, created))
    BY <1>1, <2>2, <2>3, <2>4, StartInputKept
  <2>6. QED
    BY <2>1, <2>5, ReturnKept
<1>4. CASE InStandby
  BY <1>1, <1>4, StandbyInputKept, ReturnKept DEF InStandby
<1>5. ASSUME NEW source \in UsedSources, NEW device \in InRoutes,
             AdevOpenInputStream(source, device)
      PROVE  CallSafe(hal')
  <2> DEFINE i == [hal.in EXCEPT !.state = "STANDBY", !.source = source,
                                 !.device = device]
             n == [hal EXCEPT !.in = i]
  <2>1. Return(n)
    BY <1>5 DEF AdevOpenInputStream
  <2>2. i \in InStream
    BY <1>1, RoutesAssumption DEF Sound, HalState, InStream, StreamStates
  <2> HIDE DEF i
  <2>3. Kept(hal, n)
    BY <1>1, <2>2, InFieldKept
  <2> HIDE DEF n
  <2>4. QED
    BY <2>1, <2>3, ReturnKept
<1>6. ASSUME NEW source \in UsedSources, NEW device \in InRoutes,
             InSetParameters(source, device)
      PROVE  CallSafe(hal')
  <2>1. PICK g \in Strays : Return(SetInputRoute(hal, source, device, g))
    BY <1>6 DEF InSetParameters
  <2>2. source \in Sources /\ device \in InDevices
    BY RoutesAssumption
  <2>3. Kept(hal, SetInputRoute(hal, source, device, g))
    BY <1>1, <2>2, SetInputRouteKept
  <2>4. QED
    BY <2>1, <2>3, ReturnKept
<1>7. QED
  BY <1>2, <1>3, <1>4, <1>5, <1>6

(* Registering for the modem's reports changes only what a failure may. *)
LEMMA RegisterKept ==
  ASSUME NEW h, Sound(h), One(h), NEW n \in RegisterCallbacks(h)
  PROVE  /\ Alike(h, n) /\ n.up = h.up /\ n.mode = h.mode /\ n.ear = h.ear
         /\ n.rilUp = h.rilUp /\ n.modem = h.modem /\ n.volume = h.volume
         /\ Faults = {} => n.rilClient = h.rilClient
<1> DEFINE Like(k) ==
             /\ Alike(h, k) /\ k.up = h.up /\ k.mode = h.mode /\ k.ear = h.ear
             /\ k.rilUp = h.rilUp /\ k.modem = h.modem /\ k.volume = h.volume
<1>1. Like(h)
  BY DEF Alike
<1>2. \A c : LET k == [h EXCEPT !.wbCallback = c]
             IN  Like(k) /\ k.rilClient = h.rilClient
  BY ZenonT(60) DEF Alike, Sound, HalState
<1>3. \A b, c : LET k == [h EXCEPT !.rilClient = b, !.wbCallback = c] IN Like(k)
  BY ZenonT(60) DEF Alike, Sound, HalState
<1> HIDE DEF Like
<1>4. \/ \E c : n = [h EXCEPT !.wbCallback = c]
      \/ "register" \in Faults /\ n = h
      \/ /\ "register" \in Faults
         /\ \E b, c : n = [h EXCEPT !.rilClient = b, !.wbCallback = c]
  BY DEF RegisterCallbacks
<1>5. Like(n) /\ (Faults = {} => n.rilClient = h.rilClient)
  <2>1. CASE \E c : n = [h EXCEPT !.wbCallback = c]
    <3>1. PICK c : n = [h EXCEPT !.wbCallback = c]
      BY <2>1
    <3> DEFINE k == [h EXCEPT !.wbCallback = c]
    <3>2. Like(k) /\ k.rilClient = h.rilClient
      BY <1>2
    <3>3. n = k
      BY <3>1
    <3> HIDE DEF k
    <3>4. QED
      BY <3>2, <3>3
  <2>2. CASE "register" \in Faults /\ n = h
    BY <1>1, <2>2
  <2>3. CASE /\ "register" \in Faults
             /\ \E b, c : n = [h EXCEPT !.rilClient = b, !.wbCallback = c]
    <3>1. PICK b, c : n = [h EXCEPT !.rilClient = b, !.wbCallback = c]
      BY <2>3
    <3> DEFINE k == [h EXCEPT !.rilClient = b, !.wbCallback = c]
    <3>2. Like(k)
      BY <1>3
    <3>3. n = k
      BY <3>1
    <3> HIDE DEF k
    <3>4. QED
      BY <2>3, <3>2, <3>3
  <2>4. QED
    BY <1>4, <2>1, <2>2, <2>3
<1>6. QED
  BY <1>5 DEF Like

LEMMA SetModeSafe ==
  ASSUME MInv, StartsSucceed, CallSafe(hal), NEW mode \in Modes, AdevSetMode(mode)
  PROVE  CallSafe(hal')
<1>1. Sound(hal) /\ Matched(hal) /\ One(hal)
  BY DEF MInv, IInv, CallSafe
<1>2. PICK h1 \in IF mode = "IN_CALL" THEN RegisterCallbacks(hal) ELSE {hal} :
        LET h2 == [h1 EXCEPT !.mode = mode]
        IN  Return(IF mode = "NORMAL" /\ h2.inCall THEN StopVoiceCall(h2) ELSE h2)
  BY DEF AdevSetMode
<1>3. <<hal.mode, mode>> \in ModeChanges
  BY DEF AdevSetMode
<1>4. Sound(h1)
  BY <1>1, <1>2, RegisterSound
<1>5. /\ Alike(hal, h1) /\ h1.up = hal.up /\ h1.ear = hal.ear
      /\ h1.rilUp = hal.rilUp /\ h1.modem = hal.modem /\ h1.volume = hal.volume
      /\ Faults = {} => h1.rilClient = hal.rilClient
  BY <1>1, <1>2, RegisterKept DEF Alike
<1> DEFINE h2 == [h1 EXCEPT !.mode = mode]
           n  == StopVoiceCall(h2)
<1>6. Sound(h2)
  BY <1>4, SoundFields
<1>7. /\ Alike(h1, h2) /\ h2.up = h1.up /\ h2.ear = h1.ear /\ h2.mode = mode
      /\ h2.rilUp = h1.rilUp /\ h2.modem = h1.modem /\ h2.volume = h1.volume
      /\ h2.rilClient = h1.rilClient
  BY <1>4, ZenonT(60) DEF Alike, Sound, HalState
<1>8. Return(IF mode = "NORMAL" /\ h2.inCall THEN n ELSE h2)
  BY <1>2
<1> HIDE DEF h2
<1>9. /\ Alike(hal, h2) /\ h2.up = hal.up /\ h2.ear = hal.ear
      /\ h2.rilUp = hal.rilUp /\ h2.modem = hal.modem /\ h2.volume = hal.volume
      /\ Faults = {} => h2.rilClient = hal.rilClient
  BY <1>5, <1>7 DEF Alike
<1>10. Matched(h2) /\ One(h2) /\ h2.inCall = hal.inCall
  <2>1. Matched(h2)
    BY <1>1, <1>9, AlikeMatched
  <2>2. QED
    BY <1>1, <1>9, <2>1 DEF One, Alike
<1>11. CallsEndInNormal => Heard(h2)
  BY <1>9, <1>10 DEF Heard, CallSafe, Alike
<1>12. CallsEndInNormal /\ Faults = {} => Ready(h2) /\ Informed(h2)
  BY <1>9, <1>10 DEF Ready, Informed, Told, CallSafe, Alike
<1>13. CASE mode = "NORMAL" /\ h2.inCall
  <2>1. Begun(h2, n) /\ ~n.inCall
    BY <1>6, <1>10, StopVoiceCallBegun
  <2>2. Return(n)
    BY <1>8, <1>13
  <2> HIDE DEF n
  <2>3. CallSafe(n)
    BY <1>12, <2>1 DEF CallSafe, Begun, Settled, Rested, Ready, Informed
  <2>4. QED
    BY <2>2, <2>3, ReturnSafe
<1>14. CASE ~(mode = "NORMAL" /\ h2.inCall)
  <2>1. Return(h2)
    BY <1>8, <1>14
  <2>2. Rested(h2)
    BY <1>7, <1>14 DEF Rested
  <2>3. CallsEndInNormal => Led(h2)
    <3> SUFFICES ASSUME CallsEndInNormal, h2.inCall
                 PROVE  h2.mode = "IN_CALL" /\ Shared(h2)
      BY DEF Led
    <3>1. hal.mode = "IN_CALL" /\ Shared(hal)
      BY <1>10 DEF CallSafe, Led
    <3>2. mode \in {"IN_CALL", "NORMAL"}
      BY <1>3, <3>1 DEF CallsEndInNormal
    <3>3. Shared(h2)
      BY <1>9, <3>1, SharedAlike DEF Alike
    <3>4. QED
      BY <1>7, <1>14, <3>2, <3>3
  <2>4. CallSafe(h2)
    BY <1>10, <1>11, <1>12, <2>2, <2>3 DEF CallSafe
  <2>5. QED
    BY <2>1, <2>4, ReturnSafe
<1>15. QED
  BY <1>13, <1>14

LEMMA VolumeSent ==
  ASSUME NEW h, NEW t, Reaches(h)
  PROVE  LET b == [h.modem EXCEPT !.sound = t, !.volume = h.volume]
         IN  RilSetVolume(h, t, h.volume) = [h EXCEPT !.modem = b]
<1> DEFINE b == [h.modem EXCEPT !.sound = t, !.volume = h.volume]
<1>1. RilSetVolume(h, t, h.volume) = [h EXCEPT !.modem = b]
  BY DEF RilSetVolume
<1>2. QED
  BY <1>1

LEMMA SettingSafe ==
  ASSUME MInv, StartsSucceed, CallSafe(hal),
         \/ \E state \in BOOLEAN : AdevSetMicMute(state)
         \/ \E volume \in Volumes : AdevSetVoiceVolume(volume)
         \/ \E p \in BtParams : AdevSetParameters(p[1], p[2])
         \/ \E t \in WbReports : WbAmrCallback(t)
  PROVE  CallSafe(hal')
<1>1. hal \in HalState /\ hal.modem \in Modem /\ Sound(hal) /\ One(hal)
  BY DEF MInv, IInv, Sound, HalState, CallSafe
<1> DEFINE Like(h, n) ==
             /\ Alike(h, n) /\ n.up = h.up /\ n.mode = h.mode /\ n.ear = h.ear
             /\ n.rilClient = h.rilClient /\ n.rilUp = h.rilUp
<1>2. ASSUME NEW state \in BOOLEAN, AdevSetMicMute(state)
      PROVE  CallSafe(hal')
  <2> DEFINE h == [hal EXCEPT !.micMute = state]
             n == RilSetMute(h, IF state THEN "MUTED" ELSE "UNMUTED")
  <2>1. Return(IF h.mode = "IN_CALL" THEN n ELSE h)
    BY <1>2 DEF AdevSetMicMute
  <2>2. Like(hal, h) /\ h.modem = hal.modem /\ h.volume = hal.volume
    BY <1>1, ZenonT(60) DEF Alike, HalState
  <2>3. Sound(h)
    BY <1>1, SoundFields
  <2>4. /\ Like(h, n) /\ n.volume = h.volume
        /\ n.modem.volume = h.modem.volume /\ n.modem.sound = h.modem.sound
    <3> DEFINE m == [h.modem EXCEPT !.tx = IF state THEN "MUTED" ELSE "UNMUTED"]
               k == [h EXCEPT !.modem = m]
    <3>1. h \in HalState /\ h.modem \in Modem
      BY <1>1, <2>2, <2>3 DEF Sound
    <3>2. m.volume = h.modem.volume /\ m.sound = h.modem.sound
      BY <3>1 DEF Modem
    <3>3. n = h \/ n = k
      BY DEF RilSetMute
    <3> HIDE DEF h, m, n
    <3>4. Like(h, k) /\ k.modem = m /\ k.volume = h.volume
      BY <3>1, ZenonT(60) DEF Alike, HalState
    <3> HIDE DEF k
    <3>5. Like(h, h)
      BY DEF Alike
    <3>6. QED
      BY <3>2, <3>3, <3>4, <3>5
  <2> HIDE DEF h, n
  <2>5. Kept(hal, h)
    BY <1>1, <2>2, AlikeKept DEF Informed, Told, Alike
  <2>6. Kept(h, n)
    <3>1. One(h)
      BY <2>5 DEF Kept, Settled
    <3>2. QED
      BY <2>4, <3>1, AlikeKept DEF Informed, Told, Alike
  <2>7. QED
    BY <2>1, <2>5, <2>6, KeptTrans, ReturnKept
<1>3. ASSUME NEW volume \in Volumes, AdevSetVoiceVolume(volume)
      PROVE  CallSafe(hal')
  <2> DEFINE h == [hal EXCEPT !.volume = volume]
             t == SoundType(h.out["primary"].devices)
             b == [h.modem EXCEPT !.sound = t, !.volume = h.volume]
             k == [h EXCEPT !.modem = b]
             n == VoiceVolume(h)
  <2>1. Return(n)
    BY <1>3 DEF AdevSetVoiceVolume
  <2>2. Like(hal, h) /\ h.modem = hal.modem
    BY <1>1, ZenonT(60) DEF Alike, HalState
  <2>3. Sound(h)
    BY <1>1, SoundFields
  <2>4. h \in HalState /\ h.modem \in Modem
    BY <1>1, <2>2, <2>3 DEF Sound
  <2>5. n = IF h.mode = "IN_CALL" /\ Reaches(h) THEN k ELSE h
    <3> HIDE DEF h, t
    <3>1. Reaches(h) => RilSetVolume(h, t, h.volume) = k
      BY VolumeSent
    <3>2. ~Reaches(h) => RilSetVolume(h, t, h.volume) = h
      BY DEF RilSetVolume
    <3> HIDE DEF k
    <3>3. QED
      BY <3>1, <3>2 DEF VoiceVolume, t
  <2>6. b.sound = t /\ b.volume = h.volume
    BY <2>4 DEF Modem
  <2> HIDE DEF h, b, n
  <2>7. Like(h, k) /\ k.modem = b /\ k.volume = h.volume
    BY <2>4, ZenonT(60) DEF Alike, HalState
  <2> HIDE DEF k
  <2>8. Told(k)
    BY <2>6, <2>7 DEF Told, Alike
  <2>9. Like(hal, n)
    BY <2>2, <2>5, <2>7 DEF Alike
  <2>10. Led(hal) /\ Ready(hal) => Informed(n)
    BY <1>1, <2>2, <2>5, <2>8, <2>9 DEF Led, Ready, Informed, Reaches, One, Alike
  <2>11. Kept(hal, n)
    BY <1>1, <2>9, <2>10, AlikeKept
  <2>12. QED
    BY <2>1, <2>11, ReturnKept
<1>4. ASSUME NEW p \in BtParams, AdevSetParameters(p[1], p[2])
      PROVE  CallSafe(hal')
  <2> DEFINE n == [hal EXCEPT !.nrec = p[1], !.btWb = p[2]]
  <2>1. Return(n)
    BY <1>4 DEF AdevSetParameters
  <2>2. Like(hal, n) /\ n.modem = hal.modem /\ n.volume = hal.volume
    BY <1>1, ZenonT(60) DEF Alike, HalState
  <2> HIDE DEF n
  <2>3. Kept(hal, n)
    BY <1>1, <2>2, AlikeKept DEF Informed, Told, Alike
  <2>4. QED
    BY <2>1, <2>3, ReturnKept
<1>5. ASSUME NEW t \in WbReports, WbAmrCallback(t)
      PROVE  CallSafe(hal')
  <2> DEFINE m == [hal.modem EXCEPT !.wbAmr = t]
             h == [hal EXCEPT !.modem = m]
             n == [h EXCEPT !.wbAmr = WbAmrOf(hal, t)]
  <2>1. Return(n)
    BY <1>5 DEF WbAmrCallback
  <2>2. m.volume = hal.modem.volume /\ m.sound = hal.modem.sound
    BY <1>1 DEF Modem
  <2> HIDE DEF m
  <2>3. Like(hal, n) /\ n.modem = m /\ n.volume = hal.volume
    BY <1>1, ZenonT(60) DEF Alike, HalState
  <2> HIDE DEF n
  <2>4. Kept(hal, n)
    BY <1>1, <2>2, <2>3, AlikeKept DEF Informed, Told, Alike
  <2>5. QED
    BY <2>1, <2>4, ReturnKept
<1>6. QED
  BY <1>2, <1>3, <1>4, <1>5

LEMMA SurroundingsSafe ==
  ASSUME MInv, StartsSucceed, CallSafe(hal),
         AdevGetMicMute \/ PcmClockCallback \/ RilToggles \/ Restart
  PROVE  CallSafe(hal')
<1>1. hal \in HalState
  BY DEF MInv, IInv, Sound
<1>2. CASE RilToggles
  <2> DEFINE n == [hal EXCEPT !.rilUp = ~hal.rilUp]
  <2>1. Faults # {} /\ hal' = n
    BY <1>2 DEF RilToggles
  <2>2. /\ n.out = hal.out /\ n.listed = hal.listed /\ n.tx = hal.tx
        /\ n.inCall = hal.inCall /\ n.snd = hal.snd /\ n.up = hal.up
        /\ n.mode = hal.mode /\ n.ear = hal.ear
    BY <1>1, ZenonT(60) DEF HalState
  <2> HIDE DEF n
  <2>3. One(n) /\ Rested(n)
    BY <2>2 DEF CallSafe, One, Rested
  <2>4. CallsEndInNormal => Led(n) /\ Heard(n)
    BY <2>2, SharedAlike DEF CallSafe, Led, Heard
  <2>5. QED
    BY <2>1, <2>3, <2>4 DEF CallSafe
<1>3. CASE Restart
  BY <1>3 DEF Restart, CallSafe, One
<1>4. CASE PcmClockCallback
  BY <1>4, ReturnSafe DEF PcmClockCallback, SetPcmClock
<1>5. CASE AdevGetMicMute
  BY <1>5 DEF AdevGetMicMute
<1>6. QED
  BY <1>2, <1>3, <1>4, <1>5

LEMMA NextSafe == MInv /\ CallInv /\ [Next]_hal => CallInv'
<1> SUFFICES ASSUME MInv, StartsSucceed, CallSafe(hal), [Next]_hal
             PROVE  CallSafe(hal')
  BY DEF CallInv
<1>1. CASE Next
  BY <1>1, OutStreamSafe, InStreamSafe, SetModeSafe, SettingSafe, SurroundingsSafe
     DEF Next
<1>2. CASE UNCHANGED hal
  BY <1>2
<1>3. QED
  BY <1>1, <1>2

LEMMA InitSafe == Init => CallInv
<1> SUFFICES ASSUME Init PROVE CallSafe(hal)
  BY DEF CallInv
<1>1. PICK v \in Volumes :
        hal = Fresh([path |-> "NONE", twoMic |-> FALSE, tx |-> "UNMUTED",
                     sound |-> "VOICE", volume |-> v, wbAmr |-> 0],
                    TRUE, ChipAtBoot)
  BY DEF Init
<1>2. /\ hal.up /\ hal.mode = "NORMAL" /\ hal.inCall = FALSE /\ hal.tx = <<>>
      /\ hal.rilClient /\ hal.rilUp /\ hal.ear = ChipAtBoot
      /\ hal.out["primary"].state = "STANDBY"
  BY <1>1 DEF Fresh, Outs
<1>3. ~Holds(<<>>, "VOICE_CALL") /\ Whole(<<>>)
  BY DEF Holds, Whole, Once
<1>4. One(hal) /\ Rested(hal)
  BY <1>2, <1>3 DEF One, Rested
<1>5. Led(hal) /\ Heard(hal) /\ Ready(hal) /\ Informed(hal)
  BY <1>2 DEF Led, Heard, Ready, Informed, ChipAtBoot
<1>6. QED
  BY <1>4, <1>5 DEF CallSafe

------------------------------------------------------------------------------
(* What a call promises *)

LEMMA OneEntry ==
  ASSUME NEW h, One(h)
  PROVE  CallEntries(h) = (IF h.inCall THEN 1 ELSE 0)
<1> DEFINE E == {i \in DOMAIN h.tx : h.tx[i] = "VOICE_CALL"}
<1>1. CASE h.inCall
  <2>1. PICK i \in DOMAIN h.tx : h.tx[i] = "VOICE_CALL"
    BY <1>1 DEF One, Holds
  <2>2. E = {i}
    BY <2>1 DEF One, Whole, Once
  <2> HIDE DEF E
  <2>3. Cardinality(E) = 1
    BY <2>2, FS_Singleton
  <2>4. QED
    BY <1>1, <2>3 DEF CallEntries, Entries, E
<1>2. CASE ~h.inCall
  <2>1. E = {}
    BY <1>2 DEF One, Holds
  <2> HIDE DEF E
  <2>2. Cardinality(E) = 0
    BY <2>1, FS_EmptySet
  <2>3. QED
    BY <1>2, <2>2 DEF CallEntries, Entries, E
<1>3. QED
  BY <1>1, <1>2

(* What holds of a call is an invariant, on every device, route, mode change
   and failure: adev_set_mode, select_devices, start_voice_call and
   stop_voice_call keep the flag, the list, the devices and the modem's
   volume in step.                                                         *)
THEOREM CallInvariance == Spec => [](MInv /\ CallInv)
<1>1. Init => MInv
  BY InitSound, InitMatched DEF MInv
<1>2. MInv /\ [Next]_hal => MInv'
  BY NextSound, NextMatched DEF MInv, Matched
<1>3. Init => CallInv
  BY InitSafe
<1>4. MInv /\ CallInv /\ [Next]_hal => CallInv'
  BY NextSafe
<1>5. QED
  BY <1>1, <1>2, <1>3, <1>4, PTL DEF Spec

(* With PCMs that open, adev_set_mode takes the call out of the usecase list
   when it leaves for the normal mode, and no path of start_voice_call links
   it a second time: one entry during a call, none otherwise.              *)
THEOREM OneCall == ASSUME StartsSucceed PROVE Spec => []OneCallEntry
<1>1. MInv /\ CallInv => OneCallEntry
  BY OneEntry DEF CallInv, CallSafe, One, Rested, OneCallEntry
<1>2. QED
  BY <1>1, CallInvariance, PTL

(* While a call is led by the modem, select_devices puts each playback and
   the capture on the devices of the call, whatever is started, rerouted or
   stopped and in which order.                                             *)
THEOREM CallShares ==
  ASSUME StartsSucceed, CallsEndInNormal PROVE Spec => []CallSharesDevices
<1>1. MInv /\ CallInv => CallSharesDevices
  <2> SUFFICES ASSUME MInv, CallInv, hal.inCall
               PROVE  /\ \A u \in hal.listed :
                           hal.snd[<<u, "out">>] = hal.snd[<<"VOICE_CALL", "out">>]
                      /\ hal.in.state = "ACTIVE" =>
                           hal.snd[<<"CAPTURE", "in">>] = hal.snd[<<"VOICE_CALL", "in">>]
    BY DEF CallSharesDevices
  <2>1. Shared(hal) /\ hal.listed \subseteq Playbacks
    BY DEF CallInv, CallSafe, Led, MInv, IInv, Sound, HalState
  <2>2. hal.in.state = "ACTIVE" => Holds(hal.tx, "CAPTURE")
    BY DEF MInv, Matched
  <2>3. QED
    BY <2>1, <2>2 DEF Shared, SharedBut, Playbacks
<1>2. QED
  BY <1>1, CallInvariance, PTL

(* With a modem that answers, the volume of set_voice_volume is the modem's
   in every call: it is kept outside calls, and do_routing_for_call sends it
   when the call starts and each time it moves.                            *)
THEOREM VolumeDelivered ==
  ASSUME Faults = {}, CallsEndInNormal PROVE Spec => []CallVolumeDelivered
<1>1. StartsSucceed
  BY DEF StartsSucceed, ResamplersMade
<1>2. MInv /\ CallInv => CallVolumeDelivered
  BY <1>1 DEF CallInv, CallSafe, Informed, Told, CallVolumeDelivered
<1>3. QED
  BY <1>2, CallInvariance, PTL

(* The modem's volume type is that of the output the call is on, and the
   voice processor is on a route of the call's microphones or sleeps: both
   follow each rerouting of the primary output, and stop_voice_call rests
   the processor.                                                          *)
THEOREM EndpointsFollow ==
  ASSUME Faults = {}, CallsEndInNormal PROVE Spec => []EndpointsAgree
<1>1. StartsSucceed
  BY DEF StartsSucceed, ResamplersMade
<1>2. MInv /\ CallInv => EndpointsAgree
  BY <1>1 DEF CallInv, CallSafe, Informed, Told, Heard, EndpointsAgree
<1>3. QED
  BY <1>2, CallInvariance, PTL

==============================================================================
