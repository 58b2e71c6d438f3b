--------------------------- MODULE DozeSensorsProofs ---------------------------
(***************************************************************************)
(* Proofs about DozeSensors for every value of its times and bounds.       *)
(***************************************************************************)
EXTENDS DozeSensors, TLAPS

(* The time that the code keeps is never before the last pulse and never    *)
(* in the future.                                                           *)
StampsInOrder ==
  /\ now \in Nat /\ entryTimestamp \in Int /\ picked \in Int
  /\ picked <= entryTimestamp /\ entryTimestamp <= now

LEMMA InitStamps == Init => StampsInOrder
  BY SensorsAssumption DEF Init, StampsInOrder, LongAgo

LEMMA NextStamps == StampsInOrder /\ [Next]_vars => StampsInOrder'
  <1> SUFFICES ASSUME StampsInOrder, [Next]_vars PROVE StampsInOrder'
    OBVIOUS
  <1> USE DEF StampsInOrder
  <1>1. CASE StampPickup
    BY <1>1 DEF StampPickup
  <1>2. ASSUME NEW up \in BOOLEAN, PickupEvent(up) PROVE StampsInOrder'
    BY <1>2, SensorsAssumption DEF PickupEvent
  <1>3. CASE Tick
    BY <1>3 DEF Tick
  <1>4. CASE \/ DisplaySwitched \/ RegisterPickup \/ EnableProximity
             \/ \E g \in Gestures : GestureSwitched(g)
             \/ \E s \in Sensors : Disable(s)
    BY <1>4 DEF DisplaySwitched, RegisterPickup, EnableProximity, GestureSwitched,
                Disable
  <1>5. CASE ProximityEvent \/ CoverChanges \/ UNCHANGED vars
    BY <1>5 DEF ProximityEvent, CoverChanges, vars
  <1> QED
    BY <1>1, <1>2, <1>3, <1>4, <1>5 DEF Next

(* Over every gesture, display cycle and registration, also between a        *)
(* registration and its stamp.                                               *)
THEOREM StampsStayInOrder == Spec => []StampsInOrder
  BY InitStamps, NextStamps, PTL DEF Spec

(* Two pulses for a pick-up are never closer than the interval, through     *)
(* every registration between them and for every length of the interval.    *)
THEOREM PulsesApart == Spec => PickupPulsesApart
  <1>1. ASSUME StampsInOrder, [Next]_vars, picked' # picked
        PROVE  picked' - picked >= MinPulseInterval
    <2>1. PICK up \in BOOLEAN : PickupEvent(up)
      BY <1>1 DEF Next, DisplaySwitched, GestureSwitched, RegisterPickup, StampPickup,
                  EnableProximity, Disable, ProximityEvent, Tick, CoverChanges, vars
    <2>2. picked' = now /\ now - entryTimestamp >= MinPulseInterval
      BY <1>1, <2>1 DEF PickupEvent
    <2> QED
      BY <1>1, <2>2, SensorsAssumption DEF StampsInOrder
  <1>2. StampsInOrder /\ [Next]_vars =>
          [picked' # picked => picked' - picked >= MinPulseInterval]_vars
    BY <1>1
  <1> QED
    BY <1>2, StampsStayInOrder, PTL DEF Spec, PickupPulsesApart

------------------------------------------------------------------------------
(* What the listener remembers of a cover it has watched: as long as its    *)
(* begin is unread no time has passed, from then on it is near since the    *)
(* cover began, and when its end is read it is near no more.                *)
CoverRemembered ==
  watched =>
    /\ "proximity" \in listening
    /\ covered /\ unread => coveredSince = now
    /\ covered /\ ~unread => sawNear /\ inPocketTime = coveredSince
    /\ ~covered /\ unread /\ sawNear => inPocketTime = coveredSince
    /\ ~covered /\ ~unread => ~sawNear
Flags == {watched, covered, unread, sawNear} \subseteq BOOLEAN
Remembered == Flags /\ CoverRemembered

LEMMA InitRemembered == Init => Remembered
  BY DEF Init, Remembered, Flags, CoverRemembered

LEMMA NextRemembered == Remembered /\ [Next]_vars => Remembered'
  <1> SUFFICES ASSUME Remembered, [Next]_vars PROVE Remembered'
    OBVIOUS
  <1> USE DEF Remembered, Flags, CoverRemembered
  <1>1. CASE ProximityEvent
    BY <1>1 DEF ProximityEvent, cover
  <1>2. CASE CoverChanges
    <2>1. /\ ~unread /\ unread' = ("proximity" \in listening)
          /\ covered' = ~covered
          /\ UNCHANGED <<listening, now, sawNear, inPocketTime>>
      BY <1>2 DEF CoverChanges
    <2>2. CASE covered
      <3>1. UNCHANGED <<coveredSince, watched>>
        BY <1>2, <2>2 DEF CoverChanges
      <3> QED
        BY <2>1, <2>2, <3>1
    <2>3. CASE ~covered
      <3>1. coveredSince' = now /\ watched' = ("proximity" \in listening)
        BY <1>2, <2>3 DEF CoverChanges
      <3> QED
        BY <2>1, <2>3, <3>1
    <2> QED
      BY <2>2, <2>3
  <1>3. CASE EnableProximity
    BY <1>3 DEF EnableProximity, cover
  <1>4. ASSUME NEW s \in Sensors, Disable(s) PROVE Remembered'
    BY <1>4 DEF Disable, Sensors
  <1>5. CASE Tick
    BY <1>5 DEF Tick, proximity, cover
  <1>6. CASE \/ DisplaySwitched \/ RegisterPickup \/ StampPickup
             \/ \E g \in Gestures : GestureSwitched(g)
             \/ \E up \in BOOLEAN : PickupEvent(up)
             \/ UNCHANGED vars
    BY <1>6 DEF DisplaySwitched, RegisterPickup, StampPickup, GestureSwitched,
                PickupEvent, proximity, cover, vars
  <1> QED
    BY <1>1, <1>2, <1>3, <1>4, <1>5, <1>6 DEF Next

(* The listener's two fields tell when a watched cover began, whatever the   *)
(* display and the switches did since.                                       *)
THEOREM CoversAreRemembered == Spec => []Remembered
  BY InitRemembered, NextRemembered, PTL DEF Spec

(* A cover that was watched pulses by its true length and only for the      *)
(* gestures that are on, for all limits.                                    *)
THEOREM CoversJudged == Spec => WatchedCovers
  <1>1. ASSUME Remembered, Pulses, watched PROVE GestureMade
    <2>1. inPocketTime = coveredSince
      BY <1>1 DEF Remembered, CoverRemembered, Pulses, ProximityEvent,
                  ProximityPulses
    <2>2. ShouldPulse(now - coveredSince)
      BY <1>1, <2>1 DEF Pulses, ProximityPulses
    <2> QED
      BY <2>2 DEF ShouldPulse, GestureMade, CoverTime, WaveOn, PocketOn
  <1>2. Remembered => [Pulses /\ watched => GestureMade]_vars
    BY <1>1
  <1> QED
    BY <1>2, CoversAreRemembered, PTL DEF WatchedCovers
==============================================================================
