---------------------------- MODULE PowerHalProofs ----------------------------
(***************************************************************************)
(* Proofs about PowerHal for every set of frequencies, every cap and every *)
(* combination of faults: the two invariants that PowerHalMC checks on an  *)
(* instance.                                                               *)
(***************************************************************************)
EXTENDS PowerHal, TLAPS

Maxima == [Clusters -> Frequencies]

(* The types of the variables that the properties depend on *)
Typed ==
  /\ {touchscreen, touchkeys, touchkeysBlocked} \subseteq BOOLEAN
  /\ {interactive, touchDisabled, keysDisabled} \subseteq BOOLEAN
  /\ {maxFreq, savedFreq, chosenFreq} \subseteq Maxima
  /\ profile \in Profiles
  /\ refused \subseteq InputDevices

(* What the HAL remembers in low power is what was chosen. *)
SavedIsChosen ==
  profile = "POWER_SAVE" =>
    \A c \in Clusters : c \in lost \/ savedFreq[c] = chosenFreq[c]

(* The keys that the next resume will not switch on are off because another *)
(* component wants them off or their node refused to switch them on before, *)
(* or are on already.                                                       *)
BlockedKeysAreDisabled ==
  touchkeysBlocked => keysDisabled \/ touchkeys \/ "touchkeys" \in refused

IInv == /\ Typed
        /\ CapsRestored /\ SavedIsChosen
        /\ InputsComeBack /\ BlockedKeysAreDisabled

------------------------------------------------------------------------------
LEMMA InitIInv == Init => IInv
  <1> SUFFICES ASSUME Init PROVE IInv
    OBVIOUS
  <1>1. PICK f \in Frequencies : /\ maxFreq = [c \in Clusters |-> f]
                                 /\ savedFreq = maxFreq /\ chosenFreq = maxFreq
    BY DEF Init
  <1>2. Typed
    BY <1>1 DEF Init, Typed, Maxima, Profiles
  <1>3. CapsRestored /\ SavedIsChosen
    BY <1>1 DEF Init, CapsRestored, SavedIsChosen
  <1>4. InputsComeBack /\ BlockedKeysAreDisabled
    BY DEF Init, InputsComeBack, BlockedKeysAreDisabled
  <1> QED
    BY <1>2, <1>3, <1>4 DEF IInv

(* A step that leaves the frequencies, and one that leaves the inputs, keep *)
(* the half of the invariant that is about them.                            *)
LEMMA FreqsKept ==
  ASSUME IInv, UNCHANGED <<maxFreq, savedFreq, profile, chosenFreq, lost>>
  PROVE  CapsRestored' /\ SavedIsChosen'
  BY DEF IInv, CapsRestored, SavedIsChosen

LEMMA InputsKept ==
  ASSUME IInv, UNCHANGED <<touchscreen, touchkeys, touchkeysBlocked, refused,
                           interactive, touchDisabled, keysDisabled>>
  PROVE  InputsComeBack' /\ BlockedKeysAreDisabled'
  BY DEF IInv, InputsComeBack, BlockedKeysAreDisabled

(* set_power_profile, whatever cannot be read or written *)
LEMMA SetPowerProfileSound ==
  ASSUME IInv, NEW p \in Profiles, SetPowerProfile(p), UNCHANGED chosenFreq
  PROVE  /\ {maxFreq', savedFreq'} \subseteq Maxima /\ profile' \in Profiles
         /\ CapsRestored' /\ SavedIsChosen'
  <1> USE DEF Maxima
  <1>0. /\ maxFreq \in Maxima /\ savedFreq \in Maxima /\ chosenFreq \in Maxima
        /\ profile \in Profiles /\ CapsRestored /\ SavedIsChosen
    BY DEF IInv, Typed
  <1>1. CASE profile = p
    BY <1>0, <1>1 DEF SetPowerProfile, freqs, CapsRestored, SavedIsChosen
  <1>2. CASE profile # p /\ p = "POWER_SAVE"
    <2>1. PICK readable \in [Clusters -> Readable], writable \in [Clusters -> Writable] :
            /\ savedFreq' = [c \in Clusters |->
                 SysfsRead(maxFreq[c], savedFreq[c], readable[c])]
            /\ maxFreq' = [c \in Clusters |->
                 SysfsWrite(maxFreq[c], PowerSaveCap[c], writable[c])]
            /\ lost' = lost \cup {c \in Clusters : ~readable[c]}
      BY <1>2 DEF SetPowerProfile
    <2>2. profile' = "POWER_SAVE" /\ profile = "BALANCED"
      BY <1>0, <1>2 DEF SetPowerProfile, Profiles
    <2>3. savedFreq' \in Maxima /\ maxFreq' \in Maxima
      BY <1>0, <2>1, PowerAssumption DEF SysfsRead, SysfsWrite
    <2>4. ASSUME NEW c \in Clusters PROVE c \in lost' \/ savedFreq'[c] = chosenFreq'[c]
      <3>1. c \in lost \/ maxFreq[c] = chosenFreq[c]
        BY <1>0, <2>2 DEF CapsRestored
      <3>2. CASE readable[c]
        BY <2>1, <3>1, <3>2 DEF SysfsRead
      <3>3. CASE ~readable[c]
        BY <2>1, <3>3
      <3> QED
        BY <3>2, <3>3
    <2> QED
      BY <2>2, <2>3, <2>4 DEF Profiles, CapsRestored, SavedIsChosen
  <1>3. CASE profile # p /\ p = "BALANCED"
    <2>1. PICK writable \in [Clusters -> Writable] :
            /\ maxFreq' = [c \in Clusters |->
                 SysfsWrite(maxFreq[c], savedFreq[c], writable[c])]
            /\ lost' = lost \cup {c \in Clusters : ~writable[c]}
            /\ UNCHANGED savedFreq
      BY <1>3 DEF SetPowerProfile
    <2>2. profile' = "BALANCED" /\ profile = "POWER_SAVE"
      BY <1>0, <1>3 DEF SetPowerProfile, Profiles
    <2>3. savedFreq' \in Maxima /\ maxFreq' \in Maxima
      BY <1>0, <2>1 DEF SysfsWrite
    <2>4. ASSUME NEW c \in Clusters PROVE c \in lost' \/ maxFreq'[c] = chosenFreq'[c]
      <3>1. c \in lost \/ savedFreq[c] = chosenFreq[c]
        BY <1>0, <2>2 DEF SavedIsChosen
      <3>2. CASE writable[c]
        BY <2>1, <3>1, <3>2 DEF SysfsWrite
      <3>3. CASE ~writable[c]
        BY <2>1, <3>3
      <3> QED
        BY <3>2, <3>3
    <2> QED
      BY <2>2, <2>3, <2>4 DEF Profiles, CapsRestored, SavedIsChosen
  <1> QED
    BY <1>1, <1>2, <1>3 DEF Profiles

(* What a write of the input devices leaves *)
LEMMA Outcomes == Writable \subseteq BOOLEAN /\ Readable \subseteq BOOLEAN
  BY DEF Writable, Readable

LEMMA NotedOwn ==
  ASSUME NEW D \in SUBSET InputDevices, NEW d \in InputDevices, NEW w \in BOOLEAN
  PROVE  Noted(D, d, w) \in SUBSET InputDevices /\ (d \in Noted(D, d, w) <=> ~w)
  BY DEF Noted

LEMMA NotedOther ==
  ASSUME NEW D, NEW w \in BOOLEAN
  PROVE  /\ "touchkeys" \in Noted(D, "touchscreen", w) <=> "touchkeys" \in D
         /\ "touchscreen" \in Noted(D, "touchkeys", w) <=> "touchscreen" \in D
  BY DEF Noted

LEMMA KeysSwitchedOn ==
  ASSUME NEW D \in SUBSET InputDevices, SwitchKeys(TRUE, D), touchkeys \in BOOLEAN
  PROVE  /\ touchkeys' \in BOOLEAN /\ refused' \subseteq InputDevices
         /\ touchkeys' \/ "touchkeys" \in refused'
         /\ "touchscreen" \in refused' <=> "touchscreen" \in D
  <1>1. PICK w \in BOOLEAN : /\ touchkeys' = SysfsWrite(touchkeys, TRUE, w)
                             /\ refused' = Noted(D, "touchkeys", w)
    BY Outcomes DEF SwitchKeys
  <1> QED
    BY <1>1, NotedOwn, NotedOther DEF SysfsWrite, InputDevices

LEMMA KeysSwitchedOff ==
  ASSUME NEW D \in SUBSET InputDevices, SwitchKeys(FALSE, D), touchkeys \in BOOLEAN
  PROVE  touchkeys' \in BOOLEAN /\ refused' \subseteq InputDevices
  <1>1. PICK w \in BOOLEAN : /\ touchkeys' = SysfsWrite(touchkeys, FALSE, w)
                             /\ refused' = Noted(D, "touchkeys", w)
    BY Outcomes DEF SwitchKeys
  <1> QED
    BY <1>1, NotedOwn DEF SysfsWrite, InputDevices

------------------------------------------------------------------------------
LEMMA NextIInv == IInv /\ [Next]_vars => IInv'
  <1> SUFFICES ASSUME IInv, [Next]_vars PROVE IInv'
    OBVIOUS
  <1>0. /\ touchscreen \in BOOLEAN /\ touchkeys \in BOOLEAN
        /\ touchkeysBlocked \in BOOLEAN /\ interactive \in BOOLEAN
        /\ touchDisabled \in BOOLEAN /\ keysDisabled \in BOOLEAN
        /\ maxFreq \in Maxima /\ savedFreq \in Maxima /\ chosenFreq \in Maxima
        /\ profile \in Profiles /\ refused \subseteq InputDevices
    BY DEF IInv, Typed
  <1>1. CASE SetInteractiveOn
    <2>1. UNCHANGED <<maxFreq, savedFreq, profile, chosenFreq, lost>>
      BY <1>1 DEF SetInteractiveOn, freqs
    <2>2. PICK screen \in BOOLEAN :
            /\ touchscreen' = SysfsWrite(touchscreen, TRUE, screen)
            /\ IF touchkeysBlocked
               THEN /\ UNCHANGED touchkeys
                    /\ refused' = Noted(refused, "touchscreen", screen)
               ELSE SwitchKeys(TRUE, Noted(refused, "touchscreen", screen))
      BY <1>1, Outcomes DEF SetInteractiveOn
    <2>3. /\ touchscreen' \in BOOLEAN
          /\ touchscreen' \/ "touchscreen" \in Noted(refused, "touchscreen", screen)
      BY <1>0, <2>2, NotedOwn DEF SysfsWrite, InputDevices
    <2>4. CASE touchkeysBlocked
      <3>1. /\ refused' \subseteq InputDevices
            /\ "touchkeys" \in refused' <=> "touchkeys" \in refused
        BY <1>0, <2>2, <2>4, NotedOwn, NotedOther DEF InputDevices
      <3>2. Typed'
        BY <1>0, <1>1, <2>1, <2>2, <2>3, <2>4, <3>1 DEF SetInteractiveOn, Typed
      <3>3. InputsComeBack' /\ BlockedKeysAreDisabled'
        BY <1>1, <2>2, <2>3, <2>4, <3>1
        DEF SetInteractiveOn, IInv, InputsComeBack, BlockedKeysAreDisabled
      <3> QED
        BY <2>1, <3>2, <3>3, FreqsKept DEF IInv
    <2>5. CASE ~touchkeysBlocked
      <3>1. /\ touchkeys' \in BOOLEAN /\ refused' \subseteq InputDevices
            /\ touchkeys' \/ "touchkeys" \in refused'
            /\ "touchscreen" \in refused' <=>
                 "touchscreen" \in Noted(refused, "touchscreen", screen)
        BY <1>0, <2>2, <2>5, NotedOwn, KeysSwitchedOn DEF InputDevices
      <3>2. Typed'
        BY <1>0, <1>1, <2>1, <2>3, <3>1 DEF SetInteractiveOn, Typed
      <3>3. InputsComeBack' /\ BlockedKeysAreDisabled'
        BY <1>1, <2>3, <3>1 DEF SetInteractiveOn, InputsComeBack, BlockedKeysAreDisabled
      <3> QED
        BY <2>1, <3>2, <3>3, FreqsKept DEF IInv
    <2> QED
      BY <1>0, <2>4, <2>5
  <1>2. CASE SetInteractiveOff
    <2>1. UNCHANGED <<maxFreq, savedFreq, profile, chosenFreq, lost>>
      BY <1>2 DEF SetInteractiveOff, freqs
    <2>2. /\ {touchscreen', touchkeys', touchkeysBlocked'} \subseteq BOOLEAN
          /\ refused' \subseteq InputDevices
          /\ BlockedKeysAreDisabled'
      <3>1. CASE panel = "LIT"
        BY <1>0, <1>2, <3>1 DEF SetInteractiveOff, inputs, IInv, BlockedKeysAreDisabled
      <3>2. CASE panel # "LIT"
        <4>1. PICK screen \in BOOLEAN, readable \in BOOLEAN :
                /\ touchscreen' = SysfsWrite(touchscreen, FALSE, screen)
                /\ touchkeysBlocked' = IF readable THEN ~touchkeys ELSE touchkeysBlocked
                /\ IF readable /\ touchkeys
                   THEN SwitchKeys(FALSE, Noted(refused, "touchscreen", screen))
                   ELSE /\ UNCHANGED touchkeys
                        /\ refused' = Noted(refused, "touchscreen", screen)
          BY <1>2, <3>2, Outcomes DEF SetInteractiveOff
        <4>2. touchscreen' \in BOOLEAN /\ touchkeysBlocked' \in BOOLEAN
          BY <1>0, <4>1 DEF SysfsWrite
        <4>3. CASE readable /\ touchkeys
          <5>1. SwitchKeys(FALSE, Noted(refused, "touchscreen", screen))
            BY <4>1, <4>3
          <5>2. touchkeys' \in BOOLEAN /\ refused' \subseteq InputDevices
            BY <1>0, <5>1, NotedOwn, KeysSwitchedOff DEF InputDevices
          <5>3. ~touchkeysBlocked'
            BY <4>1, <4>3
          <5> QED
            BY <4>2, <5>2, <5>3 DEF BlockedKeysAreDisabled
        <4>4. CASE ~(readable /\ touchkeys)
          <5>1. UNCHANGED touchkeys /\ refused' = Noted(refused, "touchscreen", screen)
            BY <4>1, <4>4
          <5>2. /\ refused' \subseteq InputDevices
                /\ "touchkeys" \in refused' <=> "touchkeys" \in refused
            BY <1>0, <5>1, NotedOwn, NotedOther DEF InputDevices
          <5>3. CASE ~readable
            BY <1>0, <1>2, <4>1, <4>2, <5>1, <5>2, <5>3
            DEF SetInteractiveOff, IInv, BlockedKeysAreDisabled
          <5>4. CASE readable /\ ~touchkeys
            <6>1. interactive /\ UNCHANGED keysDisabled
              BY <1>2 DEF SetInteractiveOff
            <6>2. keysDisabled \/ touchkeys \/ "touchkeys" \in refused
              BY <6>1 DEF IInv, InputsComeBack
            <6> QED
              BY <1>0, <4>2, <5>1, <5>2, <6>1, <6>2 DEF BlockedKeysAreDisabled
          <5> QED
            BY <4>4, <5>3, <5>4
        <4> QED
          BY <4>3, <4>4
      <3> QED
        BY <3>1, <3>2
    <2>3. Typed'
      BY <1>0, <1>2, <2>1, <2>2 DEF SetInteractiveOff, Typed
    <2>4. InputsComeBack'
      BY <1>2 DEF SetInteractiveOff, InputsComeBack
    <2> QED
      BY <2>1, <2>2, <2>3, <2>4, FreqsKept DEF IInv
  <1>3. ASSUME NEW p \in Profiles, LowPowerHint(p) PROVE IInv'
    <2>1. UNCHANGED <<touchscreen, touchkeys, touchkeysBlocked, refused, interactive,
                      touchDisabled, keysDisabled, chosenFreq>>
      BY <1>3 DEF LowPowerHint, inputs, environment
    <2>2. SetPowerProfile(p)
      BY <1>3 DEF LowPowerHint
    <2>3. /\ {maxFreq', savedFreq'} \subseteq Maxima /\ profile' \in Profiles
          /\ CapsRestored' /\ SavedIsChosen'
      BY <2>1, <2>2, SetPowerProfileSound
    <2>4. Typed'
      BY <1>0, <2>1, <2>3 DEF Typed
    <2> QED
      BY <2>1, <2>3, <2>4, InputsKept DEF IInv
  <1>4. ASSUME NEW off \in BOOLEAN, DisableTouchHint(off) PROVE IInv'
    <2>1. UNCHANGED <<maxFreq, savedFreq, profile, chosenFreq, lost>>
      BY <1>4 DEF DisableTouchHint, freqs
    <2>2. PICK writable \in BOOLEAN :
            /\ touchscreen' = SysfsWrite(touchscreen, ~off, writable)
            /\ refused' = Noted(refused, "touchscreen", writable)
      BY <1>4, Outcomes DEF DisableTouchHint
    <2>3. /\ touchscreen' \in BOOLEAN /\ refused' \subseteq InputDevices
          /\ off \/ touchscreen' \/ "touchscreen" \in refused'
          /\ "touchkeys" \in refused' <=> "touchkeys" \in refused
      BY <1>0, <2>2, NotedOwn, NotedOther DEF SysfsWrite, InputDevices
    <2>4. Typed'
      BY <1>0, <1>4, <2>1, <2>3 DEF DisableTouchHint, Typed
    <2>5. InputsComeBack' /\ BlockedKeysAreDisabled'
      BY <1>0, <1>4, <2>3 DEF DisableTouchHint, IInv, InputsComeBack, BlockedKeysAreDisabled
    <2> QED
      BY <2>1, <2>4, <2>5, FreqsKept DEF IInv
  <1>5. CASE Restart
    <2>1. UNCHANGED <<touchscreen, touchkeys, refused, maxFreq, interactive,
                      touchDisabled, keysDisabled, chosenFreq>>
      BY <1>5 DEF Restart, environment
    <2>2. Typed'
      BY <1>0, <1>5, <2>1 DEF Restart, Typed, Profiles
    <2>3. CapsRestored' /\ SavedIsChosen'
      BY <1>0, <1>5, <2>1 DEF Restart, IInv, CapsRestored, SavedIsChosen, Profiles
    <2>4. InputsComeBack' /\ BlockedKeysAreDisabled'
      BY <1>5, <2>1 DEF Restart, IInv, InputsComeBack, BlockedKeysAreDisabled
    <2> QED
      BY <2>2, <2>3, <2>4 DEF IInv
  <1>6. CASE KeysSwitched
    <2>1. UNCHANGED <<maxFreq, savedFreq, profile, chosenFreq, lost>>
      BY <1>6 DEF KeysSwitched, freqs
    <2>2. Typed'
      BY <1>0, <1>6, <2>1 DEF KeysSwitched, Typed
    <2>3. InputsComeBack' /\ BlockedKeysAreDisabled'
      BY <1>0, <1>6 DEF KeysSwitched, IInv, InputsComeBack, BlockedKeysAreDisabled
    <2> QED
      BY <2>1, <2>2, <2>3, FreqsKept DEF IInv
  <1>7. ASSUME NEW c \in Clusters, NEW f \in Frequencies, FrequencyChosen(c, f)
        PROVE  IInv'
    <2>1. UNCHANGED <<touchscreen, touchkeys, touchkeysBlocked, refused, interactive,
                      touchDisabled, keysDisabled, savedFreq, profile>>
      BY <1>7 DEF FrequencyChosen, inputs
    <2>2. Typed'
      BY <1>0, <1>7, <2>1 DEF FrequencyChosen, Typed, Maxima
    <2>3. CapsRestored' /\ SavedIsChosen'
      BY <1>0, <1>7 DEF FrequencyChosen, IInv, CapsRestored, SavedIsChosen, Maxima
    <2> QED
      BY <2>1, <2>2, <2>3, InputsKept DEF IInv
  <1>8. ASSUME UNCHANGED <<inputs, freqs, lost>>,
               UNCHANGED <<interactive, touchDisabled, keysDisabled, chosenFreq>>
        PROVE  IInv'
    <2>1. Typed'
      BY <1>0, <1>8 DEF Typed, inputs, freqs
    <2> QED
      BY <1>8, <2>1, FreqsKept, InputsKept DEF IInv, inputs, freqs
  <1>9. CASE \/ \E on \in BOOLEAN : SetFeature(on)
             \/ LaunchHint \/ InteractionHint \/ VsyncHint
             \/ PanelChanges \/ \E b \in Boosts : BoostEnds(b)
    BY <1>8, <1>9 DEF SetFeature, LaunchHint, InteractionHint, VsyncHint, Send,
                      PanelChanges, BoostEnds, environment
  <1>10. CASE UNCHANGED vars
    BY <1>8, <1>10 DEF vars, environment
  <1> QED
    BY <1>1, <1>2, <1>3, <1>4, <1>5, <1>6, <1>7, <1>9, <1>10 DEF Next

(* The HAL's invariant: saved maxima, profile and blocked input devices are  *)
(* those that its calls and the other components left, after any failures    *)
(* and restarts.                                                             *)
THEOREM Invariance == Spec => []IInv
  BY InitIInv, NextIInv, PTL DEF Spec

(* set_power_profile gives the chosen maxima back, except those that a      *)
(* fault lost, for all frequencies and caps.                                *)
THEOREM MaximaComeBack == Spec => []CapsRestored
  <1>1. IInv => CapsRestored
    BY DEF IInv
  <1> QED
    BY <1>1, Invariance, PTL

(* set_interactive gives the input devices back, except those that somebody *)
(* else has disabled.                                                       *)
THEOREM InputDevicesComeBack == Spec => []InputsComeBack
  <1>1. IInv => InputsComeBack
    BY DEF IInv
  <1> QED
    BY <1>1, Invariance, PTL

==============================================================================
