---------------------------- MODULE StreamDataProofs ----------------------------
(***************************************************************************)
(* Proofs about StreamData for any rates that the HAL takes, any sizes of  *)
(* calls, any steps of time and any failures: what the buffer of a capture *)
(* holds, what its positions count, and how long its failed calls last.    *)
(***************************************************************************)
EXTENDS StreamData, TLAPS

(* The frames of the device that a call in progress has been given, or the   *)
(* frames of its client, when they have still to be counted                  *)
Given ==
  IF pc = "moving" THEN Lasting(asked, rate) - left
  ELSE IF pc \in {"moved", "asleep"} THEN asked ELSE 0

Typed ==
  /\ dir \in {"in", "out"} /\ rate \in SampleRates(dir)
  /\ fast \in BOOLEAN /\ low \in BOOLEAN /\ standby \in BOOLEAN
  /\ pc \in {"idle", "moving", "failed", "moved", "asleep"}
  /\ asked \in Nat /\ left \in Nat /\ period \in Nat
  /\ buf \in [first : Nat, held : BOOLEAN]
  /\ bufFrames \in Nat /\ read \in Nat /\ taken \in [from : Int, to : Int]
  /\ queued \in Nat /\ captured \in Nat /\ frames \in Nat /\ position \in Int
  /\ now \in Nat /\ last \in Nat /\ wake \in Nat /\ silent \in Nat
  /\ now >= BootTime

(* A stream that moves is open, and an open capture has the period that its  *)
(* profile has, which no later start takes back to the longer one.           *)
Opened ==
  /\ pc = "moving" => ~standby
  /\ pc = "asleep" => standby
  /\ dir = "in" /\ ~standby => period = Period(low)
  /\ dir = "in" => \/ promised = InGetBufferSize(rate, FALSE)
                   \/ low /\ promised = InGetBufferSize(rate, TRUE)

(* What the buffer of an open capture holds are the last frames that were    *)
(* read, and those before them were handed out.                              *)
Buffered ==
  dir = "in" /\ ~standby =>
    /\ bufFrames <= period
    /\ bufFrames > 0 => buf.held /\ buf.first + period - 1 = read
    /\ taken.to = read - bufFrames

(* No frame is counted before the device had it. *)
Counted ==
  /\ pc = "moving" => left <= Lasting(asked, rate)
  /\ dir = "in" =>
       frames + Given + queued + (IF standby THEN 0 ELSE bufFrames) <= captured + silent
  /\ dir = "out" => /\ queued <= KernelBufferSize(fast)
                    /\ position <= frames - queued

(* What the failed calls have answered for has passed by the time of the     *)
(* last one; of a playback, the first failure excepted.                      *)
Waited ==
  /\ asked \in Requests \cup {0}
  /\ pc = "asleep" => wake = last
  /\ dir = "in" =>
       /\ Lasting(silent, rate) <= (IF pc = "asleep" THEN wake ELSE now) - BootTime
       /\ last # 0 => Lasting(silent, rate) <= last - BootTime
  /\ dir = "out" =>
       \/ silent = 0 /\ last = 0
       \/ /\ pc # "asleep" => now >= last
          /\ \E n \in Requests \cup {0} :
               n <= silent /\ Lasting(silent - n, rate) <= last - BootTime

SInv == Typed /\ Opened /\ Buffered /\ Counted /\ Waited
------------------------------------------------------------------------------
(* What the conversions promise of every rate *)
LEMMA LastingBounds ==
  ASSUME NEW r \in InputRates, NEW a \in Nat
  PROVE  Lasting(a, r) \in Nat /\ Lasting(a, r) >= a /\ Lasting(0, r) = 0
  BY DEF Lasting, InputRates, DeviceRate

LEMMA LastingAdds ==
  ASSUME NEW r \in InputRates, NEW a \in Nat, NEW b \in Nat
  PROVE  Lasting(a + b, r) <= Lasting(a, r) + Lasting(b, r)
  BY DEF Lasting, InputRates, DeviceRate

LEMMA BuffersHold ==
  ASSUME NEW r \in InputRates, NEW l \in BOOLEAN
  PROVE  Lasting(InGetBufferSize(r, l), r) >= Period(l)
  BY DEF Lasting, InGetBufferSize, InputBufferSize, Period, CapturePeriod,
         CapturePeriodLowLatency, InputRates, DeviceRate

LEMMA SomePeriod ==
  /\ \A l \in BOOLEAN : /\ Period(l) \in Nat /\ Period(l) > 0
                       /\ Period(l) <= Period(FALSE)
  /\ Period(FALSE) \in Nat
  /\ \A f \in BOOLEAN : KernelBufferSize(f) \in Nat
  BY DEF Period, CapturePeriod, CapturePeriodLowLatency, KernelBufferSize,
         OutConfig, Playback, DeepBuffer

LEMMA SomeRate ==
  ASSUME Typed PROVE rate \in InputRates
  BY StreamAssumption DEF Typed, SampleRates, DeviceRate, InputRates

LEMMA InitSInv == Init => SInv
  <1> SUFFICES ASSUME Init PROVE SInv
    OBVIOUS
  <1>1. Typed
    <2>1. fast \in BOOLEAN
      BY DEF Init, MayBeFast
    <2> QED
      BY <2>1 DEF Init, Typed, NoBuffer, Nothing, BootTime
  <1>2. rate \in InputRates
    BY <1>1, SomeRate
  <1>3. Opened
    BY DEF Init, Opened
  <1>4. Buffered
    BY DEF Init, Buffered
  <1>5. Counted
    BY <1>1, SomePeriod DEF Init, Counted, Given, Typed
  <1>6. Waited
    BY <1>2, LastingBounds DEF Init, Waited, BootTime
  <1> QED
    BY <1>1, <1>3, <1>4, <1>5, <1>6 DEF SInv

------------------------------------------------------------------------------
(* Every step *)
LEMMA BeginKept ==
  ASSUME SInv, NEW n \in Requests, Begin(n) PROVE SInv'
  <1>1. /\ pc = "idle" /\ asked' = n /\ left' = Lasting(n, rate)
        /\ dir' = dir /\ rate' = rate /\ fast' = fast /\ promised' = promised
        /\ queued' = queued /\ captured' = captured /\ frames' = frames
        /\ position' = position
        /\ now' = now /\ last' = last /\ wake' = wake /\ silent' = silent
    BY DEF Begin, opened, device, counts, time
  <1>2. n \in Nat /\ rate \in InputRates /\ Lasting(n, rate) \in Nat /\ n > 0
    BY StreamAssumption, SomeRate, LastingBounds DEF SInv
  <1>3. Typed /\ Opened /\ Buffered /\ Counted /\ Waited
    BY DEF SInv
  <1>4. Waited'
    <2>1. pc' # "asleep" /\ pc # "asleep" /\ n \in Requests \cup {0}
      BY <1>1 DEF Begin
    <2> QED
      BY <1>1, <1>3, <2>1 DEF Waited
  <1>5. CASE pc' = "moving" /\ standby' = FALSE /\ standby /\ dir = "in" /\ StartInput
    <2>1. /\ low' = (low \/ fast) /\ period' = Period(low') /\ buf' = buf
          /\ bufFrames' = 0 /\ read' = 0 /\ taken' = Nothing
      BY <1>5 DEF StartInput
    <2>2. Typed'
      <3>1. low' \in BOOLEAN
        BY <1>3, <2>1 DEF Typed
      <3>2. period' \in Nat
        BY <2>1, <3>1, SomePeriod
      <3>3. taken' \in [from : Int, to : Int]
        BY <2>1 DEF Nothing
      <3> QED
        BY <1>1, <1>2, <1>3, <1>5, <2>1, <3>1, <3>2, <3>3 DEF Typed
    <2>3. Opened'
      BY <1>1, <1>3, <1>5, <2>1 DEF Opened, Typed
    <2>4. Buffered'
      BY <1>1, <1>5, <2>1, <2>2 DEF Buffered, Nothing, Typed
    <2>5. Counted'
      BY <1>1, <1>2, <1>3, <1>5, <2>1 DEF Counted, Given, Typed
    <2> QED
      BY <1>4, <2>2, <2>3, <2>4, <2>5 DEF SInv
  <1>6. CASE pc' = "moving" /\ standby' = FALSE /\ UNCHANGED capture
             /\ ~(standby /\ dir = "in")
    <2>1. /\ low' = low /\ period' = period /\ buf' = buf
          /\ bufFrames' = bufFrames /\ read' = read /\ taken' = taken
      BY <1>6 DEF capture
    <2>2. Typed'
      BY <1>1, <1>2, <1>3, <1>6, <2>1 DEF Typed
    <2>3. Opened'
      BY <1>1, <1>3, <1>6, <2>1 DEF Opened, Typed
    <2>4. Buffered'
      BY <1>1, <1>3, <1>6, <2>1 DEF Buffered, Typed
    <2>5. Counted'
      BY <1>1, <1>2, <1>3, <1>6, <2>1 DEF Counted, Given, Typed
    <2> QED
      BY <1>4, <2>2, <2>3, <2>4, <2>5 DEF SInv
  <1>7. CASE /\ pc' = "failed" /\ standby /\ low' = (low \/ fast)
             /\ UNCHANGED <<standby, buf, bufFrames, read, taken, period>>
    <2>1. Typed'
      BY <1>1, <1>2, <1>3, <1>7 DEF Typed
    <2>2. Opened'
      BY <1>1, <1>3, <1>7 DEF Opened, Typed
    <2>3. Buffered'
      BY <1>1, <1>3, <1>7 DEF Buffered
    <2>4. Counted'
      BY <1>1, <1>2, <1>3, <1>7 DEF Counted, Given, Typed
    <2> QED
      BY <1>4, <2>1, <2>2, <2>3, <2>4 DEF SInv
  <1> QED
    BY <1>5, <1>6, <1>7 DEF Begin

LEMMA PullKept ==
  ASSUME SInv, Pull
  PROVE  /\ SInv'
         /\ taken' # taken => taken'.from = taken.to + 1 /\ taken'.to <= read'
  <1>1. /\ pc = "moving" /\ dir = "in" /\ left > 0
        /\ dir' = dir /\ rate' = rate /\ fast' = fast /\ promised' = promised
        /\ asked' = asked /\ standby' = standby /\ period' = period /\ low' = low
        /\ captured' = captured /\ frames' = frames /\ position' = position
        /\ now' = now /\ last' = last /\ wake' = wake /\ silent' = silent
    BY DEF Pull, opened, counts, time
  <1>2. Typed /\ Opened /\ Buffered /\ Counted /\ Waited
    BY DEF SInv
  <1>3. /\ ~standby /\ period = Period(low) /\ bufFrames <= period /\ period > 0
        /\ bufFrames > 0 => buf.held /\ buf.first + period - 1 = read
        /\ taken.to = read - bufFrames
        /\ left <= Lasting(asked, rate)
        /\ frames + (Lasting(asked, rate) - left) + queued + bufFrames
             <= captured + silent
        /\ Lasting(asked, rate) \in Nat
    <2>1. ~standby /\ period = Period(low) /\ period > 0
      <3>1. ~standby /\ period = Period(low)
        BY <1>1, <1>2 DEF Opened
      <3>2. low \in BOOLEAN
        BY <1>2 DEF Typed
      <3> QED
        BY <3>1, <3>2, SomePeriod
    <2>2. Lasting(asked, rate) \in Nat
      BY <1>2, SomeRate, LastingBounds DEF Typed
    <2> QED
      BY <1>1, <1>2, <2>1, <2>2 DEF Buffered, Counted, Given
  <1>4. ASSUME pc' \in {"moving", "failed"} PROVE Opened' /\ Waited'
    <2>1. Opened'
      BY <1>1, <1>2, <1>3, <1>4 DEF Opened
    <2>2. Waited'
      BY <1>1, <1>2, <1>4 DEF Waited
    <2> QED
      BY <2>1, <2>2
  <1> DEFINE empty == bufFrames = 0
             b == IF empty THEN [first |-> read + 1, held |-> TRUE] ELSE buf
             held == IF empty THEN period ELSE bufFrames
             n == IF left > held THEN held ELSE left
  <1>5. CASE /\ empty => queued >= period
             /\ buf' = b
             /\ read' = IF empty THEN read + period ELSE read
             /\ queued' = IF empty THEN queued - period ELSE queued
             /\ bufFrames' = held - n
             /\ taken' = GetNextBuffer(b, held, n)
             /\ left' = left - n
             /\ UNCHANGED pc
    <2>1. /\ held \in Nat /\ held > 0 /\ held <= period
          /\ n \in Nat /\ n > 0 /\ n <= held /\ n <= left
      BY <1>1, <1>2, <1>3 DEF Typed
    <2>2. /\ b \in [first : Nat, held : BOOLEAN] /\ b.held
          /\ b.first + period - 1 = read'
          /\ read' \in Nat /\ read' - held = read - bufFrames
          /\ queued' \in Nat /\ queued' + held = queued + bufFrames
      <3>1. CASE empty
        BY <1>2, <1>3, <1>5, <3>1 DEF Typed
      <3>2. CASE ~empty
        BY <1>2, <1>3, <1>5, <3>2 DEF Typed
      <3> QED
        BY <3>1, <3>2
    <2> HIDE DEF empty, b, held, n
    <2>3. /\ taken' = [from |-> b.first + period - held,
                       to |-> b.first + period - held + n - 1]
          /\ taken'.from = taken.to + 1 /\ taken'.to = read' - bufFrames'
          /\ taken'.to <= read' /\ taken' \in [from : Int, to : Int]
      <3>1. taken' = [from |-> b.first + period - held,
                      to |-> b.first + period - held + n - 1]
        BY <1>5, <2>2 DEF GetNextBuffer
      <3>2. b.first \in Nat /\ period \in Nat /\ bufFrames \in Nat
        BY <1>2, <2>2 DEF Typed
      <3> QED
        BY <1>3, <1>5, <2>1, <2>2, <3>1, <3>2
    <2>4. Typed'
      BY <1>1, <1>2, <1>5, <2>1, <2>2, <2>3 DEF Typed
    <2>5. Buffered'
      <3>1. bufFrames' <= period' /\ period' = period /\ taken'.to = read' - bufFrames'
        BY <1>1, <1>2, <1>5, <2>1, <2>3 DEF Typed
      <3>2. buf'.held /\ buf'.first + period' - 1 = read'
        BY <1>1, <1>5, <2>2
      <3> QED
        BY <3>1, <3>2 DEF Buffered
    <2>6. Counted'
      BY <1>1, <1>2, <1>3, <1>5, <2>1, <2>2 DEF Counted, Given, Typed
    <2> QED
      BY <1>1, <1>4, <1>5, <2>3, <2>4, <2>5, <2>6 DEF SInv
  <1>6. CASE /\ empty /\ buf' = [buf EXCEPT !.held = TRUE] /\ pc' = "failed"
             /\ UNCHANGED <<read, bufFrames, taken, left, queued>>
    <2>1. Typed'
      BY <1>1, <1>2, <1>6 DEF Typed
    <2>2. Buffered'
      BY <1>1, <1>2, <1>3, <1>6 DEF Buffered
    <2>3. Counted'
      BY <1>1, <1>2, <1>3, <1>6 DEF Counted, Given, Typed
    <2> QED
      BY <1>4, <1>6, <2>1, <2>2, <2>3 DEF SInv
  <1> QED
    BY <1>5, <1>6 DEF Pull

LEMMA EndReadKept ==
  ASSUME SInv, EndRead PROVE SInv'
  <1>1. /\ pc = "moving" /\ dir = "in" /\ left = 0 /\ pc' = "moved"
        /\ UNCHANGED <<dir, rate, fast, promised, asked, left, standby, buf,
             bufFrames, read, taken, period, low, queued, captured, frames, position,
             now, last, wake, silent>>
    BY DEF EndRead, opened, capture, device, counts, time
  <1>2. Typed /\ Opened /\ Buffered /\ Counted /\ Waited
    BY DEF SInv
  <1>3. Lasting(asked, rate) \in Nat /\ Lasting(asked, rate) >= asked
    BY <1>2, SomeRate, LastingBounds DEF Typed
  <1>4. Typed' /\ Opened' /\ Buffered' /\ Waited'
    BY <1>1, <1>2 DEF Typed, Opened, Buffered, Waited
  <1>5. Counted'
    BY <1>1, <1>2, <1>3 DEF Counted, Given, Typed
  <1> QED
    BY <1>4, <1>5 DEF SInv

LEMMA WriteKept ==
  ASSUME SInv, Write PROVE SInv'
  <1>1. /\ pc = "moving" /\ dir = "out" /\ left' = 0
        /\ UNCHANGED <<dir, rate, fast, promised, asked, standby, buf,
             bufFrames, read, taken, period, low, captured, position,
             now, last, wake, silent>>
        /\ \/ /\ queued + asked <= KernelBufferSize(fast)
              /\ queued' = queued + asked /\ frames' = frames + asked /\ pc' = "moved"
           \/ pc' = "failed" /\ queued' = queued /\ frames' = frames
    BY DEF Write, opened, capture, time
  <1>2. Typed /\ Opened /\ Buffered /\ Counted /\ Waited
    BY DEF SInv
  <1>3. Typed'
    BY <1>1, <1>2 DEF Typed
  <1>4. Opened' /\ Buffered' /\ Waited'
    BY <1>1, <1>2 DEF Opened, Buffered, Waited
  <1>5. Counted'
    BY <1>1, <1>2 DEF Counted, Typed
  <1> QED
    BY <1>3, <1>4, <1>5 DEF SInv

LEMMA StandbyKept ==
  ASSUME SInv, Standby PROVE SInv'
  <1>1. /\ pc # "moving" /\ ~standby /\ standby' = TRUE
        /\ buf' = (IF dir = "in" THEN NoBuffer ELSE buf)
        /\ last' = (IF dir = "in" THEN 0 ELSE last)
        /\ queued' = 0 /\ frames' = frames
        /\ UNCHANGED <<dir, rate, fast, promised, pc, asked, left, bufFrames, read,
             taken, period, low, captured, position, now, wake, silent>>
    BY DEF Standby, LockFree, Close, opened, thread
  <1>2. Typed /\ Opened /\ Buffered /\ Counted /\ Waited
    BY DEF SInv
  <1>3. Typed'
    BY <1>1, <1>2 DEF Typed, NoBuffer
  <1>4. Opened' /\ Buffered'
    BY <1>1, <1>2 DEF Opened, Buffered
  <1>5. Waited'
    BY <1>1, <1>2 DEF Waited, Opened
  <1>6. Counted'
    BY <1>1, <1>2, SomePeriod DEF Counted, Given, Typed
  <1> QED
    BY <1>3, <1>4, <1>5, <1>6 DEF SInv

LEMMA SleepKept ==
  ASSUME SInv, Sleep PROVE SInv'
  <1> DEFINE d == Lasting(asked, rate)
             rest == IF dir = "in" /\ last = 0 THEN d ELSE d - (now - last)
  <1>1. /\ pc = "failed" /\ standby /\ pc' = "asleep" /\ last' = wake'
        /\ wake' = (IF rest > 0 THEN now + rest ELSE now)
        /\ silent' = silent + asked
        /\ UNCHANGED <<dir, rate, fast, promised, asked, left, standby, buf,
             bufFrames, read, taken, period, low, queued, captured, frames, position,
             now>>
    BY DEF Sleep, opened, capture, device, counts
  <1>2. Typed /\ Opened /\ Buffered /\ Counted /\ Waited
    BY DEF SInv
  <1>3. rate \in InputRates /\ d \in Nat
    BY <1>2, SomeRate, LastingBounds DEF Typed
  <1>4. /\ rest \in Int /\ wake' \in Nat /\ wake' >= now /\ wake' >= BootTime
        /\ dir = "in" /\ last = 0 => wake' >= now + d
        /\ ~(dir = "in" /\ last = 0) => wake' >= last + d
    BY <1>1, <1>2, <1>3 DEF Typed, BootTime
  <1> HIDE DEF rest
  <1>5. Typed'
    BY <1>1, <1>2, <1>4 DEF Typed
  <1>6. Opened' /\ Buffered'
    BY <1>1, <1>2 DEF Opened, Buffered
  <1>7. Counted'
    BY <1>1, <1>2 DEF Counted, Given, Typed
  <1>8. Waited'
    <2> HIDE DEF d
    <2>1. CASE dir = "in"
      <3>1. /\ Lasting(silent, rate) \in Nat /\ Lasting(silent + asked, rate) \in Nat
            /\ Lasting(silent + asked, rate) <= Lasting(silent, rate) + d
        <4>1. silent \in Nat /\ asked \in Nat /\ silent + asked \in Nat
          BY <1>2 DEF Typed
        <4>2. Lasting(silent, rate) \in Nat /\ Lasting(silent + asked, rate) \in Nat
          BY <1>3, <4>1, LastingBounds
        <4> QED
          BY <1>3, <4>1, <4>2, LastingAdds DEF d
      <3>2. /\ Lasting(silent, rate) <= now - BootTime
            /\ last # 0 => Lasting(silent, rate) <= last - BootTime
        BY <1>1, <1>2, <2>1 DEF Waited
      <3>3. Lasting(silent + asked, rate) <= wake' - BootTime
        BY <1>2, <1>3, <1>4, <2>1, <3>1, <3>2 DEF Typed, BootTime
      <3> QED
        BY <1>1, <1>2, <2>1, <3>3 DEF Waited
    <2>2. CASE dir = "out"
      <3>1. PICK n \in Requests \cup {0} :
              /\ n <= silent'
              /\ Lasting(silent' - n, rate) <= wake' - BootTime
        <4>1. CASE silent = 0 /\ last = 0
          <5>1. /\ asked \in Requests \cup {0} /\ silent' = asked
                /\ asked - asked = 0 /\ asked <= asked /\ wake' - BootTime >= 0
            BY <1>1, <1>2, <1>4, <4>1 DEF Waited, Typed, BootTime
          <5>2. Lasting(0, rate) = 0
            BY <1>3, LastingBounds
          <5> QED
            BY <5>1, <5>2
        <4>2. CASE \E n \in Requests \cup {0} :
                     n <= silent /\ Lasting(silent - n, rate) <= last - BootTime
          <5>1. PICK n \in Requests \cup {0} :
                  n <= silent /\ Lasting(silent - n, rate) <= last - BootTime
            BY <4>2
          <5>2. n \in Nat /\ silent \in Nat /\ asked \in Nat /\ last \in Nat
            BY <1>2, StreamAssumption DEF Typed
          <5>3. /\ silent - n \in Nat /\ (silent - n) + asked = silent' - n
                /\ n <= silent'
            BY <1>1, <5>1, <5>2
          <5>4. /\ Lasting(silent - n, rate) \in Nat
                /\ Lasting((silent - n) + asked, rate) \in Nat
                /\ Lasting((silent - n) + asked, rate) <= Lasting(silent - n, rate) + d
            <6>1. (silent - n) + asked \in Nat
              BY <5>2, <5>3
            <6>2. /\ Lasting(silent - n, rate) \in Nat
                  /\ Lasting((silent - n) + asked, rate) \in Nat
              BY <1>3, <5>3, <6>1, LastingBounds
            <6> QED
              BY <1>3, <5>2, <5>3, <6>2, LastingAdds DEF d
          <5>5. Lasting(silent' - n, rate) <= wake' - BootTime
            BY <1>3, <1>4, <2>2, <5>1, <5>2, <5>3, <5>4 DEF BootTime
          <5> QED
            BY <5>1, <5>3, <5>5
        <4> QED
          BY <1>2, <2>2, <4>1, <4>2 DEF Waited
      <3> QED
        BY <1>1, <1>2, <2>2, <3>1 DEF Waited
    <2> QED
      BY <1>2, <2>1, <2>2 DEF Typed
  <1> QED
    BY <1>5, <1>6, <1>7, <1>8 DEF SInv

LEMMA ReturnKept ==
  ASSUME SInv, Return PROVE SInv'
  <1>1. /\ pc = "moved" \/ (pc = "asleep" /\ now >= wake)
        /\ pc' = "idle" /\ asked' = 0 /\ left' = 0
        /\ frames' = (IF dir = "in" THEN frames + asked ELSE frames)
        /\ UNCHANGED <<dir, rate, fast, promised, standby, buf, bufFrames, read,
             taken, period, low, queued, captured, position, now, last, wake, silent>>
    BY DEF Return, opened, capture, device, time
  <1>2. Typed /\ Opened /\ Buffered /\ Counted /\ Waited
    BY DEF SInv
  <1>3. Typed'
    BY <1>1, <1>2 DEF Typed
  <1>4. Opened' /\ Buffered'
    BY <1>1, <1>2 DEF Opened, Buffered
  <1>5. Counted'
    BY <1>1, <1>2 DEF Counted, Given, Typed
  <1>6. Waited'
    <2>1. Lasting(silent, rate) \in Nat
      BY <1>2, SomeRate, LastingBounds DEF Typed
    <2> QED
      BY <1>1, <1>2, <2>1 DEF Waited, Typed, BootTime
  <1> QED
    BY <1>3, <1>4, <1>5, <1>6 DEF SInv

(* Positions, and what the device and the clock do *)
LEMMA PositionKept ==
  ASSUME SInv, GetPresentationPosition \/ GetCapturePosition
  PROVE  /\ SInv' /\ dir' = dir /\ taken' = taken
         /\ dir = "out" => position' = frames - queued /\ position' >= position
         /\ dir = "in" => position' = frames + queued /\ position' <= captured + silent
  <1>1. /\ pc # "moving" /\ ~standby
        /\ UNCHANGED <<dir, rate, fast, promised, pc, asked, left, standby, buf,
             bufFrames, read, taken, period, low, queued, captured, frames,
             now, last, wake, silent>>
    BY DEF GetPresentationPosition, GetCapturePosition, Position, LockFree, opened,
           thread, capture, device, time
  <1>2. Typed /\ Opened /\ Buffered /\ Counted /\ Waited
    BY DEF SInv
  <1>3. /\ dir = "out" => position' = frames - queued
        /\ dir = "in" => position' = frames + queued
    <2>1. dir = "out" => position' = FramesPresented
      BY DEF GetPresentationPosition, GetCapturePosition, Position
    <2>2. dir = "out" => FramesPresented = frames - queued
      BY <1>2, SomePeriod DEF FramesPresented, RenderLatency, Typed
    <2> QED
      BY <2>1, <2>2 DEF GetPresentationPosition, GetCapturePosition, Position
  <1>4. Typed'
    BY <1>1, <1>2, <1>3 DEF Typed
  <1>5. Opened' /\ Buffered' /\ Waited'
    BY <1>1, <1>2 DEF Opened, Buffered, Waited
  <1>6. Counted'
    BY <1>1, <1>2, <1>3 DEF Counted, Given, Typed
  <1>7. /\ dir = "out" => position' >= position
        /\ dir = "in" => position' <= captured + silent
    BY <1>1, <1>2, <1>3 DEF Counted, Given, Typed
  <1> QED
    BY <1>1, <1>3, <1>4, <1>5, <1>6, <1>7 DEF SInv

LEMMA PlayKept ==
  ASSUME SInv, Play PROVE SInv'
  <1>1. /\ dir = "out" /\ queued > 0
        /\ UNCHANGED <<dir, rate, fast, promised, pc, asked, left, standby, buf,
             bufFrames, read, taken, period, low, captured, frames, position,
             now, last, wake, silent>>
    BY DEF Play, opened, thread, capture, counts, time
  <1>2. PICK n \in Requests : n <= queued /\ queued' = queued - n
    BY DEF Play
  <1>3. Typed /\ Opened /\ Buffered /\ Counted /\ Waited
    BY DEF SInv
  <1>4. queued' \in Nat /\ queued' <= queued
    BY <1>2, <1>3, StreamAssumption DEF Typed
  <1>5. Typed'
    BY <1>1, <1>3, <1>4 DEF Typed
  <1>6. Opened' /\ Buffered' /\ Waited'
    BY <1>1, <1>3 DEF Opened, Buffered, Waited
  <1>7. Counted'
    <2> DEFINE k == KernelBufferSize(fast)
    <2>1. k \in Nat
      BY <1>3, SomePeriod DEF Typed
    <2>2. /\ queued \in Nat /\ frames \in Nat /\ position \in Int
          /\ queued <= k /\ position <= frames - queued
      BY <1>1, <1>3 DEF Counted, Typed
    <2> HIDE DEF k
    <2>3. \A r \in Nat : r <= queued => r <= k /\ position <= frames - r
      BY <2>1, <2>2
    <2> QED
      BY <1>1, <1>3, <1>4, <2>3 DEF Counted, k
  <1> QED
    BY <1>5, <1>6, <1>7 DEF SInv

LEMMA CaptureKept ==
  ASSUME SInv, Capture PROVE SInv'
  <1>1. /\ dir = "in" /\ ~standby
        /\ queued' = queued + period /\ captured' = captured + period
        /\ UNCHANGED <<dir, rate, fast, promised, pc, asked, left, standby, buf,
             bufFrames, read, taken, period, low, frames, position,
             now, last, wake, silent>>
    BY DEF Capture, opened, thread, capture, counts, time
  <1>2. Typed /\ Opened /\ Buffered /\ Counted /\ Waited
    BY DEF SInv
  <1>3. Typed'
    BY <1>1, <1>2 DEF Typed
  <1>4. Opened' /\ Buffered' /\ Waited'
    BY <1>1, <1>2 DEF Opened, Buffered, Waited
  <1>5. Given \in Int /\ Given' = Given
    BY <1>1, <1>2, SomeRate, LastingBounds DEF Given, Typed
  <1>6. Counted'
    BY <1>1, <1>2, <1>5 DEF Counted, Typed
  <1> QED
    BY <1>3, <1>4, <1>6 DEF SInv

LEMMA TickKept ==
  ASSUME SInv, Tick PROVE SInv'
  <1>1. UNCHANGED <<dir, rate, fast, promised, pc, asked, left, standby, buf,
             bufFrames, read, taken, period, low, queued, captured, frames, position,
             last, wake, silent>>
    BY DEF Tick, opened, thread, capture, device, counts
  <1>2. Typed /\ Opened /\ Buffered /\ Counted /\ Waited
    BY DEF SInv
  <1>3. now' \in Nat /\ now' >= now
    BY <1>2, StreamAssumption DEF Tick, Typed
  <1>4. Typed'
    BY <1>1, <1>2, <1>3 DEF Typed, BootTime
  <1>5. Opened' /\ Buffered'
    BY <1>1, <1>2 DEF Opened, Buffered
  <1>6. Counted'
    BY <1>1, <1>2 DEF Counted, Given
  <1>7. Waited'
    <2>1. Lasting(silent, rate) \in Nat
      BY <1>2, SomeRate, LastingBounds DEF Typed
    <2> QED
      BY <1>1, <1>2, <1>3, <2>1 DEF Waited, Typed, BootTime
  <1> QED
    BY <1>4, <1>5, <1>6, <1>7 DEF SInv

(* The calls that are answered at once, and steps of others *)
LEMMA NothingKept ==
  ASSUME SInv, UNCHANGED vars PROVE SInv'
  <1>1. UNCHANGED <<dir, rate, fast, promised, pc, asked, left, standby, buf,
             bufFrames, read, taken, period, low, queued, captured, frames, position,
             now, last, wake, silent>>
    BY DEF vars, opened, thread, capture, device, counts, time
  <1>2. Typed /\ Opened /\ Buffered /\ Counted /\ Waited
    BY DEF SInv
  <1>3. Typed' /\ Opened' /\ Buffered'
    BY <1>1, <1>2 DEF Typed, Opened, Buffered
  <1>4. Counted' /\ Waited'
    BY <1>1, <1>2 DEF Counted, Given, Waited
  <1> QED
    BY <1>3, <1>4 DEF SInv

(* Every start, transfer, standby, sleep and question, and every step of the *)
(* device and the clock, keeps what is known of a stream.                    *)
THEOREM StreamInvariance == Spec => []SInv
  <1>1. SInv /\ [Next]_vars => SInv'
    <2> SUFFICES ASSUME SInv, [Next]_vars PROVE SInv'
      OBVIOUS
    <2>1. CASE UNCHANGED vars
      BY <2>1, NothingKept
    <2> QED
      BY <2>1, BeginKept, PullKept, EndReadKept, WriteKept, StandbyKept, SleepKept,
         ReturnKept, PositionKept, PlayKept, CaptureKept, TickKept
         DEF Next, OutFormat, OutAnswers, InAnswers, InDump, InEffects
  <1> QED
    BY <1>1, InitSInv, PTL DEF Spec

(* Whatever the sizes of periods and calls: get_next_buffer hands out the    *)
(* frames of the device one after the other from start_input_stream to       *)
(* do_in_standby_l, although read_buf_frames outlives the buffer it counts.  *)
THEOREM NoFrameLost == Spec => FramesInOrder
  <1> DEFINE Step == taken' # taken =>
                       taken' = Nothing \/ /\ taken'.from = taken.to + 1
                                           /\ taken'.to <= read'
  <1>1. SInv /\ [Next]_vars => [Step]_vars
    <2> SUFFICES ASSUME SInv, Next, taken' # taken
                 PROVE  taken' = Nothing \/ /\ taken'.from = taken.to + 1
                                            /\ taken'.to <= read'
      OBVIOUS
    <2>1. ASSUME NEW n \in Requests, Begin(n) PROVE taken' = Nothing
      BY <2>1 DEF Begin, StartInput, capture
    <2>2. ASSUME Pull PROVE taken'.from = taken.to + 1 /\ taken'.to <= read'
      BY <2>2, PullKept
    <2>3. CASE \/ EndRead \/ Write \/ Standby \/ Sleep \/ Return
               \/ GetPresentationPosition \/ GetCapturePosition \/ Play
      BY <2>3 DEF EndRead, Write, Standby, Sleep, Return, GetPresentationPosition,
                  GetCapturePosition, Position, Play, capture
    <2>4. CASE \/ Capture \/ Tick \/ OutFormat \/ OutAnswers \/ InAnswers
               \/ InDump \/ InEffects
      BY <2>4 DEF Capture, Tick, OutFormat, OutAnswers, InAnswers, InDump,
                  InEffects, vars, capture
    <2> QED
      BY <2>1, <2>2, <2>3, <2>4 DEF Next
  <1> QED
    BY <1>1, StreamInvariance, PTL DEF Spec, FramesInOrder

(* For each rate that check_input_parameters takes: get_buffer_size rounds   *)
(* up, so a buffer of the promised size lasts for a period, also after a     *)
(* fast stream has made the period of the profile the shorter one.           *)
THEOREM BufferLasts == Spec => []BufferHoldsPeriod
  <1>1. SInv => BufferHoldsPeriod
    <2> SUFFICES ASSUME SInv, dir = "in", ~standby
                 PROVE  Lasting(promised, rate) >= period
      BY DEF BufferHoldsPeriod
    <2>1. rate \in InputRates /\ low \in BOOLEAN
      BY SomeRate DEF SInv, Typed
    <2>2. period = Period(low)
      BY DEF SInv, Opened
    <2>3. CASE promised = InGetBufferSize(rate, FALSE)
      <3> DEFINE k == Period(FALSE)
      <3>1. Lasting(promised, rate) >= k
        BY <2>1, <2>3, BuffersHold
      <3>2. promised \in Nat
        BY <2>1, <2>3 DEF InGetBufferSize, InputBufferSize, Period, CapturePeriod,
                          InputRates, DeviceRate
      <3>3. Lasting(promised, rate) \in Nat
        BY <2>1, <3>2, LastingBounds
      <3>4. period \in Nat /\ period <= k /\ k \in Nat
        BY <2>1, <2>2, SomePeriod
      <3> HIDE DEF k
      <3> QED
        BY <3>1, <3>3, <3>4
    <2>4. CASE low /\ promised = InGetBufferSize(rate, TRUE)
      <3>1. Lasting(promised, rate) >= Period(TRUE)
        BY <2>1, <2>4, BuffersHold
      <3> QED
        BY <2>2, <2>4, <3>1
    <2> QED
      BY <2>3, <2>4 DEF SInv, Opened
  <1> QED
    BY <1>1, StreamInvariance, PTL

(* The position of out_get_presentation_position never goes back and is at   *)
(* most the latency behind what was written; the count of                    *)
(* in_get_capture_position is never ahead of the device but by the frames of *)
(* failed reads, which in_read counts as well.                               *)
THEOREM PositionsHold == Spec => PositionsCredible
  <1> DEFINE Step == position' # position =>
                       IF dir = "out"
                       THEN /\ position' > position
                            /\ (frames - position') * 1000
                                 < (OutLatency(fast) + 1) * DeviceRate
                       ELSE position' <= captured + silent
  <1>1. SInv /\ [Next]_vars => [Step]_vars
    <2> SUFFICES ASSUME SInv, Next, position' # position PROVE Step
      OBVIOUS
    <2>1. GetPresentationPosition \/ GetCapturePosition
      BY DEF Next, Begin, Pull, EndRead, Write, Standby, Sleep, Return, Play, Capture,
             Tick, OutFormat, OutAnswers, InAnswers, InDump, InEffects, vars, counts
    <2>2. CASE dir = "in"
      BY <2>1, <2>2, PositionKept
    <2>3. CASE dir = "out"
      <3>1. position' = frames - queued /\ position' >= position
        BY <2>1, <2>3, PositionKept
      <3>2. /\ frames \in Nat /\ queued \in Nat /\ position \in Int /\ fast \in BOOLEAN
            /\ queued <= KernelBufferSize(fast)
        BY <2>3 DEF SInv, Typed, Counted
      <3>3. position' > position
        BY <3>1, <3>2
      <3>4. \A n \in Nat : n <= KernelBufferSize(fast) =>
              n * 1000 < (OutLatency(fast) + 1) * DeviceRate
        <4>1. CASE fast
          BY <4>1 DEF KernelBufferSize, OutLatency, OutConfig, Playback, DeviceRate
        <4>2. CASE ~fast
          BY <4>2 DEF KernelBufferSize, OutLatency, OutConfig, DeepBuffer, DeviceRate
        <4> QED
          BY <4>1, <4>2
      <3>5. frames - position' = queued
        BY <3>1, <3>2
      <3> QED
        BY <2>3, <3>2, <3>3, <3>4, <3>5
    <2> QED
      BY <2>2, <2>3 DEF SInv, Typed
  <1> QED
    BY <1>1, StreamInvariance, PTL DEF Spec, PositionsCredible

(* The sleep of in_read and out_write after a failure: calls that fail take  *)
(* together as long as their frames would, one call excepted, over standbys  *)
(* in between, which make a capture forget the time.                         *)
THEOREM FailuresTakeTime == Spec => []FailuresKeepPace
  <1>1. SInv => FailuresKeepPace
    <2> SUFFICES ASSUME SInv, pc = "idle"
                 PROVE  \E n \in Requests \cup {0} :
                          Lasting(silent - n, rate) <= now - BootTime
      BY DEF FailuresKeepPace
    <2>1. /\ silent \in Nat /\ now \in Nat /\ last \in Nat /\ now >= BootTime
          /\ rate \in InputRates /\ Requests \subseteq Nat
      BY SomeRate, StreamAssumption DEF SInv, Typed
    <2>2. CASE dir = "in"
      <3>1. Lasting(silent - 0, rate) <= now - BootTime
        BY <2>1, <2>2 DEF SInv, Waited
      <3> QED
        BY <3>1
    <2>3. CASE dir = "out" /\ silent = 0
      <3>1. Lasting(silent - 0, rate) = 0
        BY <2>1, <2>3, LastingBounds
      <3>2. now - BootTime >= 0
        BY <2>1 DEF BootTime
      <3> QED
        BY <3>1, <3>2
    <2>4. CASE dir = "out" /\ silent # 0
      <3>1. PICK n \in Requests \cup {0} :
              n <= silent /\ Lasting(silent - n, rate) <= last - BootTime
        BY <2>4 DEF SInv, Waited
      <3>2. now >= last
        BY <2>4 DEF SInv, Waited
      <3>3. n \in Nat /\ silent - n \in Nat
        BY <2>1, <3>1
      <3>4. Lasting(silent - n, rate) \in Nat
        BY <2>1, <3>3, LastingBounds
      <3>5. Lasting(silent - n, rate) <= now - BootTime
        BY <2>1, <3>1, <3>2, <3>4 DEF BootTime
      <3> QED
        BY <3>5
    <2> QED
      BY <2>2, <2>3, <2>4 DEF SInv, Typed
  <1> QED
    BY <1>1, StreamInvariance, PTL
================================================================================
