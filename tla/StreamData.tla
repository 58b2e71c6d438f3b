------------------------------ MODULE StreamData ------------------------------
(***************************************************************************)
(* The samples of one stream of the audio HAL, capture or playback, and    *)
(* the time its calls take (audio/audio_hw.c).  Frames are counted, their  *)
(* contents left out; time is counted in frames of the device.             *)
(*                                                                         *)
(* The stream's own thread reads or writes, another thread may put the     *)
(* stream in standby or ask for its position whenever the stream's lock is *)
(* free; AudioLocks shows that the locks let nothing else happen.  What    *)
(* the devices and routes are is left to AudioHal.                         *)
(***************************************************************************)
EXTENDS Integers, FiniteSets

CONSTANTS
  Rates,      \* sample rates asked for
  Requests,   \* frames per call of the client
  Faults,     \* what may fail: "open", "transfer"
  TimeSteps,  \* how time advances
  MaxFrames,  \* bounds: frames of all calls,
  MaxCaptured,\* frames that the device captures,
  MaxTime     \* time

(* CAPTURE_*, PLAYBACK_*, DEEP_BUFFER_OUTPUT_* *)
DeviceRate == 48000
CapturePeriod == 1024
CapturePeriodLowLatency == 256
CapturePeriodCount == 2
Playback   == [period |-> 256, count |-> 2]
DeepBuffer == [period |-> 480, count |-> 8]

(* check_input_parameters; the stream is in 16 bit. *)
InputRates == {8000, 11025, 12000, 16000, 22050, 24000, 32000, 44100, 48000}

ASSUME StreamAssumption ==
  /\ Rates \subseteq InputRates /\ Rates # {}
  /\ Requests \subseteq Nat \ {0} /\ TimeSteps \subseteq Nat \ {0}
  /\ Faults \subseteq {"open", "transfer"}
  /\ MaxFrames \in Nat /\ MaxCaptured \in Nat /\ MaxTime \in Nat

(* Mutant: rounded down to a multiple of 16 frames. *)
InputBufferSizeDown(rate, period) ==
  IF rate \notin InputRates THEN 0
  ELSE (((period * rate) \div DeviceRate) \div 16) * 16
(* get_input_buffer_size, in frames *)
InputBufferSize(rate, period) ==
  IF rate \notin InputRates THEN 0
  ELSE ((((period * rate) \div DeviceRate) + 15) \div 16) * 16

(* What a playback says of itself: a period is the size of its buffer, and  *)
(* its latency, in ms, is that of a full kernel buffer.                     *)
OutConfig(f) == IF f THEN Playback ELSE DeepBuffer
OutBufferSize(f) == OutConfig(f).period
KernelBufferSize(f) == OutConfig(f).period * OutConfig(f).count
OutLatency(f) == (KernelBufferSize(f) * 1000) \div DeviceRate

(* How long n frames of the client last; so many frames the device delivers *)
(* for them, through the resampler when the rates differ.                   *)
Lasting(n, rate) == (n * DeviceRate + rate - 1) \div rate

VARIABLES
  dir,       \* "in" or "out"
  rate,      \* requested_rate
  fast,      \* a capture with FAST, a playback without DEEP_BUFFER
  low,       \* the capture profile's period is the one of low latency
  promised,  \* in_get_buffer_size when the stream was opened
  pc,        \* the thread: "idle", "moving", "failed", "moved", "asleep"
  asked,     \* frames of the call
  left,      \* frames of the device still missing in the call
  standby,
  period,    \* config.period_size
  buf,       \* read_buf: [first, held], the frames from first on, if held
  bufFrames, \* read_buf_frames
  read,      \* frames read from the PCM since it was opened
  taken,     \* the frames of the device that were handed out last
  queued,    \* frames in the kernel's buffer of the PCM
  frames,    \* written, frames_read
  captured,  \* frames that the device has captured since the stream exists
  position,  \* the last position that was reported
  now, last, \* last_read_time_us, last_write_time_us
  wake,      \* when the failed call returns
  silent     \* frames that failed calls have answered for

capture == <<buf, bufFrames, read, taken, period, low>>
device  == <<queued, captured>>
counts  == <<frames, position>>
opened  == <<dir, rate, fast, promised>>
thread  == <<pc, asked, left>>
time    == <<now, last, wake, silent>>
vars == <<opened, thread, standby, capture, device, counts, time>>

NoBuffer == [first |-> 0, held |-> FALSE]
Nothing  == [from |-> 0, to |-> 0]
Period(l) == IF l THEN CapturePeriodLowLatency ELSE CapturePeriod
BootTime == 100000  \* the clock, long after 0, when the stream is opened

(* Who opens a capture may ask for any rate, a playback has its own; a fast *)
(* capture is one without a resampler.                                      *)
SampleRates(d) == IF d = "out" THEN {DeviceRate} ELSE Rates
MayBeFast(d, r) == IF d = "out" \/ r = DeviceRate THEN BOOLEAN ELSE {FALSE}
InGetBufferSize(r, l) == InputBufferSize(r, Period(l))

Init ==
  /\ dir \in {"in", "out"}
  /\ rate \in SampleRates(dir)
  /\ fast \in MayBeFast(dir, rate)
  /\ low \in BOOLEAN   \* an earlier stream may have changed the profile
  /\ promised = IF dir = "out" THEN OutBufferSize(fast)
                ELSE InGetBufferSize(rate, low)
  /\ pc = "idle" /\ asked = 0 /\ left = 0 /\ standby = TRUE
  /\ period = 0 /\ buf = NoBuffer /\ bufFrames = 0
  /\ read = 0 /\ taken = Nothing
  /\ queued = 0 /\ captured = 0 /\ frames = 0 /\ position = 0
  /\ now = BootTime /\ last = 0 /\ wake = 0 /\ silent = 0

LockFree == pc # "moving"

------------------------------------------------------------------------------
(* Starting: the PCM is opened. *)
(* Mutant: what was left in the buffer is kept over a standby. *)
StartInputKeeps ==
  /\ low' = (low \/ fast) /\ period' = Period(low')
  /\ read' = 0 /\ taken' = Nothing
  /\ UNCHANGED <<buf, bufFrames>>
(* start_input_stream: a fast stream changes the profile for all. *)
StartInput ==
  /\ low' = (low \/ fast) /\ period' = Period(low')
  /\ bufFrames' = 0 /\ read' = 0 /\ taken' = Nothing
  /\ UNCHANGED buf

(* in_read, out_write: the stream is started if it must be. *)
Begin(n) ==
  /\ pc = "idle"
  /\ frames + (IF dir = "in" THEN 0 ELSE silent) + n <= MaxFrames
  /\ asked' = n
  /\ left' = Lasting(n, rate)
  /\ \/ /\ pc' = "moving" /\ standby' = FALSE
        /\ IF standby /\ dir = "in" THEN StartInput ELSE UNCHANGED capture
     \/ /\ standby /\ "open" \in Faults
        /\ pc' = "failed"
        /\ low' = (low \/ fast)
        /\ UNCHANGED <<standby, buf, bufFrames, read, taken, period>>
  /\ UNCHANGED <<opened, device, counts, time>>

(* The next n of the frames that are left in the buffer *)
GetNextBuffer(b, kept, n) ==
  LET from == b.first + period - kept
  IN  IF b.held THEN [from |-> from, to |-> from + n - 1]
      ELSE [from |-> -1, to |-> -1]

(* get_next_buffer and release_buffer, once: a period is read from the PCM, *)
(* which waits for it, when nothing is left; a resampler takes the frames   *)
(* in the same way.                                                         *)
Pull ==
  /\ pc = "moving" /\ dir = "in" /\ left > 0
  /\ LET empty == bufFrames = 0
         b == IF empty THEN [first |-> read + 1, held |-> TRUE] ELSE buf
         held == IF empty THEN period ELSE bufFrames
         n == IF left > held THEN held ELSE left
     IN  \/ /\ empty => queued >= period
            /\ buf' = b
            /\ read' = IF empty THEN read + period ELSE read
            /\ queued' = IF empty THEN queued - period ELSE queued
            /\ bufFrames' = held - n
            /\ taken' = GetNextBuffer(b, held, n)
            /\ left' = left - n
            /\ UNCHANGED pc
         \/ /\ empty /\ "transfer" \in Faults
            /\ buf' = [buf EXCEPT !.held = TRUE]
            /\ pc' = "failed"
            /\ UNCHANGED <<read, bufFrames, taken, left, queued>>
  /\ UNCHANGED <<opened, asked, standby, period, low, captured, counts, time>>

(* Reading ends. *)
EndRead ==
  /\ pc = "moving" /\ dir = "in" /\ left = 0
  /\ pc' = "moved"
  /\ UNCHANGED <<opened, asked, left, standby, capture, device, counts, time>>

(* pcm_write waits for room and takes all frames, or none and fails. *)
Write ==
  /\ pc = "moving" /\ dir = "out"
  /\ left' = 0
  /\ \/ /\ queued + asked <= KernelBufferSize(fast)
        /\ queued' = queued + asked /\ frames' = frames + asked
        /\ pc' = "moved"
     \/ /\ "transfer" \in Faults
        /\ pc' = "failed"
        /\ UNCHANGED <<queued, frames>>
  /\ UNCHANGED <<opened, asked, standby, capture, captured, position, time>>

------------------------------------------------------------------------------
(* Standby: the PCM is closed.  Only a capture forgets the time. *)
(* Mutant: the frames are counted from the start again. *)
CloseRewinds ==
  /\ standby' = TRUE
  /\ buf' = IF dir = "in" THEN NoBuffer ELSE buf
  /\ last' = IF dir = "in" THEN 0 ELSE last
  /\ queued' = 0 /\ frames' = 0
(* do_in_standby_l, do_out_standby_l: read_buf_frames keeps its value. *)
Close ==
  /\ standby' = TRUE
  /\ buf' = IF dir = "in" THEN NoBuffer ELSE buf
  /\ last' = IF dir = "in" THEN 0 ELSE last
  /\ queued' = 0 /\ UNCHANGED frames

(* in_standby, out_standby, and routes that change the PCM *)
Standby ==
  /\ LockFree /\ ~standby
  /\ Close
  /\ UNCHANGED <<opened, thread, bufFrames, read, taken, period, low,
                 captured, position, now, wake, silent>>

(* Mutant: the sleep is not counted as time that has passed. *)
SleepUncounted ==
  /\ pc = "failed" /\ standby
  /\ LET rest == IF dir = "in" /\ last = 0 THEN Lasting(asked, rate)
                 ELSE Lasting(asked, rate) - (now - last)
     IN  wake' = IF rest > 0 THEN now + rest ELSE now
  /\ last' = now
  /\ pc' = "asleep"
  /\ silent' = silent + asked
  /\ UNCHANGED <<opened, asked, left, standby, capture, device, counts, now>>

(* The call has failed; once the stream is in standby, the thread sleeps    *)
(* for as long as its frames would have taken.                              *)
Sleep ==
  /\ pc = "failed" /\ standby
  /\ LET rest == IF dir = "in" /\ last = 0 THEN Lasting(asked, rate)
                 ELSE Lasting(asked, rate) - (now - last)
     IN  wake' = IF rest > 0 THEN now + rest ELSE now
  /\ last' = wake'
  /\ pc' = "asleep"
  /\ silent' = silent + asked
  /\ UNCHANGED <<opened, asked, left, standby, capture, device, counts, now>>

(* The lock is free when in_read counts the frames, failed ones too. *)
Return ==
  /\ pc = "moved" \/ (pc = "asleep" /\ now >= wake)
  /\ pc' = "idle" /\ asked' = 0 /\ left' = 0
  /\ frames' = IF dir = "in" THEN frames + asked ELSE frames
  /\ UNCHANGED <<opened, standby, capture, device, position, time>>

------------------------------------------------------------------------------
(* written - kernel_buffer_size + avail, less what is being rendered *)
RenderLatency == 0
FramesPresented ==
  LET avail == KernelBufferSize(fast) - queued
  IN  frames - KernelBufferSize(fast) + avail - RenderLatency

(* A position is that of an open PCM.  A playback has none without a PCM; a *)
(* capture must not be asked then, for the code reads a list that is empty. *)
Position(p) ==
  /\ LockFree /\ ~standby
  /\ position' = p
  /\ UNCHANGED <<opened, thread, standby, capture, device, frames, time>>
GetPresentationPosition ==
  dir = "out" /\ FramesPresented >= 0 /\ Position(FramesPresented)
GetCapturePosition == dir = "in" /\ Position(frames + queued)

(* The calls that are answered or refused at once *)
OutFormat  == dir = "out" /\ UNCHANGED vars
OutAnswers == dir = "out" /\ UNCHANGED vars
InAnswers  == dir = "in"  /\ UNCHANGED vars
InDump     == dir = "in"  /\ UNCHANGED vars
InEffects  == dir = "in"  /\ UNCHANGED vars

(* The device plays or captures; time passes. *)
Play ==
  /\ dir = "out" /\ queued > 0
  /\ \E n \in {m \in Requests : m <= queued} : queued' = queued - n
  /\ UNCHANGED <<opened, thread, standby, capture, captured, counts, time>>
Capture ==
  /\ dir = "in" /\ ~standby
  /\ queued + period <= CapturePeriodCount * period
  /\ captured + period <= MaxCaptured
  /\ queued' = queued + period /\ captured' = captured + period
  /\ UNCHANGED <<opened, thread, standby, capture, counts, time>>
Tick ==
  /\ \E d \in TimeSteps : now + d <= BootTime + MaxTime /\ now' = now + d
  /\ UNCHANGED <<opened, thread, standby, capture, device, counts, last,
                 wake, silent>>

Next ==
  \/ \E n \in Requests : Begin(n)
  \/ Pull \/ EndRead \/ Write
  \/ Standby \/ Sleep \/ Return
  \/ GetPresentationPosition \/ GetCapturePosition
  \/ OutFormat \/ OutAnswers \/ InAnswers \/ InDump \/ InEffects
  \/ Play \/ Capture \/ Tick
Spec == Init /\ [][Next]_vars

------------------------------------------------------------------------------
(* Between two standbys a capture hands out the frames of the device one    *)
(* after the other: none twice, none left out, none of an earlier start or  *)
(* of a buffer that was freed, whatever the sizes of calls and periods.     *)
FramesInOrder ==
  [][taken' # taken => taken' = Nothing \/ /\ taken'.from = taken.to + 1
                                            /\ taken'.to <= read']_vars

(* A buffer of the size that the stream reported when it was opened lasts   *)
(* for a period of the device, also after a fast stream changed the period. *)
BufferHoldsPeriod ==
  dir = "in" /\ ~standby => Lasting(promised, rate) >= period

(* A client can rely on the position it reads.  That of a playback never    *)
(* goes back, over failed writes and standbys that throw queued frames      *)
(* away, and what is written and not presented lasts no longer than the     *)
(* latency, of which the code drops the fraction.  That of a capture is     *)
(* never ahead of the device, frames of failed reads excepted.              *)
PositionsCredible ==
  [][position' # position =>
       IF dir = "out"
       THEN /\ position' > position
            /\ (frames - position') * 1000 < (OutLatency(fast) + 1) * DeviceRate
       ELSE position' <= captured + silent]_vars

(* Calls that fail do not return faster than the frames they answer for     *)
(* would have taken, one call excepted, so a client cannot spin on a device *)
(* that does not work.                                                      *)
FailuresKeepPace ==
  pc = "idle" =>
    \E n \in Requests \cup {0} : Lasting(silent - n, rate) <= now - BootTime
==============================================================================
