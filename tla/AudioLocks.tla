------------------------------ MODULE AudioLocks ------------------------------
(***************************************************************************)
(* The threads of the audio HAL (audio/audio_hw.c) and the mutexes they    *)
(* take: the two locks of struct audio_device and a pre_lock and a lock of *)
(* each stream.  AudioHal has every operation in one step; here an         *)
(* operation is the sequence of its lock operations and of what it does    *)
(* between them, and the operations of several threads interleave.         *)
(*                                                                         *)
(* todo[t] is the rest of the operation that thread t runs: a sequence of  *)
(* acquire and release steps and of the named steps below, which look at a *)
(* stream and continue accordingly.  Of a stream only its standby flag and *)
(* its entries in usecase_list are kept: that of a start which has not     *)
(* been undone, and one that a start left behind which failed half way.    *)
(***************************************************************************)
EXTENDS Integers, Sequences

CONSTANTS Threads,    \* threads of the framework
          Operations, \* function: the entry points each thread calls
          ResamplerFails  \* a capture's resampler may be refused

Streams == {"in", "out"}

EntryPoints ==
  {"out_write", "out_standby", "out_set_parameters",
   "out_get_presentation_position", "adev_open_output_stream",
   "adev_close_output_stream", "in_read", "in_standby", "in_set_parameters",
   "in_get_capture_position", "adev_open_input_stream",
   "adev_close_input_stream", "adev_set_mode"}

ASSUME OperationsAssumption ==
  /\ Operations \in [Threads -> SUBSET EntryPoints]
  /\ ResamplerFails \in BOOLEAN

LockInputs == <<"adev", "lock_inputs">>
DeviceLock == <<"adev", "lock">>
PreLock(s) == <<s, "pre_lock">>
StreamLock(s) == <<s, "lock">>
Locks == {LockInputs, DeviceLock} \cup {PreLock(s) : s \in Streams}
                                  \cup {StreamLock(s) : s \in Streams}

VARIABLES owner,    \* the thread that holds each lock, as a set
          todo,     \* the rest of each thread's operation
          entry,    \* the entry point each thread is in, "none" outside
          open,     \* streams that exist
          standby,  \* streams whose standby flag is set
          entries,  \* entries in usecase_list of each stream's completed starts
          halfStarted  \* streams with an entry of a start that failed half way

vars == <<owner, todo, entry, open, standby, entries, halfStarted>>
streams == <<open, standby, entries, halfStarted>>

Init ==
  /\ owner = [l \in Locks |-> {}]
  /\ todo = [t \in Threads |-> <<>>]
  /\ entry = [t \in Threads |-> "none"]
  /\ open = {}
  /\ standby = Streams
  /\ entries = [s \in Streams |-> 0]
  /\ halfStarted = {}

(* How often usecase_list has the usecase of the stream *)
Listed(s) == entries[s] + (IF s \in halfStarted THEN 1 ELSE 0)

------------------------------------------------------------------------------
(* The text of the operations *)
Acquire(l) == [do |-> "acquire", lock |-> l]
Release(l) == [do |-> "release", lock |-> l]
Do(name, s) == [do |-> name, stream |-> s]

(* Mutant: no pre_lock. *)
LockStreamDirectly(s) == <<Acquire(StreamLock(s))>>

(* lock_input_stream, lock_output_stream *)
LockStream(s) ==
  <<Acquire(PreLock(s)), Acquire(StreamLock(s)), Release(PreLock(s))>>

(* out_standby, in_standby_l, in_standby *)
StandbyLocked(s) ==
  LockStream(s) \o <<Do("check_standby", s), Release(StreamLock(s))>>
Standby(s) ==
  IF s = "out" THEN StandbyLocked(s)
  ELSE <<Acquire(LockInputs)>> \o StandbyLocked(s) \o <<Release(LockInputs)>>

(* out_set_parameters, in_set_parameters *)
SetParameters(s) ==
  <<Acquire(LockInputs)>> \o LockStream(s) \o
  <<Acquire(DeviceLock), Do("route", s), Release(DeviceLock),
    Release(StreamLock(s)), Release(LockInputs)>>

Program(o) ==
  CASE o = "out_write" -> LockStream("out") \o <<Do("check_write", "out")>>
    [] o = "out_standby" -> Standby("out")
    [] o = "out_set_parameters" -> SetParameters("out")
    [] o = "out_get_presentation_position" ->
         LockStream("out") \o <<Release(StreamLock("out"))>>
    [] o = "adev_open_output_stream" ->
         <<Acquire(DeviceLock), Do("check_open", "out")>>
    [] o = "adev_close_output_stream" -> Standby("out") \o <<Do("free", "out")>>
    [] o = "in_read" -> LockStream("in") \o <<Do("check_read", "in")>>
    [] o = "in_standby" -> Standby("in")
    [] o = "in_set_parameters" -> SetParameters("in")
    [] o = "in_get_capture_position" ->
         <<Acquire(StreamLock("in")), Release(StreamLock("in"))>>
    [] o = "adev_open_input_stream" -> <<Do("open", "in")>>
    [] o = "adev_close_input_stream" ->
         <<Acquire(LockInputs)>> \o StandbyLocked("in") \o
         <<Do("free", "in"), Release(LockInputs)>>
    [] o = "adev_set_mode" -> <<Acquire(DeviceLock), Release(DeviceLock)>>

StreamOf(o) ==
  CASE o \in {"none", "adev_set_mode"} -> "none"
    [] o \in {"out_write", "out_standby", "out_set_parameters",
              "out_get_presentation_position", "adev_open_output_stream",
              "adev_close_output_stream"} -> "out"
    [] OTHER -> "in"
Opening == {"adev_open_output_stream", "adev_open_input_stream"}
Closing == {"adev_close_output_stream", "adev_close_input_stream"}
Users(s) == {t \in Threads : StreamOf(entry[t]) = s}

------------------------------------------------------------------------------
(* The steps *)
Idle(t) == todo[t] = <<>>
At(t, name) == ~Idle(t) /\ Head(todo[t]).do = name

(* Thread t goes on with `more' and then with the rest of its operation. *)
Continue(t, more) ==
  LET rest == more \o Tail(todo[t])
  IN  /\ todo' = [todo EXCEPT ![t] = rest]
      /\ entry' = [entry EXCEPT ![t] = IF rest = <<>> THEN "none" ELSE @]
Stream(t) == Head(todo[t]).stream

(* The framework calls an entry point on a stream that exists, closes it    *)
(* when no other call on it is in progress (`API contract prevents a        *)
(* close'), and opens one stream of each direction at a time.               *)
Begin(t, o) ==
  /\ Idle(t)
  /\ LET s == StreamOf(o)
     IN  /\ o \in Opening => s \notin open
         /\ o \notin Opening => s \in open \cup {"none"}
         /\ o \in Opening \cup Closing => Users(s) = {}
         /\ s # "none" => \A u \in Users(s) : entry[u] \notin Opening \cup Closing
  /\ todo' = [todo EXCEPT ![t] = Program(o)]
  /\ entry' = [entry EXCEPT ![t] = o]
  /\ UNCHANGED <<owner, streams>>

AcquireLock(t, l) ==
  /\ At(t, "acquire") /\ Head(todo[t]).lock = l
  /\ owner[l] = {}
  /\ owner' = [owner EXCEPT ![l] = {t}]
  /\ Continue(t, <<>>)
  /\ UNCHANGED streams

ReleaseLock(t) ==
  /\ At(t, "release")
  /\ owner' = [owner EXCEPT ![Head(todo[t]).lock] = {}]
  /\ Continue(t, <<>>)
  /\ UNCHANGED streams

(* out_write: a stream in standby is started under the device lock. *)
CheckWrite(t) ==
  /\ At(t, "check_write")
  /\ Continue(t, IF "out" \in standby
                 THEN <<Acquire(DeviceLock), Do("start_output", "out")>>
                 ELSE <<Do("transfer", "out")>>)
  /\ UNCHANGED <<owner, streams>>

(* Mutant: a start that fails leaves its usecase in the list. *)
StartOutputLeaks(t) ==
  /\ At(t, "start_output")
  /\ entries' = [entries EXCEPT !["out"] = @ + 1]
  /\ \/ /\ standby' = standby \ {"out"}
        /\ Continue(t, <<Release(DeviceLock), Do("transfer", "out")>>)
     \/ /\ UNCHANGED standby
        /\ Continue(t, <<Release(DeviceLock), Release(StreamLock("out"))>>
                         \o Standby("out"))
  /\ UNCHANGED <<owner, open, halfStarted>>

(* start_output_stream and the end of the critical section; a start that    *)
(* fails has undone its usecase, and out_write puts the stream in standby.  *)
StartOutput(t) ==
  /\ At(t, "start_output")
  /\ \/ /\ entries' = [entries EXCEPT !["out"] = @ + 1]
        /\ standby' = standby \ {"out"}
        /\ Continue(t, <<Release(DeviceLock), Do("transfer", "out")>>)
     \/ /\ UNCHANGED <<standby, entries>>
        /\ Continue(t, <<Release(DeviceLock), Release(StreamLock("out"))>>
                         \o Standby("out"))
  /\ UNCHANGED <<owner, open, halfStarted>>

(* Mutant: in_read asks for lock_inputs with the stream locked. *)
CheckReadLocked(t) ==
  /\ At(t, "check_read")
  /\ Continue(t, IF "in" \in standby
                 THEN <<Acquire(LockInputs), Do("recheck_read", "in")>>
                 ELSE <<Do("transfer", "in")>>)
  /\ UNCHANGED <<owner, streams>>

(* in_read: to start the stream it gives up the stream, takes lock_inputs   *)
(* first, and looks at the flag again.                                      *)
CheckRead(t) ==
  /\ At(t, "check_read")
  /\ Continue(t, IF "in" \in standby
                 THEN <<Release(StreamLock("in")), Acquire(LockInputs)>>
                        \o LockStream("in") \o <<Do("recheck_read", "in")>>
                 ELSE <<Do("transfer", "in")>>)
  /\ UNCHANGED <<owner, streams>>

(* Mutant: nothing is checked again. *)
RecheckReadBlindly(t) ==
  /\ At(t, "recheck_read")
  /\ Continue(t, <<Acquire(DeviceLock), Do("start_input", "in")>>)
  /\ UNCHANGED <<owner, streams>>

RecheckRead(t) ==
  /\ At(t, "recheck_read")
  /\ Continue(t, IF "in" \in standby
                 THEN <<Acquire(DeviceLock), Do("start_input", "in")>>
                 ELSE <<Release(LockInputs), Do("transfer", "in")>>)
  /\ UNCHANGED <<owner, streams>>

(* start_input_stream; the standby flag is cleared only after the device    *)
(* lock and lock_inputs are released.  Without its resampler a start opens  *)
(* the PCM and then answers an error, and nobody stops it: the usecase      *)
(* stays in the list and the PCM open, so that every later start fails at   *)
(* pcm_open, and undoes as many entries as it made.                         *)
StartInput(t) ==
  /\ At(t, "start_input")
  /\ \/ /\ "in" \notin halfStarted
        /\ entries' = [entries EXCEPT !["in"] = @ + 1]
        /\ UNCHANGED halfStarted
        /\ Continue(t, <<Release(DeviceLock), Release(LockInputs),
                         Do("started", "in"), Do("transfer", "in")>>)
     \/ /\ UNCHANGED entries
        /\ \/ UNCHANGED halfStarted
           \/ ResamplerFails /\ halfStarted' = halfStarted \cup {"in"}
        /\ Continue(t, <<Release(DeviceLock), Release(LockInputs),
                         Release(StreamLock("in"))>> \o Standby("in"))
  /\ UNCHANGED <<owner, open, standby>>
Started(t) ==
  /\ At(t, "started")
  /\ standby' = standby \ {"in"}
  /\ Continue(t, <<>>)
  /\ UNCHANGED <<owner, open, entries, halfStarted>>

(* pcm_write, or pcm_read: after a failure the stream is unlocked and then  *)
(* put in standby.                                                          *)
Transfer(t) ==
  /\ At(t, "transfer")
  /\ LET s == Stream(t)
     IN  \/ Continue(t, <<Release(StreamLock(s))>>)
         \/ Continue(t, <<Release(StreamLock(s))>> \o Standby(s))
  /\ UNCHANGED <<owner, streams>>

CheckStandby(t) ==
  /\ At(t, "check_standby")
  /\ Continue(t, IF Stream(t) \in standby THEN <<>>
                 ELSE <<Acquire(DeviceLock), Do("stop", Stream(t)),
                        Release(DeviceLock)>>)
  /\ UNCHANGED <<owner, streams>>

(* do_out_standby_l, do_in_standby_l *)
StopStream(s) ==
  /\ entries' = [entries EXCEPT ![s] = @ - 1]
  /\ standby' = standby \cup {s}
Stop(t) ==
  /\ At(t, "stop")
  /\ StopStream(Stream(t))
  /\ Continue(t, <<>>)
  /\ UNCHANGED <<owner, open, halfStarted>>

(* What set_parameters does with a new route: a running stream is switched, *)
(* or put in standby.                                                       *)
Route(t) ==
  /\ At(t, "route")
  /\ \/ UNCHANGED <<standby, entries>>
     \/ Stream(t) \notin standby /\ StopStream(Stream(t))
  /\ Continue(t, <<>>)
  /\ UNCHANGED <<owner, open, halfStarted>>

(* adev_open_output_stream refuses a stream whose usecase is in the list.   *)
CheckOpen(t) ==
  /\ At(t, "check_open")
  /\ Continue(t, <<Release(DeviceLock)>> \o
                 (IF Listed("out") > 0 THEN <<>> ELSE <<Do("open", "out")>>))
  /\ UNCHANGED <<owner, streams>>
Open(t) ==
  /\ At(t, "open")
  /\ open' = open \cup {Stream(t)}
  /\ standby' = standby \cup {Stream(t)}
  /\ Continue(t, <<>>)
  /\ UNCHANGED <<owner, entries, halfStarted>>
Free(t) ==
  /\ At(t, "free")
  /\ open' = open \ {Stream(t)}
  /\ Continue(t, <<>>)
  /\ UNCHANGED <<owner, standby, entries, halfStarted>>

Work(t) == \/ ReleaseLock(t)
           \/ CheckWrite(t) \/ StartOutput(t)
           \/ CheckRead(t) \/ RecheckRead(t) \/ StartInput(t) \/ Started(t)
           \/ Transfer(t) \/ CheckStandby(t) \/ Stop(t) \/ Route(t)
           \/ CheckOpen(t) \/ Open(t) \/ Free(t)

Next == \E t \in Threads : \/ \E o \in Operations[t] : Begin(t, o)
                           \/ \E l \in Locks : AcquireLock(t, l)
                           \/ Work(t)

Spec == Init /\ [][Next]_vars

(* A thread that can run does.  The stream locks are free only for the      *)
(* instants between two transfers, so a thread that waits for one gets it   *)
(* only if it stays free; the other locks are held for short sections, and  *)
(* a thread that waits for one gets it if it is free again and again.       *)
StreamLocks == {StreamLock(s) : s \in Streams}
Fairness ==
  \A t \in Threads :
    /\ WF_vars(Work(t) \/ \E l \in StreamLocks : AcquireLock(t, l))
    /\ SF_vars(\E l \in Locks \ StreamLocks : AcquireLock(t, l))

FairSpec == Spec /\ Fairness

------------------------------------------------------------------------------
(* audio_hw.h: `when multiple mutexes have to be acquired, always take the  *)
(* lock_inputs, stream_in, stream_out, then audio_device mutex', a pre_lock *)
(* before its lock.  A thread that waits for a lock holds only locks that   *)
(* come before it, so no threads can wait for each other in a circle.       *)
Order == <<LockInputs, PreLock("in"), StreamLock("in"), PreLock("out"),
           StreamLock("out"), DeviceLock>>
Rank(l) == CHOOSE i \in DOMAIN Order : Order[i] = l
LocksInOrder ==
  \A t \in Threads :
    At(t, "acquire") =>
      \A l \in Locks : t \in owner[l] => Rank(l) < Rank(Head(todo[t]).lock)

(* When nobody holds the lock of a stream, its standby flag tells whether   *)
(* its usecase is in the list, although in_read clears it after it has      *)
(* released the locks under which it linked the usecase.  The one exception *)
(* is a capture whose start failed half way, which stays in standby with    *)
(* one entry, however often it is started, put in standby or opened again.  *)
FlagMatchesUsecase ==
  \A s \in Streams : owner[StreamLock(s)] = {} =>
    Listed(s) = IF s \in standby /\ s \notin halfStarted THEN 0 ELSE 1

(* The threads together keep the life cycle of each stream: in particular   *)
(* no two of them start it twice or stop it twice, none leaves the usecase  *)
(* of a freed stream behind, and a start that failed half way is the only   *)
(* way out of the cycle.                                                    *)
Life == [s \in Streams |->
           CASE s \notin open /\ Listed(s) = 0 -> "closed"
             [] s \in open /\ Listed(s) = 0    -> "standby"
             [] s \in open /\ entries[s] = 1 /\ Listed(s) = 1 -> "running"
             [] s \in halfStarted /\ Listed(s) = 1 ->
                  IF s \in open THEN "stuck" ELSE "leaked"
             [] OTHER                           -> "broken"]
MayStick == IF ResamplerFails THEN {"in"} ELSE {}
Lives == INSTANCE StreamLife WITH life <- Life
ImplementsStreamLife == Lives!Spec

(* audio_hw.h: `acquire before lock to avoid DOS by playback thread': every *)
(* call returns, also when other threads write and read without pause.      *)
(* in_get_capture_position takes no pre_lock, so the calls return for sure  *)
(* only if it is not asked again and again.                                 *)
PositionAskedFinitely ==
  <>[](\A t \in Threads : entry[t] # "in_get_capture_position")
CallsReturn ==
  PositionAskedFinitely => \A t \in Threads : ~Idle(t) ~> Idle(t)
==============================================================================
