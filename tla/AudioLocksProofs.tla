--------------------------- MODULE AudioLocksProofs ---------------------------
(***************************************************************************)
(* Proofs about AudioLocks for any number of threads and any operations.   *)
(*                                                                         *)
(* First, every operation takes its locks in the documented order, through *)
(* all the branches it may take while others run: IInv says that the rest  *)
(* of each operation, run from the locks that its thread holds, asks for   *)
(* them in order and releases them all.                                    *)
(*                                                                         *)
(* Second, the flag of a stream and its usecase agree, and the threads     *)
(* keep the life cycle of StreamLife.  SInv says what the rest of an       *)
(* operation takes for granted of its stream - that it is still locked,    *)
(* in standby or not, listed or not - and that the only step with which    *)
(* flag and usecase differ is in_read's, between start_input_stream and    *)
(* the flag.  HInv is the exception: a capture whose start failed half way *)
(* keeps its entry and stays in standby.                                   *)
(***************************************************************************)
EXTENDS AudioLocks, TLAPS

(* Steps that stand for all that the operation does from there on, and the  *)
(* steps in the middle of an operation                                      *)
Last == {"check_write", "start_output", "check_read", "recheck_read",
         "start_input", "transfer", "check_open"}
Inner == {"check_standby", "stop", "route", "started", "open", "free"}
Steps == [do : {"acquire", "release"}, lock : Locks]
           \cup [do : Last \cup Inner, stream : Streams]

(* What a thread that holds the locks H must satisfy at step s.  The first  *)
(* line is the order, the others say where in an operation a step stands.   *)
Allowed(H, s) ==
  /\ s.do = "acquire" => \A l \in H : Rank(l) < Rank(s.lock)
  /\ s.do = "release" => s.lock \in H
  /\ s.do = "check_write" => H = {StreamLock("out")}
  /\ s.do = "start_output" => H = {StreamLock("out"), DeviceLock}
  /\ s.do = "check_read" => H = {StreamLock("in")}
  /\ s.do = "recheck_read" => H = {LockInputs, StreamLock("in")}
  /\ s.do = "start_input" => H = {LockInputs, StreamLock("in"), DeviceLock}
  /\ s.do = "transfer" => H = {StreamLock(s.stream)}
  /\ s.do = "check_open" => H = {DeviceLock}
  /\ s.do = "check_standby" => H \subseteq {LockInputs, StreamLock(s.stream)}
  /\ s.do \in {"check_standby", "route"} => StreamLock(s.stream) \in H

(* The locks held after step s; the last steps release all they hold. *)
After(H, s) ==
  IF s.do = "acquire" THEN H \cup {s.lock}
  ELSE IF s.do = "release" THEN H \ {s.lock}
  ELSE IF s.do \in Last THEN {} ELSE H

(* The steps q lead from the locks H to the locks G, each of them allowed. *)
Runs(H, q, G) ==
  /\ q \in Seq(Steps)
  /\ \E h \in [1..Len(q) + 1 -> SUBSET Locks] :
       /\ h[1] = H /\ h[Len(q) + 1] = G
       /\ \A i \in 1..Len(q) : Allowed(h[i], q[i]) /\ h[i + 1] = After(h[i], q[i])

Holds(t) == {l \in Locks : t \in owner[l]}

Typed == owner \in [Locks -> SUBSET Threads] /\ todo \in [Threads -> Seq(Steps)]
Exclusive == \A l \in Locks : \A t, u \in owner[l] : t = u
Ordered == \A t \in Threads : Runs(Holds(t), todo[t], {})
IInv == Typed /\ Exclusive /\ Ordered

------------------------------------------------------------------------------
(* The order of the locks *)
LEMMA Ranks ==
  /\ Rank(LockInputs) = 1
  /\ Rank(PreLock("in")) = 2 /\ Rank(StreamLock("in")) = 3
  /\ Rank(PreLock("out")) = 4 /\ Rank(StreamLock("out")) = 5
  /\ Rank(DeviceLock) = 6
  <1>1. DOMAIN Order = 1..6
    BY DEF Order
  <1>2. \A i \in 1..6 : /\ Order[i] = LockInputs <=> i = 1
                        /\ Order[i] = PreLock("in") <=> i = 2
                        /\ Order[i] = StreamLock("in") <=> i = 3
                        /\ Order[i] = PreLock("out") <=> i = 4
                        /\ Order[i] = StreamLock("out") <=> i = 5
                        /\ Order[i] = DeviceLock <=> i = 6
    BY DEF Order, LockInputs, PreLock, StreamLock, DeviceLock
  <1> QED
    BY <1>1, <1>2 DEF Rank

LEMMA AllLocks ==
  Locks = {LockInputs, PreLock("in"), StreamLock("in"), PreLock("out"),
           StreamLock("out"), DeviceLock}
  BY DEF Locks, Streams

------------------------------------------------------------------------------
(* Runs of one, two, three and four steps, and of two runs in a row *)
LEMMA NoSteps == ASSUME NEW H \in SUBSET Locks PROVE Runs(H, <<>>, H)
  <1> DEFINE h == [i \in 1..1 |-> H]
             q == <<>>
  <1>1. h \in [1..1 -> SUBSET Locks] /\ h[1] = H /\ Len(q) = 0
    OBVIOUS
  <1>4. q \in Seq(Steps)
    OBVIOUS
  <1> HIDE DEF h, q
  <1>2. q \in Seq(Steps) /\ Len(q) + 1 = 1 /\ \A i \in 1..Len(q) : FALSE
    BY <1>1, <1>4
  <1>3. Runs(H, q, H)
    BY <1>1, <1>2 DEF Runs
  <1> QED
    BY <1>3 DEF q

LEMMA OneStep ==
  ASSUME NEW H \in SUBSET Locks, NEW s \in Steps, NEW G \in SUBSET Locks,
         Allowed(H, s), G = After(H, s)
  PROVE  Runs(H, <<s>>, G)
  <1> DEFINE h == [i \in 1..2 |-> IF i = 1 THEN H ELSE G]
  <1>1. Len(<<s>>) = 1 /\ <<s>>[1] = s
    OBVIOUS
  <1>2. /\ h \in [1..2 -> SUBSET Locks] /\ h[1] = H /\ h[2] = G
    OBVIOUS
  <1> HIDE DEF h
  <1>3. \A i \in 1..1 : Allowed(h[i], <<s>>[i]) /\ h[i + 1] = After(h[i], <<s>>[i])
    BY <1>1, <1>2
  <1> QED
    BY <1>1, <1>2, <1>3 DEF Runs

LEMMA Then ==
  ASSUME NEW H, NEW G, NEW F, NEW p, NEW q, Runs(H, p, G), Runs(G, q, F)
  PROVE  Runs(H, p \o q, F)
  <1> DEFINE m == Len(p)
             n == Len(q)
             r == p \o q
  <1>1. PICK g \in [1..m + 1 -> SUBSET Locks] :
          /\ g[1] = H /\ g[m + 1] = G
          /\ \A i \in 1..m : Allowed(g[i], p[i]) /\ g[i + 1] = After(g[i], p[i])
    BY DEF Runs
  <1>2. PICK f \in [1..n + 1 -> SUBSET Locks] :
          /\ f[1] = G /\ f[n + 1] = F
          /\ \A i \in 1..n : Allowed(f[i], q[i]) /\ f[i + 1] = After(f[i], q[i])
    BY DEF Runs
  <1>3. /\ m \in Nat /\ n \in Nat /\ Len(r) = m + n /\ r \in Seq(Steps)
        /\ \A i \in 1..m : r[i] = p[i]
        /\ \A i \in m + 1..m + n : r[i] = q[i - m]
    <2>1. p \in Seq(Steps) /\ q \in Seq(Steps)
      BY DEF Runs
    <2> QED
      BY <2>1
  <1> DEFINE h == [i \in 1..m + n + 1 |-> IF i <= m THEN g[i] ELSE f[i - m]]
  <1> HIDE DEF m, n, r
  <1>4. h \in [1..m + n + 1 -> SUBSET Locks]
    BY <1>3
  <1>5. h[1] = H /\ h[m + n + 1] = F
    BY <1>1, <1>2, <1>3
  <1>6. ASSUME NEW i \in 1..m + n
        PROVE  Allowed(h[i], r[i]) /\ h[i + 1] = After(h[i], r[i])
    <2>1. CASE i < m
      <3>1. h[i] = g[i] /\ h[i + 1] = g[i + 1] /\ r[i] = p[i] /\ i \in 1..m
        BY <1>3, <2>1
      <3> QED
        BY <1>1, <3>1
    <2>2. CASE i = m
      <3>1. h[i] = g[i] /\ h[i + 1] = f[1] /\ r[i] = p[i] /\ i \in 1..m
        BY <1>3, <2>2
      <3> QED
        BY <1>1, <1>2, <2>2, <3>1
    <2>3. CASE i > m
      <3>1. /\ h[i] = f[i - m] /\ h[i + 1] = f[i - m + 1] /\ r[i] = q[i - m]
            /\ i - m \in 1..n
        BY <1>3, <2>3
      <3> QED
        BY <1>2, <3>1
    <2> QED
      BY <1>3, <2>1, <2>2, <2>3
  <1> HIDE DEF h
  <1> QED
    BY <1>2, <1>3, <1>4, <1>5, <1>6 DEF Runs, r

(* What a run says of its first step and of the rest *)
LEMMA FirstStep ==
  ASSUME NEW H, NEW G, NEW q, q # <<>>, Runs(H, q, G)
  PROVE  Allowed(H, Head(q)) /\ Runs(After(H, Head(q)), Tail(q), G)
  <1> DEFINE n == Len(q)
             r == Tail(q)
  <1>1. PICK h \in [1..n + 1 -> SUBSET Locks] :
          /\ h[1] = H /\ h[n + 1] = G
          /\ \A i \in 1..n : Allowed(h[i], q[i]) /\ h[i + 1] = After(h[i], q[i])
    BY DEF Runs
  <1>2. /\ n \in Nat /\ n > 0 /\ Len(r) = n - 1 /\ Head(q) = q[1]
        /\ r \in Seq(Steps)
        /\ \A i \in 1..n - 1 : r[i] = q[i + 1]
    <2>1. q \in Seq(Steps)
      BY DEF Runs
    <2> QED
      BY <2>1
  <1> DEFINE f == [i \in 1..n |-> h[i + 1]]
  <1> HIDE DEF n, r
  <1>3. Allowed(H, Head(q)) /\ h[2] = After(H, Head(q))
    <2>1. 1 \in 1..n /\ 1 + 1 = 2
      BY <1>2
    <2> QED
      BY <1>1, <1>2, <2>1
  <1>4. f \in [1..Len(r) + 1 -> SUBSET Locks] /\ Len(r) + 1 = n
    BY <1>2
  <1>5. f[1] = After(H, Head(q)) /\ f[Len(r) + 1] = G
    BY <1>1, <1>2, <1>3
  <1>6. ASSUME NEW i \in 1..Len(r)
        PROVE  Allowed(f[i], r[i]) /\ f[i + 1] = After(f[i], r[i])
    <2>1. i + 1 \in 1..n /\ f[i] = h[i + 1] /\ f[i + 1] = h[i + 1 + 1] /\ r[i] = q[i + 1]
      BY <1>2
    <2> QED
      BY <1>1, <2>1
  <1> HIDE DEF f
  <1> QED
    BY <1>2, <1>3, <1>4, <1>5, <1>6 DEF Runs, r

------------------------------------------------------------------------------
(* Single steps *)
LEMMA Acquires ==
  ASSUME NEW H \in SUBSET Locks, NEW l \in Locks, NEW G,
         \A k \in H : Rank(k) < Rank(l), G = H \cup {l}
  PROVE  Runs(H, <<Acquire(l)>>, G)
  <1> DEFINE s == Acquire(l)
  <1>1. s \in Steps /\ s.do = "acquire" /\ s.lock = l
    BY DEF Acquire, Steps
  <1> HIDE DEF s
  <1>2. Allowed(H, s)
    BY <1>1 DEF Allowed
  <1>3. After(H, s) = G
    BY <1>1 DEF After
  <1> QED
    BY <1>1, <1>2, <1>3, OneStep DEF s

LEMMA Releases ==
  ASSUME NEW H \in SUBSET Locks, NEW l \in H, NEW G, G = H \ {l}
  PROVE  Runs(H, <<Release(l)>>, G)
  <1> DEFINE s == Release(l)
  <1>1. s \in Steps /\ s.do = "release" /\ s.lock = l
    BY DEF Release, Steps
  <1> HIDE DEF s
  <1>2. Allowed(H, s)
    BY <1>1 DEF Allowed
  <1>3. After(H, s) = G
    BY <1>1 DEF After
  <1> QED
    BY <1>1, <1>2, <1>3, OneStep DEF s

LEMMA Does ==
  ASSUME NEW H \in SUBSET Locks, NEW s \in Streams
  PROVE  /\ \A w \in Inner : Allowed(H, Do(w, s)) => Runs(H, <<Do(w, s)>>, H)
         /\ \A w \in Last : Allowed(H, Do(w, s)) => Runs(H, <<Do(w, s)>>, {})
  <1>1. ASSUME NEW w \in Last \cup Inner, Allowed(H, Do(w, s))
        PROVE  Runs(H, <<Do(w, s)>>, IF w \in Last THEN {} ELSE H)
    <2> DEFINE d == Do(w, s)
    <2>1. d \in Steps /\ d.do = w
      BY DEF Do, Steps
    <2>2. w # "acquire" /\ w # "release"
      BY DEF Last, Inner
    <2> HIDE DEF d
    <2>3. After(H, d) = IF w \in Last THEN {} ELSE H
      BY <2>1, <2>2 DEF After
    <2>4. Allowed(H, d)
      BY <1>1 DEF d
    <2> QED
      BY <2>1, <2>3, <2>4, OneStep DEF d
  <1>2. \A w \in Inner : w \notin Last
    BY DEF Inner, Last
  <1> QED
    BY <1>1, <1>2

(* The locks of a stream lie between those of the device. *)
LEMMA StreamRanks ==
  ASSUME NEW s \in Streams
  PROVE  /\ {LockInputs, PreLock(s), StreamLock(s), DeviceLock} \subseteq Locks
         /\ Rank(LockInputs) < Rank(PreLock(s))
         /\ Rank(PreLock(s)) < Rank(StreamLock(s))
         /\ Rank(StreamLock(s)) < Rank(DeviceLock)
         /\ \A l \in Locks : Rank(l) \in Int
         /\ LockInputs # StreamLock(s) /\ LockInputs # DeviceLock
         /\ StreamLock(s) # DeviceLock
  BY Ranks, AllLocks DEF Streams

------------------------------------------------------------------------------
(* lock_input_stream, lock_output_stream: the stream is locked, nothing else. *)
LEMMA LocksStream ==
  ASSUME NEW s \in Streams, NEW H \in SUBSET Locks,
         \A l \in H : Rank(l) < Rank(PreLock(s))
  PROVE  Runs(H, LockStream(s), H \cup {StreamLock(s)})
  <1> DEFINE a == <<Acquire(PreLock(s))>>
             b == <<Acquire(StreamLock(s))>>
             c == <<Release(PreLock(s))>>
  <1>1. Runs(H, a, H \cup {PreLock(s)})
    BY StreamRanks, Acquires
  <1>2. Runs(H \cup {PreLock(s)}, b, H \cup {PreLock(s), StreamLock(s)})
    <2>1. \A l \in H \cup {PreLock(s)} : Rank(l) < Rank(StreamLock(s))
      BY StreamRanks
    <2> QED
      BY <2>1, StreamRanks, Acquires
  <1>3. Runs(H \cup {PreLock(s), StreamLock(s)}, c, H \cup {StreamLock(s)})
    <2>1. (H \cup {PreLock(s), StreamLock(s)}) \ {PreLock(s)} = H \cup {StreamLock(s)}
      BY StreamRanks
    <2> QED
      BY <2>1, StreamRanks, Releases
  <1>4. LockStream(s) = a \o b \o c
    BY DEF LockStream
  <1> HIDE DEF a, b, c
  <1>5. Runs(H, a \o b, H \cup {PreLock(s), StreamLock(s)})
    BY <1>1, <1>2, Then
  <1>6. Runs(H, a \o b \o c, H \cup {StreamLock(s)})
    BY <1>5, <1>3, Then
  <1> QED
    BY <1>4, <1>6

(* A standby leaves the locks as they were, with or without lock_inputs. *)
LEMMA StandbyLockedRuns ==
  ASSUME NEW s \in Streams, NEW H \in SUBSET {LockInputs}
  PROVE  Runs(H, StandbyLocked(s), H)
  <1> DEFINE a == LockStream(s)
             b == <<Do("check_standby", s)>>
             c == <<Release(StreamLock(s))>>
  <1>1. Runs(H, a, H \cup {StreamLock(s)})
    BY StreamRanks, LocksStream
  <1>2. Runs(H \cup {StreamLock(s)}, b, H \cup {StreamLock(s)})
    <2>1. /\ "check_standby" \in Inner
          /\ Allowed(H \cup {StreamLock(s)}, Do("check_standby", s))
      BY StreamRanks DEF Allowed, Do, Inner, Streams
    <2> QED
      BY <2>1, StreamRanks, Does
  <1>3. Runs(H \cup {StreamLock(s)}, c, H)
    BY StreamRanks, Releases
  <1>4. StandbyLocked(s) = a \o b \o c
    BY DEF StandbyLocked
  <1> HIDE DEF a, b, c
  <1>5. Runs(H, a \o b, H \cup {StreamLock(s)})
    BY <1>1, <1>2, Then
  <1>6. Runs(H, a \o b \o c, H)
    BY <1>5, <1>3, Then
  <1> QED
    BY <1>4, <1>6

LEMMA StandbyRuns ==
  ASSUME NEW s \in Streams PROVE Runs({}, Standby(s), {})
  <1> DEFINE a == <<Acquire(LockInputs)>>
             b == StandbyLocked(s)
             c == <<Release(LockInputs)>>
  <1>1. Runs({}, a, {LockInputs})
    BY StreamRanks, Acquires
  <1>2. Runs({}, b, {}) /\ Runs({LockInputs}, b, {LockInputs})
    BY StandbyLockedRuns
  <1>3. Runs({LockInputs}, c, {})
    BY StreamRanks, Releases
  <1>4. Standby(s) = IF s = "out" THEN b ELSE a \o b \o c
    BY DEF Standby
  <1> HIDE DEF a, b, c
  <1>5. Runs({}, a \o b, {LockInputs})
    BY <1>1, <1>2, Then
  <1>6. Runs({}, a \o b \o c, {})
    BY <1>5, <1>3, Then
  <1> QED
    BY <1>2, <1>4, <1>6

(* The operations as they begin *)
LEMMA SetParametersRuns ==
  ASSUME NEW s \in Streams
  PROVE  Runs({}, SetParameters(s), {})
  <1> DEFINE a == <<Acquire(LockInputs)>>
             b == LockStream(s)
             c == <<Acquire(DeviceLock)>>
             d == <<Do("route", s)>>
             e == <<Release(DeviceLock)>>
             f == <<Release(StreamLock(s))>>
             g == <<Release(LockInputs)>>
  <1>0. s \in Streams
    OBVIOUS
  <1>1. Runs({}, a, {LockInputs})
    BY <1>0, StreamRanks, Acquires
  <1>2. Runs({LockInputs}, b, {LockInputs, StreamLock(s)})
    <2>1. {LockInputs} \cup {StreamLock(s)} = {LockInputs, StreamLock(s)}
      OBVIOUS
    <2> QED
      BY <2>1, <1>0, StreamRanks, LocksStream
  <1>3. Runs({LockInputs, StreamLock(s)}, c,
             {LockInputs, StreamLock(s), DeviceLock})
    BY <1>0, StreamRanks, Acquires
  <1>4. Runs({LockInputs, StreamLock(s), DeviceLock}, d,
             {LockInputs, StreamLock(s), DeviceLock})
    <2>1. /\ "route" \in Inner
          /\ Allowed({LockInputs, StreamLock(s), DeviceLock}, Do("route", s))
      BY <1>0, StreamRanks DEF Allowed, Do, Inner
    <2> QED
      BY <2>1, <1>0, StreamRanks, Does
  <1>5. Runs({LockInputs, StreamLock(s), DeviceLock}, e,
             {LockInputs, StreamLock(s)})
    BY <1>0, StreamRanks, Releases
  <1>6. Runs({LockInputs, StreamLock(s)}, f, {LockInputs})
    BY <1>0, StreamRanks, Releases
  <1>7. Runs({LockInputs}, g, {})
    BY <1>0, StreamRanks, Releases
  <1>8. SetParameters(s) = a \o b \o c \o d \o e \o f \o g
    BY DEF SetParameters
  <1> HIDE DEF a, b, c, d, e, f, g
  <1>9. Runs({}, a \o b, {LockInputs, StreamLock(s)})
    BY <1>1, <1>2, Then
  <1>10. Runs({}, a \o b \o c, {LockInputs, StreamLock(s), DeviceLock})
    BY <1>9, <1>3, Then
  <1>11. Runs({}, a \o b \o c \o d, {LockInputs, StreamLock(s), DeviceLock})
    BY <1>10, <1>4, Then
  <1>12. Runs({}, a \o b \o c \o d \o e, {LockInputs, StreamLock(s)})
    BY <1>11, <1>5, Then
  <1>13. Runs({}, a \o b \o c \o d \o e \o f, {LockInputs})
    BY <1>12, <1>6, Then
  <1>14. Runs({}, a \o b \o c \o d \o e \o f \o g, {})
    BY <1>13, <1>7, Then
  <1> QED
    BY <1>8, <1>14

LEMMA WriteRuns ==
  Runs({}, Program("out_write"), {})
  <1> DEFINE a == LockStream("out")
             b == <<Do("check_write", "out")>>
  <1>0. "out" \in Streams
    BY DEF Streams
  <1>1. Runs({}, a, {StreamLock("out")})
    <2>1. {} \cup {StreamLock("out")} = {StreamLock("out")}
      OBVIOUS
    <2> QED
      BY <2>1, <1>0, StreamRanks, LocksStream
  <1>2. Runs({StreamLock("out")}, b, {})
    <2>1. /\ "check_write" \in Last
          /\ Allowed({StreamLock("out")}, Do("check_write", "out"))
      BY <1>0, StreamRanks DEF Allowed, Do, Last
    <2> QED
      BY <2>1, <1>0, StreamRanks, Does
  <1>3. Program("out_write") = a \o b
    BY DEF Program
  <1> HIDE DEF a, b
  <1>4. Runs({}, a \o b, {})
    BY <1>1, <1>2, Then
  <1> QED
    BY <1>3, <1>4

LEMMA ReadRuns ==
  Runs({}, Program("in_read"), {})
  <1> DEFINE a == LockStream("in")
             b == <<Do("check_read", "in")>>
  <1>0. "in" \in Streams
    BY DEF Streams
  <1>1. Runs({}, a, {StreamLock("in")})
    <2>1. {} \cup {StreamLock("in")} = {StreamLock("in")}
      OBVIOUS
    <2> QED
      BY <2>1, <1>0, StreamRanks, LocksStream
  <1>2. Runs({StreamLock("in")}, b, {})
    <2>1. /\ "check_read" \in Last
          /\ Allowed({StreamLock("in")}, Do("check_read", "in"))
      BY <1>0, StreamRanks DEF Allowed, Do, Last
    <2> QED
      BY <2>1, <1>0, StreamRanks, Does
  <1>3. Program("in_read") = a \o b
    BY DEF Program
  <1> HIDE DEF a, b
  <1>4. Runs({}, a \o b, {})
    BY <1>1, <1>2, Then
  <1> QED
    BY <1>3, <1>4

LEMMA PresentationPositionRuns ==
  Runs({}, Program("out_get_presentation_position"), {})
  <1> DEFINE a == LockStream("out")
             b == <<Release(StreamLock("out"))>>
  <1>0. "out" \in Streams
    BY DEF Streams
  <1>1. Runs({}, a, {StreamLock("out")})
    <2>1. {} \cup {StreamLock("out")} = {StreamLock("out")}
      OBVIOUS
    <2> QED
      BY <2>1, <1>0, StreamRanks, LocksStream
  <1>2. Runs({StreamLock("out")}, b, {})
    BY <1>0, StreamRanks, Releases
  <1>3. Program("out_get_presentation_position") = a \o b
    BY DEF Program
  <1> HIDE DEF a, b
  <1>4. Runs({}, a \o b, {})
    BY <1>1, <1>2, Then
  <1> QED
    BY <1>3, <1>4

LEMMA CapturePositionRuns ==
  Runs({}, Program("in_get_capture_position"), {})
  <1> DEFINE a == <<Acquire(StreamLock("in"))>>
             b == <<Release(StreamLock("in"))>>
  <1>0. "in" \in Streams
    BY DEF Streams
  <1>1. Runs({}, a, {StreamLock("in")})
    BY <1>0, StreamRanks, Acquires
  <1>2. Runs({StreamLock("in")}, b, {})
    BY <1>0, StreamRanks, Releases
  <1>3. Program("in_get_capture_position") = a \o b
    BY DEF Program
  <1> HIDE DEF a, b
  <1>4. Runs({}, a \o b, {})
    BY <1>1, <1>2, Then
  <1> QED
    BY <1>3, <1>4

LEMMA OpenOutputRuns ==
  Runs({}, Program("adev_open_output_stream"), {})
  <1> DEFINE a == <<Acquire(DeviceLock)>>
             b == <<Do("check_open", "out")>>
  <1>0. "out" \in Streams
    BY DEF Streams
  <1>1. Runs({}, a, {DeviceLock})
    BY <1>0, StreamRanks, Acquires
  <1>2. Runs({DeviceLock}, b, {})
    <2>1. /\ "check_open" \in Last
          /\ Allowed({DeviceLock}, Do("check_open", "out"))
      BY <1>0, StreamRanks DEF Allowed, Do, Last
    <2> QED
      BY <2>1, <1>0, StreamRanks, Does
  <1>3. Program("adev_open_output_stream") = a \o b
    BY DEF Program
  <1> HIDE DEF a, b
  <1>4. Runs({}, a \o b, {})
    BY <1>1, <1>2, Then
  <1> QED
    BY <1>3, <1>4

LEMMA OpenInputRuns ==
  Runs({}, Program("adev_open_input_stream"), {})
  <1> DEFINE a == <<Do("open", "in")>>
  <1>0. "in" \in Streams
    BY DEF Streams
  <1>1. Runs({}, a, {})
    <2>1. "open" \in Inner /\ Allowed({}, Do("open", "in"))
      BY <1>0, StreamRanks DEF Allowed, Do, Inner
    <2> QED
      BY <2>1, <1>0, StreamRanks, Does
  <1> QED
    BY <1>1 DEF Program

LEMMA CloseOutputRuns ==
  Runs({}, Program("adev_close_output_stream"), {})
  <1> DEFINE a == Standby("out")
             b == <<Do("free", "out")>>
  <1>0. "out" \in Streams
    BY DEF Streams
  <1>1. Runs({}, a, {})
    BY <1>0, StandbyRuns
  <1>2. Runs({}, b, {})
    <2>1. "free" \in Inner /\ Allowed({}, Do("free", "out"))
      BY <1>0, StreamRanks DEF Allowed, Do, Inner
    <2> QED
      BY <2>1, <1>0, StreamRanks, Does
  <1>3. Program("adev_close_output_stream") = a \o b
    BY DEF Program
  <1> HIDE DEF a, b
  <1>4. Runs({}, a \o b, {})
    BY <1>1, <1>2, Then
  <1> QED
    BY <1>3, <1>4

LEMMA CloseInputRuns ==
  Runs({}, Program("adev_close_input_stream"), {})
  <1> DEFINE a == <<Acquire(LockInputs)>>
             b == StandbyLocked("in")
             c == <<Do("free", "in")>>
             d == <<Release(LockInputs)>>
  <1>0. "in" \in Streams
    BY DEF Streams
  <1>1. Runs({}, a, {LockInputs})
    BY <1>0, StreamRanks, Acquires
  <1>2. Runs({LockInputs}, b, {LockInputs})
    BY <1>0, StandbyLockedRuns
  <1>3. Runs({LockInputs}, c, {LockInputs})
    <2>1. "free" \in Inner /\ Allowed({LockInputs}, Do("free", "in"))
      BY <1>0, StreamRanks DEF Allowed, Do, Inner
    <2> QED
      BY <2>1, <1>0, StreamRanks, Does
  <1>4. Runs({LockInputs}, d, {})
    BY <1>0, StreamRanks, Releases
  <1>5. Program("adev_close_input_stream") = a \o b \o c \o d
    BY DEF Program
  <1> HIDE DEF a, b, c, d
  <1>6. Runs({}, a \o b, {LockInputs})
    BY <1>1, <1>2, Then
  <1>7. Runs({}, a \o b \o c, {LockInputs})
    BY <1>6, <1>3, Then
  <1>8. Runs({}, a \o b \o c \o d, {})
    BY <1>7, <1>4, Then
  <1> QED
    BY <1>5, <1>8

LEMMA SetModeRuns ==
  Runs({}, Program("adev_set_mode"), {})
  <1> DEFINE a == <<Acquire(DeviceLock)>>
             b == <<Release(DeviceLock)>>
  <1>0. "in" \in Streams
    BY DEF Streams
  <1>1. Runs({}, a, {DeviceLock})
    BY <1>0, StreamRanks, Acquires
  <1>2. Runs({DeviceLock}, b, {})
    BY <1>0, StreamRanks, Releases
  <1>3. Program("adev_set_mode") = a \o b
    BY DEF Program
  <1> HIDE DEF a, b
  <1>4. Runs({}, a \o b, {})
    BY <1>1, <1>2, Then
  <1> QED
    BY <1>3, <1>4

LEMMA ProgramRuns == \A o \in EntryPoints : Runs({}, Program(o), {})
  <1>1. /\ Program("out_standby") = Standby("out")
        /\ Program("in_standby") = Standby("in")
        /\ Program("out_set_parameters") = SetParameters("out")
        /\ Program("in_set_parameters") = SetParameters("in")
    BY DEF Program
  <1>2. {"in", "out"} = Streams
    BY DEF Streams
  <1> QED
    BY <1>1, <1>2, StandbyRuns, SetParametersRuns, WriteRuns, ReadRuns,
       PresentationPositionRuns, CapturePositionRuns, OpenOutputRuns, OpenInputRuns,
       CloseOutputRuns, CloseInputRuns, SetModeRuns DEF EntryPoints

------------------------------------------------------------------------------
(* How the operations go on *)
LEMMA WriteStarts ==
  Runs({StreamLock("out")},
       <<Acquire(DeviceLock), Do("start_output", "out")>>, {})
  <1> DEFINE a == <<Acquire(DeviceLock)>>
             b == <<Do("start_output", "out")>>
  <1>0. "out" \in Streams
    BY DEF Streams
  <1>1. Runs({StreamLock("out")}, a, {StreamLock("out"), DeviceLock})
    BY <1>0, StreamRanks, Acquires
  <1>2. Runs({StreamLock("out"), DeviceLock}, b, {})
    <2>1. /\ "start_output" \in Last
          /\ Allowed({StreamLock("out"), DeviceLock}, Do("start_output", "out"))
      BY <1>0, StreamRanks DEF Allowed, Do, Last
    <2> QED
      BY <2>1, <1>0, StreamRanks, Does
  <1>3. <<Acquire(DeviceLock), Do("start_output", "out")>> = a \o b
    OBVIOUS
  <1> HIDE DEF a, b
  <1>4. Runs({StreamLock("out")}, a \o b, {})
    BY <1>1, <1>2, Then
  <1> QED
    BY <1>3, <1>4

LEMMA Transfers ==
  ASSUME NEW s \in Streams
  PROVE  Runs({StreamLock(s)}, <<Do("transfer", s)>>, {})
  <1> DEFINE a == <<Do("transfer", s)>>
  <1>0. s \in Streams
    OBVIOUS
  <1>1. Runs({StreamLock(s)}, a, {})
    <2>1. "transfer" \in Last /\ Allowed({StreamLock(s)}, Do("transfer", s))
      BY <1>0, StreamRanks DEF Allowed, Do, Last
    <2> QED
      BY <2>1, <1>0, StreamRanks, Does
  <1> QED
    BY <1>1 DEF Program

LEMMA OutputStarted ==
  Runs({StreamLock("out"), DeviceLock},
       <<Release(DeviceLock), Do("transfer", "out")>>, {})
  <1> DEFINE a == <<Release(DeviceLock)>>
             b == <<Do("transfer", "out")>>
  <1>0. "out" \in Streams
    BY DEF Streams
  <1>1. Runs({StreamLock("out"), DeviceLock}, a, {StreamLock("out")})
    BY <1>0, StreamRanks, Releases
  <1>2. Runs({StreamLock("out")}, b, {})
    <2>1. /\ "transfer" \in Last
          /\ Allowed({StreamLock("out")}, Do("transfer", "out"))
      BY <1>0, StreamRanks DEF Allowed, Do, Last
    <2> QED
      BY <2>1, <1>0, StreamRanks, Does
  <1>3. <<Release(DeviceLock), Do("transfer", "out")>> = a \o b
    OBVIOUS
  <1> HIDE DEF a, b
  <1>4. Runs({StreamLock("out"), DeviceLock}, a \o b, {})
    BY <1>1, <1>2, Then
  <1> QED
    BY <1>3, <1>4

LEMMA OutputNotStarted ==
  Runs({StreamLock("out"), DeviceLock},
       <<Release(DeviceLock), Release(StreamLock("out"))>> \o Standby("out"), {})
  <1> DEFINE a == <<Release(DeviceLock)>>
             b == <<Release(StreamLock("out"))>>
             c == Standby("out")
  <1>0. "out" \in Streams
    BY DEF Streams
  <1>1. Runs({StreamLock("out"), DeviceLock}, a, {StreamLock("out")})
    BY <1>0, StreamRanks, Releases
  <1>2. Runs({StreamLock("out")}, b, {})
    BY <1>0, StreamRanks, Releases
  <1>3. Runs({}, c, {})
    BY <1>0, StandbyRuns
  <1>4. <<Release(DeviceLock), Release(StreamLock("out"))>> \o Standby("out") = a \o b \o c
    OBVIOUS
  <1> HIDE DEF a, b, c
  <1>5. Runs({StreamLock("out"), DeviceLock}, a \o b, {})
    BY <1>1, <1>2, Then
  <1>6. Runs({StreamLock("out"), DeviceLock}, a \o b \o c, {})
    BY <1>5, <1>3, Then
  <1> QED
    BY <1>4, <1>6

LEMMA ReadLocksInputs ==
  Runs({StreamLock("in")}, <<Release(StreamLock("in")), Acquire(LockInputs)>>
         \o LockStream("in") \o <<Do("recheck_read", "in")>>, {})
  <1> DEFINE a == <<Release(StreamLock("in"))>>
             b == <<Acquire(LockInputs)>>
             c == LockStream("in")
             d == <<Do("recheck_read", "in")>>
  <1>0. "in" \in Streams
    BY DEF Streams
  <1>1. Runs({StreamLock("in")}, a, {})
    BY <1>0, StreamRanks, Releases
  <1>2. Runs({}, b, {LockInputs})
    BY <1>0, StreamRanks, Acquires
  <1>3. Runs({LockInputs}, c, {LockInputs, StreamLock("in")})
    <2>1. {LockInputs} \cup {StreamLock("in")} = {LockInputs, StreamLock("in")}
      OBVIOUS
    <2> QED
      BY <2>1, <1>0, StreamRanks, LocksStream
  <1>4. Runs({LockInputs, StreamLock("in")}, d, {})
    <2>1. /\ "recheck_read" \in Last
          /\ Allowed({LockInputs, StreamLock("in")}, Do("recheck_read", "in"))
      BY <1>0, StreamRanks DEF Allowed, Do, Last
    <2> QED
      BY <2>1, <1>0, StreamRanks, Does
  <1>5. <<Release(StreamLock("in")), Acquire(LockInputs)>>
         \o LockStream("in") \o <<Do("recheck_read", "in")>> = a \o b \o c \o d
    OBVIOUS
  <1> HIDE DEF a, b, c, d
  <1>6. Runs({StreamLock("in")}, a \o b, {LockInputs})
    BY <1>1, <1>2, Then
  <1>7. Runs({StreamLock("in")}, a \o b \o c, {LockInputs, StreamLock("in")})
    BY <1>6, <1>3, Then
  <1>8. Runs({StreamLock("in")}, a \o b \o c \o d, {})
    BY <1>7, <1>4, Then
  <1> QED
    BY <1>5, <1>8

LEMMA ReadStarts ==
  Runs({LockInputs, StreamLock("in")},
       <<Acquire(DeviceLock), Do("start_input", "in")>>, {})
  <1> DEFINE a == <<Acquire(DeviceLock)>>
             b == <<Do("start_input", "in")>>
  <1>0. "in" \in Streams
    BY DEF Streams
  <1>1. Runs({LockInputs, StreamLock("in")}, a,
             {LockInputs, StreamLock("in"), DeviceLock})
    BY <1>0, StreamRanks, Acquires
  <1>2. Runs({LockInputs, StreamLock("in"), DeviceLock}, b, {})
    <2>1. /\ "start_input" \in Last
          /\ Allowed({LockInputs, StreamLock("in"), DeviceLock}, Do("start_input", "in"))
      BY <1>0, StreamRanks DEF Allowed, Do, Last
    <2> QED
      BY <2>1, <1>0, StreamRanks, Does
  <1>3. <<Acquire(DeviceLock), Do("start_input", "in")>> = a \o b
    OBVIOUS
  <1> HIDE DEF a, b
  <1>4. Runs({LockInputs, StreamLock("in")}, a \o b, {})
    BY <1>1, <1>2, Then
  <1> QED
    BY <1>3, <1>4

LEMMA ReadGoesOn ==
  Runs({LockInputs, StreamLock("in")},
       <<Release(LockInputs), Do("transfer", "in")>>, {})
  <1> DEFINE a == <<Release(LockInputs)>>
             b == <<Do("transfer", "in")>>
  <1>0. "in" \in Streams
    BY DEF Streams
  <1>1. Runs({LockInputs, StreamLock("in")}, a, {StreamLock("in")})
    BY <1>0, StreamRanks, Releases
  <1>2. Runs({StreamLock("in")}, b, {})
    <2>1. /\ "transfer" \in Last
          /\ Allowed({StreamLock("in")}, Do("transfer", "in"))
      BY <1>0, StreamRanks DEF Allowed, Do, Last
    <2> QED
      BY <2>1, <1>0, StreamRanks, Does
  <1>3. <<Release(LockInputs), Do("transfer", "in")>> = a \o b
    OBVIOUS
  <1> HIDE DEF a, b
  <1>4. Runs({LockInputs, StreamLock("in")}, a \o b, {})
    BY <1>1, <1>2, Then
  <1> QED
    BY <1>3, <1>4

LEMMA InputStarted ==
  Runs({LockInputs, StreamLock("in"), DeviceLock},
       <<Release(DeviceLock), Release(LockInputs), Do("started", "in"),
         Do("transfer", "in")>>, {})
  <1> DEFINE a == <<Release(DeviceLock)>>
             b == <<Release(LockInputs)>>
             c == <<Do("started", "in")>>
             d == <<Do("transfer", "in")>>
  <1>0. "in" \in Streams
    BY DEF Streams
  <1>1. Runs({LockInputs, StreamLock("in"), DeviceLock}, a,
             {LockInputs, StreamLock("in")})
    BY <1>0, StreamRanks, Releases
  <1>2. Runs({LockInputs, StreamLock("in")}, b, {StreamLock("in")})
    BY <1>0, StreamRanks, Releases
  <1>3. Runs({StreamLock("in")}, c, {StreamLock("in")})
    <2>1. /\ "started" \in Inner
          /\ Allowed({StreamLock("in")}, Do("started", "in"))
      BY <1>0, StreamRanks DEF Allowed, Do, Inner
    <2> QED
      BY <2>1, <1>0, StreamRanks, Does
  <1>4. Runs({StreamLock("in")}, d, {})
    <2>1. /\ "transfer" \in Last
          /\ Allowed({StreamLock("in")}, Do("transfer", "in"))
      BY <1>0, StreamRanks DEF Allowed, Do, Last
    <2> QED
      BY <2>1, <1>0, StreamRanks, Does
  <1>5. <<Release(DeviceLock), Release(LockInputs), Do("started", "in"),
         Do("transfer", "in")>> = a \o b \o c \o d
    OBVIOUS
  <1> HIDE DEF a, b, c, d
  <1>6. Runs({LockInputs, StreamLock("in"), DeviceLock}, a \o b,
             {StreamLock("in")})
    BY <1>1, <1>2, Then
  <1>7. Runs({LockInputs, StreamLock("in"), DeviceLock}, a \o b \o c,
             {StreamLock("in")})
    BY <1>6, <1>3, Then
  <1>8. Runs({LockInputs, StreamLock("in"), DeviceLock}, a \o b \o c \o d, {})
    BY <1>7, <1>4, Then
  <1> QED
    BY <1>5, <1>8

LEMMA InputNotStarted ==
  Runs({LockInputs, StreamLock("in"), DeviceLock},
       <<Release(DeviceLock), Release(LockInputs), Release(StreamLock("in"))>>
         \o Standby("in"), {})
  <1> DEFINE a == <<Release(DeviceLock)>>
             b == <<Release(LockInputs)>>
             c == <<Release(StreamLock("in"))>>
             d == Standby("in")
  <1>0. "in" \in Streams
    BY DEF Streams
  <1>1. Runs({LockInputs, StreamLock("in"), DeviceLock}, a,
             {LockInputs, StreamLock("in")})
    BY <1>0, StreamRanks, Releases
  <1>2. Runs({LockInputs, StreamLock("in")}, b, {StreamLock("in")})
    BY <1>0, StreamRanks, Releases
  <1>3. Runs({StreamLock("in")}, c, {})
    BY <1>0, StreamRanks, Releases
  <1>4. Runs({}, d, {})
    BY <1>0, StandbyRuns
  <1>5. <<Release(DeviceLock), Release(LockInputs), Release(StreamLock("in"))>>
         \o Standby("in") = a \o b \o c \o d
    OBVIOUS
  <1> HIDE DEF a, b, c, d
  <1>6. Runs({LockInputs, StreamLock("in"), DeviceLock}, a \o b,
             {StreamLock("in")})
    BY <1>1, <1>2, Then
  <1>7. Runs({LockInputs, StreamLock("in"), DeviceLock}, a \o b \o c, {})
    BY <1>6, <1>3, Then
  <1>8. Runs({LockInputs, StreamLock("in"), DeviceLock}, a \o b \o c \o d, {})
    BY <1>7, <1>4, Then
  <1> QED
    BY <1>5, <1>8

LEMMA Transferred ==
  ASSUME NEW s \in Streams
  PROVE  Runs({StreamLock(s)}, <<Release(StreamLock(s))>>, {})
  <1> DEFINE a == <<Release(StreamLock(s))>>
  <1>0. s \in Streams
    OBVIOUS
  <1>1. Runs({StreamLock(s)}, a, {})
    BY <1>0, StreamRanks, Releases
  <1> QED
    BY <1>1 DEF Program

LEMMA NotTransferred ==
  ASSUME NEW s \in Streams
  PROVE  Runs({StreamLock(s)}, <<Release(StreamLock(s))>> \o Standby(s), {})
  <1> DEFINE a == <<Release(StreamLock(s))>>
             b == Standby(s)
  <1>0. s \in Streams
    OBVIOUS
  <1>1. Runs({StreamLock(s)}, a, {})
    BY <1>0, StreamRanks, Releases
  <1>2. Runs({}, b, {})
    BY <1>0, StandbyRuns
  <1>3. <<Release(StreamLock(s))>> \o Standby(s) = a \o b
    OBVIOUS
  <1> HIDE DEF a, b
  <1>4. Runs({StreamLock(s)}, a \o b, {})
    BY <1>1, <1>2, Then
  <1> QED
    BY <1>3, <1>4

LEMMA Stops ==
  ASSUME NEW s \in Streams, NEW H \in SUBSET {LockInputs, StreamLock(s)}
  PROVE  Runs(H, <<Acquire(DeviceLock), Do("stop", s), Release(DeviceLock)>>, H)
  <1> DEFINE a == <<Acquire(DeviceLock)>>
             b == <<Do("stop", s)>>
             c == <<Release(DeviceLock)>>
  <1>0. s \in Streams
    OBVIOUS
  <1>1. Runs(H, a, H \cup {DeviceLock})
    <2>1. \A l \in H : Rank(l) < Rank(DeviceLock)
      BY <1>0, StreamRanks
    <2> QED
      BY <2>1, <1>0, StreamRanks, Acquires
  <1>2. Runs(H \cup {DeviceLock}, b, H \cup {DeviceLock})
    <2>1. "stop" \in Inner /\ Allowed(H \cup {DeviceLock}, Do("stop", s))
      BY <1>0, StreamRanks DEF Allowed, Do, Inner
    <2> QED
      BY <2>1, <1>0, StreamRanks, Does
  <1>3. Runs(H \cup {DeviceLock}, c, H)
    BY <1>0, StreamRanks, Releases
  <1>4. <<Acquire(DeviceLock), Do("stop", s), Release(DeviceLock)>> = a \o b \o c
    OBVIOUS
  <1> HIDE DEF a, b, c
  <1>5. Runs(H, a \o b, H \cup {DeviceLock})
    BY <1>1, <1>2, Then
  <1>6. Runs(H, a \o b \o c, H)
    BY <1>5, <1>3, Then
  <1> QED
    BY <1>4, <1>6

LEMMA OpenRefused ==
  Runs({DeviceLock}, <<Release(DeviceLock)>> \o <<>>, {})
  <1> DEFINE a == <<Release(DeviceLock)>>
             b == <<>>
  <1>0. "out" \in Streams
    BY DEF Streams
  <1>1. Runs({DeviceLock}, a, {})
    BY <1>0, StreamRanks, Releases
  <1>2. Runs({}, b, {})
    BY <1>0, NoSteps
  <1>3. <<Release(DeviceLock)>> \o <<>> = a \o b
    OBVIOUS
  <1> HIDE DEF a, b
  <1>4. Runs({DeviceLock}, a \o b, {})
    BY <1>1, <1>2, Then
  <1> QED
    BY <1>3, <1>4

LEMMA OpenGranted ==
  Runs({DeviceLock}, <<Release(DeviceLock)>> \o <<Do("open", "out")>>, {})
  <1> DEFINE a == <<Release(DeviceLock)>>
             b == <<Do("open", "out")>>
  <1>0. "out" \in Streams
    BY DEF Streams
  <1>1. Runs({DeviceLock}, a, {})
    BY <1>0, StreamRanks, Releases
  <1>2. Runs({}, b, {})
    <2>1. "open" \in Inner /\ Allowed({}, Do("open", "out"))
      BY <1>0, StreamRanks DEF Allowed, Do, Inner
    <2> QED
      BY <2>1, <1>0, StreamRanks, Does
  <1>3. <<Release(DeviceLock)>> \o <<Do("open", "out")>> = a \o b
    OBVIOUS
  <1> HIDE DEF a, b
  <1>4. Runs({DeviceLock}, a \o b, {})
    BY <1>1, <1>2, Then
  <1> QED
    BY <1>3, <1>4

------------------------------------------------------------------------------
LEMMA InitIInv == Init => IInv
  <1> SUFFICES ASSUME Init PROVE IInv
    OBVIOUS
  <1>1. owner \in [Locks -> SUBSET Threads] /\ Exclusive
    BY DEF Init, Exclusive
  <1>2. todo \in [Threads -> Seq(Steps)]
    <2>1. <<>> \in Seq(Steps)
      OBVIOUS
    <2> QED
      BY <2>1 DEF Init
  <1>3. ASSUME NEW t \in Threads PROVE Runs(Holds(t), todo[t], {})
    <2>1. Holds(t) = {} /\ todo[t] = <<>>
      BY DEF Init, Holds
    <2> QED
      BY <2>1, NoSteps
  <1> QED
    BY <1>1, <1>2, <1>3 DEF IInv, Typed, Ordered

(* What a thread is about to do is allowed, and the rest follows it. *)
LEMMA AboutTo ==
  ASSUME IInv, NEW t \in Threads, ~Idle(t)
  PROVE  /\ Allowed(Holds(t), Head(todo[t])) /\ Head(todo[t]) \in Steps
         /\ Runs(After(Holds(t), Head(todo[t])), Tail(todo[t]), {})
         /\ Holds(t) \in SUBSET Locks
  <1>1. Runs(Holds(t), todo[t], {}) /\ todo[t] # <<>> /\ todo[t] \in Seq(Steps)
    BY DEF IInv, Ordered, Typed, Idle
  <1>2. Head(todo[t]) \in Steps
    BY <1>1
  <1> QED
    BY <1>1, <1>2, FirstStep DEF Holds

(* A thread that goes on with steps that do what the step promised *)
LEMMA Continued ==
  ASSUME IInv, NEW t \in Threads, ~Idle(t), NEW more,
         Continue(t, more), UNCHANGED owner,
         Runs(Holds(t), more, After(Holds(t), Head(todo[t])))
  PROVE  IInv'
  <1> DEFINE rest == more \o Tail(todo[t])
  <1>1. Runs(Holds(t), rest, {})
    BY AboutTo, Then
  <1>2. rest \in Seq(Steps)
    BY <1>1 DEF Runs
  <1>3. todo' = [todo EXCEPT ![t] = rest] /\ todo \in [Threads -> Seq(Steps)]
    BY DEF Continue, IInv, Typed
  <1> HIDE DEF rest
  <1>4. Typed' /\ Exclusive'
    BY <1>2, <1>3 DEF IInv, Typed, Exclusive
  <1>5. ASSUME NEW u \in Threads PROVE Runs(Holds(u)', todo'[u], {})
    <2>1. Holds(u)' = Holds(u)
      BY DEF Holds
    <2>2. todo'[u] = IF u = t THEN rest ELSE todo[u]
      BY <1>3
    <2> QED
      BY <1>1, <2>1, <2>2 DEF IInv, Ordered
  <1> QED
    BY <1>4, <1>5 DEF IInv, Ordered

(* A thread that took or released a lock *)
LEMMA Moved ==
  ASSUME IInv, NEW t \in Threads, ~Idle(t), Continue(t, <<>>), Exclusive',
         owner' \in [Locks -> SUBSET Threads],
         Holds(t)' = After(Holds(t), Head(todo[t])),
         \A u \in Threads : u # t => Holds(u)' = Holds(u)
  PROVE  IInv'
  <1> DEFINE rest == <<>> \o Tail(todo[t])
  <1>1. /\ Runs(After(Holds(t), Head(todo[t])), Tail(todo[t]), {})
        /\ Tail(todo[t]) \in Seq(Steps) /\ rest = Tail(todo[t])
    <2>1. Runs(After(Holds(t), Head(todo[t])), Tail(todo[t]), {})
      BY AboutTo
    <2>2. Tail(todo[t]) \in Seq(Steps)
      BY <2>1 DEF Runs
    <2> QED
      BY <2>1, <2>2
  <1>2. todo' = [todo EXCEPT ![t] = rest] /\ todo \in [Threads -> Seq(Steps)]
    BY DEF Continue, IInv, Typed
  <1> HIDE DEF rest
  <1>3. Typed'
    BY <1>1, <1>2 DEF Typed
  <1>4. ASSUME NEW u \in Threads PROVE Runs(Holds(u)', todo'[u], {})
    <2>1. todo'[u] = IF u = t THEN rest ELSE todo[u]
      BY <1>2
    <2> QED
      BY <1>1, <2>1 DEF IInv, Ordered
  <1> QED
    BY <1>3, <1>4 DEF IInv, Ordered

LEMMA BeginSound ==
  ASSUME IInv, NEW t \in Threads, NEW o \in EntryPoints, Begin(t, o) PROVE IInv'
  <1>1. /\ Idle(t) /\ owner' = owner /\ todo' = [todo EXCEPT ![t] = Program(o)]
        /\ todo \in [Threads -> Seq(Steps)]
    BY DEF Begin, IInv, Typed
  <1>2. Holds(t) = {}
    <2>1. Runs(Holds(t), <<>>, {})
      BY <1>1 DEF IInv, Ordered, Idle
    <2>2. Len(<<>>) + 1 = 1
      OBVIOUS
    <2> QED
      BY <2>1, <2>2 DEF Runs
  <1>3. Runs({}, Program(o), {}) /\ Program(o) \in Seq(Steps)
    BY ProgramRuns DEF Runs
  <1>4. Typed' /\ Exclusive'
    BY <1>1, <1>3 DEF IInv, Typed, Exclusive
  <1>5. ASSUME NEW u \in Threads PROVE Runs(Holds(u)', todo'[u], {})
    <2>1. /\ Holds(u)' = Holds(u)
          /\ todo'[u] = IF u = t THEN Program(o) ELSE todo[u]
      BY <1>1 DEF Holds
    <2> QED
      BY <1>2, <1>3, <2>1 DEF IInv, Ordered
  <1> QED
    BY <1>4, <1>5 DEF IInv, Ordered

LEMMA AcquireSound ==
  ASSUME IInv, NEW t \in Threads, NEW l \in Locks, AcquireLock(t, l) PROVE IInv'
  <1>1. /\ ~Idle(t) /\ Head(todo[t]).do = "acquire" /\ Head(todo[t]).lock = l
        /\ owner[l] = {} /\ owner' = [owner EXCEPT ![l] = {t}] /\ Continue(t, <<>>)
        /\ owner \in [Locks -> SUBSET Threads] /\ Exclusive
    BY DEF AcquireLock, At, IInv, Typed
  <1>2. owner' \in [Locks -> SUBSET Threads]
    BY <1>1
  <1>3. \A k \in Locks : owner'[k] = IF k = l THEN {t} ELSE owner[k]
    BY <1>1
  <1>4. Exclusive'
    BY <1>1, <1>3 DEF Exclusive
  <1>5. /\ Holds(t)' = Holds(t) \cup {l}
        /\ \A u \in Threads : u # t => Holds(u)' = Holds(u)
    BY <1>1, <1>3 DEF Holds
  <1>6. After(Holds(t), Head(todo[t])) = Holds(t) \cup {l}
    BY <1>1 DEF After
  <1> QED
    BY <1>1, <1>2, <1>4, <1>5, <1>6, Moved

LEMMA ReleaseSound ==
  ASSUME IInv, NEW t \in Threads, ReleaseLock(t) PROVE IInv'
  <1> DEFINE l == Head(todo[t]).lock
  <1>1. /\ ~Idle(t) /\ Head(todo[t]).do = "release"
        /\ owner' = [owner EXCEPT ![l] = {}] /\ Continue(t, <<>>)
        /\ owner \in [Locks -> SUBSET Threads] /\ Exclusive
    BY DEF ReleaseLock, At, IInv, Typed
  <1>2. l \in Holds(t)
    BY <1>1, AboutTo DEF Allowed
  <1>3. After(Holds(t), Head(todo[t])) = Holds(t) \ {l}
    BY <1>1 DEF After
  <1> HIDE DEF l
  <1>4. l \in Locks /\ owner[l] = {t}
    BY <1>1, <1>2 DEF Holds, Exclusive
  <1>5. \A k \in Locks : owner'[k] = IF k = l THEN {} ELSE owner[k]
    BY <1>1, <1>4
  <1>6. owner' \in [Locks -> SUBSET Threads] /\ Exclusive'
    BY <1>1, <1>4, <1>5 DEF Exclusive
  <1>7. /\ Holds(t)' = Holds(t) \ {l}
        /\ \A u \in Threads : u # t => Holds(u)' = Holds(u)
    BY <1>4, <1>5 DEF Holds
  <1> QED
    BY <1>1, <1>3, <1>6, <1>7, Moved

(* Work on a stream: the thread holds what the step asks for. *)
LEMMA WorkSound ==
  ASSUME IInv, NEW t \in Threads, Work(t) PROVE IInv'
  <1> DEFINE H == Holds(t)
             s == Head(todo[t])
  <1>0. ~Idle(t) => /\ Allowed(H, s) /\ s \in Steps /\ H \in SUBSET Locks
                    /\ s.do \in Last => After(H, s) = {}
                    /\ s.do \in Inner => After(H, s) = H /\ Runs(H, <<>>, H)
    BY AboutTo, NoSteps DEF After, Last, Inner
  <1>1. CASE ReleaseLock(t)
    BY <1>1, ReleaseSound
  <1>2. CASE CheckWrite(t)
    <2>1. ~Idle(t) /\ s.do = "check_write" /\ owner' = owner
      BY <1>2 DEF CheckWrite, At
    <2>2. H = {StreamLock("out")} /\ After(H, s) = {}
      BY <1>0, <2>1 DEF Allowed, Last
    <2>3. PICK more : Continue(t, more) /\ Runs(H, more, {})
      BY <1>2, <2>2, WriteStarts, Transfers DEF CheckWrite, Streams
    <2> QED
      BY <2>1, <2>2, <2>3, Continued
  <1>3. CASE StartOutput(t)
    <2>1. ~Idle(t) /\ s.do = "start_output" /\ owner' = owner
      BY <1>3 DEF StartOutput, At
    <2>2. H = {StreamLock("out"), DeviceLock} /\ After(H, s) = {}
      BY <1>0, <2>1 DEF Allowed, Last
    <2>3. PICK more : Continue(t, more) /\ Runs(H, more, {})
      BY <1>3, <2>2, OutputStarted, OutputNotStarted DEF StartOutput, Streams
    <2> QED
      BY <2>1, <2>2, <2>3, Continued
  <1>4. CASE CheckRead(t)
    <2>1. ~Idle(t) /\ s.do = "check_read" /\ owner' = owner
      BY <1>4 DEF CheckRead, At
    <2>2. H = {StreamLock("in")} /\ After(H, s) = {}
      BY <1>0, <2>1 DEF Allowed, Last
    <2>3. PICK more : Continue(t, more) /\ Runs(H, more, {})
      BY <1>4, <2>2, ReadLocksInputs, Transfers DEF CheckRead, Streams
    <2> QED
      BY <2>1, <2>2, <2>3, Continued
  <1>5. CASE RecheckRead(t)
    <2>1. ~Idle(t) /\ s.do = "recheck_read" /\ owner' = owner
      BY <1>5 DEF RecheckRead, At
    <2>2. H = {LockInputs, StreamLock("in")} /\ After(H, s) = {}
      BY <1>0, <2>1 DEF Allowed, Last
    <2>3. PICK more : Continue(t, more) /\ Runs(H, more, {})
      BY <1>5, <2>2, ReadStarts, ReadGoesOn DEF RecheckRead, Streams
    <2> QED
      BY <2>1, <2>2, <2>3, Continued
  <1>6. CASE StartInput(t)
    <2>1. ~Idle(t) /\ s.do = "start_input" /\ owner' = owner
      BY <1>6 DEF StartInput, At
    <2>2. H = {LockInputs, StreamLock("in"), DeviceLock} /\ After(H, s) = {}
      BY <1>0, <2>1 DEF Allowed, Last
    <2>3. PICK more : Continue(t, more) /\ Runs(H, more, {})
      BY <1>6, <2>2, InputStarted, InputNotStarted DEF StartInput, Streams
    <2> QED
      BY <2>1, <2>2, <2>3, Continued
  <1>7. CASE CheckOpen(t)
    <2>1. ~Idle(t) /\ s.do = "check_open" /\ owner' = owner
      BY <1>7 DEF CheckOpen, At
    <2>2. H = {DeviceLock} /\ After(H, s) = {}
      BY <1>0, <2>1 DEF Allowed, Last
    <2>3. PICK more : Continue(t, more) /\ Runs(H, more, {})
      BY <1>7, <2>2, OpenRefused, OpenGranted DEF CheckOpen, Streams
    <2> QED
      BY <2>1, <2>2, <2>3, Continued
  <1>8. CASE Started(t) \/ Stop(t) \/ Route(t) \/ Open(t) \/ Free(t)
    <2>1. ~Idle(t) /\ s.do \in Inner /\ owner' = owner /\ Continue(t, <<>>)
      BY <1>8 DEF Started, Stop, Route, Open, Free, At, Inner
    <2>2. Runs(H, <<>>, After(H, s))
      BY <1>0, <2>1
    <2> QED
      BY <2>1, <2>2, Continued
  <1>9. CASE Transfer(t)
    <2>1. ~Idle(t) /\ s.do = "transfer" /\ owner' = owner /\ Stream(t) = s.stream
      BY <1>9 DEF Transfer, At, Stream
    <2>2. s.stream \in Streams
      BY <1>0, <2>1 DEF Steps
    <2>3. H = {StreamLock(s.stream)} /\ After(H, s) = {}
      BY <1>0, <2>1 DEF Allowed, Last
    <2>4. PICK more : Continue(t, more) /\ Runs(H, more, {})
      BY <1>9, <2>1, <2>2, <2>3, Transferred, NotTransferred DEF Transfer
    <2> QED
      BY <2>1, <2>3, <2>4, Continued
  <1>10. CASE CheckStandby(t)
    <2>1. /\ ~Idle(t) /\ s.do = "check_standby" /\ owner' = owner
          /\ Stream(t) = s.stream
      BY <1>10 DEF CheckStandby, At, Stream
    <2>2. s.stream \in Streams
      BY <1>0, <2>1 DEF Steps
    <2>3. /\ H \subseteq {LockInputs, StreamLock(s.stream)} /\ After(H, s) = H
          /\ Runs(H, <<>>, H)
      BY <1>0, <2>1 DEF Allowed, Inner
    <2>4. PICK more : Continue(t, more) /\ Runs(H, more, H)
      BY <1>10, <2>1, <2>2, <2>3, Stops DEF CheckStandby
    <2> QED
      BY <2>1, <2>3, <2>4, Continued
  <1> QED
    BY <1>1, <1>2, <1>3, <1>4, <1>5, <1>6, <1>7, <1>8, <1>9, <1>10 DEF Work

LEMMA Invariance == Spec => []IInv
  <1>1. IInv /\ [Next]_vars => IInv'
    <2> SUFFICES ASSUME IInv, [Next]_vars PROVE IInv'
      OBVIOUS
    <2>1. ASSUME NEW t \in Threads, NEW o \in Operations[t], Begin(t, o)
          PROVE  IInv'
      <3>1. o \in EntryPoints
        BY OperationsAssumption
      <3> QED
        BY <2>1, <3>1, BeginSound
    <2>2. ASSUME NEW t \in Threads, NEW l \in Locks, AcquireLock(t, l)
          PROVE  IInv'
      BY <2>2, AcquireSound
    <2>3. ASSUME NEW t \in Threads, Work(t) PROVE IInv'
      BY <2>3, WorkSound
    <2>4. CASE UNCHANGED vars
      BY <2>4 DEF vars, IInv, Typed, Exclusive, Ordered, Holds
    <2> QED
      BY <2>1, <2>2, <2>3, <2>4 DEF Next
  <1> QED
    BY <1>1, InitIInv, PTL DEF Spec

(* Whatever threads call and however their operations interleave and branch, *)
(* a lock is asked for only by a thread whose locks all come before it, so   *)
(* no threads wait for each other in a circle.                               *)
THEOREM OrderKept == Spec => []LocksInOrder
  <1>1. IInv => LocksInOrder
    <2> SUFFICES ASSUME IInv, NEW t \in Threads, At(t, "acquire"),
                        NEW l \in Locks, t \in owner[l]
                 PROVE  Rank(l) < Rank(Head(todo[t]).lock)
      BY DEF LocksInOrder
    <2>1. Allowed(Holds(t), Head(todo[t])) /\ Head(todo[t]).do = "acquire"
      BY AboutTo DEF At
    <2> QED
      BY <2>1 DEF Allowed, Holds
  <1> QED
    BY <1>1, Invariance, PTL

------------------------------------------------------------------------------
(* The streams: what a thread knows of its stream *)

(* Steps that rely on what an earlier step of the thread saw of the stream,  *)
(* and the only steps that may lie between.                                  *)
Reliant == {"start_output", "start_input", "started", "stop"}
Between == {Acquire(DeviceLock), Release(DeviceLock), Release(LockInputs)}

Has(q, w) == \E i \in 1..Len(q) : q[i].do = w

(* What an operation does to its stream, and to no other *)
Vocabulary(o) ==
  IF o \in Opening
  THEN IF StreamOf(o) = "out" THEN {"check_open", "open"} ELSE {"open"}
  ELSE IF o \in Closing THEN {"check_standby", "stop", "free"}
  ELSE IF StreamOf(o) = "out"
  THEN {"check_write", "start_output", "transfer", "check_standby", "stop", "route"}
  ELSE IF StreamOf(o) = "in"
  THEN {"check_read", "recheck_read", "start_input", "started", "transfer",
        "check_standby", "stop", "route"}
  ELSE {}
Says(o, d) ==
  \/ d.do \in {"acquire", "release"}
  \/ d.do \in Vocabulary(o) /\ d.stream = StreamOf(o)
Worded(q, o) == \A i \in 1..Len(q) : Says(o, q[i])

Placed(q) ==
  \A j \in 1..Len(q) :
    /\ q[j].do \in Reliant => \A i \in 1..j - 1 : q[i] \in Between
    /\ q[j].do \in {"check_open", "open"} => j = Len(q)
    /\ q[j].do = "free" => \A i \in j..Len(q) : q[i].do \notin {"check_standby", "stop"}

(* A thread in operation o with the steps q to go: whether it holds its      *)
(* stream, whether the stream is in standby and how often it is listed.      *)
Knows(q, o, holds, idle, n) ==
  /\ Has(q, "stop") => holds /\ ~idle
  /\ Has(q, "started") => holds /\ idle /\ n = 1
  /\ Has(q, "start_output") \/ Has(q, "start_input") => holds /\ idle /\ n = 0
  /\ Has(q, "free") => idle \/ Has(q, "check_standby") \/ Has(q, "stop")

Sure(q, o, holds, idle, n) ==
  Worded(q, o) /\ Placed(q) /\ Knows(q, o, holds, idle, n)

Informed(t) ==
  LET s == StreamOf(entry[t])
  IN  Sure(todo[t], entry[t], t \in owner[StreamLock(s)], s \in standby, entries[s])

(* The framework keeps its contract. *)
Entitled(t) ==
  LET s == StreamOf(entry[t])
  IN  s # "none" =>
        /\ entry[t] \in Opening \cup Closing =>
             \A u \in Threads : StreamOf(entry[u]) = s => u = t
        /\ entry[t] \in Opening => s \notin open
        /\ entry[t] \notin Opening \cup Closing => s \in open

(* The flag of a stream and its entry in usecase_list differ only while      *)
(* in_read holds the stream, between start_input_stream and the flag.        *)
Starts(s) ==
  \E t \in owner[StreamLock(s)] : StreamOf(entry[t]) = s /\ Has(todo[t], "started")
Kept(s) ==
  /\ s \notin open => s \in standby
  /\ \/ s \notin standby /\ entries[s] = 1
     \/ s \in standby /\ entries[s] = 0
     \/ s \in standby /\ entries[s] = 1 /\ Starts(s)

flags == <<open, standby, entries>>

StreamTypes ==
  /\ entry \in [Threads -> EntryPoints \cup {"none"}]
  /\ open \subseteq Streams /\ standby \subseteq Streams
  /\ entries \in [Streams -> Int]

SInv ==
  /\ StreamTypes
  /\ \A t \in Threads : Informed(t) /\ Entitled(t)
  /\ \A s \in Streams : Kept(s)
------------------------------------------------------------------------------
(* Sequences of steps *)
LEMMA Cat ==
  ASSUME NEW p \in Seq(Steps), NEW q \in Seq(Steps)
  PROVE  /\ p \o q \in Seq(Steps)
         /\ \A w : Has(p \o q, w) <=> Has(p, w) \/ Has(q, w)
         /\ \A o : Worded(p, o) /\ Worded(q, o) => Worded(p \o q, o)
  <1> DEFINE m == Len(p)
             n == Len(q)
             r == p \o q
  <1>1. /\ m \in Nat /\ n \in Nat /\ Len(r) = m + n /\ r \in Seq(Steps)
        /\ \A i \in 1..m : r[i] = p[i] /\ i \in 1..m + n
        /\ \A i \in 1..n : r[m + i] = q[i] /\ m + i \in 1..m + n
        /\ \A i \in 1..m + n : i \notin 1..m => i - m \in 1..n /\ m + (i - m) = i
    OBVIOUS
  <1> HIDE DEF r, m, n
  <1>2. ASSUME NEW w PROVE Has(r, w) <=> Has(p, w) \/ Has(q, w)
    <2>1. ASSUME Has(r, w) PROVE Has(p, w) \/ Has(q, w)
      <3>1. PICK i \in 1..m + n : r[i].do = w
        BY <1>1, <2>1 DEF Has
      <3>2. CASE i \in 1..m
        BY <1>1, <3>1, <3>2 DEF Has, m
      <3>3. CASE i \notin 1..m
        <4>1. i - m \in 1..n /\ r[i] = q[i - m]
          BY <1>1, <3>3
        <4> QED
          BY <3>1, <4>1 DEF Has, n
      <3> QED
        BY <3>2, <3>3
    <2>2. ASSUME Has(p, w) PROVE Has(r, w)
      BY <1>1, <2>2 DEF Has, m
    <2>3. ASSUME Has(q, w) PROVE Has(r, w)
      <3>1. PICK i \in 1..n : q[i].do = w
        BY <2>3 DEF Has, n
      <3> QED
        BY <1>1, <3>1 DEF Has
    <2> QED
      BY <2>1, <2>2, <2>3
  <1>3. ASSUME NEW o, Worded(p, o), Worded(q, o) PROVE Worded(r, o)
    <2> SUFFICES ASSUME NEW i \in 1..m + n PROVE Says(o, r[i])
      BY <1>1 DEF Worded
    <2>1. CASE i \in 1..m
      BY <1>1, <1>3, <2>1 DEF Worded, m
    <2>2. CASE i \notin 1..m
      <3>1. i - m \in 1..n /\ r[i] = q[i - m]
        BY <1>1, <2>2
      <3> QED
        BY <1>3, <3>1 DEF Worded, n
    <2> QED
      BY <2>1, <2>2
  <1> QED
    BY <1>1, <1>2, <1>3 DEF r

LEMMA CatPlaced ==
  ASSUME NEW p \in Seq(Steps), NEW q \in Seq(Steps), Placed(p), Placed(q),
         \A w \in Reliant : ~Has(q, w),
         q = <<>> \/ (~Has(p, "check_open") /\ ~Has(p, "open")),
         ~Has(p, "free")
  PROVE  Placed(p \o q)
  <1> DEFINE m == Len(p)
             n == Len(q)
             r == p \o q
  <1>1. /\ m \in Nat /\ n \in Nat /\ Len(r) = m + n
        /\ q = <<>> <=> n = 0
        /\ \A i \in 1..m : r[i] = p[i]
        /\ \A i \in 1..m + n : i \notin 1..m => i - m \in 1..n /\ r[i] = q[i - m]
    OBVIOUS
  <1> HIDE DEF r, m, n
  <1> SUFFICES ASSUME NEW j \in 1..m + n
               PROVE  /\ r[j].do \in Reliant => \A i \in 1..j - 1 : r[i] \in Between
                      /\ r[j].do \in {"check_open", "open"} => j = m + n
                      /\ r[j].do = "free" =>
                           \A i \in j..m + n : r[i].do \notin {"check_standby", "stop"}
    BY <1>1 DEF Placed, r
  <1>2. CASE j \in 1..m
    <2>1. r[j] = p[j] /\ \A i \in 1..j - 1 : i \in 1..m /\ r[i] = p[i]
      BY <1>1, <1>2
    <2>2. p[j].do \in Reliant => \A i \in 1..j - 1 : p[i] \in Between
      BY <1>2 DEF Placed, m
    <2>3. p[j].do \in {"check_open", "open"} => j = m /\ n = 0
      BY <1>1, <1>2 DEF Placed, Has, m
    <2>4. p[j].do # "free"
      BY <1>2 DEF Has, m
    <2>5. r[j].do \in {"check_open", "open"} => j = m + n
      BY <1>1, <2>1, <2>3
    <2>6. r[j].do \in Reliant => \A i \in 1..j - 1 : r[i] \in Between
      BY <2>1, <2>2
    <2> QED
      BY <2>1, <2>4, <2>5, <2>6
  <1>3. CASE j \notin 1..m
    <2>1. j - m \in 1..n /\ r[j] = q[j - m]
      BY <1>1, <1>3
    <2>2. r[j].do \notin Reliant
      BY <2>1 DEF Has, n
    <2>3. r[j].do \in {"check_open", "open"} => j - m = n
      BY <2>1 DEF Placed, n
    <2>4. ASSUME r[j].do = "free", NEW i \in j..m + n
          PROVE  r[i].do \notin {"check_standby", "stop"}
      <3>1. i - m \in (j - m)..n /\ r[i] = q[i - m]
        BY <1>1, <1>3
      <3> QED
        BY <2>1, <2>4, <3>1 DEF Placed, n
    <2> QED
      BY <1>1, <2>1, <2>2, <2>3, <2>4
  <1> QED
    BY <1>2, <1>3

LEMMA Remaining ==
  ASSUME NEW q \in Seq(Steps), q # <<>>, Placed(q)
  PROVE  /\ Tail(q) \in Seq(Steps) /\ Head(q) \in Steps /\ Placed(Tail(q))
         /\ \A o : Worded(q, o) => Worded(Tail(q), o) /\ Says(o, Head(q))
         /\ \A w : Has(q, w) <=> Head(q).do = w \/ Has(Tail(q), w)
         /\ Head(q) \notin Between => \A w \in Reliant : ~Has(Tail(q), w)
         /\ Head(q).do \in {"check_open", "open"} => Tail(q) = <<>>
         /\ Head(q).do = "free" =>
              ~Has(Tail(q), "check_standby") /\ ~Has(Tail(q), "stop")
  <1> DEFINE n == Len(q)
             r == Tail(q)
  <1>1. /\ n \in Nat /\ n > 0 /\ Len(r) = n - 1 /\ Head(q) = q[1] /\ q[1] \in Steps
        /\ r \in Seq(Steps) /\ (n = 1 => r = <<>>)
        /\ \A i \in 1..n - 1 : r[i] = q[i + 1] /\ i + 1 \in 1..n
        /\ \A i \in 1..n : i # 1 => i - 1 \in 1..n - 1 /\ r[i - 1] = q[i]
    <2>1. /\ n \in Nat /\ n > 0 /\ Len(r) = n - 1 /\ Head(q) = q[1] /\ r \in Seq(Steps)
          /\ \A i \in 1..n - 1 : r[i] = q[i + 1] /\ i + 1 \in 1..n
      <3>1. n \in Nat /\ n > 0 /\ Len(r) = n - 1 /\ Head(q) = q[1]
        OBVIOUS
      <3>2. r \in Seq(Steps)
        OBVIOUS
      <3>3. ASSUME NEW i \in 1..n - 1 PROVE r[i] = q[i + 1] /\ i + 1 \in 1..n
        OBVIOUS
      <3> QED
        BY <3>1, <3>2, <3>3
    <2>2. q[1] \in Steps
      <3>1. q \in Seq(Steps) /\ 1 \in 1..Len(q)
        BY <2>1
      <3> HIDE DEF n, r
      <3> QED
        BY <3>1
    <2>3. ASSUME n = 1 PROVE r = <<>>
      <3>1. Len(r) = 0 /\ r \in Seq(Steps)
        BY <2>1, <2>3
      <3> HIDE DEF n, r
      <3> QED
        BY <3>1
    <2>4. ASSUME NEW i \in 1..n, i # 1 PROVE i - 1 \in 1..n - 1 /\ r[i - 1] = q[i]
      <3>1. i - 1 \in 1..n - 1 /\ (i - 1) + 1 = i
        BY <2>1, <2>4
      <3> QED
        BY <2>1, <3>1
    <2> QED
      BY <2>1, <2>2, <2>3, <2>4
  <1> HIDE DEF n, r
  <1>2. ASSUME NEW j \in 1..n - 1
        PROVE  /\ r[j].do \in Reliant => \A i \in 1..j - 1 : r[i] \in Between
               /\ r[j].do \in {"check_open", "open"} => j = n - 1
               /\ r[j].do = "free" =>
                    \A i \in j..n - 1 : r[i].do \notin {"check_standby", "stop"}
    <2>1. /\ q[j + 1].do \in Reliant => \A i \in 1..j : q[i] \in Between
          /\ q[j + 1].do \in {"check_open", "open"} => j + 1 = n
          /\ q[j + 1].do = "free" =>
               \A i \in j + 1..n : q[i].do \notin {"check_standby", "stop"}
      BY <1>1 DEF Placed, n
    <2>2. \A i \in 1..j - 1 : i + 1 \in 1..j /\ r[i] = q[i + 1]
      BY <1>1
    <2>3. \A i \in j..n - 1 : i + 1 \in j + 1..n /\ r[i] = q[i + 1]
      BY <1>1
    <2>4. r[j] = q[j + 1]
      BY <1>1
    <2>5. r[j].do \in Reliant => \A i \in 1..j - 1 : r[i] \in Between
      BY <2>1, <2>2, <2>4
    <2>6. r[j].do \in {"check_open", "open"} => j = n - 1
      BY <1>1, <2>1, <2>4
    <2>7. r[j].do = "free" =>
            \A i \in j..n - 1 : r[i].do \notin {"check_standby", "stop"}
      BY <2>1, <2>3, <2>4
    <2> QED
      BY <2>5, <2>6, <2>7
  <1>3. Placed(r)
    BY <1>1, <1>2 DEF Placed
  <1>4. ASSUME NEW o, Worded(q, o) PROVE Worded(r, o) /\ Says(o, q[1])
    BY <1>1, <1>4 DEF Worded, n
  <1>5. ASSUME NEW w PROVE Has(q, w) <=> q[1].do = w \/ Has(r, w)
    <2>1. ASSUME Has(q, w), q[1].do # w PROVE Has(r, w)
      <3>1. PICK i \in 1..n : q[i].do = w
        BY <2>1 DEF Has, n
      <3>2. i - 1 \in 1..n - 1 /\ r[i - 1] = q[i]
        BY <1>1, <2>1, <3>1
      <3> QED
        BY <1>1, <3>1, <3>2 DEF Has
    <2>2. ASSUME Has(r, w) PROVE Has(q, w)
      BY <1>1, <2>2 DEF Has, n
    <2>3. q[1].do = w => Has(q, w)
      BY <1>1 DEF Has, n
    <2> QED
      BY <2>1, <2>2, <2>3
  <1>6. ASSUME q[1] \notin Between, NEW w \in Reliant PROVE ~Has(r, w)
    <2> SUFFICES ASSUME NEW i \in 1..n - 1, r[i].do = w PROVE FALSE
      BY <1>1 DEF Has
    <2>1. q[i + 1].do \in Reliant /\ i + 1 \in 1..n /\ 1 \in 1..(i + 1) - 1
      BY <1>1, <1>6
    <2> QED
      BY <1>6, <2>1 DEF Placed, n
  <1>7. q[1].do \in {"check_open", "open"} => r = <<>>
    BY <1>1 DEF Placed, n
  <1>8. ASSUME q[1].do = "free"
        PROVE  ~Has(r, "check_standby") /\ ~Has(r, "stop")
    <2> SUFFICES ASSUME NEW i \in 1..n - 1 PROVE r[i].do \notin {"check_standby", "stop"}
      BY <1>1 DEF Has
    <2>1. q[i + 1].do \notin {"check_standby", "stop"}
      BY <1>1, <1>8 DEF Placed, n
    <2> QED
      BY <1>1, <2>1
  <1> QED
    BY <1>1, <1>3, <1>4, <1>5, <1>6, <1>7, <1>8 DEF r

------------------------------------------------------------------------------
(* What a thread knows, when the streams or the steps to go change *)
LEMMA NothingToDo == \A o, holds, idle, n : Sure(<<>>, o, holds, idle, n)
  <1>1. \A w : ~Has(<<>>, w)
    BY DEF Has
  <1> QED
    BY <1>1 DEF Sure, Worded, Placed, Knows

(* What an operation may say decides what it can rely on. *)
LEMMA Words ==
  ASSUME NEW q, NEW o \in EntryPoints \cup {"none"}, Worded(q, o), NEW w, Has(q, w),
         w \notin {"acquire", "release"}
  PROVE  w \in Vocabulary(o) /\ StreamOf(o) \in Streams
  <1>1. w \in Vocabulary(o)
    BY DEF Has, Worded, Says
  <1>2. StreamOf(o) \in {"none", "out", "in"}
    BY DEF StreamOf
  <1>3. o \in Opening \cup Closing => StreamOf(o) # "none"
    BY DEF Opening, Closing, StreamOf
  <1> QED
    BY <1>1, <1>2, <1>3 DEF Vocabulary, Streams

LEMMA Roles ==
  ASSUME NEW o \in EntryPoints \cup {"none"}
  PROVE  /\ StreamOf("none") = "none"
         /\ StreamOf(o) = "none" \/ StreamOf(o) \in Streams
         /\ o \in Opening \cup Closing => StreamOf(o) \in Streams
         /\ "none" \notin Streams
  BY DEF StreamOf, Opening, Closing, Streams

(* A step of a thread that changes at most its own stream, with the stream   *)
(* locked or to itself, and that goes on knowing of the stream what it must. *)
LEMMA Stepped ==
  ASSUME IInv, SInv, NEW t \in Threads, NEW more, Continue(t, more), StreamTypes',
         NEW s, s = StreamOf(entry[t]), NEW r, r = more \o Tail(todo[t]),
         \A u \in Threads : u # t =>
           \A x \in Streams : u \in owner[StreamLock(x)] => u \in owner'[StreamLock(x)],
         \A x \in Streams : x # s =>
           /\ x \in standby' <=> x \in standby
           /\ x \in open' <=> x \in open
           /\ entries'[x] = entries[x],
         \/ UNCHANGED flags
         \/ t \in owner[StreamLock(s)] /\ s \in Streams /\ (s \in open' <=> s \in open)
         \/ entry[t] \in Opening \cup Closing,
         r # <<>> => Sure(r, entry[t], t \in owner'[StreamLock(s)], s \in standby', entries'[s]),
         r # <<>> => /\ entry[t] \in Opening => s \notin open'
                     /\ entry[t] \notin Opening \cup Closing /\ s # "none" => s \in open',
         s \in Streams => Kept(s)'
  PROVE  SInv'
  <1>1. /\ entry \in [Threads -> EntryPoints \cup {"none"}]
        /\ todo \in [Threads -> Seq(Steps)] /\ Exclusive
        /\ \A u \in Threads : Informed(u) /\ Entitled(u)
        /\ \A x \in Streams : Kept(x)
        /\ \A x \in Streams : StreamLock(x) \in Locks
    BY DEF SInv, StreamTypes, IInv, Typed, Locks
  <1>2. /\ todo'[t] = r /\ entry'[t] = IF r = <<>> THEN "none" ELSE entry[t]
        /\ \A u \in Threads : u # t => todo'[u] = todo[u] /\ entry'[u] = entry[u]
    BY <1>1 DEF Continue
  <1>3. ASSUME NEW u \in Threads, StreamOf(entry[u]) \in Streams
        PROVE  /\ entry[u] \in Opening \cup Closing =>
                    \A v \in Threads : StreamOf(entry[v]) = StreamOf(entry[u]) => v = u
               /\ entry[u] \in Opening => StreamOf(entry[u]) \notin open
               /\ entry[u] \notin Opening \cup Closing => StreamOf(entry[u]) \in open
    <2>1. StreamOf(entry[u]) # "none" /\ Entitled(u)
      BY <1>1, <1>3, Roles
    <2> QED
      BY <2>1 DEF Entitled
  <1>4. Informed(t)'
    <2>1. CASE r = <<>>
      BY <1>2, <2>1, NothingToDo DEF Informed
    <2>2. CASE r # <<>>
      BY <1>2, <2>2 DEF Informed
    <2> QED
      BY <2>1, <2>2
  <1>5. Entitled(t)'
    <2>1. CASE r = <<>>
      BY <1>2, <2>1, Roles DEF Entitled
    <2>2. CASE r # <<>>
      <3>1. entry'[t] = entry[t]
        BY <1>2, <2>2
      <3>2. s # "none" /\ entry[t] \in Opening \cup Closing =>
              \A u \in Threads : StreamOf(entry[u]) = s => u = t
        BY <1>1 DEF Entitled
      <3> QED
        BY <1>2, <2>2, <3>1, <3>2 DEF Entitled
    <2> QED
      BY <2>1, <2>2
  <1>6. ASSUME NEW u \in Threads, u # t PROVE Informed(u)' /\ Entitled(u)'
    <2> DEFINE o == entry[u]
               x == StreamOf(entry[u])
    <2>1. /\ o \in EntryPoints \cup {"none"} /\ entry'[u] = o /\ todo'[u] = todo[u]
          /\ Sure(todo[u], o, u \in owner[StreamLock(x)], x \in standby, entries[x])
          /\ x = "none" \/ x \in Streams
      BY <1>1, <1>2, <1>6, Roles DEF Informed
    <2>2. CASE x = "none"
      <3>1. \A w : Has(todo[u], w) => w \in {"acquire", "release"}
        BY <2>1, <2>2, Words, Roles DEF Sure
      <3> QED
        BY <2>1, <2>2, <3>1, Roles DEF Informed, Entitled, Sure, Knows
    <2>3. CASE x \in Streams
      <3>1. u \in owner[StreamLock(x)] => u \in owner'[StreamLock(x)]
        BY <1>6, <2>3
      <3>2. CASE /\ x \in standby' <=> x \in standby
                 /\ x \in open' <=> x \in open
                 /\ entries'[x] = entries[x]
        <4>1. Informed(u)'
          BY <2>1, <3>1, <3>2 DEF Informed, Sure, Knows
        <4>2. \A v \in Threads : StreamOf(entry'[v]) = x => StreamOf(entry[v]) = x
          BY <1>2, <2>3, Roles
        <4>3. Entitled(u)'
          BY <1>3, <2>1, <2>3, <3>2, <4>2 DEF Entitled
        <4> QED
          BY <4>1, <4>3
      <3>3. CASE x = s /\ entry[t] \in Opening \cup Closing
        <4>1. \A v \in Threads : StreamOf(entry[v]) = s => v = t
          BY <1>3, <2>3, <3>3
        <4> QED
          BY <1>6, <3>3, <4>1
      <3>4. CASE x = s /\ t \in owner[StreamLock(s)] /\ (s \in open' <=> s \in open)
        <4>1. u \notin owner[StreamLock(x)]
          BY <1>1, <1>6, <2>3, <3>4 DEF Exclusive
        <4>2. o \notin Opening \cup Closing /\ x \in open
          BY <1>6, <1>3, <2>3, <3>4
        <4>3. ~Has(todo[u], "free")
          BY <2>1, <4>2, Words DEF Vocabulary, Sure
        <4>4. Informed(u)'
          BY <2>1, <4>1, <4>3 DEF Informed, Sure, Knows
        <4> QED
          BY <2>1, <3>4, <4>2, <4>4 DEF Entitled
      <3> QED
        BY <2>3, <3>2, <3>3, <3>4 DEF flags, streams
    <2> QED
      BY <2>1, <2>2, <2>3
  <1>7. ASSUME NEW x \in Streams PROVE Kept(x)'
    <2>1. CASE x = s
      BY <2>1
    <2>2. CASE x # s
      <3>1. Starts(x) => Starts(x)'
        <4> SUFFICES ASSUME NEW w \in owner[StreamLock(x)],
                            StreamOf(entry[w]) = x, Has(todo[w], "started")
                     PROVE  Starts(x)'
          BY DEF Starts
        <4>1. w \in Threads /\ w # t
          BY <1>1, <2>2 DEF IInv, Typed
        <4>2. w \in owner'[StreamLock(x)] /\ entry'[w] = entry[w] /\ todo'[w] = todo[w]
          BY <1>2, <4>1
        <4> QED
          BY <4>2 DEF Starts
      <3> QED
        BY <1>1, <2>2, <3>1 DEF Kept
    <2> QED
      BY <2>1, <2>2
  <1> QED
    BY <1>4, <1>5, <1>6, <1>7 DEF SInv

------------------------------------------------------------------------------
(* The text of the operations: steps that promise nothing of the stream *)
DullWords ==
  {"check_write", "check_read", "recheck_read", "transfer", "check_standby", "route"}
Dull(o) ==
  {d \in Steps : \/ d.do \in {"acquire", "release"}
                 \/ d.do \in DullWords \cap Vocabulary(o) /\ d.stream = StreamOf(o)}

LEMMA DullSteps ==
  ASSUME NEW o, NEW q \in Seq(Dull(o))
  PROVE  /\ q \in Seq(Steps) /\ Worded(q, o) /\ Placed(q)
         /\ \A w \in Reliant \cup {"check_open", "open", "free"} : ~Has(q, w)
  <1>1. q \in Seq(Steps)
    BY DEF Dull
  <1>2. ASSUME NEW i \in 1..Len(q)
        PROVE  /\ q[i].do \in {"acquire", "release"} \cup DullWords
               /\ Says(o, q[i])
    <2>1. q[i] \in Dull(o)
      OBVIOUS
    <2> QED
      BY <2>1 DEF Dull, Says
  <1>3. \A w \in Reliant \cup {"check_open", "open", "free"} :
          w \notin {"acquire", "release"} \cup DullWords
    BY DEF Reliant, DullWords
  <1>4. Placed(q)
    BY <1>2, <1>3 DEF Placed
  <1> QED
    BY <1>1, <1>2, <1>3, <1>4 DEF Worded, Has

LEMMA DullLocks ==
  ASSUME NEW o, NEW l \in Locks
  PROVE  Acquire(l) \in Dull(o) /\ Release(l) \in Dull(o)
  BY DEF Dull, Steps, Acquire, Release

LEMMA DullWork ==
  ASSUME NEW o, StreamOf(o) \in Streams, NEW w \in DullWords \cap Vocabulary(o)
  PROVE  Do(w, StreamOf(o)) \in Dull(o)
  BY DEF Dull, Steps, Do, DullWords, Last, Inner

LEMMA DullPieces ==
  ASSUME NEW s \in Streams, NEW o, StreamOf(o) = s
  PROVE  /\ LockStream(s) \in Seq(Dull(o))
         /\ "check_standby" \in Vocabulary(o) =>
              StandbyLocked(s) \in Seq(Dull(o)) /\ Standby(s) \in Seq(Dull(o))
         /\ "route" \in Vocabulary(o) => SetParameters(s) \in Seq(Dull(o))
  <1> DEFINE D == Dull(o)
  <1>1. /\ \A l \in {LockInputs, DeviceLock, PreLock(s), StreamLock(s)} :
             Acquire(l) \in D /\ Release(l) \in D
        /\ "check_standby" \in Vocabulary(o) => Do("check_standby", s) \in D
        /\ "route" \in Vocabulary(o) => Do("route", s) \in D
    BY DullLocks, DullWork, StreamRanks DEF DullWords
  <1> HIDE DEF D
  <1>2. LockStream(s) \in Seq(D)
    BY <1>1 DEF LockStream
  <1>3. ASSUME "check_standby" \in Vocabulary(o)
        PROVE  StandbyLocked(s) \in Seq(D) /\ Standby(s) \in Seq(D)
    <2>1. StandbyLocked(s) \in Seq(D)
      <3>1. <<Do("check_standby", s), Release(StreamLock(s))>> \in Seq(D)
        BY <1>1, <1>3
      <3> QED
        BY <1>2, <3>1 DEF StandbyLocked
    <2>2. <<Acquire(LockInputs)>> \in Seq(D) /\ <<Release(LockInputs)>> \in Seq(D)
      BY <1>1
    <2> QED
      BY <2>1, <2>2 DEF Standby
  <1>4. ASSUME "route" \in Vocabulary(o)
        PROVE  SetParameters(s) \in Seq(D)
    <2>1. /\ <<Acquire(LockInputs)>> \in Seq(D)
          /\ <<Acquire(DeviceLock), Do("route", s), Release(DeviceLock),
               Release(StreamLock(s)), Release(LockInputs)>> \in Seq(D)
      BY <1>1, <1>4
    <2> QED
      BY <1>2, <2>1 DEF SetParameters
  <1> QED
    BY <1>2, <1>3, <1>4 DEF D

(* What every operation begins with *)
Beginning(q, o) ==
  /\ q \in Seq(Steps) /\ Worded(q, o) /\ Placed(q)
  /\ \A w \in Reliant : ~Has(q, w)
  /\ Has(q, "free") => Has(q, "check_standby")

LEMMA DullBeginning ==
  ASSUME NEW o, NEW q \in Seq(Dull(o)) PROVE Beginning(q, o)
  BY DullSteps DEF Beginning

LEMMA OpenInputBeginning ==
  Beginning(Program("adev_open_input_stream"), "adev_open_input_stream")
  <1> DEFINE o == "adev_open_input_stream"
             d == Do("open", "in")
  <1>1. /\ d \in Steps /\ d.do = "open" /\ Says(o, d)
        /\ "open" \notin Reliant \cup {"free"}
    BY DEF Do, Steps, Last, Inner, Streams, Says, Vocabulary, Opening, StreamOf, Reliant
  <1>2. Program(o) = <<d>>
    BY DEF Program
  <1> HIDE DEF d
  <1>3. <<d>> \in Seq(Steps) /\ Len(<<d>>) = 1 /\ <<d>>[1] = d
    BY <1>1
  <1>4. Worded(<<d>>, o) /\ Placed(<<d>>) /\ \A w \in Reliant \cup {"free"} : ~Has(<<d>>, w)
    BY <1>1, <1>3 DEF Worded, Placed, Has
  <1> QED
    BY <1>2, <1>3, <1>4 DEF Beginning

LEMMA OpenOutputBeginning ==
  Beginning(Program("adev_open_output_stream"), "adev_open_output_stream")
  <1> DEFINE o == "adev_open_output_stream"
             a == Acquire(DeviceLock)
             d == Do("check_open", "out")
             q == <<a, d>>
  <1>1. /\ a \in Steps /\ d \in Steps /\ a.do = "acquire" /\ d.do = "check_open"
        /\ Says(o, a) /\ Says(o, d)
        /\ {"acquire", "check_open"} \cap (Reliant \cup {"free", "open"}) = {}
    BY DEF Do, Acquire, DeviceLock, Locks, Steps, Last, Inner, Streams, Says,
           Vocabulary, Opening, StreamOf, Reliant
  <1>2. Program(o) = q
    BY DEF Program
  <1> HIDE DEF a, d
  <1>3. q \in Seq(Steps) /\ Len(q) = 2 /\ q[1] = a /\ q[2] = d
    BY <1>1
  <1> HIDE DEF q
  <1>4. Worded(q, o) /\ Placed(q) /\ \A w \in Reliant \cup {"free"} : ~Has(q, w)
    BY <1>1, <1>3 DEF Worded, Placed, Has
  <1> QED
    BY <1>2, <1>3, <1>4 DEF Beginning

(* A standby and the end of the stream *)
LEMMA FreeBeginning ==
  ASSUME NEW o \in Closing, NEW p \in Seq(Dull(o)), Has(p, "check_standby"),
         NEW s, s = StreamOf(o), NEW z \in {<<>>, <<Release(LockInputs)>>}
  PROVE  Beginning(p \o (<<Do("free", s)>> \o z), o)
  <1> DEFINE d == Do("free", s)
             e == Release(LockInputs)
             q == <<d>> \o z
  <1>1. /\ d \in Steps /\ e \in Steps /\ d.do = "free" /\ e.do = "release"
        /\ Says(o, d) /\ Says(o, e)
        /\ {"free", "release"} \cap
             (Reliant \cup {"check_standby", "stop", "check_open", "open"}) = {}
    BY DEF Do, Release, LockInputs, Locks, Steps, Last, Inner, Streams, Says,
           Vocabulary, Opening, Closing, StreamOf, Reliant
  <1>2. /\ q \in Seq(Steps) /\ q[1] = d
        /\ \A i \in 1..Len(q) : q[i] \in {d, e}
    <2>1. CASE z = <<>>
      BY <1>1, <2>1
    <2>2. CASE z = <<e>>
      BY <1>1, <2>2
    <2> QED
      BY <2>1, <2>2
  <1> HIDE DEF d, e, q
  <1>3. \A i \in 1..Len(q) : Says(o, q[i]) /\ q[i].do \in {"free", "release"}
    BY <1>1, <1>2
  <1>4. Worded(q, o) /\ Placed(q)
    BY <1>1, <1>3 DEF Worded, Placed
  <1>5. \A w \in Reliant : ~Has(q, w)
    BY <1>1, <1>3 DEF Has
  <1>6. /\ p \in Seq(Steps) /\ Worded(p, o) /\ Placed(p)
        /\ \A w \in Reliant \cup {"check_open", "open", "free"} : ~Has(p, w)
    BY DullSteps
  <1>7. Placed(p \o q)
    BY <1>2, <1>4, <1>5, <1>6, CatPlaced
  <1>8. Beginning(p \o q, o)
    BY <1>2, <1>4, <1>5, <1>6, <1>7, Cat DEF Beginning
  <1> QED
    BY <1>8 DEF q, d

LEMMA StandbyChecks ==
  ASSUME NEW s \in Streams, NEW o, StreamOf(o) = s, "check_standby" \in Vocabulary(o)
  PROVE  Has(StandbyLocked(s), "check_standby")
  <1> DEFINE p == LockStream(s)
             q == <<Do("check_standby", s), Release(StreamLock(s))>>
  <1>1. p \in Seq(Steps)
    BY DullPieces, DullSteps
  <1>2. q \in Seq(Steps) /\ Len(q) = 2 /\ q[1].do = "check_standby"
    BY StreamRanks DEF Do, Release, Steps, Last, Inner
  <1>3. StandbyLocked(s) = p \o q
    BY DEF StandbyLocked
  <1> HIDE DEF p, q
  <1>4. Has(q, "check_standby")
    BY <1>2 DEF Has
  <1> QED
    BY <1>1, <1>2, <1>3, <1>4, Cat

LEMMA Begins == \A o \in EntryPoints : Beginning(Program(o), o)
  <1> SUFFICES ASSUME NEW o \in EntryPoints PROVE Beginning(Program(o), o)
    OBVIOUS
  <1> DEFINE s == StreamOf(o)
             D == Dull(o)
  <1>1. CASE o = "adev_set_mode"
    <2>1. Acquire(DeviceLock) \in D /\ Release(DeviceLock) \in D
      BY DullLocks, StreamRanks DEF Streams
    <2> HIDE DEF D
    <2>2. Program(o) \in Seq(D)
      BY <1>1, <2>1 DEF Program
    <2> QED
      BY <2>2, DullBeginning DEF D
  <1>2. CASE o \in {"out_write", "in_read"}
    <2> DEFINE w == IF o = "out_write" THEN "check_write" ELSE "check_read"
    <2>1. s \in Streams /\ w \in DullWords \cap Vocabulary(o)
      BY <1>2 DEF StreamOf, Streams, DullWords, Vocabulary, Opening, Closing
    <2>2. LockStream(s) \in Seq(D) /\ Do(w, s) \in D
      BY <2>1, DullPieces, DullWork
    <2>3. Program(o) = LockStream(s) \o <<Do(w, s)>>
      BY <1>2 DEF Program, StreamOf
    <2> HIDE DEF D, w, s
    <2>4. Program(o) \in Seq(D)
      BY <2>2, <2>3
    <2> QED
      BY <2>4, DullBeginning DEF D
  <1>3. CASE o \in {"out_standby", "in_standby", "out_set_parameters", "in_set_parameters"}
    <2>1. s \in Streams /\ {"check_standby", "route"} \subseteq Vocabulary(o)
      BY <1>3 DEF StreamOf, Streams, Vocabulary, Opening, Closing
    <2>2. Program(o) \in {Standby(s), SetParameters(s)}
      BY <1>3 DEF Program, StreamOf
    <2>3. Program(o) \in Seq(D)
      BY <2>1, <2>2, DullPieces
    <2> QED
      BY <2>3, DullBeginning
  <1>4. CASE o \in {"out_get_presentation_position", "in_get_capture_position"}
    <2>1. s \in Streams
      <3>1. CASE o = "out_get_presentation_position"
        BY <3>1 DEF StreamOf, Streams
      <3>2. CASE o = "in_get_capture_position"
        <4>1. StreamOf("in_get_capture_position") = "in"
          BY DEF StreamOf
        <4> QED
          BY <3>2, <4>1 DEF Streams
      <3> QED
        BY <1>4, <3>1, <3>2
    <2>2. /\ LockStream(s) \in Seq(D)
          /\ Acquire(StreamLock(s)) \in D /\ Release(StreamLock(s)) \in D
      <3>1. LockStream(s) \in Seq(D)
        BY <2>1, DullPieces
      <3>2. \A x \in Streams : StreamLock(x) \in Locks
        BY StreamRanks
      <3>3. StreamLock(s) \in Locks
        <4> HIDE DEF s, D
        <4> QED
          BY <2>1, <3>2, Zenon
      <3> QED
        BY <3>1, <3>3, DullLocks
    <2>3. Program(o) \in {LockStream(s) \o <<Release(StreamLock(s))>>,
                          <<Acquire(StreamLock(s)), Release(StreamLock(s))>>}
      BY <1>4 DEF Program, StreamOf
    <2> DEFINE a == Acquire(StreamLock(s))
               e == Release(StreamLock(s))
    <2>4. LockStream(s) \o <<e>> \in Seq(D) /\ <<a, e>> \in Seq(D)
      <3> HIDE DEF D, s, a, e
      <3> QED
        BY <2>2 DEF a, e
    <2>5. Program(o) \in Seq(D)
      BY <2>3, <2>4, Zenon
    <2> QED
      BY <2>5, DullBeginning
  <1>5. CASE o \in Closing
    <2>1. s \in Streams /\ "check_standby" \in Vocabulary(o)
      BY <1>5 DEF StreamOf, Streams, Vocabulary, Opening, Closing
    <2> DEFINE p == StandbyLocked(s)
               a == <<Acquire(LockInputs)>>
               f == <<Do("free", s)>>
               e == <<Release(LockInputs)>>
    <2>2. /\ p \in Seq(D) /\ Standby(s) \in Seq(D) /\ a \in Seq(D)
          /\ Has(p, "check_standby")
      <3>1. Acquire(LockInputs) \in D
        BY <2>1, DullLocks, StreamRanks
      <3>2. a \in Seq(D)
        BY <3>1
      <3> QED
        BY <2>1, <3>2, DullPieces, StandbyChecks
    <2>3. CASE o = "adev_close_output_stream"
      <3>1. Program(o) = p \o f
        BY <2>3 DEF Program, StreamOf, Standby
      <3>2. f \o <<>> = f
        BY DEF f
      <3> HIDE DEF p, f
      <3>3. Beginning(p \o (f \o <<>>), o)
        BY <1>5, <2>2, FreeBeginning DEF f
      <3> QED
        BY <3>1, <3>2, <3>3
    <2>4. CASE o = "adev_close_input_stream"
      <3>1. Program(o) = a \o p \o <<Do("free", s), Release(LockInputs)>>
        BY <2>4 DEF Program, StreamOf
      <3>2. <<Do("free", s), Release(LockInputs)>> = f \o e
        BY DEF f, e
      <3>3. a \in Seq(Steps) /\ p \in Seq(Steps)
        BY <2>2, DullSteps
      <3> HIDE DEF p, f, a, e, D
      <3>4. a \o p \in Seq(D)
        BY <2>2
      <3>5. Has(a \o p, "check_standby")
        BY <2>2, <3>3, Cat
      <3>6. Beginning((a \o p) \o (f \o e), o)
        BY <1>5, <3>4, <3>5, FreeBeginning DEF f, e, D
      <3> QED
        BY <3>1, <3>2, <3>6
    <2> QED
      BY <1>5, <2>3, <2>4 DEF Closing
  <1>6. CASE o \in Opening
    BY <1>6, OpenInputBeginning, OpenOutputBeginning DEF Opening
  <1> QED
    BY <1>1, <1>2, <1>3, <1>4, <1>5, <1>6 DEF EntryPoints, Closing, Opening

LEMMA BeginKept ==
  ASSUME IInv, SInv, NEW t \in Threads, NEW o \in EntryPoints, Begin(t, o)
  PROVE  SInv'
  <1> DEFINE s == StreamOf(o)
  <1>1. /\ entry \in [Threads -> EntryPoints \cup {"none"}]
        /\ todo \in [Threads -> Seq(Steps)]
        /\ \A u \in Threads : Informed(u) /\ Entitled(u)
        /\ \A x \in Streams : Kept(x)
        /\ s = "none" \/ s \in Streams
    BY Roles DEF SInv, StreamTypes, IInv, Typed
  <1>2. /\ todo[t] = <<>> /\ UNCHANGED <<owner, open, standby, entries>>
        /\ todo' = [todo EXCEPT ![t] = Program(o)] /\ entry' = [entry EXCEPT ![t] = o]
        /\ o \in Opening => s \notin open
        /\ o \notin Opening => s \in open \cup {"none"}
        /\ o \in Opening \cup Closing => Users(s) = {}
        /\ s # "none" => \A u \in Users(s) : entry[u] \notin Opening \cup Closing
    BY DEF Begin, Idle, flags, streams
  <1> HIDE DEF s
  <1>3. /\ todo'[t] = Program(o) /\ entry'[t] = o
        /\ \A u \in Threads : u # t => todo'[u] = todo[u] /\ entry'[u] = entry[u]
    BY <1>1, <1>2
  <1>4. StreamTypes'
    BY <1>2 DEF SInv, StreamTypes
  <1>5. Informed(t)'
    <2>1. Beginning(Program(o), o)
      BY Begins
    <2>2. {"stop", "started", "start_output", "start_input"} \subseteq Reliant
      BY DEF Reliant
    <2> QED
      BY <1>3, <2>1, <2>2 DEF Informed, Sure, Knows, Beginning
  <1>6. Entitled(t)'
    BY <1>2, <1>3 DEF Entitled, Users, s
  <1>7. ASSUME NEW u \in Threads, u # t PROVE Informed(u)' /\ Entitled(u)'
    <2>1. Informed(u) /\ Entitled(u)
      BY <1>1
    <2>2. Informed(u)'
      BY <1>2, <1>3, <1>7, <2>1 DEF Informed
    <2>3. ASSUME StreamOf(entry[u]) # "none", entry[u] \in Opening \cup Closing
          PROVE  StreamOf(entry'[t]) # StreamOf(entry[u])
      BY <1>2, <1>3, <2>3 DEF Users, s
    <2>4. Entitled(u)'
      BY <1>2, <1>3, <1>7, <2>1, <2>3 DEF Entitled
    <2> QED
      BY <2>2, <2>4
  <1>8. ASSUME NEW x \in Streams PROVE Kept(x)'
    <2>1. ~Has(todo[t], "started")
      BY <1>2 DEF Has
    <2>2. StreamLock(x) \in Locks
      BY StreamRanks
    <2>3. Starts(x) => Starts(x)'
      <3> SUFFICES ASSUME NEW w \in owner[StreamLock(x)],
                          StreamOf(entry[w]) = x, Has(todo[w], "started")
                   PROVE  Starts(x)'
        BY DEF Starts
      <3>1. w \in Threads /\ w # t
        BY <2>1, <2>2 DEF IInv, Typed
      <3> QED
        BY <1>2, <1>3, <3>1 DEF Starts
    <2> QED
      BY <1>1, <1>2, <2>3 DEF Kept
  <1> QED
    BY <1>4, <1>5, <1>6, <1>7, <1>8 DEF SInv

------------------------------------------------------------------------------
(* The thread at work *)
LEMMA Onward ==
  ASSUME NEW q \in Seq(Steps), q # <<>>, Placed(q), NEW o, Worded(q, o),
         NEW more \in Seq(Steps), Worded(more, o), Placed(more), ~Has(more, "free"),
         Head(q) \notin Between,
         Tail(q) = <<>> \/ (~Has(more, "check_open") /\ ~Has(more, "open"))
  PROVE  /\ Worded(more \o Tail(q), o) /\ Placed(more \o Tail(q))
         /\ \A w : Has(more \o Tail(q), w) <=> Has(more, w) \/ Has(Tail(q), w)
  <1>1. /\ Tail(q) \in Seq(Steps) /\ Placed(Tail(q)) /\ Worded(Tail(q), o)
        /\ \A w \in Reliant : ~Has(Tail(q), w)
    BY Remaining
  <1> QED
    BY <1>1, Cat, CatPlaced

LEMMA Here ==
  ASSUME IInv, SInv, NEW t \in Threads, ~Idle(t),
         NEW o, o = entry[t], NEW s, s = StreamOf(o), NEW d, d = Head(todo[t])
  PROVE  /\ todo[t] \in Seq(Steps) /\ todo[t] # <<>>
         /\ o \in EntryPoints \cup {"none"}
         /\ Sure(todo[t], o, t \in owner[StreamLock(s)], s \in standby, entries[s])
         /\ d \in Steps /\ Says(o, d) /\ Allowed(Holds(t), d) /\ Has(todo[t], d.do)
         /\ d.do \notin {"acquire", "release"} =>
              /\ d \notin Between /\ d.do \in Vocabulary(o) /\ d.stream = s
              /\ s \in Streams /\ StreamLock(s) \in Locks /\ Kept(s)
              /\ o \in Opening => s \notin open
              /\ o \notin Opening \cup Closing => s \in open
  <1>1. /\ todo[t] \in Seq(Steps) /\ todo[t] # <<>>
        /\ o \in EntryPoints \cup {"none"}
        /\ Informed(t) /\ Entitled(t)
    BY DEF IInv, Typed, SInv, StreamTypes, Idle
  <1>2. Sure(todo[t], o, t \in owner[StreamLock(s)], s \in standby, entries[s])
    BY <1>1 DEF Informed
  <1>3. d \in Steps /\ Says(o, d) /\ Has(todo[t], d.do)
    BY <1>1, <1>2, Remaining DEF Sure
  <1>4. Allowed(Holds(t), d)
    BY AboutTo
  <1>5. ASSUME d.do \notin {"acquire", "release"}
        PROVE  /\ d \notin Between /\ d.do \in Vocabulary(o) /\ d.stream = s
               /\ s \in Streams /\ StreamLock(s) \in Locks /\ Kept(s)
    <2>1. d.do \in Vocabulary(o) /\ d.stream = s
      BY <1>3, <1>5 DEF Says
    <2>2. s \in Streams
      BY <1>1, <1>2, <1>3, <1>5, Words DEF Sure
    <2>3. d \notin Between
      BY <1>5 DEF Between, Acquire, Release
    <2> QED
      BY <2>1, <2>2, <2>3, StreamRanks DEF SInv
  <1>6. ASSUME s \in Streams
        PROVE  /\ o \in Opening => s \notin open
               /\ o \notin Opening \cup Closing => s \in open
    BY <1>1, <1>6, Roles DEF Entitled
  <1> QED
    BY <1>1, <1>2, <1>3, <1>4, <1>5, <1>6

(* Work on a stream: what the thread goes on with agrees with what it did. *)
LEMMA Resumed ==
  ASSUME IInv, SInv, NEW t \in Threads, ~Idle(t), UNCHANGED owner, StreamTypes',
         NEW o, o = entry[t], NEW s, s = StreamOf(o),
         Head(todo[t]).do \notin {"acquire", "release"},
         NEW more \in Seq(Steps), Continue(t, more), ~Has(more, "free"),
         Sure(more, o, t \in owner[StreamLock(s)], s \in standby', entries'[s]),
         Tail(todo[t]) = <<>> \/ (~Has(more, "check_open") /\ ~Has(more, "open")),
         o \in Closing => s \in standby' \/ Has(more, "stop"),
         \A x \in Streams : x # s =>
           /\ x \in standby' <=> x \in standby
           /\ x \in open' <=> x \in open
           /\ entries'[x] = entries[x],
         \/ UNCHANGED flags
         \/ t \in owner[StreamLock(s)] /\ open' = open
         \/ o \in Opening \cup Closing,
         o \in Opening => more \o Tail(todo[t]) = <<>> \/ s \notin open',
         o \notin Opening \cup Closing => s \in open',
         s \notin open' => s \in standby',
         \/ s \notin standby' /\ entries'[s] = 1
         \/ s \in standby' /\ entries'[s] = 0
         \/ s \in standby' /\ entries'[s] = 1 /\ Has(more, "started")
  PROVE  SInv'
  <1> DEFINE q == todo[t]
             r == more \o Tail(q)
  <1>1. /\ q \in Seq(Steps) /\ q # <<>> /\ Head(q) \notin Between /\ s \in Streams
        /\ Worded(q, o) /\ Placed(q) /\ o \in EntryPoints \cup {"none"}
    BY Here DEF Sure
  <1>2. Worded(more, o) /\ Placed(more)
    BY DEF Sure
  <1> HIDE DEF q
  <1>3. /\ Worded(r, o) /\ Placed(r)
        /\ \A w : Has(r, w) <=> Has(more, w) \/ Has(Tail(q), w)
    BY <1>1, <1>2, Onward DEF q
  <1>4. \A w \in Reliant : ~Has(Tail(q), w)
    BY <1>1, Remaining
  <1>5. o \notin Closing => ~Has(r, "free")
    <2>1. o \notin Closing => "free" \notin Vocabulary(o)
      BY DEF Vocabulary
    <2> QED
      BY <1>1, <1>3, <2>1, Words
  <1> HIDE DEF r
  <1>6. Sure(r, o, t \in owner[StreamLock(s)], s \in standby', entries'[s])
    BY <1>3, <1>4, <1>5 DEF Sure, Knows, Reliant
  <1>7. /\ entry \in [Threads -> EntryPoints \cup {"none"}]
        /\ todo \in [Threads -> Seq(Steps)]
    BY DEF SInv, StreamTypes, IInv, Typed
  <1>8. Kept(s)'
    <2>1. CASE s \in standby' /\ entries'[s] = 1 /\ Has(more, "started")
      <3>1. Has(r, "started") /\ t \in owner[StreamLock(s)]
        BY <1>3, <2>1 DEF Sure, Knows
      <3>2. r # <<>>
        BY <3>1 DEF Has
      <3>3. todo'[t] = r /\ entry'[t] = o
        BY <1>7, <3>2 DEF Continue, r, q
      <3>4. Starts(s)'
        BY <3>1, <3>3 DEF Starts
      <3> QED
        BY <2>1, <3>4 DEF Kept
    <2> QED
      BY <2>1 DEF Kept
  <1> QED
    BY <1>1, <1>6, <1>8, Stepped, Roles, ZenonT(60) DEF r, q

(* A thread that takes or releases a lock, and does not release its stream   *)
(* while it relies on what it saw.                                           *)
LEMMA Locked ==
  ASSUME IInv, SInv, NEW t \in Threads, ~Idle(t), Continue(t, <<>>), UNCHANGED flags,
         NEW s, s = StreamOf(entry[t]), Head(todo[t]).do \in {"acquire", "release"},
         \A u \in Threads : u # t =>
           \A x \in Streams : u \in owner[StreamLock(x)] => u \in owner'[StreamLock(x)],
         \/ Head(todo[t]) \notin Between
         \/ t \in owner[StreamLock(s)] => t \in owner'[StreamLock(s)]
         \/ s \notin Streams
  PROVE  SInv'
  <1> DEFINE q == todo[t]
             r == <<>> \o Tail(q)
             o == entry[t]
  <1>1. /\ q \in Seq(Steps) /\ q # <<>> /\ o \in EntryPoints \cup {"none"}
        /\ Worded(q, o) /\ Placed(q)
        /\ Knows(q, o, t \in owner[StreamLock(s)], s \in standby, entries[s])
    BY Here DEF Sure
  <1>2. StreamTypes' /\ open' = open /\ standby' = standby /\ entries' = entries
    <2>1. /\ entry \in [Threads -> EntryPoints \cup {"none"}]
          /\ open \subseteq Streams /\ standby \subseteq Streams
          /\ entries \in [Streams -> Int]
      BY DEF SInv, StreamTypes
    <2>2. entry' \in [Threads -> EntryPoints \cup {"none"}]
      BY <2>1 DEF Continue
    <2> QED
      BY <2>1, <2>2 DEF StreamTypes, flags, streams
  <1>3. \A u \in Threads : u # t => entry'[u] = entry[u] /\ todo'[u] = todo[u]
    BY DEF Continue, SInv, StreamTypes, IInv, Typed
  <1>4. todo'[t] = r /\ (r # <<>> => entry'[t] = o)
    BY DEF Continue, SInv, StreamTypes, IInv, Typed
  <1> HIDE DEF q
  <1>5. /\ Worded(r, o) /\ Placed(r)
        /\ \A w : w \notin {"acquire", "release"} => (Has(q, w) <=> Has(r, w))
        /\ Head(q) \notin Between => \A w \in Reliant : ~Has(q, w)
    <2>1. r = Tail(q)
      <3>1. Tail(q) \in Seq(Steps)
        BY <1>1, Remaining
      <3> QED
        BY <3>1
    <2>2. {"acquire", "release"} \cap Reliant = {}
      BY DEF Reliant
    <2> HIDE DEF r
    <2> QED
      BY <1>1, <2>1, <2>2, Remaining DEF q
  <1> HIDE DEF r
  <1>6. s \notin Streams => \A w : Has(q, w) => w \in {"acquire", "release"}
    BY <1>1, Words
  <1>7. Knows(r, o, t \in owner'[StreamLock(s)], s \in standby', entries'[s])
    BY <1>1, <1>2, <1>5, <1>6 DEF Knows, Reliant, q
  <1>8. ASSUME s \in Streams PROVE Kept(s)'
    <2>1. Kept(s) /\ StreamLock(s) \in Locks
      BY <1>8, StreamRanks DEF SInv
    <2>2. Starts(s) => Starts(s)'
      <3> SUFFICES ASSUME NEW w \in owner[StreamLock(s)], StreamOf(entry[w]) = s,
                          Has(todo[w], "started")
                   PROVE  Starts(s)'
        BY DEF Starts
      <3>1. w \in Threads
        BY <2>1 DEF IInv, Typed
      <3>2. CASE w # t
        <4>1. w \in owner'[StreamLock(s)] /\ entry'[w] = entry[w] /\ todo'[w] = todo[w]
          BY <1>3, <1>8, <3>1, <3>2
        <4> QED
          BY <4>1 DEF Starts
      <3>3. CASE w = t
        <4>1. Has(r, "started")
          BY <1>5, <3>3 DEF q
        <4>2. t \in owner'[StreamLock(s)] /\ r # <<>>
          BY <1>7, <4>1 DEF Knows, Has
        <4> QED
          BY <1>4, <4>1, <4>2 DEF Starts
      <3> QED
        BY <3>2, <3>3
    <2> QED
      BY <1>2, <2>1, <2>2 DEF Kept
  <1>9. /\ r # <<>> =>
             Sure(r, o, t \in owner'[StreamLock(s)], s \in standby', entries'[s])
        /\ o \in Opening => s \notin open'
        /\ o \notin Opening \cup Closing /\ s # "none" => s \in open'
    <2>1. Entitled(t) /\ "none" \notin Streams
      BY Roles DEF SInv
    <2>2. o \in Opening => s # "none"
      BY <1>1, Roles
    <2> QED
      BY <1>2, <1>5, <1>7, <2>1, <2>2 DEF Entitled, Sure
  <1>10. r = <<>> \o Tail(todo[t])
    BY DEF r, q
  <1> QED
    BY <1>2, <1>8, <1>9, <1>10, Stepped, ZenonT(60)

LEMMA AcquireKept ==
  ASSUME IInv, SInv, NEW t \in Threads, NEW l \in Locks, AcquireLock(t, l)
  PROVE  SInv'
  <1>1. /\ ~Idle(t) /\ Head(todo[t]).do = "acquire" /\ Head(todo[t]).lock = l
        /\ owner[l] = {} /\ owner' = [owner EXCEPT ![l] = {t}] /\ Continue(t, <<>>)
        /\ owner \in [Locks -> SUBSET Threads] /\ UNCHANGED flags
    BY DEF AcquireLock, At, IInv, Typed, flags, streams
  <1>2. \A k \in Locks, u \in Threads : u \in owner[k] => u \in owner'[k]
    BY <1>1
  <1>3. \A x \in Streams : StreamLock(x) \in Locks
    BY StreamRanks
  <1> QED
    BY <1>1, <1>2, <1>3, Locked

LEMMA ReleaseKept ==
  ASSUME IInv, SInv, NEW t \in Threads, ReleaseLock(t)
  PROVE  SInv'
  <1> DEFINE d == Head(todo[t])
             s == StreamOf(entry[t])
  <1>1. /\ ~Idle(t) /\ d.do = "release" /\ Continue(t, <<>>)
        /\ owner' = [owner EXCEPT ![d.lock] = {}]
        /\ owner \in [Locks -> SUBSET Threads] /\ Exclusive /\ UNCHANGED flags
    BY DEF ReleaseLock, At, IInv, Typed, flags, streams
  <1>2. d.lock \in Holds(t)
    BY <1>1, AboutTo DEF Allowed
  <1> HIDE DEF d, s
  <1>3. d.lock \in Locks /\ owner[d.lock] = {t}
    BY <1>1, <1>2 DEF Holds, Exclusive
  <1>4. \A k \in Locks, u \in Threads :
          u \in owner[k] /\ (u # t \/ k # d.lock) => u \in owner'[k]
    BY <1>1, <1>3
  <1>5. \A x \in Streams : StreamLock(x) \in Locks
    BY StreamRanks
  <1>6. s \in Streams /\ d.lock = StreamLock(s) => d \notin Between
    BY <1>1, StreamRanks DEF Between, Acquire, Release
  <1> QED
    BY <1>1, <1>4, <1>5, <1>6, Locked DEF d, s

LEMMA DullSure ==
  ASSUME NEW o, NEW q \in Seq(Dull(o))
  PROVE  /\ \A holds, idle, n : Sure(q, o, holds, idle, n)
         /\ q \in Seq(Steps)
         /\ ~Has(q, "free") /\ ~Has(q, "check_open") /\ ~Has(q, "open")
  BY DullSteps DEF Sure, Knows, Reliant

(* Who works on a stream has it locked or to itself, and finds the flag and  *)
(* the usecase in agreement.                                                 *)
LEMMA Firm ==
  ASSUME IInv, SInv, NEW t \in Threads, ~Idle(t),
         NEW o, o = entry[t], NEW s, s = StreamOf(o), NEW d, d = Head(todo[t]),
         d.do \notin {"acquire", "release"}
  PROVE  /\ \/ t \in owner[StreamLock(s)]
            \/ o \in Opening \cup Closing /\ d.do \in {"check_open", "open", "free"}
         /\ d.do # "started" => \/ s \notin standby /\ entries[s] = 1
                                \/ s \in standby /\ entries[s] = 0
  <1>1. /\ todo[t] \in Seq(Steps) /\ todo[t] # <<>>
        /\ o \in EntryPoints \cup {"none"} /\ Placed(todo[t])
        /\ d \in Steps /\ Allowed(Holds(t), d) /\ d \notin Between
        /\ d.do \in Vocabulary(o) /\ d.stream = s
        /\ s \in Streams /\ StreamLock(s) \in Locks /\ Kept(s)
        /\ Knows(todo[t], o, t \in owner[StreamLock(s)], s \in standby, entries[s])
        /\ Has(todo[t], d.do)
    BY Here DEF Sure
  <1>2. /\ d.do \in {"check_open", "open"} => o \in Opening
        /\ d.do = "free" => o \in Closing
        /\ d.do \in {"check_write", "start_output"} => s = "out"
        /\ d.do \in {"check_read", "recheck_read", "start_input"} => s = "in"
    BY <1>1 DEF Vocabulary
  <1>3. StreamLock(s) \in Holds(t) => t \in owner[StreamLock(s)]
    BY DEF Holds
  <1>4. t \in owner[StreamLock(s)] \/ d.do \in {"check_open", "open", "free"}
    <2>1. CASE d.do \in {"stop", "started"}
      BY <1>1, <2>1 DEF Knows
    <2>2. CASE d.do \in {"check_write", "start_output", "check_read", "recheck_read",
                         "start_input", "transfer", "check_standby", "route"}
      BY <1>1, <1>2, <1>3, <2>2 DEF Allowed
    <2>3. \/ d.do \in {"stop", "started"} \/ d.do \in {"check_open", "open", "free"}
          \/ d.do \in {"check_write", "start_output", "check_read", "recheck_read",
                       "start_input", "transfer", "check_standby", "route"}
      BY <1>1 DEF Vocabulary
    <2> QED
      BY <2>1, <2>2, <2>3
  <1>5. ASSUME Starts(s) PROVE d.do = "started"
    <2>1. PICK w \in owner[StreamLock(s)] :
            StreamOf(entry[w]) = s /\ Has(todo[w], "started")
      BY <1>5 DEF Starts
    <2>2. w \in Threads /\ Entitled(t) /\ s # "none"
      BY <1>1, Roles DEF IInv, Typed, SInv
    <2>3. w = t
      <3>1. CASE t \in owner[StreamLock(s)]
        BY <1>1, <3>1 DEF IInv, Exclusive
      <3>2. CASE o \in Opening \cup Closing
        BY <2>1, <2>2, <3>2 DEF Entitled
      <3> QED
        BY <1>2, <1>4, <3>1, <3>2
    <2>4. ~Has(Tail(todo[t]), "started")
      BY <1>1, Remaining DEF Reliant
    <2> QED
      BY <1>1, <2>1, <2>3, <2>4, Remaining
  <1> QED
    BY <1>1, <1>2, <1>4, <1>5 DEF Kept

(* Work that leaves the stream as it is *)
LEMMA GoesOn ==
  ASSUME IInv, SInv, NEW t \in Threads, ~Idle(t), UNCHANGED <<owner, flags>>,
         NEW o, o = entry[t], NEW s, s = StreamOf(o),
         NEW more \in Seq(Steps), Continue(t, more),
         Head(todo[t]).do \notin {"acquire", "release", "started"},
         ~Has(more, "free"),
         Sure(more, o, t \in owner[StreamLock(s)], s \in standby, entries[s]),
         Tail(todo[t]) = <<>> \/ (~Has(more, "check_open") /\ ~Has(more, "open")),
         o \in Closing => s \in standby \/ Has(more, "stop")
  PROVE  SInv'
  <1>1. /\ o \in Opening => s \notin open
        /\ o \notin Opening \cup Closing => s \in open
        /\ s \notin open => s \in standby
    BY Here DEF Kept
  <1>2. /\ open' = open /\ standby' = standby /\ entries' = entries /\ owner' = owner
        /\ StreamTypes'
    BY DEF flags, streams, SInv, StreamTypes, Continue
  <1>3. \/ s \notin standby /\ entries[s] = 1
        \/ s \in standby /\ entries[s] = 0
    BY Firm
  <1> QED
    BY <1>1, <1>2, <1>3, Resumed, ZenonT(60)

(* What goes on and does rely on the stream *)
LEMMA ToStart ==
  ASSUME NEW o, NEW w \in {"start_output", "start_input"}, w \in Vocabulary(o),
         NEW s \in Streams, s = StreamOf(o)
  PROVE  LET q == <<Acquire(DeviceLock), Do(w, s)>>
         IN  /\ q \in Seq(Steps) /\ Worded(q, o) /\ Placed(q)
             /\ \A v : Has(q, v) <=> v \in {"acquire", w}
  <1> DEFINE a == Acquire(DeviceLock)
             d == Do(w, s)
             q == <<a, d>>
  <1>1. /\ a \in Steps /\ d \in Steps /\ a.do = "acquire" /\ d.do = w /\ a \in Between
        /\ Says(o, a) /\ Says(o, d)
        /\ w \notin {"acquire", "check_open", "open", "free"}
        /\ {"acquire"} \cap (Reliant \cup {"check_open", "open", "free"}) = {}
    BY StreamRanks DEF Do, Acquire, Steps, Last, Says, Reliant, Between
  <1> HIDE DEF a, d
  <1>2. q \in Seq(Steps) /\ Len(q) = 2 /\ q[1] = a /\ q[2] = d
    BY <1>1
  <1> HIDE DEF q
  <1>3. Worded(q, o)
    BY <1>1, <1>2 DEF Worded
  <1>4. Placed(q)
    BY <1>1, <1>2 DEF Placed
  <1>5. \A v : Has(q, v) <=> v \in {"acquire", w}
    BY <1>1, <1>2 DEF Has
  <1> QED
    BY <1>2, <1>3, <1>4, <1>5 DEF q, a, d

LEMMA ToStop ==
  ASSUME NEW o, "stop" \in Vocabulary(o), NEW s \in Streams, s = StreamOf(o)
  PROVE  LET q == <<Acquire(DeviceLock), Do("stop", s), Release(DeviceLock)>>
         IN  /\ q \in Seq(Steps) /\ Worded(q, o) /\ Placed(q)
             /\ \A v : Has(q, v) <=> v \in {"acquire", "stop", "release"}
  <1> DEFINE a == Acquire(DeviceLock)
             d == Do("stop", s)
             e == Release(DeviceLock)
             q == <<a, d, e>>
  <1>1. /\ a \in Steps /\ d \in Steps /\ e \in Steps
        /\ a.do = "acquire" /\ d.do = "stop" /\ e.do = "release" /\ a \in Between
        /\ Says(o, a) /\ Says(o, d) /\ Says(o, e)
        /\ {"acquire", "release"} \cap (Reliant \cup {"check_open", "open", "free"}) = {}
    BY StreamRanks DEF Do, Acquire, Release, Steps, Inner, Says, Reliant, Between
  <1> HIDE DEF a, d, e
  <1>2. q \in Seq(Steps) /\ Len(q) = 3 /\ q[1] = a /\ q[2] = d /\ q[3] = e
    BY <1>1
  <1> HIDE DEF q
  <1>3. Worded(q, o)
    BY <1>1, <1>2 DEF Worded
  <1>4. Placed(q)
    BY <1>1, <1>2 DEF Placed
  <1>5. \A v : Has(q, v) <=> v \in {"acquire", "stop", "release"}
    BY <1>1, <1>2 DEF Has
  <1> QED
    BY <1>2, <1>3, <1>4, <1>5 DEF q, a, d, e

LEMMA ToFinishStart ==
  ASSUME NEW o, {"started", "transfer"} \subseteq Vocabulary(o), StreamOf(o) = "in"
  PROVE  LET q == <<Release(DeviceLock), Release(LockInputs),
                    Do("started", "in"), Do("transfer", "in")>>
         IN  /\ q \in Seq(Steps) /\ Worded(q, o) /\ Placed(q)
             /\ \A v : Has(q, v) <=> v \in {"release", "started", "transfer"}
  <1> DEFINE a == Release(DeviceLock)
             b == Release(LockInputs)
             d == Do("started", "in")
             e == Do("transfer", "in")
             q == <<a, b, d, e>>
  <1>1. /\ a \in Steps /\ b \in Steps /\ d \in Steps /\ e \in Steps
        /\ a.do = "release" /\ b.do = "release" /\ d.do = "started" /\ e.do = "transfer"
        /\ a \in Between /\ b \in Between
        /\ Says(o, a) /\ Says(o, b) /\ Says(o, d) /\ Says(o, e)
        /\ {"release", "transfer"} \cap (Reliant \cup {"check_open", "open", "free"}) = {}
    <2>1. "in" \in Streams
      BY DEF Streams
    <2> QED
      BY <2>1, StreamRanks
         DEF Do, Release, Steps, Inner, Last, Says, Reliant, Between
  <1> HIDE DEF a, b, d, e
  <1>2. /\ q \in Seq(Steps) /\ Len(q) = 4
        /\ q[1] = a /\ q[2] = b /\ q[3] = d /\ q[4] = e
    BY <1>1
  <1> HIDE DEF q
  <1>3. Worded(q, o)
    BY <1>1, <1>2 DEF Worded
  <1>4. Placed(q)
    <2> SUFFICES ASSUME NEW j \in 1..4
                 PROVE  /\ q[j].do \in Reliant => \A i \in 1..j - 1 : q[i] \in Between
                        /\ q[j].do \notin {"check_open", "open", "free"}
      BY <1>2 DEF Placed
    <2> QED
      BY <1>1, <1>2 DEF Reliant
  <1>5. \A v : Has(q, v) <=> v \in {"release", "started", "transfer"}
    BY <1>1, <1>2 DEF Has
  <1> QED
    BY <1>2, <1>3, <1>4, <1>5 DEF q, a, b, d, e

------------------------------------------------------------------------------
(* Every step *)

(* What the words of the text say of the operation they are in *)
LEMMA Speaks ==
  ASSUME NEW o \in EntryPoints \cup {"none"}
  PROVE  /\ {"check_write", "start_output"} \cap Vocabulary(o) # {} =>
              /\ StreamOf(o) = "out" /\ o \notin Opening \cup Closing
              /\ {"start_output", "transfer", "check_standby"} \subseteq Vocabulary(o)
         /\ {"check_read", "recheck_read", "start_input"} \cap Vocabulary(o) # {} =>
              /\ StreamOf(o) = "in" /\ o \notin Opening \cup Closing
              /\ {"recheck_read", "start_input", "started", "transfer",
                  "check_standby"} \subseteq Vocabulary(o)
         /\ {"transfer", "route", "started"} \cap Vocabulary(o) # {} =>
              /\ o \notin Opening \cup Closing
              /\ "check_standby" \in Vocabulary(o)
         /\ {"check_standby", "stop"} \cap Vocabulary(o) # {} =>
              o \notin Opening /\ "stop" \in Vocabulary(o)
         /\ {"check_open", "open"} \cap Vocabulary(o) # {} => o \in Opening
         /\ "free" \in Vocabulary(o) => o \in Closing
         /\ Opening \cap Closing = {}
  <1>1. Opening \cap Closing = {}
    BY DEF Opening, Closing
  <1> QED
    BY <1>1 DEF Vocabulary

LEMMA CheckWriteKept ==
  ASSUME IInv, SInv, NEW t \in Threads, CheckWrite(t) PROVE SInv'
  <1> DEFINE o == entry[t]
             s == StreamOf(o)
  <1>1. /\ ~Idle(t) /\ Head(todo[t]).do = "check_write" /\ UNCHANGED <<owner, flags>>
    BY DEF CheckWrite, At, flags, streams
  <1>2. /\ s = "out" /\ s \in Streams /\ o \notin Opening \cup Closing
        /\ {"start_output", "transfer", "check_standby"} \subseteq Vocabulary(o)
    BY <1>1, Here, Speaks
  <1>3. /\ t \in owner[StreamLock(s)]
        /\ \/ s \notin standby /\ entries[s] = 1
           \/ s \in standby /\ entries[s] = 0
    BY <1>1, Firm
  <1>4. CASE "out" \in standby
    <2> DEFINE more == <<Acquire(DeviceLock), Do("start_output", s)>>
    <2>1. Continue(t, more)
      BY <1>2, <1>4 DEF CheckWrite
    <2>2. /\ more \in Seq(Steps) /\ Worded(more, o) /\ Placed(more)
          /\ \A v : Has(more, v) <=> v \in {"acquire", "start_output"}
      BY <1>2, ToStart
    <2> HIDE DEF more, s, o
    <2>3. Sure(more, o, t \in owner[StreamLock(s)], s \in standby, entries[s])
      BY <1>2, <1>3, <1>4, <2>2 DEF Sure, Knows
    <2> QED
      BY <1>1, <1>2, <2>1, <2>2, <2>3, GoesOn DEF s, o
  <1>5. CASE "out" \notin standby
    <2> DEFINE more == <<Do("transfer", s)>>
    <2>1. Continue(t, more)
      BY <1>2, <1>5 DEF CheckWrite
    <2>2. Do("transfer", s) \in Dull(o)
      BY <1>2, DullWork DEF DullWords
    <2>3. more \in Seq(Dull(o))
      BY <2>2
    <2> HIDE DEF more
    <2> QED
      BY <1>1, <1>2, <2>1, <2>3, DullSure, GoesOn
  <1> QED
    BY <1>4, <1>5

LEMMA CheckReadKept ==
  ASSUME IInv, SInv, NEW t \in Threads, CheckRead(t) PROVE SInv'
  <1> DEFINE o == entry[t]
             s == StreamOf(o)
             D == Dull(o)
  <1>1. /\ ~Idle(t) /\ Head(todo[t]).do = "check_read" /\ UNCHANGED <<owner, flags>>
    BY DEF CheckRead, At, flags, streams
  <1>2. /\ s = "in" /\ s \in Streams /\ o \notin Opening \cup Closing
        /\ {"recheck_read", "transfer"} \subseteq Vocabulary(o)
    BY <1>1, Here, Speaks
  <1>3. /\ LockStream(s) \in Seq(D)
        /\ Do("recheck_read", s) \in D /\ Do("transfer", s) \in D
        /\ Release(StreamLock(s)) \in D /\ Acquire(LockInputs) \in D
    <2>1. StreamLock(s) \in Locks /\ LockInputs \in Locks
      BY <1>2, StreamRanks
    <2> QED
      BY <1>2, <2>1, DullLocks, DullPieces, DullWork DEF DullWords
  <1>4. PICK more \in Seq(D) : Continue(t, more)
    <2> DEFINE p == <<Release(StreamLock(s)), Acquire(LockInputs)>>
                      \o LockStream(s) \o <<Do("recheck_read", s)>>
               z == <<Do("transfer", s)>>
    <2>1. Continue(t, p) \/ Continue(t, z)
      BY <1>2 DEF CheckRead
    <2> HIDE DEF D, s
    <2>2. p \in Seq(D) /\ z \in Seq(D)
      BY <1>3
    <2> QED
      BY <2>1, <2>2
  <1> QED
    BY <1>1, <1>2, <1>4, DullSure, GoesOn

LEMMA RecheckReadKept ==
  ASSUME IInv, SInv, NEW t \in Threads, RecheckRead(t) PROVE SInv'
  <1> DEFINE o == entry[t]
             s == StreamOf(o)
             D == Dull(o)
  <1>1. /\ ~Idle(t) /\ Head(todo[t]).do = "recheck_read" /\ UNCHANGED <<owner, flags>>
    BY DEF RecheckRead, At, flags, streams
  <1>2. /\ s = "in" /\ s \in Streams /\ o \notin Opening \cup Closing
        /\ {"start_input", "transfer"} \subseteq Vocabulary(o)
    BY <1>1, Here, Speaks
  <1>3. /\ t \in owner[StreamLock(s)]
        /\ \/ s \notin standby /\ entries[s] = 1
           \/ s \in standby /\ entries[s] = 0
    BY <1>1, Firm
  <1>4. CASE "in" \in standby
    <2> DEFINE more == <<Acquire(DeviceLock), Do("start_input", s)>>
    <2>1. Continue(t, more)
      BY <1>2, <1>4 DEF RecheckRead
    <2>2. /\ more \in Seq(Steps) /\ Worded(more, o) /\ Placed(more)
          /\ \A v : Has(more, v) <=> v \in {"acquire", "start_input"}
      BY <1>2, ToStart
    <2> HIDE DEF more, s, o
    <2>3. Sure(more, o, t \in owner[StreamLock(s)], s \in standby, entries[s])
      BY <1>2, <1>3, <1>4, <2>2 DEF Sure, Knows
    <2> QED
      BY <1>1, <1>2, <2>1, <2>2, <2>3, GoesOn DEF s, o
  <1>5. CASE "in" \notin standby
    <2> DEFINE more == <<Release(LockInputs), Do("transfer", s)>>
    <2>1. Continue(t, more)
      BY <1>2, <1>5 DEF RecheckRead
    <2>2. Release(LockInputs) \in D /\ Do("transfer", s) \in D
      BY <1>2, DullWork, DullLocks, StreamRanks DEF DullWords
    <2> HIDE DEF D
    <2>3. more \in Seq(D)
      BY <2>2
    <2> HIDE DEF more
    <2> QED
      BY <1>1, <1>2, <2>1, <2>3, DullSure, GoesOn DEF D
  <1> QED
    BY <1>4, <1>5

LEMMA TransferKept ==
  ASSUME IInv, SInv, NEW t \in Threads, Transfer(t) PROVE SInv'
  <1> DEFINE o == entry[t]
             s == StreamOf(o)
             D == Dull(o)
  <1>1. /\ ~Idle(t) /\ Head(todo[t]).do = "transfer" /\ UNCHANGED <<owner, flags>>
    BY DEF Transfer, At, flags, streams
  <1>2. /\ s \in Streams /\ Stream(t) = s /\ o \notin Opening \cup Closing
        /\ "check_standby" \in Vocabulary(o)
    BY <1>1, Here, Speaks DEF Stream
  <1>3. Standby(s) \in Seq(D) /\ Release(StreamLock(s)) \in D
    <2>1. StreamLock(s) \in Locks
      BY <1>2, StreamRanks
    <2> QED
      BY <1>2, <2>1, DullLocks, DullPieces
  <1>4. PICK more \in Seq(D) : Continue(t, more)
    <2> DEFINE p == <<Release(StreamLock(s))>>
               z == <<Release(StreamLock(s))>> \o Standby(s)
    <2>1. Continue(t, p) \/ Continue(t, z)
      BY <1>2 DEF Transfer
    <2> HIDE DEF D, s
    <2>2. p \in Seq(D) /\ z \in Seq(D)
      BY <1>3
    <2> QED
      BY <2>1, <2>2
  <1> QED
    BY <1>1, <1>2, <1>4, DullSure, GoesOn

LEMMA CheckStandbyKept ==
  ASSUME IInv, SInv, NEW t \in Threads, CheckStandby(t) PROVE SInv'
  <1> DEFINE o == entry[t]
             s == StreamOf(o)
  <1>1. /\ ~Idle(t) /\ Head(todo[t]).do = "check_standby" /\ UNCHANGED <<owner, flags>>
    BY DEF CheckStandby, At, flags, streams
  <1>2. /\ s \in Streams /\ Stream(t) = s /\ "stop" \in Vocabulary(o)
    BY <1>1, Here, Speaks DEF Stream
  <1>3. t \in owner[StreamLock(s)]
    BY <1>1, Firm
  <1>4. CASE s \in standby
    <2>1. Continue(t, <<>>) /\ <<>> \in Seq(Steps) /\ \A w : ~Has(<<>>, w)
      BY <1>2, <1>4 DEF CheckStandby, Has
    <2> QED
      BY <1>1, <1>4, <2>1, NothingToDo, GoesOn
  <1>5. CASE s \notin standby
    <2> DEFINE more == <<Acquire(DeviceLock), Do("stop", s), Release(DeviceLock)>>
    <2>1. Continue(t, more)
      BY <1>2, <1>5 DEF CheckStandby
    <2>2. /\ more \in Seq(Steps) /\ Worded(more, o) /\ Placed(more)
          /\ \A v : Has(more, v) <=> v \in {"acquire", "stop", "release"}
      BY <1>2, ToStop
    <2> HIDE DEF more, s, o
    <2>3. Sure(more, o, t \in owner[StreamLock(s)], s \in standby, entries[s])
      BY <1>2, <1>3, <1>5, <2>2 DEF Sure, Knows
    <2> QED
      BY <1>1, <1>2, <2>1, <2>2, <2>3, GoesOn DEF s, o
  <1> QED
    BY <1>4, <1>5

(* A stream that changes: it is the thread's own. *)
LEMMA Own ==
  ASSUME SInv, NEW s \in Streams, NEW t \in Threads, NEW more, Continue(t, more),
         standby' \in {standby, standby \cup {s}, standby \ {s}},
         open' \in {open, open \cup {s}, open \ {s}},
         entries' \in {entries, [entries EXCEPT ![s] = @ + 1],
                      [entries EXCEPT ![s] = @ - 1]}
  PROVE  /\ StreamTypes'
         /\ \A x \in Streams : x # s =>
              /\ x \in standby' <=> x \in standby
              /\ x \in open' <=> x \in open
              /\ entries'[x] = entries[x]
  <1>1. /\ entry \in [Threads -> EntryPoints \cup {"none"}]
        /\ open \subseteq Streams /\ standby \subseteq Streams
        /\ entries \in [Streams -> Int]
    BY DEF SInv, StreamTypes
  <1>2. entry' \in [Threads -> EntryPoints \cup {"none"}]
    BY <1>1 DEF Continue
  <1>3. /\ standby' \subseteq Streams /\ open' \subseteq Streams
        /\ \A x \in Streams : x # s =>
             (x \in standby' <=> x \in standby) /\ (x \in open' <=> x \in open)
    BY <1>1
  <1>4. /\ entries' \in [Streams -> Int]
        /\ \A x \in Streams : x # s => entries'[x] = entries[x]
    BY <1>1
  <1> QED
    BY <1>2, <1>3, <1>4 DEF StreamTypes

LEMMA StartOutputKept ==
  ASSUME IInv, SInv, NEW t \in Threads, StartOutput(t) PROVE SInv'
  <1> DEFINE o == entry[t]
             s == StreamOf(o)
             D == Dull(o)
  <1>1. /\ ~Idle(t) /\ Head(todo[t]).do = "start_output" /\ UNCHANGED <<owner, open>>
    BY DEF StartOutput, At
  <1>2. /\ s = "out" /\ s \in Streams /\ o \notin Opening \cup Closing
        /\ {"transfer", "check_standby"} \subseteq Vocabulary(o) /\ s \in open
    BY <1>1, Here, Speaks
  <1>3. s \in standby /\ entries[s] = 0 /\ t \in owner[StreamLock(s)]
    BY <1>1, Here DEF Sure, Knows
  <1>4. /\ Standby(s) \in Seq(D) /\ Do("transfer", s) \in D
        /\ Release(StreamLock(s)) \in D /\ Release(DeviceLock) \in D
    <2>1. StreamLock(s) \in Locks /\ DeviceLock \in Locks
      BY <1>2, StreamRanks
    <2> QED
      BY <1>2, <2>1, DullLocks, DullPieces, DullWork DEF DullWords
  <1>5. CASE /\ entries' = [entries EXCEPT !["out"] = @ + 1]
             /\ standby' = standby \ {"out"}
             /\ Continue(t, <<Release(DeviceLock), Do("transfer", "out")>>)
    <2> DEFINE more == <<Release(DeviceLock), Do("transfer", s)>>
    <2>1. Continue(t, more)
      BY <1>2, <1>5
    <2> HIDE DEF D
    <2>2. more \in Seq(D)
      BY <1>4
    <2> HIDE DEF more, o, s
    <2>3. /\ entries' = [entries EXCEPT ![s] = @ + 1] /\ s \notin standby'
          /\ standby' \in {standby, standby \cup {s}, standby \ {s}}
          /\ open' = open
      BY <1>1, <1>2, <1>3, <1>5
    <2>4. entries'[s] = 1
      <3>1. entries \in [Streams -> Int]
        BY DEF SInv, StreamTypes
      <3> QED
        BY <1>2, <1>3, <2>3, <3>1
    <2>5. /\ StreamTypes'
          /\ \A x \in Streams : x # s =>
               /\ x \in standby' <=> x \in standby
               /\ x \in open' <=> x \in open
               /\ entries'[x] = entries[x]
      BY <1>2, <2>1, <2>3, Own
    <2>6. /\ more \in Seq(Steps) /\ ~Has(more, "free")
          /\ ~Has(more, "check_open") /\ ~Has(more, "open")
          /\ Sure(more, o, t \in owner[StreamLock(s)], s \in standby', entries'[s])
      BY <2>2, DullSure DEF D
    <2> QED
      BY <1>1, <1>2, <1>3, <2>1, <2>3, <2>4, <2>5, <2>6, Resumed, ZenonT(60) DEF o, s
  <1>6. CASE /\ UNCHANGED <<standby, entries>>
             /\ Continue(t, <<Release(DeviceLock), Release(StreamLock("out"))>>
                              \o Standby("out"))
    <2> DEFINE more == <<Release(DeviceLock), Release(StreamLock(s))>> \o Standby(s)
    <2>1. Continue(t, more) /\ UNCHANGED flags
      BY <1>1, <1>2, <1>6 DEF flags, streams
    <2> HIDE DEF D, s
    <2>2. more \in Seq(D)
      BY <1>4
    <2> HIDE DEF more
    <2> QED
      BY <1>1, <1>2, <2>1, <2>2, DullSure, GoesOn DEF D, s
  <1> QED
    BY <1>5, <1>6 DEF StartOutput

LEMMA StartInputKept ==
  ASSUME IInv, SInv, NEW t \in Threads, StartInput(t) PROVE SInv'
  <1> DEFINE o == entry[t]
             s == StreamOf(o)
             D == Dull(o)
  <1>1. /\ ~Idle(t) /\ Head(todo[t]).do = "start_input"
        /\ UNCHANGED <<owner, open, standby>>
    BY DEF StartInput, At
  <1>2. /\ s = "in" /\ s \in Streams /\ o \notin Opening \cup Closing
        /\ {"started", "transfer", "check_standby"} \subseteq Vocabulary(o) /\ s \in open
    BY <1>1, Here, Speaks
  <1>3. s \in standby /\ entries[s] = 0 /\ t \in owner[StreamLock(s)]
    BY <1>1, Here DEF Sure, Knows
  <1>4. CASE /\ entries' = [entries EXCEPT !["in"] = @ + 1]
             /\ Continue(t, <<Release(DeviceLock), Release(LockInputs),
                              Do("started", "in"), Do("transfer", "in")>>)
    <2> DEFINE more == <<Release(DeviceLock), Release(LockInputs),
                         Do("started", "in"), Do("transfer", "in")>>
    <2>1. Continue(t, more)
      BY <1>4
    <2>2. /\ more \in Seq(Steps) /\ Worded(more, o) /\ Placed(more)
          /\ \A v : Has(more, v) <=> v \in {"release", "started", "transfer"}
      BY <1>2, ToFinishStart
    <2> HIDE DEF more, o, s
    <2>3. /\ entries' = [entries EXCEPT ![s] = @ + 1] /\ s \in standby'
          /\ standby' \in {standby, standby \cup {s}, standby \ {s}}
          /\ open' = open
      BY <1>1, <1>2, <1>3, <1>4
    <2>4. entries'[s] = 1
      <3>1. entries \in [Streams -> Int]
        BY DEF SInv, StreamTypes
      <3> QED
        BY <1>2, <1>3, <2>3, <3>1
    <2>5. /\ StreamTypes'
          /\ \A x \in Streams : x # s =>
               /\ x \in standby' <=> x \in standby
               /\ x \in open' <=> x \in open
               /\ entries'[x] = entries[x]
      BY <1>2, <2>1, <2>3, Own
    <2>6. /\ Sure(more, o, t \in owner[StreamLock(s)], s \in standby', entries'[s])
          /\ ~Has(more, "free") /\ ~Has(more, "check_open") /\ ~Has(more, "open")
          /\ Has(more, "started") /\ more \in Seq(Steps)
      BY <1>3, <2>2, <2>3, <2>4 DEF Sure, Knows
    <2> QED
      BY <1>1, <1>2, <1>3, <2>1, <2>3, <2>4, <2>5, <2>6, Resumed, ZenonT(60) DEF o, s
  <1>5. CASE /\ UNCHANGED entries
             /\ Continue(t, <<Release(DeviceLock), Release(LockInputs),
                              Release(StreamLock("in"))>> \o Standby("in"))
    <2> DEFINE more == <<Release(DeviceLock), Release(LockInputs),
                         Release(StreamLock(s))>> \o Standby(s)
    <2>1. Continue(t, more) /\ UNCHANGED flags
      BY <1>1, <1>2, <1>5 DEF flags, streams
    <2>2. /\ Standby(s) \in Seq(D) /\ Release(LockInputs) \in D
          /\ Release(StreamLock(s)) \in D /\ Release(DeviceLock) \in D
      <3>1. {StreamLock(s), DeviceLock, LockInputs} \subseteq Locks
        BY <1>2, StreamRanks
      <3> QED
        BY <1>2, <3>1, DullLocks, DullPieces
    <2> HIDE DEF D, s
    <2>3. more \in Seq(D)
      BY <2>2
    <2> HIDE DEF more
    <2> QED
      BY <1>1, <1>2, <2>1, <2>3, DullSure, GoesOn DEF D, s
  <1> QED
    BY <1>4, <1>5 DEF StartInput

LEMMA StartedKept ==
  ASSUME IInv, SInv, NEW t \in Threads, Started(t) PROVE SInv'
  <1> DEFINE o == entry[t]
             s == StreamOf(o)
  <1>1. /\ ~Idle(t) /\ Head(todo[t]).do = "started" /\ UNCHANGED <<owner, open, entries>>
        /\ Continue(t, <<>>)
    BY DEF Started, At
  <1>2. /\ s = "in" /\ s \in Streams /\ o \notin Opening \cup Closing /\ s \in open
    <2>1. /\ "started" \in Vocabulary(o) /\ s \in Streams /\ o \in EntryPoints \cup {"none"}
          /\ o \notin Opening \cup Closing => s \in open
      BY <1>1, Here
    <2>2. o \notin Opening \cup Closing
      BY <2>1, Speaks
    <2>3. s = "in"
      BY <2>1 DEF Vocabulary
    <2> QED
      BY <2>1, <2>2, <2>3
  <1>3. s \in standby /\ entries[s] = 1 /\ t \in owner[StreamLock(s)]
    BY <1>1, Here DEF Sure, Knows
  <1> HIDE DEF o, s
  <1>4. /\ standby' = standby \ {s} /\ s \notin standby'
        /\ entries'[s] = 1 /\ open' = open /\ entries' = entries
    BY <1>1, <1>2, <1>3 DEF Started
  <1>5. /\ StreamTypes'
        /\ \A x \in Streams : x # s =>
             /\ x \in standby' <=> x \in standby
             /\ x \in open' <=> x \in open
             /\ entries'[x] = entries[x]
    BY <1>1, <1>2, <1>4, Own
  <1>6. /\ <<>> \in Seq(Steps) /\ \A w : ~Has(<<>>, w)
        /\ Sure(<<>>, o, t \in owner[StreamLock(s)], s \in standby', entries'[s])
    BY NothingToDo DEF Has
  <1> QED
    BY <1>1, <1>2, <1>3, <1>4, <1>5, <1>6, Resumed, ZenonT(60) DEF o, s

(* A running stream is put in standby, by a thread that has it locked. *)
LEMMA Stopping ==
  ASSUME IInv, SInv, NEW t \in Threads, ~Idle(t), Continue(t, <<>>),
         NEW s, s = StreamOf(entry[t]), Head(todo[t]).do \in {"stop", "route"},
         s \notin standby, StopStream(s), UNCHANGED <<owner, open>>
  PROVE  SInv'
  <1> DEFINE o == entry[t]
             w == Head(todo[t]).do
  <1>1. /\ s \in Streams /\ w \in Vocabulary(o) /\ o \in EntryPoints \cup {"none"}
        /\ o \notin Opening \cup Closing => s \in open
        /\ w \notin {"acquire", "release"} /\ Kept(s)
    BY Here
  <1>2. o \notin Opening
    BY <1>1, Speaks
  <1>3. t \in owner[StreamLock(s)] /\ entries[s] = 1 /\ s \in open
    BY <1>1, Firm DEF Kept
  <1>4. entries \in [Streams -> Int]
    BY DEF SInv, StreamTypes
  <1> HIDE DEF o, w
  <1>5. /\ entries' = [entries EXCEPT ![s] = @ - 1] /\ entries'[s] = 0
        /\ standby' = standby \cup {s} /\ s \in standby' /\ open' = open
    BY <1>1, <1>3, <1>4 DEF StopStream
  <1>6. /\ StreamTypes'
        /\ \A x \in Streams : x # s =>
             /\ x \in standby' <=> x \in standby
             /\ x \in open' <=> x \in open
             /\ entries'[x] = entries[x]
    BY <1>1, <1>5, Own
  <1>7. /\ <<>> \in Seq(Steps) /\ \A v : ~Has(<<>>, v)
        /\ Sure(<<>>, o, t \in owner[StreamLock(s)], s \in standby', entries'[s])
    BY NothingToDo DEF Has
  <1> QED
    BY <1>1, <1>2, <1>3, <1>5, <1>6, <1>7, Resumed, ZenonT(60) DEF o, w

LEMMA StopKept ==
  ASSUME IInv, SInv, NEW t \in Threads, Stop(t) PROVE SInv'
  <1> DEFINE s == StreamOf(entry[t])
  <1>1. /\ ~Idle(t) /\ Head(todo[t]).do = "stop" /\ UNCHANGED <<owner, open>>
        /\ Continue(t, <<>>) /\ StopStream(Stream(t))
    BY DEF Stop, At
  <1>2. Stream(t) = s /\ s \notin standby
    BY <1>1, Here DEF Stream, Sure, Knows
  <1> QED
    BY <1>1, <1>2, Stopping

LEMMA RouteKept ==
  ASSUME IInv, SInv, NEW t \in Threads, Route(t) PROVE SInv'
  <1> DEFINE o == entry[t]
             s == StreamOf(o)
  <1>1. /\ ~Idle(t) /\ Head(todo[t]).do = "route" /\ UNCHANGED <<owner, open>>
        /\ Continue(t, <<>>)
    BY DEF Route, At
  <1>2. Stream(t) = s /\ "route" \in Vocabulary(o) /\ o \in EntryPoints \cup {"none"}
    BY <1>1, Here DEF Stream
  <1>3. o \notin Closing
    BY <1>2, Speaks
  <1>4. CASE UNCHANGED <<standby, entries>>
    <2>1. <<>> \in Seq(Steps) /\ \A w : ~Has(<<>>, w)
      BY DEF Has
    <2>2. UNCHANGED flags
      BY <1>1, <1>4 DEF flags, streams
    <2> QED
      BY <1>1, <1>3, <2>1, <2>2, NothingToDo, GoesOn
  <1>5. CASE s \notin standby /\ StopStream(s)
    BY <1>1, <1>5, Stopping
  <1> QED
    BY <1>2, <1>4, <1>5 DEF Route

LEMMA CheckOpenKept ==
  ASSUME IInv, SInv, NEW t \in Threads, CheckOpen(t) PROVE SInv'
  <1> DEFINE o == entry[t]
             s == StreamOf(o)
             a == Release(DeviceLock)
             d == Do("open", "out")
  <1>1. /\ ~Idle(t) /\ Head(todo[t]).do = "check_open" /\ UNCHANGED <<owner, flags>>
    BY DEF CheckOpen, At, flags, streams
  <1>2. /\ "check_open" \in Vocabulary(o) /\ todo[t] \in Seq(Steps) /\ todo[t] # <<>>
        /\ Placed(todo[t]) /\ o \in EntryPoints \cup {"none"}
    BY <1>1, Here DEF Sure
  <1>3. s = "out" /\ o \in Opening /\ o \notin Closing /\ "open" \in Vocabulary(o)
    BY <1>2, Speaks DEF Vocabulary
  <1>4. Tail(todo[t]) = <<>>
    BY <1>1, <1>2, Remaining
  <1>5. /\ a \in Steps /\ d \in Steps /\ a.do = "release" /\ d.do = "open"
        /\ Says(o, a) /\ Says(o, d)
        /\ {"release", "open"} \cap (Reliant \cup {"check_open", "free"}) = {}
    BY <1>3, StreamRanks DEF Do, Release, Steps, Inner, Streams, Says, Reliant
  <1>6. PICK more \in Seq(Steps) :
          /\ Continue(t, more) /\ Worded(more, o) /\ Placed(more)
          /\ \A w : Has(more, w) => w \in {"release", "open"}
    <2>1. PICK z \in {<<a>> \o <<>>, <<a>> \o <<d>>} : Continue(t, z)
      BY DEF CheckOpen
    <2> HIDE DEF a, d
    <2>2. /\ z \in Seq(Steps) /\ Len(z) \in 1..2 /\ z[1] = a
          /\ Len(z) = 2 => z[2] = d
      <3>1. CASE z = <<a>> \o <<>>
        BY <1>5, <3>1
      <3>2. CASE z = <<a>> \o <<d>>
        BY <1>5, <3>2
      <3> QED
        BY <2>1, <3>1, <3>2
    <2>3. Worded(z, o)
      BY <1>5, <2>2 DEF Worded
    <2>4. Placed(z)
      BY <1>5, <2>2 DEF Placed
    <2>5. \A w : Has(z, w) => w \in {"release", "open"}
      BY <1>5, <2>2 DEF Has
    <2> QED
      BY <2>1, <2>2, <2>3, <2>4, <2>5
  <1> HIDE DEF a, d
  <1>7. Sure(more, o, t \in owner[StreamLock(s)], s \in standby, entries[s])
    BY <1>5, <1>6 DEF Sure, Knows, Reliant
  <1>8. ~Has(more, "free")
    BY <1>5, <1>6
  <1> QED
    <2>1. Head(todo[t]).do \notin {"acquire", "release", "started"}
      BY <1>1
    <2>2. /\ o \in Closing => s \in standby \/ Has(more, "stop")
          /\ Tail(todo[t]) = <<>> \/ (~Has(more, "check_open") /\ ~Has(more, "open"))
      BY <1>3, <1>4
    <2>3. o = entry[t] /\ s = StreamOf(o)
      OBVIOUS
    <2>4. more \in Seq(Steps) /\ Continue(t, more) /\ ~Has(more, "free")
      BY <1>6, <1>8
    <2>5. ~Idle(t) /\ UNCHANGED <<owner, flags>>
      BY <1>1
    <2> HIDE DEF o, s
    <2> QED
      BY <1>7, <2>1, <2>2, <2>3, <2>4, <2>5, GoesOn, ZenonT(60)

LEMMA OpenKept ==
  ASSUME IInv, SInv, NEW t \in Threads, Open(t) PROVE SInv'
  <1> DEFINE o == entry[t]
             s == StreamOf(o)
  <1>1. /\ ~Idle(t) /\ Head(todo[t]).do = "open" /\ UNCHANGED <<owner, entries>>
        /\ Continue(t, <<>>)
    BY DEF Open, At
  <1>2. /\ "open" \in Vocabulary(o) /\ todo[t] \in Seq(Steps) /\ todo[t] # <<>>
        /\ Placed(todo[t]) /\ o \in EntryPoints \cup {"none"}
        /\ s \in Streams /\ Stream(t) = s /\ Kept(s)
        /\ o \in Opening => s \notin open
    BY <1>1, Here DEF Sure, Stream
  <1>3. o \in Opening /\ o \notin Closing /\ s \in standby
    BY <1>2, Speaks DEF Kept
  <1>4. Tail(todo[t]) = <<>>
    BY <1>1, <1>2, Remaining
  <1>5. entries[s] = 0
    BY <1>1, <1>3, Firm
  <1>6. /\ open' = open \cup {s} /\ standby' = standby \cup {s} /\ entries' = entries
        /\ s \in open' /\ s \in standby' /\ entries'[s] = 0
    BY <1>1, <1>2, <1>5 DEF Open
  <1> HIDE DEF o, s
  <1>7. /\ StreamTypes'
        /\ \A x \in Streams : x # s =>
             /\ x \in standby' <=> x \in standby
             /\ x \in open' <=> x \in open
             /\ entries'[x] = entries[x]
    BY <1>1, <1>2, <1>6, Own
  <1>8. /\ <<>> \in Seq(Steps) /\ \A w : ~Has(<<>>, w) /\ <<>> \o Tail(todo[t]) = <<>>
        /\ Sure(<<>>, o, t \in owner[StreamLock(s)], s \in standby', entries'[s])
    BY <1>4, NothingToDo DEF Has
  <1> QED
    BY <1>1, <1>2, <1>3, <1>6, <1>7, <1>8, Resumed, ZenonT(60) DEF o, s

LEMMA FreeKept ==
  ASSUME IInv, SInv, NEW t \in Threads, Free(t) PROVE SInv'
  <1> DEFINE o == entry[t]
             s == StreamOf(o)
  <1>1. /\ ~Idle(t) /\ Head(todo[t]).do = "free" /\ UNCHANGED <<owner, standby, entries>>
        /\ Continue(t, <<>>)
    BY DEF Free, At
  <1>2. /\ "free" \in Vocabulary(o) /\ todo[t] \in Seq(Steps) /\ todo[t] # <<>>
        /\ Placed(todo[t]) /\ o \in EntryPoints \cup {"none"}
        /\ s \in Streams /\ Stream(t) = s /\ Has(todo[t], "free")
        /\ Knows(todo[t], o, t \in owner[StreamLock(s)], s \in standby, entries[s])
    BY <1>1, Here DEF Sure, Stream
  <1>3. o \in Closing /\ o \notin Opening
    BY <1>2, Speaks
  <1>4. ~Has(todo[t], "check_standby") /\ ~Has(todo[t], "stop")
    BY <1>1, <1>2, Remaining
  <1>5. s \in standby
    BY <1>2, <1>4 DEF Knows
  <1>6. entries[s] = 0
    BY <1>1, <1>5, Firm
  <1>7. /\ open' = open \ {s} /\ standby' = standby /\ entries' = entries
        /\ s \in standby' /\ entries'[s] = 0
    BY <1>1, <1>2, <1>5, <1>6 DEF Free
  <1> HIDE DEF o, s
  <1>8. /\ StreamTypes'
        /\ \A x \in Streams : x # s =>
             /\ x \in standby' <=> x \in standby
             /\ x \in open' <=> x \in open
             /\ entries'[x] = entries[x]
    BY <1>1, <1>2, <1>7, Own
  <1>9. /\ <<>> \in Seq(Steps) /\ \A w : ~Has(<<>>, w)
        /\ Sure(<<>>, o, t \in owner[StreamLock(s)], s \in standby', entries'[s])
    BY NothingToDo DEF Has
  <1> QED
    BY <1>1, <1>2, <1>3, <1>7, <1>8, <1>9, Resumed, ZenonT(60) DEF o, s

LEMMA InitSInv == Init => SInv
  <1> SUFFICES ASSUME Init PROVE SInv
    OBVIOUS
  <1>1. /\ \A t \in Threads : todo[t] = <<>> /\ entry[t] = "none"
        /\ open = {} /\ standby = Streams /\ \A s \in Streams : entries[s] = 0
        /\ StreamTypes
    BY DEF Init, StreamTypes
  <1>2. \A t \in Threads : Informed(t) /\ Entitled(t)
    BY <1>1, NothingToDo, Roles DEF Informed, Entitled
  <1>3. \A s \in Streams : Kept(s)
    BY <1>1 DEF Kept
  <1> QED
    BY <1>1, <1>2, <1>3 DEF SInv

LEMMA StreamInvariance == Spec => [](IInv /\ SInv)
  <1>1. IInv /\ SInv /\ [Next]_vars => SInv'
    <2> SUFFICES ASSUME IInv, SInv, [Next]_vars PROVE SInv'
      OBVIOUS
    <2>1. ASSUME NEW t \in Threads, NEW o \in Operations[t], Begin(t, o)
          PROVE  SInv'
      <3>1. o \in EntryPoints
        BY OperationsAssumption
      <3> QED
        BY <2>1, <3>1, BeginKept
    <2>2. ASSUME NEW t \in Threads, NEW l \in Locks, AcquireLock(t, l)
          PROVE  SInv'
      BY <2>2, AcquireKept
    <2>3. ASSUME NEW t \in Threads, Work(t) PROVE SInv'
      BY <2>3, ReleaseKept, CheckWriteKept, StartOutputKept, CheckReadKept,
         RecheckReadKept, StartInputKept, StartedKept, TransferKept,
         CheckStandbyKept, StopKept, RouteKept, CheckOpenKept, OpenKept, FreeKept
         DEF Work
    <2>4. CASE UNCHANGED vars
      <3>1. /\ owner' = owner /\ todo' = todo /\ entry' = entry
            /\ open' = open /\ standby' = standby /\ entries' = entries
        BY <2>4 DEF vars
      <3> QED
        BY <3>1 DEF SInv, StreamTypes, Informed, Entitled, Kept, Starts
    <2> QED
      BY <2>1, <2>2, <2>3, <2>4 DEF Next
  <1> QED
    BY <1>1, InitSInv, Invariance, PTL DEF Spec

(* A stream whose start failed half way stays in standby: it is the capture, *)
(* and none of its later starts completes.                                   *)
HInv ==
  /\ halfStarted \subseteq MayStick
  /\ \A s \in halfStarted : s \in standby /\ entries[s] = 0

LEMMA HalfStays ==
  ASSUME HInv, halfStarted' = halfStarted,
         \A s \in halfStarted : s \in standby' /\ entries'[s] = 0
  PROVE  HInv'
  BY DEF HInv, MayStick

LEMMA HalfWorks ==
  ASSUME IInv, SInv, HInv, NEW t \in Threads, Work(t)
  PROVE  HInv'
  <1> DEFINE o == entry[t]
             s == StreamOf(o)
             d == Head(todo[t])
  <1>1. /\ entries \in [Streams -> Int] /\ standby \subseteq Streams
        /\ halfStarted \subseteq Streams /\ halfStarted \subseteq {"in"}
        /\ \A x \in halfStarted : x \in standby /\ entries[x] = 0
    BY DEF SInv, StreamTypes, HInv, MayStick, Streams
  <1>2. ASSUME ~Idle(t), d.do \notin {"acquire", "release"}
        PROVE  /\ s \in Streams /\ d.do \in Vocabulary(o) /\ d.stream = s /\ Kept(s)
               /\ o \in EntryPoints \cup {"none"}
               /\ Sure(todo[t], o, t \in owner[StreamLock(s)], s \in standby, entries[s])
               /\ Has(todo[t], d.do)
    BY <1>2, Here
  <1>3. CASE StartOutput(t)
    <2>1. /\ halfStarted' = halfStarted
          /\ standby' \in {standby, standby \ {"out"}}
          /\ entries' \in {entries, [entries EXCEPT !["out"] = @ + 1]}
      BY <1>3 DEF StartOutput
    <2> QED
      BY <1>1, <2>1, HalfStays
  <1>4. CASE StartInput(t)
    <2>1. /\ ~Idle(t) /\ d.do = "start_input" /\ standby' = standby
      BY <1>4 DEF StartInput, At
    <2>2. s = "in" /\ s \in standby /\ entries[s] = 0
      BY <1>2, <2>1, Speaks DEF Sure, Knows
    <2>3. CASE /\ "in" \notin halfStarted /\ halfStarted' = halfStarted
               /\ entries' = [entries EXCEPT !["in"] = @ + 1]
      BY <1>1, <2>1, <2>3, HalfStays
    <2>4. CASE UNCHANGED entries /\ halfStarted' = halfStarted
      BY <1>1, <2>1, <2>4, HalfStays
    <2>5. CASE /\ UNCHANGED entries /\ ResamplerFails
               /\ halfStarted' = halfStarted \cup {"in"}
      BY <1>1, <2>1, <2>2, <2>5 DEF HInv, MayStick
    <2> QED
      BY <1>4, <2>3, <2>4, <2>5 DEF StartInput
  <1>5. ASSUME halfStarted' = halfStarted, d.do \in {"stop", "route"}, ~Idle(t),
               StopStream(s), s \notin standby
        PROVE  HInv'
    <2>1. s \in Streams /\ s \notin halfStarted
      BY <1>1, <1>2, <1>5
    <2>2. standby' = standby \cup {s} /\ entries' = [entries EXCEPT ![s] = @ - 1]
      BY <1>5 DEF StopStream
    <2> HIDE DEF s
    <2> QED
      BY <1>1, <1>5, <2>1, <2>2, HalfStays
  <1>6. CASE Stop(t)
    <2>1. /\ d.do = "stop" /\ ~Idle(t) /\ halfStarted' = halfStarted
          /\ StopStream(d.stream)
      BY <1>6 DEF Stop, At, Stream
    <2>2. d.stream = s /\ s \notin standby
      BY <1>2, <2>1 DEF Sure, Knows
    <2> QED
      BY <1>5, <2>1, <2>2
  <1>7. CASE Route(t)
    <2>1. /\ d.do = "route" /\ ~Idle(t) /\ halfStarted' = halfStarted
          /\ UNCHANGED <<standby, entries>>
             \/ (d.stream \notin standby /\ StopStream(d.stream))
      BY <1>7 DEF Route, At, Stream
    <2>2. d.stream = s
      BY <1>2, <2>1
    <2> QED
      BY <1>1, <1>5, <2>1, <2>2, HalfStays
  <1>8. CASE Started(t)
    <2>1. /\ ~Idle(t) /\ d.do = "started" /\ standby' = standby \ {"in"}
          /\ UNCHANGED <<entries, halfStarted>>
      BY <1>8 DEF Started, At
    <2>2. s = "in"
      BY <1>2, <2>1 DEF Vocabulary
    <2>3. entries["in"] = 1
      BY <1>2, <2>1, <2>2 DEF Sure, Knows
    <2>4. "in" \notin halfStarted
      BY <1>1, <2>3
    <2> QED
      BY <1>1, <2>1, <2>4, HalfStays
  <1>9. CASE Open(t)
    <2>1. /\ UNCHANGED <<entries, halfStarted>> /\ standby \subseteq standby'
      BY <1>9 DEF Open
    <2> QED
      BY <1>1, <2>1, HalfStays
  <1>10. CASE \/ ReleaseLock(t) \/ CheckWrite(t) \/ CheckRead(t) \/ RecheckRead(t)
              \/ Transfer(t) \/ CheckStandby(t) \/ CheckOpen(t) \/ Free(t)
    <2>1. UNCHANGED <<standby, entries, halfStarted>>
      BY <1>10 DEF ReleaseLock, CheckWrite, CheckRead, RecheckRead, Transfer,
                   CheckStandby, CheckOpen, Free, streams
    <2> QED
      BY <1>1, <2>1, HalfStays
  <1> QED
    BY <1>3, <1>4, <1>6, <1>7, <1>8, <1>9, <1>10 DEF Work

LEMMA HalfInvariance == Spec => [](IInv /\ SInv /\ HInv)
  <1>1. Init => HInv
    BY DEF Init, HInv
  <1>2. IInv /\ SInv /\ HInv /\ [Next]_vars => HInv'
    <2> SUFFICES ASSUME IInv, SInv, HInv, [Next]_vars PROVE HInv'
      OBVIOUS
    <2>1. ASSUME NEW t \in Threads, Work(t) PROVE HInv'
      BY <2>1, HalfWorks
    <2>2. CASE \/ UNCHANGED vars
               \/ \E t \in Threads : \/ \E o \in Operations[t] : Begin(t, o)
                                     \/ \E l \in Locks : AcquireLock(t, l)
      <3>1. UNCHANGED <<standby, entries, halfStarted>>
        BY <2>2 DEF Begin, AcquireLock, vars, streams
      <3> QED
        BY <3>1 DEF HInv, MayStick
    <2> QED
      BY <2>1, <2>2 DEF Next
  <1> QED
    BY <1>1, <1>2, StreamInvariance, PTL DEF Spec

(* Whatever threads call and however their operations interleave: a stream   *)
(* whose lock nobody holds is in standby exactly if its usecase is not in    *)
(* the list, although in_read clears the flag after it has released the      *)
(* locks under which start_input_stream linked the usecase, and out_write    *)
(* and in_read fail between their locks - except a capture whose start       *)
(* failed half way: that one keeps a single entry and stays in standby.      *)
THEOREM FlagTells == Spec => []FlagMatchesUsecase
  <1>1. SInv /\ HInv => FlagMatchesUsecase
    <2> SUFFICES ASSUME SInv, HInv, NEW s \in Streams, owner[StreamLock(s)] = {}
                 PROVE  Listed(s) = IF s \in standby /\ s \notin halfStarted
                                    THEN 0 ELSE 1
      BY DEF FlagMatchesUsecase
    <2>1. Kept(s) /\ ~Starts(s)
      BY DEF SInv, Starts
    <2>2. s \in standby <=> entries[s] = 0
      BY <2>1 DEF Kept
    <2>3. s \notin standby => entries[s] = 1
      BY <2>1 DEF Kept
    <2>4. s \in halfStarted => s \in standby
      BY DEF HInv
    <2> QED
      BY <2>2, <2>3, <2>4 DEF Listed
  <1> QED
    BY <1>1, HalfInvariance, PTL

------------------------------------------------------------------------------
(* The life cycle of a stream *)
LEMMA LifeStays ==
  ASSUME \A s \in Streams : /\ s \in open' <=> s \in open
                            /\ entries'[s] = entries[s],
         halfStarted' = halfStarted
  PROVE  Life' = Life
  BY DEF Life, Listed

LEMMA LifeMoves ==
  ASSUME NEW s \in Streams,
         \A x \in Streams : x # s =>
           /\ x \in open' <=> x \in open
           /\ entries'[x] = entries[x]
           /\ x \in halfStarted' <=> x \in halfStarted,
         \/ /\ s \notin halfStarted /\ s \notin halfStarted'
            /\ \/ s \in open /\ s \in open' /\ entries[s] = 0 /\ entries'[s] = 1
               \/ s \in open /\ s \in open' /\ entries[s] = 1 /\ entries'[s] = 0
               \/ s \notin open /\ s \in open' /\ entries[s] = 0 /\ entries'[s] = 0
               \/ s \in open /\ s \notin open' /\ entries[s] = 0 /\ entries'[s] = 0
         \/ /\ s \in MayStick /\ s \in halfStarted'
            /\ entries[s] = 0 /\ entries'[s] = 0
            /\ \/ s \in open /\ s \in open' /\ s \notin halfStarted
               \/ s \in halfStarted /\ s \in open /\ s \notin open'
               \/ s \in halfStarted /\ s \notin open /\ s \in open'
  PROVE  Lives!Next
  <1> DEFINE m(x) == IF x \in halfStarted THEN 1 ELSE 0
             n(x) == IF x \in halfStarted' THEN 1 ELSE 0
             L(x) == CASE x \notin open /\ entries[x] + m(x) = 0 -> "closed"
                       [] x \in open /\ entries[x] + m(x) = 0    -> "standby"
                       [] x \in open /\ entries[x] = 1 /\ entries[x] + m(x) = 1 -> "running"
                       [] x \in halfStarted /\ entries[x] + m(x) = 1 ->
                            IF x \in open THEN "stuck" ELSE "leaked"
                       [] OTHER                                  -> "broken"
             M(x) == CASE x \notin open' /\ entries'[x] + n(x) = 0 -> "closed"
                       [] x \in open' /\ entries'[x] + n(x) = 0    -> "standby"
                       [] x \in open' /\ entries'[x] = 1 /\ entries'[x] + n(x) = 1 -> "running"
                       [] x \in halfStarted' /\ entries'[x] + n(x) = 1 ->
                            IF x \in open' THEN "stuck" ELSE "leaked"
                       [] OTHER                                    -> "broken"
  <1>1. Life = [x \in Streams |-> L(x)] /\ Life' = [x \in Streams |-> M(x)]
    BY DEF Life, Listed
  <1>2. \A x \in Streams : x # s => M(x) = L(x)
    OBVIOUS
  <1>3. \/ L(s) = "standby" /\ M(s) = "running"
        \/ L(s) = "running" /\ M(s) = "standby"
        \/ L(s) = "closed" /\ M(s) = "standby"
        \/ L(s) = "standby" /\ M(s) = "closed"
        \/ /\ s \in MayStick
           /\ \/ L(s) = "standby" /\ M(s) = "stuck"
              \/ L(s) = "stuck" /\ M(s) = "leaked"
              \/ L(s) = "leaked" /\ M(s) = "stuck"
    OBVIOUS
  <1> HIDE DEF L, M
  <1>4. Life[s] = L(s) /\ Life' = [Life EXCEPT ![s] = M(s)]
    BY <1>1, <1>2
  <1> HIDE DEF Life
  <1> QED
    BY <1>3, <1>4 DEF Lives!Next, Lives!Moves

LEMMA Alive ==
  ASSUME IInv, SInv, HInv, NEW t \in Threads, Work(t)
  PROVE  Lives!Next \/ Life' = Life
  <1> DEFINE o == entry[t]
             s == StreamOf(o)
             d == Head(todo[t])
  <1>1. /\ entries \in [Streams -> Int] /\ open \subseteq Streams
        /\ halfStarted \subseteq MayStick /\ MayStick \subseteq {"in"}
        /\ \A x \in halfStarted : x \in standby /\ entries[x] = 0
    BY DEF SInv, StreamTypes, HInv, MayStick
  <1>2. ASSUME ~Idle(t), d.do \notin {"acquire", "release"}
        PROVE  /\ s \in Streams /\ d.do \in Vocabulary(o) /\ d.stream = s /\ Kept(s)
               /\ o \in EntryPoints \cup {"none"}
               /\ o \in Opening => s \notin open
               /\ o \notin Opening \cup Closing => s \in open
               /\ Sure(todo[t], o, t \in owner[StreamLock(s)], s \in standby, entries[s])
               /\ Has(todo[t], d.do)
    BY <1>2, Here
  <1>3. CASE StartOutput(t) \/ StartInput(t)
    <2>1. ~Idle(t) /\ d.do \in {"start_output", "start_input"} /\ open' = open
      BY <1>3 DEF StartOutput, StartInput, At
    <2>2. s \in Streams /\ s \in open /\ entries[s] = 0
      <3>1. d.do \in Vocabulary(o) /\ o \in EntryPoints \cup {"none"}
        BY <1>2, <2>1
      <3>2. o \notin Opening \cup Closing
        BY <2>1, <3>1, Speaks
      <3> QED
        BY <1>2, <2>1, <3>2 DEF Sure, Knows
    <2>3. \/ UNCHANGED <<entries, halfStarted>>
          \/ /\ entries' = [entries EXCEPT ![s] = @ + 1]
             /\ s \notin halfStarted /\ halfStarted' = halfStarted
          \/ /\ s \in MayStick /\ entries' = entries
             /\ halfStarted' = halfStarted \cup {s}
      <3>1. d.do \in Vocabulary(o) /\ o \in EntryPoints \cup {"none"}
        BY <1>2, <2>1
      <3>2. /\ d.do = "start_output" => s = "out"
            /\ d.do = "start_input" => s = "in"
        BY <3>1, Speaks
      <3> QED
        BY <1>1, <1>3, <3>2 DEF StartOutput, StartInput, At, MayStick
    <2> HIDE DEF o, s, d
    <2>4. CASE UNCHANGED <<entries, halfStarted>>
      BY <2>1, <2>4, LifeStays
    <2>5. CASE /\ entries' = [entries EXCEPT ![s] = @ + 1]
               /\ s \notin halfStarted /\ halfStarted' = halfStarted
      <3>1. /\ entries'[s] = 1
            /\ \A x \in Streams : x # s => entries'[x] = entries[x]
        BY <1>1, <2>2, <2>5
      <3> QED
        BY <2>1, <2>2, <2>5, <3>1, LifeMoves
    <2>6. CASE /\ s \in MayStick /\ entries' = entries
               /\ halfStarted' = halfStarted \cup {s}
      <3>1. CASE s \in halfStarted
        <4>1. halfStarted' = halfStarted
          BY <2>6, <3>1
        <4> QED
          BY <2>1, <2>6, <4>1, LifeStays
      <3>2. CASE s \notin halfStarted
        BY <2>1, <2>2, <2>6, <3>2, LifeMoves
      <3> QED
        BY <3>1, <3>2
    <2> QED
      BY <2>3, <2>4, <2>5, <2>6
  <1>4. ASSUME d.do \in {"stop", "route"}, ~Idle(t), open' = open, StopStream(s),
               s \notin standby, halfStarted' = halfStarted
        PROVE  Lives!Next
    <2>1. s \in Streams /\ s \in open /\ entries[s] = 1
      BY <1>2, <1>4 DEF Kept
    <2> HIDE DEF o, s, d
    <2>2. /\ entries'[s] = 0
          /\ \A x \in Streams : x # s => entries'[x] = entries[x]
      BY <1>1, <1>4, <2>1 DEF StopStream
    <2>3. s \notin halfStarted
      BY <1>1, <1>4
    <2> QED
      BY <1>4, <2>1, <2>2, <2>3, LifeMoves
  <1>5. CASE Stop(t)
    <2>1. /\ d.do = "stop" /\ ~Idle(t) /\ open' = open /\ StopStream(d.stream)
          /\ halfStarted' = halfStarted
      BY <1>5 DEF Stop, At, Stream
    <2>2. d.stream = s /\ s \notin standby
      BY <1>2, <2>1 DEF Sure, Knows
    <2> QED
      BY <1>4, <2>1, <2>2
  <1>6. CASE Route(t)
    <2>1. /\ d.do = "route" /\ ~Idle(t) /\ open' = open /\ halfStarted' = halfStarted
          /\ entries' = entries \/ (d.stream \notin standby /\ StopStream(d.stream))
      BY <1>6 DEF Route, At, Stream
    <2>2. d.stream = s
      BY <1>2, <2>1
    <2> QED
      BY <1>4, <2>1, <2>2, LifeStays
  <1>7. CASE Open(t)
    <2>1. /\ d.do = "open" /\ ~Idle(t) /\ open' = open \cup {d.stream}
          /\ UNCHANGED <<entries, halfStarted>>
      BY <1>7 DEF Open, At, Stream
    <2>2. s \in Streams /\ d.stream = s /\ s \notin open
      BY <1>2, <2>1, Speaks
    <2>3. entries[s] = 0
      BY <1>2, <2>1, <2>2, Firm DEF Kept
    <2> HIDE DEF o, s, d
    <2>4. s \in halfStarted => s \in MayStick
      BY <1>1
    <2> QED
      BY <2>1, <2>2, <2>3, <2>4, LifeMoves
  <1>8. CASE Free(t)
    <2>1. /\ d.do = "free" /\ ~Idle(t) /\ open' = open \ {d.stream}
          /\ UNCHANGED <<entries, halfStarted>>
      BY <1>8 DEF Free, At, Stream
    <2>2. s \in Streams /\ d.stream = s
      BY <1>2, <2>1
    <2>3. s \in standby
      <3>1. ~Has(todo[t], "check_standby") /\ ~Has(todo[t], "stop")
        BY <1>2, <2>1, Here, Remaining DEF Sure
      <3> QED
        BY <1>2, <2>1, <3>1 DEF Sure, Knows
    <2>4. entries[s] = 0
      BY <2>1, <2>3, Firm
    <2> HIDE DEF o, s, d
    <2>5. CASE s \in open
      <3>1. s \in halfStarted => s \in MayStick
        BY <1>1
      <3> QED
        BY <2>1, <2>2, <2>4, <2>5, <3>1, LifeMoves
    <2>6. CASE s \notin open
      BY <2>1, <2>2, <2>6, LifeStays
    <2> QED
      BY <2>5, <2>6
  <1>9. CASE \/ ReleaseLock(t) \/ CheckWrite(t) \/ CheckRead(t) \/ RecheckRead(t)
             \/ Started(t) \/ Transfer(t) \/ CheckStandby(t) \/ CheckOpen(t)
    <2>1. UNCHANGED <<open, entries, halfStarted>>
      BY <1>9 DEF ReleaseLock, CheckWrite, CheckRead, RecheckRead, Started, Transfer,
                  CheckStandby, CheckOpen, streams
    <2> QED
      BY <2>1, LifeStays
  <1> QED
    BY <1>3, <1>5, <1>6, <1>7, <1>8, <1>9 DEF Work

(* The threads together keep the life cycle of StreamLife for each stream:   *)
(* a stream is started only in standby and while it is open, stopped only    *)
(* while it runs, opened once, and freed with no usecase left in the list,   *)
(* unless a start failed half way.                                           *)
THEOREM LifeCycle == Spec => ImplementsStreamLife
  <1>1. Init => Lives!Init
    <2> SUFFICES ASSUME Init PROVE Lives!Init
      OBVIOUS
    <2>1. open = {} /\ entries = [s \in Streams |-> 0] /\ halfStarted = {}
      BY DEF Init
    <2> QED
      BY <2>1 DEF Lives!Init, Life, Listed
  <1>2. IInv /\ SInv /\ HInv /\ [Next]_vars => [Lives!Next]_Life
    <2> SUFFICES ASSUME IInv, SInv, HInv, [Next]_vars PROVE Lives!Next \/ Life' = Life
      OBVIOUS
    <2>1. ASSUME NEW t \in Threads, Work(t) PROVE Lives!Next \/ Life' = Life
      BY <2>1, Alive
    <2>2. CASE \/ UNCHANGED vars
               \/ \E t \in Threads : \/ \E o \in Operations[t] : Begin(t, o)
                                     \/ \E l \in Locks : AcquireLock(t, l)
      <3>1. UNCHANGED <<open, entries, halfStarted>>
        BY <2>2 DEF Begin, AcquireLock, vars, flags, streams
      <3> QED
        BY <3>1, LifeStays
    <2> QED
      BY <2>1, <2>2 DEF Next
  <1> QED
    BY <1>1, <1>2, HalfInvariance, PTL DEF Spec, ImplementsStreamLife, Lives!Spec
==============================================================================
