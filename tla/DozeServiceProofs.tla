--------------------------- MODULE DozeServiceProofs ---------------------------
(***************************************************************************)
(* Proofs about DozeService for any number of services and any length of   *)
(* the queues: a service that is gone lets go of its sensors.              *)
(***************************************************************************)
EXTENDS DozeService, TLAPS

Messages ==
  [do : {"create", "destroy", "screen_on", "screen_off"}, to : Services]
Tasks == {"enable", "disable"}

Typed ==
  /\ mail \in Seq(Messages) /\ service \in {0} \cup Services
  /\ started \in BOOLEAN /\ created \in {0} \cup Services
  /\ started => created \in Services
  /\ tasks \in [SensorObjects -> Seq(Tasks)]

(* Life-cycle messages in a queue q *)
LifeCycle(m) == m.do \in {"create", "destroy"}

(* They alternate; the first fits whether a service lives, the last whether *)
(* it is started.                                                           *)
FirstFits(q, alive) ==
  \A i \in 1..Len(q) :
    LifeCycle(q[i]) /\ (\A j \in 1..i - 1 : ~LifeCycle(q[j])) =>
      (q[i].do = "create" <=> ~alive)
Alternate(q) ==
  \A i, j \in 1..Len(q) :
    /\ i < j /\ LifeCycle(q[i]) /\ LifeCycle(q[j])
    /\ \A k \in i + 1..j - 1 : ~LifeCycle(q[k])
    => q[i].do # q[j].do
LastFits(q, alive, on) ==
  /\ \A i \in 1..Len(q) :
       LifeCycle(q[i]) /\ (\A j \in i + 1..Len(q) : ~LifeCycle(q[j])) =>
         (q[i].do = "create" <=> on)
  /\ (\A i \in 1..Len(q) : ~LifeCycle(q[i])) => (alive <=> on)
Fits(q, alive, on) ==
  FirstFits(q, alive) /\ Alternate(q) /\ LastFits(q, alive, on)

IInv == /\ Typed
        /\ Fits(mail, service # 0, started)
        /\ StoppedServiceLetsGo

------------------------------------------------------------------------------
(* Taking and appending messages keeps a queue alternating. *)
LEMMA Taken ==
  ASSUME NEW q \in Seq(Messages), NEW alive \in BOOLEAN, NEW on \in BOOLEAN,
         q # <<>>, Fits(q, alive, on)
  PROVE  /\ LifeCycle(Head(q)) => (Head(q).do = "create" <=> ~alive)
         /\ LifeCycle(Head(q)) => Fits(Tail(q), ~alive, on)
         /\ ~LifeCycle(Head(q)) => Fits(Tail(q), alive, on)
  <1> DEFINE r == Tail(q)
  <1>1. /\ Len(q) \in Nat /\ Len(q) > 0 /\ Len(r) = Len(q) - 1
        /\ \A i \in 1..Len(r) : r[i] = q[i + 1]
        /\ Head(q) = q[1] /\ q[1] \in Messages
    OBVIOUS
  <1> HIDE DEF r
  <1>2. LifeCycle(q[1]) => (q[1].do = "create" <=> ~alive)
    <2>1. 1 \in 1..Len(q) /\ \A j \in 1..1 - 1 : ~LifeCycle(q[j])
      BY <1>1
    <2> QED
      BY <2>1 DEF Fits, FirstFits
  <1>3. Alternate(r)
    <2> SUFFICES ASSUME NEW i \in 1..Len(r), NEW j \in 1..Len(r), i < j,
                        LifeCycle(r[i]), LifeCycle(r[j]),
                        \A k \in i + 1..j - 1 : ~LifeCycle(r[k])
                 PROVE  r[i].do # r[j].do
      BY DEF Alternate
    <2>1. ASSUME NEW k \in i + 2..j PROVE ~LifeCycle(q[k])
      <3>1. k - 1 \in i + 1..j - 1 /\ k - 1 \in 1..Len(r) /\ k - 1 + 1 = k
        BY <1>1
      <3> QED
        BY <1>1, <3>1
    <2>2. q[i + 1].do # q[j + 1].do
      <3>1. i + 1 \in 1..Len(q) /\ j + 1 \in 1..Len(q) /\ i + 1 < j + 1
        BY <1>1
      <3>2. LifeCycle(q[i + 1]) /\ LifeCycle(q[j + 1])
        BY <1>1
      <3>3. \A k \in (i + 1) + 1..(j + 1) - 1 : ~LifeCycle(q[k])
        BY <2>1
      <3> QED
        BY <3>1, <3>2, <3>3 DEF Fits, Alternate
    <2> QED
      BY <1>1, <2>2
  <1>4. ASSUME NEW i \in 1..Len(r), \A j \in 1..i - 1 : ~LifeCycle(r[j]),
               NEW j \in 2..i
        PROVE  ~LifeCycle(q[j])
    <2>1. j - 1 \in 1..i - 1 /\ j - 1 \in 1..Len(r) /\ j - 1 + 1 = j
      BY <1>1
    <2> QED
      BY <1>1, <1>4, <2>1
  <1>5. ASSUME NEW i \in 1..Len(r), LifeCycle(r[i]),
               \A j \in 1..i - 1 : ~LifeCycle(r[j])
        PROVE  IF LifeCycle(q[1]) THEN r[i].do # q[1].do
                                  ELSE r[i].do = "create" <=> ~alive
    <2>1. i + 1 \in 1..Len(q) /\ LifeCycle(q[i + 1]) /\ r[i] = q[i + 1]
      BY <1>1, <1>5
    <2>2. \A j \in 2..i : ~LifeCycle(q[j])
      BY <1>4, <1>5
    <2>3. CASE LifeCycle(q[1])
      <3>1. 1 \in 1..Len(q) /\ 1 < i + 1
            /\ \A k \in 1 + 1..(i + 1) - 1 : ~LifeCycle(q[k])
        BY <1>1, <2>2
      <3>2. q[1].do # q[i + 1].do
        BY <2>1, <2>3, <3>1 DEF Fits, Alternate
      <3> QED
        BY <2>1, <2>3, <3>2
    <2>4. CASE ~LifeCycle(q[1])
      <3>1. \A j \in 1..(i + 1) - 1 : ~LifeCycle(q[j])
        BY <2>2, <2>4
      <3>2. q[i + 1].do = "create" <=> ~alive
        BY <2>1, <3>1 DEF Fits, FirstFits
      <3> QED
        BY <2>1, <2>4, <3>2
    <2> QED
      BY <2>3, <2>4
  <1>6. ASSUME NEW i \in 1..Len(r), LifeCycle(r[i]),
               \A j \in i + 1..Len(r) : ~LifeCycle(r[j])
        PROVE  r[i].do = "create" <=> on
    <2>1. i + 1 \in 1..Len(q) /\ LifeCycle(q[i + 1])
      BY <1>1, <1>6
    <2>2. ASSUME NEW j \in (i + 1) + 1..Len(q) PROVE ~LifeCycle(q[j])
      <3>1. j - 1 \in i + 1..Len(r) /\ j - 1 \in 1..Len(r) /\ j - 1 + 1 = j
        BY <1>1
      <3> QED
        BY <1>1, <1>6, <3>1
    <2>3. q[i + 1].do = "create" <=> on
      BY <2>1, <2>2 DEF Fits, LastFits
    <2> QED
      BY <1>1, <2>3
  <1>7. ASSUME \A i \in 1..Len(r) : ~LifeCycle(r[i])
        PROVE  IF LifeCycle(q[1]) THEN q[1].do = "create" <=> on ELSE alive <=> on
    <2>1. ASSUME NEW i \in 2..Len(q) PROVE ~LifeCycle(q[i])
      <3>1. i - 1 \in 1..Len(r) /\ i - 1 + 1 = i
        BY <1>1
      <3> QED
        BY <1>1, <1>7, <3>1
    <2>2. CASE LifeCycle(q[1])
      <3>1. 1 \in 1..Len(q) /\ \A j \in 1 + 1..Len(q) : ~LifeCycle(q[j])
        BY <1>1, <2>1
      <3> QED
        BY <2>2, <3>1 DEF Fits, LastFits
    <2>3. CASE ~LifeCycle(q[1])
      <3>1. \A i \in 1..Len(q) : ~LifeCycle(q[i])
        BY <2>1, <2>3
      <3> QED
        BY <2>3, <3>1 DEF Fits, LastFits
    <2> QED
      BY <2>2, <2>3
  <1>8. CASE LifeCycle(q[1])
    <2>1. FirstFits(r, ~alive)
      <3> SUFFICES ASSUME NEW i \in 1..Len(r), LifeCycle(r[i]),
                          \A j \in 1..i - 1 : ~LifeCycle(r[j])
                   PROVE  r[i].do = "create" <=> alive
        BY DEF FirstFits
      <3> QED
        BY <1>2, <1>5, <1>8 DEF LifeCycle
    <2>2. LastFits(r, ~alive, on)
      BY <1>2, <1>6, <1>7, <1>8 DEF LastFits
    <2> QED
      BY <1>1, <1>2, <1>3, <1>8, <2>1, <2>2 DEF Fits, r
  <1>9. CASE ~LifeCycle(q[1])
    <2>1. FirstFits(r, alive)
      BY <1>5, <1>9 DEF FirstFits
    <2>2. LastFits(r, alive, on)
      BY <1>6, <1>7, <1>9 DEF LastFits
    <2> QED
      BY <1>1, <1>3, <1>9, <2>1, <2>2 DEF Fits, r
  <1> QED
    BY <1>8, <1>9

LEMMA Appended ==
  ASSUME NEW q \in Seq(Messages), NEW alive \in BOOLEAN, NEW on \in BOOLEAN,
         NEW m \in Messages, Fits(q, alive, on)
  PROVE  /\ LifeCycle(m) /\ (m.do = "create" <=> ~on) =>
              Fits(Append(q, m), alive, ~on)
         /\ ~LifeCycle(m) => Fits(Append(q, m), alive, on)
  <1> DEFINE r == Append(q, m)
             n == Len(q)
  <1>1. /\ n \in Nat /\ Len(r) = n + 1 /\ r[n + 1] = m
        /\ \A i \in 1..n : r[i] = q[i]
    OBVIOUS
  <1> HIDE DEF r, n
  <1>2. ASSUME NEW i \in 1..n, \A j \in i + 1..n : ~LifeCycle(q[j]), LifeCycle(q[i])
        PROVE  q[i].do = "create" <=> on
    BY <1>2 DEF Fits, LastFits, n
  <1>3. (\A i \in 1..n : ~LifeCycle(q[i])) => (alive <=> on)
    BY DEF Fits, LastFits, n
  <1>4. ASSUME LifeCycle(m) => (m.do = "create" <=> ~on) PROVE FirstFits(r, alive)
    <2> SUFFICES ASSUME NEW i \in 1..Len(r), LifeCycle(r[i]),
                        \A j \in 1..i - 1 : ~LifeCycle(r[j])
                 PROVE  r[i].do = "create" <=> ~alive
      BY DEF FirstFits
    <2>1. CASE i \in 1..n
      <3>1. \A j \in 1..i - 1 : j \in 1..n
        BY <1>1, <2>1
      <3> QED
        BY <1>1, <2>1, <3>1 DEF Fits, FirstFits, n
    <2>2. CASE i = n + 1
      <3>1. \A j \in 1..n : ~LifeCycle(q[j])
        BY <1>1, <2>2
      <3> QED
        BY <1>1, <1>3, <1>4, <2>2, <3>1
    <2> QED
      BY <1>1, <2>1, <2>2
  <1>5. ASSUME LifeCycle(m) => (m.do = "create" <=> ~on) PROVE Alternate(r)
    <2> SUFFICES ASSUME NEW i \in 1..Len(r), NEW j \in 1..Len(r), i < j,
                        LifeCycle(r[i]), LifeCycle(r[j]),
                        \A k \in i + 1..j - 1 : ~LifeCycle(r[k])
                 PROVE  r[i].do # r[j].do
      BY DEF Alternate
    <2>1. i \in 1..n /\ r[i] = q[i]
      BY <1>1
    <2>2. CASE j \in 1..n
      <3>1. \A k \in i + 1..j - 1 : k \in 1..n
        BY <1>1, <2>1, <2>2
      <3> QED
        BY <1>1, <2>1, <2>2, <3>1 DEF Fits, Alternate, n
    <2>3. CASE j = n + 1
      <3>1. \A k \in i + 1..n : k \in 1..n /\ ~LifeCycle(q[k])
        BY <1>1, <2>1, <2>3
      <3>2. q[i].do = "create" <=> on
        BY <1>2, <2>1, <3>1
      <3> QED
        BY <1>1, <1>5, <2>1, <2>3, <3>2
    <2> QED
      BY <1>1, <2>2, <2>3
  <1>6. ASSUME LifeCycle(m), m.do = "create" <=> ~on PROVE LastFits(r, alive, ~on)
    <2>1. ASSUME NEW i \in 1..Len(r), LifeCycle(r[i]),
                 \A j \in i + 1..Len(r) : ~LifeCycle(r[j])
          PROVE  r[i].do = "create" <=> ~on
      <3>1. i = n + 1
        BY <1>1, <1>6, <2>1
      <3> QED
        BY <1>1, <1>6, <3>1
    <2>2. n + 1 \in 1..Len(r) /\ LifeCycle(r[n + 1])
      BY <1>1, <1>6
    <2> QED
      BY <2>1, <2>2 DEF LastFits
  <1>7. ASSUME ~LifeCycle(m) PROVE LastFits(r, alive, on)
    <2>1. ASSUME NEW i \in 1..Len(r), LifeCycle(r[i]),
                 \A j \in i + 1..Len(r) : ~LifeCycle(r[j])
          PROVE  r[i].do = "create" <=> on
      <3>1. i \in 1..n /\ r[i] = q[i]
        BY <1>1, <1>7, <2>1
      <3>2. \A j \in i + 1..n : ~LifeCycle(q[j])
        BY <1>1, <2>1, <3>1
      <3> QED
        BY <1>2, <2>1, <3>1, <3>2
    <2>2. ASSUME \A i \in 1..Len(r) : ~LifeCycle(r[i]) PROVE alive <=> on
      BY <1>1, <1>3, <2>2
    <2> QED
      BY <2>1, <2>2 DEF LastFits
  <1> QED
    BY <1>4, <1>5, <1>6, <1>7 DEF Fits, r

------------------------------------------------------------------------------
LEMMA InitIInv == Init => IInv
  <1> SUFFICES ASSUME Init PROVE IInv
    OBVIOUS
  <1>1. Typed
    <2>1. mail \in Seq(Messages)
      BY DEF Init
    <2>2. tasks \in [SensorObjects -> Seq(Tasks)]
      <3>1. <<>> \in Seq(Tasks)
        OBVIOUS
      <3> QED
        BY <3>1 DEF Init
    <2> QED
      BY <2>1, <2>2 DEF Init, Typed
  <1>2. Fits(mail, service # 0, started)
    <2>1. mail = <<>> /\ service = 0 /\ started = FALSE
      BY DEF Init
    <2>2. \A i \in 1..Len(mail) : FALSE
      BY <2>1
    <2> QED
      BY <2>1, <2>2 DEF Fits, FirstFits, Alternate, LastFits
  <1>3. StoppedServiceLetsGo
    BY DEF Init, StoppedServiceLetsGo
  <1> QED
    BY <1>1, <1>2, <1>3 DEF IInv

(* A step that leaves the threads alone keeps what is said of them. *)
LEMMA ThreadsKept ==
  ASSUME IInv, UNCHANGED threads
  PROVE  /\ StoppedServiceLetsGo' /\ service' \in {0} \cup Services
         /\ tasks' \in [SensorObjects -> Seq(Tasks)]
  BY DEF IInv, Typed, threads, StoppedServiceLetsGo

(* Starting and stopping the service, once for every caller. *)
LEMMA ServiceStarted ==
  ASSUME IInv, StartService, UNCHANGED threads PROVE IInv'
  <1>0. /\ mail \in Seq(Messages) /\ created \in {0} \cup Services
        /\ started \in BOOLEAN /\ (started => created \in Services)
        /\ Fits(mail, service # 0, started) /\ service' = service
    BY DEF IInv, Typed, threads
  <1>1. CASE started
    <2>1. mail' = mail /\ created' = created /\ started' = TRUE /\ started = TRUE
      BY <1>0, <1>1 DEF StartService
    <2> QED
      BY <1>0, <2>1, ThreadsKept DEF IInv, Typed
  <1>2. CASE ~started
    <2> DEFINE m == Message("create", created + 1)
    <2>1. /\ created + 1 \in Services /\ created' = created + 1
          /\ mail' = Append(mail, m) /\ started' = TRUE /\ started = FALSE
      BY <1>0, <1>2, DozeAssumption DEF StartService, Services
    <2>2. m \in Messages /\ m.do = "create" /\ LifeCycle(m)
      BY <2>1 DEF Message, Messages, LifeCycle
    <2> HIDE DEF m
    <2>3. Fits(Append(mail, m), service # 0, ~started)
      <3>1. (service # 0) \in BOOLEAN /\ (m.do = "create" <=> ~started)
        BY <1>2, <2>2
      <3> QED
        BY <1>0, <2>2, <3>1, Appended
    <2>4. Fits(mail', service' # 0, started')
      BY <1>0, <2>1, <2>3 DEF Fits, LastFits
    <2>5. Typed'
      <3>1. mail' \in Seq(Messages)
        BY <1>0, <2>1, <2>2
      <3> QED
        BY <2>1, <3>1, ThreadsKept DEF Typed
    <2> QED
      BY <2>4, <2>5, ThreadsKept DEF IInv
  <1> QED
    BY <1>1, <1>2

LEMMA ServiceStopped ==
  ASSUME IInv, StopService, UNCHANGED threads PROVE IInv'
  <1>0. /\ mail \in Seq(Messages) /\ created \in {0} \cup Services
        /\ started \in BOOLEAN /\ (started => created \in Services)
        /\ Fits(mail, service # 0, started) /\ service' = service
        /\ created' = created /\ started' = FALSE
    BY DEF IInv, Typed, threads, StopService
  <1>1. CASE ~started
    <2>1. mail' = mail /\ started = FALSE
      BY <1>0, <1>1 DEF StopService
    <2> QED
      BY <1>0, <2>1, ThreadsKept DEF IInv, Typed
  <1>2. CASE started
    <2> DEFINE m == Message("destroy", created)
    <2>1. mail' = Append(mail, m) /\ started = TRUE
      BY <1>0, <1>2 DEF StopService
    <2>2. m \in Messages /\ m.do = "destroy" /\ LifeCycle(m)
      BY <1>0, <1>2 DEF Message, Messages, LifeCycle
    <2> HIDE DEF m
    <2>3. Fits(Append(mail, m), service # 0, ~started)
      <3>1. (service # 0) \in BOOLEAN /\ (m.do = "create" <=> ~started)
        BY <1>2, <2>2
      <3> QED
        BY <1>0, <2>2, <3>1, Appended
    <2>4. Fits(mail', service' # 0, started')
      BY <1>0, <2>1, <2>3 DEF Fits, LastFits
    <2>5. Typed'
      <3>1. mail' \in Seq(Messages)
        BY <1>0, <2>1, <2>2
      <3> QED
        BY <1>0, <3>1, ThreadsKept DEF Typed
    <2> QED
      BY <2>4, <2>5, ThreadsKept DEF IInv
  <1> QED
    BY <1>1, <1>2

(* Tasks that the main thread submits go to the live service only. *)
LEMMA SubmitSound ==
  ASSUME IInv, NEW task \in Tasks, NEW who, Submit(task, who), UNCHANGED listening
  PROVE  /\ tasks' \in [SensorObjects -> Seq(Tasks)]
         /\ service' = service => StoppedServiceLetsGo'
  <1>0. tasks \in [SensorObjects -> Seq(Tasks)] /\ StoppedServiceLetsGo
    BY DEF IInv, Typed
  <1>1. ASSUME NEW o \in SensorObjects
        PROVE  /\ tasks'[o] \in Seq(Tasks)
               /\ o[1] # service => tasks'[o] = tasks[o]
    <2>1. tasks[o] \in Seq(Tasks)
      BY <1>0
    <2>2. tasks'[o] = IF o \in {service} \X who THEN Append(tasks[o], task)
                      ELSE tasks[o]
      BY DEF Submit
    <2> QED
      BY <2>1, <2>2
  <1>2. tasks' \in [SensorObjects -> Seq(Tasks)]
    BY <1>1 DEF Submit
  <1>3. service' = service => StoppedServiceLetsGo'
    BY <1>0, <1>1 DEF StoppedServiceLetsGo
  <1> QED
    BY <1>2, <1>3

LEMMA Destroyed == IInv /\ OnDestroy => IInv'
  <1> SUFFICES ASSUME IInv, OnDestroy PROVE IInv'
    OBVIOUS
  <1>0. /\ mail \in Seq(Messages) /\ started \in BOOLEAN
        /\ tasks \in [SensorObjects -> Seq(Tasks)]
        /\ Fits(mail, service # 0, started) /\ StoppedServiceLetsGo
        /\ created \in {0} \cup Services /\ (started => created \in Services)
    BY DEF IInv, Typed
  <1>1. /\ mail # <<>> /\ Head(mail).do = "destroy" /\ mail' = Tail(mail)
        /\ service' = 0 /\ Submit("disable", Sensors)
        /\ UNCHANGED <<started, created, listening>>
    BY DEF OnDestroy, Takes
  <1>2. Fits(mail', service' # 0, started')
    <2>1. LifeCycle(Head(mail)) /\ Head(mail).do # "create"
      BY <1>1 DEF LifeCycle
    <2>2. service # 0 /\ Fits(Tail(mail), ~(service # 0), started)
      BY <1>0, <1>1, <2>1, Taken
    <2> QED
      BY <1>1, <2>2
  <1>3. tasks' \in [SensorObjects -> Seq(Tasks)]
    BY <1>1, SubmitSound DEF Tasks
  <1>4. Typed'
    <2>1. mail' \in Seq(Messages)
      BY <1>0, <1>1
    <2>2. /\ started' \in BOOLEAN /\ created' \in {0} \cup Services
          /\ (started' => created' \in Services) /\ service' = 0
      BY <1>0, <1>1
    <2> QED
      BY <1>3, <2>1, <2>2 DEF Typed
  <1>5. ASSUME NEW o \in SensorObjects, o \in listening' \/ tasks'[o] # <<>>
        PROVE  tasks'[o] # <<>> /\ tasks'[o][Len(tasks'[o])] = "disable"
    <2>1. tasks[o] \in Seq(Tasks)
      BY <1>0
    <2>2. CASE o[1] = service
      <3>1. o \in {service} \X Sensors
        BY <2>2 DEF SensorObjects
      <3>2. tasks'[o] = Append(tasks[o], "disable")
        BY <1>1, <3>1 DEF Submit
      <3> QED
        BY <2>1, <3>2 DEF Tasks
    <2>3. CASE o[1] # service
      <3>1. tasks'[o] = tasks[o]
        BY <1>1, <2>3 DEF Submit
      <3> QED
        BY <1>0, <1>1, <1>5, <2>3, <3>1 DEF StoppedServiceLetsGo
    <2> QED
      BY <2>2, <2>3
  <1>6. StoppedServiceLetsGo'
    BY <1>5 DEF StoppedServiceLetsGo
  <1> QED
    BY <1>2, <1>4, <1>6 DEF IInv

(* The other messages that the main thread takes. *)
LEMMA Created == IInv /\ OnCreate => IInv'
  <1> SUFFICES ASSUME IInv, OnCreate PROVE IInv'
    OBVIOUS
  <1>0. /\ mail \in Seq(Messages) /\ started \in BOOLEAN
        /\ tasks \in [SensorObjects -> Seq(Tasks)]
        /\ Fits(mail, service # 0, started) /\ StoppedServiceLetsGo
        /\ created \in {0} \cup Services /\ (started => created \in Services)
    BY DEF IInv, Typed
  <1>1. /\ mail # <<>> /\ Head(mail).do = "create" /\ mail' = Tail(mail)
        /\ service' = Head(mail).to
        /\ UNCHANGED <<started, created, tasks, listening>>
    BY DEF OnCreate, Takes
  <1>2. Head(mail) \in Messages /\ LifeCycle(Head(mail)) /\ mail' \in Seq(Messages)
    BY <1>0, <1>1 DEF LifeCycle
  <1>3. service' \in Services /\ service' # 0
    BY <1>1, <1>2 DEF Messages, Services
  <1>4. service = 0 /\ Fits(Tail(mail), ~(service # 0), started)
    BY <1>0, <1>1, <1>2, Taken
  <1>5. Fits(mail', service' # 0, started')
    BY <1>1, <1>3, <1>4 DEF Fits, FirstFits, LastFits
  <1>6. Typed'
    <2>1. /\ started' \in BOOLEAN /\ created' \in {0} \cup Services
          /\ (started' => created' \in Services)
          /\ tasks' \in [SensorObjects -> Seq(Tasks)]
      BY <1>0, <1>1
    <2> QED
      BY <1>2, <1>3, <2>1 DEF Typed
  <1>7. StoppedServiceLetsGo'
    <2> SUFFICES ASSUME NEW o \in SensorObjects, o[1] # service',
                        o \in listening' \/ tasks'[o] # <<>>
                 PROVE  tasks'[o] # <<>> /\ tasks'[o][Len(tasks'[o])] = "disable"
      BY DEF StoppedServiceLetsGo
    <2>1. o[1] # service
      BY <1>4 DEF SensorObjects, Services
    <2> QED
      BY <1>0, <1>1, <2>1 DEF StoppedServiceLetsGo
  <1> QED
    BY <1>5, <1>6, <1>7 DEF IInv

LEMMA ScreenTaken == \A on \in BOOLEAN : IInv /\ OnScreen(on) => IInv'
  <1> SUFFICES ASSUME NEW on \in BOOLEAN, IInv, OnScreen(on) PROVE IInv'
    OBVIOUS
  <1>0. /\ mail \in Seq(Messages) /\ started \in BOOLEAN
        /\ tasks \in [SensorObjects -> Seq(Tasks)]
        /\ service \in {0} \cup Services
        /\ Fits(mail, service # 0, started) /\ StoppedServiceLetsGo
        /\ created \in {0} \cup Services /\ (started => created \in Services)
    BY DEF IInv, Typed
  <1>1. /\ mail # <<>> /\ mail' = Tail(mail)
        /\ Head(mail).do = (IF on THEN "screen_on" ELSE "screen_off")
        /\ UNCHANGED <<started, created, service, listening>>
    BY DEF OnScreen, Takes
  <1>2. ~LifeCycle(Head(mail)) /\ mail' \in Seq(Messages)
    BY <1>0, <1>1 DEF LifeCycle
  <1>3. Fits(mail', service' # 0, started')
    <2>1. Fits(Tail(mail), service # 0, started)
      BY <1>0, <1>1, <1>2, Taken
    <2> QED
      BY <1>1, <2>1
  <1>4. tasks' \in [SensorObjects -> Seq(Tasks)] /\ StoppedServiceLetsGo'
    <2>1. CASE Head(mail).to = service
      <3>1. PICK task \in Tasks : Submit(task, Wanted)
        BY <2>1 DEF OnScreen, Tasks
      <3> QED
        BY <1>1, <3>1, SubmitSound
    <2>2. CASE Head(mail).to # service
      <3>1. tasks' = tasks
        BY <2>2 DEF OnScreen
      <3> QED
        BY <1>0, <1>1, <3>1 DEF StoppedServiceLetsGo
    <2> QED
      BY <2>1, <2>2
  <1>5. Typed'
    <2>1. /\ started' \in BOOLEAN /\ created' \in {0} \cup Services
          /\ (started' => created' \in Services) /\ service' \in {0} \cup Services
      BY <1>0, <1>1
    <2> QED
      BY <1>2, <1>4, <2>1 DEF Typed
  <1> QED
    BY <1>3, <1>4, <1>5 DEF IInv

(* A queue keeps its last task until it is the next. *)
LEMMA TailEndsAlike ==
  ASSUME NEW q \in Seq(Tasks), q # <<>>, Len(q) # 1
  PROVE  Tail(q) # <<>> /\ Tail(q)[Len(Tail(q))] = q[Len(q)]
  <1> DEFINE r == Tail(q)
  <1>1. /\ Len(q) \in Nat /\ Len(q) > 0 /\ Len(r) = Len(q) - 1
        /\ \A i \in 1..Len(r) : r[i] = q[i + 1]
    OBVIOUS
  <1>2. r # <<>> /\ Len(r) \in 1..Len(r) /\ Len(r) + 1 = Len(q)
    <2>1. Len(r) \in Nat /\ Len(r) >= 1
      BY <1>1
    <2> HIDE DEF r
    <2>2. r # <<>>
      BY <2>1
    <2> QED
      BY <1>1, <2>1, <2>2
  <1> HIDE DEF r
  <1>3. r[Len(r)] = q[Len(q)]
    BY <1>1, <1>2
  <1> QED
    BY <1>2, <1>3 DEF r

(* An executor runs a task: the last one of a service that is gone disables. *)
LEMMA Executed == \A o \in SensorObjects : IInv /\ Executor(o) => IInv'
  <1> SUFFICES ASSUME NEW o \in SensorObjects, IInv, Executor(o) PROVE IInv'
    OBVIOUS
  <1>0. /\ tasks \in [SensorObjects -> Seq(Tasks)] /\ StoppedServiceLetsGo
        /\ Fits(mail, service # 0, started) /\ Typed
    BY DEF IInv, Typed
  <1>1. PICK task \in Tasks :
          /\ Runs(o, task) /\ UNCHANGED <<started, created, mail, service>>
          /\ listening' = IF task = "enable" THEN listening \cup {o}
                          ELSE listening \ {o}
    <2>1. CASE Enable(o)
      BY <2>1 DEF Enable, Tasks
    <2>2. CASE Disable(o)
      BY <2>2 DEF Disable, Tasks
    <2> QED
      BY <2>1, <2>2 DEF Executor
  <1>2. /\ tasks[o] \in Seq(Tasks) /\ tasks[o] # <<>> /\ Head(tasks[o]) = task
        /\ tasks'[o] = Tail(tasks[o])
        /\ \A p \in SensorObjects : p # o => tasks'[p] = tasks[p]
        /\ DOMAIN tasks' = SensorObjects /\ tasks' = [tasks EXCEPT ![o] = Tail(@)]
    BY <1>0, <1>1 DEF Runs
  <1>3. tasks' \in [SensorObjects -> Seq(Tasks)]
    <2>1. Tail(tasks[o]) \in Seq(Tasks)
      BY <1>2
    <2> QED
      BY <1>0, <1>2, <2>1
  <1>4. Typed'
    BY <1>0, <1>1, <1>3 DEF Typed
  <1>5. Fits(mail', service' # 0, started')
    BY <1>0, <1>1
  <1>6. StoppedServiceLetsGo'
    <2> SUFFICES ASSUME NEW p \in SensorObjects, p[1] # service',
                        p \in listening' \/ tasks'[p] # <<>>
                 PROVE  tasks'[p] # <<>> /\ tasks'[p][Len(tasks'[p])] = "disable"
      BY DEF StoppedServiceLetsGo
    <2>1. CASE p # o
      BY <1>0, <1>1, <1>2, <2>1 DEF StoppedServiceLetsGo
    <2>2. CASE p = o
      <3>1. tasks[o][Len(tasks[o])] = "disable"
        BY <1>0, <1>1, <1>2, <2>2 DEF StoppedServiceLetsGo
      <3>2. CASE Len(tasks[o]) = 1
        <4>1. task = "disable" /\ tasks'[o] = <<>>
          BY <1>2, <3>1, <3>2
        <4> QED
          BY <1>1, <2>2, <4>1
      <3>3. CASE Len(tasks[o]) # 1
        <4>1. Tail(tasks[o]) # <<>>
              /\ Tail(tasks[o])[Len(Tail(tasks[o]))] = tasks[o][Len(tasks[o])]
          BY <1>2, <3>3, TailEndsAlike
        <4> QED
          BY <1>2, <2>2, <3>1, <4>1
      <3> QED
        BY <3>2, <3>3
    <2> QED
      BY <2>1, <2>2
  <1> QED
    BY <1>4, <1>5, <1>6 DEF IInv

LEMMA ScreenSwitched == IInv /\ DisplaySwitched => IInv'
  <1> SUFFICES ASSUME IInv, DisplaySwitched PROVE IInv'
    OBVIOUS
  <1>0. /\ mail \in Seq(Messages) /\ started \in BOOLEAN /\ Typed
        /\ service \in {0} \cup Services /\ Fits(mail, service # 0, started)
    BY DEF IInv, Typed
  <1>1. UNCHANGED <<started, created, service, tasks, listening, threads>>
    BY DEF DisplaySwitched, threads
  <1>2. mail' \in Seq(Messages) /\ Fits(mail', service' # 0, started')
    <2>1. CASE service = 0
      BY <1>0, <1>1, <2>1 DEF DisplaySwitched
    <2>2. CASE service # 0
      <3> DEFINE m == Message(IF display THEN "screen_off" ELSE "screen_on", service)
      <3>1. mail' = Append(mail, m)
        BY <2>2 DEF DisplaySwitched
      <3>2. m \in Messages /\ ~LifeCycle(m)
        BY <1>0, <2>2 DEF Message, Messages, LifeCycle
      <3> HIDE DEF m
      <3>3. (service # 0) \in BOOLEAN
        OBVIOUS
      <3>4. Fits(Append(mail, m), service # 0, started)
        BY <1>0, <3>2, <3>3, Appended
      <3>5. mail' \in Seq(Messages)
        BY <1>0, <3>1, <3>2
      <3> QED
        BY <1>1, <3>1, <3>4, <3>5
    <2> QED
      BY <2>1, <2>2
  <1>3. Typed'
    BY <1>0, <1>1, <1>2 DEF Typed
  <1> QED
    BY <1>1, <1>2, <1>3, ThreadsKept DEF IInv

(* The process dies, and with it every listener and task. *)
LEMMA Died == IInv /\ ProcessDies => IInv'
  <1> SUFFICES ASSUME IInv, ProcessDies PROVE IInv'
    OBVIOUS
  <1>0. /\ started \in BOOLEAN /\ created \in {0} \cup Services
        /\ (started => created \in Services)
    BY DEF IInv, Typed
  <1>1. /\ service' = 0 /\ listening' = {} /\ started' = started
        /\ tasks' = [o \in SensorObjects |-> <<>>]
    BY DEF ProcessDies
  <1>2. /\ mail' \in Seq(Messages) /\ created' \in {0} \cup Services
        /\ (started' => created' \in Services)
        /\ Fits(mail', service' # 0, started')
    <2>1. CASE started
      <3>1. created' \in Services /\ mail' = <<Message("create", created')>>
        BY <1>0, <2>1, DozeAssumption DEF ProcessDies, Services
      <3> DEFINE m == Message("create", created')
      <3>2. m \in Messages /\ m.do = "create"
        BY <3>1 DEF Message, Messages
      <3> HIDE DEF m
      <3>3. /\ mail' \in Seq(Messages) /\ Len(mail') = 1
            /\ mail'[1].do = "create"
        BY <3>1, <3>2 DEF m
      <3>4. \A i \in 1..Len(mail') : i = 1
        BY <3>3
      <3>5. started' = TRUE /\ ~(service' # 0) /\ 1 \in 1..Len(mail')
        BY <1>0, <1>1, <2>1, <3>3
      <3>6. Fits(mail', service' # 0, started')
        BY <3>3, <3>4, <3>5 DEF Fits, FirstFits, Alternate, LastFits, LifeCycle
      <3> QED
        BY <3>1, <3>3, <3>6
    <2>2. CASE ~started
      <3>1. mail' = <<>> /\ created' = created /\ started' = FALSE
        BY <1>0, <2>2 DEF ProcessDies
      <3>2. \A i \in 1..Len(mail') : FALSE
        BY <3>1
      <3>3. Fits(mail', service' # 0, started')
        BY <1>1, <3>1, <3>2 DEF Fits, FirstFits, Alternate, LastFits
      <3>4. mail' \in Seq(Messages)
        BY <3>1
      <3> QED
        BY <1>0, <3>1, <3>3, <3>4
    <2> QED
      BY <2>1, <2>2
  <1>3. tasks' \in [SensorObjects -> Seq(Tasks)]
    <2>1. <<>> \in Seq(Tasks)
      OBVIOUS
    <2> QED
      BY <1>1, <2>1
  <1>4. Typed'
    <2>1. started' \in BOOLEAN
      BY <1>0, <1>1
    <2> QED
      BY <1>1, <1>2, <1>3, <2>1 DEF Typed
  <1>5. StoppedServiceLetsGo'
    BY <1>1 DEF StoppedServiceLetsGo
  <1> QED
    BY <1>2, <1>4, <1>5 DEF IInv

LEMMA NextIInv == IInv /\ [Next]_vars => IInv'
  <1> SUFFICES ASSUME IInv, [Next]_vars PROVE IInv'
    OBVIOUS
  <1>1. CASE BootCompleted
    <2>1. CASE dozeEnabled /\ SensorsEnabled
      BY <1>1, <2>1, ServiceStarted DEF BootCompleted
    <2>2. CASE ~(dozeEnabled /\ SensorsEnabled)
      <3>1. UNCHANGED <<started, created, mail, threads>>
        BY <1>1, <2>2 DEF BootCompleted
      <3> QED
        BY <3>1 DEF IInv, Typed, StoppedServiceLetsGo, threads
    <2> QED
      BY <2>1, <2>2
  <1>2. CASE DozeSwitched
    BY <1>2, ServiceStarted, ServiceStopped DEF DozeSwitched, CheckDozeService
  <1>3. ASSUME NEW g \in Gestures, GestureSwitched(g) PROVE IInv'
    BY <1>3 DEF GestureSwitched, threads, IInv, Typed, StoppedServiceLetsGo
  <1>4. CASE MainThread
    BY <1>4, Created, Destroyed, ScreenTaken DEF MainThread
  <1>5. ASSUME NEW o \in SensorObjects, Executor(o) PROVE IInv'
    BY <1>5, Executed
  <1>6. CASE DisplaySwitched
    BY <1>6, ScreenSwitched
  <1>7. CASE ProcessDies
    BY <1>7, Died
  <1>8. CASE UNCHANGED vars
    BY <1>8 DEF vars, threads, IInv, Typed, StoppedServiceLetsGo
  <1> QED
    BY <1>1, <1>2, <1>3, <1>4, <1>5, <1>6, <1>7, <1>8 DEF Next

LEMMA Invariance == Spec => []IInv
  <1> QED
    BY InitIInv, NextIInv, PTL DEF Spec

(* Whatever the user, the screen and the system do, and in whatever order   *)
(* the main thread and the executors run: onDestroy of the service has the  *)
(* last word on the listeners of its sensors.                               *)
THEOREM GoneServiceSilent == Spec => []StoppedServiceLetsGo
  <1>1. IInv => StoppedServiceLetsGo
    BY DEF IInv
  <1> QED
    BY <1>1, Invariance, PTL
==============================================================================
