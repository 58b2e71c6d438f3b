------------------------------ MODULE BootProofs ------------------------------
(***************************************************************************)
(* Proofs about Boot for any bootloaders, permissions, modes and values,   *)
(* any number of boots and any failing writes: what init, the script, the  *)
(* lineagehw classes and the audio server make of the same files and       *)
(* properties.                                                             *)
(***************************************************************************)
EXTENDS Boot, TLAPS, SequenceTheorems, WellFoundedInduction

------------------------------------------------------------------------------
(* The files *)

(* A node is opened for both or for nothing, and the file on /data exists    *)
(* only with a mode in it.                                                   *)
File(open, line) == [r |-> open, w |-> open, line |-> line]
Sound(f) ==
  /\ DOMAIN f = Paths
  /\ \A p \in Paths : \E open \in BOOLEAN : \E line : f[p] = File(open, line)
  /\ f["mode"].line \in DisplayModes
  /\ f["default"] = Absent \/ \E m \in DisplayModes : f["default"] = File(TRUE, m)

LEMMA Fields ==
  ASSUME NEW open \in BOOLEAN, NEW line
  PROVE  /\ File(open, line).r = open /\ File(open, line).w = open
         /\ File(open, line).line = line
         /\ \A l : [File(open, line) EXCEPT !.line = l] = File(open, l)
         /\ File(open, line) = Absent => ~open
<1>1. /\ File(open, line).r = open /\ File(open, line).w = open
      /\ File(open, line).line = line
  BY DEF File
<1>2. \A l : [File(open, line) EXCEPT !.line = l] = File(open, l)
  BY DEF File
<1>3. ASSUME File(open, line) = Absent PROVE ~open
  <2>1. Absent.r = FALSE
    BY DEF Absent
  <2>2. open = FALSE
    BY <1>1, <1>3, <2>1, Zenon
  <2>3. QED
    BY <2>2
<1>4. QED
  BY <1>1, <1>2, <1>3

(* The nodes that controls write *)
Controls == Switches \cup {"vibrator", "rgb"}

LEMMA Names ==
  /\ Nodes \subseteq Paths /\ "default" \in Paths /\ "default" \notin Nodes
  /\ Controls \subseteq Nodes \ {"mode"}
  /\ {"mode", "reading", "vibrator", "rgb"} \subseteq Nodes
  /\ Switches \subseteq Controls
  /\ NoMode \notin DisplayModes /\ 1 \in DisplayModes /\ 4 \in DisplayModes
  /\ Absent.r = FALSE
BY DEF Paths, Nodes, Switches, Controls, NoMode, DisplayModes, Absent

(* In sound files a node can be written when it can be read. *)
LEMMA Opened ==
  ASSUME NEW f, Sound(f), NEW p \in Paths
  PROVE  f[p].r \in BOOLEAN /\ f[p].w = f[p].r
<1>1. PICK open \in BOOLEAN : \E l : f[p] = File(open, l)
  BY DEF Sound
<1>2. QED
  BY <1>1, Fields

LEMMA WriteLineSets ==
  ASSUME NEW f, Sound(f), NEW p \in Paths, NEW line, NEW ok \in BOOLEAN
  PROVE  WriteLine(f, p, line, ok) =
           IF Writes(f, p, ok) THEN [f EXCEPT ![p] = File(TRUE, line)] ELSE f
<1> SUFFICES ASSUME Writes(f, p, ok)
             PROVE  WriteLine(f, p, line, ok) = [f EXCEPT ![p] = File(TRUE, line)]
  BY DEF WriteLine
<1>1. CASE f[p] = Absent
  BY <1>1 DEF WriteLine, File
<1>2. CASE f[p] # Absent
  <2>1. f[p].w
    BY <1>2 DEF Writes, Creatable
  <2>2. PICK open \in BOOLEAN : \E l : f[p] = File(open, l)
    BY DEF Sound
  <2>3. [f[p] EXCEPT !.line = line] = File(TRUE, line)
    <3>1. PICK l : f[p] = File(open, l)
      BY <2>2
    <3>2. open = TRUE
      <4>1. f[p].w = open
        BY <3>1, Fields
      <4>2. QED
        BY <2>1, <4>1
    <3>3. [File(open, l) EXCEPT !.line = line] = File(open, line)
      BY Fields
    <3>4. QED
      BY <3>1, <3>2, <3>3
  <2>4. QED
    BY <1>2, <2>3 DEF WriteLine
<1>3. QED
  BY <1>1, <1>2

(* A write to a node *)
LEMMA NodeWritten ==
  ASSUME NEW f, Sound(f), NEW p \in Nodes, NEW line, NEW ok \in BOOLEAN,
         p = "mode" => line \in DisplayModes
  PROVE  LET n == WriteLine(f, p, line, ok)
         IN  /\ Sound(n)
             /\ \A q \in Paths : q # p => n[q] = f[q]
             /\ n[p].r <=> f[p].r
             /\ n[p].line = IF Writes(f, p, ok) THEN line ELSE f[p].line
             /\ Writes(f, p, ok) <=> ok /\ f[p].r
<1> DEFINE n == WriteLine(f, p, line, ok)
<1>1. n = IF Writes(f, p, ok) THEN [f EXCEPT ![p] = File(TRUE, line)] ELSE f
  BY WriteLineSets DEF Paths
<1>2. p \in Paths /\ p # "default" /\ "mode" \in Paths /\ "default" \in Paths
  BY DEF Paths, Nodes, Switches
<1>3. Writes(f, p, ok) <=> ok /\ f[p].r
  <2>1. Writes(f, p, ok) <=> ok /\ f[p].w
    BY <1>2 DEF Writes, Creatable
  <2>2. PICK open \in BOOLEAN : \E l : f[p] = File(open, l)
    BY <1>2 DEF Sound
  <2>3. f[p].w = open /\ f[p].r = open
    BY <2>2, Fields
  <2>4. QED
    BY <2>1, <2>3
<1> HIDE DEF n
<1>4. CASE ~Writes(f, p, ok)
  BY <1>1, <1>3, <1>4 DEF n
<1>5. CASE Writes(f, p, ok)
  <2>1. /\ DOMAIN n = Paths /\ n[p] = File(TRUE, line)
        /\ \A q \in Paths : q # p => n[q] = f[q]
    BY <1>1, <1>2, <1>5 DEF Sound
  <2>2. \A q \in Paths : \E open \in BOOLEAN : \E l : n[q] = File(open, l)
    BY <2>1 DEF Sound
  <2>3. n["mode"].line \in DisplayModes
    <3>1. File(TRUE, line).line = line
      BY Fields
    <3>2. QED
      BY <1>2, <2>1, <3>1 DEF Sound
  <2>4. Sound(n)
    BY <1>2, <2>1, <2>2, <2>3 DEF Sound
  <2>5. QED
    <3>1. f[p].r = TRUE /\ n[p].r = TRUE /\ n[p].line = line
      BY <1>3, <1>5, <1>2, <2>1, Fields DEF Sound
    <3>2. QED
      BY <1>3, <1>5, <2>1, <2>4, <3>1 DEF n
<1>6. QED
  BY <1>4, <1>5

LEMMA DefaultWritten ==
  ASSUME NEW f, Sound(f), NEW mode \in DisplayModes, NEW ok \in BOOLEAN
  PROVE  LET n == WriteLine(f, "default", mode, ok)
         IN  /\ Sound(n)
             /\ \A q \in Nodes : n[q] = f[q]
             /\ n["default"] = IF ok THEN File(TRUE, mode) ELSE f["default"]
             /\ Writes(f, "default", ok) <=> ok
<1> DEFINE n == WriteLine(f, "default", mode, ok)
<1>1. /\ "default" \in Paths /\ "mode" \in Nodes
      /\ \A q \in Nodes : q \in Paths /\ q # "default"
  BY DEF Paths, Nodes, Switches
<1>2. n = IF Writes(f, "default", ok)
          THEN [f EXCEPT !["default"] = File(TRUE, mode)] ELSE f
  BY <1>1, WriteLineSets
<1>3. Writes(f, "default", ok) <=> ok
  BY Fields DEF Writes, Creatable, Sound
<1> HIDE DEF n
<1>4. CASE ~ok
  BY <1>1, <1>2, <1>3, <1>4 DEF n
<1>5. CASE ok
  <2>1. /\ DOMAIN n = Paths /\ n["default"] = File(TRUE, mode)
        /\ \A q \in Paths : q # "default" => n[q] = f[q]
    BY <1>1, <1>2, <1>3, <1>5 DEF Sound
  <2>2. \A q \in Paths : \E open \in BOOLEAN : \E l : n[q] = File(open, l)
    BY <2>1 DEF Sound
  <2>3. Sound(n)
    BY <1>1, <2>1, <2>2 DEF Sound
  <2>4. QED
    BY <1>1, <1>3, <1>5, <2>1, <2>3 DEF n
<1>6. QED
  BY <1>4, <1>5

(* setMode *)
Shows(f, n) ==
  /\ Sound(n)
  /\ \A q \in Nodes : q # "mode" => n[q] = f[q]
  /\ n["mode"].r <=> f["mode"].r
Keeps(f, n) == Shows(f, n) /\ n["default"] = f["default"]
Stores(f, n, mode) == Shows(f, n) /\ n["default"] = File(TRUE, mode)

LEMMA AnswerTells ==
  ASSUME NEW f, Sound(f), NEW mode \in DisplayModes \cup {NoMode},
         NEW okNode \in BOOLEAN, NEW okFile \in BOOLEAN
  PROVE  SetModeAnswer(f, mode, TRUE, okNode, okFile)
           <=> mode # NoMode /\ okNode /\ f["mode"].r /\ okFile
<1>1. Writes(f, "mode", okNode) <=> okNode /\ f["mode"].r
  <2>1. f["mode"].w = f["mode"].r
    BY Opened, Names
  <2>2. QED
    BY <2>1 DEF Writes, Creatable
<1>2. Writes(f, "default", okFile) <=> okFile
  BY Fields DEF Writes, Creatable, Sound
<1>3. QED
  BY <1>1, <1>2 DEF SetModeAnswer

LEMMA SetModeSets ==
  ASSUME NEW f, Sound(f), NEW mode \in DisplayModes \cup {NoMode},
         NEW d \in BOOLEAN, NEW okNode \in BOOLEAN, NEW okFile \in BOOLEAN
  PROVE  IF d /\ mode # NoMode /\ okNode /\ f["mode"].r /\ okFile
         THEN Stores(f, SetMode(f, mode, d, okNode, okFile), mode)
         ELSE Keeps(f, SetMode(f, mode, d, okNode, okFile))
<1> DEFINE shown == WriteLine(f, "mode", mode, okNode)
           full == WriteLine(shown, "default", mode, okFile)
           n == SetMode(f, mode, d, okNode, okFile)
<1>1. "mode" \in Nodes /\ "default" \in Paths /\ NoMode \notin DisplayModes
      /\ \A q \in Nodes : q \in Paths /\ q # "default"
  BY DEF Paths, Nodes, Switches, NoMode, DisplayModes
<1>2. CASE mode = NoMode
  BY <1>1, <1>2 DEF SetMode, Keeps, Shows
<1>3. CASE mode # NoMode
  <2>1. /\ Sound(shown) /\ \A q \in Paths : q # "mode" => shown[q] = f[q]
        /\ shown["mode"].r <=> f["mode"].r
        /\ Writes(f, "mode", okNode) <=> okNode /\ f["mode"].r
    BY <1>1, <1>3, NodeWritten
  <2>2. n = IF d /\ Writes(f, "mode", okNode) THEN full ELSE shown
    BY <1>3 DEF SetMode
  <2> HIDE DEF shown
  <2>3. /\ Sound(full) /\ \A q \in Nodes : full[q] = shown[q]
        /\ full["default"] = IF okFile THEN File(TRUE, mode) ELSE shown["default"]
    BY <1>3, <2>1, DefaultWritten
  <2> HIDE DEF full, n
  <2>4. QED
    <3>1. Keeps(f, shown)
      BY <1>1, <2>1 DEF Keeps, Shows
    <3>2. IF okFile THEN Stores(f, full, mode) ELSE Keeps(f, full)
      BY <1>1, <2>1, <2>3 DEF Keeps, Stores, Shows
    <3>3. QED
      BY <1>3, <2>1, <2>2, <3>1, <3>2 DEF n
<1>4. QED
  BY <1>2, <1>3

------------------------------------------------------------------------------
(* The invariant *)

(* The file on /data holds the mode chosen last. *)
Stored ==
  /\ Sound(files)
  /\ chosen \in DisplayModes \cup {NoMode}
  /\ chosen = NoMode => files["default"] = Absent
  /\ chosen # NoMode => files["default"] = File(TRUE, chosen)

(* The nodes hold what was accepted, of the controls whose nodes are open,   *)
(* and the reading mode is supported as long as its class is loaded.         *)
LineOf(c, value) == IF c \in Switches THEN SwitchLine(c, value) ELSE value
Held ==
  /\ DOMAIN accepted \subseteq Controls
  /\ \A c \in DOMAIN accepted :
       /\ c \in Switches => accepted[c] \in BOOLEAN
       /\ files[c].r /\ files[c].line = LineOf(c, accepted[c])
  /\ classes => (readingLoaded <=> files["reading"].r)
  /\ phase = "off" => ~classes /\ DOMAIN accepted = {}

(* Without failures the classes leave no readable mode unstored. *)
Complete ==
  /\ failures \in Nat
  /\ classes /\ failures = 0 /\ files["mode"].r => chosen # NoMode

IInv == Stored /\ Held /\ Complete

LEMMA AcceptedSets ==
  ASSUME NEW c, NEW v, NEW written \in BOOLEAN, Accepted(c, v, written)
  PROVE  /\ ~written => accepted' = accepted
         /\ written => /\ DOMAIN accepted' = {c} \cup DOMAIN accepted
                       /\ accepted'[c] = v
                       /\ \A d \in DOMAIN accepted : d # c => accepted'[d] = accepted[d]
BY DEF Accepted

(* init writes to a node, whoever may open it. *)
LEMMA LineSet ==
  ASSUME NEW f, Sound(f), NEW p \in Nodes, NEW line,
         p = "mode" => line \in DisplayModes,
         NEW n, DOMAIN n = Paths, n[p] = [f[p] EXCEPT !.line = line],
         \A q \in Paths : q # p => n[q] = f[q]
  PROVE  /\ Sound(n)
         /\ \A q \in Paths : (n[q].r <=> f[q].r) /\ (q # p => n[q] = f[q])
<1>1. PICK open \in BOOLEAN : \E l : f[p] = File(open, l)
  BY Names DEF Sound
<1>2. PICK l : f[p] = File(open, l)
  BY <1>1
<1>3. [File(open, l) EXCEPT !.line = line] = File(open, line)
  BY Fields
<1>4. n[p] = File(open, line)
  BY <1>2, <1>3
<1>5. /\ DOMAIN n = Paths /\ n[p] = File(open, line)
      /\ \A q \in Paths : q # p => n[q] = f[q]
  BY <1>4
<1>6. \A q \in Paths : \E o \in BOOLEAN : \E k : n[q] = File(o, k)
  BY <1>5 DEF Sound
<1>7. n[p].r = open /\ f[p].r = open /\ n[p].line = line
  BY <1>2, <1>5, Fields
<1>8. Sound(n)
  BY <1>5, <1>6, <1>7, Names DEF Sound
<1>9. QED
  BY <1>5, <1>7, <1>8

(* The kernel's nodes when it starts *)
LEMMA KernelSound ==
  ASSUME NEW open, NEW stored, NEW b \in BOOLEAN, NEW l, stored = File(b, l),
         stored = Absent \/ \E m \in DisplayModes : stored = File(TRUE, m)
  PROVE  /\ Sound(KernelFiles(open, stored))
         /\ KernelFiles(open, stored)["default"] = stored
<1> DEFINE f == KernelFiles(open, stored)
<1>1. DOMAIN f = Paths /\ f["default"] = stored
  BY Names DEF KernelFiles
<1>2. ASSUME NEW p \in Nodes
      PROVE  \E o \in BOOLEAN : f[p] = File(o, KernelLine[p])
  <2> DEFINE o == p \in open
  <2>1. f[p] = File(o, KernelLine[p])
    BY Names DEF KernelFiles, File
  <2>2. o \in BOOLEAN
    OBVIOUS
  <2> HIDE DEF o
  <2>3. QED
    BY <2>1, <2>2
<1>3. f["mode"].line = 1
  <2>1. PICK o \in BOOLEAN : f["mode"] = File(o, KernelLine["mode"])
    BY <1>2, Names
  <2>2. KernelLine["mode"] = 1
    BY DEF KernelLine
  <2>3. QED
    BY <2>1, <2>2, Fields
<1> HIDE DEF f
<1>4. ASSUME NEW p \in Paths PROVE \E o \in BOOLEAN : \E line : f[p] = File(o, line)
  <2>1. CASE p \in Nodes
    BY <1>2, <2>1
  <2>2. CASE p = "default"
    BY <1>1, <2>2
  <2>3. QED
    BY <2>1, <2>2 DEF Paths
<1>5. QED
  BY <1>1, <1>3, <1>4, Names DEF Sound, f

LEMMA InitIInv == Init => IInv
<1> SUFFICES ASSUME Init PROVE IInv
  OBVIOUS
<1>1. Absent = File(FALSE, Unreadable)
  BY DEF Absent, File
<1>2. Sound(files) /\ files["default"] = Absent
  BY <1>1, KernelSound DEF Init
<1>3. Stored
  BY <1>2, Names DEF Init, Stored
<1>4. QED
  BY <1>3, Names DEF Init, IInv, Held, Complete, NothingSet

LEMMA PowerOnKeeps == ASSUME IInv, PowerOn PROVE IInv'
<1>1. PICK open \in Permissions :
        files' = [KernelFiles(open, files["default"]) EXCEPT
                    !["vibrator"].line = DefaultIntensity]
  BY DEF PowerOn
<1> DEFINE f == KernelFiles(open, files["default"])
<1>2. Sound(f) /\ f["default"] = files["default"]
  <2>1. PICK b \in BOOLEAN : \E l : files["default"] = File(b, l)
    BY Names DEF IInv, Stored, Sound
  <2>2. PICK l : files["default"] = File(b, l)
    BY <2>1
  <2>3. \/ files["default"] = Absent
        \/ \E m \in DisplayModes : files["default"] = File(TRUE, m)
    BY DEF IInv, Stored, Sound
  <2>4. QED
    BY <2>2, <2>3, KernelSound
<1>3. Sound(files') /\ files'["default"] = files["default"]
  <2> HIDE DEF f
  <2>1. files' = [f EXCEPT !["vibrator"].line = DefaultIntensity]
    BY <1>1 DEF f
  <2>2. /\ DOMAIN files' = Paths
        /\ files'["vibrator"] = [f["vibrator"] EXCEPT !.line = DefaultIntensity]
        /\ \A q \in Paths : q # "vibrator" => files'[q] = f[q]
    BY <1>2, <2>1, Names DEF Sound
  <2>3. Sound(files')
    BY <1>2, <2>2, LineSet, Names
  <2>4. QED
    BY <1>2, <2>2, <2>3, Names
<1>4. QED
  BY <1>3 DEF PowerOn, IInv, Stored, Held, Complete

LEMMA BootCompletedKeeps == ASSUME IInv, BootCompleted PROVE IInv'
<1>1. files' = [files EXCEPT !["mode"].line = 4]
  BY DEF BootCompleted, RootWrite
<1>2. /\ Sound(files')
      /\ \A q \in Paths : /\ files'[q].r <=> files[q].r
                          /\ (q # "mode" => files'[q] = files[q])
  <2>1. Sound(files) /\ "mode" \in Nodes /\ 4 \in DisplayModes
    BY Names DEF IInv, Stored
  <2>2. /\ DOMAIN files' = Paths
        /\ files'["mode"] = [files["mode"] EXCEPT !.line = 4]
        /\ \A q \in Paths : q # "mode" => files'[q] = files[q]
    BY <1>1, <2>1, Names DEF Sound
  <2>3. QED
    BY <2>1, <2>2, LineSet
<1>3. Stored'
  BY <1>2, Names DEF BootCompleted, IInv, Stored
<1>4. Held'
  BY <1>2, Names DEF BootCompleted, IInv, Held
<1>5. Complete'
  BY <1>2, Names DEF BootCompleted, IInv, Complete
<1>6. QED
  BY <1>3, <1>4, <1>5 DEF IInv

LEMMA PowerOffKeeps == ASSUME IInv, PowerOff PROVE IInv'
BY DEF PowerOff, IInv, Stored, Held, Complete, NothingSet

LEMMA ProcessDiesKeeps == ASSUME IInv, ProcessDies PROVE IInv'
BY DEF ProcessDies, IInv, Stored, Held, Complete

(* The file tells the default once one was chosen. *)
LEMMA DefaultIsChosen ==
  ASSUME Stored PROVE GetDefaultMode(files) = chosen
<1>1. CASE chosen = NoMode
  <2>1. ReadLine(files, "default") = Unreadable
    BY <1>1 DEF Stored, ReadLine, Absent
  <2>2. QED
    BY <1>1, <2>1 DEF GetDefaultMode, ModeOf, NoMode, Unreadable, DisplayModes
<1>2. CASE chosen # NoMode
  <2>1. ReadLine(files, "default") = chosen
    BY <1>2, Fields DEF Stored, ReadLine
  <2>2. QED
    BY <1>2, <2>1 DEF GetDefaultMode, ModeOf, Stored
<1>3. QED
  BY <1>1, <1>2

LEMMA LoadClassesKeeps == ASSUME IInv, LoadClasses PROVE IInv'
<1>1. PICK ok \in BOOLEAN :
        /\ Outcome(ok)
        /\ files' = LoadDisplayModes(files, ok, ok)
        /\ chosen' = IF chosen = NoMode THEN GetDefaultMode(files') ELSE chosen
  BY DEF LoadClasses
<1>2. /\ Sound(files) /\ "mode" \in Paths /\ "default" \in Paths
      /\ files["mode"].r \in BOOLEAN
      /\ GetDefaultMode(files) = chosen
      /\ Readable(files, "default") <=> chosen # NoMode
  BY Names, Opened, DefaultIsChosen, Fields DEF IInv, Stored, Readable
<1> DEFINE mode == GetCurrentMode(files)
<1>3. files["mode"].r => mode \in DisplayModes
  BY <1>2 DEF GetCurrentMode, ModeOf, ReadLine, Sound
<1>4. mode \in DisplayModes \cup {NoMode}
  BY DEF GetCurrentMode, ModeOf
<1> HIDE DEF mode
<1>5. /\ Sound(files') /\ \A q \in Nodes : files'[q].r <=> files[q].r
      /\ \A q \in Controls : files'[q] = files[q]
      /\ files'["default"] =
           IF chosen = NoMode /\ files["mode"].r /\ ok
           THEN File(TRUE, mode) ELSE files["default"]
  <2>1. CASE chosen # NoMode
    <3>1. files' = SetMode(files, chosen, FALSE, ok, ok)
      BY <1>1, <1>2, <2>1 DEF LoadDisplayModes
    <3>2. chosen \in DisplayModes \cup {NoMode}
      BY DEF IInv, Stored
    <3>3. Keeps(files, files')
      BY <1>2, <3>1, <3>2, SetModeSets
    <3>4. QED
      BY <2>1, <3>3, Names DEF Keeps, Shows
  <2>2. CASE chosen = NoMode /\ files["mode"].r
    <3>1. files' = SetMode(files, mode, TRUE, ok, ok)
      BY <1>1, <1>2, <2>2 DEF LoadDisplayModes, Readable, mode
    <3>2. IF ok THEN Stores(files, files', mode) ELSE Keeps(files, files')
      BY <1>2, <1>3, <1>4, <2>2, <3>1, SetModeSets, Names
    <3>3. QED
      BY <1>3, <2>2, <3>2, Names DEF Keeps, Stores, Shows
  <2>3. CASE chosen = NoMode /\ ~files["mode"].r
    <3>1. files' = files
      BY <1>1, <1>2, <2>3 DEF LoadDisplayModes, Readable
    <3>2. QED
      BY <1>2, <2>3, <3>1
  <2>4. QED
    BY <1>2, <2>1, <2>2, <2>3
<1>6. Stored' /\ (chosen' = NoMode <=> chosen = NoMode /\ ~(files["mode"].r /\ ok))
  <2>1. CASE chosen # NoMode
    BY <1>1, <1>5, <2>1 DEF IInv, Stored
  <2>2. CASE chosen = NoMode /\ files["mode"].r /\ ok
    <3>1. chosen' = mode /\ mode \in DisplayModes
      <4>1. ReadLine(files', "default") = mode
        <5>1. files'["default"] = File(TRUE, mode)
          BY <1>5, <2>2
        <5>2. files'["default"].r /\ files'["default"].line = mode
          BY <5>1, Fields
        <5>3. QED
          BY <5>2 DEF ReadLine
      <4>2. QED
        BY <1>1, <1>3, <2>2, <4>1 DEF GetDefaultMode, ModeOf
    <3>2. QED
      BY <1>5, <2>2, <3>1, Names DEF Stored
  <2>3. CASE chosen = NoMode /\ ~(files["mode"].r /\ ok)
    <3>1. files'["default"] = Absent
      BY <1>5, <2>3 DEF IInv, Stored
    <3>2. chosen' = NoMode
      <4>1. ReadLine(files', "default") = Unreadable
        BY <3>1 DEF ReadLine, Absent
      <4>2. QED
        BY <1>1, <2>3, <4>1 DEF GetDefaultMode, ModeOf, Unreadable, DisplayModes
    <3>3. QED
      BY <1>5, <2>3, <3>1, <3>2 DEF Stored
  <2>4. QED
    BY <2>1, <2>2, <2>3
<1>7. Held'
  <2>1. readingLoaded' <=> files'["reading"].r
    BY <1>2, <1>5, Opened, Names DEF LoadClasses, SwitchSupported, Readable, Writable
  <2>2. QED
    BY <1>5, <2>1, Names DEF LoadClasses, IInv, Held
<1>8. Complete'
  <2>1. failures' \in Nat /\ (failures' = 0 => failures = 0 /\ ok)
    BY <1>1 DEF Outcome, IInv, Complete
  <2>2. QED
    BY <1>5, <1>6, <2>1, Names DEF LoadClasses, Complete
<1>9. QED
  BY <1>6, <1>7, <1>8 DEF IInv

LEMMA UserSetsModeKeeps == ASSUME IInv, UserSetsMode PROVE IInv'
<1>1. PICK mode \in UserModes \cap Range(AvailableModes(files)),
            d \in BOOLEAN, okNode \in BOOLEAN, okFile \in BOOLEAN :
        /\ Outcome(okNode /\ okFile)
        /\ files' = SetMode(files, mode, d, okNode, okFile)
        /\ chosen' = IF d /\ SetModeAnswer(files, mode, TRUE, okNode, okFile)
                     THEN mode ELSE chosen
  BY DEF UserSetsMode
<1>2. mode \in DisplayModes \cup {NoMode}
  BY <1>1 DEF AvailableModes, Range
<1>3. /\ Shows(files, files')
      /\ \/ files'["default"] = files["default"] /\ chosen' = chosen
         \/ files'["default"] = File(TRUE, mode) /\ chosen' = mode /\ mode # NoMode
  <2>1. Sound(files)
    BY DEF IInv, Stored
  <2>2. SetModeAnswer(files, mode, TRUE, okNode, okFile)
          <=> mode # NoMode /\ okNode /\ files["mode"].r /\ okFile
    BY <1>2, <2>1, AnswerTells
  <2>3. IF d /\ mode # NoMode /\ okNode /\ files["mode"].r /\ okFile
        THEN Stores(files, files', mode) ELSE Keeps(files, files')
    BY <1>1, <1>2, <2>1, SetModeSets
  <2>4. QED
    BY <1>1, <2>2, <2>3 DEF Keeps, Stores
<1>4. Stored' /\ (chosen' = NoMode => chosen = NoMode)
  BY <1>2, <1>3 DEF IInv, Stored, Shows
<1>5. Held'
  BY <1>3, Names DEF UserSetsMode, IInv, Held, Shows
<1>6. Complete'
  <2>1. failures' \in Nat /\ (failures' = 0 => failures = 0)
    BY <1>1 DEF Outcome, IInv, Complete
  <2>2. QED
    BY <1>3, <1>4, <2>1 DEF UserSetsMode, IInv, Complete, Shows
<1>7. QED
  BY <1>4, <1>5, <1>6 DEF IInv

(* A control's write: the node holds what was accepted, and nothing else     *)
(* changes.                                                                  *)
LEMMA ControlWritten ==
  ASSUME IInv, classes, NEW c \in Controls, NEW value, NEW ok \in BOOLEAN,
         c \in Switches => value \in BOOLEAN,
         Outcome(ok),
         files' = WriteLine(files, c, LineOf(c, value), ok),
         Accepted(c, value, Writes(files, c, ok)),
         UNCHANGED <<phase, classes, readingLoaded, chosen>>
  PROVE  IInv'
<1>1. c \in Nodes /\ c # "mode" /\ Sound(files)
  BY Names DEF IInv, Stored
<1>2. /\ Sound(files')
      /\ \A q \in Paths : q # c => files'[q] = files[q]
      /\ files'[c].r <=> files[c].r
      /\ files'[c].line = IF Writes(files, c, ok) THEN LineOf(c, value)
                          ELSE files[c].line
      /\ Writes(files, c, ok) <=> ok /\ files[c].r
  BY <1>1, NodeWritten
<1>3. Stored' /\ \A q \in Paths : files'[q].r <=> files[q].r
  BY <1>1, <1>2, Names DEF IInv, Stored
<1>4. Held'
  <2>1. CASE ~Writes(files, c, ok)
    <3>1. accepted' = accepted /\ files'[c].line = files[c].line
      BY <1>2, <2>1, AcceptedSets DEF Writes
    <3>2. \A q \in Controls : /\ files'[q].r <=> files[q].r
                                /\ files'[q].line = files[q].line
      BY <1>2, <3>1, Names
    <3>3. QED
      BY <1>3, <3>1, <3>2, Names DEF IInv, Held
  <2>2. CASE Writes(files, c, ok)
    <3>1. /\ DOMAIN accepted' = {c} \cup DOMAIN accepted
          /\ accepted'[c] = value
          /\ \A d \in DOMAIN accepted : d # c => accepted'[d] = accepted[d]
      BY <2>2 DEF Accepted
    <3>2. \A d \in DOMAIN accepted' :
            /\ d \in Switches => accepted'[d] \in BOOLEAN
            /\ files'[d].r /\ files'[d].line = LineOf(d, accepted'[d])
      BY <1>2, <2>2, <3>1, Names DEF IInv, Held
    <3>3. QED
      BY <1>3, <3>1, <3>2, Names DEF IInv, Held
  <2>3. QED
    BY <2>1, <2>2
<1>5. Complete'
  <2>1. failures' \in Nat /\ (failures' = 0 => failures = 0)
    BY DEF Outcome, IInv, Complete
  <2>2. QED
    BY <1>3, <2>1, Names DEF IInv, Complete
<1>6. QED
  BY <1>3, <1>4, <1>5 DEF IInv

LEMMA UserControlsKeeps ==
  ASSUME IInv, UserSwitches \/ UserSetsIntensity \/ UserSetsColors PROVE IInv'
<1>1. CASE UserSwitches
  <2>1. PICK s \in Switches, on \in BOOLEAN, ok \in BOOLEAN :
          /\ Outcome(ok)
          /\ files' = SetSwitch(files, s, on, ok)
          /\ Accepted(s, on, Writes(files, s, ok))
    BY <1>1 DEF UserSwitches
  <2>2. files' = WriteLine(files, s, LineOf(s, on), ok)
    BY <2>1 DEF SetSwitch, LineOf
  <2>3. QED
    BY <1>1, <2>1, <2>2, ControlWritten, Names DEF UserSwitches
<1>2. CASE UserSetsIntensity
  <2>1. PICK i \in Intensities, ok \in BOOLEAN :
          /\ Outcome(ok)
          /\ files' = SetIntensity(files, i, ok)
          /\ Accepted("vibrator", i, Writes(files, "vibrator", ok))
    BY <1>2 DEF UserSetsIntensity
  <2>2. "vibrator" \in Controls /\ "vibrator" \notin Switches
    BY DEF Controls, Switches
  <2>3. files' = WriteLine(files, "vibrator", LineOf("vibrator", i), ok)
    BY <2>1, <2>2 DEF SetIntensity, LineOf, WriteLine, Writes, Writable, Creatable
  <2>4. QED
    BY <1>2, <2>1, <2>2, <2>3, ControlWritten DEF UserSetsIntensity
<1>3. CASE UserSetsColors
  <2>1. PICK colors \in Colors, ok \in BOOLEAN :
          /\ Outcome(ok)
          /\ files' = SetColors(files, colors, ok)
          /\ Accepted("rgb", colors, Writes(files, "rgb", ok))
    BY <1>3 DEF UserSetsColors
  <2>2. "rgb" \in Controls /\ "rgb" \notin Switches
    BY DEF Controls, Switches
  <2>3. files' = WriteLine(files, "rgb", LineOf("rgb", colors), ok)
    BY <2>1, <2>2 DEF SetColors, LineOf
  <2>4. QED
    BY <1>3, <2>1, <2>2, <2>3, ControlWritten DEF UserSetsColors
<1>4. QED
  BY <1>1, <1>2, <1>3

LEMMA NextIInv == ASSUME IInv, [Next]_vars PROVE IInv'
<1>1. CASE UNCHANGED <<phase, files, classes, readingLoaded, chosen, accepted>>
           /\ failures' \in Nat /\ (failures' = 0 => failures = 0)
  BY <1>1 DEF IInv, Stored, Held, Complete
<1>2. CASE OpenAudio
  <2>1. failures' \in Nat /\ (failures' = 0 => failures = 0)
    BY <1>2 DEF OpenAudio, Outcome, IInv, Complete
  <2>2. QED
    BY <1>1, <1>2, <2>1 DEF OpenAudio
<1>3. CASE CloseAudio \/ AudioAnswers \/ MasterRefused \/ AudioDump \/ UNCHANGED vars
  BY <1>1, <1>3
     DEF CloseAudio, AudioAnswers, MasterRefused, AudioDump, vars, IInv, Complete
<1>4. QED
  BY <1>2, <1>3, PowerOnKeeps, BootCompletedKeeps, PowerOffKeeps, LoadClassesKeeps,
     ProcessDiesKeeps, UserSetsModeKeeps, UserControlsKeeps DEF Next

LEMMA FilesInvariance == Spec => []IInv
BY InitIInv, NextIInv, PTL DEF Spec

(* The mode that setMode, or the first load, stored last is what             *)
(* getDefaultMode answers, over reboots, deaths of the process, failed       *)
(* writes and the script's own write of the mode's node.                     *)
THEOREM DefaultSurvives == Spec => []UserDefaultSurvives
<1>1. IInv => UserDefaultSurvives
  BY DefaultIsChosen DEF IInv, UserDefaultSurvives
<1>2. QED
  BY <1>1, FilesInvariance, PTL

(* A lineagehw class reports what its last accepted set call wrote, also     *)
(* from another process, and a write of another class or of init changes     *)
(* nothing of it.                                                            *)
THEOREM ControlsAgree == Spec => []ControlsReport
<1>1. IInv => ControlsReport
  <2> SUFFICES ASSUME IInv, classes, NEW c \in DOMAIN accepted
               PROVE  Reported(c) = accepted[c]
    BY DEF ControlsReport
  <2>1. /\ c \in Controls /\ files[c].r /\ files[c].line = LineOf(c, accepted[c])
        /\ c \in Switches => accepted[c] \in BOOLEAN
        /\ readingLoaded <=> files["reading"].r
    BY DEF IInv, Held
  <2>2. CASE c \in Switches
    <3>1. ReadLine(files, c) = SwitchLine(c, accepted[c])
      BY <2>1, <2>2 DEF ReadLine, LineOf
    <3>2. SwitchEnabled(files, c, readingLoaded) <=> accepted[c]
      BY <2>1, <2>2, <3>1 DEF SwitchEnabled, SwitchLine
    <3>3. SwitchEnabled(files, c, readingLoaded) \in BOOLEAN
      BY DEF SwitchEnabled
    <3>4. Reported(c) = SwitchEnabled(files, c, readingLoaded)
      BY <2>2 DEF Reported, Switches
    <3>5. SwitchEnabled(files, c, readingLoaded) = accepted[c]
      BY <2>1, <2>2, <3>2, <3>3, Zenon
    <3>6. QED
      BY <3>4, <3>5, Zenon
  <2>3. CASE c = "vibrator"
    BY <2>1, <2>3 DEF Reported, CurIntensity, Readable, LineOf, Switches
  <2>4. CASE c = "rgb"
    BY <2>1, <2>4 DEF Reported, CurColors, ReadLine, LineOf, Switches
  <2>5. QED
    BY <2>1, <2>2, <2>3, <2>4 DEF Controls
<1>2. QED
  BY <1>1, FilesInvariance, PTL

(* The static initialiser of DisplayModeControl leaves isSupported true      *)
(* wherever it can read the node and no write failed.                        *)
THEOREM LoadedIsSupported == Spec => []SupportedOnceLoaded
<1>1. IInv => SupportedOnceLoaded
  <2> SUFFICES ASSUME IInv, classes, failures = 0, SwitchSupported(files, "mode")
               PROVE  DisplaySupported(files)
    BY DEF SupportedOnceLoaded
  <2>1. files["mode"].r /\ files["mode"].w
    BY DEF SwitchSupported, Readable, Writable
  <2>2. files["default"] = File(TRUE, chosen)
    BY <2>1 DEF IInv, Complete, Stored
  <2>3. files["default"].r /\ files["default"].w
    BY <2>2, Fields
  <2>4. QED
    BY <2>1, <2>3 DEF DisplaySupported, Readable, Writable
<1>2. QED
  BY <1>1, FilesInvariance, PTL

------------------------------------------------------------------------------
(* init and the audio device *)

(* The branches in the order of the code: how long their patterns are, and   *)
(* that the long ones share their first two parts with no shorter one.       *)
Variants == {FirstS6[i] : i \in 1..7} \cup {LastS6[i] : i \in 1..7}
              \cup {FirstEdge[i] : i \in 1..6} \cup {LastEdge[i] : i \in 1..7}
Ordered(i, p) ==
  /\ Len(p) \in 1..3
  /\ Len(p) = 1 <=> i > 25
  /\ Len(p) = 2 => p[2] \notin {"R", "W"}
  /\ Len(p) = 3 /\ i > 1 => p[2] \in {"R", "W"}
Listed(list, k, offset) ==
  /\ list \in Seq(Variants) /\ Len(list) = k
  /\ \A i \in 1..k : Ordered(i + offset, list[i].pattern)

LEMMA FirstS6Table ==
  Listed(FirstS6, 7, 0)
<1>1. /\ Len(FirstS6) = 7 /\ DOMAIN FirstS6 = 1..7
      /\ FirstS6 = [i \in 1..7 |-> FirstS6[i]]
  BY DEF FirstS6
<1>2. \A i \in 1..7 : Ordered(i + 0, FirstS6[i].pattern)
  BY DEF FirstS6, Branch, Ordered
<1>3. FirstS6 \in Seq(Variants)
  BY <1>1 DEF Variants
<1>4. QED
  BY <1>1, <1>2, <1>3 DEF Listed

LEMMA LastS6Table ==
  Listed(LastS6, 7, 7)
<1>1. /\ Len(LastS6) = 7 /\ DOMAIN LastS6 = 1..7
      /\ LastS6 = [i \in 1..7 |-> LastS6[i]]
  BY DEF LastS6
<1>2. \A i \in 1..7 : Ordered(i + 7, LastS6[i].pattern)
  BY DEF LastS6, Branch, Ordered
<1>3. LastS6 \in Seq(Variants)
  BY <1>1 DEF Variants
<1>4. QED
  BY <1>1, <1>2, <1>3 DEF Listed

LEMMA FirstEdgeTable ==
  Listed(FirstEdge, 6, 14)
<1>1. /\ Len(FirstEdge) = 6 /\ DOMAIN FirstEdge = 1..6
      /\ FirstEdge = [i \in 1..6 |-> FirstEdge[i]]
  BY DEF FirstEdge
<1>2. \A i \in 1..6 : Ordered(i + 14, FirstEdge[i].pattern)
  BY DEF FirstEdge, Branch, Ordered
<1>3. FirstEdge \in Seq(Variants)
  BY <1>1 DEF Variants
<1>4. QED
  BY <1>1, <1>2, <1>3 DEF Listed

LEMMA LastEdgeTable ==
  Listed(LastEdge, 7, 20)
<1>1. /\ Len(LastEdge) = 7 /\ DOMAIN LastEdge = 1..7
      /\ LastEdge = [i \in 1..7 |-> LastEdge[i]]
  BY DEF LastEdge
<1>2. \A i \in 1..7 : Ordered(i + 20, LastEdge[i].pattern)
  BY DEF LastEdge, Branch, Ordered
<1>3. LastEdge \in Seq(Variants)
  BY <1>1 DEF Variants
<1>4. QED
  BY <1>1, <1>2, <1>3 DEF Listed


LEMMA Joined ==
  ASSUME NEW s, NEW t, NEW k \in Nat, NEW l \in Nat, Listed(s, k, 0), Listed(t, l, k)
  PROVE  Listed(s \o t, k + l, 0)
<1>1. /\ s \in Seq(Variants) /\ Len(s) = k /\ \A i \in 1..k : Ordered(i + 0, s[i].pattern)
      /\ t \in Seq(Variants) /\ Len(t) = l /\ \A i \in 1..l : Ordered(i + k, t[i].pattern)
  BY DEF Listed
<1>2. s \o t \in Seq(Variants) /\ Len(s \o t) = Len(s) + Len(t)
  BY <1>1, ConcatProperties, Zenon
<1>3. \A i \in 1..(Len(s) + Len(t)) :
        (s \o t)[i] = IF i <= Len(s) THEN s[i] ELSE t[i - Len(s)]
  BY <1>1, ConcatProperties, Zenon
<1> DEFINE n == s \o t
<1>4. n \in Seq(Variants) /\ Len(n) = k + l
  BY <1>1, <1>2
<1>5. \A i \in 1..(k + l) : n[i] = IF i <= k THEN s[i] ELSE t[i - k]
  BY <1>1, <1>3
<1> HIDE DEF n
<1>6. ASSUME NEW i \in 1..(k + l) PROVE Ordered(i + 0, n[i].pattern)
  <2>1. CASE i <= k
    BY <1>1, <1>5, <2>1
  <2>2. CASE k < i
    <3>1. i - k \in 1..l /\ n[i] = t[i - k] /\ (i - k) + k = i + 0
      BY <1>5, <2>2
    <3>2. QED
      BY <1>1, <3>1
  <2>3. QED
    BY <2>1, <2>2
<1>7. Listed(n, k + l, 0)
  BY <1>4, <1>6 DEF Listed
<1>8. QED
  BY <1>7 DEF n

LEMMA BranchesTable ==
  Len(Branches) = 27 /\ \A i \in 1..27 : Ordered(i, Branches[i].pattern)
<1>1. Listed(FirstS6 \o LastS6, 7 + 7, 0)
  BY FirstS6Table, LastS6Table, Joined, Zenon
<1>2. Listed(FirstS6 \o LastS6 \o FirstEdge, 14 + 6, 0)
  <2>1. Listed(FirstS6 \o LastS6, 14, 0)
    BY <1>1
  <2>2. QED
    BY <2>1, FirstEdgeTable, Joined, Zenon
<1>3. Listed(Branches, 20 + 7, 0)
  <2>1. Listed(FirstS6 \o LastS6 \o FirstEdge, 20, 0)
    BY <1>2
  <2>2. QED
    BY <2>1, LastEdgeTable, Joined, Zenon DEF Branches
<1>4. QED
  BY <1>3 DEF Listed

(* A prefix has the parts of the name *)
LEMMA PrefixAgrees ==
  ASSUME NEW s, NEW t, Len(s) \in Nat, IsPrefix(s, t)
  PROVE  \A i \in 1..Len(s) : s[i] = t[i]
<1>1. SubSeq(s, 1, Len(s)) = SubSeq(t, 1, Len(s))
  BY DEF IsPrefix
<1>2. \A i \in 1..(Len(s) - 1 + 1) : SubSeq(s, 1, Len(s))[i] = s[1 + i - 1]
  <2> DEFINE S == {s[i] : i \in 1..Len(s)}
  <2>1. \A i \in 1..Len(s) : s[i] \in S
    OBVIOUS
  <2> HIDE DEF S
  <2>2. QED
    BY <2>1, SubSeqProperties
<1>3. \A i \in 1..(Len(s) - 1 + 1) : SubSeq(t, 1, Len(s))[i] = t[1 + i - 1]
  <2> DEFINE S == {t[i] : i \in 1..Len(s)}
  <2>1. \A i \in 1..Len(s) : t[i] \in S
    OBVIOUS
  <2> HIDE DEF S
  <2>2. QED
    BY <2>1, SubSeqProperties
<1>4. QED
  BY <1>1, <1>2, <1>3

(* No branch after the one that is taken has a longer pattern that matches,  *)
(* too.                                                                      *)
LEMMA FirstIsLongest ==
  ASSUME NEW name, NEW i \in 1..27, NEW j \in 1..27, i < j,
         IsPrefix(Branches[i].pattern, name), IsPrefix(Branches[j].pattern, name)
  PROVE  Len(Branches[j].pattern) <= Len(Branches[i].pattern)
<1> DEFINE p == Branches[i].pattern
           q == Branches[j].pattern
<1>1. Ordered(i, p) /\ Ordered(j, q)
  BY BranchesTable
<1> HIDE DEF p, q
<1>2. ASSUME Len(p) < Len(q) PROVE FALSE
  <2>1. Len(p) \in 1..3 /\ Len(q) \in 1..3 /\ Len(p) # 1
    <3>1. (Len(p) = 1 <=> i > 25) /\ (Len(q) = 1 <=> j > 25)
      BY <1>1 DEF Ordered
    <3>2. Len(p) \in 1..3 /\ Len(q) \in 1..3
      BY <1>1 DEF Ordered
    <3>3. QED
      BY <1>2, <3>1, <3>2
  <2>2. Len(p) = 2 /\ Len(q) = 3
    <3>1. \A a, b \in 1..3 : a # 1 /\ a < b => a = 2 /\ b = 3
      OBVIOUS
    <3>2. QED
      BY <1>2, <2>1, <3>1, Zenon
  <2>3. p[2] = name[2] /\ q[2] = name[2]
    BY <2>2, PrefixAgrees DEF p, q
  <2>4. QED
    BY <1>1, <2>2, <2>3 DEF Ordered
<1>3. QED
  BY <1>1, <1>2 DEF Ordered, p, q

Matching(name) == {i \in 1..Len(Branches) : IsPrefix(Branches[i].pattern, name)}
LEMMA BranchChosen ==
  ASSUME NEW name
  PROVE  IF Matching(name) = {} THEN BranchOf(name) = 0
         ELSE /\ BranchOf(name) \in Matching(name)
              /\ \A j \in Matching(name) : BranchOf(name) <= j
<1> DEFINE I == Matching(name)
<1>1. BranchOf(name) = IF I # {} THEN Min(I) ELSE 0
  BY DEF BranchOf, SelectInSeq, Matching
<1>2. ASSUME I # {} PROVE Min(I) \in I /\ \A j \in I : Min(I) <= j
  <2>1. I \subseteq Nat
    BY BranchesTable DEF Matching
  <2> HIDE DEF I
  <2>2. PICK i \in I : \A j \in I : ~(<<j, i>> \in OpToRel(<, Nat))
    BY <1>2, <2>1, WFMin, NatLessThanWellFounded
  <2>3. ASSUME NEW j \in I PROVE i <= j
    <3>1. i \in Nat /\ j \in Nat
      BY <2>1
    <3>2. ~(<<j, i>> \in OpToRel(<, Nat))
      BY <2>2, Zenon
    <3>3. QED
      BY <3>1, <3>2 DEF OpToRel
  <2>4. QED
    BY <2>3 DEF Min
<1>3. QED
  BY <1>1, <1>2

LEMMA AudienceLoaded ==
  ASSUME NEW name, NEW large
  PROVE  LoadProperties(name, "exynos5", large).audience <=>
           LET b == BranchOf(name) IN b # 0 /\ "audience" \in Branches[b].traits
<1> DEFINE b == BranchOf(name)
           n == Override(Factory, Branches[b], large)
<1>1. n.audience <=> "audience" \in Branches[b].traits
  BY DEF Override, PowerProfile, DualSim, Cdma, Factory
<1>2. ~Factory.audience
  BY DEF Factory
<1>3. LoadProperties(name, "exynos5", large) = IF b = 0 THEN Factory ELSE n
  BY DEF LoadProperties
<1> HIDE DEF b, n
<1>4. QED
  BY <1>1, <1>2, <1>3 DEF b

(* The properties are init's while the phone is on, and an open device was   *)
(* opened after init had set them.                                           *)
DeviceInv ==
  /\ phase # "off" => props = LoadProperties(bootloader, Platform, s7e)
  /\ audio.open =>
       /\ phase # "off"
       /\ audio.mixers = Cards /\ audio.steps # 0
       /\ audio.audience <=> props.audience
       /\ audio.audience => ~audio.forced /\ ~audio.wbAmr

LEMMA DeviceInit == Init => DeviceInv
BY DEF Init, DeviceInv, NoDevice

LEMMA DeviceNext == ASSUME DeviceInv, [Next]_vars PROVE DeviceInv'
<1>1. CASE UNCHANGED <<phase, bootloader, s7e, props, audio>>
  BY <1>1 DEF DeviceInv
<1>2. CASE PowerOn
  BY <1>2 DEF PowerOn, DeviceInv
<1>3. CASE BootCompleted
  BY <1>3 DEF BootCompleted, DeviceInv
<1>4. CASE PowerOff \/ CloseAudio
  <2>1. ~audio'.open
    BY <1>4 DEF PowerOff, CloseAudio, AdevClose, NoDevice
  <2>2. phase' # "off" => UNCHANGED <<phase, bootloader, s7e, props>>
    BY <1>4 DEF PowerOff, CloseAudio
  <2>3. QED
    BY <2>1, <2>2 DEF DeviceInv
<1>5. CASE OpenAudio
  <2>1. PICK config \in VoiceConfigs, refused \in Refusals, routes, ril \in BOOLEAN :
          audio' = AdevOpen(props.audience, config, VolumeSteps,
                            [c \in Cards |-> refused], routes, ril)
    BY <1>5 DEF OpenAudio
  <2> DEFINE mixers == MixerInit([c \in Cards |-> refused], routes)
  <2>2. mixers # {} => mixers = Cards
    BY DEF MixerInit
  <2>3. RilOpen(VolumeSteps) # 0
    BY DEF RilOpen, VolumeStepsDefault
  <2> HIDE DEF mixers
  <2>4. audio'.open =>
          /\ audio'.mixers = Cards /\ audio'.steps # 0
          /\ audio'.audience <=> props.audience
          /\ audio'.audience => ~audio'.forced /\ ~audio'.wbAmr
    BY <2>1, <2>2, <2>3
       DEF AdevOpen, NoDevice, ForcedWideband, ForcedVoiceConfig, mixers
  <2>5. QED
    BY <1>5, <2>4 DEF OpenAudio, DeviceInv
<1>6. QED
  BY <1>1, <1>2, <1>3, <1>4, <1>5
     DEF Next, vars, LoadClasses, ProcessDies, UserSetsMode, UserSwitches,
         UserSetsIntensity, UserSetsColors, AudioAnswers, MasterRefused, AudioDump

LEMMA DeviceInvariance == Spec => []DeviceInv
BY DeviceInit, DeviceNext, PTL DEF Spec

(* vendor_load_properties takes the branch of the phone's own variant: of    *)
(* all patterns that are found in the bootloader's name none is longer, for  *)
(* any name, though the code tries them in an order of its own.              *)
THEOREM VariantIsOwn ==
  ASSUME Platform = "exynos5"
  PROVE  Spec => []MostSpecificVariant
<1>1. DeviceInv => MostSpecificVariant
  <2> SUFFICES ASSUME DeviceInv, phase # "off", Matching(bootloader) # {}
               PROVE  \E i \in Matching(bootloader) :
                        /\ props = Override(Factory, Branches[i], s7e)
                        /\ \A j \in Matching(bootloader) :
                             Len(Branches[j].pattern) <= Len(Branches[i].pattern)
    BY DEF MostSpecificVariant, Matching
  <2> DEFINE i == BranchOf(bootloader)
  <2>1. i \in Matching(bootloader) /\ \A j \in Matching(bootloader) : i <= j
    BY BranchChosen
  <2>2. i \in 1..27 /\ IsPrefix(Branches[i].pattern, bootloader)
    BY <2>1, BranchesTable DEF Matching
  <2>3. props = Override(Factory, Branches[i], s7e)
    BY <2>2 DEF DeviceInv, LoadProperties
  <2> HIDE DEF i
  <2>4. ASSUME NEW j \in Matching(bootloader)
        PROVE  Len(Branches[j].pattern) <= Len(Branches[i].pattern)
    <3>1. j \in 1..27 /\ IsPrefix(Branches[j].pattern, bootloader) /\ i <= j
      BY <2>1, BranchesTable DEF Matching
    <3>2. CASE i < j
      BY <2>2, <3>1, <3>2, FirstIsLongest
    <3>3. CASE i = j
      <4>1. Len(Branches[i].pattern) \in 1..3
        BY <2>2, BranchesTable DEF Ordered
      <4>2. QED
        BY <3>3, <4>1
    <3>4. QED
      BY <2>2, <3>1, <3>2, <3>3
  <2>5. QED
    BY <2>1, <2>3, <2>4
<1>2. QED
  BY <1>1, DeviceInvariance, PTL

(* An audio device that adev_open has opened has the mixers of all cards     *)
(* that streams use and steps of the call volume, and has the voice          *)
(* processor exactly when init found the bootloader's variant to have one.   *)
THEOREM DeviceIsComplete ==
  ASSUME Platform = "exynos5"
  PROVE  Spec => []DeviceComplete
<1>1. DeviceInv => DeviceComplete
  <2> SUFFICES ASSUME DeviceInv, audio.open PROVE DeviceComplete
    BY DEF DeviceComplete
  <2>1. \A i \in DOMAIN PcmDevices : PcmDevices[i].card \in audio.mixers
    BY DEF DeviceInv, Cards
  <2>2. audio.audience <=>
          LET b == BranchOf(bootloader) IN b # 0 /\ "audience" \in Branches[b].traits
    BY AudienceLoaded DEF DeviceInv
  <2>3. QED
    BY <2>1, <2>2 DEF DeviceInv, DeviceComplete
<1>2. QED
  BY <1>1, DeviceInvariance, PTL
==============================================================================
