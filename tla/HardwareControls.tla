--------------------------- MODULE HardwareControls ---------------------------
(***************************************************************************)
(* The lineagehw classes: display modes, the on/off switches, the vibrator *)
(* and the colour calibration.  All their state is in files, the kernel's  *)
(* nodes and one file on /data; an operator takes the files and returns    *)
(* what a call answers or leaves.  A file is [r, w, line]: readable,       *)
(* writable, the number in its line, Unreadable when the line holds none.  *)
(* ok says whether the write itself succeeds.                              *)
(***************************************************************************)
EXTENDS Integers, Sequences, FiniteSets

Switches == {"reading", "cabc", "fade"}
Nodes    == {"mode", "modeMax", "vibrator", "rgb"} \union Switches
Paths    == Nodes \union {"default"}

Unreadable == -1
Absent == [r |-> FALSE, w |-> FALSE, line |-> Unreadable]

(* FileUtils: isFileReadable, isFileWritable, readOneLine, writeLine.  The  *)
(* file on /data is created by its first write.                             *)
Readable(files, p) == files[p].r
Writable(files, p) == files[p].w
ReadLine(files, p) == IF files[p].r THEN files[p].line ELSE Unreadable
Creatable(files, p) == p = "default" /\ files[p] = Absent
Writes(files, p, ok) == ok /\ (files[p].w \/ Creatable(files, p))
WriteLine(files, p, line, ok) ==
  IF ~Writes(files, p, ok) THEN files
  ELSE [files EXCEPT ![p] = IF @ = Absent
                            THEN [r |-> TRUE, w |-> TRUE, line |-> line]
                            ELSE [@ EXCEPT !.line = line]]

------------------------------------------------------------------------------
(* DisplayModeControl *)
DisplayModes == 0..4
NoMode == -1

ModeOf(files, p) ==
  LET line == ReadLine(files, p)
  IN  IF line \in DisplayModes THEN line ELSE NoMode
GetCurrentMode(files) == ModeOf(files, "mode")
GetDefaultMode(files) == ModeOf(files, "default")

(* setMode: the default is written only after the node was. *)
SetMode(files, mode, makeDefault, okNode, okFile) ==
  LET shown == WriteLine(files, "mode", mode, okNode)
  IN  IF mode = NoMode THEN files
      ELSE IF makeDefault /\ Writes(files, "mode", okNode)
           THEN WriteLine(shown, "default", mode, okFile)
           ELSE shown
SetModeAnswer(files, mode, makeDefault, okNode, okFile) ==
  /\ mode # NoMode
  /\ Writes(files, "mode", okNode)
  /\ makeDefault => Writes(files, "default", okFile)

DisplaySupported(files) ==
  \A p \in {"mode", "default"} : Readable(files, p) /\ Writable(files, p)

(* getAvailableModes copies a range of the array: past its end it holds null. *)
AvailableModes(files) ==
  LET max == ReadLine(files, "modeMax")
      count == IF max < 0 THEN Cardinality(DisplayModes) ELSE max
  IN  [i \in 1..count |-> IF i - 1 \in DisplayModes THEN i - 1 ELSE NoMode]

(* Mutant: what the node shows takes precedence over the stored default. *)
LoadDisplayModesNodeFirst(files, okNode, okFile) ==
  IF Readable(files, "mode")
  THEN SetMode(files, GetCurrentMode(files), TRUE, okNode, okFile)
  ELSE SetMode(files, GetDefaultMode(files), FALSE, okNode, okFile)
(* Mutant: the mode found at the first load is not stored. *)
LoadDisplayModesUnstored(files, okNode, okFile) ==
  IF Readable(files, "default")
  THEN SetMode(files, GetDefaultMode(files), FALSE, okNode, okFile)
  ELSE files
(* The static initialiser *)
LoadDisplayModes(files, okNode, okFile) ==
  IF Readable(files, "default")
  THEN SetMode(files, GetDefaultMode(files), FALSE, okNode, okFile)
  ELSE IF Readable(files, "mode")
       THEN SetMode(files, GetCurrentMode(files), TRUE, okNode, okFile)
       ELSE files

------------------------------------------------------------------------------
(* AdaptiveBacklight, FadeLedNotification and ReadingEnhancement.  Reading  *)
(* mode decides once, when its class is loaded, whether it is supported.    *)
SwitchSupported(files, s) == Readable(files, s) /\ Writable(files, s)
SwitchLine(s, on) == IF ~on THEN 0 ELSE IF s = "reading" THEN 4 ELSE 1

(* Mutant: the reading mode's node is compared like the other two. *)
SwitchEnabledByOne(files, s, readingLoaded) ==
  ReadLine(files, s) = 1 /\ (s = "reading" => readingLoaded)
SwitchEnabled(files, s, readingLoaded) ==
  IF s = "reading" THEN readingLoaded /\ ReadLine(files, s) > 0
  ELSE ReadLine(files, s) = 1
SetSwitch(files, s, on, ok) == WriteLine(files, s, SwitchLine(s, on), ok)

------------------------------------------------------------------------------
(* VibratorHW and DisplayColorCalibration.  getCurIntensity parses the line  *)
(* without catching anything: an unparsable one throws.                      *)
MinIntensity     == 0
MaxIntensity     == 10000
WarningThreshold == 9000
DefaultIntensity == 6500
CurIntensity(files) ==
  IF Readable(files, "vibrator") THEN files["vibrator"].line ELSE 0
SetIntensity(files, intensity, ok) ==
  IF Writable(files, "vibrator") THEN WriteLine(files, "vibrator", intensity, ok)
  ELSE files

MinColor == 1
MaxColor == 255
CurColors(files) == ReadLine(files, "rgb")
SetColors(files, colors, ok) == WriteLine(files, "rgb", colors, ok)
==============================================================================
