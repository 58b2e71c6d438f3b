--------------------------- MODULE CameraSettingsMC ---------------------------
(***************************************************************************)
(* Instances of CameraSettings for TLC: every string of up to four tokens  *)
(* in which no text follows a text, and calls of set() with values that    *)
(* look like items.                                                        *)
(***************************************************************************)
EXTENDS CameraSettings

TwoNumerals == [t \in {"480", "640"} |-> IF t = "480" THEN 480 ELSE 640]
Delimiters == {"=", ";", "x", ","}
Tokens == Delimiters \cup {"preview-size-values", "zoom", "640"}
ShortInputs ==
  {s \in BoundedSeq(Tokens, 4) :
     \A i \in 1..Len(s) - 1 : s[i] \in Delimiters \/ s[i + 1] \in Delimiters}

SomeKeys == {<<"preview-size-values">>, <<"zoom">>, <<"zoom", ";">>}
SomeValues == {<<"640">>, <<>>, <<"640", ";", "zoom", "=", "480">>,
               <<"640", "x", "480", ",", "480", "x">>,
               <<"640", "x", "480", "zoom", ",", "x">>}
==============================================================================
