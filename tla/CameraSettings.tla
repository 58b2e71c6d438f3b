---------------------------- MODULE CameraSettings ----------------------------
(***************************************************************************)
(* A CameraParameters object in the hands of its user, who reads it from a *)
(* string, sets and removes values and hands it on as a string: what one   *)
(* side of the wrapper writes, the other reads.                            *)
(***************************************************************************)
EXTENDS CameraParameters, FiniteSets

CONSTANTS
  Inputs,   \* strings to start from, also such as flatten() never writes
  Keys,     \* keys and values given to set(), also such as it refuses
  Values,
  MaxItems  \* bound: items in the map

ASSUME SettingsAssumption ==
  /\ Inputs # {} /\ Inputs \cup Keys \cup Values \subseteq Seq(STRING)
  /\ MaxItems \in Nat /\ <<>> \notin Keys

VARIABLE params

ParamsInit == params \in {Unflatten(s) : s \in Inputs}

Sizes == (DOMAIN Numerals) \X (DOMAIN Numerals)
Changes(m) == Cardinality(DOMAIN m) <= MaxItems /\ params' = m

ParamsDump == UNCHANGED params

ParamsNext ==
  \/ ParamsDump
  \/ \E k \in Keys, v \in Values : Changes(Set(params, k, v))
  \/ \E k \in Keys : Changes(RemoveKey(params, k))
  \/ \E keys \in {PreviewKeys, PictureKeys, VideoKeys}, s \in Sizes :
       Changes(SetSize(params, keys, Numerals[s[1]], Numerals[s[2]]))
  \/ \E keys \in {PreviewKeys, PictureKeys}, f \in FormatNames :
       Changes(SetFormat(params, keys, <<f>>))
  \/ \E t \in DOMAIN Numerals :
       \/ Changes(SetPreviewFrameRate(params, Numerals[t]))
       \/ Changes(SetInt(params, FileKeys.quality, Numerals[t]))

ParamsSpec == ParamsInit /\ [][ParamsNext]_params

------------------------------------------------------------------------------
(* The object on the other side of the wrapper *)
Sent(m) == Unflatten(Flatten(m))

(* Whatever strings the object was read from and whatever was set since,    *)
(* the other side reads the same map, so the vendor gets what the camera    *)
(* service sent, also when a key holds a ";" or a value a "=".              *)
RoundTrip == Sent(params) = params

(* Setting or removing one value changes that value only, as the other side *)
(* sees it: no value can bring items of its own.                            *)
OneItemChanges ==
  [][\E k \in DOMAIN Sent(params) \cup DOMAIN Sent(params') \cup {<<>>} :
       \A l \in (DOMAIN Sent(params) \cup DOMAIN Sent(params')) \ {k} :
         Get(Sent(params'), l) = Get(Sent(params), l)]_params

(* A size, a format or a frame rate that is set is read by the other side   *)
(* as it was set.                                                           *)
SettingsArrive ==
  /\ \A keys \in {PreviewKeys, PictureKeys, VideoKeys} :
       \A w, h \in {Numerals[t] : t \in DOMAIN Numerals} :
         /\ GetSize(Sent(SetSize(params, keys, w, h)), keys) = <<w, h>>
         /\ GetPreviewFrameRate(Sent(SetPreviewFrameRate(params, w))) = w
  /\ \A keys \in {PreviewKeys, PictureKeys}, f \in FormatNames :
       GetFormat(Sent(SetFormat(params, keys, <<f>>)), keys) = <<f>>

(* What a list of sizes means: the text between two commas is a size when   *)
(* it is an "x" with or without a numeral on either side, and counts as     *)
(* long as every text before it is one.                                     *)
Commas(s) == {i \in DOMAIN s : s[i] = ","}
PieceAt(s, i) ==
  LET ends == {j \in Commas(s) : j >= i}
      end == IF ends = {} THEN Len(s) ELSE Min(ends) - 1
  IN  SubSeq(s, i, end)
Side == {<<>>} \cup {<<t>> : t \in DOMAIN Numerals}
IsSize(p) == \E a, b \in Side : p = a \o <<"x">> \o b
SizeOf(p) == <<Strtol(p, 1), Strtol(p, Find(p, "x", 1) + 1)>>
Starts(s) == {1} \cup {i + 1 : i \in Commas(s)}
GoodStarts(s) ==
  {i \in Starts(s) : \A j \in Starts(s) : j <= i => IsSize(PieceAt(s, j))}
(* The n-th number of a set *)
Nth(S, n) == CHOOSE i \in S : Cardinality({j \in S : j < i}) = n - 1
MeantSizes(s) ==
  [n \in 1..Cardinality(GoodStarts(s)) |-> SizeOf(PieceAt(s, Nth(GoodStarts(s), n)))]

(* getSupportedPreviewSizes and its like return the sizes up to the first   *)
(* text that is not one, and never a size that the text does not hold.      *)
SizesUpToFirstError ==
  \A keys \in {PreviewKeys, PictureKeys, VideoKeys} :
    GetSupportedSizes(params, keys) = MeantSizes(Get(params, keys.sizes))
==============================================================================
