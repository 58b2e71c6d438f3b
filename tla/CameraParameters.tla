--------------------------- MODULE CameraParameters ---------------------------
(***************************************************************************)
(* camera/CameraParameters.cpp: the map from keys to values that a camera  *)
(* is configured with, and the string that carries it between the camera   *)
(* service, the wrapper and the vendor's HAL.                              *)
(*                                                                         *)
(* A string is a sequence of tokens: the characters that the code looks    *)
(* for - "=", ";", "x" between two numbers and "," - and texts, each for a *)
(* run of other characters.  Texts that are numerals have a value.  The    *)
(* null pointer that get() returns for an absent or empty value is the     *)
(* empty string.                                                           *)
(***************************************************************************)
EXTENDS Integers, Sequences, SequencesExt

CONSTANTS Numerals  \* function: the texts that are numerals, and their values

ASSUME NumeralsAssumption ==
  /\ DOMAIN Numerals \subseteq STRING \ {"=", ";", "x", ","}
  /\ \A t \in DOMAIN Numerals : Numerals[t] \in Int

(* strchr: the first c in s from position i on, 0 if there is none. *)
Find(s, c, i) == SelectInSubSeq(s, i, Len(s), LAMBDA t : t = c)

(* The map.  add and replaceValueFor replace the value of a key that is     *)
(* already there.                                                           *)
NoParams == [k \in {} |-> <<>>]
Add(m, k, v) == [l \in DOMAIN m \cup {k} |-> IF l = k THEN v ELSE m[l]]

(* Mutant: no semicolon before the last item. *)
FlattenShort(m) ==
  LET keys == SetToSeq(DOMAIN m)
      Item(k) == k \o <<"=">> \o m[k]
  IN  FlattenSeq([i \in DOMAIN keys |->
                    IF i >= Len(keys) - 1 THEN Item(keys[i])
                                          ELSE Item(keys[i]) \o <<";">>])

(* The items in the order of their keys; which order that is does not       *)
(* matter as long as it depends on the keys only.                           *)
Flatten(m) ==
  LET keys == SetToSeq(DOMAIN m)
      Item(k) == k \o <<"=">> \o m[k]
  IN  FlattenSeq([i \in DOMAIN keys |->
                    IF i = Len(keys) THEN Item(keys[i])
                                     ELSE Item(keys[i]) \o <<";">>])

(* An item is a key up to the next "=" and a value up to the next ";" or    *)
(* the end, so a key may contain ";" and a value "=".  What follows the     *)
(* last item is dropped, and of two items with one key the later counts.    *)
AddBefore(m, k, v) == IF k \in DOMAIN m THEN m ELSE Add(m, k, v)
Unflatten(s) ==
  LET Items[i \in 1..Len(s) + 1] ==
        LET e == Find(s, "=", i)
            z == Find(s, ";", e + 1)
            Key == SubSeq(s, i, e - 1)
        IN  IF e = 0 THEN NoParams
            ELSE IF z = 0 THEN Add(NoParams, Key, SubSeq(s, e + 1, Len(s)))
            ELSE AddBefore(Items[z + 1], Key, SubSeq(s, e + 1, z - 1))
  IN  Items[1]

(* Mutant: only the key is looked at. *)
SetUnchecked(m, k, v) ==
  IF Contains(k, "=") \/ Contains(k, ";") THEN m ELSE Add(m, k, v)

(* set, remove, get *)
Set(m, k, v) ==
  IF \E c \in {"=", ";"} : Contains(k, c) \/ Contains(v, c) THEN m ELSE Add(m, k, v)
RemoveKey(m, k) == [l \in DOMAIN m \ {k} |-> m[l]]
Get(m, k) == IF k \in DOMAIN m THEN m[k] ELSE <<>>

------------------------------------------------------------------------------
(* Numbers.  strtol reads a numeral and stops after it; without one it      *)
(* returns 0 and stops where it started.                                    *)
HasNumeral(s, i) == i \in DOMAIN s /\ s[i] \in DOMAIN Numerals
Strtol(s, i) == IF HasNumeral(s, i) THEN Numerals[s[i]] ELSE 0
After(s, i) == IF HasNumeral(s, i) THEN i + 1 ELSE i
Format(n) == CHOOSE t \in DOMAIN Numerals : Numerals[t] = n

(* set of an int, setFloat, getInt and getFloat *)
GetInt(m, k) == IF Get(m, k) = <<>> THEN -1 ELSE Strtol(Get(m, k), 1)
SetInt(m, k, n) == Set(m, k, <<Format(n)>>)

(* Mutant: the second number is read from the delimiter. *)
ParsePairEarly(s, i, delim) ==
  LET d == After(s, i)
  IN  IF d \notin DOMAIN s \/ s[d] # delim THEN [end |-> 0, pair |-> <<-1, -1>>]
      ELSE [end |-> After(s, d), pair |-> <<Strtol(s, i), Strtol(s, d)>>]

(* parse_pair at position i: the pair and the position after it, 0 when     *)
(* there is no delimiter and the caller's values stay.                      *)
ParsePair(s, i, delim) ==
  LET d == After(s, i)
  IN  IF d \notin DOMAIN s \/ s[d] # delim THEN [end |-> 0, pair |-> <<-1, -1>>]
      ELSE [end |-> After(s, d + 1), pair |-> <<Strtol(s, i), Strtol(s, d + 1)>>]

(* Mutant: the size before an invalid character is kept. *)
ParseSizesLenient(s) ==
  LET From[i \in 1..Len(s) + 1] ==
        LET p == ParsePair(s, i, "x")
        IN  IF p.end = 0 THEN <<>>
            ELSE IF p.end > Len(s) \/ s[p.end] # "," THEN <<p.pair>>
            ELSE <<p.pair>> \o From[p.end + 1]
  IN  IF s = <<>> THEN <<>> ELSE From[1]

(* parseSizesList: the sizes up to the first invalid character. *)
ParseSizesList(s) ==
  LET From[i \in 1..Len(s) + 1] ==
        LET p == ParsePair(s, i, "x")
        IN  IF p.end = 0 THEN <<>>
            ELSE IF p.end > Len(s) THEN <<p.pair>>
            ELSE IF s[p.end] # "," THEN <<>>
            ELSE <<p.pair>> \o From[p.end + 1]
  IN  IF s = <<>> THEN <<>> ELSE From[1]

------------------------------------------------------------------------------
(* The keys with accessors of their own, by what they describe. *)
PreviewKeys ==
  [size |-> <<"preview-size">>, sizes |-> <<"preview-size-values">>,
   format |-> <<"preview-format">>, formats |-> <<"preview-format-values">>,
   rate |-> <<"preview-frame-rate">>, range |-> <<"preview-fps-range">>]
PictureKeys ==
  [size |-> <<"picture-size">>, sizes |-> <<"picture-size-values">>,
   format |-> <<"picture-format">>]
VideoKeys ==
  [size |-> <<"video-size">>, sizes |-> <<"video-size-values">>,
   preferred |-> <<"preferred-preview-size-for-video">>]
(* Keys that are set as numbers and describe the picture's file *)
FileKeys ==
  [width |-> <<"jpeg-thumbnail-width">>, height |-> <<"jpeg-thumbnail-height">>,
   quality |-> <<"jpeg-quality">>, rotation |-> <<"rotation">>,
   latitude |-> <<"gps-latitude">>, longitude |-> <<"gps-longitude">>,
   altitude |-> <<"gps-altitude">>, timestamp |-> <<"gps-timestamp">>]

(* setPreviewSize, setVideoSize, setPictureSize and their getters *)
SetSize(m, keys, w, h) == Set(m, keys.size, <<Format(w), "x", Format(h)>>)
PairOf(m, key, delim) == ParsePair(Get(m, key), 1, delim).pair
GetSize(m, keys) == PairOf(m, keys.size, "x")
GetPreferredPreviewSizeForVideo(m) == PairOf(m, VideoKeys.preferred, "x")
GetPreviewFpsRange(m) == PairOf(m, PreviewKeys.range, ",")
GetSupportedSizes(m, keys) == ParseSizesList(Get(m, keys.sizes))
SetPreviewFrameRate(m, fps) == SetInt(m, PreviewKeys.rate, fps)
GetPreviewFrameRate(m) == GetInt(m, PreviewKeys.rate)
SetFormat(m, keys, format) == Set(m, keys.format, format)
GetFormat(m, keys) == Get(m, keys.format)

(* The names of formats; those that previewFormatToEnum knows *)
FormatNames == {"yuv422sp", "yuv420sp", "yuv422i-yuyv", "yuv420p", "rgb565",
                "rgba8888", "jpeg", "bayer-rggb", "android-opaque", "nv21"}
PixelFormats ==
  [f \in FormatNames \ {"jpeg", "android-opaque", "nv21"} |->
     CASE f = "yuv422sp" -> "YCbCr_422_SP" [] f = "yuv420sp" -> "YCrCb_420_SP"
       [] f = "yuv422i-yuyv" -> "YCbCr_422_I" [] f = "yuv420p" -> "YV12"
       [] f = "rgb565" -> "RGB_565" [] f = "rgba8888" -> "RGBA_8888"
       [] f = "bayer-rggb" -> "RAW16"]

(* getSupportedPreviewFormats: the names between commas that are known. *)
GetSupportedPreviewFormats(m) ==
  LET s == Get(m, PreviewKeys.formats)
      Alone(i) == \A j \in {i - 1, i + 1} \cap DOMAIN s : s[j] = ","
      known == SelectSeq([i \in DOMAIN s |-> i],
                         LAMBDA i : s[i] \in DOMAIN PixelFormats /\ Alone(i))
  IN  [i \in DOMAIN known |-> PixelFormats[s[known[i]]]]
==============================================================================
