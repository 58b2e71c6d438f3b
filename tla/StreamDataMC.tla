------------------------------ MODULE StreamDataMC ------------------------------
(* A rate that needs no resampler and one that does; calls of less and of  *)
(* as much as a period of a fast stream.                                   *)
EXTENDS StreamData

SomeRates    == {11025, 48000}
SomeRequests == {160, 256}
SomeSteps    == {256}
BothFaults   == {"open", "transfer"}
==============================================================================
