-------------------------------- MODULE BootMC --------------------------------
(* The bootloaders of some variants, one unknown, and one of no phone of    *)
(* this family; processes may open all nodes, or all but three.               *)
EXTENDS Boot

SomeBootloaders ==
  {<<"G920", "F", "D">>, <<"G920", "F">>, <<"G920", "P">>, <<"G920", "X">>,
   <<"G925", "P">>, <<"G925", "W", "8">>, <<"G930", "F">>}
SomeBatteries   == BOOLEAN
SomeConfigs     == {"", "wide"}
SomeRefusals    == {0, RetryNumber, RetryNumber + 1}
AllOrMost       == {Nodes, Nodes \ {"mode", "reading", "rgb"}}
ThreeModes      == {0, 2, NoMode}
EndIntensities  == {MinIntensity, MaxIntensity}
LeastColor      == {MinColor}
==============================================================================
