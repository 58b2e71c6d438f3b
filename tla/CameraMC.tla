------------------------------- MODULE CameraMC -------------------------------
(* Instances of Camera for TLC. *)
EXTENDS Camera

OneNumeral == [t \in {"1"} |-> 1]
(* A vendor's string that ends in something that is not an item, so that    *)
(* the fix-up changes it.                                                   *)
OneSetting == {<<"zoom", "=", "1", ";", "flash">>}
AllFaults == {"module", "open", "ops", "preview"}
==============================================================================
