------------------------------ MODULE PowerHalMC ------------------------------
(***************************************************************************)
(* An instance of PowerHal: two maxima, of which the cap of both clusters  *)
(* is the lower one.                                                       *)
(***************************************************************************)
EXTENDS PowerHal

TwoFrequencies == {1, 2}
LowCaps == [c \in Clusters |-> 1]

\* Which boost nodes are open does not bear on the invariants: the run has the
\* one that every build opens, and sends boosts to the others in vain.
NodeFaults == {"read", "write", "restart"}
==============================================================================
