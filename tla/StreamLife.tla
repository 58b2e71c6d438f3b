------------------------------ MODULE StreamLife ------------------------------
(***************************************************************************)
(* What the audio HAL promises of a stream, whatever threads call it: it   *)
(* is opened once, started only in standby, stopped only while it runs and *)
(* closed only in standby.  A running stream has exactly one usecase in    *)
(* the list of the device.                                                 *)
(*                                                                         *)
(* A stream that may stick has one way out of this: a start can leave it   *)
(* in standby with its usecase listed ("stuck").  Such a stream never runs *)
(* again, and its usecase outlives its close ("leaked").                   *)
(***************************************************************************)
CONSTANTS Streams,
          MayStick   \* streams of which a start may fail half way

VARIABLE life

Init == life = [s \in Streams |-> "closed"]

Moves(s, from, to) == life[s] = from /\ life' = [life EXCEPT ![s] = to]

Next == \E s \in Streams : \/ Moves(s, "closed", "standby")
                           \/ Moves(s, "standby", "running")
                           \/ Moves(s, "running", "standby")
                           \/ Moves(s, "standby", "closed")
                           \/ /\ s \in MayStick
                              /\ \/ Moves(s, "standby", "stuck")
                                 \/ Moves(s, "stuck", "leaked")
                                 \/ Moves(s, "leaked", "stuck")

Spec == Init /\ [][Next]_life
==============================================================================
