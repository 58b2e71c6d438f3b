----------------------------- MODULE AudioLocksMC -----------------------------
(***************************************************************************)
(* Instances of AudioLocks: a mixer thread and a recorder thread move      *)
(* samples, and binder threads call everything else.                       *)
(***************************************************************************)
EXTENDS AudioLocks

OutControl == {"out_standby", "out_set_parameters",
               "out_get_presentation_position", "adev_open_output_stream",
               "adev_close_output_stream"}
InControl == {"in_standby", "in_set_parameters", "in_get_capture_position",
              "adev_open_input_stream", "adev_close_input_stream"}

(* The binder thread reads, too: the second look at the standby flag in      *)
(* in_read expects a second reader.                                         *)
SomeThreads == {"mixer", "recorder", "binder"}
SomeOperations ==
  [t \in SomeThreads |->
     CASE t = "mixer"    -> {"out_write"}
       [] t = "recorder" -> {"in_read"}
       [] t = "binder"   -> OutControl \cup InControl
                              \cup {"in_read", "adev_set_mode"}]
==============================================================================
