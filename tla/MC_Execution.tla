---------------------------- MODULE MC_Execution ----------------------------
(* Model checking of Execution: the configurations differ in the faults they
   allow and in the properties they check. *)
EXTENDS Execution
=============================================================================
