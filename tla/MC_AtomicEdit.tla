---------------------------- MODULE MC_AtomicEdit ---------------------------
(* Model checking of AtomicEdit: the configurations differ in the faults they
   allow and in the properties they check. *)
EXTENDS AtomicEdit
=============================================================================
