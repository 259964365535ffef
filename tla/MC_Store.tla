------------------------------ MODULE MC_Store ------------------------------
(* Model checking of SessionStore beside unlocked writers and crashes; MC_Log
   has the threads that only append. *)
EXTENDS SessionStore
=============================================================================
