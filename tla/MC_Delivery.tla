----------------------------- MODULE MC_Delivery ----------------------------
(* Model checking of Delivery: two regions of text, and who may write when. *)
EXTENDS Delivery, TLC

CONSTANT original   \* the content every region starts with

Original == [u \in Units |-> original]

\* All regions start alike and nothing orders them.
RegionSymmetry == Permutations(Units)
=============================================================================
