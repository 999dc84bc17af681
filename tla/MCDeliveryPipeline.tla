------------------------- MODULE MCDeliveryPipeline -------------------------
(* Instances of DeliveryPipeline for TLC.                                   *)
EXTENDS DeliveryPipeline, TLC

(* For the runs without a liveness property.                                *)
Symmetry == Permutations(Publishers) \cup Permutations(Workers)
=============================================================================
