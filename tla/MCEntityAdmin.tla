--------------------------- MODULE MCEntityAdmin ---------------------------
(* Instances of EntityAdmin for TLC.                                        *)
EXTENDS EntityAdmin, TLC

Interchangeable == Permutations(Names) \cup Permutations(Keys) \cup Permutations(Sessions)
=============================================================================
