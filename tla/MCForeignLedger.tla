-------------------------- MODULE MCForeignLedger --------------------------
(* Instances of ForeignLedger for TLC.                                      *)
EXTENDS ForeignLedger, TLC

(* Which of the invoices is which plays no part.                            *)
Symmetry == Permutations(Invoices)
=============================================================================
