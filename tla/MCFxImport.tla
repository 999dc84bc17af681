----------------------------- MODULE MCFxImport -----------------------------
(* Instances of FxImport for TLC; no symmetry, a liveness property is       *)
(* checked.                                                                 *)
EXTENDS FxImport
=============================================================================
