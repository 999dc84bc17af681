-------------------------- MODULE MCInvoiceLedger --------------------------
(* Instances of InvoiceLedger for TLC.                                      *)
EXTENDS InvoiceLedger, TLC

(* Users take part in comparisons for equality only.                        *)
Symmetry == Permutations(Users)

FullChart == Accounts
ChartWithoutBadDebt == Accounts \ {"BAD_DEBT"}
=============================================================================
