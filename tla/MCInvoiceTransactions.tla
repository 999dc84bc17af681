----------------------- MODULE MCInvoiceTransactions -----------------------
(* Instances of InvoiceTransactions for TLC.                                *)
EXTENDS InvoiceTransactions, TLC

(* Users, sessions and keys take part in comparisons for equality only.     *)
Symmetry == Permutations(Users) \cup Permutations(Sessions) \cup Permutations(Keys)

FullChart == Accounts
=============================================================================
