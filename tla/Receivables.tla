---------------------------- MODULE Receivables ----------------------------
(***************************************************************************)
(* What the customer's balances are promised to do when requests are       *)
(* posted to them: every approval, receipt and credit memo counts once, at *)
(* one instant, against the balances of that instant.                      *)
(***************************************************************************)
EXTENDS Integers

CONSTANTS
  Invoices,    \* invoices of one customer
  Amount,      \* the total of each
  MaxRest      \* the most that a receipt leaves unallocated

VARIABLES
  approved,    \* the invoices that are posted
  balance,     \* what is open on each invoice
  credited,    \* the credit memos on each invoice
  onAccount    \* held for the customer

vars == <<approved, balance, credited, onAccount>>

Init ==
  /\ approved = {}
  /\ balance = [i \in Invoices |-> Amount]
  /\ credited = [i \in Invoices |-> 0]
  /\ onAccount = 0

Approve(i) ==
  /\ i \notin approved
  /\ approved' = approved \cup {i}
  /\ UNCHANGED <<balance, credited, onAccount>>

(* What is not allocated is kept for the customer.                          *)
Receive(alloc, rest) ==
  /\ DOMAIN alloc \subseteq approved
  /\ \A i \in DOMAIN alloc : alloc[i] <= balance[i]
  /\ balance' = [i \in Invoices |->
       IF i \in DOMAIN alloc THEN balance[i] - alloc[i] ELSE balance[i]]
  /\ onAccount' = onAccount + rest
  /\ UNCHANGED <<approved, credited>>

(* A credit memo takes what it can off the balance, the customer keeps the  *)
(* rest.                                                                    *)
Credit(i, amount, ar) ==
  /\ i \in approved
  /\ credited[i] + amount <= Amount
  /\ ar = (IF amount < balance[i] THEN amount ELSE balance[i])
  /\ balance' = [balance EXCEPT ![i] = @ - ar]
  /\ credited' = [credited EXCEPT ![i] = @ + amount]
  /\ onAccount' = onAccount + (amount - ar)
  /\ UNCHANGED approved

Allocations == UNION {[S -> 1 .. Amount] : S \in (SUBSET Invoices) \ {{}}}

Next ==
  \/ \E i \in Invoices : Approve(i)
  \/ \E alloc \in Allocations, rest \in 0 .. MaxRest : Receive(alloc, rest)
  \/ \E i \in Invoices, amount \in 1 .. Amount : \E ar \in 0 .. amount : Credit(i, amount, ar)

Spec == Init /\ [][Next]_vars
=============================================================================
