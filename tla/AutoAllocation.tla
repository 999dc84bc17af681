--------------------------- MODULE AutoAllocation ---------------------------
(***************************************************************************)
(* How an AUTO receipt is spread over the open invoices of the customer.   *)
(* "seen" has the open invoices, numbered in the order of their due dates, *)
(* each with its balance.                                                  *)
(***************************************************************************)
EXTENDS Integers, FiniteSetsExt

BalanceOf(seen, S) == SumFunctionOnSet([i \in DOMAIN seen |-> seen[i].balance], S)

AllocationsNewestFirst(seen, amount) == \* faulty: due date descending
  LET before(i) == BalanceOf(seen, {j \in DOMAIN seen : j > i})
      left(i) == amount - before(i)
  IN  [i \in {j \in DOMAIN seen : left(j) > 0} |->
         IF left(i) < seen[i].balance THEN left(i) ELSE seen[i].balance]

AllocationsOldestFirst(seen, amount) ==
  LET before(i) == BalanceOf(seen, {j \in DOMAIN seen : j < i})
      left(i) == amount - before(i)
  IN  [i \in {j \in DOMAIN seen : left(j) > 0} |->
         IF left(i) < seen[i].balance THEN left(i) ELSE seen[i].balance]

(* What is left of the receipt for the customer's account.                  *)
AutoRest(seen, amount) ==
  LET open == BalanceOf(seen, DOMAIN seen)
  IN  IF amount > open THEN amount - open ELSE 0
=============================================================================
