------------------------------ MODULE RateBook ------------------------------
(***************************************************************************)
(* What invoices and receipts rely on when they look up an exchange rate:  *)
(* the approved rates of a tenant and a day appear at once, all pairs from *)
(* quotes of that same day, and never change or double afterwards.         *)
(* FxImport implements this with jobs, leases and workers that fail.       *)
(***************************************************************************)
EXTENDS Naturals

CONSTANTS Tenants, Days, Quotes

VARIABLE approved   \* the batches of rates: tenant, date, day of each quote

Batch == [tenant : Tenants, date : Days, quoted : [Quotes -> Days]]

Known(t, d) == \E b \in approved : b.tenant = t /\ b.date = d

Init == approved = {}

(* A batch is approved for some of the tenants that have none of that day.  *)
Approve(d, S) ==
  /\ \A t \in S : ~Known(t, d)
  /\ approved' = approved \cup
       {[tenant |-> t, date |-> d, quoted |-> [c \in Quotes |-> d]] : t \in S}

Next == \E d \in Days, S \in SUBSET Tenants : Approve(d, S)

Spec == Init /\ [][Next]_approved
=============================================================================
