-------------------------- MODULE InvoicePostings --------------------------
(***************************************************************************)
(* What one write handler of the receivables API does to the row of an     *)
(* invoice and to the general ledger, as operators on values: the          *)
(* condition under which the handler goes ahead (Can...), the row it       *)
(* writes (...Row) and the journal it posts (...Post).  InvoiceLedger runs  *)
(* them one request at a time, InvoiceTransactions as database             *)
(* transactions that overlap.                                              *)
(*                                                                         *)
(* Amounts are whole numbers of the smallest stored unit (0.0001).  The    *)
(* invoice is in the base currency (rate 1), so the transaction and the    *)
(* base columns of a line agree and there is no FX gain or loss line.      *)
(* Texts, dates, line items and names are left out: no property tells them *)
(* apart.  The posting period is taken to be open.                         *)
(***************************************************************************)
EXTENDS Integers

CONSTANTS
  Users,      \* the people who call the API
  NoUser,     \* the NULL of approved_by
  Chart,      \* the GL accounts set up for the entity
  MaxVersion  \* bound: a draft is no longer edited or rejected from here on

Accounts ==
  {"CASH", "AR", "CUSTOMER_CREDIT", "REVENUE", "TAX_PAYABLE", "BAD_DEBT"}

ASSUME PostingAssumption ==
  /\ NoUser \notin Users
  /\ Chart \subseteq Accounts
  /\ MaxVersion \in Nat

-----------------------------------------------------------------------------
(* The row of an invoice.  "ABSENT" is an invoice not inserted yet.         *)

Payable == {"APPROVED", "SENT", "PARTIALLY_PAID"}  \* also the write-off list
Creditable == {"APPROVED", "SENT", "PARTIALLY_PAID", "PAID"}
Voidable == {"DRAFT", "APPROVED", "SENT"}
Settled == {"PAID", "VOID", "WRITTEN_OFF"}         \* outside credit exposure
Statuses == {"ABSENT", "DRAFT"} \cup Creditable \cup Settled

Invoice ==
  [status : Statuses, version : Nat, subtotal : Nat, tax : Nat, balance : Nat,
   created_by : Users \cup {NoUser}, approved_by : Users \cup {NoUser},
   sent_at : BOOLEAN]

EmptyRow ==
  [status |-> "ABSENT", version |-> 0, subtotal |-> 0, tax |-> 0, balance |-> 0,
   created_by |-> NoUser, approved_by |-> NoUser, sent_at |-> FALSE]

Total(r) == r.subtotal + r.tax

(* The journal lines posted for one invoice, summed per account; a debit is *)
(* positive.                                                                *)
Book ==
  [cash : Int, ar : Int, credit : Int, revenue : Int, tax : Int, badDebt : Int]

EmptyBook ==
  [cash |-> 0, ar |-> 0, credit |-> 0, revenue |-> 0, tax |-> 0, badDebt |-> 0]

(* Revenue and tax that credit memos reversed so far.                       *)
Reversal == [subtotal : Nat, tax : Nat]

NoReversal == [subtotal |-> 0, tax |-> 0]

-----------------------------------------------------------------------------
(* POST /invoices and PATCH /invoices/{id}.                                 *)

DraftRow(u, subtotal, tax) ==
  [status |-> "DRAFT", version |-> 1, subtotal |-> subtotal, tax |-> tax,
   balance |-> subtotal + tax, created_by |-> u, approved_by |-> NoUser,
   sent_at |-> FALSE]

CanEditAnyStatus(r) == r.version <= MaxVersion \* faulty: DRAFT is not asked

CanEdit(r) == r.status = "DRAFT" /\ r.version < MaxVersion

EditRow(r, subtotal, tax) ==
  [r EXCEPT !.version = @ + 1, !.subtotal = subtotal, !.tax = tax,
            !.balance = subtotal + tax]

-----------------------------------------------------------------------------
(* POST /invoices/{id}/approve, with action REJECT or APPROVE.  A rejected  *)
(* invoice stays a draft; only its version shows the rejection.             *)

CanDecideOwn(r, u) == r.status = "DRAFT" /\ u \in Users \* faulty: no segregation

CanDecide(r, u) == r.status = "DRAFT" /\ u # r.created_by

CanReject(r, u) == CanDecide(r, u) /\ r.version < MaxVersion

RejectRow(r) == [r EXCEPT !.version = @ + 1]

(* A revenue line of zero is refused by the constraint je_line_double_entry *)
(* when the approval is flushed, so a zero invoice is never approved.       *)
CanApprove(r, u) ==
  /\ CanDecide(r, u)
  /\ r.subtotal > 0
  /\ {"AR", "REVENUE", "TAX_PAYABLE"} \subseteq Chart

ApproveRow(r, u) ==
  [r EXCEPT !.status = "APPROVED", !.approved_by = u, !.version = @ + 1]

ApprovePost(b, r) ==
  [b EXCEPT !.ar = @ + Total(r), !.revenue = @ - r.subtotal, !.tax = @ - r.tax]

-----------------------------------------------------------------------------
(* POST /payments, one allocation of it.                                    *)

CanPayAnyAmount(r, amount) == \* faulty: the balance is no bound
  r.status \in Payable /\ amount > 0

CanPay(r, amount) ==
  /\ r.status \in Payable
  /\ amount > 0
  /\ amount <= r.balance

PayRowAgainstTotal(r, amount) == \* faulty: PAID when the receipt covers the total
  [r EXCEPT !.balance = @ - amount,
            !.status = IF amount = Total(r) THEN "PAID" ELSE "PARTIALLY_PAID",
            !.version = @ + 1]

PayRowUnversioned(r, amount) == \* faulty: the version stays
  [r EXCEPT !.balance = @ - amount,
            !.status = IF amount = r.balance THEN "PAID" ELSE "PARTIALLY_PAID"]

PayRow(r, amount) ==
  [r EXCEPT !.balance = @ - amount,
            !.status = IF amount = r.balance THEN "PAID" ELSE "PARTIALLY_PAID",
            !.version = @ + 1]

PayPost(b, amount) == [b EXCEPT !.cash = @ + amount, !.ar = @ - amount]

(* The part of a receipt that no invoice takes is a customer credit.        *)
CanBookReceipt(rest) ==
  /\ {"CASH", "AR"} \subseteq Chart
  /\ rest > 0 => "CUSTOMER_CREDIT" \in Chart

-----------------------------------------------------------------------------
(* POST /invoices/{id}/credit-memos.                                        *)

RoundHalfEven(n, d) ==
  LET q == n \div d
      twice == 2 * (n % d)
  IN  IF twice < d \/ (twice = d /\ q % 2 = 0) THEN q ELSE q + 1

RemainingOfOriginal(r, c) == \* faulty: forgets the credit memos before this one
  [subtotal |-> r.subtotal, tax |-> IF c.tax >= 0 THEN r.tax ELSE 0]

Remaining(r, c) ==
  [subtotal |-> IF c.subtotal < r.subtotal THEN r.subtotal - c.subtotal ELSE 0,
   tax      |-> IF c.tax < r.tax THEN r.tax - c.tax ELSE 0]

(* The tax inside a credit of this amount; the last credit takes what is    *)
(* left exactly.                                                            *)
TaxPart(rem, amount, include_tax) ==
  IF ~include_tax THEN 0
  ELSE IF amount = rem.subtotal + rem.tax THEN rem.tax
  ELSE RoundHalfEven(amount * rem.tax, rem.subtotal + rem.tax)

CreditSplit(r, c, amount, include_tax) ==
  LET tax == TaxPart(Remaining(r, c), amount, include_tax)
  IN  [subtotal |-> amount - tax, tax |-> tax]

(* What a credit of this amount takes off the open balance.                 *)
ArCredit(r, amount) == IF amount < r.balance THEN amount ELSE r.balance

(* The handler always writes the revenue line, and je_line_double_entry     *)
(* refuses one of zero: a credit has to reverse some revenue.               *)
CanCredit(r, c, u, amount, include_tax) ==
  LET rem == Remaining(r, c)
      split == CreditSplit(r, c, amount, include_tax)
  IN  /\ r.status \in Creditable
      /\ u # r.created_by
      /\ amount > 0
      /\ amount <= rem.subtotal + rem.tax
      /\ split.subtotal \in 1 .. rem.subtotal
      /\ split.tax \in 0 .. rem.tax
      /\ "REVENUE" \in Chart
      /\ split.tax > 0 => "TAX_PAYABLE" \in Chart
      /\ ArCredit(r, amount) > 0 => "AR" \in Chart
      /\ ArCredit(r, amount) < amount => "CUSTOMER_CREDIT" \in Chart

CreditRow(r, amount) ==
  [r EXCEPT !.balance = @ - ArCredit(r, amount),
            !.status = IF ArCredit(r, amount) = r.balance THEN "PAID" ELSE @,
            !.version = @ + 1]

CreditPostAllToAr(b, r, split) == \* faulty: the paid part is taken off AR as well
  [b EXCEPT !.revenue = @ + split.subtotal,
            !.tax = @ + split.tax,
            !.ar = @ - (IF r.version > 0 THEN split.subtotal + split.tax ELSE 0)]

CreditPost(b, r, split) ==
  LET amount == split.subtotal + split.tax
  IN  [b EXCEPT !.revenue = @ + split.subtotal,
                !.tax = @ + split.tax,
                !.ar = @ - ArCredit(r, amount),
                !.credit = @ - (amount - ArCredit(r, amount))]

AddReversal(c, split) ==
  [subtotal |-> c.subtotal + split.subtotal, tax |-> c.tax + split.tax]

-----------------------------------------------------------------------------
(* POST /invoices/{id}/writeoff.  "seen" is the row as the handler read it: *)
(* the handler writes the columns below with values computed from that      *)
(* reading, whatever the row has become.  A line whose account is missing   *)
(* is skipped.                                                              *)

CanWriteOff(seen) == seen.status \in Payable /\ seen.balance > 0

WriteOffRow(r, seen) ==
  [r EXCEPT !.status = "WRITTEN_OFF", !.balance = 0,
            !.version = seen.version + 1]

WriteOffPostTotal(b, seen) == \* faulty: expenses what was already paid
  [b EXCEPT !.badDebt = @ + Total(seen), !.ar = @ - seen.balance]

WriteOffPost(b, seen) ==
  [b EXCEPT !.badDebt = @ + (IF "BAD_DEBT" \in Chart THEN seen.balance ELSE 0),
            !.ar = @ - (IF "AR" \in Chart THEN seen.balance ELSE 0)]

-----------------------------------------------------------------------------
(* POST /invoices/{id}/void: a posted invoice has its approval reversed.    *)
(* The handler skips a line whose account is missing, but the approval has   *)
(* posted to the same three accounts, so they are there.                    *)

CanVoid(r) == r.status \in Voidable

VoidRow(r) ==
  [r EXCEPT !.status = "VOID", !.balance = 0, !.version = @ + 1]

VoidPostKeepsTax(b, r) == \* faulty: reverses the net amount only
  IF r.status = "DRAFT" THEN b
  ELSE [b EXCEPT !.revenue = @ + r.subtotal, !.ar = @ - r.subtotal]

VoidPost(b, r) ==
  IF r.status = "DRAFT" THEN b
  ELSE [b EXCEPT !.revenue = @ + r.subtotal, !.tax = @ + r.tax,
                 !.ar = @ - Total(r)]

-----------------------------------------------------------------------------
(* The delivery worker marks the invoice of a delivered event.              *)

SentRowAlways(r) == \* faulty: overwrites a later payment status
  [r EXCEPT !.status = "SENT", !.sent_at = TRUE, !.version = @ + 1]

SentRowIfApproved(r) == \* faulty: an invoice paid meanwhile never shows sent_at
  IF r.status # "APPROVED" THEN r
  ELSE [r EXCEPT !.status = "SENT", !.sent_at = TRUE, !.version = @ + 1]

SentRow(r) ==
  IF r.sent_at THEN r
  ELSE [r EXCEPT !.status = IF @ = "APPROVED" THEN "SENT" ELSE @,
                 !.sent_at = TRUE, !.version = @ + 1]
=============================================================================
