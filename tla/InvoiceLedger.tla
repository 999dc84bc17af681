--------------------------- MODULE InvoiceLedger ---------------------------
(***************************************************************************)
(* The receivables ledger as its clients are promised it: every request    *)
(* takes effect at one instant, against the current row, and moves the     *)
(* invoice, its postings and its delivery event together.                  *)
(* InvoiceTransactions is the same API as overlapping transactions.        *)
(***************************************************************************)
EXTENDS InvoicePostings, FiniteSetsExt

CONSTANTS
  Invoices,      \* invoice ids, in the order of their due dates
  Subtotals,     \* the line totals a client can send: net of tax, ...
  Taxes,         \* ... and the tax on them
  MaxAmount,     \* bound on a payment and on a credit memo
  CreditLimit    \* the customer's credit limit, 0 for none

ASSUME LedgerAssumption ==
  /\ Invoices \subseteq Nat
  /\ IsFiniteSet(Invoices)
  /\ Subtotals \subseteq Nat
  /\ Taxes \subseteq Nat
  /\ MaxAmount \in Nat
  /\ CreditLimit \in Nat

VARIABLES
  rows,       \* table invoice
  books,      \* journal lines of each invoice, summed per account
  credited,   \* what its credit memos reversed
  outbox,     \* its INVOICE_APPROVED event in delivery_outbox
  onAccount   \* overpayments held for the customer on account 2100

vars == <<rows, books, credited, outbox, onAccount>>

OutboxStates == {"NONE", "QUEUED", "DELIVERED"}

Init ==
  /\ rows = [i \in Invoices |-> EmptyRow]
  /\ books = [i \in Invoices |-> EmptyBook]
  /\ credited = [i \in Invoices |-> NoReversal]
  /\ outbox = [i \in Invoices |-> "NONE"]
  /\ onAccount = 0

-----------------------------------------------------------------------------
(* The credit limit counts every unsettled invoice, drafts included.        *)
Balances == [i \in Invoices |-> rows[i].balance]

ExposurePosted(others) == \* faulty: drafts do not count
  SumFunctionOnSet(Balances, {i \in others : rows[i].status \in Payable})

Exposure(others) ==
  SumFunctionOnSet(Balances, {i \in others : rows[i].status \notin Settled})

WithinLimit(others, amount) ==
  CreditLimit > 0 => Exposure(others) + amount <= CreditLimit

CreateInvoice(i, u, subtotal, tax) ==
  /\ rows[i].status = "ABSENT"
  /\ rows' = [rows EXCEPT ![i] = DraftRow(u, subtotal, tax)]
  /\ UNCHANGED <<books, credited, outbox, onAccount>>

UpdateInvoice(i, subtotal, tax) ==
  /\ CanEdit(rows[i])
  /\ rows' = [rows EXCEPT ![i] = EditRow(@, subtotal, tax)]
  /\ UNCHANGED <<books, credited, outbox, onAccount>>

RejectInvoice(i, u) ==
  /\ CanReject(rows[i], u)
  /\ rows' = [rows EXCEPT ![i] = RejectRow(@)]
  /\ UNCHANGED <<books, credited, outbox, onAccount>>

ApproveInvoice(i, u) ==
  /\ CanApprove(rows[i], u)
  /\ rows' = [rows EXCEPT ![i] = ApproveRow(@, u)]
  /\ books' = [books EXCEPT ![i] = ApprovePost(@, rows[i])]
  /\ outbox' = [outbox EXCEPT ![i] = "QUEUED"]
  /\ UNCHANGED <<credited, onAccount>>

(* One receipt: alloc says what each invoice takes, rest is left over.      *)
CreatePayment(alloc, rest) ==
  /\ \A i \in DOMAIN alloc : CanPay(rows[i], alloc[i])
  /\ CanBookReceipt(rest)
  /\ rows' = [i \in Invoices |->
       IF i \in DOMAIN alloc THEN PayRow(rows[i], alloc[i]) ELSE rows[i]]
  /\ books' = [i \in Invoices |->
       IF i \in DOMAIN alloc THEN PayPost(books[i], alloc[i]) ELSE books[i]]
  /\ onAccount' = onAccount + rest
  /\ UNCHANGED <<credited, outbox>>

CreateCreditMemo(i, u, amount, include_tax) ==
  LET split == CreditSplit(rows[i], credited[i], amount, include_tax)
  IN  /\ CanCredit(rows[i], credited[i], u, amount, include_tax)
      /\ rows' = [rows EXCEPT ![i] = CreditRow(@, amount)]
      /\ books' = [books EXCEPT ![i] = CreditPost(@, rows[i], split)]
      /\ credited' = [credited EXCEPT ![i] = AddReversal(@, split)]
      /\ UNCHANGED <<outbox, onAccount>>

WriteOffInvoice(i) ==
  /\ CanWriteOff(rows[i])
  /\ rows' = [rows EXCEPT ![i] = WriteOffRow(@, rows[i])]
  /\ books' = [books EXCEPT ![i] = WriteOffPost(@, rows[i])]
  /\ UNCHANGED <<credited, outbox, onAccount>>

VoidInvoice(i) ==
  /\ CanVoid(rows[i])
  /\ rows' = [rows EXCEPT ![i] = VoidRow(@)]
  /\ books' = [books EXCEPT ![i] = VoidPost(@, rows[i])]
  /\ UNCHANGED <<credited, outbox, onAccount>>

MarkDelivered(i) ==
  /\ outbox[i] = "QUEUED"
  /\ outbox' = [outbox EXCEPT ![i] = "DELIVERED"]
  /\ rows' = [rows EXCEPT ![i] = SentRow(@)]
  /\ UNCHANGED <<books, credited, onAccount>>

-----------------------------------------------------------------------------
Allocations ==
  UNION {[D -> 1 .. MaxAmount] : D \in (SUBSET Invoices) \ {{}}}

ChangeInvoice(i) ==
  \/ \E u \in Users, s \in Subtotals, t \in Taxes :
       WithinLimit(Invoices, s + t) /\ CreateInvoice(i, u, s, t)
  \/ \E s \in Subtotals, t \in Taxes :
       WithinLimit(Invoices \ {i}, s + t) /\ UpdateInvoice(i, s, t)
  \/ \E u \in Users : RejectInvoice(i, u)
  \/ \E u \in Users : ApproveInvoice(i, u)
  \/ \E u \in Users, a \in 1 .. MaxAmount, tax \in BOOLEAN :
       CreateCreditMemo(i, u, a, tax)
  \/ WriteOffInvoice(i)
  \/ VoidInvoice(i)
  \/ MarkDelivered(i)

Next ==
  \/ \E i \in Invoices : ChangeInvoice(i)
  \/ \E alloc \in Allocations, rest \in 0 .. MaxAmount :
       CreatePayment(alloc, rest)

Spec == Init /\ [][Next]_vars

-----------------------------------------------------------------------------
(* Type correctness of the tables the handlers write.                       *)
TypeOK ==
  /\ rows \in [Invoices -> Invoice]
  /\ books \in [Invoices -> Book]
  /\ credited \in [Invoices -> Reversal]
  /\ outbox \in [Invoices -> OutboxStates]
  /\ onAccount \in Nat

OpenBalance(i) == IF rows[i].status \in Payable THEN rows[i].balance ELSE 0

Approved(i) == rows[i].approved_by # NoUser

Credits(i) == credited[i].subtotal + credited[i].tax

(* What the /health endpoint compares (health.py): the open balances of the *)
(* posted invoices are the balance of GL account 1200.                      *)
SubledgerMatchesGL ==
  SumFunction([i \in Invoices |-> OpenBalance(i)])
    = SumFunction([i \in Invoices |-> books[i].ar])

(* What does hold, invoice by invoice: approval, payments, credit memos and *)
(* write-off keep AR at the open balance.  Only a void after a credit memo  *)
(* leaves AR below zero, by what the memo had already taken off.            *)
Reconciled ==
  \A i \in Invoices :
    books[i].ar = IF rows[i].status = "VOID" THEN -Credits(i) ELSE OpenBalance(i)

(* Revenue and tax stand at the invoice net of its credit memos from the    *)
(* approval on; a void takes the whole invoice back.                        *)
EarnedRevenue ==
  \A i \in Invoices :
    LET r == rows[i]
        kept == [subtotal |-> IF r.status = "VOID" \/ ~Approved(i) THEN 0 ELSE r.subtotal,
                 tax |-> IF r.status = "VOID" \/ ~Approved(i) THEN 0 ELSE r.tax]
    IN  /\ books[i].revenue = credited[i].subtotal - kept.subtotal
        /\ books[i].tax = credited[i].tax - kept.tax

(* Every posting debits what it credits, whatever sequence of payments,     *)
(* memos, write-off and void an invoice went through.                       *)
BooksBalance ==
  \A i \in Invoices :
    LET b == books[i]
    IN  b.cash + b.ar + b.credit + b.revenue + b.tax + b.badDebt = 0

(* No part of a posted invoice is settled twice or lost: the total is what  *)
(* is open, was received, was given up or was credited, and the credits the *)
(* customer holds came out of receipts.                                     *)
ReceiptsAccounted ==
  \A i \in Invoices :
    Approved(i) /\ rows[i].status # "VOID" =>
      rows[i].balance + books[i].cash + books[i].badDebt + Credits(i)
        = Total(rows[i]) - books[i].credit

(* Credit memos together never reverse more revenue or more tax than the    *)
(* invoice had, and never owe the customer more than was paid.              *)
CreditsWithinInvoice ==
  \A i \in Invoices :
    /\ credited[i].subtotal <= rows[i].subtotal
    /\ credited[i].tax <= rows[i].tax
    /\ books[i].credit <= 0
    /\ -books[i].credit <= books[i].cash

(* The status column says what the money columns say.                       *)
StatusReflectsBalance ==
  \A i \in Invoices :
    LET r == rows[i]
        b == books[i]
    IN  /\ r.status \in {"APPROVED", "SENT"} => r.balance > 0 /\ b.cash = 0
        /\ r.status = "PARTIALLY_PAID" => r.balance > 0 /\ b.cash > 0
        /\ r.status \in Settled => r.balance = 0
        /\ r.status = "VOID" => b.cash = 0 /\ b.credit = 0
        /\ b.badDebt # 0 => r.status = "WRITTEN_OFF"

(* Nothing is posted, credited or queued for delivery before someone other  *)
(* than the creator approved the invoice.                                   *)
PostedOnceApproved ==
  \A i \in Invoices :
    /\ Approved(i) => rows[i].approved_by # rows[i].created_by
    /\ rows[i].status \in {"ABSENT", "DRAFT"} => ~Approved(i)
    /\ rows[i].status \in Creditable \cup {"WRITTEN_OFF"} => Approved(i)
    /\ ~Approved(i) => /\ books[i] = EmptyBook
                       /\ credited[i] = NoReversal
                       /\ outbox[i] = "NONE"

(* The delivery event exists exactly for approved invoices, and the invoice *)
(* shows the delivery without losing a status it reached meanwhile.         *)
DeliveryFollowsApproval ==
  \A i \in Invoices :
    /\ outbox[i] = "NONE" <=> ~Approved(i)
    /\ rows[i].sent_at <=> outbox[i] = "DELIVERED"
    /\ rows[i].status = "APPROVED" => outbox[i] = "QUEUED"
    /\ rows[i].status = "SENT" => outbox[i] = "DELIVERED"

(* Journal, reversals and delivery all wait for the approval by a second    *)
(* person, and the delivery follows from it.                                *)
ApprovalGates == PostedOnceApproved /\ DeliveryFollowsApproval

(* The credit limit that POST and PATCH check one invoice at a time bounds  *)
(* all unsettled invoices together, at every later time.                    *)
WithinCreditLimit ==
  CreditLimit > 0 => Exposure(Invoices) <= CreditLimit

-----------------------------------------------------------------------------
(* How the status of an invoice may move in one step.                       *)
Lifecycle ==
  {<<"ABSENT", "DRAFT">>, <<"DRAFT", "APPROVED">>, <<"APPROVED", "SENT">>}
    \cup Payable \X {"PARTIALLY_PAID", "PAID", "WRITTEN_OFF"}
    \cup Voidable \X {"VOID"}

LifecycleOrder ==
  [][\A i \in Invoices :
       rows'[i].status # rows[i].status =>
         <<rows[i].status, rows'[i].status>> \in Lifecycle]_vars

(* After the approval the amounts and the people on the invoice are frozen, *)
(* and receipts, write-offs and reversals only accumulate.                  *)
PostedAmountsFrozen ==
  [][\A i \in Invoices : Approved(i) =>
       /\ rows'[i].subtotal = rows[i].subtotal
       /\ rows'[i].tax = rows[i].tax
       /\ rows'[i].created_by = rows[i].created_by
       /\ rows'[i].approved_by = rows[i].approved_by
       /\ books'[i].cash >= books[i].cash
       /\ books'[i].badDebt >= books[i].badDebt
       /\ credited'[i].subtotal >= credited[i].subtotal
       /\ credited'[i].tax >= credited[i].tax]_vars
=============================================================================
