----------------------- MODULE InvoiceTransactionsProofs -----------------------
(***************************************************************************)
(* Proofs about InvoiceTransactions, for any invoices, users, amounts and   *)
(* keys and any number of overlapping sessions: what overlapping requests  *)
(* do to the tables, and that they do what the ledger does one request at  *)
(* a time.                                                                 *)
(*                                                                         *)
(* The argument has three parts.  What one handler writes fits the types   *)
(* and keeps AR and the version right (Fit, Sound, Newer).  A session that *)
(* read a row knows how far the row may have moved on since (ReadOK), so   *)
(* the version in the WHERE clause, or the snapshot, proves at the commit  *)
(* that it has not moved at all (CommitActs).  And a request whose key is  *)
(* unused adds its amount to the sums once (EffectsInv).                   *)
(***************************************************************************)
EXTENDS InvoiceTransactions, FiniteSums

(* The condition of an edit is the same in the ledger.                      *)
LEMMA SameCanEdit == \A r : Ledger!CanEdit(r) = CanEdit(r)
BY DEF Ledger!CanEdit, CanEdit

(* The row an edit writes is the same in the ledger.                        *)
LEMMA SameEditRow == \A r, s, t : Ledger!EditRow(r, s, t) = EditRow(r, s, t)
BY DEF Ledger!EditRow, EditRow

(* The condition of a rejection is the same in the ledger.                  *)
LEMMA SameCanReject == \A r, u : Ledger!CanReject(r, u) = CanReject(r, u)
BY DEF Ledger!CanDecide, CanDecide, Ledger!CanReject, CanReject

(* The row a rejection writes is the same in the ledger.                    *)
LEMMA SameRejectRow == \A r : Ledger!RejectRow(r) = RejectRow(r)
BY DEF Ledger!RejectRow, RejectRow

(* The condition of an approval is the same in the ledger.                  *)
LEMMA SameCanApprove == \A r, u : Ledger!CanApprove(r, u) = CanApprove(r, u)
BY DEF Ledger!CanApprove, CanApprove, Ledger!CanDecide, CanDecide

(* The row an approval writes is the same in the ledger.                    *)
LEMMA SameApproveRow == \A r, u : Ledger!ApproveRow(r, u) = ApproveRow(r, u)
BY DEF Ledger!ApproveRow, ApproveRow

(* The postings of an approval are the same in the ledger.                  *)
LEMMA SameApprovePost == \A b, r : Ledger!ApprovePost(b, r) = ApprovePost(b, r)
BY DEF Ledger!ApprovePost, ApprovePost, Ledger!Total, Total

(* The condition of a payment is the same in the ledger.                    *)
LEMMA SameCanPay == \A r, a : Ledger!CanPay(r, a) = CanPay(r, a)
BY DEF Ledger!CanPay, CanPay, Ledger!Payable, Payable

(* The row a payment writes is the same in the ledger.                      *)
LEMMA SamePayRow == \A r, a : Ledger!PayRow(r, a) = PayRow(r, a)
BY DEF Ledger!PayRow, PayRow

(* The postings of a payment are the same in the ledger.                    *)
LEMMA SamePayPost == \A b, a : Ledger!PayPost(b, a) = PayPost(b, a)
BY DEF Ledger!PayPost, PayPost

(* The condition on the accounts of a receipt is the same in the ledger.    *)
LEMMA SameCanBookReceipt == \A a : Ledger!CanBookReceipt(a) = CanBookReceipt(a)
BY DEF Ledger!CanBookReceipt, CanBookReceipt

(* The condition of a write-off is the same in the ledger.                  *)
LEMMA SameCanWriteOff == \A r : Ledger!CanWriteOff(r) = CanWriteOff(r)
BY DEF Ledger!CanWriteOff, CanWriteOff, Ledger!Payable, Payable

(* The row a write-off writes is the same in the ledger.                    *)
LEMMA SameWriteOffRow == \A r, q : Ledger!WriteOffRow(r, q) = WriteOffRow(r, q)
BY DEF Ledger!WriteOffRow, WriteOffRow

(* The postings of a write-off are the same in the ledger.                  *)
LEMMA SameWriteOffPost == \A b, r : Ledger!WriteOffPost(b, r) = WriteOffPost(b, r)
BY DEF Ledger!WriteOffPost, WriteOffPost

(* The condition of a void is the same in the ledger.                       *)
LEMMA SameCanVoid == \A r : Ledger!CanVoid(r) = CanVoid(r)
BY DEF Ledger!CanVoid, CanVoid, Ledger!Voidable, Voidable

(* The row a void writes is the same in the ledger.                         *)
LEMMA SameVoidRow == \A r : Ledger!VoidRow(r) = VoidRow(r)
BY DEF Ledger!VoidRow, VoidRow

(* The postings of a void are the same in the ledger.                       *)
LEMMA SameVoidPost == \A b, r : Ledger!VoidPost(b, r) = VoidPost(b, r)
BY DEF Ledger!Total, Total, Ledger!VoidPost, VoidPost

(* The row of a new invoice is the same in the ledger.                      *)
LEMMA SameDraftRow == \A u, s, t : Ledger!DraftRow(u, s, t) = DraftRow(u, s, t)
BY DEF Ledger!DraftRow, DraftRow

(* The part of a credit that AR takes is the same in the ledger.            *)
LEMMA SameArCredit == \A r, a : Ledger!ArCredit(r, a) = ArCredit(r, a)
BY DEF Ledger!ArCredit, ArCredit

(* The split of a credit into net and tax is the same in the ledger.        *)
LEMMA SameCreditSplit ==
  \A r, c, a, t : Ledger!CreditSplit(r, c, a, t) = CreditSplit(r, c, a, t)
BY DEF Ledger!CreditSplit, CreditSplit, Ledger!TaxPart, TaxPart, Ledger!Remaining, Remaining,
       Ledger!RoundHalfEven, RoundHalfEven

(* The condition of a credit memo is the same in the ledger.                *)
LEMMA SameCanCredit ==
  \A r, c, u, a, t : Ledger!CanCredit(r, c, u, a, t) = CanCredit(r, c, u, a, t)
<1>1. \A r, c : Ledger!Remaining(r, c) = Remaining(r, c)
  BY DEF Ledger!Remaining, Remaining
<1> QED
  BY <1>1, SameCreditSplit, SameArCredit DEF Ledger!CanCredit, CanCredit,
     Ledger!Creditable, Creditable

(* The row a credit memo writes is the same in the ledger.                  *)
LEMMA SameCreditRow == \A r, a : Ledger!CreditRow(r, a) = CreditRow(r, a)
BY DEF Ledger!ArCredit, ArCredit, Ledger!CreditRow, CreditRow

(* The postings of a credit memo are the same in the ledger.                *)
LEMMA SameCreditPost == \A b, r, q : Ledger!CreditPost(b, r, q) = CreditPost(b, r, q)
BY DEF Ledger!ArCredit, ArCredit, Ledger!CreditPost, CreditPost

(* The reversals after a credit memo are the same in the ledger.            *)
LEMMA SameAddReversal == \A c, q : Ledger!AddReversal(c, q) = AddReversal(c, q)
BY DEF Ledger!AddReversal, AddReversal

(* The row a delivery writes is the same in the ledger.                     *)
LEMMA SameSentRow == \A r : Ledger!SentRow(r) = SentRow(r)
BY DEF Ledger!SentRow, SentRow
-----------------------------------------------------------------------------
(* The sets of statuses.                                                    *)
LEMMA StatusSets ==
  /\ Payable = {"APPROVED", "SENT", "PARTIALLY_PAID"}
  /\ Creditable = {"APPROVED", "SENT", "PARTIALLY_PAID", "PAID"}
  /\ Voidable = {"DRAFT", "APPROVED", "SENT"}
  /\ Settled = {"PAID", "VOID", "WRITTEN_OFF"}
  /\ Statuses = {"ABSENT", "DRAFT", "APPROVED", "SENT", "PARTIALLY_PAID",
                 "PAID", "VOID", "WRITTEN_OFF"}
BY DEF Payable, Creditable, Voidable, Settled, Statuses

(* The columns of a row.                                                    *)
LEMMA RowColumns ==
  ASSUME NEW r \in Invoice
  PROVE  /\ r.status \in Statuses
         /\ r.version \in Nat
         /\ r.subtotal \in Nat
         /\ r.tax \in Nat
         /\ r.balance \in Nat
         /\ r.created_by \in Users \cup {NoUser}
         /\ r.approved_by \in Users \cup {NoUser}
         /\ r.sent_at \in BOOLEAN
BY DEF Invoice

(* A row stays a row when one column is written with a value of its type.   *)
LEMMA RowWritten ==
  ASSUME NEW r \in Invoice
  PROVE  /\ \A x \in Statuses : [r EXCEPT !.status = x] \in Invoice
         /\ \A x \in Nat : [r EXCEPT !.version = x] \in Invoice
         /\ \A x \in Nat : [r EXCEPT !.subtotal = x] \in Invoice
         /\ \A x \in Nat : [r EXCEPT !.tax = x] \in Invoice
         /\ \A x \in Nat : [r EXCEPT !.balance = x] \in Invoice
         /\ \A x \in Users : [r EXCEPT !.approved_by = x] \in Invoice
         /\ [r EXCEPT !.sent_at = TRUE] \in Invoice
BY DEF Invoice

(* Every account of a book holds an integer.                                *)
LEMMA BookColumns ==
  ASSUME NEW b \in Book
  PROVE  /\ b.cash \in Int
         /\ b.ar \in Int
         /\ b.credit \in Int
         /\ b.revenue \in Int
         /\ b.tax \in Int
         /\ b.badDebt \in Int
BY DEF Book

(* A book stays a book when one account is written.                         *)
LEMMA BookWritten ==
  ASSUME NEW b \in Book
  PROVE  /\ \A x \in Int : [b EXCEPT !.cash = x] \in Book
         /\ \A x \in Int : [b EXCEPT !.ar = x] \in Book
         /\ \A x \in Int : [b EXCEPT !.credit = x] \in Book
         /\ \A x \in Int : [b EXCEPT !.revenue = x] \in Book
         /\ \A x \in Int : [b EXCEPT !.tax = x] \in Book
         /\ \A x \in Int : [b EXCEPT !.badDebt = x] \in Book
BY DEF Book

-----------------------------------------------------------------------------
(* An invoice is its row r, its postings b, its reversals c, its delivery   *)
(* event o and the number n of times the row was written.  Fit is what      *)
(* holds of it whatever write-offs have done: types, and that the delivery  *)
(* follows the approval.                                                    *)
Fit(r, b, c, o, n) ==
  /\ r \in Invoice
  /\ b \in Book
  /\ c \in Reversal
  /\ o \in {"NONE", "QUEUED", "DELIVERED"}
  /\ n \in Nat
  /\ r.status = "ABSENT" => n = 0
  /\ r.sent_at = TRUE => o = "DELIVERED"
  /\ o # "NONE" => r.status \notin {"ABSENT", "DRAFT"}

(* Sound is what holds until a write-off commits: the version counts the    *)
(* writes, and AR is what the status says.                                  *)
Sound(r, b, c, n) ==
  /\ r.version = n
  /\ r.status # "WRITTEN_OFF"
  /\ r.status \in {"ABSENT", "DRAFT"} => b.ar = 0 /\ c.subtotal = 0 /\ c.tax = 0
  /\ r.status = "DRAFT" => r.balance = r.subtotal + r.tax
  /\ r.status \in {"APPROVED", "SENT"} => r.balance = r.subtotal + r.tax - c.subtotal - c.tax
  /\ r.status \in Payable => b.ar = r.balance
  /\ r.status = "PAID" => b.ar = 0 /\ r.balance = 0
  /\ r.status = "VOID" => b.ar = -(c.subtotal + c.tax)

(* How a row r may be written as q: it never leaves or returns to the draft *)
(* that a session may have read, except under a higher version.             *)
Newer(r, q) ==
  /\ q.status # "ABSENT"
  /\ q.status = "DRAFT" /\ r.status # "ABSENT" =>
       r.status = "DRAFT" /\ q.version > r.version

(* A new draft.                                                             *)
LEMMA DraftFits ==
  ASSUME NEW r, NEW b, NEW c, NEW o, NEW n, Fit(r, b, c, o, n), r.status = "ABSENT",
         NEW u \in Users, NEW s \in Nat, NEW t \in Nat
  PROVE  LET q == DraftRow(u, s, t)
         IN  /\ Fit(q, b, c, o, n + 1)
             /\ Sound(r, b, c, n) => Sound(q, b, c, n + 1)
             /\ Newer(r, q)
             /\ q.approved_by = NoUser
<1> DEFINE q == DraftRow(u, s, t)
<1>1. /\ q.status = "DRAFT" /\ q.version = 1 /\ q.balance = s + t /\ q.subtotal = s
      /\ q.tax = t /\ q.approved_by = NoUser /\ q.sent_at = FALSE
  BY DEF DraftRow
<1>2. q \in Invoice
  BY StatusSets DEF DraftRow, Invoice
<1> HIDE DEF q
<1>3. n = 0 /\ o = "NONE"
  BY DEF Fit
<1>4. Fit(q, b, c, o, n + 1)
  BY <1>1, <1>2, <1>3 DEF Fit
<1>5. Sound(r, b, c, n) => Sound(q, b, c, n + 1)
  BY <1>1, <1>3, StatusSets DEF Sound
<1>6. Newer(r, q)
  BY <1>1 DEF Newer
<1> QED
  BY <1>1, <1>4, <1>5, <1>6 DEF q

(* An edited draft.                                                         *)
LEMMA EditFits ==
  ASSUME NEW r, NEW b, NEW c, NEW o, NEW n, Fit(r, b, c, o, n), CanEdit(r),
         NEW s \in Nat, NEW t \in Nat
  PROVE  LET q == EditRow(r, s, t)
         IN  /\ Fit(q, b, c, o, n + 1)
             /\ Sound(r, b, c, n) => Sound(q, b, c, n + 1)
             /\ Newer(r, q)
             /\ q.approved_by = r.approved_by
<1> DEFINE q == EditRow(r, s, t)
<1>1. r \in Invoice /\ n \in Nat
  BY DEF Fit
<1>2. r.status = "DRAFT" /\ r.version \in Nat /\ r.version + 1 \in Nat /\ s + t \in Nat
  BY <1>1, RowColumns DEF CanEdit
<1>3. q \in Invoice
  BY <1>1, <1>2, RowWritten DEF EditRow
<1>4. /\ q.status = "DRAFT" /\ q.version = r.version + 1 /\ q.balance = s + t
      /\ q.subtotal = s /\ q.tax = t /\ q.approved_by = r.approved_by
      /\ q.sent_at = r.sent_at
  BY <1>1, <1>2 DEF EditRow, Invoice
<1> HIDE DEF q
<1>5. Fit(q, b, c, o, n + 1)
  BY <1>2, <1>3, <1>4 DEF Fit
<1>6. Sound(r, b, c, n) => Sound(q, b, c, n + 1)
  BY <1>2, <1>4, StatusSets DEF Sound
<1>7. Newer(r, q)
  BY <1>2, <1>4 DEF Newer
<1> QED
  BY <1>4, <1>5, <1>6, <1>7 DEF q

(* A rejected draft.                                                        *)
LEMMA RejectFits ==
  ASSUME NEW r, NEW b, NEW c, NEW o, NEW n, Fit(r, b, c, o, n), NEW u, CanReject(r, u)
  PROVE  LET q == RejectRow(r)
         IN  /\ Fit(q, b, c, o, n + 1)
             /\ Sound(r, b, c, n) => Sound(q, b, c, n + 1)
             /\ Newer(r, q)
             /\ q.approved_by = r.approved_by
<1> DEFINE q == RejectRow(r)
<1>1. r \in Invoice /\ n \in Nat
  BY DEF Fit
<1>2. r.status = "DRAFT" /\ r.version \in Nat /\ r.version + 1 \in Nat
  BY <1>1, RowColumns DEF CanReject, CanDecide
<1>3. q \in Invoice
  BY <1>1, <1>2, RowWritten DEF RejectRow
<1>4. /\ q.status = "DRAFT" /\ q.version = r.version + 1 /\ q.balance = r.balance
      /\ q.subtotal = r.subtotal /\ q.tax = r.tax /\ q.approved_by = r.approved_by
      /\ q.sent_at = r.sent_at
  BY <1>1, <1>2 DEF RejectRow, Invoice
<1> HIDE DEF q
<1>5. Fit(q, b, c, o, n + 1)
  BY <1>2, <1>3, <1>4 DEF Fit
<1>6. Sound(r, b, c, n) => Sound(q, b, c, n + 1)
  BY <1>2, <1>4, StatusSets DEF Sound
<1>7. Newer(r, q)
  BY <1>2, <1>4 DEF Newer
<1> QED
  BY <1>4, <1>5, <1>6, <1>7 DEF q

(* An approved draft with what the approval posts.                          *)
LEMMA ApproveFits ==
  ASSUME NEW r, NEW b, NEW c, NEW o, NEW n, Fit(r, b, c, o, n),
         NEW u \in Users, CanApprove(r, u)
  PROVE  LET q == ApproveRow(r, u)
             d == ApprovePost(b, r)
         IN  /\ Fit(q, d, c, "QUEUED", n + 1)
             /\ Sound(r, b, c, n) => Sound(q, d, c, n + 1)
             /\ Newer(r, q)
             /\ q.approved_by = u
             /\ d.cash = b.cash
<1> DEFINE q == ApproveRow(r, u)
           d == ApprovePost(b, r)
<1>1. r \in Invoice /\ n \in Nat /\ b \in Book /\ c \in Reversal
  BY DEF Fit
<1>2. r.status = "DRAFT" /\ r.version \in Nat /\ r.version + 1 \in Nat
  BY <1>1, RowColumns DEF CanApprove, CanDecide
<1>3. q \in Invoice
  BY <1>1, <1>2, RowWritten, StatusSets DEF ApproveRow
<1>4. /\ q.status = "APPROVED" /\ q.version = r.version + 1 /\ q.balance = r.balance
      /\ q.subtotal = r.subtotal /\ q.tax = r.tax /\ q.approved_by = u
      /\ q.sent_at = r.sent_at
  BY <1>1 DEF ApproveRow, Invoice
<1>5. /\ b.ar + Total(r) \in Int
      /\ b.revenue - r.subtotal \in Int
      /\ b.tax - r.tax \in Int
  BY <1>1, RowColumns, BookColumns DEF Total
<1>6. d \in Book
  BY <1>1, <1>5, BookWritten DEF ApprovePost
<1>7. d.cash = b.cash /\ d.ar = b.ar + (r.subtotal + r.tax)
  BY <1>1 DEF ApprovePost, Book, Total
<1> HIDE DEF q, d
<1>8. r.sent_at # TRUE
  BY <1>2 DEF Fit
<1>9. Fit(q, d, c, "QUEUED", n + 1)
  <2>1. q.sent_at # TRUE /\ q.status = "APPROVED"
    BY <1>4, <1>8
  <2>2. n + 1 \in Nat
    BY <1>1
  <2> QED
    BY <1>1, <1>3, <1>6, <2>1, <2>2 DEF Fit
<1>10. Sound(r, b, c, n) => Sound(q, d, c, n + 1)
  BY <1>1, <1>2, <1>4, <1>7, RowColumns, StatusSets DEF Sound
<1>11. Newer(r, q)
  BY <1>4 DEF Newer
<1> QED
  BY <1>4, <1>7, <1>9, <1>10, <1>11 DEF q, d

(* A payment of a part of the balance or of all of it.                      *)
LEMMA PayFits ==
  ASSUME NEW r, NEW b, NEW c, NEW o, NEW n, Fit(r, b, c, o, n),
         NEW a \in Nat, CanPay(r, a)
  PROVE  LET q == PayRow(r, a)
             d == PayPost(b, a)
         IN  /\ Fit(q, d, c, o, n + 1)
             /\ Sound(r, b, c, n) => Sound(q, d, c, n + 1)
             /\ Newer(r, q)
             /\ q.approved_by = r.approved_by
             /\ d.cash = b.cash + a
<1> DEFINE q == PayRow(r, a)
           d == PayPost(b, a)
           st == IF a = r.balance THEN "PAID" ELSE "PARTIALLY_PAID"
<1>1. r \in Invoice /\ n \in Nat /\ b \in Book /\ c \in Reversal
  BY DEF Fit
<1>2. /\ r.status \in Payable /\ a > 0 /\ a <= r.balance
      /\ r.version \in Nat /\ r.version + 1 \in Nat /\ r.balance - a \in Nat
      /\ r.balance \in Nat
  BY <1>1, RowColumns DEF CanPay
<1>3. q \in Invoice
  <2>1. st \in Statuses
    BY StatusSets
  <2> QED
    BY <1>1, <1>2, <2>1, RowWritten DEF PayRow
<1>4. /\ q.status = st /\ q.version = r.version + 1 /\ q.balance = r.balance - a
      /\ q.subtotal = r.subtotal /\ q.tax = r.tax /\ q.approved_by = r.approved_by
      /\ q.sent_at = r.sent_at
  BY <1>1 DEF PayRow, Invoice
<1>5. b.cash \in Int /\ b.ar \in Int /\ b.cash + a \in Int /\ b.ar - a \in Int
  BY <1>1, BookColumns
<1>6. d \in Book
  BY <1>1, <1>5, BookWritten DEF PayPost
<1>7. d.cash = b.cash + a /\ d.ar = b.ar - a
  BY <1>1 DEF PayPost, Book
<1> HIDE DEF q, d
<1>8. Fit(q, d, c, o, n + 1)
  BY <1>1, <1>3, <1>4, <1>6 DEF Fit
<1>9. Sound(r, b, c, n) => Sound(q, d, c, n + 1)
  <2> SUFFICES ASSUME Sound(r, b, c, n) PROVE Sound(q, d, c, n + 1)
    OBVIOUS
  <2>1. r.version = n /\ b.ar = r.balance
    BY <1>2 DEF Sound
  <2>2. CASE a = r.balance
    <3>1. q.status = "PAID" /\ q.balance = 0 /\ d.ar = 0
      BY <2>1, <2>2, <1>2, <1>4, <1>7
    <3> QED
      BY <2>1, <3>1, <1>4, StatusSets DEF Sound
  <2>3. CASE a # r.balance
    <3>1. q.status = "PARTIALLY_PAID" /\ d.ar = q.balance
      BY <2>1, <2>3, <1>2, <1>4, <1>7
    <3> QED
      BY <2>1, <3>1, <1>4, StatusSets DEF Sound
  <2> QED
    BY <2>2, <2>3
<1>10. Newer(r, q)
  BY <1>4 DEF Newer
<1> QED
  BY <1>4, <1>7, <1>8, <1>9, <1>10 DEF q, d

(* A credit memo and what it posts.                                         *)
LEMMA CreditFits ==
  ASSUME NEW r, NEW b, NEW c, NEW o, NEW n, Fit(r, b, c, o, n),
         NEW u, NEW amount \in Nat, NEW include_tax, CanCredit(r, c, u, amount, include_tax)
  PROVE  LET split == CreditSplit(r, c, amount, include_tax)
             q == CreditRow(r, amount)
             d == CreditPost(b, r, split)
             e == AddReversal(c, split)
         IN  /\ Fit(q, d, e, o, n + 1)
             /\ Sound(r, b, c, n) => Sound(q, d, e, n + 1)
             /\ Newer(r, q)
             /\ q.approved_by = r.approved_by
             /\ d.cash = b.cash
             /\ e.subtotal + e.tax = c.subtotal + c.tax + amount
<1> DEFINE split == CreditSplit(r, c, amount, include_tax)
           rem == Remaining(r, c)
           q == CreditRow(r, amount)
           d == CreditPost(b, r, split)
           e == AddReversal(c, split)
           ar == ArCredit(r, amount)
           st == IF ar = r.balance THEN "PAID" ELSE r.status
<1>1. r \in Invoice /\ n \in Nat /\ b \in Book /\ c \in Reversal
  BY DEF Fit
<1>2. c.subtotal \in Nat /\ c.tax \in Nat
  BY <1>1 DEF Reversal
<1>3. rem.subtotal \in Nat /\ rem.tax \in Nat
  BY <1>1, <1>2, RowColumns DEF Remaining
<1>4. /\ r.status \in Creditable /\ amount > 0
      /\ split.subtotal \in 1 .. rem.subtotal
      /\ split.tax \in 0 .. rem.tax
  BY DEF CanCredit
<1>5. split.subtotal \in Nat /\ split.tax \in Nat
  BY <1>3, <1>4
<1>6. split.subtotal + split.tax = amount
  <2>1. split.subtotal = amount - TaxPart(rem, amount, include_tax)
        /\ split.tax = TaxPart(rem, amount, include_tax)
    BY DEF CreditSplit
  <2> HIDE DEF split
  <2>2. split.subtotal = amount - split.tax
    BY <2>1
  <2> QED
    BY <2>2, <1>5
<1>7. /\ r.balance \in Nat /\ r.version \in Nat /\ r.version + 1 \in Nat
      /\ r.subtotal \in Nat /\ r.tax \in Nat /\ r.status \in Statuses
  BY <1>1, RowColumns
<1>8. /\ ar \in Nat /\ r.balance - ar \in Nat /\ ar <= amount
      /\ ar # r.balance => ar = amount
      /\ r.balance = 0 => ar = 0
  BY <1>7 DEF ArCredit
<1>9. q \in Invoice
  <2>1. st \in Statuses
    BY <1>7, StatusSets
  <2> QED
    BY <1>1, <1>7, <1>8, <2>1, RowWritten DEF CreditRow
<1>10. /\ q.status = st /\ q.version = r.version + 1 /\ q.balance = r.balance - ar
       /\ q.subtotal = r.subtotal /\ q.tax = r.tax /\ q.approved_by = r.approved_by
       /\ q.sent_at = r.sent_at
  BY <1>1 DEF CreditRow, Invoice
<1>11. d = [b EXCEPT !.revenue = b.revenue + split.subtotal, !.tax = b.tax + split.tax,
                     !.ar = b.ar - ar, !.credit = b.credit - (amount - ar)]
  BY <1>1, <1>6 DEF CreditPost, Book
<1>12. e.subtotal = c.subtotal + split.subtotal /\ e.tax = c.tax + split.tax
       /\ e = [subtotal |-> e.subtotal, tax |-> e.tax]
  BY DEF AddReversal
<1> HIDE DEF q, d, e, split, ar, rem
<1>13. d \in Book
  <2>1. /\ b.revenue + split.subtotal \in Int /\ b.tax + split.tax \in Int
        /\ b.ar - ar \in Int /\ b.credit - (amount - ar) \in Int
    BY <1>1, <1>5, <1>8, BookColumns
  <2> QED
    BY <1>1, <1>11, <2>1, BookWritten
<1>14. d.cash = b.cash /\ d.ar = b.ar - ar /\ b.ar \in Int
  BY <1>1, <1>11 DEF Book
<1>15. e \in Reversal
  <2>1. e.subtotal \in Nat /\ e.tax \in Nat
    BY <1>2, <1>5, <1>12
  <2> QED
    BY <1>12, <2>1 DEF Reversal
<1>16. Fit(q, d, e, o, n + 1)
  BY <1>1, <1>4, <1>9, <1>10, <1>13, <1>15, StatusSets DEF Fit
<1>17. e.subtotal + e.tax = c.subtotal + c.tax + amount
  BY <1>2, <1>5, <1>6, <1>12
<1>18. Sound(r, b, c, n) => Sound(q, d, e, n + 1)
  <2> SUFFICES ASSUME Sound(r, b, c, n) PROVE Sound(q, d, e, n + 1)
    OBVIOUS
  <2>1. r.version = n /\ b.ar = r.balance
    BY <1>4, StatusSets DEF Sound
  <2>2. CASE ar = r.balance
    <3>1. q.status = "PAID" /\ q.balance = 0 /\ d.ar = 0
      BY <2>1, <2>2, <1>7, <1>8, <1>10, <1>14
    <3> QED
      BY <2>1, <3>1, <1>10, StatusSets DEF Sound
  <2>3. CASE ar # r.balance
    <3>1. /\ q.status = r.status /\ d.ar = q.balance /\ ar = amount /\ r.balance # 0
          /\ q.balance = r.balance - amount
      BY <2>1, <2>3, <1>7, <1>8, <1>10, <1>14
    <3>2. r.status \in Payable
      BY <3>1, <1>4, StatusSets DEF Sound
    <3>3. q.status \in {"APPROVED", "SENT"} =>
            q.balance = q.subtotal + q.tax - e.subtotal - e.tax
      <4> SUFFICES ASSUME q.status \in {"APPROVED", "SENT"}
                   PROVE  q.balance = q.subtotal + q.tax - e.subtotal - e.tax
        OBVIOUS
      <4>1. r.balance = r.subtotal + r.tax - c.subtotal - c.tax
        BY <3>1 DEF Sound
      <4>2. e.subtotal \in Nat /\ e.tax \in Nat
        BY <1>2, <1>5, <1>12
      <4> QED
        BY <3>1, <4>1, <4>2, <1>2, <1>7, <1>10, <1>17
    <3> QED
      BY <2>1, <3>1, <3>2, <3>3, <1>10, StatusSets DEF Sound
  <2> QED
    BY <2>2, <2>3
<1>19. Newer(r, q)
  BY <1>4, <1>10, StatusSets DEF Newer
<1> QED
  BY <1>10, <1>14, <1>16, <1>17, <1>18, <1>19 DEF q, d, e, split

(* A write-off, of whatever row was read for it.                            *)
LEMMA WriteOffFits ==
  ASSUME NEW r, NEW b, NEW c, NEW o, NEW n, Fit(r, b, c, o, n), NEW seen \in Invoice
  PROVE  LET q == WriteOffRow(r, seen)
             d == WriteOffPost(b, seen)
         IN  /\ Fit(q, d, c, o, n + 1)
             /\ Newer(r, q)
             /\ q.approved_by = r.approved_by
             /\ d.cash = b.cash
<1> DEFINE q == WriteOffRow(r, seen)
           d == WriteOffPost(b, seen)
<1>1. r \in Invoice /\ n \in Nat /\ b \in Book /\ c \in Reversal
  BY DEF Fit
<1>2. seen.version + 1 \in Nat /\ seen.balance \in Nat
  BY RowColumns
<1>3. q \in Invoice
  BY <1>1, <1>2, RowWritten, StatusSets DEF WriteOffRow
<1>4. /\ q.status = "WRITTEN_OFF" /\ q.approved_by = r.approved_by
      /\ q.sent_at = r.sent_at
  BY <1>1 DEF WriteOffRow, Invoice
<1>5. d \in Book
  <2>1. /\ b.badDebt + (IF "BAD_DEBT" \in Chart THEN seen.balance ELSE 0) \in Int
        /\ b.ar - (IF "AR" \in Chart THEN seen.balance ELSE 0) \in Int
    BY <1>1, <1>2, BookColumns
  <2> QED
    BY <1>1, <2>1, BookWritten DEF WriteOffPost
<1>6. d.cash = b.cash
  BY <1>1 DEF WriteOffPost, Book
<1> HIDE DEF q, d
<1>7. Fit(q, d, c, o, n + 1)
  BY <1>1, <1>3, <1>4, <1>5 DEF Fit
<1>8. Newer(r, q)
  BY <1>4 DEF Newer
<1> QED
  BY <1>4, <1>6, <1>7, <1>8 DEF q, d

(* A void, of a draft or of an approved invoice no money was received for.  *)
LEMMA VoidFits ==
  ASSUME NEW r, NEW b, NEW c, NEW o, NEW n, Fit(r, b, c, o, n), CanVoid(r)
  PROVE  LET q == VoidRow(r)
             d == VoidPost(b, r)
         IN  /\ Fit(q, d, c, o, n + 1)
             /\ Sound(r, b, c, n) => Sound(q, d, c, n + 1)
             /\ Newer(r, q)
             /\ q.approved_by = r.approved_by
             /\ d.cash = b.cash
<1> DEFINE q == VoidRow(r)
           d == VoidPost(b, r)
<1>1. r \in Invoice /\ n \in Nat /\ b \in Book /\ c \in Reversal
  BY DEF Fit
<1>2. /\ r.status \in Voidable /\ r.version \in Nat /\ r.version + 1 \in Nat
      /\ r.subtotal \in Nat /\ r.tax \in Nat
      /\ c.subtotal \in Nat /\ c.tax \in Nat
  BY <1>1, RowColumns DEF CanVoid, Reversal
<1>3. q \in Invoice
  BY <1>1, <1>2, RowWritten, StatusSets DEF VoidRow
<1>4. /\ q.status = "VOID" /\ q.version = r.version + 1 /\ q.approved_by = r.approved_by
      /\ q.sent_at = r.sent_at
  BY <1>1 DEF VoidRow, Invoice
<1>5. d \in Book /\ d.cash = b.cash
      /\ d.ar = IF r.status = "DRAFT" THEN b.ar ELSE b.ar - (r.subtotal + r.tax)
  <2>1. CASE r.status = "DRAFT"
    BY <1>1, <2>1 DEF VoidPost
  <2>2. CASE r.status # "DRAFT"
    <3>1. /\ b.revenue + r.subtotal \in Int /\ b.tax + r.tax \in Int
          /\ b.ar - (r.subtotal + r.tax) \in Int
      BY <1>1, <1>2, BookColumns
    <3>2. d = [b EXCEPT !.revenue = b.revenue + r.subtotal, !.tax = b.tax + r.tax,
                        !.ar = b.ar - (r.subtotal + r.tax)]
      BY <1>1, <2>2 DEF VoidPost, Total, Book
    <3> HIDE DEF d
    <3>3. d \in Book
      BY <1>1, <3>1, <3>2, BookWritten
    <3>4. d.cash = b.cash /\ d.ar = b.ar - (r.subtotal + r.tax)
      BY <1>1, <3>2 DEF Book
    <3> QED
      BY <2>2, <3>3, <3>4
  <2> QED
    BY <2>1, <2>2
<1> HIDE DEF q, d
<1>6. Fit(q, d, c, o, n + 1)
  BY <1>1, <1>3, <1>4, <1>5 DEF Fit
<1>7. Sound(r, b, c, n) => Sound(q, d, c, n + 1)
  <2> SUFFICES ASSUME Sound(r, b, c, n) PROVE Sound(q, d, c, n + 1)
    OBVIOUS
  <2>1. d.ar = -(c.subtotal + c.tax)
    <3>1. CASE r.status = "DRAFT"
      BY <3>1, <1>5 DEF Sound
    <3>2. CASE r.status \in {"APPROVED", "SENT"}
      <4>1. b.ar = r.balance /\ r.balance = r.subtotal + r.tax - c.subtotal - c.tax
        BY <3>2, StatusSets DEF Sound
      <4>2. d.ar = b.ar - (r.subtotal + r.tax)
        BY <3>2, <1>5
      <4> QED
        BY <4>1, <4>2, <1>2
    <3> QED
      BY <3>1, <3>2, <1>2, StatusSets
  <2>2. r.version = n
    BY DEF Sound
  <2> QED
    BY <2>1, <2>2, <1>4, StatusSets DEF Sound
<1>8. Newer(r, q)
  BY <1>4 DEF Newer
<1> QED
  BY <1>4, <1>5, <1>6, <1>7, <1>8 DEF q, d

(* A delivered invoice.                                                     *)
LEMMA SentFits ==
  ASSUME NEW r, NEW b, NEW c, NEW n, Fit(r, b, c, "QUEUED", n)
  PROVE  LET q == SentRow(r)
         IN  /\ Fit(q, b, c, "DELIVERED", n + 1)
             /\ Sound(r, b, c, n) => Sound(q, b, c, n + 1)
             /\ Newer(r, q)
             /\ q.approved_by = r.approved_by
<1> DEFINE q == SentRow(r)
           st == IF r.status = "APPROVED" THEN "SENT" ELSE r.status
<1>1. r \in Invoice /\ n \in Nat
  BY DEF Fit
<1>2. /\ r.sent_at = FALSE /\ r.status \notin {"ABSENT", "DRAFT"}
      /\ r.version \in Nat /\ r.version + 1 \in Nat /\ r.status \in Statuses
  BY <1>1, RowColumns DEF Fit
<1>3. q = [r EXCEPT !.status = st, !.sent_at = TRUE, !.version = r.version + 1]
  BY <1>1, <1>2 DEF SentRow, Invoice
<1>4. st \in Statuses
  BY <1>2, StatusSets
<1> HIDE DEF q
<1>5. q \in Invoice
  <2> HIDE DEF st
  <2> QED
    BY <1>1, <1>2, <1>3, <1>4, RowWritten
<1>6. /\ q.status = st /\ q.version = r.version + 1 /\ q.balance = r.balance
      /\ q.subtotal = r.subtotal /\ q.tax = r.tax /\ q.approved_by = r.approved_by
      /\ q.sent_at = TRUE
  BY <1>1, <1>3 DEF Invoice
<1>7. Fit(q, b, c, "DELIVERED", n + 1)
  BY <1>2, <1>5, <1>6 DEF Fit
<1>8. Sound(r, b, c, n) => Sound(q, b, c, n + 1)
  BY <1>2, <1>6, StatusSets DEF Sound
<1>9. Newer(r, q)
  BY <1>2, <1>6 DEF Newer
<1> QED
  BY <1>6, <1>7, <1>8, <1>9 DEF q
-----------------------------------------------------------------------------
(* A session that read the row r of an invoice after n writes knows how far *)
(* it may have moved on, now that it is q after m writes: an unmoved count  *)
(* or an unmoved version of a draft means the same row.                     *)
ReadOK(r, n, q, m) ==
  /\ r \in Invoice
  /\ n \in Nat
  /\ n <= m
  /\ n = m => r = q
  /\ r.status = "DRAFT" =>
       /\ q.status # "ABSENT"
       /\ q.status = "DRAFT" => r.version <= q.version /\ (r.version = q.version => r = q)

(* What the handler of request q checked on the rows it read.               *)
Checked(q, seen) ==
  /\ q.op \in {"EDIT", "REJECT", "APPROVE", "WRITE_OFF", "VOID"} => q.inv \in DOMAIN seen
  /\ q.op = "EDIT" => CanEdit(seen[q.inv])
  /\ q.op = "REJECT" => CanReject(seen[q.inv], q.user)
  /\ q.op = "APPROVE" => CanApprove(seen[q.inv], q.user)
  /\ q.op = "WRITE_OFF" => CanWriteOff(seen[q.inv])
  /\ q.op = "VOID" => CanVoid(seen[q.inv])
  /\ q.op = "PAY_MANUAL" =>
       /\ DOMAIN seen = DOMAIN q.alloc
       /\ \A i \in DOMAIN q.alloc : CanPay(seen[i], q.alloc[i])
       /\ CanBookReceipt(q.rest)
  /\ q.op = "PAY_AUTO" =>
       /\ DOMAIN seen # {}
       /\ \A i \in DOMAIN seen : seen[i].status \in Payable /\ seen[i].balance > 0
       /\ CanBookReceipt(AutoRest(seen, q.amount))

(* The session t against the rows rs and the counts of writes ns.           *)
SessionOK(t, rs, ns) ==
  /\ t.open \in BOOLEAN
  /\ t.open = TRUE =>
       /\ t.req \in Requests
       /\ DOMAIN t.seen \subseteq Invoices
       /\ t.tups = [i \in DOMAIN t.seen |-> t.tups[i]]
       /\ \A i \in DOMAIN t.seen : ReadOK(t.seen[i], t.tups[i], rs[i], ns[i])
       /\ Checked(t.req, t.seen)

WrittenOff(i) == \E q \in done : q.op = "WRITE_OFF" /\ q.inv = i

Shaped ==
  /\ rows = [i \in Invoices |-> rows[i]]
  /\ books = [i \in Invoices |-> books[i]]
  /\ credited = [i \in Invoices |-> credited[i]]
  /\ outbox = [i \in Invoices |-> outbox[i]]
  /\ tuple = [i \in Invoices |-> tuple[i]]

TablesOK ==
  /\ Shaped
  /\ onAccount \in Nat
  /\ done \subseteq Requests
  /\ IsFiniteSet(done)
  /\ \A i \in Invoices :
       /\ Fit(rows[i], books[i], credited[i], outbox[i], tuple[i])
       /\ WrittenOff(i) \/ Sound(rows[i], books[i], credited[i], tuple[i])

TxInv ==
  /\ TablesOK
  /\ sess = [s \in Sessions |-> sess[s]]
  /\ \A s \in Sessions : SessionOK(sess[s], rows, tuple)

-----------------------------------------------------------------------------
(* The fields of the requests.                                              *)
LEMMA RequestFields ==
  ASSUME NEW q \in Requests
  PROVE  /\ q.op \in {"CREATE", "EDIT", "REJECT", "APPROVE", "CREDIT", "WRITE_OFF", "VOID",
                      "PAY_MANUAL", "PAY_AUTO"}
         /\ q.op = "CREATE" =>
              q.user \in Users /\ q.subtotal \in Subtotals /\ q.tax \in Taxes
         /\ q.op = "EDIT" =>
              q.inv \in Invoices /\ q.subtotal \in Subtotals /\ q.tax \in Taxes
         /\ q.op \in {"REJECT", "APPROVE"} => q.inv \in Invoices /\ q.user \in Users
         /\ q.op = "CREDIT" =>
              /\ q.inv \in Invoices /\ q.user \in Users
              /\ q.amount \in 1 .. MaxAmount /\ q.include_tax \in BOOLEAN
         /\ q.op \in {"WRITE_OFF", "VOID"} => q.inv \in Invoices
         /\ q.op = "PAY_MANUAL" => q.alloc \in Ledger!Allocations /\ q.rest \in 0 .. MaxAmount
         /\ q.op = "PAY_AUTO" => q.amount \in 1 .. MaxAmount
BY DEF Requests, CreateRequests, EditRequests, DecideRequests, CreditRequests,
       CloseRequests, ManualRequests, AutoRequests

(* Which invoices an allocation pays, and how much.                         *)
LEMMA AllocationParts ==
  /\ \A alloc \in Ledger!Allocations :
       /\ DOMAIN alloc \subseteq Invoices
       /\ DOMAIN alloc # {}
       /\ IsFiniteSet(DOMAIN alloc)
       /\ \A i \in DOMAIN alloc : alloc[i] \in 1 .. MaxAmount /\ alloc[i] \in Nat
  /\ \A D : \A alloc \in [D -> 1 .. MaxAmount] :
       D \subseteq Invoices /\ D # {} => alloc \in Ledger!Allocations
<1>1. MaxAmount \in Nat /\ IsFiniteSet(Invoices)
  BY TransactionAssumption DEF TransactionAssumption
<1>2. ASSUME NEW alloc \in Ledger!Allocations
      PROVE  /\ DOMAIN alloc \subseteq Invoices
             /\ DOMAIN alloc # {}
             /\ \A i \in DOMAIN alloc : alloc[i] \in 1 .. MaxAmount
  BY DEF Ledger!Allocations
<1>3. ASSUME NEW alloc \in Ledger!Allocations
      PROVE  IsFiniteSet(DOMAIN alloc)
  <2>1. DOMAIN alloc \subseteq Invoices
    BY <1>2
  <2> QED
    BY <2>1, <1>1, FS_Subset
<1>4. \A D : \A alloc \in [D -> 1 .. MaxAmount] :
        D \subseteq Invoices /\ D # {} => alloc \in Ledger!Allocations
  BY DEF Ledger!Allocations
<1>5. \A n \in 1 .. MaxAmount : n \in Nat
  BY <1>1
<1> QED
  BY <1>2, <1>3, <1>4, <1>5

(* How a request splits a receipt.                                          *)
Splits(q, alloc, rest) ==
  /\ q.op \in {"PAY_MANUAL", "PAY_AUTO"}
  /\ PaymentAmount(q) = SumFunction(alloc) + rest

(* What request q does when it commits: what it would do alone, but for a   *)
(* write-off, which acts on a row that may be out of date.                  *)
Acts(q) ==
  \/ /\ q.op = "CREATE"
     /\ \E i \in Invoices :
          Ledger!CreateInvoice(i, q.user, q.subtotal, q.tax) /\ WriteRows({i})
  \/ /\ q.op = "EDIT"
     /\ Ledger!UpdateInvoice(q.inv, q.subtotal, q.tax) /\ WriteRows({q.inv})
  \/ /\ q.op = "REJECT"
     /\ Ledger!RejectInvoice(q.inv, q.user) /\ WriteRows({q.inv})
  \/ /\ q.op = "APPROVE"
     /\ Ledger!ApproveInvoice(q.inv, q.user) /\ WriteRows({q.inv})
  \/ /\ q.op = "CREDIT"
     /\ Ledger!CreateCreditMemo(q.inv, q.user, q.amount, q.include_tax)
     /\ WriteRows({q.inv})
  \/ /\ q.op = "VOID"
     /\ Ledger!VoidInvoice(q.inv) /\ WriteRows({q.inv})
  \/ \E alloc \in Ledger!Allocations, rest \in 0 .. MaxAmount :
       /\ Splits(q, alloc, rest)
       /\ Ledger!CreatePayment(alloc, rest)
       /\ WriteRows(DOMAIN alloc)
  \/ /\ q.op = "WRITE_OFF"
     /\ \E seen \in Invoice :
          /\ CanWriteOff(seen)
          /\ rows' = [rows EXCEPT ![q.inv] = WriteOffRow(@, seen)]
          /\ books' = [books EXCEPT ![q.inv] = WriteOffPost(@, seen)]
          /\ WriteRows({q.inv})
          /\ UNCHANGED <<credited, outbox, onAccount>>

(* A session that may commit, and the row it read.                          *)
LEMMA OpenSession ==
  ASSUME TxInv, NEW s \in Sessions, sess[s].open
  PROVE  /\ sess[s].open = TRUE
         /\ sess[s].req \in Requests
         /\ DOMAIN sess[s].seen \subseteq Invoices
         /\ DOMAIN sess[s].tups = DOMAIN sess[s].seen
         /\ \A i \in DOMAIN sess[s].seen :
              ReadOK(sess[s].seen[i], sess[s].tups[i], rows[i], tuple[i])
         /\ Checked(sess[s].req, sess[s].seen)
<1>1. SessionOK(sess[s], rows, tuple)
  BY DEF TxInv
<1> DEFINE t == sess[s]
<1>2. t.open
  OBVIOUS
<1> HIDE DEF t
<1>3. SessionOK(t, rows, tuple)
  BY <1>1 DEF t
<1>4. t.open = TRUE
  BY <1>2, <1>3 DEF SessionOK
<1>5. /\ t.open = TRUE
      /\ t.req \in Requests
      /\ DOMAIN t.seen \subseteq Invoices
      /\ DOMAIN t.tups = DOMAIN t.seen
      /\ \A i \in DOMAIN t.seen : ReadOK(t.seen[i], t.tups[i], rows[i], tuple[i])
      /\ Checked(t.req, t.seen)
  BY <1>3, <1>4 DEF SessionOK
<1> QED
  BY <1>5 DEF t

(* The version in the WHERE clause proves that the draft has not moved.     *)
LEMMA VersionProves ==
  ASSUME NEW r, NEW n, NEW i, ReadOK(r, n, rows[i], tuple[i]), r.status = "DRAFT",
         VersionUnmoved(i, r)
  PROVE  rows[i] = r
BY DEF ReadOK, VersionUnmoved

(* So does the snapshot for every row.                                      *)
LEMMA SnapshotProves ==
  ASSUME TxInv, NEW s \in Sessions, sess[s].open, SnapshotHolds(sess[s]),
         NEW i \in DOMAIN sess[s].seen
  PROVE  rows[i] = sess[s].seen[i]
<1>1. /\ DOMAIN sess[s].tups = DOMAIN sess[s].seen
      /\ ReadOK(sess[s].seen[i], sess[s].tups[i], rows[i], tuple[i])
  BY OpenSession
<1>2. tuple[i] = sess[s].tups[i]
  BY <1>1 DEF SnapshotHolds
<1> QED
  BY <1>1, <1>2 DEF ReadOK

-----------------------------------------------------------------------------
(* A commit of a creation, which reads nothing but the credit exposure.     *)
LEMMA CommitCreateActs ==
  ASSUME TxInv, NEW s \in Sessions, CommitCreate(s)
  PROVE  Acts(sess[s].req)
BY DEF CommitCreate, Committing, Acts

(* A commit of an edit.                                                     *)
LEMMA CommitEditActs ==
  ASSUME TxInv, NEW s \in Sessions, CommitEdit(s)
  PROVE  Acts(sess[s].req)
<1> DEFINE q == sess[s].req
           r == sess[s].seen[q.inv]
<1>1. sess[s].open /\ q.op = "EDIT" /\ VersionUnmoved(q.inv, r)
  BY DEF CommitEdit, Committing
<1>2. /\ q.inv \in DOMAIN sess[s].seen /\ CanEdit(r)
      /\ ReadOK(r, sess[s].tups[q.inv], rows[q.inv], tuple[q.inv])
  BY <1>1, OpenSession DEF Checked
<1>3. rows[q.inv] = r
  BY <1>1, <1>2, VersionProves DEF CanEdit
<1>4. CanEdit(rows[q.inv])
  BY <1>2, <1>3
<1>5. /\ rows' = [rows EXCEPT ![q.inv] = EditRow(@, q.subtotal, q.tax)]
      /\ WriteRows({q.inv})
      /\ UNCHANGED <<books, credited, outbox, onAccount>>
  BY DEF CommitEdit
<1> HIDE DEF q, r
<1>6. Ledger!UpdateInvoice(q.inv, q.subtotal, q.tax)
  BY <1>4, <1>5, SameCanEdit, SameEditRow DEF Ledger!UpdateInvoice
<1> QED
  BY <1>1, <1>5, <1>6 DEF Acts, q

(* A commit of a rejection.                                                 *)
LEMMA CommitRejectActs ==
  ASSUME TxInv, NEW s \in Sessions, CommitReject(s)
  PROVE  Acts(sess[s].req)
<1> DEFINE q == sess[s].req
           r == sess[s].seen[q.inv]
<1>1. sess[s].open /\ q.op = "REJECT" /\ VersionUnmoved(q.inv, r)
  BY DEF CommitReject, Committing
<1>2. /\ q.inv \in DOMAIN sess[s].seen /\ CanReject(r, q.user)
      /\ ReadOK(r, sess[s].tups[q.inv], rows[q.inv], tuple[q.inv])
  BY <1>1, OpenSession DEF Checked
<1>3. rows[q.inv] = r
  BY <1>1, <1>2, VersionProves DEF CanReject, CanDecide
<1>4. CanReject(rows[q.inv], q.user)
  BY <1>2, <1>3
<1>5. /\ rows' = [rows EXCEPT ![q.inv] = RejectRow(@)]
      /\ WriteRows({q.inv})
      /\ UNCHANGED <<books, credited, outbox, onAccount>>
  BY DEF CommitReject
<1> HIDE DEF q, r
<1>6. Ledger!RejectInvoice(q.inv, q.user)
  BY <1>4, <1>5, SameCanReject, SameRejectRow DEF Ledger!RejectInvoice
<1> QED
  BY <1>1, <1>5, <1>6 DEF Acts, q

(* A commit of an approval, which posts from the row it read.               *)
LEMMA CommitApproveActs ==
  ASSUME TxInv, NEW s \in Sessions, CommitApprove(s)
  PROVE  Acts(sess[s].req)
<1> DEFINE q == sess[s].req
           r == sess[s].seen[q.inv]
<1>1. sess[s].open /\ q.op = "APPROVE" /\ VersionUnmoved(q.inv, r)
  BY DEF CommitApprove, Committing
<1>2. /\ q.inv \in DOMAIN sess[s].seen /\ CanApprove(r, q.user)
      /\ ReadOK(r, sess[s].tups[q.inv], rows[q.inv], tuple[q.inv])
  BY <1>1, OpenSession DEF Checked
<1>3. rows[q.inv] = r
  BY <1>1, <1>2, VersionProves DEF CanApprove, CanDecide
<1>4. CanApprove(rows[q.inv], q.user)
  BY <1>2, <1>3
<1>5. /\ rows' = [rows EXCEPT ![q.inv] = ApproveRow(@, q.user)]
      /\ books' = [books EXCEPT ![q.inv] = ApprovePost(@, r)]
      /\ outbox' = [outbox EXCEPT ![q.inv] = "QUEUED"]
      /\ WriteRows({q.inv})
      /\ UNCHANGED <<credited, onAccount>>
  BY DEF CommitApprove
<1> HIDE DEF q, r
<1>6. Ledger!ApproveInvoice(q.inv, q.user)
  BY <1>3, <1>4, <1>5, SameCanApprove, SameApproveRow, SameApprovePost
     DEF Ledger!ApproveInvoice
<1> QED
  BY <1>1, <1>5, <1>6 DEF Acts, q

(* A commit of a credit memo, under the lock of the row.                    *)
LEMMA CommitCreditActs ==
  ASSUME TxInv, NEW s \in Sessions, CommitCredit(s)
  PROVE  Acts(sess[s].req)
BY DEF CommitCredit, Committing, Acts

(* A commit of a void, whose snapshot still holds.                          *)
LEMMA CommitVoidActs ==
  ASSUME TxInv, NEW s \in Sessions, CommitVoid(s)
  PROVE  Acts(sess[s].req)
<1> DEFINE q == sess[s].req
           r == sess[s].seen[q.inv]
<1>1. sess[s].open /\ q.op = "VOID" /\ SnapshotHolds(sess[s])
  BY DEF CommitVoid, Committing
<1>2. q.inv \in DOMAIN sess[s].seen /\ CanVoid(r)
  BY <1>1, OpenSession DEF Checked
<1>3. rows[q.inv] = r
  BY <1>1, <1>2, SnapshotProves
<1>4. CanVoid(rows[q.inv])
  BY <1>2, <1>3
<1>5. /\ rows' = [rows EXCEPT ![q.inv] = VoidRow(r)]
      /\ books' = [books EXCEPT ![q.inv] = VoidPost(@, r)]
      /\ WriteRows({q.inv})
      /\ UNCHANGED <<credited, outbox, onAccount>>
  BY DEF CommitVoid
<1> HIDE DEF q, r
<1>6. Ledger!VoidInvoice(q.inv)
  BY <1>3, <1>4, <1>5, SameCanVoid, SameVoidRow, SameVoidPost DEF Ledger!VoidInvoice
<1> QED
  BY <1>1, <1>5, <1>6 DEF Acts, q

(* A commit of a write-off, which checks nothing again.                     *)
LEMMA CommitWriteOffActs ==
  ASSUME TxInv, NEW s \in Sessions, CommitWriteOff(s)
  PROVE  Acts(sess[s].req)
<1> DEFINE q == sess[s].req
           r == sess[s].seen[q.inv]
<1>1. sess[s].open /\ q.op = "WRITE_OFF"
  BY DEF CommitWriteOff, Committing
<1>2. /\ CanWriteOff(r)
      /\ r \in Invoice
  BY <1>1, OpenSession DEF Checked, ReadOK
<1>3. /\ rows' = [rows EXCEPT ![q.inv] = WriteOffRow(@, r)]
      /\ books' = [books EXCEPT ![q.inv] = WriteOffPost(@, r)]
      /\ WriteRows({q.inv})
      /\ UNCHANGED <<credited, outbox, onAccount>>
  BY DEF CommitWriteOff
<1> HIDE DEF q, r
<1> QED
  BY <1>1, <1>2, <1>3 DEF Acts, q

(* The allocations of a receipt that may commit: within the balances that   *)
(* were read, and the whole receipt together with the rest.                 *)
LEMMA ReceiptSplit ==
  ASSUME TxInv, NEW s \in Sessions, sess[s].open,
         sess[s].req.op \in {"PAY_MANUAL", "PAY_AUTO"}
  PROVE  /\ AllocOf(sess[s]) \in Ledger!Allocations
         /\ DOMAIN AllocOf(sess[s]) \subseteq DOMAIN sess[s].seen
         /\ RestOf(sess[s]) \in 0 .. MaxAmount
         /\ Splits(sess[s].req, AllocOf(sess[s]), RestOf(sess[s]))
         /\ \A i \in DOMAIN AllocOf(sess[s]) : CanPay(sess[s].seen[i], AllocOf(sess[s])[i])
         /\ CanBookReceipt(RestOf(sess[s]))
<1> DEFINE q == sess[s].req
           seen == sess[s].seen
           alloc == AllocOf(sess[s])
           rest == RestOf(sess[s])
<1>1. /\ q \in Requests
      /\ DOMAIN seen \subseteq Invoices
      /\ \A i \in DOMAIN seen : seen[i] \in Invoice
      /\ Checked(q, seen)
  BY OpenSession DEF ReadOK
<1>2. CASE q.op = "PAY_MANUAL"
  <2>1. alloc = q.alloc /\ rest = q.rest
    BY <1>2 DEF AllocOf, RestOf
  <2>2. alloc \in Ledger!Allocations /\ rest \in 0 .. MaxAmount
    BY <1>1, <1>2, <2>1, RequestFields
  <2>3. /\ DOMAIN alloc = DOMAIN seen
        /\ \A i \in DOMAIN alloc : CanPay(seen[i], alloc[i])
        /\ CanBookReceipt(rest)
    BY <1>1, <1>2, <2>1 DEF Checked
  <2>4. SumFunction(alloc) \in Nat
    <3> HIDE DEF alloc
    <3>1. IsFiniteSet(DOMAIN alloc) /\ \A i \in DOMAIN alloc : alloc[i] \in Nat
      BY <2>2, AllocationParts
    <3>2. SumFunctionOnSet(alloc, DOMAIN alloc) \in Nat
      BY <3>1, SumNat
    <3> QED
      BY <3>2 DEF SumFunction
  <2>5. PaymentAmount(q) = rest + SumFunction(alloc)
    BY <1>2, <2>1 DEF PaymentAmount
  <2>6. rest \in Nat
    BY <2>2
  <2>7. PaymentAmount(q) = SumFunction(alloc) + rest
    <3> HIDE DEF alloc, rest
    <3> QED
      BY <2>4, <2>5, <2>6
  <2> QED
    BY <1>2, <2>2, <2>3, <2>7 DEF Splits
<1>3. CASE q.op = "PAY_AUTO"
  <2>1. /\ alloc = AllocationsOldestFirst(seen, q.amount)
        /\ rest = AutoRest(seen, q.amount)
    BY <1>3 DEF AllocOf, RestOf
  <2>2. q.amount \in 1 .. MaxAmount /\ MaxAmount \in Nat
    BY <1>1, <1>3, RequestFields, TransactionAssumption DEF TransactionAssumption
  <2>3. q.amount \in Nat /\ q.amount > 0
    BY <2>2
  <2>4. Seen(seen)
    <3>1. IsFiniteSet(DOMAIN seen)
      BY <1>1, FS_Subset, TransactionAssumption DEF TransactionAssumption
    <3>2. DOMAIN seen \subseteq Nat
      BY <1>1, TransactionAssumption DEF TransactionAssumption
    <3>3. \A i \in DOMAIN seen : seen[i].balance \in Nat
      BY <1>1, RowColumns
    <3> QED
      BY <3>1, <3>2, <3>3 DEF Seen
  <2>5. /\ DOMAIN seen # {}
        /\ \A i \in DOMAIN seen : seen[i].status \in Payable /\ seen[i].balance > 0
        /\ CanBookReceipt(rest)
    BY <1>1, <1>3, <2>1 DEF Checked
  <2> HIDE DEF q, seen, alloc, rest
  <2>6. /\ DOMAIN alloc \subseteq DOMAIN seen
        /\ alloc \in [DOMAIN alloc -> 1 .. q.amount]
        /\ \A i \in DOMAIN alloc : alloc[i] \in 1 .. q.amount /\ alloc[i] <= seen[i].balance
    BY <2>1, <2>3, <2>4, <2>5, AllocationBounds
  <2>7. DOMAIN alloc # {}
    BY <2>1, <2>3, <2>4, <2>5, AllocationSome
  <2>8. rest \in 0 .. q.amount
    BY <2>1, <2>3, <2>4, RestBounds
  <2>9. rest \in 0 .. MaxAmount
    BY <2>2, <2>3, <2>8
  <2>10. \A n \in 1 .. q.amount : n \in 1 .. MaxAmount
    BY <2>2
  <2>11. alloc \in [DOMAIN alloc -> 1 .. MaxAmount]
    BY <2>6, <2>10
  <2>12. alloc \in Ledger!Allocations
    BY <1>1, <2>6, <2>7, <2>11, AllocationParts
  <2>13. \A i \in DOMAIN alloc : CanPay(seen[i], alloc[i])
    BY <2>3, <2>5, <2>6 DEF CanPay
  <2>14. SumFunctionOnSet(alloc, DOMAIN alloc) + rest = q.amount
    BY <2>1, <2>3, <2>4, ReceiptSpent
  <2>15. PaymentAmount(q) = SumFunction(alloc) + rest
    BY <1>3, <2>14 DEF PaymentAmount, SumFunction
  <2> QED
    BY <1>3, <2>5, <2>6, <2>9, <2>12, <2>13, <2>15 DEF Splits, q, seen, alloc, rest
<1> QED
  BY <1>2, <1>3

(* A commit of a receipt, whose snapshot still holds.                       *)
LEMMA CommitPaymentActs ==
  ASSUME TxInv, NEW s \in Sessions, CommitPayment(s)
  PROVE  Acts(sess[s].req)
<1> DEFINE t == sess[s]
           alloc == AllocOf(t)
           rest == RestOf(t)
<1>1. t.open /\ t.req.op \in {"PAY_MANUAL", "PAY_AUTO"} /\ SnapshotHolds(t)
  BY DEF CommitPayment, Committing
<1>2. /\ alloc \in Ledger!Allocations
      /\ DOMAIN alloc \subseteq DOMAIN t.seen
      /\ rest \in 0 .. MaxAmount
      /\ Splits(t.req, alloc, rest)
      /\ \A i \in DOMAIN alloc : CanPay(t.seen[i], alloc[i])
      /\ CanBookReceipt(rest)
  BY <1>1, ReceiptSplit
<1>3. \A i \in DOMAIN alloc : t.seen[i] = rows[i]
  BY <1>1, <1>2, SnapshotProves
<1>4. /\ rows' = [i \in Invoices |->
           IF i \in DOMAIN alloc THEN PayRow(t.seen[i], alloc[i]) ELSE rows[i]]
      /\ books' = [i \in Invoices |->
           IF i \in DOMAIN alloc THEN PayPost(books[i], alloc[i]) ELSE books[i]]
      /\ onAccount' = onAccount + rest
      /\ WriteRows(DOMAIN alloc)
      /\ UNCHANGED <<credited, outbox>>
  BY DEF CommitPayment
<1> HIDE DEF t, alloc, rest
<1>5. rows' = [i \in Invoices |->
         IF i \in DOMAIN alloc THEN Ledger!PayRow(rows[i], alloc[i]) ELSE rows[i]]
  BY <1>3, <1>4, SamePayRow
<1>6. books' = [i \in Invoices |->
         IF i \in DOMAIN alloc THEN Ledger!PayPost(books[i], alloc[i]) ELSE books[i]]
  BY <1>4, SamePayPost
<1>7. /\ \A i \in DOMAIN alloc : Ledger!CanPay(rows[i], alloc[i])
      /\ Ledger!CanBookReceipt(rest)
  BY <1>2, <1>3, SameCanPay, SameCanBookReceipt
<1>8. Ledger!CreatePayment(alloc, rest)
  BY <1>4, <1>5, <1>6, <1>7 DEF Ledger!CreatePayment
<1>9. Acts(t.req)
  BY <1>2, <1>4, <1>8 DEF Acts
<1> QED
  BY <1>9 DEF t

(* Every commit does what its request does.                                 *)
LEMMA CommitActs ==
  ASSUME TxInv, NEW s \in Sessions, Commit(s)
  PROVE  /\ Acts(sess[s].req)
         /\ sess[s].open
         /\ sess[s].req \in Requests
         /\ KeyUnused(sess[s].req)
         /\ done' = done \cup {sess[s].req}
         /\ sess' = [sess EXCEPT ![s] = Idle]
<1>1. Acts(sess[s].req)
  BY CommitCreateActs, CommitEditActs, CommitRejectActs, CommitApproveActs, CommitCreditActs,
     CommitPaymentActs, CommitWriteOffActs, CommitVoidActs DEF Commit
<1>2. \E op : Committing(s, op)
  BY DEF Commit, CommitCreate, CommitEdit, CommitReject, CommitApprove, CommitCredit,
         CommitPayment, CommitWriteOff, CommitVoid
<1>3. /\ sess[s].open
      /\ KeyUnused(sess[s].req)
      /\ done' = done \cup {sess[s].req}
      /\ sess' = [sess EXCEPT ![s] = Idle]
  BY <1>2 DEF Committing
<1>4. sess[s].req \in Requests
  BY <1>3, OpenSession
<1> QED
  BY <1>1, <1>3, <1>4
-----------------------------------------------------------------------------
(* The step writes one invoice.                                             *)
At(i, r, b, c, o) ==
  /\ rows' = [rows EXCEPT ![i] = r]
  /\ books' = [books EXCEPT ![i] = b]
  /\ credited' = [credited EXCEPT ![i] = c]
  /\ outbox' = [outbox EXCEPT ![i] = o]
  /\ WriteRows({i})

Unmoved(i) ==
  /\ rows'[i] = rows[i]
  /\ books'[i] = books[i]
  /\ credited'[i] = credited[i]
  /\ outbox'[i] = outbox[i]
  /\ tuple'[i] = tuple[i]

(* One row is written, the others stay.                                     *)
LEMMA WrittenAt ==
  ASSUME Shaped, NEW i \in Invoices, NEW r, NEW b, NEW c, NEW o, At(i, r, b, c, o)
  PROVE  /\ Shaped'
         /\ rows'[i] = r /\ books'[i] = b /\ credited'[i] = c /\ outbox'[i] = o
         /\ tuple'[i] = tuple[i] + 1
         /\ \A j \in Invoices \ {i} : Unmoved(j)
<1>1. /\ rows' = [j \in Invoices |-> IF j = i THEN r ELSE rows[j]]
      /\ books' = [j \in Invoices |-> IF j = i THEN b ELSE books[j]]
      /\ credited' = [j \in Invoices |-> IF j = i THEN c ELSE credited[j]]
      /\ outbox' = [j \in Invoices |-> IF j = i THEN o ELSE outbox[j]]
      /\ tuple' = [j \in Invoices |-> IF j = i THEN tuple[j] + 1 ELSE tuple[j]]
  <2>1. rows' = [j \in Invoices |-> IF j = i THEN r ELSE rows[j]]
    BY DEF At, Shaped
  <2>2. books' = [j \in Invoices |-> IF j = i THEN b ELSE books[j]]
    BY DEF At, Shaped
  <2>3. credited' = [j \in Invoices |-> IF j = i THEN c ELSE credited[j]]
    BY DEF At, Shaped
  <2>4. outbox' = [j \in Invoices |-> IF j = i THEN o ELSE outbox[j]]
    BY DEF At, Shaped
  <2>5. tuple' = [j \in Invoices |-> IF j = i THEN tuple[j] + 1 ELSE tuple[j]]
    BY DEF At, WriteRows
  <2> QED
    BY <2>1, <2>2, <2>3, <2>4, <2>5
<1>2. Shaped'
  BY <1>1 DEF Shaped
<1> QED
  BY <1>1, <1>2 DEF Unmoved

(* An invoice that is written fits, is newer than it was, and received no   *)
(* cash.                                                                    *)
Rewrites(i, r, b, c, o) ==
  /\ At(i, r, b, c, o)
  /\ Fit(r, b, c, o, tuple[i] + 1)
  /\ Newer(rows[i], r)
  /\ b.cash = books[i].cash
  /\ onAccount' = onAccount

KeepsSound(i, r, b, c) ==
  Sound(rows[i], books[i], credited[i], tuple[i]) => Sound(r, b, c, tuple[i] + 1)

(* What every request but a receipt does.                                   *)
OneInvoice(q) ==
  \E i \in Invoices : \E r, b, c, o :
    /\ Rewrites(i, r, b, c, o)
    /\ KeepsSound(i, r, b, c) \/ (q.op = "WRITE_OFF" /\ q.inv = i)
    /\ c.subtotal + c.tax = credited[i].subtotal + credited[i].tax + CreditAmount(q)
    /\ \/ r.approved_by \in {rows[i].approved_by, NoUser}
       \/ q.op = "APPROVE" /\ q.inv = i /\ r.approved_by = q.user

(* A reversal is made of numbers.                                           *)
LEMMA ReversalSum ==
  ASSUME TablesOK, NEW i \in Invoices
  PROVE  /\ Shaped
         /\ Fit(rows[i], books[i], credited[i], outbox[i], tuple[i])
         /\ credited[i].subtotal + credited[i].tax \in Nat
         /\ credited[i].subtotal + credited[i].tax
              = credited[i].subtotal + credited[i].tax + 0
<1>1. Shaped /\ Fit(rows[i], books[i], credited[i], outbox[i], tuple[i])
  BY DEF TablesOK
<1>2. credited[i].subtotal \in Nat /\ credited[i].tax \in Nat
  BY <1>1 DEF Fit, Reversal
<1> QED
  BY <1>1, <1>2

(* A table that a request leaves alone.                                     *)
LEMMA LeftAlone ==
  ASSUME Shaped, NEW i \in Invoices
  PROVE  /\ books = [books EXCEPT ![i] = books[i]]
         /\ credited = [credited EXCEPT ![i] = credited[i]]
         /\ outbox = [outbox EXCEPT ![i] = outbox[i]]
<1>1. books = [books EXCEPT ![i] = books[i]]
  BY DEF Shaped
<1>2. credited = [credited EXCEPT ![i] = credited[i]]
  BY DEF Shaped
<1>3. outbox = [outbox EXCEPT ![i] = outbox[i]]
  BY DEF Shaped
<1> QED
  BY <1>1, <1>2, <1>3

(* A creation.                                                              *)
LEMMA CreateIsOne ==
  ASSUME TablesOK, NEW q \in Requests, q.op = "CREATE", NEW i \in Invoices,
         Ledger!CreateInvoice(i, q.user, q.subtotal, q.tax), WriteRows({i})
  PROVE  OneInvoice(q)
<1> DEFINE r == DraftRow(q.user, q.subtotal, q.tax)
<1>1. /\ Fit(rows[i], books[i], credited[i], outbox[i], tuple[i])
      /\ credited[i].subtotal + credited[i].tax = credited[i].subtotal + credited[i].tax + 0
  BY ReversalSum
<1>2. rows[i].status = "ABSENT" /\ At(i, r, books[i], credited[i], outbox[i])
      /\ onAccount' = onAccount
  BY SameDraftRow, LeftAlone DEF Ledger!CreateInvoice, At, TablesOK
<1>3. q.user \in Users /\ q.subtotal \in Nat /\ q.tax \in Nat
  BY RequestFields, TransactionAssumption DEF TransactionAssumption
<1>4. /\ Fit(r, books[i], credited[i], outbox[i], tuple[i] + 1)
      /\ KeepsSound(i, r, books[i], credited[i])
      /\ Newer(rows[i], r)
      /\ r.approved_by = NoUser
  BY <1>1, <1>2, <1>3, DraftFits DEF KeepsSound
<1>5. CreditAmount(q) = 0
  BY DEF CreditAmount
<1> HIDE DEF r
<1>6. Rewrites(i, r, books[i], credited[i], outbox[i])
  BY <1>2, <1>4 DEF Rewrites
<1> QED
  BY <1>1, <1>4, <1>5, <1>6 DEF OneInvoice

(* An edit.                                                                 *)
LEMMA EditIsOne ==
  ASSUME TablesOK, NEW q \in Requests, q.op = "EDIT",
         Ledger!UpdateInvoice(q.inv, q.subtotal, q.tax), WriteRows({q.inv})
  PROVE  OneInvoice(q)
<1> DEFINE i == q.inv
           r == EditRow(rows[i], q.subtotal, q.tax)
<1>0. i \in Invoices /\ q.subtotal \in Nat /\ q.tax \in Nat
  BY RequestFields, TransactionAssumption DEF TransactionAssumption
<1>1. /\ Fit(rows[i], books[i], credited[i], outbox[i], tuple[i])
      /\ credited[i].subtotal + credited[i].tax = credited[i].subtotal + credited[i].tax + 0
  BY <1>0, ReversalSum
<1>2. CanEdit(rows[i]) /\ At(i, r, books[i], credited[i], outbox[i])
      /\ onAccount' = onAccount
  BY <1>0, SameCanEdit, SameEditRow, LeftAlone DEF Ledger!UpdateInvoice, At, TablesOK
<1>3. /\ Fit(r, books[i], credited[i], outbox[i], tuple[i] + 1)
      /\ KeepsSound(i, r, books[i], credited[i])
      /\ Newer(rows[i], r)
      /\ r.approved_by = rows[i].approved_by
  BY <1>0, <1>1, <1>2, EditFits DEF KeepsSound
<1>4. CreditAmount(q) = 0
  BY DEF CreditAmount
<1> HIDE DEF r, i
<1>5. Rewrites(i, r, books[i], credited[i], outbox[i])
  BY <1>2, <1>3 DEF Rewrites
<1> QED
  BY <1>0, <1>1, <1>3, <1>4, <1>5 DEF OneInvoice

(* A rejection.                                                             *)
LEMMA RejectIsOne ==
  ASSUME TablesOK, NEW q \in Requests, q.op = "REJECT",
         Ledger!RejectInvoice(q.inv, q.user), WriteRows({q.inv})
  PROVE  OneInvoice(q)
<1> DEFINE i == q.inv
           r == RejectRow(rows[i])
<1>0. i \in Invoices
  BY RequestFields
<1>1. /\ Fit(rows[i], books[i], credited[i], outbox[i], tuple[i])
      /\ credited[i].subtotal + credited[i].tax = credited[i].subtotal + credited[i].tax + 0
  BY <1>0, ReversalSum
<1>2. CanReject(rows[i], q.user) /\ At(i, r, books[i], credited[i], outbox[i])
      /\ onAccount' = onAccount
  BY <1>0, SameCanReject, SameRejectRow, LeftAlone DEF Ledger!RejectInvoice, At, TablesOK
<1>3. /\ Fit(r, books[i], credited[i], outbox[i], tuple[i] + 1)
      /\ KeepsSound(i, r, books[i], credited[i])
      /\ Newer(rows[i], r)
      /\ r.approved_by = rows[i].approved_by
  BY <1>0, <1>1, <1>2, RejectFits DEF KeepsSound
<1>4. CreditAmount(q) = 0
  BY DEF CreditAmount
<1> HIDE DEF r, i
<1>5. Rewrites(i, r, books[i], credited[i], outbox[i])
  BY <1>2, <1>3 DEF Rewrites
<1> QED
  BY <1>0, <1>1, <1>3, <1>4, <1>5 DEF OneInvoice

(* An approval.                                                             *)
LEMMA ApproveIsOne ==
  ASSUME TablesOK, NEW q \in Requests, q.op = "APPROVE",
         Ledger!ApproveInvoice(q.inv, q.user), WriteRows({q.inv})
  PROVE  OneInvoice(q)
<1> DEFINE i == q.inv
           r == ApproveRow(rows[i], q.user)
           b == ApprovePost(books[i], rows[i])
<1>0. i \in Invoices /\ q.user \in Users
  BY RequestFields
<1>1. /\ Fit(rows[i], books[i], credited[i], outbox[i], tuple[i])
      /\ credited[i].subtotal + credited[i].tax = credited[i].subtotal + credited[i].tax + 0
  BY <1>0, ReversalSum
<1>2. CanApprove(rows[i], q.user) /\ At(i, r, b, credited[i], "QUEUED")
      /\ onAccount' = onAccount
  BY <1>0, SameCanApprove, SameApproveRow, SameApprovePost, LeftAlone
     DEF Ledger!ApproveInvoice, At, TablesOK
<1>3. /\ Fit(r, b, credited[i], "QUEUED", tuple[i] + 1)
      /\ KeepsSound(i, r, b, credited[i])
      /\ Newer(rows[i], r)
      /\ r.approved_by = q.user
      /\ b.cash = books[i].cash
  BY <1>0, <1>1, <1>2, ApproveFits DEF KeepsSound
<1>4. CreditAmount(q) = 0
  BY DEF CreditAmount
<1>5. q.inv = i
  OBVIOUS
<1> HIDE DEF r, b, i
<1>6. Rewrites(i, r, b, credited[i], "QUEUED")
  BY <1>2, <1>3 DEF Rewrites
<1> QED
  BY <1>0, <1>1, <1>3, <1>4, <1>5, <1>6 DEF OneInvoice

(* A credit memo.                                                           *)
LEMMA CreditIsOne ==
  ASSUME TablesOK, NEW q \in Requests, q.op = "CREDIT",
         Ledger!CreateCreditMemo(q.inv, q.user, q.amount, q.include_tax),
         WriteRows({q.inv})
  PROVE  OneInvoice(q)
<1> DEFINE i == q.inv
           split == CreditSplit(rows[i], credited[i], q.amount, q.include_tax)
           r == CreditRow(rows[i], q.amount)
           b == CreditPost(books[i], rows[i], split)
           c == AddReversal(credited[i], split)
<1>0. i \in Invoices /\ q.amount \in Nat
  BY RequestFields, TransactionAssumption DEF TransactionAssumption
<1>1. Fit(rows[i], books[i], credited[i], outbox[i], tuple[i])
  BY <1>0, ReversalSum
<1>2. /\ CanCredit(rows[i], credited[i], q.user, q.amount, q.include_tax)
      /\ At(i, r, b, c, outbox[i])
      /\ onAccount' = onAccount
  <2> HIDE DEF i
  <2>1. i = q.inv
    BY DEF i
  <2>2. /\ Ledger!CanCredit(rows[i], credited[i], q.user, q.amount, q.include_tax)
        /\ rows' = [rows EXCEPT ![i] = Ledger!CreditRow(@, q.amount)]
        /\ books' = [books EXCEPT ![i] = Ledger!CreditPost(@, rows[i],
             Ledger!CreditSplit(rows[i], credited[i], q.amount, q.include_tax))]
        /\ credited' = [credited EXCEPT ![i] = Ledger!AddReversal(@,
             Ledger!CreditSplit(rows[i], credited[i], q.amount, q.include_tax))]
        /\ UNCHANGED <<outbox, onAccount>>
    BY <2>1 DEF Ledger!CreateCreditMemo
  <2>3. Ledger!CreditSplit(rows[i], credited[i], q.amount, q.include_tax) = split
    BY SameCreditSplit
  <2>4. CanCredit(rows[i], credited[i], q.user, q.amount, q.include_tax)
    BY <2>2, SameCanCredit
  <2>5. outbox' = [outbox EXCEPT ![i] = outbox[i]]
    BY <1>0, <2>2, LeftAlone DEF TablesOK
  <2> QED
    BY <2>1, <2>2, <2>3, <2>4, <2>5, SameCreditRow, SameCreditPost, SameAddReversal DEF At
<1>3. /\ Fit(r, b, c, outbox[i], tuple[i] + 1)
      /\ KeepsSound(i, r, b, c)
      /\ Newer(rows[i], r)
      /\ r.approved_by = rows[i].approved_by
      /\ b.cash = books[i].cash
      /\ c.subtotal + c.tax = credited[i].subtotal + credited[i].tax + q.amount
  BY <1>0, <1>1, <1>2, CreditFits DEF KeepsSound
<1>4. CreditAmount(q) = q.amount
  BY DEF CreditAmount
<1> HIDE DEF r, b, c, i
<1>5. Rewrites(i, r, b, c, outbox[i])
  BY <1>2, <1>3 DEF Rewrites
<1> QED
  BY <1>0, <1>3, <1>4, <1>5 DEF OneInvoice

(* A void.                                                                  *)
LEMMA VoidIsOne ==
  ASSUME TablesOK, NEW q \in Requests, q.op = "VOID",
         Ledger!VoidInvoice(q.inv), WriteRows({q.inv})
  PROVE  OneInvoice(q)
<1> DEFINE i == q.inv
           r == VoidRow(rows[i])
           b == VoidPost(books[i], rows[i])
<1>0. i \in Invoices
  BY RequestFields
<1>1. /\ Fit(rows[i], books[i], credited[i], outbox[i], tuple[i])
      /\ credited[i].subtotal + credited[i].tax = credited[i].subtotal + credited[i].tax + 0
  BY <1>0, ReversalSum
<1>2. CanVoid(rows[i]) /\ At(i, r, b, credited[i], outbox[i])
      /\ onAccount' = onAccount
  BY <1>0, SameCanVoid, SameVoidRow, SameVoidPost, LeftAlone
     DEF Ledger!VoidInvoice, At, TablesOK
<1>3. /\ Fit(r, b, credited[i], outbox[i], tuple[i] + 1)
      /\ KeepsSound(i, r, b, credited[i])
      /\ Newer(rows[i], r)
      /\ r.approved_by = rows[i].approved_by
      /\ b.cash = books[i].cash
  BY <1>0, <1>1, <1>2, VoidFits DEF KeepsSound
<1>4. CreditAmount(q) = 0
  BY DEF CreditAmount
<1> HIDE DEF r, b, i
<1>5. Rewrites(i, r, b, credited[i], outbox[i])
  BY <1>2, <1>3 DEF Rewrites
<1> QED
  BY <1>0, <1>1, <1>3, <1>4, <1>5 DEF OneInvoice

(* A write-off.                                                             *)
LEMMA WriteOffIsOne ==
  ASSUME TablesOK, NEW q \in Requests, q.op = "WRITE_OFF", NEW seen \in Invoice,
         rows' = [rows EXCEPT ![q.inv] = WriteOffRow(@, seen)],
         books' = [books EXCEPT ![q.inv] = WriteOffPost(@, seen)],
         WriteRows({q.inv}),
         UNCHANGED <<credited, outbox, onAccount>>
  PROVE  OneInvoice(q)
<1> DEFINE i == q.inv
           r == WriteOffRow(rows[i], seen)
           b == WriteOffPost(books[i], seen)
<1>0. i \in Invoices
  BY RequestFields
<1>1. /\ Fit(rows[i], books[i], credited[i], outbox[i], tuple[i])
      /\ credited[i].subtotal + credited[i].tax = credited[i].subtotal + credited[i].tax + 0
  BY <1>0, ReversalSum
<1>2. At(i, r, b, credited[i], outbox[i]) /\ onAccount' = onAccount
  BY <1>0, LeftAlone DEF At, TablesOK
<1>3. /\ Fit(r, b, credited[i], outbox[i], tuple[i] + 1)
      /\ Newer(rows[i], r)
      /\ r.approved_by = rows[i].approved_by
      /\ b.cash = books[i].cash
  BY <1>0, <1>1, <1>2, WriteOffFits
<1>4. CreditAmount(q) = 0
  BY DEF CreditAmount
<1>5. q.inv = i
  OBVIOUS
<1> HIDE DEF r, b, i
<1>6. Rewrites(i, r, b, credited[i], outbox[i])
  BY <1>2, <1>3 DEF Rewrites
<1> QED
  BY <1>0, <1>1, <1>3, <1>4, <1>5, <1>6 DEF OneInvoice

(* A delivery.                                                              *)
LEMMA DeliverIsOne ==
  ASSUME TablesOK, NEW i \in Invoices, Deliver(i)
  PROVE  \E r, b, c, o :
           /\ Rewrites(i, r, b, c, o)
           /\ KeepsSound(i, r, b, c)
           /\ c = credited[i]
           /\ r.approved_by = rows[i].approved_by
<1> DEFINE r == SentRow(rows[i])
<1>1. Fit(rows[i], books[i], credited[i], outbox[i], tuple[i])
  BY ReversalSum
<1>2. /\ outbox[i] = "QUEUED" /\ At(i, r, books[i], credited[i], "DELIVERED")
      /\ onAccount' = onAccount
  BY SameSentRow, LeftAlone DEF Deliver, Ledger!MarkDelivered, At, TablesOK
<1>3. /\ Fit(r, books[i], credited[i], "DELIVERED", tuple[i] + 1)
      /\ KeepsSound(i, r, books[i], credited[i])
      /\ Newer(rows[i], r)
      /\ r.approved_by = rows[i].approved_by
  BY <1>1, <1>2, SentFits DEF KeepsSound
<1> HIDE DEF r
<1>4. Rewrites(i, r, books[i], credited[i], "DELIVERED")
  BY <1>2, <1>3 DEF Rewrites
<1> QED
  BY <1>3, <1>4

(* What a request does to one invoice, unless it is a receipt.              *)
LEMMA ActsOnOne ==
  ASSUME TablesOK, NEW q \in Requests, Acts(q), q.op \notin {"PAY_MANUAL", "PAY_AUTO"}
  PROVE  OneInvoice(q) /\ PaymentAmount(q) = 0
<1>1. PaymentAmount(q) = 0
  BY DEF PaymentAmount
<1>2. OneInvoice(q)
  BY CreateIsOne, EditIsOne, RejectIsOne, ApproveIsOne, CreditIsOne, VoidIsOne, WriteOffIsOne
     DEF Acts, Splits
<1> QED
  BY <1>1, <1>2
-----------------------------------------------------------------------------
(* The step writes invoice i once, as Fit and Newer allow.                  *)
Moved(i) ==
  /\ Fit(rows'[i], books'[i], credited'[i], outbox'[i], tuple'[i])
  /\ tuple'[i] = tuple[i] + 1
  /\ Newer(rows[i], rows'[i])

SoundKept(i) ==
  Sound(rows[i], books[i], credited[i], tuple[i]) =>
    Sound(rows'[i], books'[i], credited'[i], tuple'[i])

ApprovalKept(i) == rows'[i].approved_by \in {rows[i].approved_by, NoUser}

(* What every step does to the tables.                                      *)
TableStep ==
  /\ Shaped'
  /\ \A i \in Invoices : Unmoved(i) \/ Moved(i)

(* A receipt pays the invoices of its allocation and no other.              *)
LEMMA PaymentMoves ==
  ASSUME TablesOK, NEW alloc \in Ledger!Allocations, NEW rest,
         Ledger!CreatePayment(alloc, rest), WriteRows(DOMAIN alloc)
  PROVE  /\ Shaped'
         /\ onAccount' = onAccount + rest
         /\ \A i \in Invoices \ DOMAIN alloc : Unmoved(i)
         /\ \A i \in DOMAIN alloc :
              /\ i \in Invoices
              /\ alloc[i] \in Nat
              /\ Moved(i) /\ SoundKept(i) /\ ApprovalKept(i)
              /\ books'[i].cash = books[i].cash + alloc[i]
              /\ credited'[i] = credited[i]
<1>1. DOMAIN alloc \subseteq Invoices /\ \A i \in DOMAIN alloc : alloc[i] \in Nat
  BY AllocationParts
<1>2. /\ \A i \in DOMAIN alloc : CanPay(rows[i], alloc[i])
      /\ rows' = [i \in Invoices |->
           IF i \in DOMAIN alloc THEN PayRow(rows[i], alloc[i]) ELSE rows[i]]
      /\ books' = [i \in Invoices |->
           IF i \in DOMAIN alloc THEN PayPost(books[i], alloc[i]) ELSE books[i]]
      /\ onAccount' = onAccount + rest
      /\ credited' = credited /\ outbox' = outbox
  BY SameCanPay, SamePayRow, SamePayPost DEF Ledger!CreatePayment
<1>3. tuple' = [i \in Invoices |->
        IF i \in DOMAIN alloc THEN tuple[i] + 1 ELSE tuple[i]]
  BY DEF WriteRows
<1>4. Shaped'
  <2>1. Shaped
    BY DEF TablesOK
  <2>2. rows' = [i \in Invoices |-> rows'[i]]
    BY <1>2
  <2>3. books' = [i \in Invoices |-> books'[i]]
    BY <1>2
  <2>4. tuple' = [i \in Invoices |-> tuple'[i]]
    BY <1>3
  <2> QED
    BY <1>2, <2>1, <2>2, <2>3, <2>4 DEF Shaped
<1>5. ASSUME NEW i \in Invoices \ DOMAIN alloc
      PROVE  Unmoved(i)
  BY <1>2, <1>3 DEF Unmoved
<1>6. ASSUME NEW i \in DOMAIN alloc
      PROVE  /\ Moved(i) /\ SoundKept(i) /\ ApprovalKept(i)
             /\ books'[i].cash = books[i].cash + alloc[i]
             /\ credited'[i] = credited[i]
  <2>1. i \in Invoices /\ alloc[i] \in Nat /\ CanPay(rows[i], alloc[i])
    BY <1>1, <1>2
  <2>2. Fit(rows[i], books[i], credited[i], outbox[i], tuple[i])
    BY <2>1 DEF TablesOK
  <2>3. /\ rows'[i] = PayRow(rows[i], alloc[i])
        /\ books'[i] = PayPost(books[i], alloc[i])
        /\ credited'[i] = credited[i] /\ outbox'[i] = outbox[i]
        /\ tuple'[i] = tuple[i] + 1
    BY <1>2, <1>3, <2>1
  <2>4. /\ Fit(rows'[i], books'[i], credited[i], outbox[i], tuple[i] + 1)
        /\ Sound(rows[i], books[i], credited[i], tuple[i]) =>
             Sound(rows'[i], books'[i], credited[i], tuple[i] + 1)
        /\ Newer(rows[i], rows'[i])
        /\ rows'[i].approved_by = rows[i].approved_by
        /\ books'[i].cash = books[i].cash + alloc[i]
    BY <2>1, <2>2, <2>3, PayFits
  <2> QED
    BY <2>3, <2>4 DEF Moved, SoundKept, ApprovalKept
<1> QED
  BY <1>1, <1>2, <1>4, <1>5, <1>6

(* Every other request, and the delivery, writes one invoice.               *)
LEMMA OneMoves ==
  ASSUME TablesOK, NEW i \in Invoices, NEW r, NEW b, NEW c, NEW o, Rewrites(i, r, b, c, o)
  PROVE  /\ TableStep
         /\ onAccount' = onAccount
         /\ \A j \in Invoices \ {i} : Unmoved(j)
         /\ \A j \in Invoices : books'[j].cash = books[j].cash
         /\ rows'[i] = r /\ credited'[i] = c
         /\ KeepsSound(i, r, b, c) => SoundKept(i)
<1>1. /\ At(i, r, b, c, o)
      /\ Fit(r, b, c, o, tuple[i] + 1)
      /\ Newer(rows[i], r)
      /\ b.cash = books[i].cash
      /\ onAccount' = onAccount
      /\ Shaped
  BY DEF Rewrites, TablesOK
<1>2. /\ Shaped'
      /\ rows'[i] = r /\ books'[i] = b /\ credited'[i] = c /\ outbox'[i] = o
      /\ tuple'[i] = tuple[i] + 1
      /\ \A j \in Invoices \ {i} : Unmoved(j)
  BY <1>1, WrittenAt
<1>3. Moved(i)
  BY <1>1, <1>2 DEF Moved
<1>4. KeepsSound(i, r, b, c) => SoundKept(i)
  BY <1>2 DEF KeepsSound, SoundKept
<1>5. \A j \in Invoices : books'[j].cash = books[j].cash
  BY <1>1, <1>2 DEF Unmoved
<1> QED
  BY <1>1, <1>2, <1>3, <1>4, <1>5 DEF TableStep

(* Whatever a request does to an invoice, it writes it as it should be.     *)
LEMMA ActsMoves ==
  ASSUME TablesOK, NEW q \in Requests, Acts(q)
  PROVE  /\ TableStep
         /\ onAccount' \in Nat
         /\ \A i \in Invoices :
              /\ SoundKept(i) \/ (q.op = "WRITE_OFF" /\ q.inv = i)
              /\ ApprovalKept(i) \/
                   (q.op = "APPROVE" /\ q.inv = i /\ rows'[i].approved_by = q.user)
<1>1. \A i \in Invoices : Unmoved(i) => SoundKept(i) /\ ApprovalKept(i)
  BY DEF Unmoved, SoundKept, ApprovalKept
<1>2. onAccount \in Nat
  BY DEF TablesOK
<1>3. CASE q.op \notin {"PAY_MANUAL", "PAY_AUTO"}
  <2>1. OneInvoice(q)
    BY <1>3, ActsOnOne
  <2>2. PICK i \in Invoices : \E r, b, c, o :
          /\ Rewrites(i, r, b, c, o)
          /\ KeepsSound(i, r, b, c) \/ (q.op = "WRITE_OFF" /\ q.inv = i)
          /\ \/ r.approved_by \in {rows[i].approved_by, NoUser}
             \/ q.op = "APPROVE" /\ q.inv = i /\ r.approved_by = q.user
    BY <2>1 DEF OneInvoice
  <2>3. PICK r, b, c, o :
          /\ Rewrites(i, r, b, c, o)
          /\ KeepsSound(i, r, b, c) \/ (q.op = "WRITE_OFF" /\ q.inv = i)
          /\ \/ r.approved_by \in {rows[i].approved_by, NoUser}
             \/ q.op = "APPROVE" /\ q.inv = i /\ r.approved_by = q.user
    BY <2>2
  <2>4. /\ TableStep
        /\ onAccount' = onAccount
        /\ \A j \in Invoices \ {i} : Unmoved(j)
        /\ rows'[i] = r
        /\ KeepsSound(i, r, b, c) => SoundKept(i)
    BY <2>3, OneMoves
  <2>5. /\ SoundKept(i) \/ (q.op = "WRITE_OFF" /\ q.inv = i)
        /\ ApprovalKept(i) \/
             (q.op = "APPROVE" /\ q.inv = i /\ rows'[i].approved_by = q.user)
    BY <2>3, <2>4 DEF ApprovalKept
  <2> QED
    BY <1>1, <1>2, <2>4, <2>5
<1>4. CASE q.op \in {"PAY_MANUAL", "PAY_AUTO"}
  <2>1. PICK alloc \in Ledger!Allocations, rest \in 0 .. MaxAmount :
          Ledger!CreatePayment(alloc, rest) /\ WriteRows(DOMAIN alloc)
    BY <1>4 DEF Acts
  <2>2. rest \in Nat
    BY <2>1, TransactionAssumption DEF TransactionAssumption
  <2>3. /\ Shaped'
        /\ onAccount' = onAccount + rest
        /\ \A i \in Invoices \ DOMAIN alloc : Unmoved(i)
        /\ \A i \in DOMAIN alloc : Moved(i) /\ SoundKept(i) /\ ApprovalKept(i)
    BY <2>1, PaymentMoves
  <2>4. TableStep
    BY <2>3 DEF TableStep
  <2> QED
    BY <1>1, <1>2, <2>2, <2>3, <2>4
<1> QED
  BY <1>3, <1>4
(* The tables are kept by every step whose unsound effects a write-off in   *)
(* done accounts for.                                                       *)
LEMMA TablesKept ==
  ASSUME TablesOK, TableStep, onAccount' \in Nat,
         done' \subseteq Requests, IsFiniteSet(done'), done \subseteq done',
         \A i \in Invoices : SoundKept(i) \/ WrittenOff(i)'
  PROVE  TablesOK'
<1>1. ASSUME NEW i \in Invoices
      PROVE  /\ Fit(rows'[i], books'[i], credited'[i], outbox'[i], tuple'[i])
             /\ WrittenOff(i)' \/ Sound(rows'[i], books'[i], credited'[i], tuple'[i])
  <2>1. /\ Fit(rows[i], books[i], credited[i], outbox[i], tuple[i])
        /\ WrittenOff(i) \/ Sound(rows[i], books[i], credited[i], tuple[i])
    BY DEF TablesOK
  <2>2. Fit(rows'[i], books'[i], credited'[i], outbox'[i], tuple'[i])
    BY <2>1 DEF TableStep, Unmoved, Moved
  <2>3. WrittenOff(i) => WrittenOff(i)'
    BY DEF WrittenOff
  <2> QED
    BY <2>1, <2>2, <2>3 DEF SoundKept
<1> QED
  BY <1>1 DEF TablesOK, TableStep

(* What a session read of one invoice stays true of it, whatever others do. *)
LEMMA ReadKept ==
  ASSUME TablesOK, TableStep, NEW i \in Invoices, NEW r, NEW n,
         ReadOK(r, n, rows[i], tuple[i])
  PROVE  ReadOK(r, n, rows'[i], tuple'[i])
<1>1. CASE Unmoved(i)
  BY <1>1 DEF Unmoved
<1>2. CASE Moved(i)
  <2>1. tuple[i] \in Nat /\ rows[i] \in Invoice
    BY DEF TablesOK, Fit
  <2>2. rows'[i] \in Invoice /\ tuple'[i] = tuple[i] + 1 /\ Newer(rows[i], rows'[i])
    BY <1>2 DEF Moved, Fit
  <2>3. r \in Invoice /\ n \in Nat /\ n <= tuple[i]
    BY DEF ReadOK
  <2>4. r.version \in Nat /\ rows[i].version \in Nat /\ rows'[i].version \in Nat
    BY <2>1, <2>2, <2>3, RowColumns
  <2>5. n <= tuple'[i] /\ n # tuple'[i]
    BY <2>1, <2>2, <2>3
  <2>6. ASSUME r.status = "DRAFT"
        PROVE  /\ rows'[i].status # "ABSENT"
               /\ rows'[i].status = "DRAFT" => r.version < rows'[i].version
    <3>1. /\ rows[i].status # "ABSENT"
          /\ rows[i].status = "DRAFT" => r.version <= rows[i].version
      BY <2>6 DEF ReadOK
    <3>2. /\ rows'[i].status # "ABSENT"
          /\ rows'[i].status = "DRAFT" =>
               rows[i].status = "DRAFT" /\ rows'[i].version > rows[i].version
      BY <2>2, <3>1 DEF Newer
    <3> QED
      BY <2>4, <3>1, <3>2
  <2>7. r.version < rows'[i].version =>
          r.version <= rows'[i].version /\ r.version # rows'[i].version
    BY <2>4
  <2> QED
    BY <2>3, <2>5, <2>6, <2>7 DEF ReadOK
<1> QED
  BY <1>1, <1>2 DEF TableStep

(* So a session stays fit to commit or to be refused.                       *)
LEMMA SessionKept ==
  ASSUME TablesOK, TableStep, NEW t, SessionOK(t, rows, tuple)
  PROVE  SessionOK(t, rows', tuple')
<1>1. CASE t.open = TRUE
  <2>1. /\ t.open \in BOOLEAN
        /\ t.req \in Requests
        /\ DOMAIN t.seen \subseteq Invoices
        /\ t.tups = [i \in DOMAIN t.seen |-> t.tups[i]]
        /\ \A i \in DOMAIN t.seen : ReadOK(t.seen[i], t.tups[i], rows[i], tuple[i])
        /\ Checked(t.req, t.seen)
    BY <1>1 DEF SessionOK
  <2>2. \A i \in DOMAIN t.seen : ReadOK(t.seen[i], t.tups[i], rows'[i], tuple'[i])
    BY <2>1, ReadKept
  <2> QED
    BY <2>1, <2>2 DEF SessionOK
<1>2. CASE ~(t.open = TRUE)
  BY <1>2 DEF SessionOK
<1> QED
  BY <1>1, <1>2

(* A session that closes is idle.                                           *)
LEMMA IdleOK == \A rs, ns : SessionOK(Idle, rs, ns)
BY DEF Idle, SessionOK

(* What a handler reads and checks before its first write.                  *)
LEMMA BeginChecks ==
  ASSUME TablesOK, NEW q \in Requests, Accepts(q)
  PROVE  /\ ReadSet(q) \subseteq Invoices
         /\ Checked(q, [i \in ReadSet(q) |-> rows[i]])
<1> DEFINE seen == [i \in ReadSet(q) |-> rows[i]]
<1>1. CASE q.op \in {"CREATE", "CREDIT"}
  BY <1>1 DEF ReadSet, Checked
<1>2. CASE q.op \in {"EDIT", "REJECT", "APPROVE", "WRITE_OFF", "VOID"}
  <2>1. ReadSet(q) = {q.inv} /\ q.inv \in Invoices
    BY <1>2, RequestFields DEF ReadSet
  <2>2. DOMAIN seen = {q.inv} /\ seen[q.inv] = rows[q.inv]
    BY <2>1
  <2> HIDE DEF seen
  <2>3. Checked(q, seen)
    BY <1>2, <2>2 DEF Checked, Accepts
  <2> QED
    BY <2>1, <2>3 DEF seen
<1>3. CASE q.op = "PAY_MANUAL"
  <2>1. ReadSet(q) = DOMAIN q.alloc /\ DOMAIN q.alloc \subseteq Invoices
    BY <1>3, RequestFields, AllocationParts DEF ReadSet
  <2>2. DOMAIN seen = DOMAIN q.alloc /\ \A i \in DOMAIN q.alloc : seen[i] = rows[i]
    BY <2>1
  <2> HIDE DEF seen
  <2>3. Checked(q, seen)
    BY <1>3, <2>2 DEF Checked, Accepts
  <2> QED
    BY <2>1, <2>3 DEF seen
<1>4. CASE q.op = "PAY_AUTO"
  <2>1. ReadSet(q) = OpenInvoices /\ OpenInvoices \subseteq Invoices
    BY <1>4 DEF ReadSet, OpenInvoices
  <2>2. /\ DOMAIN seen = OpenInvoices
        /\ \A i \in OpenInvoices : seen[i].status \in Payable /\ seen[i].balance > 0
    BY <2>1 DEF OpenInvoices
  <2>3. seen = [i \in OpenInvoices |-> rows[i]]
    BY <2>1
  <2> HIDE DEF seen
  <2>4. DOMAIN seen # {} /\ CanBookReceipt(AutoRest(seen, q.amount))
    BY <1>4, <2>2, <2>3 DEF Accepts
  <2>5. Checked(q, seen)
    BY <1>4, <2>2, <2>4 DEF Checked
  <2> QED
    BY <2>1, <2>5 DEF seen
<1> QED
  BY <1>1, <1>2, <1>3, <1>4, RequestFields

(* A session that begins.                                                   *)
LEMMA BeginOK ==
  ASSUME TablesOK, NEW q \in Requests, Accepts(q)
  PROVE  SessionOK([open |-> TRUE, req |-> q,
                    seen |-> [i \in ReadSet(q) |-> rows[i]],
                    tups |-> [i \in ReadSet(q) |-> tuple[i]]], rows, tuple)
<1> DEFINE seen == [i \in ReadSet(q) |-> rows[i]]
           tups == [i \in ReadSet(q) |-> tuple[i]]
           t == [open |-> TRUE, req |-> q, seen |-> seen, tups |-> tups]
<1>1. ReadSet(q) \subseteq Invoices /\ Checked(q, seen)
  BY BeginChecks
<1>2. DOMAIN seen \subseteq Invoices /\ tups = [i \in DOMAIN seen |-> tups[i]]
  BY <1>1
<1>3. ASSUME NEW i \in DOMAIN seen
      PROVE  ReadOK(seen[i], tups[i], rows[i], tuple[i])
  <2>1. i \in Invoices /\ seen[i] = rows[i] /\ tups[i] = tuple[i]
    BY <1>1
  <2>2. rows[i] \in Invoice /\ tuple[i] \in Nat
    BY <2>1 DEF TablesOK, Fit
  <2>3. rows[i].version \in Nat
    BY <2>2, RowColumns
  <2> QED
    BY <2>1, <2>2, <2>3 DEF ReadOK
<1> HIDE DEF seen, tups
<1>4. t.open = TRUE /\ t.req = q /\ t.seen = seen /\ t.tups = tups
  OBVIOUS
<1> HIDE DEF t
<1>5. SessionOK(t, rows, tuple)
  BY <1>1, <1>2, <1>3, <1>4 DEF SessionOK
<1> QED
  BY <1>5 DEF t, seen, tups

(* Initially nothing is written and no session is open.                     *)
LEMMA TxInitial ==
  ASSUME Init
  PROVE  TxInv
<1>1. /\ rows = [i \in Invoices |-> EmptyRow]
      /\ books = [i \in Invoices |-> EmptyBook]
      /\ credited = [i \in Invoices |-> NoReversal]
      /\ outbox = [i \in Invoices |-> "NONE"]
      /\ onAccount = 0
      /\ tuple = [i \in Invoices |-> 0]
      /\ done = {}
      /\ sess = [s \in Sessions |-> Idle]
  BY DEF Init, Ledger!Init, Ledger!EmptyRow, EmptyRow, Ledger!EmptyBook, EmptyBook,
         Ledger!NoReversal, NoReversal
<1>2. Shaped
  BY <1>1 DEF Shaped
<1>3. EmptyRow \in Invoice /\ EmptyBook \in Book /\ NoReversal \in Reversal
  BY StatusSets DEF EmptyRow, EmptyBook, NoReversal, Invoice, Book, Reversal
<1>4. Fit(EmptyRow, EmptyBook, NoReversal, "NONE", 0)
  BY <1>3 DEF Fit, EmptyRow
<1>5. Sound(EmptyRow, EmptyBook, NoReversal, 0)
  BY StatusSets DEF Sound, EmptyRow, EmptyBook, NoReversal
<1>6. TablesOK
  BY <1>1, <1>2, <1>4, <1>5, FS_EmptySet DEF TablesOK
<1>7. \A s \in Sessions : SessionOK(sess[s], rows, tuple)
  BY <1>1, IdleOK
<1> QED
  BY <1>1, <1>6, <1>7 DEF TxInv

(* A commit keeps the invariant.                                            *)
LEMMA CommitKeeps ==
  ASSUME TxInv, NEW s \in Sessions, Commit(s)
  PROVE  TxInv'
<1> DEFINE q == sess[s].req
<1>1. /\ Acts(q) /\ q \in Requests
      /\ done' = done \cup {q}
      /\ sess' = [sess EXCEPT ![s] = Idle]
  BY CommitActs
<1> HIDE DEF q
<1>2. TablesOK /\ done \subseteq Requests /\ IsFiniteSet(done)
  BY DEF TxInv, TablesOK
<1>3. /\ TableStep
      /\ onAccount' \in Nat
      /\ \A i \in Invoices : SoundKept(i) \/ (q.op = "WRITE_OFF" /\ q.inv = i)
  BY <1>1, <1>2, ActsMoves
<1>4. IsFiniteSet(done') /\ done' \subseteq Requests /\ done \subseteq done'
  BY <1>1, <1>2, FS_AddElement
<1>5. \A i \in Invoices : SoundKept(i) \/ WrittenOff(i)'
  BY <1>1, <1>3 DEF WrittenOff
<1>6. TablesOK'
  BY <1>2, <1>3, <1>4, <1>5, TablesKept
<1>7. sess = [z \in Sessions |-> sess[z]]
      /\ \A z \in Sessions : SessionOK(sess[z], rows, tuple)
  BY DEF TxInv
<1>8. sess' = [z \in Sessions |-> IF z = s THEN Idle ELSE sess[z]]
  BY <1>1, <1>7
<1>9. \A z \in Sessions : SessionOK(sess[z], rows', tuple')
  BY <1>2, <1>3, <1>7, SessionKept
<1>10. \A z \in Sessions : SessionOK(sess'[z], rows', tuple')
  BY <1>8, <1>9, IdleOK
<1> QED
  BY <1>6, <1>8, <1>10 DEF TxInv

(* So do a request that begins and one that is given up.                    *)
LEMMA SessionStepKeeps ==
  ASSUME TxInv, NEW s \in Sessions, Abort(s) \/ \E q \in Requests : Begin(s, q)
  PROVE  TxInv'
<1>1. /\ UNCHANGED <<rows, books, credited, outbox, onAccount, tuple, done>>
  BY DEF Abort, Begin, ledgerVars
<1>2. TablesOK'
  BY <1>1 DEF TxInv, TablesOK, Shaped, WrittenOff
<1>3. \E t : SessionOK(t, rows, tuple) /\ sess' = [sess EXCEPT ![s] = t]
  <2>1. CASE Abort(s)
    BY <2>1, IdleOK DEF Abort
  <2>2. CASE \E q \in Requests : Begin(s, q)
    <3>1. PICK q \in Requests : Begin(s, q)
      BY <2>2
    <3> QED
      BY <3>1, BeginOK DEF Begin, TxInv
  <2> QED
    BY <2>1, <2>2
<1>4. PICK t : SessionOK(t, rows, tuple) /\ sess' = [sess EXCEPT ![s] = t]
  BY <1>3
<1>5. sess = [z \in Sessions |-> sess[z]]
      /\ \A z \in Sessions : SessionOK(sess[z], rows, tuple)
  BY DEF TxInv
<1>6. sess' = [z \in Sessions |-> IF z = s THEN t ELSE sess[z]]
  BY <1>4, <1>5
<1>7. \A z \in Sessions : SessionOK(sess'[z], rows', tuple')
  BY <1>1, <1>4, <1>5, <1>6
<1> QED
  BY <1>2, <1>6, <1>7 DEF TxInv

(* And so does the delivery.                                                *)
LEMMA DeliverKeeps ==
  ASSUME TxInv, NEW i \in Invoices, Deliver(i)
  PROVE  TxInv'
<1>1. TablesOK
  BY DEF TxInv
<1>2. PICK r, b, c, o : Rewrites(i, r, b, c, o) /\ KeepsSound(i, r, b, c)
  BY <1>1, DeliverIsOne
<1>3. /\ TableStep /\ onAccount' = onAccount
      /\ SoundKept(i)
      /\ \A j \in Invoices \ {i} : Unmoved(j)
  BY <1>1, <1>2, OneMoves
<1>4. \A j \in Invoices : SoundKept(j)
  BY <1>3 DEF SoundKept, Unmoved
<1>5. done' = done /\ sess' = sess
  BY DEF Deliver
<1>6. onAccount' \in Nat /\ done' \subseteq Requests /\ IsFiniteSet(done')
  BY <1>1, <1>3, <1>5 DEF TablesOK
<1>7. TablesOK'
  BY <1>1, <1>3, <1>4, <1>5, <1>6, TablesKept
<1>8. \A s \in Sessions : SessionOK(sess'[s], rows', tuple')
  BY <1>1, <1>3, <1>5, SessionKept DEF TxInv
<1>9. sess' = [s \in Sessions |-> sess'[s]]
  BY <1>5 DEF TxInv
<1> QED
  BY <1>7, <1>8, <1>9 DEF TxInv

(* No overlap of requests takes the tables or the sessions out of TxInv.    *)
LEMMA TxStep ==
  ASSUME TxInv, [Next]_vars
  PROVE  TxInv'
<1>1. CASE UNCHANGED vars
  <2>1. UNCHANGED <<rows, books, credited, outbox, onAccount, tuple, done, sess>>
    BY <1>1 DEF vars
  <2>2. TablesOK'
    BY <2>1 DEF TxInv, TablesOK, Shaped, WrittenOff
  <2> QED
    BY <2>1, <2>2 DEF TxInv
<1>2. CASE Next
  BY <1>2, CommitKeeps, SessionStepKeeps, DeliverKeeps DEF Next
<1> QED
  BY <1>1, <1>2

(* The tables keep their form, and the sessions what they know of them.     *)
THEOREM TxInvariance == Spec => []TxInv
BY TxInitial, TxStep, PTL DEF Spec

(* Whatever requests overlap, and whatever stale write-offs have done, the  *)
(* tables hold rows, postings, reversals and events of the right types, and *)
(* a session holds the rows it read.                                        *)
THEOREM TransactionTypes == Spec => []TypeOK
<1>1. ASSUME TxInv
      PROVE  TypeOK
  <2>1. /\ Ledger!Invoice = Invoice /\ Ledger!Book = Book /\ Ledger!Reversal = Reversal
        /\ Ledger!OutboxStates = {"NONE", "QUEUED", "DELIVERED"}
    BY DEF Ledger!Invoice, Invoice, Ledger!Statuses, Statuses, Ledger!Creditable, Creditable,
           Ledger!Settled, Settled, Ledger!Book, Book, Ledger!Reversal, Reversal,
           Ledger!OutboxStates
  <2>2. /\ TablesOK /\ Shaped
        /\ onAccount \in Nat
        /\ done \subseteq Requests
        /\ \A i \in Invoices : Fit(rows[i], books[i], credited[i], outbox[i], tuple[i])
    BY <1>1 DEF TxInv, TablesOK
  <2>3. \A i \in Invoices :
          /\ rows[i] \in Invoice /\ books[i] \in Book /\ credited[i] \in Reversal
          /\ outbox[i] \in {"NONE", "QUEUED", "DELIVERED"} /\ tuple[i] \in Nat
    BY <2>2 DEF Fit
  <2>4. /\ rows \in [Invoices -> Invoice]
        /\ books \in [Invoices -> Book]
        /\ credited \in [Invoices -> Reversal]
        /\ outbox \in [Invoices -> {"NONE", "QUEUED", "DELIVERED"}]
        /\ tuple \in [Invoices -> Nat]
    BY <2>2, <2>3 DEF Shaped
  <2>5. Ledger!TypeOK
    BY <2>1, <2>2, <2>4 DEF Ledger!TypeOK
  <2>6. ASSUME NEW s \in Sessions, sess[s].open
        PROVE  /\ sess[s].req \in Requests
               /\ \A i \in DOMAIN sess[s].seen : sess[s].seen[i] \in Invoice
               /\ sess[s].tups \in [DOMAIN sess[s].seen -> Nat]
    <3>1. /\ sess[s].req \in Requests
          /\ \A i \in DOMAIN sess[s].seen :
               ReadOK(sess[s].seen[i], sess[s].tups[i], rows[i], tuple[i])
      BY <1>1, <2>6, OpenSession
    <3>2. \A i \in DOMAIN sess[s].seen :
            sess[s].seen[i] \in Invoice /\ sess[s].tups[i] \in Nat
      BY <3>1 DEF ReadOK
    <3>3. SessionOK(sess[s], rows, tuple) /\ sess[s].open = TRUE
      BY <1>1, <2>6, OpenSession DEF TxInv
    <3>4. sess[s].tups = [i \in DOMAIN sess[s].seen |-> sess[s].tups[i]]
      BY <3>3 DEF SessionOK
    <3> QED
      BY <3>1, <3>2, <3>4
  <2> QED
    BY <2>2, <2>4, <2>5, <2>6 DEF TypeOK
<1> QED
  BY <1>1, TxInvariance, PTL

(* The version of an invoice counts its writes until a write-off, computed  *)
(* from an older row, sets it back.                                         *)
THEOREM VersionCounts == Spec => []VersionCountsMutations
<1>1. TxInv => VersionCountsMutations
  BY DEF TxInv, TablesOK, Sound, WrittenOff, VersionCountsMutations
<1> QED
  BY <1>1, TxInvariance, PTL

(* AR is the open balance of every invoice that no write-off has closed,    *)
(* short of the credits of a void one.                                      *)
THEOREM ReconciledInTransactions == Spec => []ReconciledUntilWriteOff
<1>1. ASSUME TxInv
      PROVE  ReconciledUntilWriteOff
  <2>1. ASSUME NEW i \in Invoices, ~WrittenOff(i)
        PROVE  \/ books[i].ar = Ledger!OpenBalance(i)
               \/ rows[i].status = "VOID" /\ books[i].ar = -Ledger!Credits(i)
    <3>1. /\ Sound(rows[i], books[i], credited[i], tuple[i])
          /\ rows[i] \in Invoice
      BY <1>1, <2>1 DEF TxInv, TablesOK, Fit
    <3>2. rows[i].status \in Statuses
      BY <3>1, RowColumns
    <3>3. Ledger!OpenBalance(i) =
            IF rows[i].status \in {"APPROVED", "SENT", "PARTIALLY_PAID"}
            THEN rows[i].balance ELSE 0
      BY DEF Ledger!OpenBalance, Ledger!Payable
    <3>4. Ledger!Credits(i) = credited[i].subtotal + credited[i].tax
      BY DEF Ledger!Credits
    <3> QED
      BY <3>1, <3>2, <3>3, <3>4, StatusSets DEF Sound
  <2> QED
    BY <2>1 DEF ReconciledUntilWriteOff, WrittenOff
<1> QED
  BY <1>1, TxInvariance, PTL

-----------------------------------------------------------------------------
(* The credit limit is checked when a request begins, and no lock protects  *)
(* the sum it is checked against: at the commit it may be exceeded.         *)
Exceeds(q) ==
  \/ q.op = "CREATE" /\ ~Ledger!WithinLimit(Invoices, q.subtotal + q.tax)
  \/ q.op = "EDIT" /\ ~Ledger!WithinLimit(Invoices \ {q.inv}, q.subtotal + q.tax)

OverlookedLimit == \E s \in Sessions : Commit(s) /\ Exceeds(sess[s].req)

(* Without a credit limit nothing exceeds it.                               *)
LEMMA NoLimit ==
  ASSUME CreditLimit = 0
  PROVE  ~OverlookedLimit
BY DEF OverlookedLimit, Exceeds, Ledger!WithinLimit

(* What a request does when it commits is a step of the ledger.             *)
LEMMA ActsImplements ==
  ASSUME NEW q \in Requests, Acts(q), q.op # "WRITE_OFF", ~Exceeds(q)
  PROVE  Ledger!Next
<1>1. CASE q.op = "CREATE"
  <2>1. PICK i \in Invoices : Ledger!CreateInvoice(i, q.user, q.subtotal, q.tax)
    BY <1>1 DEF Acts, Splits
  <2>2. Ledger!ChangeInvoice(i)
    BY <1>1, <2>1, RequestFields DEF Ledger!ChangeInvoice, Exceeds
  <2> QED
    BY <2>2 DEF Ledger!Next
<1>2. CASE q.op = "EDIT"
  <2>1. Ledger!UpdateInvoice(q.inv, q.subtotal, q.tax) /\ q.inv \in Invoices
    BY <1>2, RequestFields DEF Acts, Splits
  <2>2. Ledger!ChangeInvoice(q.inv)
    BY <1>2, <2>1, RequestFields DEF Ledger!ChangeInvoice, Exceeds
  <2> QED
    BY <2>1, <2>2 DEF Ledger!Next
<1>3. CASE q.op = "REJECT"
  <2>1. Ledger!RejectInvoice(q.inv, q.user) /\ q.inv \in Invoices /\ q.user \in Users
    BY <1>3, RequestFields DEF Acts, Splits
  <2> QED
    BY <2>1 DEF Ledger!ChangeInvoice, Ledger!Next
<1>4. CASE q.op = "APPROVE"
  <2>1. Ledger!ApproveInvoice(q.inv, q.user) /\ q.inv \in Invoices /\ q.user \in Users
    BY <1>4, RequestFields DEF Acts, Splits
  <2> QED
    BY <2>1 DEF Ledger!ChangeInvoice, Ledger!Next
<1>5. CASE q.op = "CREDIT"
  <2>1. /\ Ledger!CreateCreditMemo(q.inv, q.user, q.amount, q.include_tax)
        /\ q.inv \in Invoices /\ q.user \in Users
        /\ q.amount \in 1 .. MaxAmount /\ q.include_tax \in BOOLEAN
    BY <1>5, RequestFields DEF Acts, Splits
  <2>2. Ledger!ChangeInvoice(q.inv)
    BY <2>1 DEF Ledger!ChangeInvoice
  <2> QED
    BY <2>1, <2>2 DEF Ledger!Next
<1>6. CASE q.op = "VOID"
  <2>1. Ledger!VoidInvoice(q.inv) /\ q.inv \in Invoices
    BY <1>6, RequestFields DEF Acts, Splits
  <2> QED
    BY <2>1 DEF Ledger!ChangeInvoice, Ledger!Next
<1>7. CASE q.op \in {"PAY_MANUAL", "PAY_AUTO"}
  BY <1>7 DEF Acts, Ledger!Next
<1> QED
  BY <1>1, <1>2, <1>3, <1>4, <1>5, <1>6, <1>7, RequestFields

(* A write-off of the current row is a step of the ledger.                  *)
LEMMA WriteOffImplements ==
  ASSUME TxInv, NEW s \in Sessions, CommitWriteOff(s)
  PROVE  Ledger!Next \/ OverwritingWriteOff
<1> DEFINE q == sess[s].req
           r == sess[s].seen[q.inv]
<1>1. sess[s].open /\ q.op = "WRITE_OFF"
  BY DEF CommitWriteOff, Committing
<1>2. CanWriteOff(r) /\ q.inv \in Invoices
  BY <1>1, OpenSession, RequestFields DEF Checked
<1>3. /\ rows' = [rows EXCEPT ![q.inv] = WriteOffRow(@, r)]
      /\ books' = [books EXCEPT ![q.inv] = WriteOffPost(@, r)]
      /\ UNCHANGED <<credited, outbox, onAccount>>
  BY DEF CommitWriteOff
<1>4. CASE rows[q.inv] # r
  BY <1>4 DEF OverwritingWriteOff
<1>5. CASE rows[q.inv] = r
  <2> HIDE DEF q, r
  <2>1. Ledger!WriteOffInvoice(q.inv)
    BY <1>2, <1>3, <1>5, SameCanWriteOff, SameWriteOffRow, SameWriteOffPost
       DEF Ledger!WriteOffInvoice
  <2> QED
    BY <1>2, <2>1 DEF Ledger!ChangeInvoice, Ledger!Next
<1> QED
  BY <1>4, <1>5

(* Requests that overlap have the effect of requests one at a time, but for *)
(* the write-off that overwrites and the limit that is overlooked.          *)
LEMMA StepImplements ==
  ASSUME TxInv, [Next]_vars
  PROVE  [Ledger!Next \/ OverwritingWriteOff \/ OverlookedLimit]_ledgerVars
<1>1. CASE UNCHANGED vars
  BY <1>1 DEF vars, ledgerVars
<1>2. ASSUME NEW s \in Sessions, Abort(s)
      PROVE  UNCHANGED ledgerVars
  BY <1>2 DEF Abort
<1>3. ASSUME NEW s \in Sessions, NEW q \in Requests, Begin(s, q)
      PROVE  UNCHANGED ledgerVars
  BY <1>3 DEF Begin
<1>4. ASSUME NEW s \in Sessions, Commit(s)
      PROVE  Ledger!Next \/ OverwritingWriteOff \/ OverlookedLimit
  <2>1. CASE CommitWriteOff(s)
    BY <2>1, WriteOffImplements
  <2>2. CASE ~CommitWriteOff(s)
    <3>1. sess[s].req.op # "WRITE_OFF"
      BY <1>4, <2>2 DEF Commit, CommitCreate, CommitEdit, CommitReject, CommitApprove,
         CommitCredit, CommitPayment, CommitVoid, Committing
    <3>2. Acts(sess[s].req) /\ sess[s].req \in Requests
      BY <1>4, CommitActs
    <3> QED
      BY <1>4, <3>1, <3>2, ActsImplements DEF OverlookedLimit
  <2> QED
    BY <2>1, <2>2
<1>5. ASSUME NEW i \in Invoices, Deliver(i)
      PROVE  Ledger!Next
  BY <1>5 DEF Deliver, Ledger!ChangeInvoice, Ledger!Next
<1> QED
  BY <1>1, <1>2, <1>3, <1>4, <1>5 DEF Next

(* Whatever the credit limit: every history of overlapping requests is one  *)
(* of requests one at a time, but for write-offs of an outdated row and for *)
(* creations and edits that overlook each other's amount (invoices.py sums  *)
(* the exposure without a lock).                                            *)
THEOREM TransactionsImplementUpToLimit ==
  Spec => Ledger!Init /\ [][Ledger!Next \/ OverwritingWriteOff \/ OverlookedLimit]_ledgerVars
<1>1. Init => Ledger!Init
  BY DEF Init
<1>2. TxInv /\ [Next]_vars =>
        [Ledger!Next \/ OverwritingWriteOff \/ OverlookedLimit]_ledgerVars
  BY StepImplements
<1> QED
  BY <1>1, <1>2, TxInvariance, PTL DEF Spec

(* For a customer without a credit limit the isolation levels, the version  *)
(* in the WHERE clause and the row locks make overlapping requests behave   *)
(* like requests one at a time, but for write-offs of an outdated row.      *)
THEOREM TransactionsImplementLedger ==
  ASSUME CreditLimit = 0
  PROVE  Spec => ImplementsLedger
<1>1. Init => Ledger!Init
  BY DEF Init
<1>2. TxInv /\ [Next]_vars => [Ledger!Next \/ OverwritingWriteOff]_ledgerVars
  BY StepImplements, NoLimit
<1> QED
  BY <1>1, <1>2, TxInvariance, PTL DEF Spec, ImplementsLedger

-----------------------------------------------------------------------------
(* The money on the books and the requests it came from.                    *)
Cash == SumFunctionOnSet([i \in Invoices |-> books[i].cash], Invoices)
Credit == SumFunctionOnSet([i \in Invoices |-> credited[i].subtotal + credited[i].tax], Invoices)
PaidBy(D) == SumFunctionOnSet([q \in D |-> PaymentAmount(q)], D)
CreditedBy(D) == SumFunctionOnSet([q \in D |-> CreditAmount(q)], D)

Approvals ==
  \A i \in Invoices : rows[i].approved_by # NoUser =>
    \E q \in done : q.op = "APPROVE" /\ q.inv = i /\ q.user = rows[i].approved_by

EffectsInv ==
  /\ onAccount + Cash = PaidBy(done)
  /\ Credit = CreditedBy(done)
  /\ Approvals

(* Every request is of a whole amount.                                      *)
LEMMA AmountsInt ==
  ASSUME NEW q \in Requests
  PROVE  PaymentAmount(q) \in Int /\ CreditAmount(q) \in Int
<1>1. MaxAmount \in Nat
  BY TransactionAssumption DEF TransactionAssumption
<1>2. CreditAmount(q) \in Int
  BY <1>1, RequestFields DEF CreditAmount
<1>3. CASE q.op = "PAY_MANUAL"
  <2>1. q.alloc \in Ledger!Allocations /\ q.rest \in Nat
    BY <1>1, <1>3, RequestFields
  <2>2. IsFiniteSet(DOMAIN q.alloc) /\ \A i \in DOMAIN q.alloc : q.alloc[i] \in Nat
    BY <2>1, AllocationParts
  <2>3. SumFunctionOnSet(q.alloc, DOMAIN q.alloc) \in Nat
    BY <2>2, SumNat
  <2>4. PaymentAmount(q) = q.rest + SumFunctionOnSet(q.alloc, DOMAIN q.alloc)
    BY <1>3 DEF PaymentAmount, SumFunction
  <2> QED
    BY <1>2, <2>1, <2>3, <2>4
<1>4. CASE q.op # "PAY_MANUAL"
  <2>1. PaymentAmount(q) \in Int
    BY <1>1, <1>4, RequestFields DEF PaymentAmount
  <2> QED
    BY <1>2, <2>1
<1> QED
  BY <1>3, <1>4

(* A request that commits for the first time adds its amount.               *)
LEMMA RequestCounts ==
  ASSUME NEW D, D \subseteq Requests, IsFiniteSet(D), NEW q \in Requests, q \notin D
  PROVE  /\ PaidBy(D \cup {q}) = PaidBy(D) + PaymentAmount(q)
         /\ CreditedBy(D \cup {q}) = CreditedBy(D) + CreditAmount(q)
<1> DEFINE E == D \cup {q}
           f == [p \in D |-> PaymentAmount(p)]
           g == [p \in E |-> PaymentAmount(p)]
           k == [p \in D |-> CreditAmount(p)]
           h == [p \in E |-> CreditAmount(p)]
<1>1. /\ g[q] = PaymentAmount(q) /\ h[q] = CreditAmount(q)
      /\ g[q] \in Int /\ h[q] \in Int
  BY AmountsInt
<1>2. /\ \A p \in D : f[p] \in Int /\ g[p] = f[p]
      /\ \A p \in D : k[p] \in Int /\ h[p] = k[p]
  BY AmountsInt
<1>3. /\ PaidBy(D) = SumFunctionOnSet(f, D) /\ PaidBy(E) = SumFunctionOnSet(g, E)
      /\ CreditedBy(D) = SumFunctionOnSet(k, D) /\ CreditedBy(E) = SumFunctionOnSet(h, E)
  BY DEF PaidBy, CreditedBy
<1>4. E = D \cup {q}
  OBVIOUS
<1> HIDE DEF f, g, h, k, E
<1>5. SumFunctionOnSet(g, E) = SumFunctionOnSet(f, D) + g[q]
  BY <1>1, <1>2, <1>4, SumOneMore
<1>6. SumFunctionOnSet(h, E) = SumFunctionOnSet(k, D) + h[q]
  BY <1>1, <1>2, <1>4, SumOneMore
<1> QED
  BY <1>1, <1>3, <1>4, <1>5, <1>6

(* The postings and reversals of a type-correct ledger are numbers.         *)
LEMMA SumsTyped ==
  ASSUME TablesOK
  PROVE  /\ IsFiniteSet(Invoices)
         /\ \A i \in Invoices : books[i].cash \in Int
         /\ \A i \in Invoices : credited[i].subtotal + credited[i].tax \in Int
         /\ Cash \in Int /\ Credit \in Int /\ onAccount \in Int
<1> DEFINE f == [i \in Invoices |-> books[i].cash]
           k == [i \in Invoices |-> credited[i].subtotal + credited[i].tax]
<1>1. IsFiniteSet(Invoices)
  BY TransactionAssumption DEF TransactionAssumption
<1>2. \A i \in Invoices : books[i].cash \in Int
  BY BookColumns DEF TablesOK, Fit
<1>3. \A i \in Invoices : credited[i].subtotal + credited[i].tax \in Int
  BY ReversalSum
<1>4. (\A i \in Invoices : f[i] \in Int) /\ (\A i \in Invoices : k[i] \in Int)
  BY <1>2, <1>3
<1>5. Cash = SumFunctionOnSet(f, Invoices) /\ Credit = SumFunctionOnSet(k, Invoices)
  BY DEF Cash, Credit
<1> HIDE DEF f, k
<1>6. Cash \in Int /\ Credit \in Int
  BY <1>1, <1>4, <1>5, SumInt
<1>7. onAccount \in Int
  BY DEF TablesOK
<1> QED
  BY <1>1, <1>2, <1>3, <1>6, <1>7

(* Cash that no step touches.                                               *)
LEMMA CashSame ==
  ASSUME TablesOK, \A i \in Invoices : books'[i].cash = books[i].cash
  PROVE  Cash' = Cash
BY DEF Cash

(* A reversal that grows on one invoice.                                    *)
LEMMA CreditGrows ==
  ASSUME TablesOK, NEW i \in Invoices, NEW a \in Int,
         credited'[i].subtotal + credited'[i].tax
           = credited[i].subtotal + credited[i].tax + a,
         \A j \in Invoices \ {i} : credited'[j] = credited[j]
  PROVE  Credit' = Credit + a
<1> DEFINE f == [j \in Invoices |-> credited[j].subtotal + credited[j].tax]
           g == [j \in Invoices |-> credited'[j].subtotal + credited'[j].tax]
<1>1. \A j \in Invoices : f[j] \in Int
  BY SumsTyped
<1>2. \A j \in Invoices \ {i} : g[j] = f[j]
  OBVIOUS
<1>3. g[i] = f[i] + a
  OBVIOUS
<1>4. Credit = SumFunctionOnSet(f, Invoices) /\ Credit' = SumFunctionOnSet(g, Invoices)
  BY DEF Credit
<1>5. IsFiniteSet(Invoices)
  BY SumsTyped
<1> HIDE DEF f, g
<1>6. g[i] \in Int /\ g[i] - f[i] = a
  BY <1>1, <1>3
<1>7. SumFunctionOnSet(g, Invoices) = SumFunctionOnSet(f, Invoices) + (g[i] - f[i])
  BY <1>1, <1>2, <1>5, <1>6, SumChange
<1> QED
  BY <1>4, <1>6, <1>7

(* A receipt adds its allocations to the cash of the invoices.              *)
LEMMA CashGrows ==
  ASSUME TablesOK, NEW alloc \in Ledger!Allocations,
         \A i \in Invoices \ DOMAIN alloc : books'[i].cash = books[i].cash,
         \A i \in DOMAIN alloc : books'[i].cash = books[i].cash + alloc[i]
  PROVE  Cash' = Cash + SumFunction(alloc) /\ SumFunction(alloc) \in Int
<1> DEFINE f == [i \in Invoices |-> books[i].cash]
           h == [i \in Invoices |-> IF i \in DOMAIN alloc THEN alloc[i] ELSE 0]
           g == [i \in Invoices |-> books'[i].cash]
           D == DOMAIN alloc
<1>1. D \subseteq Invoices /\ IsFiniteSet(D) /\ \A i \in D : alloc[i] \in Int
  BY AllocationParts
<1>2. /\ IsFiniteSet(Invoices)
      /\ \A i \in Invoices : books[i].cash \in Int
  BY SumsTyped
<1>3. \A i \in Invoices : f[i] \in Int /\ h[i] \in Int /\ g[i] = f[i] + h[i]
  BY <1>1, <1>2
<1>4. \A i \in D : alloc[i] \in Int /\ h[i] = alloc[i]
  BY <1>1
<1>5. \A i \in Invoices \ D : h[i] = 0
  OBVIOUS
<1>6. Cash = SumFunctionOnSet(f, Invoices) /\ Cash' = SumFunctionOnSet(g, Invoices)
  BY DEF Cash
<1>7. SumFunction(alloc) = SumFunctionOnSet(alloc, D)
  BY DEF SumFunction
<1> HIDE DEF f, g, h, D
<1>8. SumFunctionOnSet(g, Invoices)
        = SumFunctionOnSet(f, Invoices) + SumFunctionOnSet(h, Invoices)
  BY <1>2, <1>3, SumAdd
<1>9. SumFunctionOnSet(h, Invoices) = SumFunctionOnSet(alloc, D)
  BY <1>1, <1>2, <1>4, <1>5, SumPart
<1>10. SumFunctionOnSet(alloc, D) \in Int
  BY <1>1, SumInt
<1> QED
  BY <1>6, <1>7, <1>8, <1>9, <1>10

(* A request moves the books by its own amount.                             *)
LEMMA ActsEffects ==
  ASSUME TablesOK, NEW q \in Requests, Acts(q)
  PROVE  /\ onAccount' + Cash' = onAccount + Cash + PaymentAmount(q)
         /\ Credit' = Credit + CreditAmount(q)
<1>1. /\ Cash \in Int /\ Credit \in Int /\ onAccount \in Int
      /\ PaymentAmount(q) \in Int /\ CreditAmount(q) \in Int
  BY SumsTyped, AmountsInt
<1>2. CASE q.op \notin {"PAY_MANUAL", "PAY_AUTO"}
  <2>1. OneInvoice(q) /\ PaymentAmount(q) = 0
    BY <1>2, ActsOnOne
  <2>2. PICK i \in Invoices : \E r, b, c, o :
          /\ Rewrites(i, r, b, c, o)
          /\ c.subtotal + c.tax = credited[i].subtotal + credited[i].tax + CreditAmount(q)
    BY <2>1 DEF OneInvoice
  <2>3. PICK r, b, c, o :
          /\ Rewrites(i, r, b, c, o)
          /\ c.subtotal + c.tax = credited[i].subtotal + credited[i].tax + CreditAmount(q)
    BY <2>2
  <2>4. /\ onAccount' = onAccount
        /\ \A j \in Invoices \ {i} : Unmoved(j)
        /\ \A j \in Invoices : books'[j].cash = books[j].cash
        /\ credited'[i] = c
    BY <2>3, OneMoves
  <2>5. Cash' = Cash
    BY <2>4, CashSame
  <2>6. credited'[i].subtotal + credited'[i].tax
          = credited[i].subtotal + credited[i].tax + CreditAmount(q)
    BY <2>3, <2>4
  <2>7. \A j \in Invoices \ {i} : credited'[j] = credited[j]
    BY <2>4 DEF Unmoved
  <2>8. Credit' = Credit + CreditAmount(q)
    BY <1>1, <2>6, <2>7, CreditGrows
  <2> QED
    BY <1>1, <2>1, <2>4, <2>5, <2>8
<1>3. CASE q.op \in {"PAY_MANUAL", "PAY_AUTO"}
  <2>1. PICK alloc \in Ledger!Allocations, rest \in 0 .. MaxAmount :
          /\ Splits(q, alloc, rest)
          /\ Ledger!CreatePayment(alloc, rest)
          /\ WriteRows(DOMAIN alloc)
    BY <1>3 DEF Acts
  <2>2. rest \in Int /\ PaymentAmount(q) = SumFunction(alloc) + rest
    BY <2>1 DEF Splits
  <2>3. /\ onAccount' = onAccount + rest
        /\ \A i \in Invoices \ DOMAIN alloc : Unmoved(i)
        /\ \A i \in DOMAIN alloc :
             books'[i].cash = books[i].cash + alloc[i] /\ credited'[i] = credited[i]
    BY <2>1, PaymentMoves
  <2>4. \A i \in Invoices \ DOMAIN alloc :
          books'[i].cash = books[i].cash /\ credited'[i] = credited[i]
    BY <2>3 DEF Unmoved
  <2>5. Cash' = Cash + SumFunction(alloc) /\ SumFunction(alloc) \in Int
    BY <2>3, <2>4, CashGrows
  <2>6. \A i \in Invoices : credited'[i] = credited[i]
    BY <2>3, <2>4
  <2>7. Credit' = Credit
    BY <2>6 DEF Credit
  <2>8. CreditAmount(q) = 0
    BY <1>3 DEF CreditAmount
  <2> QED
    BY <1>1, <2>2, <2>3, <2>5, <2>7, <2>8
<1> QED
  BY <1>2, <1>3

(* A commit counts its request once.                                        *)
LEMMA CommitCounts ==
  ASSUME TxInv, EffectsInv, NEW s \in Sessions, Commit(s)
  PROVE  EffectsInv'
<1> DEFINE q == sess[s].req
<1>1. /\ Acts(q) /\ q \in Requests /\ KeyUnused(q)
      /\ done' = done \cup {q}
  BY CommitActs
<1> HIDE DEF q
<1>2. TablesOK /\ done \subseteq Requests /\ IsFiniteSet(done)
  BY DEF TxInv, TablesOK
<1>3. q \notin done
  BY <1>1 DEF KeyUnused, Claims
<1>4. /\ PaidBy(done') = PaidBy(done) + PaymentAmount(q)
      /\ CreditedBy(done') = CreditedBy(done) + CreditAmount(q)
  BY <1>1, <1>2, <1>3, RequestCounts
<1>5. /\ onAccount' + Cash' = onAccount + Cash + PaymentAmount(q)
      /\ Credit' = Credit + CreditAmount(q)
  BY <1>1, <1>2, ActsEffects
<1>6. ASSUME NEW i \in Invoices, rows'[i].approved_by # NoUser
      PROVE  \E p \in done' : p.op = "APPROVE" /\ p.inv = i /\ p.user = rows'[i].approved_by
  <2>1. \/ rows'[i].approved_by \in {rows[i].approved_by, NoUser}
        \/ q.op = "APPROVE" /\ q.inv = i /\ rows'[i].approved_by = q.user
    BY <1>1, <1>2, ActsMoves DEF ApprovalKept
  <2>2. CASE rows'[i].approved_by = rows[i].approved_by
    BY <1>1, <1>6, <2>2 DEF EffectsInv, Approvals
  <2>3. CASE q.op = "APPROVE" /\ q.inv = i /\ rows'[i].approved_by = q.user
    BY <1>1, <2>3
  <2> QED
    BY <1>6, <2>1, <2>2, <2>3
<1>7. PaidBy(done)' = PaidBy(done') /\ CreditedBy(done)' = CreditedBy(done')
  BY DEF PaidBy, CreditedBy, PaymentAmount, CreditAmount
<1> QED
  BY <1>4, <1>5, <1>6, <1>7 DEF EffectsInv, Approvals

(* Every step counts its request once, if any.                              *)
LEMMA EffectsStep ==
  ASSUME TxInv, EffectsInv, [Next]_vars
  PROVE  EffectsInv'
<1>1. ASSUME UNCHANGED <<rows, books, credited, onAccount, done>>
      PROVE  EffectsInv'
  BY <1>1 DEF EffectsInv, Approvals, Cash, Credit, PaidBy, CreditedBy
<1>2. CASE UNCHANGED vars
  BY <1>1, <1>2 DEF vars
<1>3. ASSUME NEW s \in Sessions, Abort(s) \/ \E q \in Requests : Begin(s, q)
      PROVE  EffectsInv'
  BY <1>1, <1>3 DEF Abort, Begin, ledgerVars
<1>4. ASSUME NEW i \in Invoices, Deliver(i)
      PROVE  EffectsInv'
  <2>1. TablesOK
    BY DEF TxInv
  <2>2. PICK r, b, c, o : /\ Rewrites(i, r, b, c, o)
                          /\ c = credited[i]
                          /\ r.approved_by = rows[i].approved_by
    BY <1>4, <2>1, DeliverIsOne
  <2>3. /\ onAccount' = onAccount
        /\ \A j \in Invoices \ {i} : Unmoved(j)
        /\ \A j \in Invoices : books'[j].cash = books[j].cash
        /\ rows'[i] = r /\ credited'[i] = c
    BY <2>1, <2>2, OneMoves
  <2>4. \A j \in Invoices : /\ credited'[j] = credited[j]
                            /\ rows'[j].approved_by = rows[j].approved_by
    BY <2>2, <2>3 DEF Unmoved
  <2>5. done' = done
    BY <1>4 DEF Deliver
  <2>6. Cash' = Cash /\ Credit' = Credit
    BY <2>1, <2>3, <2>4, CashSame DEF Credit
  <2>7. PaidBy(done)' = PaidBy(done) /\ CreditedBy(done)' = CreditedBy(done)
    BY <2>5 DEF PaidBy, CreditedBy
  <2>8. Approvals'
    BY <2>4, <2>5 DEF EffectsInv, Approvals
  <2> QED
    BY <2>3, <2>6, <2>7, <2>8 DEF EffectsInv
<1> QED
  BY <1>2, <1>3, <1>4, CommitCounts DEF Next

(* At first there is neither money nor a request.                           *)
LEMMA EffectsInitial ==
  ASSUME Init
  PROVE  EffectsInv
<1>1. /\ \A i \in Invoices : books[i].cash = 0
      /\ \A i \in Invoices : credited[i].subtotal + credited[i].tax = 0
      /\ \A i \in Invoices : rows[i].approved_by = NoUser
      /\ onAccount = 0 /\ done = {}
  BY DEF Init, Ledger!Init, Ledger!EmptyRow, Ledger!EmptyBook, Ledger!NoReversal
<1>2. IsFiniteSet(Invoices)
  BY TransactionAssumption DEF TransactionAssumption
<1>3. Cash = 0
  <2> DEFINE f == [i \in Invoices |-> books[i].cash]
  <2>1. Cash = SumFunctionOnSet(f, Invoices) /\ \A i \in Invoices : f[i] = 0
    BY <1>1 DEF Cash
  <2> HIDE DEF f
  <2> QED
    BY <1>2, <2>1, SumZero
<1>4. Credit = 0
  <2> DEFINE f == [i \in Invoices |-> credited[i].subtotal + credited[i].tax]
  <2>1. Credit = SumFunctionOnSet(f, Invoices) /\ \A i \in Invoices : f[i] = 0
    BY <1>1 DEF Credit
  <2> HIDE DEF f
  <2> QED
    BY <1>2, <2>1, SumZero
<1>5. PaidBy(done) = 0 /\ CreditedBy(done) = 0
  BY <1>1, SumEmpty DEF PaidBy, CreditedBy
<1>6. Approvals
  BY <1>1 DEF Approvals
<1> QED
  BY <1>1, <1>3, <1>4, <1>5, <1>6 DEF EffectsInv

(* No receipt, credit or approval is lost or takes effect twice, whatever   *)
(* requests overlap: the money on the books is that of the requests that    *)
(* committed, and each of them has committed once for its key.              *)
THEOREM EffectsCounted == Spec => []EffectsMatchRequests
<1>1. Init => TxInv /\ EffectsInv
  BY TxInitial, EffectsInitial
<1>2. TxInv /\ EffectsInv /\ [Next]_vars => TxInv' /\ EffectsInv'
  BY TxStep, EffectsStep
<1>3. EffectsInv => EffectsMatchRequests
  BY DEF EffectsInv, EffectsMatchRequests, Cash, Credit, PaidBy, CreditedBy, Approvals,
         SumFunction, Ledger!Credits, Ledger!Approved
<1> QED
  BY <1>1, <1>2, <1>3, PTL DEF Spec

(* For the same customer, and as long as no write-off is asked for, nothing *)
(* is excepted: overlapping requests implement requests one at a time.      *)
THEOREM TransactionsAreSerial ==
  ASSUME CreditLimit = 0, "WRITE_OFF" \notin Operations
  PROVE  Spec => Ledger!Spec
<1>1. Init => Ledger!Init
  BY DEF Init
<1>2. ASSUME TxInv
      PROVE  ~OverwritingWriteOff
  <2>1. ASSUME NEW s \in Sessions, CommitWriteOff(s)
        PROVE  FALSE
    <3>1. sess[s].open /\ sess[s].req.op = "WRITE_OFF"
      BY <2>1 DEF CommitWriteOff, Committing
    <3>2. sess[s].req \in Requests
      BY <1>2, <3>1, OpenSession
    <3> QED
      BY <3>1, <3>2 DEF Requests
  <2> QED
    BY <2>1 DEF OverwritingWriteOff
<1>3. TxInv /\ [Next]_vars => [Ledger!Next]_(Ledger!vars)
  BY <1>2, StepImplements, NoLimit DEF ledgerVars, Ledger!vars
<1> QED
  BY <1>1, <1>3, TxInvariance, PTL DEF Spec, Ledger!Spec
=============================================================================
