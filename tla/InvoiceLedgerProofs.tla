------------------------ MODULE InvoiceLedgerProofs ------------------------
(***************************************************************************)
(* Every reachable state of InvoiceLedger satisfies its safety invariants, *)
(* for any set of invoices, users and amounts.                             *)
(*                                                                         *)
(* Good(r, b, c, o) is the inductive invariant of one invoice: its row r,  *)
(* its postings b, its reversals c and its delivery event o.  A first set  *)
(* of lemmas says that what each handler writes keeps Good; the invariant  *)
(* of the specification is Good of every invoice.                          *)
(***************************************************************************)
EXTENDS InvoiceLedger, FiniteSums

(* Before the approval nothing is posted; a draft owes its total.           *)
GoodUnposted(r, b, c, o) ==
  /\ r.status \in {"ABSENT", "DRAFT", "VOID"}
  /\ r.status # "VOID" => r.balance = r.subtotal + r.tax
  /\ r.status = "VOID" => r.balance = 0
  /\ ~r.sent_at
  /\ b = EmptyBook
  /\ c = NoReversal
  /\ o = "NONE"

(* What is open, received, given up and credited adds up to the total.      *)
Covered(r, b, c) ==
  r.balance + b.cash + b.badDebt + c.subtotal + c.tax
    = r.subtotal + r.tax - b.credit

GoodMoney(r, b, c) ==
  /\ c.subtotal <= r.subtotal
  /\ c.tax <= r.tax
  /\ b.credit <= 0
  /\ 0 - b.credit <= b.cash
  /\ r.status # "WRITTEN_OFF" => b.badDebt = 0
  /\ r.status \in Settled => r.balance = 0
  /\ r.status \in Payable => r.balance > 0
  /\ r.status \in {"APPROVED", "SENT", "VOID"} => b.cash = 0
  /\ r.status = "PARTIALLY_PAID" => b.cash > 0
  /\ r.status # "VOID" => /\ b.revenue = c.subtotal - r.subtotal
                         /\ b.tax = c.tax - r.tax
                         /\ b.ar = r.balance
  /\ r.status \notin {"VOID", "WRITTEN_OFF"} => Covered(r, b, c)
  /\ r.status = "WRITTEN_OFF" /\ "BAD_DEBT" \in Chart => Covered(r, b, c)
  /\ r.status = "VOID" => /\ b.revenue = c.subtotal
                         /\ b.tax = c.tax
                         /\ b.ar = 0 - (c.subtotal + c.tax)

GoodPosted(r, b, c, o) ==
  /\ r.status \in Creditable \cup Settled
  /\ r.approved_by # r.created_by
  /\ "AR" \in Chart
  /\ o \in {"QUEUED", "DELIVERED"}
  /\ r.sent_at <=> o = "DELIVERED"
  /\ r.status = "APPROVED" => o = "QUEUED"
  /\ r.status = "SENT" => o = "DELIVERED"
  /\ GoodMoney(r, b, c)

Good(r, b, c, o) ==
  /\ r \in Invoice
  /\ b \in Book
  /\ c \in Reversal
  /\ r.approved_by = NoUser => GoodUnposted(r, b, c, o)
  /\ r.approved_by # NoUser => GoodPosted(r, b, c, o)

-----------------------------------------------------------------------------
(* The sets of statuses, and what a row with a given status is.             *)
LEMMA StatusSets ==
  /\ Payable = {"APPROVED", "SENT", "PARTIALLY_PAID"}
  /\ Creditable = {"APPROVED", "SENT", "PARTIALLY_PAID", "PAID"}
  /\ Voidable = {"DRAFT", "APPROVED", "SENT"}
  /\ Settled = {"PAID", "VOID", "WRITTEN_OFF"}
  /\ Statuses = {"ABSENT", "DRAFT", "APPROVED", "SENT", "PARTIALLY_PAID",
                 "PAID", "VOID", "WRITTEN_OFF"}
BY DEF Payable, Creditable, Voidable, Settled, Statuses

(* The columns of a row and of a book, and one column written.              *)
LEMMA RowColumns ==
  ASSUME NEW r \in Invoice
  PROVE  /\ r.status \in Statuses
         /\ r.version \in Nat
         /\ r.subtotal \in Nat
         /\ r.tax \in Nat
         /\ r.balance \in Nat
         /\ r.created_by \in Users \cup {NoUser}
         /\ r.approved_by \in Users \cup {NoUser}
         /\ r.sent_at \in BOOLEAN
BY DEF Invoice

(* A row stays a row when one column is written with a value of its type.   *)
LEMMA RowWritten ==
  ASSUME NEW r \in Invoice
  PROVE  /\ \A x \in Statuses : [r EXCEPT !.status = x] \in Invoice
         /\ \A x \in Nat : [r EXCEPT !.version = x] \in Invoice
         /\ \A x \in Nat : [r EXCEPT !.subtotal = x] \in Invoice
         /\ \A x \in Nat : [r EXCEPT !.tax = x] \in Invoice
         /\ \A x \in Nat : [r EXCEPT !.balance = x] \in Invoice
         /\ \A x \in Users : [r EXCEPT !.approved_by = x] \in Invoice
         /\ [r EXCEPT !.sent_at = TRUE] \in Invoice
BY DEF Invoice

(* Every account of a book holds an integer.                                *)
LEMMA BookColumns ==
  ASSUME NEW b \in Book
  PROVE  /\ b.cash \in Int
         /\ b.ar \in Int
         /\ b.credit \in Int
         /\ b.revenue \in Int
         /\ b.tax \in Int
         /\ b.badDebt \in Int
BY DEF Book

(* A book stays a book when one account is written.                         *)
LEMMA BookWritten ==
  ASSUME NEW b \in Book
  PROVE  /\ \A x \in Int : [b EXCEPT !.cash = x] \in Book
         /\ \A x \in Int : [b EXCEPT !.ar = x] \in Book
         /\ \A x \in Int : [b EXCEPT !.credit = x] \in Book
         /\ \A x \in Int : [b EXCEPT !.revenue = x] \in Book
         /\ \A x \in Int : [b EXCEPT !.tax = x] \in Book
         /\ \A x \in Int : [b EXCEPT !.badDebt = x] \in Book
BY DEF Book

-----------------------------------------------------------------------------
(* The row, the books and the event an invoice starts with.                 *)
LEMMA EmptyGood == Good(EmptyRow, EmptyBook, NoReversal, "NONE")
BY StatusSets DEF Good, GoodUnposted, EmptyRow, EmptyBook, NoReversal, Invoice, Book,
     Reversal

(* A new draft is good: nothing is posted for it and its balance is its     *)
(* total.                                                                   *)
LEMMA DraftGood ==
  ASSUME NEW u \in Users, NEW s \in Nat, NEW t \in Nat
  PROVE  Good(DraftRow(u, s, t), EmptyBook, NoReversal, "NONE")
BY StatusSets DEF Good, GoodUnposted, DraftRow, EmptyBook, NoReversal, Invoice, Book,
     Reversal

(* A draft is not approved yet, so it is GoodUnposted.                      *)
LEMMA DraftUnposted ==
  ASSUME NEW r, NEW b, NEW c, NEW o, Good(r, b, c, o), r.status = "DRAFT"
  PROVE  r.approved_by = NoUser /\ GoodUnposted(r, b, c, o)
BY StatusSets DEF Good, GoodPosted

(* Editing a draft leaves it good.                                          *)
LEMMA EditGood ==
  ASSUME NEW r \in Invoice, NEW b, NEW c, NEW o, Good(r, b, c, o),
         NEW s \in Nat, NEW t \in Nat, CanEdit(r)
  PROVE  Good(EditRow(r, s, t), b, c, o)
<1>1. r.status = "DRAFT" /\ r.version + 1 \in Nat /\ s + t \in Nat
  BY RowColumns DEF CanEdit
<1>2. r.approved_by = NoUser /\ GoodUnposted(r, b, c, o)
  BY <1>1, DraftUnposted
<1> DEFINE q == EditRow(r, s, t)
<1>3. q \in Invoice
  BY <1>1, RowWritten DEF EditRow
<1>4. /\ q.status = r.status
      /\ q.balance = s + t
      /\ q.subtotal = s
      /\ q.tax = t
      /\ q.approved_by = r.approved_by
      /\ q.sent_at = r.sent_at
  BY DEF EditRow, Invoice
<1> HIDE DEF q
<1>5. Good(q, b, c, o)
  BY <1>1, <1>2, <1>3, <1>4 DEF Good, GoodUnposted
<1>6. QED
  BY <1>5 DEF q

(* Rejecting a draft leaves it good.                                        *)
LEMMA RejectGood ==
  ASSUME NEW r \in Invoice, NEW b, NEW c, NEW o, Good(r, b, c, o),
         NEW u \in Users, CanReject(r, u)
  PROVE  Good(RejectRow(r), b, c, o)
<1>1. r.status = "DRAFT" /\ r.version + 1 \in Nat
  BY RowColumns DEF CanReject, CanDecide
<1>2. r.approved_by = NoUser /\ GoodUnposted(r, b, c, o)
  BY <1>1, DraftUnposted
<1> DEFINE q == RejectRow(r)
<1>3. q \in Invoice
  BY <1>1, RowWritten DEF RejectRow
<1>4. /\ q.status = r.status
      /\ q.balance = r.balance
      /\ q.subtotal = r.subtotal
      /\ q.tax = r.tax
      /\ q.approved_by = r.approved_by
      /\ q.sent_at = r.sent_at
  BY DEF RejectRow, Invoice
<1> HIDE DEF q
<1>5. Good(q, b, c, o)
  BY <1>1, <1>2, <1>3, <1>4 DEF Good, GoodUnposted
<1>6. QED
  BY <1>5 DEF q

(* The approval posts what the row says and queues the delivery.            *)
LEMMA ApproveGood ==
  ASSUME NEW r \in Invoice, NEW b \in Book, NEW c, NEW o, Good(r, b, c, o),
         NEW u \in Users, CanApprove(r, u)
  PROVE  Good(ApproveRow(r, u), ApprovePost(b, r), c, "QUEUED")
<1>1. /\ r.status = "DRAFT"
      /\ r.subtotal > 0
      /\ u # r.created_by
      /\ "AR" \in Chart
      /\ r.version + 1 \in Nat
  BY RowColumns DEF CanApprove, CanDecide
<1>2. GoodUnposted(r, b, c, o)
  BY <1>1, DraftUnposted
<1>3. /\ r.balance = r.subtotal + r.tax
      /\ ~r.sent_at
      /\ b = EmptyBook
      /\ c = NoReversal
  BY <1>1, <1>2 DEF GoodUnposted
<1> DEFINE q == ApproveRow(r, u)
           d == ApprovePost(b, r)
<1>4. q \in Invoice
  BY <1>1, RowWritten, StatusSets DEF ApproveRow
<1>5. /\ q.status = "APPROVED"
      /\ q.balance = r.balance
      /\ q.subtotal = r.subtotal
      /\ q.tax = r.tax
      /\ q.created_by = r.created_by
      /\ q.approved_by = u
      /\ q.sent_at = r.sent_at
  BY DEF ApproveRow, Invoice
<1>6. /\ b.ar + Total(r) \in Int
      /\ b.revenue - r.subtotal \in Int
      /\ b.tax - r.tax \in Int
  BY RowColumns, BookColumns DEF Total
<1>7. d \in Book
  BY <1>6, BookWritten DEF ApprovePost
<1>8. /\ d.cash = b.cash
      /\ d.ar = b.ar + Total(r)
      /\ d.credit = b.credit
      /\ d.revenue = b.revenue - r.subtotal
      /\ d.tax = b.tax - r.tax
      /\ d.badDebt = b.badDebt
  BY DEF ApprovePost, Book
<1>9. /\ b.cash = 0 /\ b.ar = 0 /\ b.credit = 0
      /\ b.revenue = 0 /\ b.tax = 0 /\ b.badDebt = 0
      /\ c.subtotal = 0 /\ c.tax = 0
  BY <1>3 DEF EmptyBook, NoReversal
<1> HIDE DEF q, d
<1>10. GoodMoney(q, d, c)
  BY <1>1, <1>3, <1>5, <1>8, <1>9, RowColumns, StatusSets
     DEF GoodMoney, Covered, Total
<1>11. Good(q, d, c, "QUEUED")
  BY <1>1, <1>3, <1>4, <1>5, <1>7, <1>10, StatusSets, PostingAssumption
     DEF Good, GoodPosted
<1>12. QED
  BY <1>11 DEF q, d

(* An invoice that can be paid, credited or written off was approved.       *)
LEMMA CreditablePosted ==
  ASSUME NEW r, NEW b, NEW c, NEW o, Good(r, b, c, o), r.status \in Creditable
  PROVE  /\ r.approved_by # NoUser
         /\ GoodPosted(r, b, c, o)
         /\ GoodMoney(r, b, c)
BY StatusSets DEF Good, GoodUnposted, GoodPosted

(* A receipt moves the same amount from the balance and from AR to cash.    *)
LEMMA PayGood ==
  ASSUME NEW r \in Invoice, NEW b \in Book, NEW c \in Reversal, NEW o,
         Good(r, b, c, o), NEW a \in Nat, CanPay(r, a)
  PROVE  Good(PayRow(r, a), PayPost(b, a), c, o)
<1>1. r.status \in Payable /\ a > 0 /\ a <= r.balance
  BY DEF CanPay
<1>2. /\ r.approved_by # NoUser
      /\ GoodPosted(r, b, c, o)
      /\ GoodMoney(r, b, c)
  BY <1>1, CreditablePosted, StatusSets
<1> DEFINE q == PayRow(r, a)
           d == PayPost(b, a)
           st == IF a = r.balance THEN "PAID" ELSE "PARTIALLY_PAID"
<1>3. q \in Invoice
  <2>1. st \in Statuses /\ r.balance - a \in Nat /\ r.version + 1 \in Nat
    BY <1>1, RowColumns, StatusSets
  <2>2. QED
    BY <2>1, RowWritten DEF PayRow
<1>4. /\ q.status = st
      /\ q.balance = r.balance - a
      /\ q.subtotal = r.subtotal
      /\ q.tax = r.tax
      /\ q.created_by = r.created_by
      /\ q.approved_by = r.approved_by
      /\ q.sent_at = r.sent_at
  BY DEF PayRow, Invoice
<1>5. d \in Book
  <2>1. b.cash + a \in Int /\ b.ar - a \in Int
    BY BookColumns
  <2>2. QED
    BY <2>1, BookWritten DEF PayPost
<1>6. /\ d.cash = b.cash + a
      /\ d.ar = b.ar - a
      /\ d.credit = b.credit
      /\ d.revenue = b.revenue
      /\ d.tax = b.tax
      /\ d.badDebt = b.badDebt
  BY DEF PayPost, Book
<1>7. c.subtotal \in Nat /\ c.tax \in Nat
  BY DEF Reversal
<1> HIDE DEF q, d
<1>8. GoodMoney(q, d, c)
  <2>1. /\ r.balance \in Nat
        /\ r.status # "WRITTEN_OFF" /\ r.status # "VOID" /\ r.status # "PAID"
        /\ b.badDebt = 0
        /\ Covered(r, b, c)
        /\ b.cash >= 0
    BY <1>1, <1>2, RowColumns, BookColumns, StatusSets DEF GoodMoney
  <2>2. Covered(q, d, c)
    BY <2>1, <1>4, <1>6, <1>7, RowColumns, BookColumns DEF Covered
  <2>3. d.cash > 0 /\ 0 - d.credit <= d.cash
    BY <2>1, <1>1, <1>2, <1>6, BookColumns DEF GoodMoney
  <2>4. CASE a = r.balance
    <3>1. q.status = "PAID" /\ q.balance = 0
      BY <2>1, <2>4, <1>4
    <3>2. QED
      BY <2>1, <2>2, <2>3, <3>1, <1>2, <1>4, <1>6, BookColumns, RowColumns, StatusSets
         DEF GoodMoney
  <2>5. CASE a # r.balance
    <3>1. q.status = "PARTIALLY_PAID" /\ q.balance > 0
      BY <2>1, <2>5, <1>1, <1>4
    <3>2. QED
      BY <2>1, <2>2, <2>3, <3>1, <1>2, <1>4, <1>6, BookColumns, RowColumns, StatusSets
         DEF GoodMoney
  <2>6. QED
    BY <2>4, <2>5
<1>9. GoodPosted(q, d, c, o)
  BY <1>2, <1>4, <1>8, StatusSets DEF GoodPosted
<1>10. Good(q, d, c, o)
  BY <1>2, <1>3, <1>4, <1>5, <1>9 DEF Good
<1>11. QED
  BY <1>10 DEF q, d

(* A write-off of the row as it is gives up exactly what is open.           *)
LEMMA WriteOffGood ==
  ASSUME NEW r \in Invoice, NEW b \in Book, NEW c \in Reversal, NEW o,
         Good(r, b, c, o), CanWriteOff(r)
  PROVE  Good(WriteOffRow(r, r), WriteOffPost(b, r), c, o)
<1>1. r.status \in Payable /\ r.balance > 0
  BY DEF CanWriteOff
<1>2. /\ r.approved_by # NoUser
      /\ GoodPosted(r, b, c, o)
      /\ GoodMoney(r, b, c)
      /\ "AR" \in Chart
  BY <1>1, CreditablePosted, StatusSets DEF GoodPosted
<1> DEFINE q == WriteOffRow(r, r)
           d == WriteOffPost(b, r)
           e == IF "BAD_DEBT" \in Chart THEN r.balance ELSE 0
<1>3. q \in Invoice
  <2>1. r.version + 1 \in Nat /\ 0 \in Nat /\ "WRITTEN_OFF" \in Statuses
    BY RowColumns, StatusSets
  <2>2. QED
    BY <2>1, RowWritten DEF WriteOffRow
<1>4. /\ q.status = "WRITTEN_OFF"
      /\ q.balance = 0
      /\ q.subtotal = r.subtotal
      /\ q.tax = r.tax
      /\ q.created_by = r.created_by
      /\ q.approved_by = r.approved_by
      /\ q.sent_at = r.sent_at
  BY DEF WriteOffRow, Invoice
<1>5. d \in Book
  <2>1. b.badDebt + e \in Int /\ b.ar - r.balance \in Int
    BY BookColumns, RowColumns
  <2>2. QED
    BY <1>2, <2>1, BookWritten DEF WriteOffPost
<1>6. /\ d.cash = b.cash
      /\ d.ar = b.ar - r.balance
      /\ d.credit = b.credit
      /\ d.revenue = b.revenue
      /\ d.tax = b.tax
      /\ d.badDebt = b.badDebt + e
  BY <1>2 DEF WriteOffPost, Book
<1>7. c.subtotal \in Nat /\ c.tax \in Nat
  BY DEF Reversal
<1> HIDE DEF q, d
<1>8. GoodMoney(q, d, c)
  <2>1. /\ r.balance \in Nat
        /\ r.status # "WRITTEN_OFF" /\ r.status # "VOID" /\ r.status # "PAID"
        /\ b.badDebt = 0
        /\ Covered(r, b, c)
    BY <1>1, <1>2, RowColumns, BookColumns, StatusSets DEF GoodMoney
  <2>2. "BAD_DEBT" \in Chart => Covered(q, d, c)
    BY <2>1, <1>4, <1>6, <1>7, RowColumns, BookColumns DEF Covered
  <2>3. QED
    BY <2>1, <2>2, <1>2, <1>4, <1>6, BookColumns, RowColumns, StatusSets
       DEF GoodMoney
<1>9. GoodPosted(q, d, c, o)
  BY <1>2, <1>4, <1>8, StatusSets DEF GoodPosted
<1>10. Good(q, d, c, o)
  BY <1>2, <1>3, <1>4, <1>5, <1>9 DEF Good
<1>11. QED
  BY <1>10 DEF q, d

(* A void reverses the approval; AR falls short by what memos credited.     *)
LEMMA VoidGood ==
  ASSUME NEW r \in Invoice, NEW b \in Book, NEW c \in Reversal, NEW o,
         Good(r, b, c, o), CanVoid(r)
  PROVE  Good(VoidRow(r), VoidPost(b, r), c, o)
<1> DEFINE q == VoidRow(r)
           d == VoidPost(b, r)
<1>1. q \in Invoice
  <2>1. r.version + 1 \in Nat /\ 0 \in Nat /\ "VOID" \in Statuses
    BY RowColumns, StatusSets
  <2>2. QED
    BY <2>1, RowWritten DEF VoidRow
<1>2. /\ q.status = "VOID"
      /\ q.balance = 0
      /\ q.subtotal = r.subtotal
      /\ q.tax = r.tax
      /\ q.created_by = r.created_by
      /\ q.approved_by = r.approved_by
      /\ q.sent_at = r.sent_at
  BY DEF VoidRow, Invoice
<1>3. CASE r.status = "DRAFT"
  <2>1. r.approved_by = NoUser /\ GoodUnposted(r, b, c, o)
    BY <1>3, DraftUnposted
  <2>2. d = b
    BY <1>3 DEF VoidPost
  <2> HIDE DEF q, d
  <2>3. Good(q, d, c, o)
    BY <2>1, <2>2, <1>1, <1>2 DEF Good, GoodUnposted
  <2>4. QED
    BY <2>3 DEF q, d
<1>4. CASE r.status \in {"APPROVED", "SENT"}
  <2>1. /\ r.approved_by # NoUser
        /\ GoodPosted(r, b, c, o)
        /\ GoodMoney(r, b, c)
    BY <1>4, CreditablePosted, StatusSets
  <2>2. d \in Book
    <3>1. /\ b.revenue + r.subtotal \in Int
          /\ b.tax + r.tax \in Int
          /\ b.ar - Total(r) \in Int
      BY BookColumns, RowColumns DEF Total
    <3>2. QED
      BY <1>4, <3>1, BookWritten DEF VoidPost
  <2>3. /\ d.cash = b.cash
        /\ d.ar = b.ar - (r.subtotal + r.tax)
        /\ d.credit = b.credit
        /\ d.revenue = b.revenue + r.subtotal
        /\ d.tax = b.tax + r.tax
        /\ d.badDebt = b.badDebt
    BY <1>4 DEF VoidPost, Book, Total
  <2>4. c.subtotal \in Nat /\ c.tax \in Nat
    BY DEF Reversal
  <2>5. /\ b.cash = 0 /\ b.badDebt = 0 /\ b.credit = 0
        /\ b.ar = r.subtotal + r.tax - (c.subtotal + c.tax)
    BY <1>4, <2>1, <2>4, RowColumns, BookColumns, StatusSets DEF GoodMoney, Covered
  <2> HIDE DEF q, d
  <2>6. GoodMoney(q, d, c)
    BY <1>2, <1>4, <2>1, <2>3, <2>4, <2>5, RowColumns, BookColumns, StatusSets
       DEF GoodMoney
  <2>7. GoodPosted(q, d, c, o)
    BY <1>2, <2>1, <2>6, StatusSets DEF GoodPosted
  <2>8. Good(q, d, c, o)
    BY <1>1, <1>2, <2>1, <2>2, <2>7 DEF Good
  <2>9. QED
    BY <2>8 DEF q, d
<1>5. QED
  BY <1>3, <1>4, StatusSets DEF CanVoid

(* The worker sets sent_at and moves an approved invoice to SENT.           *)
LEMMA SentGood ==
  ASSUME NEW r \in Invoice, NEW b \in Book, NEW c \in Reversal,
         Good(r, b, c, "QUEUED")
  PROVE  Good(SentRow(r), b, c, "DELIVERED")
<1>1. /\ r.approved_by # NoUser
      /\ GoodPosted(r, b, c, "QUEUED")
      /\ GoodMoney(r, b, c)
      /\ ~r.sent_at
      /\ r.status # "SENT"
  BY DEF Good, GoodUnposted, GoodPosted
<1> DEFINE q == SentRow(r)
           st == IF r.status = "APPROVED" THEN "SENT" ELSE r.status
<1>2. q \in Invoice
  <2>1. r.version + 1 \in Nat /\ st \in Statuses
    BY RowColumns, StatusSets
  <2>2. QED
    BY <1>1, <2>1, RowWritten DEF SentRow
<1>3. /\ q.status = st
      /\ q.balance = r.balance
      /\ q.subtotal = r.subtotal
      /\ q.tax = r.tax
      /\ q.created_by = r.created_by
      /\ q.approved_by = r.approved_by
      /\ q.sent_at = TRUE
  BY <1>1 DEF SentRow, Invoice
<1> HIDE DEF q
<1>4. GoodMoney(q, b, c)
  BY <1>1, <1>3, StatusSets DEF GoodMoney, Covered
<1>5. GoodPosted(q, b, c, "DELIVERED")
  BY <1>1, <1>3, <1>4, StatusSets DEF GoodPosted
<1>6. Good(q, b, c, "DELIVERED")
  BY <1>1, <1>2, <1>3, <1>5 DEF Good
<1>7. QED
  BY <1>6 DEF q

(* What a credit memo reverses adds up to its amount.                       *)
LEMMA SplitAddsUp ==
  ASSUME NEW r \in Invoice, NEW c \in Reversal, NEW u, NEW a \in Nat, NEW t,
         CanCredit(r, c, u, a, t)
  PROVE  LET split == CreditSplit(r, c, a, t)
             rem == Remaining(r, c)
         IN  /\ split.subtotal \in Nat
             /\ split.tax \in Nat
             /\ split.subtotal + split.tax = a
             /\ split.subtotal <= rem.subtotal
             /\ split.tax <= rem.tax
<1> DEFINE rem == Remaining(r, c)
           x == TaxPart(rem, a, t)
           split == CreditSplit(r, c, a, t)
<1>1. split = [subtotal |-> a - x, tax |-> x]
  BY DEF CreditSplit
<1>2. split.subtotal \in 1 .. rem.subtotal /\ split.tax \in 0 .. rem.tax
  BY DEF CanCredit
<1>3. rem.subtotal \in Nat /\ rem.tax \in Nat
  BY RowColumns DEF Remaining, Reversal
<1> HIDE DEF rem, x, split
<1>4. /\ split.subtotal \in Nat
      /\ split.tax \in Nat
      /\ split.subtotal <= rem.subtotal
      /\ split.tax <= rem.tax
  BY <1>2, <1>3
<1>5. x \in Nat
  BY <1>1, <1>4
<1>6. split.subtotal + split.tax = a
  BY <1>1, <1>5
<1>7. QED
  BY <1>4, <1>6 DEF rem, split

(* A credit memo takes its parts off revenue and tax, and off the balance   *)
(* or into customer credit.                                                 *)
LEMMA CreditGood ==
  ASSUME NEW r \in Invoice, NEW b \in Book, NEW c \in Reversal, NEW o,
         Good(r, b, c, o), NEW u, NEW a \in Nat, NEW t,
         CanCredit(r, c, u, a, t)
  PROVE  Good(CreditRow(r, a), CreditPost(b, r, CreditSplit(r, c, a, t)),
              AddReversal(c, CreditSplit(r, c, a, t)), o)
<1> DEFINE split == CreditSplit(r, c, a, t)
           rem == Remaining(r, c)
           k == ArCredit(r, a)
           q == CreditRow(r, a)
           d == CreditPost(b, r, split)
           e == AddReversal(c, split)
           st == IF k = r.balance THEN "PAID" ELSE r.status
<1>1. r.status \in Creditable /\ a > 0
  BY DEF CanCredit
<1>2. /\ r.approved_by # NoUser
      /\ GoodPosted(r, b, c, o)
      /\ GoodMoney(r, b, c)
  BY <1>1, CreditablePosted
<1>3. /\ split.subtotal \in Nat
      /\ split.tax \in Nat
      /\ split.subtotal + split.tax = a
      /\ split.subtotal <= rem.subtotal
      /\ split.tax <= rem.tax
  BY SplitAddsUp
<1>4. /\ k \in Nat
      /\ k <= r.balance
      /\ k = a \/ (k = r.balance /\ r.balance <= a)
  BY RowColumns DEF ArCredit
<1>5. c.subtotal \in Nat /\ c.tax \in Nat
  BY DEF Reversal
<1>6. /\ c.subtotal <= r.subtotal
      /\ c.tax <= r.tax
      /\ rem.subtotal = r.subtotal - c.subtotal
      /\ rem.tax = r.tax - c.tax
  BY <1>2, <1>5, RowColumns DEF GoodMoney, Remaining
<1> HIDE DEF split, rem, k
<1>7. q \in Invoice
  <2>1. r.balance - k \in Nat /\ st \in Statuses /\ r.version + 1 \in Nat
    BY <1>4, RowColumns, StatusSets
  <2>2. QED
    BY <2>1, RowWritten DEF CreditRow, k
<1>8. /\ q.status = st
      /\ q.balance = r.balance - k
      /\ q.subtotal = r.subtotal
      /\ q.tax = r.tax
      /\ q.created_by = r.created_by
      /\ q.approved_by = r.approved_by
      /\ q.sent_at = r.sent_at
  BY DEF CreditRow, Invoice, k
<1>9. d = [b EXCEPT !.revenue = b.revenue + split.subtotal,
                    !.tax = b.tax + split.tax,
                    !.ar = b.ar - k,
                    !.credit = b.credit - (a - k)]
  BY <1>3 DEF CreditPost, k
<1>10. d \in Book
  <2>1. /\ b.revenue + split.subtotal \in Int
        /\ b.tax + split.tax \in Int
        /\ b.ar - k \in Int
        /\ b.credit - (a - k) \in Int
    BY <1>3, <1>4, BookColumns
  <2> DEFINE d1 == [b EXCEPT !.revenue = b.revenue + split.subtotal]
             d2 == [d1 EXCEPT !.tax = b.tax + split.tax]
             d3 == [d2 EXCEPT !.ar = b.ar - k]
             d4 == [d3 EXCEPT !.credit = b.credit - (a - k)]
  <2>2. d = d4
    BY <1>9
  <2>3. d1 \in Book
    BY <2>1, BookWritten
  <2> HIDE DEF d1
  <2>4. d2 \in Book
    BY <2>1, <2>3, BookWritten
  <2> HIDE DEF d2
  <2>5. d3 \in Book
    BY <2>1, <2>4, BookWritten
  <2> HIDE DEF d3
  <2>6. d4 \in Book
    BY <2>1, <2>5, BookWritten
  <2>7. QED
    BY <2>2, <2>6
<1>11. /\ d.cash = b.cash
       /\ d.ar = b.ar - k
       /\ d.credit = b.credit - (a - k)
       /\ d.revenue = b.revenue + split.subtotal
       /\ d.tax = b.tax + split.tax
       /\ d.badDebt = b.badDebt
  BY <1>9 DEF Book
<1>12. /\ e \in Reversal
       /\ e.subtotal = c.subtotal + split.subtotal
       /\ e.tax = c.tax + split.tax
  BY <1>3, <1>5 DEF AddReversal, Reversal
<1> HIDE DEF q, d, e
<1>13. GoodMoney(q, d, e)
  <2>1. /\ r.status # "WRITTEN_OFF" /\ r.status # "VOID"
        /\ b.badDebt = 0
        /\ Covered(r, b, c)
        /\ b.cash >= 0
    BY <1>1, <1>2, BookColumns, StatusSets DEF GoodMoney
  <2>2. Covered(q, d, e)
    BY <2>1, <1>3, <1>4, <1>5, <1>8, <1>11, <1>12, RowColumns, BookColumns DEF Covered
  <2>3. /\ e.subtotal <= q.subtotal
        /\ e.tax <= q.tax
    BY <1>3, <1>5, <1>6, <1>8, <1>12, RowColumns
  <2>4. /\ d.credit <= 0
        /\ 0 - d.credit <= d.cash
    <3>1. CASE k = a
      BY <3>1, <1>2, <1>3, <1>11, BookColumns DEF GoodMoney
    <3>2. CASE k = r.balance /\ r.balance <= a
      <4>1. d.credit <= 0
        BY <3>2, <1>2, <1>11, BookColumns, RowColumns DEF GoodMoney
      <4>2. q.balance = 0 /\ d.badDebt = 0
        BY <3>2, <2>1, <1>8, <1>11, RowColumns
      <4>3. QED
        BY <4>1, <4>2, <2>2, <2>3, <1>3, <1>4, <1>5, <1>8, <1>11, <1>12, RowColumns,
           BookColumns DEF Covered
    <3>3. QED
      BY <3>1, <3>2, <1>4
  <2>5. /\ d.revenue = e.subtotal - q.subtotal
        /\ d.tax = e.tax - q.tax
        /\ d.ar = q.balance
    BY <2>1, <1>2, <1>3, <1>4, <1>5, <1>8, <1>11, <1>12, RowColumns, BookColumns
       DEF GoodMoney
  <2>6. CASE k = r.balance
    <3>1. q.status = "PAID" /\ q.balance = 0
      BY <2>6, <1>8, RowColumns
    <3>2. QED
      BY <3>1, <2>1, <2>2, <2>3, <2>4, <2>5, <1>11, StatusSets DEF GoodMoney
  <2>7. CASE k # r.balance
    <3>1. q.status = r.status /\ q.balance > 0 /\ r.status \in Payable
      BY <2>7, <1>1, <1>2, <1>4, <1>8, RowColumns, StatusSets DEF GoodMoney
    <3>2. QED
      BY <3>1, <2>1, <2>2, <2>3, <2>4, <2>5, <1>2, <1>11, StatusSets DEF GoodMoney
  <2>8. QED
    BY <2>6, <2>7
<1>14. GoodPosted(q, d, e, o)
  BY <1>1, <1>2, <1>8, <1>13, StatusSets DEF GoodPosted
<1>15. Good(q, d, e, o)
  BY <1>2, <1>7, <1>8, <1>10, <1>12, <1>14 DEF Good
<1>16. QED
  BY <1>15 DEF q, d, e, split

-----------------------------------------------------------------------------
(* The inductive invariant of the specification.                            *)
LedgerInv ==
  /\ TypeOK
  /\ \A i \in Invoices : Good(rows[i], books[i], credited[i], outbox[i])

(* The empty tables satisfy the invariant.                                  *)
LEMMA InitLedgerInv == Init => LedgerInv
<1> SUFFICES ASSUME Init PROVE LedgerInv
  OBVIOUS
<1>1. /\ EmptyRow \in Invoice
      /\ EmptyBook \in Book
      /\ NoReversal \in Reversal
  BY EmptyGood DEF Good
<1>2. TypeOK
  BY <1>1 DEF Init, TypeOK, OutboxStates
<1>3. \A i \in Invoices : Good(rows[i], books[i], credited[i], outbox[i])
  BY EmptyGood DEF Init
<1>4. QED
  BY <1>2, <1>3 DEF LedgerInv

(* A step that rewrites one invoice with Good values keeps the invariant.   *)
LEMMA OneInvoiceStep ==
  ASSUME LedgerInv, NEW i \in Invoices, NEW r, NEW b, NEW c, NEW o,
         Good(r, b, c, o), o \in OutboxStates,
         rows' = [rows EXCEPT ![i] = r],
         books' = [books EXCEPT ![i] = b],
         credited' = [credited EXCEPT ![i] = c],
         outbox' = [outbox EXCEPT ![i] = o],
         UNCHANGED onAccount
  PROVE  LedgerInv'
<1>1. r \in Invoice /\ b \in Book /\ c \in Reversal
  BY DEF Good
<1>2. TypeOK'
  BY <1>1 DEF LedgerInv, TypeOK
<1>3. ASSUME NEW j \in Invoices
      PROVE  Good(rows'[j], books'[j], credited'[j], outbox'[j])
  <2>1. CASE j = i
    BY <2>1 DEF LedgerInv, TypeOK
  <2>2. CASE j # i
    BY <2>2 DEF LedgerInv, TypeOK
  <2>3. QED
    BY <2>1, <2>2
<1>4. QED
  BY <1>2, <1>3 DEF LedgerInv

(* What the invariant says of one invoice.                                  *)
LEMMA LedgerInvAt ==
  ASSUME LedgerInv, NEW i \in Invoices
  PROVE  /\ rows[i] \in Invoice
         /\ books[i] \in Book
         /\ credited[i] \in Reversal
         /\ outbox[i] \in OutboxStates
         /\ Good(rows[i], books[i], credited[i], outbox[i])
         /\ rows = [rows EXCEPT ![i] = rows[i]]
         /\ books = [books EXCEPT ![i] = books[i]]
         /\ credited = [credited EXCEPT ![i] = credited[i]]
         /\ outbox = [outbox EXCEPT ![i] = outbox[i]]
BY DEF LedgerInv, TypeOK

(* One lemma per action: creating an invoice keeps the invariant, ...       *)
LEMMA CreateKeeps ==
  ASSUME LedgerInv, NEW i \in Invoices, NEW u \in Users, NEW s \in Nat, NEW t \in Nat,
         CreateInvoice(i, u, s, t)
  PROVE  LedgerInv'
<1>1. rows[i].status = "ABSENT"
  BY DEF CreateInvoice
<1>2. /\ books[i] = EmptyBook
      /\ credited[i] = NoReversal
      /\ outbox[i] = "NONE"
  BY <1>1, LedgerInvAt, StatusSets DEF Good, GoodUnposted, GoodPosted
<1>3. Good(DraftRow(u, s, t), books[i], credited[i], outbox[i])
  BY <1>2, DraftGood
<1>4. /\ rows' = [rows EXCEPT ![i] = DraftRow(u, s, t)]
      /\ books' = [books EXCEPT ![i] = books[i]]
      /\ credited' = [credited EXCEPT ![i] = credited[i]]
      /\ outbox' = [outbox EXCEPT ![i] = outbox[i]]
      /\ UNCHANGED onAccount
  BY LedgerInvAt DEF CreateInvoice
<1>5. outbox[i] \in OutboxStates
  BY LedgerInvAt
<1>6. QED
  BY <1>3, <1>4, <1>5, OneInvoiceStep

(* ... and so does editing it, ...                                          *)
LEMMA UpdateKeeps ==
  ASSUME LedgerInv, NEW i \in Invoices, NEW s \in Nat, NEW t \in Nat,
         UpdateInvoice(i, s, t)
  PROVE  LedgerInv'
<1>1. Good(EditRow(rows[i], s, t), books[i], credited[i], outbox[i])
  BY LedgerInvAt, EditGood DEF UpdateInvoice
<1>2. /\ rows' = [rows EXCEPT ![i] = EditRow(rows[i], s, t)]
      /\ books' = [books EXCEPT ![i] = books[i]]
      /\ credited' = [credited EXCEPT ![i] = credited[i]]
      /\ outbox' = [outbox EXCEPT ![i] = outbox[i]]
      /\ UNCHANGED onAccount
  BY LedgerInvAt DEF UpdateInvoice
<1>3. outbox[i] \in OutboxStates
  BY LedgerInvAt
<1>4. QED
  BY <1>1, <1>2, <1>3, OneInvoiceStep

(* ... rejecting it, ...                                                    *)
LEMMA RejectKeeps ==
  ASSUME LedgerInv, NEW i \in Invoices, NEW u \in Users, RejectInvoice(i, u)
  PROVE  LedgerInv'
<1>1. Good(RejectRow(rows[i]), books[i], credited[i], outbox[i])
  BY LedgerInvAt, RejectGood DEF RejectInvoice
<1>2. /\ rows' = [rows EXCEPT ![i] = RejectRow(rows[i])]
      /\ books' = [books EXCEPT ![i] = books[i]]
      /\ credited' = [credited EXCEPT ![i] = credited[i]]
      /\ outbox' = [outbox EXCEPT ![i] = outbox[i]]
      /\ UNCHANGED onAccount
  BY LedgerInvAt DEF RejectInvoice
<1>3. outbox[i] \in OutboxStates
  BY LedgerInvAt
<1>4. QED
  BY <1>1, <1>2, <1>3, OneInvoiceStep

(* ... approving it, ...                                                    *)
LEMMA ApproveKeeps ==
  ASSUME LedgerInv, NEW i \in Invoices, NEW u \in Users, ApproveInvoice(i, u)
  PROVE  LedgerInv'
<1>1. Good(ApproveRow(rows[i], u), ApprovePost(books[i], rows[i]), credited[i], "QUEUED")
  BY LedgerInvAt, ApproveGood DEF ApproveInvoice
<1>2. /\ rows' = [rows EXCEPT ![i] = ApproveRow(rows[i], u)]
      /\ books' = [books EXCEPT ![i] = ApprovePost(books[i], rows[i])]
      /\ credited' = [credited EXCEPT ![i] = credited[i]]
      /\ outbox' = [outbox EXCEPT ![i] = "QUEUED"]
      /\ UNCHANGED onAccount
  BY LedgerInvAt DEF ApproveInvoice
<1>3. "QUEUED" \in OutboxStates
  BY LedgerInvAt DEF OutboxStates
<1>4. QED
  BY <1>1, <1>2, <1>3, OneInvoiceStep

(* ... a credit memo on it, ...                                             *)
LEMMA CreditKeeps ==
  ASSUME LedgerInv, NEW i \in Invoices, NEW u, NEW a \in Nat, NEW t,
         CreateCreditMemo(i, u, a, t)
  PROVE  LedgerInv'
<1> DEFINE split == CreditSplit(rows[i], credited[i], a, t)
<1>1. Good(CreditRow(rows[i], a), CreditPost(books[i], rows[i], split),
           AddReversal(credited[i], split), outbox[i])
  BY LedgerInvAt, CreditGood DEF CreateCreditMemo
<1>2. /\ rows' = [rows EXCEPT ![i] = CreditRow(rows[i], a)]
      /\ books' = [books EXCEPT ![i] = CreditPost(books[i], rows[i], split)]
      /\ credited' = [credited EXCEPT ![i] = AddReversal(credited[i], split)]
      /\ outbox' = [outbox EXCEPT ![i] = outbox[i]]
      /\ UNCHANGED onAccount
  BY LedgerInvAt DEF CreateCreditMemo
<1>3. outbox[i] \in OutboxStates
  BY LedgerInvAt
<1>4. QED
  BY <1>1, <1>2, <1>3, OneInvoiceStep

(* ... writing it off, ...                                                  *)
LEMMA WriteOffKeeps ==
  ASSUME LedgerInv, NEW i \in Invoices, WriteOffInvoice(i)
  PROVE  LedgerInv'
<1>1. Good(WriteOffRow(rows[i], rows[i]), WriteOffPost(books[i], rows[i]),
           credited[i], outbox[i])
  BY LedgerInvAt, WriteOffGood DEF WriteOffInvoice
<1>2. /\ rows' = [rows EXCEPT ![i] = WriteOffRow(rows[i], rows[i])]
      /\ books' = [books EXCEPT ![i] = WriteOffPost(books[i], rows[i])]
      /\ credited' = [credited EXCEPT ![i] = credited[i]]
      /\ outbox' = [outbox EXCEPT ![i] = outbox[i]]
      /\ UNCHANGED onAccount
  BY LedgerInvAt DEF WriteOffInvoice
<1>3. outbox[i] \in OutboxStates
  BY LedgerInvAt
<1>4. QED
  BY <1>1, <1>2, <1>3, OneInvoiceStep

(* ... voiding it, ...                                                      *)
LEMMA VoidKeeps ==
  ASSUME LedgerInv, NEW i \in Invoices, VoidInvoice(i)
  PROVE  LedgerInv'
<1>1. Good(VoidRow(rows[i]), VoidPost(books[i], rows[i]), credited[i], outbox[i])
  BY LedgerInvAt, VoidGood DEF VoidInvoice
<1>2. /\ rows' = [rows EXCEPT ![i] = VoidRow(rows[i])]
      /\ books' = [books EXCEPT ![i] = VoidPost(books[i], rows[i])]
      /\ credited' = [credited EXCEPT ![i] = credited[i]]
      /\ outbox' = [outbox EXCEPT ![i] = outbox[i]]
      /\ UNCHANGED onAccount
  BY LedgerInvAt DEF VoidInvoice
<1>3. outbox[i] \in OutboxStates
  BY LedgerInvAt
<1>4. QED
  BY <1>1, <1>2, <1>3, OneInvoiceStep

(* ... and marking it delivered.                                            *)
LEMMA DeliveredKeeps ==
  ASSUME LedgerInv, NEW i \in Invoices, MarkDelivered(i)
  PROVE  LedgerInv'
<1>1. Good(SentRow(rows[i]), books[i], credited[i], "DELIVERED")
  BY LedgerInvAt, SentGood DEF MarkDelivered
<1>2. /\ rows' = [rows EXCEPT ![i] = SentRow(rows[i])]
      /\ books' = [books EXCEPT ![i] = books[i]]
      /\ credited' = [credited EXCEPT ![i] = credited[i]]
      /\ outbox' = [outbox EXCEPT ![i] = "DELIVERED"]
      /\ UNCHANGED onAccount
  BY LedgerInvAt DEF MarkDelivered
<1>3. "DELIVERED" \in OutboxStates
  BY LedgerInvAt DEF OutboxStates
<1>4. QED
  BY <1>1, <1>2, <1>3, OneInvoiceStep

(* The one step that touches several invoices.                              *)
LEMMA PaymentKeeps ==
  ASSUME LedgerInv, NEW alloc \in Allocations, NEW rest \in Nat,
         CreatePayment(alloc, rest)
  PROVE  LedgerInv'
<1>1. PICK D \in SUBSET Invoices : alloc \in [D -> 1 .. MaxAmount]
  BY DEF Allocations
<1>2. ASSUME NEW i \in Invoices
      PROVE  Good(rows'[i], books'[i], credited'[i], outbox'[i])
  <2>1. CASE i \in D
    <3>1. alloc[i] \in Nat /\ CanPay(rows[i], alloc[i])
      BY <1>1, <2>1, LedgerAssumption DEF CreatePayment
    <3>2. Good(PayRow(rows[i], alloc[i]), PayPost(books[i], alloc[i]), credited[i],
               outbox[i])
      BY <3>1, LedgerInvAt, PayGood
    <3>3. QED
      BY <1>1, <2>1, <3>2 DEF CreatePayment
  <2>2. CASE i \notin D
    BY <1>1, <2>2, LedgerInvAt DEF CreatePayment
  <2>3. QED
    BY <2>1, <2>2
<1>3. TypeOK'
  <2>1. \A i \in Invoices : rows'[i] \in Invoice /\ books'[i] \in Book
    BY <1>2 DEF Good
  <2>2. rows' \in [Invoices -> Invoice] /\ books' \in [Invoices -> Book]
    BY <2>1 DEF CreatePayment
  <2>3. QED
    BY <2>2 DEF LedgerInv, TypeOK, CreatePayment
<1>4. QED
  BY <1>2, <1>3 DEF LedgerInv

(* The invariant is inductive.                                              *)
LEMMA NextKeeps == LedgerInv /\ [Next]_vars => LedgerInv'
<1> SUFFICES ASSUME LedgerInv, [Next]_vars PROVE LedgerInv'
  OBVIOUS
<1>1. ASSUME NEW i \in Invoices, ChangeInvoice(i)
      PROVE  LedgerInv'
  <2>1. ASSUME NEW u \in Users, NEW s \in Subtotals, NEW t \in Taxes,
               CreateInvoice(i, u, s, t)
        PROVE  LedgerInv'
    BY <2>1, CreateKeeps, LedgerAssumption
  <2>2. ASSUME NEW s \in Subtotals, NEW t \in Taxes, UpdateInvoice(i, s, t)
        PROVE  LedgerInv'
    BY <2>2, UpdateKeeps, LedgerAssumption
  <2>3. ASSUME NEW u \in Users, RejectInvoice(i, u)
        PROVE  LedgerInv'
    BY <2>3, RejectKeeps
  <2>4. ASSUME NEW u \in Users, ApproveInvoice(i, u)
        PROVE  LedgerInv'
    BY <2>4, ApproveKeeps
  <2>5. ASSUME NEW u \in Users, NEW a \in 1 .. MaxAmount, NEW t \in BOOLEAN,
               CreateCreditMemo(i, u, a, t)
        PROVE  LedgerInv'
    <3>1. a \in Nat
      BY LedgerAssumption
    <3>2. QED
      BY <3>1, <2>5, CreditKeeps
  <2>6. CASE WriteOffInvoice(i)
    BY <2>6, WriteOffKeeps
  <2>7. CASE VoidInvoice(i)
    BY <2>7, VoidKeeps
  <2>8. CASE MarkDelivered(i)
    BY <2>8, DeliveredKeeps
  <2>9. QED
    BY <1>1, <2>1, <2>2, <2>3, <2>4, <2>5, <2>6, <2>7, <2>8 DEF ChangeInvoice
<1>2. ASSUME NEW alloc \in Allocations, NEW rest \in 0 .. MaxAmount,
             CreatePayment(alloc, rest)
      PROVE  LedgerInv'
  <2>1. rest \in Nat
    BY LedgerAssumption
  <2>2. QED
    BY <2>1, <1>2, PaymentKeeps
<1>3. CASE UNCHANGED vars
  BY <1>3 DEF vars, LedgerInv, TypeOK
<1>4. QED
  BY <1>1, <1>2, <1>3 DEF Next

(* Every behaviour of the ledger keeps the inductive invariant.             *)
THEOREM LedgerInvariance == Spec => []LedgerInv
<1>1. Init => LedgerInv
  BY InitLedgerInv
<1>2. LedgerInv /\ [Next]_vars => LedgerInv'
  BY NextKeeps
<1>3. QED
  BY <1>1, <1>2, PTL DEF Spec

(* The tables hold values of their column types: no amount goes below zero. *)
THEOREM TypeCorrect == Spec => []TypeOK
<1>1. LedgerInv => TypeOK
  BY DEF LedgerInv
<1>2. QED
  BY <1>1, LedgerInvariance, PTL

-----------------------------------------------------------------------------
(* What the invariant says of the money of one invoice, in the words of the *)
(* properties.                                                              *)
LEMMA UnapprovedEmpty ==
  ASSUME LedgerInv, NEW i \in Invoices, ~Approved(i)
  PROVE  /\ GoodUnposted(rows[i], books[i], credited[i], outbox[i])
         /\ books[i].cash = 0 /\ books[i].ar = 0 /\ books[i].credit = 0
         /\ books[i].revenue = 0 /\ books[i].tax = 0 /\ books[i].badDebt = 0
         /\ credited[i].subtotal = 0 /\ credited[i].tax = 0
<1>1. GoodUnposted(rows[i], books[i], credited[i], outbox[i])
  BY LedgerInvAt DEF Approved, Good
<1>2. QED
  BY <1>1 DEF GoodUnposted, EmptyBook, NoReversal

(* An approved invoice is one with postings.                                *)
LEMMA ApprovedPosted ==
  ASSUME LedgerInv, NEW i \in Invoices, Approved(i)
  PROVE  /\ GoodPosted(rows[i], books[i], credited[i], outbox[i])
         /\ GoodMoney(rows[i], books[i], credited[i])
BY LedgerInvAt DEF Approved, Good, GoodPosted

(* The two parts that credit memos reversed are natural numbers.            *)
LEMMA ReversalColumns ==
  ASSUME NEW c \in Reversal
  PROVE  c.subtotal \in Nat /\ c.tax \in Nat
BY DEF Reversal

(* AR of every invoice is its open balance, except for what a void after a  *)
(* credit memo leaves.                                                      *)
THEOREM LedgerReconciled == Spec => []Reconciled
<1>1. ASSUME LedgerInv, NEW i \in Invoices
      PROVE  books[i].ar = IF rows[i].status = "VOID" THEN -Credits(i)
                           ELSE OpenBalance(i)
  <2>1. /\ rows[i] \in Invoice
        /\ books[i] \in Book
        /\ credited[i].subtotal \in Nat /\ credited[i].tax \in Nat
    BY <1>1, LedgerInvAt, ReversalColumns
  <2>2. CASE Approved(i)
    BY <1>1, <2>1, <2>2, ApprovedPosted, RowColumns, BookColumns, StatusSets
       DEF GoodPosted, GoodMoney, Credits, OpenBalance
  <2>3. CASE ~Approved(i)
    BY <1>1, <2>1, <2>3, UnapprovedEmpty, StatusSets
       DEF GoodUnposted, Credits, OpenBalance
  <2>4. QED
    BY <2>2, <2>3
<1>2. LedgerInv => Reconciled
  BY <1>1 DEF Reconciled
<1>3. QED
  BY <1>2, LedgerInvariance, PTL

(* Revenue and tax stand at the invoice net of its credit memos.            *)
THEOREM LedgerEarnedRevenue == Spec => []EarnedRevenue
<1>1. LedgerInv => EarnedRevenue
  <2> SUFFICES ASSUME LedgerInv, NEW i \in Invoices
               PROVE  LET r == rows[i]
                          kept == [subtotal |-> IF r.status = "VOID" \/ ~Approved(i)
                                                THEN 0 ELSE r.subtotal,
                                   tax |-> IF r.status = "VOID" \/ ~Approved(i)
                                           THEN 0 ELSE r.tax]
                      IN  /\ books[i].revenue = credited[i].subtotal - kept.subtotal
                          /\ books[i].tax = credited[i].tax - kept.tax
    BY DEF EarnedRevenue
  <2>1. credited[i].subtotal \in Nat /\ credited[i].tax \in Nat
    BY LedgerInvAt, ReversalColumns
  <2>2. CASE Approved(i)
    BY <2>1, <2>2, ApprovedPosted DEF GoodMoney
  <2>3. CASE ~Approved(i)
    BY <2>1, <2>3, UnapprovedEmpty
  <2>4. QED
    BY <2>2, <2>3
<1>2. QED
  BY <1>1, LedgerInvariance, PTL

(* Credit memos stay within the invoice and within its receipts.            *)
THEOREM LedgerCredits == Spec => []CreditsWithinInvoice
<1>1. LedgerInv => CreditsWithinInvoice
  <2> SUFFICES ASSUME LedgerInv, NEW i \in Invoices
               PROVE  /\ credited[i].subtotal <= rows[i].subtotal
                      /\ credited[i].tax <= rows[i].tax
                      /\ books[i].credit <= 0
                      /\ -books[i].credit <= books[i].cash
    BY DEF CreditsWithinInvoice
  <2>1. /\ rows[i].subtotal \in Nat /\ rows[i].tax \in Nat
        /\ books[i].credit \in Int /\ books[i].cash \in Int
    BY LedgerInvAt, RowColumns, BookColumns
  <2>2. CASE Approved(i)
    BY <2>1, <2>2, ApprovedPosted DEF GoodMoney
  <2>3. CASE ~Approved(i)
    BY <2>1, <2>3, UnapprovedEmpty
  <2>4. QED
    BY <2>2, <2>3
<1>2. QED
  BY <1>1, LedgerInvariance, PTL

(* The status says what the money says.                                     *)
THEOREM LedgerStatus == Spec => []StatusReflectsBalance
<1>1. LedgerInv => StatusReflectsBalance
  <2> SUFFICES ASSUME LedgerInv, NEW i \in Invoices
               PROVE  LET r == rows[i]
                          b == books[i]
                      IN  /\ r.status \in {"APPROVED", "SENT"} =>
                               r.balance > 0 /\ b.cash = 0
                          /\ r.status = "PARTIALLY_PAID" => r.balance > 0 /\ b.cash > 0
                          /\ r.status \in Settled => r.balance = 0
                          /\ r.status = "VOID" => b.cash = 0 /\ b.credit = 0
                          /\ b.badDebt # 0 => r.status = "WRITTEN_OFF"
    BY DEF StatusReflectsBalance
  <2>1. /\ books[i].credit \in Int /\ books[i].cash \in Int
    BY LedgerInvAt, BookColumns
  <2>2. CASE Approved(i)
    BY <2>1, <2>2, ApprovedPosted, StatusSets DEF GoodMoney
  <2>3. CASE ~Approved(i)
    BY <2>1, <2>3, UnapprovedEmpty, StatusSets DEF GoodUnposted
  <2>4. QED
    BY <2>2, <2>3
<1>2. QED
  BY <1>1, LedgerInvariance, PTL

(* Nothing is posted before someone else than the creator approved.         *)
THEOREM LedgerApproval == Spec => []PostedOnceApproved
<1>1. LedgerInv => PostedOnceApproved
  <2> SUFFICES ASSUME LedgerInv, NEW i \in Invoices
               PROVE  /\ Approved(i) => rows[i].approved_by # rows[i].created_by
                      /\ rows[i].status \in {"ABSENT", "DRAFT"} => ~Approved(i)
                      /\ rows[i].status \in Creditable \cup {"WRITTEN_OFF"} => Approved(i)
                      /\ ~Approved(i) => /\ books[i] = EmptyBook
                                        /\ credited[i] = NoReversal
                                        /\ outbox[i] = "NONE"
    BY DEF PostedOnceApproved
  <2>1. CASE Approved(i)
    BY <2>1, ApprovedPosted, StatusSets DEF GoodPosted
  <2>2. CASE ~Approved(i)
    BY <2>2, UnapprovedEmpty, StatusSets DEF GoodUnposted
  <2>3. QED
    BY <2>1, <2>2
<1>2. QED
  BY <1>1, LedgerInvariance, PTL

(* The delivery event exists for approved invoices, and they show it.       *)
THEOREM LedgerDelivery == Spec => []DeliveryFollowsApproval
<1>1. LedgerInv => DeliveryFollowsApproval
  <2> SUFFICES ASSUME LedgerInv, NEW i \in Invoices
               PROVE  /\ outbox[i] = "NONE" <=> ~Approved(i)
                      /\ rows[i].sent_at <=> outbox[i] = "DELIVERED"
                      /\ rows[i].status = "APPROVED" => outbox[i] = "QUEUED"
                      /\ rows[i].status = "SENT" => outbox[i] = "DELIVERED"
    BY DEF DeliveryFollowsApproval
  <2>1. CASE Approved(i)
    BY <2>1, ApprovedPosted DEF GoodPosted
  <2>2. CASE ~Approved(i)
    BY <2>2, UnapprovedEmpty DEF GoodUnposted
  <2>3. QED
    BY <2>1, <2>2
<1>2. QED
  BY <1>1, LedgerInvariance, PTL

(* Both together: what waits for the approval, and what follows from it.    *)
THEOREM LedgerGates == Spec => []ApprovalGates
<1>1. PostedOnceApproved /\ DeliveryFollowsApproval => ApprovalGates
  BY DEF ApprovalGates
<1>2. QED
  BY <1>1, LedgerApproval, LedgerDelivery, PTL

(* With account 4100 in the chart, the total of a posted invoice is what is *)
(* open, was received, was given up or was credited.                        *)
THEOREM LedgerReceipts ==
  ASSUME "BAD_DEBT" \in Chart
  PROVE  Spec => []ReceiptsAccounted
<1>1. LedgerInv => ReceiptsAccounted
  <2> SUFFICES ASSUME LedgerInv, NEW i \in Invoices, Approved(i),
                      rows[i].status # "VOID"
               PROVE  rows[i].balance + books[i].cash + books[i].badDebt + Credits(i)
                        = Total(rows[i]) - books[i].credit
    BY DEF ReceiptsAccounted
  <2>1. Covered(rows[i], books[i], credited[i])
    BY ApprovedPosted DEF GoodMoney
  <2>2. /\ rows[i] \in Invoice
        /\ books[i] \in Book
        /\ credited[i].subtotal \in Nat /\ credited[i].tax \in Nat
    BY LedgerInvAt, ReversalColumns
  <2>3. QED
    BY <2>1, <2>2, RowColumns, BookColumns DEF Covered, Total, Credits
<1>2. QED
  BY <1>1, LedgerInvariance, PTL

(* With account 4100 in the chart, debits equal credits on every invoice.   *)
THEOREM LedgerBalance ==
  ASSUME "BAD_DEBT" \in Chart
  PROVE  Spec => []BooksBalance
<1>1. LedgerInv => BooksBalance
  <2> SUFFICES ASSUME LedgerInv, NEW i \in Invoices
               PROVE  LET b == books[i]
                      IN  b.cash + b.ar + b.credit + b.revenue + b.tax + b.badDebt = 0
    BY DEF BooksBalance
  <2>1. /\ rows[i] \in Invoice
        /\ books[i] \in Book
        /\ credited[i].subtotal \in Nat /\ credited[i].tax \in Nat
    BY LedgerInvAt, ReversalColumns
  <2>2. CASE Approved(i) /\ rows[i].status # "VOID"
    <3>1. GoodMoney(rows[i], books[i], credited[i])
          /\ Covered(rows[i], books[i], credited[i])
      BY <2>2, ApprovedPosted DEF GoodMoney
    <3>2. QED
      BY <2>1, <2>2, <3>1, RowColumns, BookColumns DEF GoodMoney, Covered
  <2>3. CASE Approved(i) /\ rows[i].status = "VOID"
    <3>1. GoodMoney(rows[i], books[i], credited[i])
      BY <2>3, ApprovedPosted
    <3>2. /\ books[i].cash = 0 /\ books[i].credit = 0 /\ books[i].badDebt = 0
          /\ books[i].revenue = credited[i].subtotal
          /\ books[i].tax = credited[i].tax
          /\ books[i].ar = 0 - (credited[i].subtotal + credited[i].tax)
      BY <2>1, <2>3, <3>1, BookColumns DEF GoodMoney
    <3>3. QED
      BY <2>1, <3>2
  <2>4. CASE ~Approved(i)
    BY <2>4, UnapprovedEmpty
  <2>5. QED
    BY <2>2, <2>3, <2>4
<1>2. QED
  BY <1>1, LedgerInvariance, PTL
-----------------------------------------------------------------------------
(* What no step ever does to an invoice: move its status against the        *)
(* lifecycle, or touch what the approval has fixed.  A lemma per handler    *)
(* says so of the values that it writes; the theorems lift that to the      *)
(* tables.                                                                  *)

(* The row r may become the row q.                                          *)
Moves(r, q) == q.status # r.status => <<r.status, q.status>> \in Lifecycle

(* From r, b and c on to q, d and e, the approved amounts and people stay   *)
(* and the books only accumulate.                                           *)
Frozen(r, b, c, q, d, e) ==
  r.approved_by # NoUser =>
    /\ q.subtotal = r.subtotal
    /\ q.tax = r.tax
    /\ q.created_by = r.created_by
    /\ q.approved_by = r.approved_by
    /\ d.cash >= b.cash
    /\ d.badDebt >= b.badDebt
    /\ e.subtotal >= c.subtotal
    /\ e.tax >= c.tax

Onward(r, b, c, q, d, e) == Moves(r, q) /\ Frozen(r, b, c, q, d, e)

(* The moves of the lifecycle, one by one.                                  *)
LEMMA LifecycleMoves ==
  /\ <<"ABSENT", "DRAFT">> \in Lifecycle
  /\ <<"DRAFT", "APPROVED">> \in Lifecycle
  /\ <<"APPROVED", "SENT">> \in Lifecycle
  /\ \A s \in Payable : /\ <<s, "PARTIALLY_PAID">> \in Lifecycle
                        /\ <<s, "PAID">> \in Lifecycle
                        /\ <<s, "WRITTEN_OFF">> \in Lifecycle
  /\ \A s \in Voidable : <<s, "VOID">> \in Lifecycle
BY DEF Lifecycle

(* An invoice that stays as it is.                                          *)
LEMMA StayOnward ==
  ASSUME NEW r \in Invoice, NEW b \in Book, NEW c \in Reversal
  PROVE  Onward(r, b, c, r, b, c)
BY DEF Onward, Moves, Frozen, Book, Reversal

(* An invoice that is not inserted yet becomes a draft.                     *)
LEMMA DraftOnward ==
  ASSUME NEW r, NEW b, NEW c, NEW o, Good(r, b, c, o), r.status = "ABSENT",
         NEW u, NEW s, NEW t, NEW d, NEW e
  PROVE  Onward(r, b, c, DraftRow(u, s, t), d, e)
<1>1. r.approved_by = NoUser
  BY StatusSets DEF Good, GoodPosted
<1>2. DraftRow(u, s, t).status = "DRAFT"
  BY DEF DraftRow
<1>3. QED
  BY <1>1, <1>2, LifecycleMoves DEF Onward, Moves, Frozen

(* Editing and rejecting keep the status, and a draft is not approved.      *)
LEMMA EditOnward ==
  ASSUME NEW r \in Invoice, NEW b, NEW c, NEW o, Good(r, b, c, o),
         r.status = "DRAFT", NEW s, NEW t, NEW d, NEW e
  PROVE  /\ Onward(r, b, c, EditRow(r, s, t), d, e)
         /\ Onward(r, b, c, RejectRow(r), d, e)
<1>1. r.approved_by = NoUser
  BY DraftUnposted
<1>2. EditRow(r, s, t).status = r.status /\ RejectRow(r).status = r.status
  BY DEF EditRow, RejectRow, Invoice
<1>3. QED
  BY <1>1, <1>2 DEF Onward, Moves, Frozen

(* The approval moves a draft to APPROVED.                                  *)
LEMMA ApproveOnward ==
  ASSUME NEW r \in Invoice, NEW b, NEW c, NEW o, Good(r, b, c, o),
         NEW u, CanApprove(r, u), NEW d, NEW e
  PROVE  Onward(r, b, c, ApproveRow(r, u), d, e)
<1>1. r.status = "DRAFT" /\ r.approved_by = NoUser
  BY DraftUnposted DEF CanApprove, CanDecide
<1>2. ApproveRow(r, u).status = "APPROVED"
  BY DEF ApproveRow, Invoice
<1>3. QED
  BY <1>1, <1>2, LifecycleMoves DEF Onward, Moves, Frozen

(* A receipt moves a payable invoice and adds to its cash.                  *)
LEMMA PayOnward ==
  ASSUME NEW r \in Invoice, NEW b \in Book, NEW c \in Reversal,
         NEW a \in Nat, CanPay(r, a)
  PROVE  Onward(r, b, c, PayRow(r, a), PayPost(b, a), c)
<1> DEFINE q == PayRow(r, a)
           d == PayPost(b, a)
<1>1. /\ r.status \in Payable
      /\ q.status \in {"PAID", "PARTIALLY_PAID"}
      /\ q.subtotal = r.subtotal /\ q.tax = r.tax
      /\ q.created_by = r.created_by /\ q.approved_by = r.approved_by
  BY DEF CanPay, PayRow, Invoice
<1>2. d.cash = b.cash + a /\ d.badDebt = b.badDebt
  BY DEF PayPost, Book
<1> HIDE DEF q, d
<1>3. Moves(r, q)
  BY <1>1, LifecycleMoves DEF Moves
<1>4. d.cash >= b.cash /\ d.badDebt >= b.badDebt
  BY <1>2, BookColumns
<1>5. c.subtotal >= c.subtotal /\ c.tax >= c.tax
  BY ReversalColumns
<1>6. Onward(r, b, c, q, d, c)
  BY <1>1, <1>3, <1>4, <1>5 DEF Onward, Frozen
<1>7. QED
  BY <1>6 DEF q, d

(* A write-off closes a payable invoice and adds to its bad debt.           *)
LEMMA WriteOffOnward ==
  ASSUME NEW r \in Invoice, NEW b \in Book, NEW c \in Reversal, CanWriteOff(r)
  PROVE  Onward(r, b, c, WriteOffRow(r, r), WriteOffPost(b, r), c)
<1> DEFINE q == WriteOffRow(r, r)
           d == WriteOffPost(b, r)
<1>1. /\ r.status \in Payable
      /\ q.status = "WRITTEN_OFF"
      /\ q.subtotal = r.subtotal /\ q.tax = r.tax
      /\ q.created_by = r.created_by /\ q.approved_by = r.approved_by
  BY DEF CanWriteOff, WriteOffRow, Invoice
<1>2. /\ d.cash = b.cash
      /\ d.badDebt = b.badDebt + (IF "BAD_DEBT" \in Chart THEN r.balance ELSE 0)
  BY DEF WriteOffPost, Book
<1> HIDE DEF q, d
<1>3. Moves(r, q)
  BY <1>1, LifecycleMoves DEF Moves
<1>4. d.cash >= b.cash /\ d.badDebt >= b.badDebt
  BY <1>2, BookColumns, RowColumns
<1>5. c.subtotal >= c.subtotal /\ c.tax >= c.tax
  BY ReversalColumns
<1>6. Onward(r, b, c, q, d, c)
  BY <1>1, <1>3, <1>4, <1>5 DEF Onward, Frozen
<1>7. QED
  BY <1>6 DEF q, d

(* A void closes the invoice and leaves cash and bad debt alone.            *)
LEMMA VoidOnward ==
  ASSUME NEW r \in Invoice, NEW b \in Book, NEW c \in Reversal, CanVoid(r)
  PROVE  Onward(r, b, c, VoidRow(r), VoidPost(b, r), c)
<1> DEFINE q == VoidRow(r)
           d == VoidPost(b, r)
<1>1. /\ r.status \in Voidable
      /\ q.status = "VOID"
      /\ q.subtotal = r.subtotal /\ q.tax = r.tax
      /\ q.created_by = r.created_by /\ q.approved_by = r.approved_by
  BY DEF CanVoid, VoidRow, Invoice
<1>2. d.cash = b.cash /\ d.badDebt = b.badDebt
  BY DEF VoidPost, Book
<1> HIDE DEF q, d
<1>3. Moves(r, q)
  BY <1>1, LifecycleMoves DEF Moves
<1>4. d.cash >= b.cash /\ d.badDebt >= b.badDebt
  BY <1>2, BookColumns
<1>5. c.subtotal >= c.subtotal /\ c.tax >= c.tax
  BY ReversalColumns
<1>6. Onward(r, b, c, q, d, c)
  BY <1>1, <1>3, <1>4, <1>5 DEF Onward, Frozen
<1>7. QED
  BY <1>6 DEF q, d

(* Delivery moves at most APPROVED to SENT.                                 *)
LEMMA SentOnward ==
  ASSUME NEW r \in Invoice, NEW b \in Book, NEW c \in Reversal
  PROVE  Onward(r, b, c, SentRow(r), b, c)
<1> DEFINE q == SentRow(r)
<1>1. /\ q.status = r.status \/ (r.status = "APPROVED" /\ q.status = "SENT")
      /\ q.subtotal = r.subtotal /\ q.tax = r.tax
      /\ q.created_by = r.created_by /\ q.approved_by = r.approved_by
  BY DEF SentRow, Invoice
<1> HIDE DEF q
<1>2. Moves(r, q)
  BY <1>1, LifecycleMoves DEF Moves
<1>3. b.cash >= b.cash /\ b.badDebt >= b.badDebt
  BY BookColumns
<1>4. c.subtotal >= c.subtotal /\ c.tax >= c.tax
  BY ReversalColumns
<1>5. Onward(r, b, c, q, b, c)
  BY <1>1, <1>2, <1>3, <1>4 DEF Onward, Frozen
<1>6. QED
  BY <1>5 DEF q

(* A credit memo moves at most a payable invoice to PAID and adds to what   *)
(* was credited.                                                            *)
LEMMA CreditOnward ==
  ASSUME NEW r \in Invoice, NEW b \in Book, NEW c \in Reversal,
         NEW u, NEW a \in Nat, NEW t, CanCredit(r, c, u, a, t)
  PROVE  Onward(r, b, c, CreditRow(r, a), CreditPost(b, r, CreditSplit(r, c, a, t)),
                AddReversal(c, CreditSplit(r, c, a, t)))
<1> DEFINE split == CreditSplit(r, c, a, t)
           q == CreditRow(r, a)
           d == CreditPost(b, r, split)
           e == AddReversal(c, split)
<1>1. r.status \in Creditable
  BY DEF CanCredit
<1>2. split.subtotal \in Nat /\ split.tax \in Nat
  BY SplitAddsUp
<1>3. /\ q.status \in {"PAID", r.status}
      /\ q.subtotal = r.subtotal /\ q.tax = r.tax
      /\ q.created_by = r.created_by /\ q.approved_by = r.approved_by
  BY DEF CreditRow, Invoice
<1> HIDE DEF q, split
<1>4. d.cash = b.cash /\ d.badDebt = b.badDebt
  BY DEF CreditPost, Book
<1>5. e.subtotal = c.subtotal + split.subtotal /\ e.tax = c.tax + split.tax
  BY DEF AddReversal
<1> HIDE DEF d, e
<1>6. Moves(r, q)
  BY <1>1, <1>3, LifecycleMoves, StatusSets DEF Moves
<1>7. d.cash >= b.cash /\ d.badDebt >= b.badDebt
  BY <1>4, BookColumns
<1>8. e.subtotal >= c.subtotal /\ e.tax >= c.tax
  BY <1>2, <1>5, ReversalColumns
<1>9. Onward(r, b, c, q, d, e)
  BY <1>3, <1>6, <1>7, <1>8 DEF Onward, Frozen
<1>10. QED
  BY <1>9 DEF q, d, e, split

-----------------------------------------------------------------------------
(* The step of the tables for one invoice.                                  *)
StepsOnward(i) ==
  Onward(rows[i], books[i], credited[i], rows'[i], books'[i], credited'[i])

(* A step that rewrites one invoice onward moves every invoice onward.      *)
LEMMA OneInvoiceOnward ==
  ASSUME LedgerInv, NEW i \in Invoices, NEW r, NEW b, NEW c,
         Onward(rows[i], books[i], credited[i], r, b, c),
         rows' = [rows EXCEPT ![i] = r],
         books' = [books EXCEPT ![i] = b],
         credited' = [credited EXCEPT ![i] = c],
         NEW j \in Invoices
  PROVE  StepsOnward(j)
<1>1. CASE j = i
  BY <1>1 DEF LedgerInv, TypeOK, StepsOnward
<1>2. CASE j # i
  <2>1. rows'[j] = rows[j] /\ books'[j] = books[j] /\ credited'[j] = credited[j]
    BY <1>2 DEF LedgerInv, TypeOK
  <2>2. QED
    BY <2>1, LedgerInvAt, StayOnward DEF StepsOnward
<1>3. QED
  BY <1>1, <1>2

(* Every action on one invoice moves all invoices onward.                   *)
LEMMA ChangeOnward ==
  ASSUME LedgerInv, NEW i \in Invoices, ChangeInvoice(i), NEW j \in Invoices
  PROVE  StepsOnward(j)
<1>1. ASSUME NEW u \in Users, NEW s \in Subtotals, NEW t \in Taxes,
             CreateInvoice(i, u, s, t)
      PROVE  StepsOnward(j)
  <2>1. Onward(rows[i], books[i], credited[i], DraftRow(u, s, t), books[i], credited[i])
    BY <1>1, LedgerInvAt, DraftOnward DEF CreateInvoice
  <2>2. /\ rows' = [rows EXCEPT ![i] = DraftRow(u, s, t)]
        /\ books' = [books EXCEPT ![i] = books[i]]
        /\ credited' = [credited EXCEPT ![i] = credited[i]]
    BY <1>1, LedgerInvAt DEF CreateInvoice
  <2>3. QED
    BY <2>1, <2>2, OneInvoiceOnward
<1>2. ASSUME NEW s \in Subtotals, NEW t \in Taxes, UpdateInvoice(i, s, t)
      PROVE  StepsOnward(j)
  <2>1. Onward(rows[i], books[i], credited[i], EditRow(rows[i], s, t), books[i], credited[i])
    BY <1>2, LedgerInvAt, EditOnward DEF UpdateInvoice, CanEdit
  <2>2. /\ rows' = [rows EXCEPT ![i] = EditRow(rows[i], s, t)]
        /\ books' = [books EXCEPT ![i] = books[i]]
        /\ credited' = [credited EXCEPT ![i] = credited[i]]
    BY <1>2, LedgerInvAt DEF UpdateInvoice
  <2>3. QED
    BY <2>1, <2>2, OneInvoiceOnward
<1>3. ASSUME NEW u \in Users, RejectInvoice(i, u)
      PROVE  StepsOnward(j)
  <2>1. Onward(rows[i], books[i], credited[i], RejectRow(rows[i]), books[i], credited[i])
    BY <1>3, LedgerInvAt, EditOnward DEF RejectInvoice, CanReject, CanDecide
  <2>2. /\ rows' = [rows EXCEPT ![i] = RejectRow(rows[i])]
        /\ books' = [books EXCEPT ![i] = books[i]]
        /\ credited' = [credited EXCEPT ![i] = credited[i]]
    BY <1>3, LedgerInvAt DEF RejectInvoice
  <2>3. QED
    BY <2>1, <2>2, OneInvoiceOnward
<1>4. ASSUME NEW u \in Users, ApproveInvoice(i, u)
      PROVE  StepsOnward(j)
  <2>1. Onward(rows[i], books[i], credited[i], ApproveRow(rows[i], u),
               ApprovePost(books[i], rows[i]), credited[i])
    BY <1>4, LedgerInvAt, ApproveOnward DEF ApproveInvoice
  <2>2. QED
    BY <1>4, <2>1, LedgerInvAt, OneInvoiceOnward DEF ApproveInvoice
<1>5. ASSUME NEW u \in Users, NEW a \in 1 .. MaxAmount, NEW t \in BOOLEAN,
             CreateCreditMemo(i, u, a, t)
      PROVE  StepsOnward(j)
  <2> DEFINE split == CreditSplit(rows[i], credited[i], a, t)
  <2>1. a \in Nat /\ CanCredit(rows[i], credited[i], u, a, t)
    BY <1>5, LedgerAssumption DEF CreateCreditMemo
  <2>2. Onward(rows[i], books[i], credited[i], CreditRow(rows[i], a),
               CreditPost(books[i], rows[i], split), AddReversal(credited[i], split))
    BY <2>1, LedgerInvAt, CreditOnward
  <2>3. /\ rows' = [rows EXCEPT ![i] = CreditRow(rows[i], a)]
        /\ books' = [books EXCEPT ![i] = CreditPost(books[i], rows[i], split)]
        /\ credited' = [credited EXCEPT ![i] = AddReversal(credited[i], split)]
    BY <1>5 DEF CreateCreditMemo
  <2>4. QED
    BY <2>2, <2>3, OneInvoiceOnward
<1>6. ASSUME WriteOffInvoice(i)
      PROVE  StepsOnward(j)
  <2>1. Onward(rows[i], books[i], credited[i], WriteOffRow(rows[i], rows[i]),
               WriteOffPost(books[i], rows[i]), credited[i])
    BY <1>6, LedgerInvAt, WriteOffOnward DEF WriteOffInvoice
  <2>2. QED
    BY <1>6, <2>1, LedgerInvAt, OneInvoiceOnward DEF WriteOffInvoice
<1>7. ASSUME VoidInvoice(i)
      PROVE  StepsOnward(j)
  <2>1. Onward(rows[i], books[i], credited[i], VoidRow(rows[i]),
               VoidPost(books[i], rows[i]), credited[i])
    BY <1>7, LedgerInvAt, VoidOnward DEF VoidInvoice
  <2>2. QED
    BY <1>7, <2>1, LedgerInvAt, OneInvoiceOnward DEF VoidInvoice
<1>8. ASSUME MarkDelivered(i)
      PROVE  StepsOnward(j)
  <2>1. Onward(rows[i], books[i], credited[i], SentRow(rows[i]), books[i], credited[i])
    BY LedgerInvAt, SentOnward
  <2>2. /\ rows' = [rows EXCEPT ![i] = SentRow(rows[i])]
        /\ books' = [books EXCEPT ![i] = books[i]]
        /\ credited' = [credited EXCEPT ![i] = credited[i]]
    BY <1>8, LedgerInvAt DEF MarkDelivered
  <2>3. QED
    BY <2>1, <2>2, OneInvoiceOnward
<1>9. QED
  BY <1>1, <1>2, <1>3, <1>4, <1>5, <1>6, <1>7, <1>8 DEF ChangeInvoice

(* A receipt moves every invoice it is allocated to onward.                 *)
LEMMA PaymentOnward ==
  ASSUME LedgerInv, NEW alloc \in Allocations, NEW rest, CreatePayment(alloc, rest),
         NEW j \in Invoices
  PROVE  StepsOnward(j)
<1>1. PICK D \in SUBSET Invoices : alloc \in [D -> 1 .. MaxAmount]
  BY DEF Allocations
<1>2. credited'[j] = credited[j]
  BY DEF CreatePayment
<1>3. CASE j \in D
  <2>1. alloc[j] \in Nat /\ CanPay(rows[j], alloc[j])
    BY <1>1, <1>3, LedgerAssumption DEF CreatePayment
  <2>2. rows'[j] = PayRow(rows[j], alloc[j]) /\ books'[j] = PayPost(books[j], alloc[j])
    BY <1>1, <1>3 DEF CreatePayment
  <2>3. QED
    BY <1>2, <2>1, <2>2, LedgerInvAt, PayOnward DEF StepsOnward
<1>4. CASE j \notin D
  <2>1. rows'[j] = rows[j] /\ books'[j] = books[j]
    BY <1>1, <1>4 DEF CreatePayment
  <2>2. QED
    BY <1>2, <2>1, LedgerInvAt, StayOnward DEF StepsOnward
<1>5. QED
  BY <1>3, <1>4

(* Every step moves every invoice onward, or leaves it as it is.            *)
LEMMA NextOnward ==
  ASSUME LedgerInv, [Next]_vars, NEW j \in Invoices
  PROVE  StepsOnward(j)
<1>1. CASE Next
  BY <1>1, ChangeOnward, PaymentOnward DEF Next
<1>2. CASE UNCHANGED vars
  BY <1>2, LedgerInvAt, StayOnward DEF vars, StepsOnward
<1>3. QED
  BY <1>1, <1>2

-----------------------------------------------------------------------------
(* The status of an invoice moves along the lifecycle only: in particular   *)
(* nothing leaves PAID, VOID or WRITTEN_OFF, and a late delivery does not   *)
(* bring a paid invoice back to SENT.                                       *)
THEOREM LedgerLifecycle == Spec => LifecycleOrder
<1>1. LedgerInv /\ [Next]_vars =>
        [\A i \in Invoices : rows'[i].status # rows[i].status =>
           <<rows[i].status, rows'[i].status>> \in Lifecycle]_vars
  BY NextOnward DEF StepsOnward, Onward, Moves
<1>2. QED
  BY <1>1, LedgerInvariance, PTL DEF Spec, LifecycleOrder

(* After the approval the amounts and the people on an invoice are fixed,   *)
(* and its receipts, write-offs and reversals never shrink.                 *)
THEOREM LedgerFrozen == Spec => PostedAmountsFrozen
<1>1. LedgerInv /\ [Next]_vars =>
        [\A i \in Invoices : Approved(i) =>
           /\ rows'[i].subtotal = rows[i].subtotal
           /\ rows'[i].tax = rows[i].tax
           /\ rows'[i].created_by = rows[i].created_by
           /\ rows'[i].approved_by = rows[i].approved_by
           /\ books'[i].cash >= books[i].cash
           /\ books'[i].badDebt >= books[i].badDebt
           /\ credited'[i].subtotal >= credited[i].subtotal
           /\ credited'[i].tax >= credited[i].tax]_vars
  BY NextOnward DEF StepsOnward, Onward, Frozen, Approved
<1>2. QED
  BY <1>1, LedgerInvariance, PTL DEF Spec, PostedAmountsFrozen

-----------------------------------------------------------------------------
(* What the row r adds to the exposure of its customer.                     *)
OwedOf(r) == IF r.status \in Settled THEN 0 ELSE r.balance

OwingOf(table) == [i \in Invoices |-> OwedOf(table[i])]

Owed(table) == SumFunctionOnSet(OwingOf(table), Invoices)

(* What a row adds is a natural number.                                     *)
LEMMA OwedNat ==
  ASSUME NEW table \in [Invoices -> Invoice], NEW i \in Invoices
  PROVE  OwingOf(table)[i] = OwedOf(table[i]) /\ OwedOf(table[i]) \in Nat
BY RowColumns DEF OwingOf, OwedOf

(* The exposure over some invoices is the sum of what each of them adds.    *)
LEMMA ExposureOwed ==
  ASSUME NEW table \in [Invoices -> Invoice], NEW O, O \subseteq Invoices
  PROVE  SumFunctionOnSet([i \in Invoices |-> table[i].balance],
                          {i \in O : table[i].status \notin Settled})
           = SumFunctionOnSet(OwingOf(table), O)
<1> DEFINE T == {i \in O : table[i].status \notin Settled}
           f == [i \in Invoices |-> table[i].balance]
           g == OwingOf(table)
<1>1. IsFiniteSet(O) /\ T \subseteq O
  BY LedgerAssumption, FS_Subset
<1>2. \A i \in T : f[i] \in Int /\ g[i] = f[i]
  BY RowColumns DEF OwingOf, OwedOf
<1>3. \A i \in O \ T : g[i] = 0
  BY DEF OwingOf, OwedOf
<1> HIDE DEF T, f, g
<1>4. SumFunctionOnSet(g, O) = SumFunctionOnSet(f, T)
  BY <1>1, <1>2, <1>3, SumPart
<1>5. QED
  BY <1>4 DEF T, f, g

(* The limit in terms of that sum, in this state and in the next one.       *)
LEMMA LimitOwed ==
  ASSUME rows \in [Invoices -> Invoice], rows' \in [Invoices -> Invoice]
  PROVE  /\ WithinCreditLimit <=> (CreditLimit > 0 => Owed(rows) <= CreditLimit)
         /\ WithinCreditLimit' <=> (CreditLimit > 0 => Owed(rows') <= CreditLimit)
         /\ \A O \in SUBSET Invoices : Exposure(O) = SumFunctionOnSet(OwingOf(rows), O)
<1>1. \A O \in SUBSET Invoices : Exposure(O) = SumFunctionOnSet(OwingOf(rows), O)
  BY ExposureOwed DEF Exposure, Balances
<1>2. Exposure(Invoices)' = SumFunctionOnSet(OwingOf(rows'), Invoices)
  BY ExposureOwed DEF Exposure, Balances
<1>3. QED
  BY <1>1, <1>2 DEF WithinCreditLimit, Owed

(* The exposure is a number.                                                *)
LEMMA OwedInt ==
  ASSUME NEW table \in [Invoices -> Invoice]
  PROVE  Owed(table) \in Int
<1>1. \A i \in Invoices : OwingOf(table)[i] \in Int
  BY OwedNat
<1>2. QED
  BY <1>1, LedgerAssumption, SumInt DEF Owed

(* A step after which no invoice owes more keeps the limit.                 *)
LEMMA NobodyOwesMore ==
  ASSUME LedgerInv, LedgerInv', WithinCreditLimit,
         \A j \in Invoices : OwedOf(rows'[j]) <= OwedOf(rows[j])
  PROVE  WithinCreditLimit'
<1>1. rows \in [Invoices -> Invoice] /\ rows' \in [Invoices -> Invoice]
  BY DEF LedgerInv, TypeOK
<1>2. \A j \in Invoices : /\ OwingOf(rows)[j] \in Int
                          /\ OwingOf(rows')[j] \in Int
                          /\ OwingOf(rows')[j] <= OwingOf(rows)[j]
  BY <1>1, OwedNat
<1>3. Owed(rows') <= Owed(rows)
  BY <1>2, LedgerAssumption, SumMonotone DEF Owed
<1>4. Owed(rows) \in Int /\ Owed(rows') \in Int
  BY <1>1, OwedInt
<1>5. CreditLimit \in Nat
  BY LedgerAssumption
<1>6. QED
  BY <1>1, <1>3, <1>4, <1>5, LimitOwed

(* What an invoice and all the others owe together.                         *)
LEMMA OneAndOthers ==
  ASSUME NEW table \in [Invoices -> Invoice], NEW i \in Invoices
  PROVE  /\ Owed(table)
              = OwedOf(table[i]) + SumFunctionOnSet(OwingOf(table), Invoices \ {i})
         /\ SumFunctionOnSet(OwingOf(table), Invoices \ {i}) \in Int
<1>1. \A j \in Invoices : OwingOf(table)[j] \in Int
  BY OwedNat
<1>2. IsFiniteSet(Invoices) /\ IsFiniteSet(Invoices \ {i})
  BY LedgerAssumption, FS_RemoveElement
<1> DEFINE R == Invoices \ {i}
           f == OwingOf(table)
<1>3. \A j \in R : f[j] \in Int
  BY <1>1
<1>4. SumFunctionOnSet(f, Invoices) = f[i] + SumFunctionOnSet(f, R)
  BY <1>1, <1>2, SumRemove
<1>5. f[i] = OwedOf(table[i])
  BY OwedNat
<1> HIDE DEF R, f
<1>6. SumFunctionOnSet(f, R) \in Int
  BY <1>2, <1>3, SumInt DEF R
<1>7. QED
  BY <1>4, <1>5, <1>6 DEF Owed, R, f

(* The two handlers that let an invoice owe more, POST and PATCH, check     *)
(* what the others owe first.                                               *)
LEMMA CheckedKeepsLimit ==
  ASSUME LedgerInv, LedgerInv', NEW i \in Invoices, NEW s \in Nat, NEW t \in Nat,
         \/ WithinLimit(Invoices, s + t)
         \/ WithinLimit(Invoices \ {i}, s + t),
         OwedOf(rows'[i]) = s + t,
         \A j \in Invoices \ {i} : rows'[j] = rows[j]
  PROVE  WithinCreditLimit'
<1>1. rows \in [Invoices -> Invoice] /\ rows' \in [Invoices -> Invoice]
  BY DEF LedgerInv, TypeOK
<1> DEFINE R == Invoices \ {i}
           rest == SumFunctionOnSet(OwingOf(rows), R)
           restAfter == SumFunctionOnSet(OwingOf(rows'), R)
           before == OwedOf(rows[i])
<1>2. Owed(rows) = before + rest /\ rest \in Int
  BY <1>1, OneAndOthers
<1>3. Owed(rows') = OwedOf(rows'[i]) + restAfter
  BY <1>1, OneAndOthers
<1>4. restAfter = rest
  <2>1. IsFiniteSet(R)
    BY LedgerAssumption, FS_RemoveElement
  <2>2. \A j \in R : OwingOf(rows)[j] \in Int /\ OwingOf(rows')[j] = OwingOf(rows)[j]
    BY <1>1, OwedNat
  <2> HIDE DEF R
  <2>3. QED
    BY <2>1, <2>2, SumSame
<1>5. before \in Nat /\ CreditLimit \in Nat
  BY <1>1, OwedNat, LedgerAssumption
<1>6. Exposure(Invoices) = Owed(rows) /\ Exposure(R) = rest
  BY <1>1, LimitOwed DEF Owed
<1>7. \/ CreditLimit > 0 => Owed(rows) + (s + t) <= CreditLimit
      \/ CreditLimit > 0 => rest + (s + t) <= CreditLimit
  BY <1>6 DEF WithinLimit
<1> HIDE DEF R, rest, restAfter, before
<1>8. CreditLimit > 0 => Owed(rows') <= CreditLimit
  BY <1>2, <1>3, <1>4, <1>5, <1>7
<1>9. QED
  BY <1>1, <1>8, LimitOwed

(* No other handler lets an invoice owe more than before.                   *)
LEMMA RowsOweNoMore ==
  ASSUME NEW r \in Invoice
  PROVE  /\ OwedOf(RejectRow(r)) = OwedOf(r)
         /\ \A u : CanApprove(r, u) => OwedOf(ApproveRow(r, u)) <= OwedOf(r)
         /\ \A a \in Nat : CanPay(r, a) => OwedOf(PayRow(r, a)) <= OwedOf(r)
         /\ \A a \in Nat : OwedOf(CreditRow(r, a)) <= OwedOf(r)
         /\ OwedOf(WriteOffRow(r, r)) <= OwedOf(r)
         /\ OwedOf(VoidRow(r)) <= OwedOf(r)
         /\ OwedOf(SentRow(r)) = OwedOf(r)
<1>1. r.balance \in Nat /\ r.status \in Statuses
  BY RowColumns
<1>2. OwedOf(RejectRow(r)) = OwedOf(r)
  BY DEF OwedOf, RejectRow, Invoice
<1>3. ASSUME NEW u, CanApprove(r, u)
      PROVE  OwedOf(ApproveRow(r, u)) <= OwedOf(r)
  <2>1. ApproveRow(r, u).status = "APPROVED" /\ ApproveRow(r, u).balance = r.balance
    BY DEF ApproveRow, Invoice
  <2>2. r.status = "DRAFT"
    BY <1>3 DEF CanApprove, CanDecide
  <2>3. QED
    BY <1>1, <2>1, <2>2, StatusSets DEF OwedOf
<1>4. ASSUME NEW a \in Nat, CanPay(r, a)
      PROVE  OwedOf(PayRow(r, a)) <= OwedOf(r)
  <2>1. PayRow(r, a).balance = r.balance - a
    BY DEF PayRow, Invoice
  <2>2. r.status \in Payable /\ a <= r.balance
    BY <1>4 DEF CanPay
  <2>3. QED
    BY <1>1, <2>1, <2>2, StatusSets DEF OwedOf
<1>5. ASSUME NEW a \in Nat
      PROVE  OwedOf(CreditRow(r, a)) <= OwedOf(r)
  <2>1. /\ CreditRow(r, a).balance = r.balance - ArCredit(r, a)
        /\ CreditRow(r, a).status \in {"PAID", r.status}
    BY DEF CreditRow, Invoice
  <2>2. ArCredit(r, a) \in Nat /\ ArCredit(r, a) <= r.balance
    BY <1>1 DEF ArCredit
  <2>3. QED
    BY <1>1, <2>1, <2>2, StatusSets DEF OwedOf
<1>6. OwedOf(WriteOffRow(r, r)) = 0 /\ OwedOf(VoidRow(r)) = 0
  BY StatusSets DEF OwedOf, WriteOffRow, VoidRow, Invoice
<1>7. OwedOf(SentRow(r)) = OwedOf(r)
  BY StatusSets DEF OwedOf, SentRow, Invoice
<1>8. OwedOf(r) \in Nat
  BY <1>1 DEF OwedOf
<1>9. QED
  BY <1>2, <1>3, <1>4, <1>5, <1>6, <1>7, <1>8

(* An action on one invoice keeps the limit.                                *)
LEMMA ChangeKeepsLimit ==
  ASSUME LedgerInv, LedgerInv', WithinCreditLimit, NEW i \in Invoices, ChangeInvoice(i)
  PROVE  WithinCreditLimit'
<1>1. /\ rows[i] \in Invoice
      /\ \A j \in Invoices : OwedOf(rows[j]) \in Nat
      /\ rows \in [Invoices -> Invoice]
  BY OwedNat DEF LedgerInv, TypeOK
<1>2. ASSUME NEW r, rows' = [rows EXCEPT ![i] = r], OwedOf(r) <= OwedOf(rows[i])
      PROVE  WithinCreditLimit'
  <2>1. \A j \in Invoices : OwedOf(rows'[j]) <= OwedOf(rows[j])
    BY <1>1, <1>2
  <2>2. QED
    BY <2>1, NobodyOwesMore
<1>3. ASSUME NEW u \in Users, NEW s \in Subtotals, NEW t \in Taxes,
             WithinLimit(Invoices, s + t), CreateInvoice(i, u, s, t)
      PROVE  WithinCreditLimit'
  <2>1. s \in Nat /\ t \in Nat
    BY LedgerAssumption
  <2>2. /\ rows'[i] = DraftRow(u, s, t)
        /\ \A j \in Invoices \ {i} : rows'[j] = rows[j]
    BY <1>1, <1>3 DEF CreateInvoice
  <2>3. OwedOf(DraftRow(u, s, t)) = s + t
    BY StatusSets DEF OwedOf, DraftRow
  <2>4. QED
    BY <1>3, <2>1, <2>2, <2>3, CheckedKeepsLimit
<1>4. ASSUME NEW s \in Subtotals, NEW t \in Taxes,
             WithinLimit(Invoices \ {i}, s + t), UpdateInvoice(i, s, t)
      PROVE  WithinCreditLimit'
  <2>1. s \in Nat /\ t \in Nat
    BY LedgerAssumption
  <2>2. /\ rows'[i] = EditRow(rows[i], s, t)
        /\ \A j \in Invoices \ {i} : rows'[j] = rows[j]
        /\ rows[i].status = "DRAFT"
    BY <1>1, <1>4 DEF UpdateInvoice, CanEdit
  <2>3. OwedOf(EditRow(rows[i], s, t)) = s + t
    <3>1. /\ EditRow(rows[i], s, t).status = "DRAFT"
          /\ EditRow(rows[i], s, t).balance = s + t
      BY <1>1, <2>2 DEF EditRow, Invoice
    <3>2. QED
      BY <3>1, StatusSets DEF OwedOf
  <2>4. QED
    BY <1>4, <2>1, <2>2, <2>3, CheckedKeepsLimit
<1>5. ASSUME NEW u \in Users, RejectInvoice(i, u)
      PROVE  WithinCreditLimit'
  <2>1. rows' = [rows EXCEPT ![i] = RejectRow(rows[i])]
    BY <1>5 DEF RejectInvoice
  <2>2. OwedOf(RejectRow(rows[i])) = OwedOf(rows[i])
    BY <1>1, RowsOweNoMore
  <2>3. OwedOf(RejectRow(rows[i])) <= OwedOf(rows[i])
    BY <1>1, <2>2
  <2>4. QED
    BY <1>2, <2>1, <2>3
<1>6. ASSUME NEW u \in Users, ApproveInvoice(i, u)
      PROVE  WithinCreditLimit'
  <2>1. rows' = [rows EXCEPT ![i] = ApproveRow(rows[i], u)]
    BY <1>6 DEF ApproveInvoice
  <2>2. OwedOf(ApproveRow(rows[i], u)) <= OwedOf(rows[i])
    BY <1>1, <1>6, RowsOweNoMore DEF ApproveInvoice
  <2>3. QED
    BY <1>2, <2>1, <2>2
<1>7. ASSUME NEW u \in Users, NEW a \in 1 .. MaxAmount, NEW t \in BOOLEAN,
             CreateCreditMemo(i, u, a, t)
      PROVE  WithinCreditLimit'
  <2>1. a \in Nat
    BY LedgerAssumption
  <2>2. rows' = [rows EXCEPT ![i] = CreditRow(rows[i], a)]
    BY <1>7 DEF CreateCreditMemo
  <2>3. OwedOf(CreditRow(rows[i], a)) <= OwedOf(rows[i])
    BY <1>1, <2>1, RowsOweNoMore
  <2>4. QED
    BY <1>2, <2>2, <2>3
<1>8. ASSUME WriteOffInvoice(i)
      PROVE  WithinCreditLimit'
  <2>1. rows' = [rows EXCEPT ![i] = WriteOffRow(rows[i], rows[i])]
    BY <1>8 DEF WriteOffInvoice
  <2>2. OwedOf(WriteOffRow(rows[i], rows[i])) <= OwedOf(rows[i])
    BY <1>1, <1>8, RowsOweNoMore DEF WriteOffInvoice
  <2>3. QED
    BY <1>2, <2>1, <2>2
<1>9. ASSUME VoidInvoice(i)
      PROVE  WithinCreditLimit'
  <2>1. rows' = [rows EXCEPT ![i] = VoidRow(rows[i])]
    BY <1>9 DEF VoidInvoice
  <2>2. OwedOf(VoidRow(rows[i])) <= OwedOf(rows[i])
    BY <1>1, <1>9, RowsOweNoMore DEF VoidInvoice
  <2>3. QED
    BY <1>2, <2>1, <2>2
<1>10. ASSUME MarkDelivered(i)
       PROVE  WithinCreditLimit'
  <2>1. rows' = [rows EXCEPT ![i] = SentRow(rows[i])]
    BY <1>10 DEF MarkDelivered
  <2>2. OwedOf(SentRow(rows[i])) = OwedOf(rows[i])
    BY <1>1, RowsOweNoMore
  <2>3. OwedOf(SentRow(rows[i])) <= OwedOf(rows[i])
    BY <1>1, <2>2
  <2>4. QED
    BY <1>2, <2>1, <2>3
<1>11. QED
  BY <1>3, <1>4, <1>5, <1>6, <1>7, <1>8, <1>9, <1>10 DEF ChangeInvoice

(* A receipt lowers what each invoice it is allocated to owes.              *)
LEMMA PaymentKeepsLimit ==
  ASSUME LedgerInv, LedgerInv', WithinCreditLimit, NEW alloc \in Allocations, NEW rest,
         CreatePayment(alloc, rest)
  PROVE  WithinCreditLimit'
<1>1. PICK D \in SUBSET Invoices : alloc \in [D -> 1 .. MaxAmount]
  BY DEF Allocations
<1>2. ASSUME NEW j \in Invoices
      PROVE  OwedOf(rows'[j]) <= OwedOf(rows[j])
  <2>1. rows[j] \in Invoice /\ OwedOf(rows[j]) \in Nat
    BY OwedNat DEF LedgerInv, TypeOK
  <2>2. CASE j \in D
    <3>1. alloc[j] \in Nat /\ CanPay(rows[j], alloc[j])
      BY <1>1, <2>2, LedgerAssumption DEF CreatePayment
    <3>2. rows'[j] = PayRow(rows[j], alloc[j])
      BY <1>1, <2>2 DEF CreatePayment
    <3>3. QED
      BY <2>1, <3>1, <3>2, RowsOweNoMore
  <2>3. CASE j \notin D
    BY <1>1, <2>1, <2>3 DEF CreatePayment
  <2>4. QED
    BY <2>2, <2>3
<1>3. QED
  BY <1>2, NobodyOwesMore

(* POST and PATCH check the limit against one invoice at a time; together   *)
(* they keep all unsettled invoices of the customer within it.              *)
THEOREM LedgerCreditLimit == Spec => []WithinCreditLimit
<1>1. Init => WithinCreditLimit
  <2> SUFFICES ASSUME Init PROVE WithinCreditLimit
    OBVIOUS
  <2>1. rows \in [Invoices -> Invoice] /\ \A i \in Invoices : rows[i].balance = 0
    BY InitLedgerInv DEF Init, EmptyRow, LedgerInv, TypeOK
  <2> DEFINE T == {i \in Invoices : rows[i].status \notin Settled}
  <2>2. IsFiniteSet(T) /\ \A i \in T : Balances[i] = 0
    BY <2>1, LedgerAssumption, FS_Subset DEF Balances
  <2>3. Exposure(Invoices) = SumFunctionOnSet(Balances, T)
    BY DEF Exposure
  <2> HIDE DEF T
  <2>4. Exposure(Invoices) = 0
    BY <2>2, <2>3, SumZero
  <2>5. QED
    BY <2>4, LedgerAssumption DEF WithinCreditLimit
<1>2. LedgerInv /\ LedgerInv' /\ WithinCreditLimit /\ [Next]_vars => WithinCreditLimit'
  <2> SUFFICES ASSUME LedgerInv, LedgerInv', WithinCreditLimit, [Next]_vars
               PROVE  WithinCreditLimit'
    OBVIOUS
  <2>1. CASE Next
    BY <2>1, ChangeKeepsLimit, PaymentKeepsLimit DEF Next
  <2>2. CASE UNCHANGED vars
    BY <2>2 DEF vars, WithinCreditLimit, Exposure, Balances
  <2>3. QED
    BY <2>1, <2>2
<1>3. QED
  BY <1>1, <1>2, LedgerInvariance, PTL DEF Spec
=============================================================================
