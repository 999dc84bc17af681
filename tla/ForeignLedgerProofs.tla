------------------------ MODULE ForeignLedgerProofs ------------------------
(***************************************************************************)
(* Theorems about ForeignLedger, for any invoices, rates and amounts and   *)
(* any number of receipts and credit memos: first about the invoices, row  *)
(* by row, then about the accounts, which are sums over the invoices.      *)
(***************************************************************************)
EXTENDS ForeignLedger, FiniteSums

Drift(inv) == 2 * (inv.base_balance * Scale) - 2 * (inv.balance * inv.rate)

(* What holds of each invoice on its own, and is kept by what each request  *)
(* does to it.                                                              *)
RowInv(inv) ==
  /\ inv \in Invoice
  /\ inv.balance <= inv.subtotal + inv.tax
  /\ inv.base_balance <= inv.base_total
  /\ inv.balance = 0 => inv.base_balance = 0
  /\ -(Conversions(inv) * Scale) <= Drift(inv)
  /\ Drift(inv) <= Conversions(inv) * Scale

ForeignInv ==
  /\ DOMAIN invoices = Invoices
  /\ invoices = [i \in Invoices |-> invoices[i]]
  /\ \A i \in Invoices : RowInv(invoices[i])

-----------------------------------------------------------------------------
(* Rounding half up is off by half a unit at most, and not at all at zero.  *)
LEMMA HalfUpIsClose ==
  ASSUME ForeignAssumption, NEW n \in Nat
  PROVE  /\ HalfUp(n) \in Nat
         /\ 2 * n - Scale <= 2 * (HalfUp(n) * Scale)
         /\ 2 * (HalfUp(n) * Scale) <= 2 * n + Scale
         /\ n = 0 => HalfUp(n) = 0
<1> DEFINE d == 2 * Scale
           m == 2 * n + Scale
           q == m \div d
           r == m % d
<1>1. Scale \in Nat /\ Scale > 0
  BY DEF ForeignAssumption
<1>2. d \in Nat /\ d > 0 /\ m \in Nat
  BY <1>1
<1>3. q \in Int /\ r \in 0 .. d - 1 /\ m = d * q + r
  BY <1>2
<1>4. q >= 0
  BY <1>2, <1>3
<1>5. d * q = 2 * (q * Scale)
  BY <1>1, <1>3
<1>6. n = 0 => q = 0
  <2> SUFFICES ASSUME n = 0 PROVE q = 0
    OBVIOUS
  <2>1. m < d
    BY <1>1
  <2> QED
    BY <2>1, <1>2, <1>3, <1>4
<1>7. HalfUp(n) = q
  BY DEF HalfUp
<1> HIDE DEF q, r
<1>8. 2 * (q * Scale) = 2 * n + Scale - r
  BY <1>1, <1>3, <1>5
<1>9. /\ 2 * n - Scale <= 2 * (q * Scale)
      /\ 2 * (q * Scale) <= 2 * n + Scale
  BY <1>1, <1>3, <1>8
<1> QED
  BY <1>3, <1>4, <1>6, <1>7, <1>9

(* So is rounding half to even, which differs on ties only.                 *)
LEMMA HalfEvenIsClose ==
  ASSUME ForeignAssumption, NEW n \in Nat
  PROVE  /\ HalfEven(n) \in Nat
         /\ 2 * n - Scale <= 2 * (HalfEven(n) * Scale)
         /\ 2 * (HalfEven(n) * Scale) <= 2 * n + Scale
<1> DEFINE h == HalfUp(n)
           d == 2 * Scale
           m == 2 * n + Scale
<1>1. Scale \in Nat /\ Scale > 0
  BY DEF ForeignAssumption
<1>2. /\ h \in Nat
      /\ 2 * n - Scale <= 2 * (h * Scale)
      /\ 2 * (h * Scale) <= 2 * n + Scale
  BY HalfUpIsClose
<1>3. CASE m % d = 0 /\ h % 2 = 1
  <2>1. m = d * (m \div d) + (m % d)
    BY <1>1
  <2>2. h = m \div d
    BY DEF HalfUp
  <2>3. m = d * h
    BY <2>1, <2>2, <1>1, <1>2, <1>3
  <2>4. h > 0
    BY <1>2, <1>3
  <2> HIDE DEF h
  <2>5. 2 * ((h - 1) * Scale) = 2 * (h * Scale) - 2 * Scale
    BY <1>1, <1>2
  <2>6. 2 * (h * Scale) = 2 * n + Scale
    BY <2>3, <1>1, <1>2
  <2>7. /\ 2 * n - Scale <= 2 * ((h - 1) * Scale)
        /\ 2 * ((h - 1) * Scale) <= 2 * n + Scale
    BY <2>5, <2>6, <1>1
  <2>8. HalfEven(n) = h - 1
    BY <1>3 DEF HalfEven, h
  <2> QED
    BY <2>4, <2>7, <2>8, <1>2
<1>4. CASE ~(m % d = 0 /\ h % 2 = 1)
  <2>1. HalfEven(n) = h
    BY <1>4 DEF HalfEven
  <2> QED
    BY <2>1, <1>2
<1> QED
  BY <1>3, <1>4

-----------------------------------------------------------------------------
(* Taking a part of the balance, and its rounded value or what is left of   *)
(* the carrying value, adds at most the rounding of one conversion to the   *)
(* drift; taking all of it leaves nothing.                                  *)
LEMMA SettleKeepsRow ==
  ASSUME ForeignAssumption, NEW inv, RowInv(inv),
         NEW amount \in Nat, amount <= inv.balance,
         NEW conv \in Nat,
         2 * (amount * inv.rate) - Scale <= 2 * (conv * Scale),
         2 * (conv * Scale) <= 2 * (amount * inv.rate) + Scale,
         NEW base,
         base = IF amount = inv.balance THEN inv.base_balance
                ELSE Lesser(conv, inv.base_balance)
  PROVE  RowInv(Settle(inv, amount, base))
<1> DEFINE new == Settle(inv, amount, base)
           k == Conversions(inv)
<1>1. Scale \in Nat /\ Scale > 0
  BY DEF ForeignAssumption
<1>2. /\ inv.balance \in Nat /\ inv.base_balance \in Nat /\ inv.rate \in Nat
      /\ inv.postings \in Nat /\ inv.tax \in Nat /\ inv.subtotal \in Nat
      /\ inv.base_total \in Nat
  BY DEF RowInv, Invoice
<1>3. /\ base \in Nat /\ base <= inv.base_balance
      /\ amount = inv.balance => base = inv.base_balance
  BY <1>2 DEF Lesser
<1>4. /\ new \in Invoice
      /\ new.balance = inv.balance - amount
      /\ new.base_balance = inv.base_balance - base
      /\ new.postings = inv.postings + 1
      /\ new.rate = inv.rate /\ new.tax = inv.tax /\ new.subtotal = inv.subtotal
      /\ new.base_total = inv.base_total
  <2>1. new = [inv EXCEPT !.balance = inv.balance - amount,
                          !.base_balance = inv.base_balance - base,
                          !.status = IF amount = inv.balance THEN "PAID" ELSE inv.status,
                          !.postings = inv.postings + 1]
    BY <1>2 DEF Settle, RowInv, Invoice
  <2>2. /\ inv.balance - amount \in Nat /\ inv.base_balance - base \in Nat
        /\ inv.postings + 1 \in Nat
    BY <1>2, <1>3
  <2>3. inv \in Invoice
    BY DEF RowInv
  <2>4. (IF amount = inv.balance THEN "PAID" ELSE inv.status)
           \in {"ABSENT", "OPEN", "PAID", "WRITTEN_OFF"}
    BY <2>3 DEF Invoice
  <2> HIDE DEF new
  <2>5. new \in Invoice
    BY <2>1, <2>2, <2>3, <2>4 DEF Invoice
  <2>6. /\ new.balance = inv.balance - amount
        /\ new.base_balance = inv.base_balance - base
        /\ new.postings = inv.postings + 1
        /\ new.rate = inv.rate /\ new.tax = inv.tax /\ new.subtotal = inv.subtotal
        /\ new.base_total = inv.base_total
    BY <2>1, <2>3 DEF Invoice
  <2> QED
    BY <2>5, <2>6
<1> HIDE DEF new
<1>5. k \in Nat /\ Conversions(new) = k + 1
  BY <1>2, <1>4 DEF Conversions
<1> DEFINE x == inv.base_balance * Scale
           y == inv.balance * inv.rate
           z == amount * inv.rate
           c == conv * Scale
           b == base * Scale
           s == k * Scale
<1>6. /\ x \in Nat /\ y \in Nat /\ z \in Nat /\ c \in Nat /\ b \in Nat /\ s \in Nat
  BY <1>1, <1>2, <1>3, <1>5
<1>7. /\ new.base_balance * Scale = x - b
      /\ new.balance * new.rate = y - z
      /\ Conversions(new) * Scale = s + Scale
  BY <1>1, <1>2, <1>3, <1>4, <1>5
<1>8. -s <= 2 * x - 2 * y /\ 2 * x - 2 * y <= s
  BY DEF RowInv, Drift
<1>9. /\ -(s + Scale) <= 2 * (x - b) - 2 * (y - z)
      /\ 2 * (x - b) - 2 * (y - z) <= s + Scale
  <2>1. CASE amount = inv.balance
    <3>1. b = x /\ z = y
      BY <2>1, <1>3
    <3> QED
      BY <3>1, <1>1, <1>6
  <2>2. CASE amount # inv.balance /\ conv < inv.base_balance
    <3>1. b = c
      BY <2>2 DEF Lesser
    <3> HIDE DEF x, y, z, c, b, s
    <3>2. 2 * z - Scale <= 2 * c /\ 2 * c <= 2 * z + Scale
      BY DEF z, c
    <3> QED
      BY <3>1, <3>2, <1>1, <1>6, <1>8
  <2>3. CASE amount # inv.balance /\ ~(conv < inv.base_balance)
    <3>1. b = x
      BY <2>3 DEF Lesser
    <3>2. x <= c
      BY <2>3, <1>1, <1>2
    <3>3. z <= y
      BY <1>2
    <3> HIDE DEF x, y, z, c, b, s
    <3>4. 2 * z - Scale <= 2 * c /\ 2 * c <= 2 * z + Scale
      BY DEF z, c
    <3> QED
      BY <3>1, <3>2, <3>3, <3>4, <1>1, <1>6, <1>8
  <2> QED
    BY <2>1, <2>2, <2>3
<1>10. new.balance = 0 => new.base_balance = 0
  <2> SUFFICES ASSUME new.balance = 0 PROVE new.base_balance = 0
    OBVIOUS
  <2>1. amount = inv.balance
    BY <1>2, <1>4
  <2>2. base = inv.base_balance
    BY <1>3, <2>1
  <2> QED
    BY <1>2, <1>4, <2>2
<1>11. /\ new.balance <= new.subtotal + new.tax
       /\ new.base_balance <= new.base_total
  BY <1>2, <1>3, <1>4 DEF RowInv
<1>12. /\ -(Conversions(new) * Scale) <= Drift(new)
       /\ Drift(new) <= Conversions(new) * Scale
  BY <1>7, <1>9 DEF Drift
<1> QED
  BY <1>4, <1>10, <1>11, <1>12 DEF RowInv, new

-----------------------------------------------------------------------------
(* No invoice has been created.                                             *)
LEMMA InitialRows ==
  ASSUME ForeignAssumption, Init
  PROVE  ForeignInv
<1>1. Scale \in Nat
  BY DEF ForeignAssumption
<1>2. Absent \in Invoice
  BY DEF Absent, Invoice, Postings!NoReversal, Postings!Reversal
<1>3. /\ Absent.balance = 0 /\ Absent.base_balance = 0 /\ Absent.subtotal = 0
      /\ Absent.tax = 0 /\ Absent.base_total = 0 /\ Absent.rate = 0
      /\ Conversions(Absent) = 1
  BY DEF Absent, Conversions
<1>4. RowInv(Absent)
  BY <1>1, <1>2, <1>3 DEF RowInv, Drift
<1> QED
  BY <1>4 DEF Init, ForeignInv

(* The rows of an invoice and of its lines convert at one rate.             *)
LEMMA PostInvoiceKeepsRows ==
  ASSUME ForeignAssumption, ForeignInv, NEW i \in Invoices, NEW s \in Subtotals,
         NEW t \in Taxes, NEW r \in Rates, PostInvoice(i, s, t, r)
  PROVE  ForeignInv'
<1> DEFINE base_s == ToBase(s, r)
           base_t == ToBase(t, r)
           new == [Absent EXCEPT !.status = "OPEN", !.rate = r, !.subtotal = s,
                          !.tax = t, !.balance = s + t,
                          !.base_total = base_s + base_t,
                          !.base_balance = base_s + base_t]
<1>1. /\ Scale \in Nat /\ Scale > 0 /\ s \in Nat /\ s > 0 /\ t \in Nat
      /\ r \in Nat /\ r > 0
  BY DEF ForeignAssumption
<1>2. s * r \in Nat /\ t * r \in Nat /\ (t = 0 => t * r = 0)
  BY <1>1
<1>3. /\ base_s \in Nat
      /\ 2 * (s * r) - Scale <= 2 * (base_s * Scale)
      /\ 2 * (base_s * Scale) <= 2 * (s * r) + Scale
  BY <1>2, HalfUpIsClose DEF ToBase
<1>4. /\ base_t \in Nat
      /\ 2 * (t * r) - Scale <= 2 * (base_t * Scale)
      /\ 2 * (base_t * Scale) <= 2 * (t * r) + Scale
      /\ t = 0 => base_t = 0
  BY <1>2, HalfUpIsClose DEF ToBase
<1> HIDE DEF base_s, base_t
<1> HIDE DEF new
<1>5. /\ new \in Invoice
      /\ new.balance = s + t /\ new.base_balance = base_s + base_t
      /\ new.base_total = base_s + base_t
      /\ new.subtotal = s /\ new.tax = t /\ new.rate = r /\ new.postings = 0
  <2>1. Absent \in Invoice /\ Absent.postings = 0
    BY DEF Absent, Invoice, Postings!NoReversal, Postings!Reversal
  <2>2. s + t \in Nat /\ base_s + base_t \in Nat
    BY <1>1, <1>3, <1>4
  <2>3. /\ new.balance = s + t /\ new.base_balance = base_s + base_t
        /\ new.base_total = base_s + base_t /\ new.status = "OPEN"
        /\ new.subtotal = s /\ new.tax = t /\ new.rate = r /\ new.postings = 0
    BY <2>1 DEF new, Invoice
  <2> QED
    BY <1>1, <2>1, <2>2, <2>3 DEF new, Invoice
<1>6. Conversions(new) = IF t = 0 THEN 1 ELSE 2
  BY <1>5, <1>1 DEF Conversions
<1>7. /\ (base_s + base_t) * Scale = base_s * Scale + base_t * Scale
      /\ (s + t) * r = s * r + t * r
  BY <1>1, <1>3, <1>4
<1>8. base_t = 0 => base_t * Scale = 0
  BY <1>1
<1>9. base_s * Scale \in Nat /\ base_t * Scale \in Nat
  BY <1>1, <1>3, <1>4
<1>10. Drift(new) = 2 * (base_s * Scale + base_t * Scale) - 2 * (s * r + t * r)
  BY <1>5, <1>7 DEF Drift
<1>11. /\ -(Conversions(new) * Scale) <= Drift(new)
       /\ Drift(new) <= Conversions(new) * Scale
  <2>1. CASE t = 0
    <3>1. Drift(new) = 2 * (base_s * Scale) - 2 * (s * r) /\ Conversions(new) * Scale = Scale
      BY <2>1, <1>1, <1>2, <1>4, <1>6, <1>8, <1>9, <1>10
    <3> QED
      BY <3>1, <1>1, <1>2, <1>3, <1>9
  <2>2. CASE t # 0
    <3>1. Conversions(new) * Scale = Scale + Scale
      BY <2>2, <1>1, <1>6
    <3> QED
      BY <3>1, <1>1, <1>2, <1>3, <1>4, <1>9, <1>10
  <2> QED
    BY <2>1, <2>2
<1>12. RowInv(new)
  <2>1. base_s > 0 \/ new.balance # 0
    BY <1>1, <1>5
  <2> QED
    BY <2>1, <1>1, <1>3, <1>4, <1>5, <1>11 DEF RowInv
<1>13. invoices' = [invoices EXCEPT ![i] = new]
  BY DEF PostInvoice, base_s, base_t, new
<1> QED
  BY <1>12, <1>13 DEF ForeignInv

(* A receipt settles each of the invoices it is allocated to.               *)
LEMMA CreatePaymentKeepsRows ==
  ASSUME ForeignAssumption, ForeignInv, NEW alloc \in Allocations,
         NEW last \in DOMAIN alloc, NEW rest \in 0 .. MaxRest, NEW r \in Rates,
         CreatePayment(alloc, last, rest, r)
  PROVE  ForeignInv'
<1> DEFINE base(i) == BaseAr(invoices[i], alloc[i])
<1>1. DOMAIN alloc \subseteq Invoices /\ \A i \in DOMAIN alloc : alloc[i] \in 1 .. MaxAmount
  BY DEF Allocations
<1>2. invoices' = [i \in Invoices |->
         IF i \in DOMAIN alloc THEN Settle(invoices[i], alloc[i], base(i))
         ELSE invoices[i]]
  BY <1>1 DEF CreatePayment
<1>3. ASSUME NEW i \in DOMAIN alloc
      PROVE  RowInv(Settle(invoices[i], alloc[i], base(i)))
  <2> DEFINE inv == invoices[i]
             amount == alloc[i]
             conv == ToBase(amount, inv.rate)
  <2>1. RowInv(inv) /\ inv.rate \in Nat /\ amount \in Nat /\ amount <= inv.balance
    <3>1. RowInv(inv) /\ inv.rate \in Nat
      BY <1>1, <1>3 DEF ForeignInv, RowInv, Invoice
    <3>2. amount \in Nat
      BY <1>1, <1>3 DEF ForeignAssumption
    <3>3. amount <= inv.balance
      BY <1>3 DEF CreatePayment
    <3> QED
      BY <3>1, <3>2, <3>3
  <2>2. amount * inv.rate \in Nat
    BY <2>1
  <2>3. /\ conv \in Nat
        /\ 2 * (amount * inv.rate) - Scale <= 2 * (conv * Scale)
        /\ 2 * (conv * Scale) <= 2 * (amount * inv.rate) + Scale
    BY <2>2, HalfUpIsClose DEF ToBase
  <2>4. base(i) = IF amount = inv.balance THEN inv.base_balance
                  ELSE Lesser(conv, inv.base_balance)
    BY DEF BaseAr
  <2> HIDE DEF inv, amount, conv
  <2>5. RowInv(Settle(inv, amount, base(i)))
    BY <2>1, <2>3, <2>4, SettleKeepsRow
  <2> QED
    BY <2>5 DEF inv, amount
<1> HIDE DEF base
<1>4. \A i \in Invoices : RowInv(invoices'[i])
  BY <1>2, <1>3 DEF ForeignInv
<1> QED
  BY <1>2, <1>4 DEF ForeignInv

(* A credit memo settles what it takes off the balance, which is nothing on *)
(* a paid invoice.                                                          *)
LEMMA CreateCreditMemoKeepsRows ==
  ASSUME ForeignAssumption, ForeignInv, NEW i \in Invoices,
         NEW amount \in 1 .. MaxAmount, NEW include_tax \in BOOLEAN,
         CreateCreditMemo(i, amount, include_tax)
  PROVE  ForeignInv'
<1> DEFINE inv == invoices[i]
           split == Postings!CreditSplit(inv, inv.reversed, amount, include_tax)
           rem == Postings!Remaining(inv, inv.reversed)
           ar == Postings!ArCredit(inv, amount)
           conv == MemoToBase(ar, inv.rate)
           base_ar == MemoBaseAr(inv, ar)
           settled == Settle(inv, ar, base_ar)
           reversed == Postings!AddReversal(settled.reversed, split)
<1>1. /\ RowInv(inv) /\ inv.rate \in Nat /\ inv.balance \in Nat
      /\ inv.reversed \in Postings!Reversal /\ inv.subtotal \in Nat /\ inv.tax \in Nat
  BY DEF ForeignInv, RowInv, Invoice
<1>2. amount \in Nat
  BY DEF ForeignAssumption
<1>3. ar \in Nat /\ ar <= inv.balance
  BY <1>1, <1>2 DEF Postings!ArCredit
<1>4. ar * inv.rate \in Nat
  BY <1>1, <1>3
<1>5. /\ conv \in Nat
      /\ 2 * (ar * inv.rate) - Scale <= 2 * (conv * Scale)
      /\ 2 * (conv * Scale) <= 2 * (ar * inv.rate) + Scale
  BY <1>4, HalfEvenIsClose DEF MemoToBase
<1>6. base_ar = IF ar = inv.balance THEN inv.base_balance
                ELSE Lesser(conv, inv.base_balance)
  BY DEF MemoBaseAr
<1>7. invoices' = [invoices EXCEPT ![i] = [settled EXCEPT !.reversed = reversed]]
  BY DEF CreateCreditMemo
<1>8. settled.reversed = inv.reversed
  BY <1>1 DEF Settle, RowInv, Invoice
<1>9. split.subtotal \in 1 .. rem.subtotal /\ split.tax \in 0 .. rem.tax
  BY DEF CreateCreditMemo
<1>10. rem.subtotal \in Nat /\ rem.tax \in Nat
  BY <1>1 DEF Postings!Remaining, Postings!Reversal
<1> HIDE DEF inv, split, rem, ar, conv, base_ar
<1>11. reversed \in Postings!Reversal
  BY <1>1, <1>8, <1>9, <1>10 DEF Postings!AddReversal, Postings!Reversal
<1>12. RowInv(settled)
  BY <1>1, <1>3, <1>5, <1>6, SettleKeepsRow
<1> HIDE DEF settled, reversed
<1> DEFINE new == [settled EXCEPT !.reversed = reversed]
<1>13. /\ new \in Invoice
       /\ new.balance = settled.balance /\ new.base_balance = settled.base_balance
       /\ new.rate = settled.rate /\ new.tax = settled.tax
       /\ new.subtotal = settled.subtotal /\ new.postings = settled.postings
       /\ new.base_total = settled.base_total
  BY <1>11, <1>12 DEF RowInv, Invoice
<1>14. RowInv(new)
  <2>1. Drift(new) = Drift(settled) /\ Conversions(new) = Conversions(settled)
    BY <1>13 DEF Drift, Conversions
  <2> QED
    BY <2>1, <1>12, <1>13 DEF RowInv
<1> QED
  BY <1>7, <1>14 DEF ForeignInv

(* A write-off leaves neither a balance nor a carrying value.               *)
LEMMA WriteOffKeepsRows ==
  ASSUME ForeignAssumption, ForeignInv, NEW i \in Invoices, WriteOff(i)
  PROVE  ForeignInv'
<1> DEFINE inv == invoices[i]
           new == [inv EXCEPT !.status = "WRITTEN_OFF", !.balance = 0,
                              !.base_balance = 0]
<1>1. Scale \in Nat
  BY DEF ForeignAssumption
<1>2. inv \in Invoice
  BY DEF ForeignInv, RowInv
<1>3. invoices' = [invoices EXCEPT ![i] = new]
  BY <1>2 DEF WriteOff, ForeignInv, Invoice
<1>4. /\ new \in Invoice
      /\ new.balance = 0 /\ new.base_balance = 0 /\ new.rate = inv.rate
      /\ new.subtotal = inv.subtotal /\ new.tax = inv.tax
      /\ new.postings = inv.postings /\ new.base_total = inv.base_total
  BY <1>2 DEF Invoice
<1> HIDE DEF inv, new
<1>5. /\ inv.rate \in Nat /\ inv.subtotal \in Nat /\ inv.tax \in Nat
      /\ inv.base_total \in Nat /\ inv.postings \in Nat
  BY <1>2 DEF Invoice
<1>6. Conversions(new) \in Nat
  BY <1>4, <1>5 DEF Conversions
<1>7. Drift(new) = 0 /\ Conversions(new) * Scale \in Nat
  BY <1>1, <1>4, <1>5, <1>6 DEF Drift
<1>8. RowInv(new)
  BY <1>4, <1>5, <1>7 DEF RowInv
<1> QED
  BY <1>3, <1>8 DEF ForeignInv

(* What holds of every invoice is kept by every request.                    *)
LEMMA ForeignInvInductive ==
  ASSUME ForeignAssumption, ForeignInv, [Next]_vars
  PROVE  ForeignInv'
<1>1. CASE \E i \in Invoices, s \in Subtotals, t \in Taxes, r \in Rates :
             PostInvoice(i, s, t, r)
  BY <1>1, PostInvoiceKeepsRows
<1>2. CASE \E alloc \in Allocations, rest \in 0 .. MaxRest, r \in Rates :
             \E last \in DOMAIN alloc : CreatePayment(alloc, last, rest, r)
  BY <1>2, CreatePaymentKeepsRows
<1>3. CASE \E i \in Invoices, amount \in 1 .. MaxAmount, include_tax \in BOOLEAN :
             CreateCreditMemo(i, amount, include_tax)
  BY <1>3, CreateCreditMemoKeepsRows
<1>4. CASE \E i \in Invoices : WriteOff(i)
  BY <1>4, WriteOffKeepsRows
<1>5. CASE UNCHANGED vars
  BY <1>5 DEF vars, ForeignInv
<1> QED
  BY <1>1, <1>2, <1>3, <1>4, <1>5 DEF Next

(* The inductive invariant holds always.                                    *)
THEOREM ForeignInvariance ==
  ASSUME ForeignAssumption
  PROVE  Spec => []ForeignInv
<1>1. Init => ForeignInv
  BY InitialRows
<1>2. ForeignInv /\ [Next]_vars => ForeignInv'
  BY ForeignInvInductive
<1> QED
  BY <1>1, <1>2, PTL DEF Spec

(* Every invoice stays within its amounts in both currencies.               *)
THEOREM InvoicesCorrect ==
  ASSUME ForeignAssumption
  PROVE  Spec => []InvoicesOK
<1>1. ForeignInv => InvoicesOK
  BY DEF ForeignInv, RowInv, InvoicesOK
<1> QED
  BY <1>1, ForeignInvariance, PTL

(* An invoice that is settled in its currency is off the books in base      *)
(* currency, for any rates and any number of partial receipts.              *)
THEOREM InvoicesSettleExactly ==
  ASSUME ForeignAssumption
  PROVE  Spec => []SettledExactly
<1>1. ForeignInv => SettledExactly
  BY DEF ForeignInv, RowInv, SettledExactly
<1> QED
  BY <1>1, ForeignInvariance, PTL

(* The carrying value stays within half a unit per conversion of the value  *)
(* of the balance at the rate of the invoice.                               *)
THEOREM DriftBounded ==
  ASSUME ForeignAssumption
  PROVE  Spec => []CarryingValueTracksBalance
<1>1. ASSUME ForeignInv PROVE CarryingValueTracksBalance
  <2> SUFFICES ASSUME NEW i \in Invoices
               PROVE  LET inv == invoices[i]
                          drift == 2 * inv.base_balance * Scale - 2 * inv.balance * inv.rate
                          bound == Conversions(inv) * Scale
                      IN  -bound <= drift /\ drift <= bound
    BY DEF CarryingValueTracksBalance
  <2> DEFINE inv == invoices[i]
  <2>1. RowInv(inv)
    BY <1>1 DEF ForeignInv
  <2>2. /\ inv.base_balance \in Nat /\ inv.balance \in Nat /\ inv.rate \in Nat
        /\ Scale \in Nat
    BY <2>1 DEF RowInv, Invoice, ForeignAssumption
  <2>3. 2 * inv.base_balance * Scale - 2 * inv.balance * inv.rate = Drift(inv)
    BY <2>2 DEF Drift
  <2> QED
    BY <2>1, <2>3 DEF RowInv
<1> QED
  BY <1>1, ForeignInvariance, PTL

-----------------------------------------------------------------------------
(* What is on the books for the rows.  Absence, written without the columns *)
(* that no posting reads.                                                   *)
AbsentEmpty ==
  \A i \in Invoices : invoices[i].status = "ABSENT" => invoices[i].base_balance = 0

BooksInv == ForeignInv /\ AbsentEmpty /\ gl \in [Accounts -> Int] /\ BaseReconciled

(* A journal entry adds its lines to the accounts.                          *)
LEMMA PostedAccounts ==
  ASSUME gl \in [Accounts -> Int], NEW lines, \A a \in DOMAIN lines : lines[a] \in Int,
         Post(lines)
  PROVE  /\ gl' \in [Accounts -> Int]
         /\ \A a \in Accounts :
              gl'[a] = gl[a] + IF a \in DOMAIN lines THEN lines[a] ELSE 0
<1>1. gl' = [a \in Accounts |-> gl[a] + IF a \in DOMAIN lines THEN lines[a] ELSE 0]
  BY DEF Post
<1>2. \A a \in Accounts : gl[a] + (IF a \in DOMAIN lines THEN lines[a] ELSE 0) \in Int
  OBVIOUS
<1> QED
  BY <1>1, <1>2

(* The accounts of the chart, of which there are seven.                     *)
LEMMA AccountNames ==
  /\ IsFiniteSet(Accounts)
  /\ {"CASH", "AR", "CUSTOMER_CREDIT", "REVENUE", "TAX_PAYABLE", "BAD_DEBT",
      "FX_GAIN_LOSS"} = Accounts
<1>1. Accounts = {"CASH", "AR", "CUSTOMER_CREDIT", "REVENUE", "TAX_PAYABLE", "BAD_DEBT"}
                   \cup {"FX_GAIN_LOSS"}
  BY DEF Accounts, Postings!Accounts
<1> DEFINE S == {"AR", "CUSTOMER_CREDIT", "REVENUE", "TAX_PAYABLE", "BAD_DEBT"}
           T == {"CUSTOMER_CREDIT", "REVENUE", "TAX_PAYABLE", "BAD_DEBT"}
           U == {"REVENUE", "TAX_PAYABLE", "BAD_DEBT"}
           V == {"TAX_PAYABLE", "BAD_DEBT"}
           W == {"BAD_DEBT"}
<1>2. /\ V = W \cup {"TAX_PAYABLE"}
      /\ U = V \cup {"REVENUE"}
      /\ T = U \cup {"CUSTOMER_CREDIT"}
      /\ S = T \cup {"AR"}
      /\ Accounts = (S \cup {"CASH"}) \cup {"FX_GAIN_LOSS"}
  BY <1>1
<1>3. IsFiniteSet(W)
  BY FS_Singleton
<1> HIDE DEF S, T, U, V, W
<1>4. IsFiniteSet(S)
  BY <1>2, <1>3, FS_AddElement
<1>5. IsFiniteSet(Accounts)
  BY <1>2, <1>4, FS_AddElement
<1> QED
  BY <1>1, <1>5

(* The difference of the debits and the credits moves by the sum of the     *)
(* lines.                                                                   *)
LEMMA PostedImbalance ==
  ASSUME gl \in [Accounts -> Int], NEW lines, \A a \in DOMAIN lines : lines[a] \in Int,
         DOMAIN lines \subseteq Accounts, Post(lines)
  PROVE  /\ Imbalance' = Imbalance + SumFunctionOnSet(lines, DOMAIN lines)
         /\ Imbalance \in Int
         /\ SumFunctionOnSet(lines, DOMAIN lines) \in Int
<1> DEFINE D == DOMAIN lines
           all == [a \in Accounts |-> IF a \in D THEN lines[a] ELSE 0]
<1>1. IsFiniteSet(Accounts) /\ IsFiniteSet(D)
  BY AccountNames, FS_Subset
<1>2. /\ \A a \in D : lines[a] \in Int /\ all[a] = lines[a]
      /\ \A a \in Accounts \ D : all[a] = 0
      /\ \A a \in Accounts : all[a] \in Int
  OBVIOUS
<1>3. \A a \in Accounts : gl[a] \in Int /\ gl'[a] = gl[a] + all[a]
  BY PostedAccounts
<1>4. DOMAIN gl = Accounts /\ DOMAIN gl' = Accounts
  BY PostedAccounts
<1> HIDE DEF D, all
<1>5. SumFunctionOnSet(all, Accounts) = SumFunctionOnSet(lines, D)
  <2>1. D \subseteq Accounts
    BY DEF D
  <2> QED
    BY <1>1, <1>2, <2>1, SumPart
<1>6. SumFunctionOnSet(gl', Accounts)
        = SumFunctionOnSet(gl, Accounts) + SumFunctionOnSet(all, Accounts)
  BY <1>1, <1>2, <1>3, SumAdd
<1>7. SumFunctionOnSet(gl, Accounts) \in Int /\ SumFunctionOnSet(lines, D) \in Int
  BY <1>1, <1>2, <1>3, SumInt
<1>8. Imbalance = SumFunctionOnSet(gl, Accounts) /\ Imbalance' = SumFunctionOnSet(gl', Accounts)
  BY <1>4 DEF Imbalance, SumFunction
<1> QED
  BY <1>5, <1>6, <1>7, <1>8 DEF D

(* What the open invoices are carried at together.                          *)
CarriedOf(table) == SumFunctionOnSet([i \in Invoices |-> table[i].base_balance], Invoices)

(* The comparison of the health endpoint, as a sum over the invoices.       *)
LEMMA ReconciledSums ==
  /\ BaseReconciled <=> gl["AR"] = CarriedOf(invoices)
  /\ BaseReconciled' <=> gl'["AR"] = CarriedOf(invoices')
BY DEF BaseReconciled, CarriedOf, SumFunction

(* A row that changes changes the sum by the difference.                    *)
LEMMA CarriedOneRow ==
  ASSUME ForeignInv, NEW i \in Invoices, NEW new, new.base_balance \in Int,
         invoices' = [invoices EXCEPT ![i] = new]
  PROVE  CarriedOf(invoices')
           = CarriedOf(invoices) + (new.base_balance - invoices[i].base_balance)
<1> DEFINE f == [j \in Invoices |-> invoices[j].base_balance]
           g == [j \in Invoices |-> invoices'[j].base_balance]
<1>1. \A j \in Invoices : invoices[j].base_balance \in Int
  BY DEF ForeignInv, RowInv, Invoice
<1>2. invoices'[i] = new /\ \A j \in Invoices \ {i} : invoices'[j] = invoices[j]
  BY DEF ForeignInv
<1>3. /\ \A j \in Invoices : f[j] \in Int
      /\ f[i] = invoices[i].base_balance
      /\ g[i] = new.base_balance /\ g[i] \in Int
      /\ \A j \in Invoices \ {i} : g[j] = f[j]
  BY <1>1, <1>2
<1> HIDE DEF f, g
<1>4. SumFunctionOnSet(g, Invoices) = SumFunctionOnSet(f, Invoices) + (g[i] - f[i])
  BY <1>3, SumChange, ForeignAssumption DEF ForeignAssumption
<1> QED
  BY <1>3, <1>4 DEF f, g, CarriedOf

(* The sum is a whole number.                                               *)
LEMMA CarriedInt == ASSUME ForeignInv PROVE CarriedOf(invoices) \in Int
<1> DEFINE f == [j \in Invoices |-> invoices[j].base_balance]
<1>1. \A j \in Invoices : f[j] \in Int
  BY DEF ForeignInv, RowInv, Invoice
<1> HIDE DEF f
<1>2. SumFunctionOnSet(f, Invoices) \in Int
  BY <1>1, SumInt, ForeignAssumption DEF ForeignAssumption
<1> QED
  BY <1>2 DEF f, CarriedOf

(* A request about one invoice keeps the books when its AR line is the      *)
(* change of the carrying value.                                            *)
LEMMA OneRowBooks ==
  ASSUME BooksInv, ForeignInv', NEW i \in Invoices, NEW new,
         invoices' = [invoices EXCEPT ![i] = new],
         new.status # "ABSENT", new.base_balance \in Int,
         NEW lines, \A a \in DOMAIN lines : lines[a] \in Int,
         "AR" \in DOMAIN lines,
         lines["AR"] = new.base_balance - invoices[i].base_balance,
         Post(lines)
  PROVE  BooksInv'
<1>1. /\ gl' \in [Accounts -> Int]
      /\ gl'["AR"] = gl["AR"] + lines["AR"]
  BY PostedAccounts, AccountNames DEF BooksInv
<1>2. CarriedOf(invoices') = CarriedOf(invoices) + (new.base_balance - invoices[i].base_balance)
  BY CarriedOneRow DEF BooksInv
<1>3. gl["AR"] = CarriedOf(invoices)
  BY ReconciledSums DEF BooksInv
<1>4. gl'["AR"] = CarriedOf(invoices')
  BY <1>1, <1>2, <1>3
<1>5. AbsentEmpty'
  BY DEF BooksInv, AbsentEmpty, ForeignInv
<1> QED
  BY <1>1, <1>4, <1>5, ReconciledSums DEF BooksInv

-----------------------------------------------------------------------------
(* The entry of an approval carries the new invoice at its base total.      *)
LEMMA PostInvoiceKeepsBooks ==
  ASSUME BooksInv, NEW i \in Invoices, NEW s \in Subtotals,
         NEW t \in Taxes, NEW r \in Rates, PostInvoice(i, s, t, r)
  PROVE  BooksInv' /\ Imbalance' = Imbalance
<1> DEFINE x == ToBase(s, r)
           y == ToBase(t, r)
           new == [Absent EXCEPT !.status = "OPEN", !.rate = r, !.subtotal = s,
                          !.tax = t, !.balance = s + t,
                          !.base_total = x + y, !.base_balance = x + y]
           lines == [AR |-> x + y, REVENUE |-> -x, TAX_PAYABLE |-> -y]
<1>1. x \in Nat /\ y \in Nat
  <2>1. s * r \in Nat /\ t * r \in Nat
    BY ForeignAssumption DEF ForeignAssumption
  <2> QED
    BY <2>1, HalfUpIsClose, ForeignAssumption DEF ToBase
<1>2. ForeignInv'
  BY PostInvoiceKeepsRows, ForeignAssumption DEF BooksInv
<1>3. invoices' = [invoices EXCEPT ![i] = new] /\ Post(lines)
  BY DEF PostInvoice
<1>4. new.status = "OPEN" /\ new.base_balance = x + y
  BY DEF Absent
<1>5. invoices[i].base_balance = 0
  BY DEF PostInvoice, BooksInv, AbsentEmpty
<1> HIDE DEF x, y, new
<1>6. /\ DOMAIN lines = {"AR", "REVENUE", "TAX_PAYABLE"}
      /\ lines["AR"] = x + y /\ lines["REVENUE"] = -x /\ lines["TAX_PAYABLE"] = -y
  OBVIOUS
<1> HIDE DEF lines
<1>7. \A a \in DOMAIN lines : lines[a] \in Int
  BY <1>1, <1>6
<1>8. BooksInv'
  <2>1. new.base_balance \in Int /\ new.status # "ABSENT" /\ "AR" \in DOMAIN lines
    BY <1>1, <1>4, <1>6
  <2>2. lines["AR"] = new.base_balance - invoices[i].base_balance
    BY <1>1, <1>4, <1>5, <1>6
  <2> QED
    BY <1>2, <1>3, <1>7, <2>1, <2>2, OneRowBooks
<1>9. SumFunctionOnSet(lines, {"AR", "REVENUE", "TAX_PAYABLE"})
        = lines["AR"] + (lines["REVENUE"] + lines["TAX_PAYABLE"])
  BY <1>6, <1>7, SumOfThree
<1>10. SumFunctionOnSet(lines, DOMAIN lines) = 0
  BY <1>1, <1>6, <1>9
<1>11. DOMAIN lines \subseteq Accounts
  BY <1>6, AccountNames
<1>12. Imbalance' = Imbalance
  BY <1>3, <1>7, <1>10, <1>11, PostedImbalance DEF BooksInv
<1> QED
  BY <1>8, <1>12

(* A write-off takes the carrying value off AR.                             *)
LEMMA WriteOffKeepsBooks ==
  ASSUME BooksInv, NEW i \in Invoices, WriteOff(i)
  PROVE  BooksInv' /\ Imbalance' = Imbalance
<1> DEFINE x == invoices[i].base_balance
           new == [invoices[i] EXCEPT !.status = "WRITTEN_OFF", !.balance = 0,
                                      !.base_balance = 0]
           lines == [BAD_DEBT |-> x, AR |-> -x]
<1>1. x \in Nat
  BY DEF BooksInv, ForeignInv, RowInv, Invoice
<1>2. ForeignInv'
  BY WriteOffKeepsRows, ForeignAssumption DEF BooksInv
<1>3. invoices' = [invoices EXCEPT ![i] = new] /\ Post(lines)
  BY DEF WriteOff, BooksInv, ForeignInv, RowInv, Invoice
<1>4. new.status = "WRITTEN_OFF" /\ new.base_balance = 0
  BY DEF BooksInv, ForeignInv, RowInv, Invoice
<1>5. invoices[i].base_balance = x
  OBVIOUS
<1> HIDE DEF x, new
<1>6. /\ DOMAIN lines = {"BAD_DEBT", "AR"}
      /\ lines["AR"] = -x /\ lines["BAD_DEBT"] = x
  OBVIOUS
<1> HIDE DEF lines
<1>7. \A a \in DOMAIN lines : lines[a] \in Int
  BY <1>1, <1>6
<1>8. BooksInv'
  <2>1. new.base_balance \in Int /\ new.status # "ABSENT" /\ "AR" \in DOMAIN lines
    BY <1>4, <1>6
  <2>2. lines["AR"] = new.base_balance - invoices[i].base_balance
    BY <1>1, <1>4, <1>5, <1>6
  <2> QED
    BY <1>2, <1>3, <1>7, <2>1, <2>2, OneRowBooks
<1>9. SumFunctionOnSet(lines, {"BAD_DEBT", "AR"}) = lines["BAD_DEBT"] + lines["AR"]
  BY <1>6, <1>7, SumOfTwo
<1>10. SumFunctionOnSet(lines, DOMAIN lines) = 0
  BY <1>1, <1>6, <1>9
<1>11. DOMAIN lines \subseteq Accounts
  BY <1>6, AccountNames
<1>12. Imbalance' = Imbalance
  BY <1>3, <1>7, <1>10, <1>11, PostedImbalance DEF BooksInv
<1> QED
  BY <1>8, <1>12

(* The base values of the parts of a receipt add up to what the receipt is  *)
(* worth without the rest: the last part takes the residual.                *)
LEMMA PartsAddUp ==
  ASSUME NEW alloc, IsFiniteSet(DOMAIN alloc), NEW last \in DOMAIN alloc,
         NEW rest \in Nat, NEW rate \in Nat, \A i \in DOMAIN alloc : alloc[i] \in Nat
  PROVE  /\ ToBase(SumFunction(alloc) + rest, rate) \in Nat
         /\ ToBase(rest, rate) \in Nat
         /\ \A i \in DOMAIN alloc : BaseParts(alloc, last, rest, rate)[i] \in Int
         /\ SumFunctionOnSet(BaseParts(alloc, last, rest, rate), DOMAIN alloc)
              = ToBase(SumFunction(alloc) + rest, rate) - ToBase(rest, rate)
<1> DEFINE D == DOMAIN alloc
           E == D \ {last}
           others == [i \in D \ {last} |-> ToBase(alloc[i], rate)]
           total == SumFunctionOnSet(alloc, D)
           worth == ToBase(total + rest, rate)
           left == ToBase(rest, rate)
           rem == SumFunctionOnSet(others, E)
           parts == BaseParts(alloc, last, rest, rate)
<1>1. \A n \in Nat : ToBase(n, rate) \in Nat
  <2> SUFFICES ASSUME NEW n \in Nat PROVE ToBase(n, rate) \in Nat
    OBVIOUS
  <2>1. n * rate \in Nat
    OBVIOUS
  <2> QED
    BY <2>1, HalfUpIsClose, ForeignAssumption DEF ToBase
<1>2. IsFiniteSet(E) /\ last \in D /\ E \subseteq D
  BY FS_RemoveElement
<1>3. \A i \in E : others[i] \in Int /\ others[i] = ToBase(alloc[i], rate)
  BY <1>1
<1>4. total \in Nat
  BY SumNat
<1>5. worth \in Nat /\ left \in Nat
  <2>1. total + rest \in Nat
    BY <1>4
  <2> QED
    BY <1>1, <2>1
<1>6. SumFunction(alloc) = total /\ SumFunction(others) = rem
  BY DEF SumFunction
<1>7. parts = [i \in D |-> IF i = last THEN (worth - left) - rem ELSE others[i]]
  BY <1>6 DEF BaseParts
<1> HIDE DEF D, E, others, total, worth, left, rem, parts
<1>8. rem \in Int
  BY <1>2, <1>3, SumInt DEF rem
<1>9. /\ \A i \in D : parts[i] \in Int
      /\ parts[last] = (worth - left) - rem
      /\ \A i \in E : others[i] \in Int /\ parts[i] = others[i]
  <2>1. \A i \in E : parts[i] = others[i]
    BY <1>2, <1>7 DEF E
  <2>2. parts[last] = (worth - left) - rem
    BY <1>2, <1>7
  <2>3. \A i \in D : i \in E \/ i = last
    BY DEF E
  <2> QED
    BY <1>3, <1>5, <1>8, <2>1, <2>2, <2>3
<1>10. SumFunctionOnSet(parts, E) = rem
  BY <1>2, <1>9, SumSame DEF rem
<1>11. SumFunctionOnSet(parts, D) = parts[last] + SumFunctionOnSet(parts, E)
  <2>1. IsFiniteSet(D)
    BY DEF D
  <2> QED
    BY <1>2, <1>9, <2>1, SumRemove DEF E
<1>12. SumFunctionOnSet(parts, D) = worth - left
  BY <1>5, <1>8, <1>9, <1>10, <1>11
<1> QED
  BY <1>5, <1>6, <1>9, <1>12 DEF D, parts, worth, left

(* The carrying values of the invoices that a receipt is allocated to go    *)
(* down by what the receipt clears.                                         *)
LEMMA CarriedPart ==
  ASSUME ForeignInv, NEW D, D \subseteq Invoices, NEW cleared,
         \A i \in D : cleared[i] \in Int,
         \A i \in D : invoices'[i].base_balance = invoices[i].base_balance - cleared[i],
         \A i \in Invoices \ D : invoices'[i].base_balance = invoices[i].base_balance
  PROVE  CarriedOf(invoices') = CarriedOf(invoices) - SumFunctionOnSet(cleared, D)
<1> DEFINE f == [i \in Invoices |-> invoices[i].base_balance]
           g == [i \in Invoices |-> invoices'[i].base_balance]
           c == [i \in Invoices |-> IF i \in D THEN cleared[i] ELSE 0]
<1>1. \A i \in Invoices : invoices[i].base_balance \in Int
  BY DEF ForeignInv, RowInv, Invoice
<1>2. IsFiniteSet(Invoices) /\ IsFiniteSet(D)
  BY ForeignAssumption, FS_Subset DEF ForeignAssumption
<1>3. /\ \A i \in Invoices : f[i] \in Int /\ g[i] \in Int /\ c[i] \in Int
      /\ \A i \in Invoices : f[i] = g[i] + c[i]
      /\ \A i \in D : cleared[i] \in Int /\ c[i] = cleared[i]
      /\ \A i \in Invoices \ D : c[i] = 0
  BY <1>1
<1> HIDE DEF f, g, c
<1>4. SumFunctionOnSet(f, Invoices)
        = SumFunctionOnSet(g, Invoices) + SumFunctionOnSet(c, Invoices)
  BY <1>2, <1>3, SumAdd
<1>5. SumFunctionOnSet(c, Invoices) = SumFunctionOnSet(cleared, D)
  BY <1>2, <1>3, SumPart
<1>6. SumFunctionOnSet(g, Invoices) \in Int /\ SumFunctionOnSet(c, Invoices) \in Int
  BY <1>2, <1>3, SumInt
<1>7. SumFunctionOnSet(g, Invoices)
        = SumFunctionOnSet(f, Invoices) - SumFunctionOnSet(cleared, D)
  BY <1>4, <1>5, <1>6
<1> QED
  BY <1>7 DEF f, g, CarriedOf

(* The columns that a settlement changes.                                   *)
LEMMA SettledFields ==
  ASSUME NEW inv \in Invoice, NEW amount, NEW base
  PROVE  /\ DOMAIN Settle(inv, amount, base) = DOMAIN inv
         /\ Settle(inv, amount, base).balance = inv.balance - amount
         /\ Settle(inv, amount, base).base_balance = inv.base_balance - base
         /\ Settle(inv, amount, base).status \in {"PAID", inv.status}
         /\ Settle(inv, amount, base).reversed = inv.reversed
         /\ Settle(inv, amount, base).postings = inv.postings + 1
         /\ Settle(inv, amount, base).tax = inv.tax
         /\ Settle(inv, amount, base).rate = inv.rate
BY DEF Settle, Invoice

(* A receipt takes off AR what it clears at the rates of the invoices, and  *)
(* books the difference to its own value as gain or loss.                   *)
LEMMA CreatePaymentKeepsBooks ==
  ASSUME BooksInv, NEW alloc \in Allocations, NEW last \in DOMAIN alloc,
         NEW rest \in 0 .. MaxRest, NEW r \in Rates, CreatePayment(alloc, last, rest, r)
  PROVE  BooksInv' /\ Imbalance' = Imbalance
<1> DEFINE D == DOMAIN alloc
           parts == BaseParts(alloc, last, rest, r)
           cleared == [i \in D |-> BaseAr(invoices[i], alloc[i])]
           worth == ToBase(SumFunction(alloc) + rest, r)
           left == ToBase(rest, r)
           p == SumFunctionOnSet(parts, D)
           c == SumFunctionOnSet(cleared, D)
           lines == [CASH |-> worth, AR |-> -c, CUSTOMER_CREDIT |-> -left,
                     FX_GAIN_LOSS |-> -(p - c)]
<1>1. D \subseteq Invoices /\ \A i \in D : alloc[i] \in Nat
  BY ForeignAssumption DEF Allocations, ForeignAssumption
<1>2. IsFiniteSet(D) /\ rest \in Nat /\ r \in Nat
  BY <1>1, FS_Subset, ForeignAssumption DEF ForeignAssumption
<1>3. worth \in Nat /\ left \in Nat /\ p = worth - left
  BY <1>1, <1>2, PartsAddUp
<1>4. \A i \in D : cleared[i] \in Int /\ cleared[i] = BaseAr(invoices[i], alloc[i])
  <2> SUFFICES ASSUME NEW i \in D PROVE BaseAr(invoices[i], alloc[i]) \in Int
    OBVIOUS
  <2>1. invoices[i].base_balance \in Nat /\ invoices[i].rate \in Nat
    BY <1>1 DEF BooksInv, ForeignInv, RowInv, Invoice
  <2>2. alloc[i] * invoices[i].rate \in Nat
    BY <1>1, <2>1
  <2>3. ToBase(alloc[i], invoices[i].rate) \in Nat
    BY <2>2, HalfUpIsClose, ForeignAssumption DEF ToBase
  <2> QED
    BY <2>1, <2>3 DEF BaseAr, Lesser
<1>5. DOMAIN parts = D /\ DOMAIN cleared = D
  BY DEF BaseParts
<1>6. /\ \A i \in D : invoices[i].status = "OPEN"
      /\ invoices' = [i \in Invoices |->
           IF i \in D THEN Settle(invoices[i], alloc[i], cleared[i]) ELSE invoices[i]]
      /\ Post(lines)
  <2>1. SumFunction(parts) = p /\ SumFunction(cleared) = c
    BY <1>5 DEF SumFunction
  <2> HIDE DEF worth, left, p, c, parts, cleared
  <2>2. /\ \A i \in D : invoices[i].status = "OPEN"
        /\ invoices' = [i \in Invoices |->
             IF i \in D THEN Settle(invoices[i], alloc[i], cleared[i]) ELSE invoices[i]]
        /\ Post(ReceiptLines(worth, left, parts, cleared))
    BY DEF CreatePayment, worth, left, parts, cleared
  <2> QED
    BY <2>1, <2>2 DEF ReceiptLines
<1>7. ForeignInv'
  BY CreatePaymentKeepsRows, ForeignAssumption DEF BooksInv
<1> HIDE DEF D, parts, cleared, worth, left, p, c
<1>8. c \in Int
  BY <1>2, <1>4, SumInt DEF c
<1>9. /\ DOMAIN lines = {"CASH", "AR", "CUSTOMER_CREDIT", "FX_GAIN_LOSS"}
      /\ lines["CASH"] = worth /\ lines["AR"] = -c
      /\ lines["CUSTOMER_CREDIT"] = -left /\ lines["FX_GAIN_LOSS"] = -(p - c)
  OBVIOUS
<1> HIDE DEF lines
<1>10. /\ \A a \in DOMAIN lines : lines[a] \in Int
       /\ DOMAIN lines \subseteq Accounts
  BY <1>3, <1>8, <1>9, AccountNames
<1>11. /\ gl' \in [Accounts -> Int] /\ gl'["AR"] = gl["AR"] - c /\ gl["AR"] \in Int
  <2>1. /\ gl' \in [Accounts -> Int]
        /\ gl'["AR"] = gl["AR"] + lines["AR"]
        /\ gl["AR"] \in Int
    BY <1>6, <1>9, <1>10, PostedAccounts, AccountNames DEF BooksInv
  <2> QED
    BY <1>8, <1>9, <2>1
<1>12. /\ \A i \in D : /\ invoices'[i].base_balance = invoices[i].base_balance - cleared[i]
                       /\ invoices'[i].status \in {"OPEN", "PAID"}
       /\ \A i \in Invoices \ D : invoices'[i] = invoices[i]
  <2> SUFFICES ASSUME NEW i \in D
               PROVE  /\ invoices'[i].base_balance = invoices[i].base_balance - cleared[i]
                      /\ invoices'[i].status \in {"OPEN", "PAID"}
    BY <1>1, <1>6
  <2>1. invoices[i] \in Invoice /\ invoices'[i] = Settle(invoices[i], alloc[i], cleared[i])
    BY <1>1, <1>6 DEF BooksInv, ForeignInv, RowInv
  <2>2. invoices[i].status = "OPEN"
    BY <1>6
  <2> QED
    BY <2>1, <2>2, SettledFields
<1>13. AbsentEmpty'
  BY <1>12 DEF BooksInv, AbsentEmpty
<1>14. CarriedOf(invoices') = CarriedOf(invoices) - c
  BY <1>1, <1>4, <1>12, CarriedPart DEF BooksInv, c
<1>15. BaseReconciled'
  BY <1>11, <1>14, ReconciledSums DEF BooksInv
<1>16. SumFunctionOnSet(lines, {"CASH", "AR", "CUSTOMER_CREDIT", "FX_GAIN_LOSS"})
         = lines["CASH"] + (lines["AR"] + (lines["CUSTOMER_CREDIT"] + lines["FX_GAIN_LOSS"]))
  BY <1>9, <1>10, SumOfFour
<1>17. SumFunctionOnSet(lines, DOMAIN lines) = 0
  BY <1>3, <1>8, <1>9, <1>16
<1>18. Imbalance' = Imbalance
  BY <1>6, <1>10, <1>17, PostedImbalance DEF BooksInv
<1> QED
  BY <1>7, <1>11, <1>13, <1>15, <1>18 DEF BooksInv

(* What a credit memo leaves of the balance and of the carrying value: it   *)
(* takes no more than there is, and all of the one with all of the other.   *)
LEMMA MemoParts ==
  ASSUME ForeignInv, NEW i \in Invoices, NEW amount \in Nat
  PROVE  LET inv == invoices[i]
             ar == Postings!ArCredit(inv, amount)
             base_ar == MemoBaseAr(inv, ar)
         IN  /\ ar \in Nat /\ ar <= amount /\ ar <= inv.balance
             /\ amount # ar => ar = inv.balance
             /\ base_ar \in Nat /\ base_ar <= inv.base_balance
             /\ ar = inv.balance => base_ar = inv.base_balance
             /\ base_ar \in {inv.base_balance, MemoToBase(ar, inv.rate)}
             /\ MemoToBase(ar, inv.rate) \in Nat
<1> DEFINE inv == invoices[i]
           ar == Postings!ArCredit(inv, amount)
           conv == MemoToBase(ar, inv.rate)
           base_ar == MemoBaseAr(inv, ar)
<1>1. inv.rate \in Nat /\ inv.balance \in Nat /\ inv.base_balance \in Nat
  BY DEF ForeignInv, RowInv, Invoice
<1>2. ar \in Nat /\ ar <= inv.balance /\ ar <= amount /\ (amount # ar => ar = inv.balance)
  BY <1>1 DEF Postings!ArCredit
<1> HIDE DEF ar
<1>3. ar * inv.rate \in Nat
  BY <1>1, <1>2
<1>4. conv \in Nat
  BY <1>3, HalfEvenIsClose, ForeignAssumption DEF MemoToBase
<1>5. base_ar = IF ar = inv.balance THEN inv.base_balance
                ELSE Lesser(conv, inv.base_balance)
  BY DEF MemoBaseAr
<1> HIDE DEF conv, base_ar, inv
<1>6. /\ base_ar \in Nat /\ base_ar <= inv.base_balance
      /\ ar = inv.balance => base_ar = inv.base_balance
      /\ base_ar \in {inv.base_balance, conv}
  BY <1>1, <1>4, <1>5 DEF Lesser
<1> QED
  BY <1>2, <1>4, <1>6 DEF ar, conv, base_ar, inv

(* The lines of a credit memo add up to the sum of the four accounts.       *)
LEMMA MemoLinesSum ==
  ASSUME NEW lines,
         DOMAIN lines = {"REVENUE", "TAX_PAYABLE", "AR", "CUSTOMER_CREDIT"},
         \A a \in DOMAIN lines : lines[a] \in Int
  PROVE  /\ DOMAIN lines \subseteq Accounts
         /\ SumFunctionOnSet(lines, DOMAIN lines)
              = lines["REVENUE"]
                  + (lines["TAX_PAYABLE"] + (lines["AR"] + lines["CUSTOMER_CREDIT"]))
<1>1. DOMAIN lines \subseteq Accounts
  BY AccountNames
<1>2. SumFunctionOnSet(lines, {"REVENUE", "TAX_PAYABLE", "AR", "CUSTOMER_CREDIT"})
        = lines["REVENUE"]
            + (lines["TAX_PAYABLE"] + (lines["AR"] + lines["CUSTOMER_CREDIT"]))
  BY SumOfFour
<1> QED
  BY <1>1, <1>2

(* The columns of an invoice after a credit memo.                           *)
LEMMA MemoRow ==
  ASSUME ForeignInv, NEW i \in Invoices, NEW amount \in Nat, NEW include_tax \in BOOLEAN,
         CreateCreditMemo(i, amount, include_tax), NEW base_ar,
         base_ar = MemoBaseAr(invoices[i], Postings!ArCredit(invoices[i], amount))
  PROVE  \E new : /\ invoices' = [invoices EXCEPT ![i] = new]
                 /\ new.status \in {"PAID", invoices[i].status}
                 /\ new.base_balance = invoices[i].base_balance - base_ar
                 /\ new.postings = invoices[i].postings + 1
                 /\ new.tax = invoices[i].tax
                 /\ new.reversed # invoices[i].reversed
<1> DEFINE inv == invoices[i]
           split == Postings!CreditSplit(inv, inv.reversed, amount, include_tax)
           rem == Postings!Remaining(inv, inv.reversed)
           ar == Postings!ArCredit(inv, amount)
           settled == Settle(inv, ar, base_ar)
           reversed == Postings!AddReversal(settled.reversed, split)
           new == [settled EXCEPT !.reversed = reversed]
<1>1. inv \in Invoice /\ inv.reversed \in Postings!Reversal
  BY DEF ForeignInv, RowInv, Invoice
<1>2. /\ DOMAIN settled = DOMAIN inv
      /\ settled.base_balance = inv.base_balance - base_ar
      /\ settled.status \in {"PAID", inv.status}
      /\ settled.reversed = inv.reversed
      /\ settled.postings = inv.postings + 1
      /\ settled.tax = inv.tax
  BY <1>1, SettledFields
<1>3. invoices' = [invoices EXCEPT ![i] = new] /\ split.subtotal \in 1 .. rem.subtotal
  BY DEF CreateCreditMemo
<1>4. rem.subtotal \in Int
  BY <1>1 DEF Postings!Remaining, Postings!Reversal, Invoice
<1>5. DOMAIN inv = {"status", "rate", "subtotal", "tax", "balance", "base_total",
                    "base_balance", "reversed", "postings"}
  BY <1>1 DEF Invoice
<1> HIDE DEF inv, settled, split, rem
<1>6. reversed # inv.reversed
  <2>1. reversed.subtotal = inv.reversed.subtotal + split.subtotal
    BY <1>2 DEF Postings!AddReversal
  <2>2. inv.reversed.subtotal \in Nat
    BY <1>1 DEF Postings!Reversal
  <2> QED
    BY <1>3, <1>4, <2>1, <2>2
<1> HIDE DEF reversed
<1>7. /\ new.base_balance = settled.base_balance /\ new.status = settled.status
      /\ new.postings = settled.postings /\ new.tax = settled.tax
      /\ new.reversed = reversed
  BY <1>2, <1>5
<1> HIDE DEF new
<1> QED
  BY <1>2, <1>3, <1>6, <1>7 DEF inv

(* A credit memo moves the sum of the books only by closing an invoice at   *)
(* what is left of its carrying value.                                      *)
ClosedByMemo(i) ==
  /\ invoices'[i].reversed # invoices[i].reversed
  /\ invoices[i].base_balance > 0
  /\ invoices'[i].base_balance = 0
  /\ -Conversions(invoices'[i]) <= 2 * (Imbalance' - Imbalance)
  /\ 2 * (Imbalance' - Imbalance) <= Conversions(invoices'[i])

(* The base amount of a credit and what it takes off the carrying value     *)
(* differ by the drift of the invoice at most, if they differ at all.       *)
LEMMA MemoGap ==
  ASSUME ForeignAssumption, NEW inv, RowInv(inv), NEW ar \in Nat, ar <= inv.balance,
         NEW base, base = MemoToBase(ar, inv.rate), base # inv.base_balance,
         ar = inv.balance \/ base > inv.base_balance
  PROVE  /\ -(Conversions(inv) + 1) <= 2 * (base - inv.base_balance)
         /\ 2 * (base - inv.base_balance) <= Conversions(inv) + 1
<1> DEFINE k == Conversions(inv)
           x == inv.base_balance * Scale
           y == inv.balance * inv.rate
           z == ar * inv.rate
           c == base * Scale
           s == k * Scale
           gap == 2 * (base - inv.base_balance)
<1>1. Scale \in Nat /\ Scale > 0
  BY DEF ForeignAssumption
<1>2. /\ inv.balance \in Nat /\ inv.base_balance \in Nat /\ inv.rate \in Nat
      /\ inv.postings \in Nat /\ inv.tax \in Nat
  BY DEF RowInv, Invoice
<1>3. k \in Nat
  BY <1>2 DEF Conversions
<1>4. z \in Nat /\ z <= y /\ y \in Nat /\ (ar = inv.balance => z = y)
  BY <1>2
<1>5. base \in Nat /\ 2 * z - Scale <= 2 * c /\ 2 * c <= 2 * z + Scale
  BY <1>4, HalfEvenIsClose DEF MemoToBase
<1>6. -s <= 2 * x - 2 * y /\ 2 * x - 2 * y <= s
  BY DEF RowInv, Drift
<1>7. /\ gap \in Int /\ gap * Scale = 2 * c - 2 * x
      /\ (k + 1) * Scale = s + Scale /\ -(k + 1) * Scale = -s - Scale
      /\ s \in Nat /\ x \in Nat /\ c \in Nat
  BY <1>1, <1>2, <1>3, <1>5
<1>8. base > inv.base_balance => gap > 0
  BY <1>2, <1>5
<1> HIDE DEF k, x, y, z, c, s, gap
<1>9. gap * Scale <= (k + 1) * Scale
  BY <1>1, <1>4, <1>5, <1>6, <1>7
<1>10. gap <= k + 1
  <2> SUFFICES ASSUME gap >= k + 2 PROVE FALSE
    BY <1>3, <1>7
  <2>1. gap * Scale >= (k + 2) * Scale
    BY <1>1, <1>3, <1>7
  <2>2. (k + 2) * Scale = (k + 1) * Scale + Scale
    BY <1>1, <1>3
  <2> QED
    BY <2>1, <2>2, <1>1, <1>3, <1>7, <1>9
<1>11. -(k + 1) <= gap
  <2>1. CASE base > inv.base_balance
    BY <2>1, <1>3, <1>7, <1>8
  <2>2. CASE ar = inv.balance
    <3>1. -s - Scale <= gap * Scale
      BY <2>2, <1>1, <1>4, <1>5, <1>6, <1>7
    <3> SUFFICES ASSUME gap <= -(k + 2) PROVE FALSE
      BY <1>3, <1>7
    <3>2. gap * Scale <= -(k + 2) * Scale
      BY <1>1, <1>3, <1>7
    <3>3. -(k + 2) * Scale = -s - 2 * Scale
      BY <1>1, <1>3 DEF s
    <3> QED
      BY <3>1, <3>2, <3>3, <1>1, <1>7
  <2> QED
    BY <2>1, <2>2
<1> QED
  BY <1>10, <1>11 DEF k, gap

(* The entry of a credit memo takes off AR what it takes off the carrying   *)
(* value.                                                                   *)
LEMMA CreateCreditMemoKeepsBooks ==
  ASSUME BooksInv, NEW i \in Invoices, NEW amount \in 1 .. MaxAmount,
         NEW include_tax \in BOOLEAN, CreateCreditMemo(i, amount, include_tax)
  PROVE  BooksInv' /\ (Imbalance' = Imbalance \/ ClosedByMemo(i))
<1> DEFINE inv == invoices[i]
           split == Postings!CreditSplit(inv, inv.reversed, amount, include_tax)
           ar == Postings!ArCredit(inv, amount)
           base == MemoToBase(amount, inv.rate)
           base_tax == MemoToBase(split.tax, inv.rate)
           base_ar == MemoBaseAr(inv, ar)
           lines == MemoLines(base, base_tax, base_ar, amount - ar)
<1>1. amount \in Nat /\ amount > 0
  BY ForeignAssumption DEF ForeignAssumption
<1>2. RowInv(inv) /\ inv \in Invoice
  BY DEF BooksInv, ForeignInv, RowInv
<1>3. /\ inv.rate \in Nat /\ inv.balance \in Nat /\ inv.base_balance \in Nat
      /\ inv.postings \in Nat /\ inv.tax \in Nat
      /\ inv.status # "ABSENT"
  <2>1. inv.status # "ABSENT"
    BY DEF CreateCreditMemo
  <2> QED
    BY <1>2, <2>1 DEF Invoice
<1>4. /\ ar \in Nat /\ ar <= amount /\ ar <= inv.balance
      /\ amount # ar => ar = inv.balance
      /\ base_ar \in Nat /\ base_ar <= inv.base_balance
      /\ ar = inv.balance => base_ar = inv.base_balance
      /\ base_ar \in {inv.base_balance, MemoToBase(ar, inv.rate)}
      /\ base_ar = IF ar = inv.balance THEN inv.base_balance
                   ELSE Lesser(MemoToBase(ar, inv.rate), inv.base_balance)
  BY <1>1, MemoParts DEF BooksInv, MemoBaseAr
<1>5. /\ split.tax \in Int
      /\ ar > 0 => base_ar > 0
      /\ Post(lines)
      /\ base_tax \in Int
  <2>1. split.tax \in 0 .. Postings!Remaining(inv, inv.reversed).tax
    BY DEF CreateCreditMemo
  <2>2. Postings!Remaining(inv, inv.reversed).tax \in Int
    BY <1>2 DEF Postings!Remaining, Postings!Reversal, Invoice
  <2>3. split.tax \in Nat
    BY <2>1, <2>2
  <2> HIDE DEF split
  <2>4. split.tax * inv.rate \in Nat
    BY <1>3, <2>3
  <2>5. base_tax \in Int
    BY <2>4, HalfEvenIsClose, ForeignAssumption DEF MemoToBase
  <2>6. (ar > 0 => base_ar > 0) /\ Post(lines)
    BY DEF CreateCreditMemo, split
  <2> QED
    BY <2>3, <2>5, <2>6
<1>6. base \in Nat
  <2>1. amount * inv.rate \in Nat
    BY <1>1, <1>3
  <2> QED
    BY <2>1, HalfEvenIsClose, ForeignAssumption DEF MemoToBase
<1>7. PICK new : /\ invoices' = [invoices EXCEPT ![i] = new]
                 /\ new.status \in {"PAID", inv.status}
                 /\ new.base_balance = inv.base_balance - base_ar
                 /\ new.postings = inv.postings + 1
                 /\ new.tax = inv.tax
                 /\ new.reversed # inv.reversed
  BY <1>1, MemoRow DEF BooksInv
<1>8. /\ \A a \in DOMAIN lines : lines[a] \in Int
      /\ "AR" \in DOMAIN lines /\ DOMAIN lines \subseteq Accounts
      /\ lines["AR"] = -base_ar
      /\ SumFunctionOnSet(lines, DOMAIN lines) = IF amount - ar > 0 THEN 0 ELSE base - base_ar
  <2>1. amount - ar \in Nat
    BY <1>1, <1>4
  <2>2. base \in Int /\ base_tax \in Int /\ base_ar \in Int
    BY <1>4, <1>5, <1>6
  <2> DEFINE on_account == amount - ar
  <2> HIDE DEF base, base_tax, base_ar, ar, on_account
  <2>3. on_account \in Nat
    BY <2>1 DEF on_account
  <2>4. lines = MemoLines(base, base_tax, base_ar, on_account)
    BY DEF on_account
  <2>5. /\ DOMAIN lines = {"REVENUE", "TAX_PAYABLE", "AR", "CUSTOMER_CREDIT"}
        /\ lines["REVENUE"] = base - base_tax /\ lines["TAX_PAYABLE"] = base_tax
        /\ lines["AR"] = -base_ar
        /\ lines["CUSTOMER_CREDIT"] = IF on_account > 0 THEN -(base - base_ar) ELSE 0
    BY <2>4 DEF MemoLines
  <2> HIDE DEF lines
  <2>6. \A a \in DOMAIN lines : lines[a] \in Int
    BY <2>2, <2>5
  <2>7. /\ DOMAIN lines \subseteq Accounts
        /\ SumFunctionOnSet(lines, DOMAIN lines)
             = lines["REVENUE"]
                 + (lines["TAX_PAYABLE"] + (lines["AR"] + lines["CUSTOMER_CREDIT"]))
    BY <2>5, <2>6, MemoLinesSum
  <2>8. SumFunctionOnSet(lines, DOMAIN lines) = IF on_account > 0 THEN 0 ELSE base - base_ar
    <3>1. CASE on_account > 0
      BY <3>1, <2>2, <2>3, <2>5, <2>7
    <3>2. CASE ~(on_account > 0)
      BY <3>2, <2>2, <2>3, <2>5, <2>7
    <3> QED
      BY <3>1, <3>2
  <2> QED
    BY <2>5, <2>6, <2>7, <2>8 DEF on_account
<1>9. ForeignInv'
  BY CreateCreditMemoKeepsRows, ForeignAssumption DEF BooksInv
<1>10. invoices[i] = inv
  OBVIOUS
<1>11. base_ar \in Nat
  BY <1>4
<1> HIDE DEF inv, lines, base_ar, ar, base
<1>12. BooksInv'
  <2>1. new.base_balance \in Int /\ new.status # "ABSENT"
    BY <1>3, <1>7, <1>11
  <2>2. lines["AR"] = new.base_balance - invoices[i].base_balance
    BY <1>3, <1>7, <1>8, <1>10, <1>11
  <2> QED
    BY <1>5, <1>7, <1>8, <1>9, <2>1, <2>2, OneRowBooks
<1>13. /\ Imbalance' = Imbalance + SumFunctionOnSet(lines, DOMAIN lines)
       /\ Imbalance \in Int
  BY <1>5, <1>8, PostedImbalance DEF BooksInv
<1>14. ASSUME Imbalance' # Imbalance PROVE ClosedByMemo(i)
  <2>1. amount = ar /\ Imbalance' - Imbalance = base - base_ar /\ base # base_ar
    BY <1>1, <1>4, <1>6, <1>8, <1>11, <1>13, <1>14
  <2>2. base = MemoToBase(ar, inv.rate)
    BY <2>1 DEF base
  <2>3. base_ar = inv.base_balance
    BY <1>4, <2>1, <2>2
  <2>4. ar = inv.balance \/ base > inv.base_balance
    BY <1>3, <1>4, <1>6, <2>1, <2>2, <2>3 DEF Lesser
  <2>5. /\ -(Conversions(inv) + 1) <= 2 * (base - inv.base_balance)
        /\ 2 * (base - inv.base_balance) <= Conversions(inv) + 1
    BY <1>2, <1>4, <2>1, <2>2, <2>3, <2>4, MemoGap, ForeignAssumption
  <2>6. Conversions(new) = Conversions(inv) + 1
    BY <1>3, <1>7 DEF Conversions
  <2>7. invoices'[i] = new
    BY <1>7 DEF BooksInv, ForeignInv
  <2>8. inv.base_balance > 0 /\ new.base_balance = 0
    BY <1>1, <1>3, <1>5, <1>7, <2>1, <2>3
  <2> QED
    BY <1>7, <1>10, <2>1, <2>3, <2>5, <2>6, <2>7, <2>8 DEF ClosedByMemo
<1> QED
  BY <1>12, <1>14

(* Nothing is on the books before the first invoice.                        *)
LEMMA InitBooks == ASSUME Init PROVE BooksInv
<1>1. ForeignInv
  BY InitialRows, ForeignAssumption
<1>2. AbsentEmpty
  BY DEF Init, AbsentEmpty, Absent
<1>3. gl \in [Accounts -> Int] /\ gl["AR"] = 0
  BY AccountNames DEF Init
<1>4. CarriedOf(invoices) = 0
  <2> DEFINE f == [i \in Invoices |-> invoices[i].base_balance]
  <2>1. \A i \in Invoices : f[i] = 0
    BY DEF Init, Absent
  <2> HIDE DEF f
  <2>2. SumFunctionOnSet(f, Invoices) = 0
    BY <2>1, SumZero, ForeignAssumption DEF ForeignAssumption
  <2> QED
    BY <2>2 DEF f, CarriedOf
<1> QED
  BY <1>1, <1>2, <1>3, <1>4, ReconciledSums DEF BooksInv

(* Every request keeps the books, and only a credit memo that closes an     *)
(* invoice moves the sum of the accounts.                                   *)
LEMMA BooksInductive ==
  ASSUME BooksInv, [Next]_vars
  PROVE  BooksInv' /\ (Imbalance' = Imbalance \/ \E i \in Invoices : ClosedByMemo(i))
<1>1. CASE \E i \in Invoices, s \in Subtotals, t \in Taxes, r \in Rates :
             PostInvoice(i, s, t, r)
  BY <1>1, PostInvoiceKeepsBooks
<1>2. CASE \E alloc \in Allocations, rest \in 0 .. MaxRest, r \in Rates :
             \E last \in DOMAIN alloc : CreatePayment(alloc, last, rest, r)
  BY <1>2, CreatePaymentKeepsBooks
<1>3. CASE \E i \in Invoices, amount \in 1 .. MaxAmount, include_tax \in BOOLEAN :
             CreateCreditMemo(i, amount, include_tax)
  BY <1>3, CreateCreditMemoKeepsBooks
<1>4. CASE \E i \in Invoices : WriteOff(i)
  BY <1>4, WriteOffKeepsBooks
<1>5. CASE UNCHANGED vars
  BY <1>5 DEF vars, BooksInv, ForeignInv, AbsentEmpty, BaseReconciled, Imbalance
<1> QED
  BY <1>1, <1>2, <1>3, <1>4, <1>5 DEF Next

(* The inductive invariant of the books holds always.                       *)
THEOREM BooksInvariance == Spec => []BooksInv
<1>1. Init => BooksInv
  BY InitBooks
<1>2. BooksInv /\ [Next]_vars => BooksInv'
  BY BooksInductive
<1> QED
  BY <1>1, <1>2, PTL DEF Spec

(* The tables and the accounts have their types.                            *)
THEOREM ForeignTypes == Spec => []TypeOK
<1>1. BooksInv => TypeOK
  BY DEF BooksInv, ForeignInv, RowInv, InvoicesOK, TypeOK
<1> QED
  BY <1>1, BooksInvariance, PTL

(* The AR account is what the open invoices are carried at, for any number  *)
(* of invoices and whatever the receipts and credit memos were worth.       *)
THEOREM ForeignReconciled == Spec => []BaseReconciled
<1>1. BooksInv => BaseReconciled
  BY DEF BooksInv
<1> QED
  BY <1>1, BooksInvariance, PTL

(* No receipt, approval or write-off parts the debits from the credits, and *)
(* a credit memo does so only when it closes an invoice, by half a unit per *)
(* conversion at most.                                                      *)
THEOREM ImbalanceExplained == Spec => OnlyClosingMemosUnbalance
<1> DEFINE Explained ==
      Imbalance' # Imbalance =>
        \E i \in Invoices :
          /\ invoices'[i].reversed # invoices[i].reversed
          /\ invoices[i].base_balance > 0
          /\ invoices'[i].base_balance = 0
          /\ LET gap == 2 * (Imbalance' - Imbalance)
                 bound == Conversions(invoices'[i])
             IN  -bound <= gap /\ gap <= bound
<1>1. BooksInv /\ [Next]_vars => [Explained]_vars
  BY BooksInductive DEF ClosedByMemo
<1>2. Spec => [][Explained]_vars
  BY <1>1, BooksInvariance, PTL DEF Spec
<1> QED
  BY <1>2 DEF OnlyClosingMemosUnbalance
=============================================================================
