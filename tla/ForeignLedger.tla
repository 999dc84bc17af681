--------------------------- MODULE ForeignLedger ---------------------------
(***************************************************************************)
(* Invoices in a foreign currency: each is carried in the general ledger   *)
(* in base currency at the rate of its own date, receipts arrive at the    *)
(* rate of theirs, and every conversion rounds to the stored unit.         *)
(*                                                                         *)
(* Amounts are whole numbers of the smallest stored unit of their          *)
(* currency; a rate r stands for r / Scale base units per unit.  Requests  *)
(* run one at a time (InvoiceTransactions has their overlap) and find all  *)
(* GL accounts.  "OPEN" is APPROVED, SENT or PARTIALLY_PAID: InvoiceLedger *)
(* tells them apart.  A step whose rows the CHECK constraints of the       *)
(* tables refuse is rolled back, so it is not a step.                      *)
(***************************************************************************)
EXTENDS Integers, FiniteSetsExt

CONSTANTS
  Invoices,            \* invoices of one customer, entity and currency
  Scale,               \* rates are whole multiples of 1 / Scale
  Rates,               \* bound: the approved rates
  Subtotals, Taxes,    \* bound: the amounts of an invoice
  MaxAmount,           \* bound: the largest allocation or credit memo
  MaxRest,             \* bound: the part of a receipt no invoice takes
  MaxPostings          \* bound: receipts and credit memos on an invoice

ASSUME ForeignAssumption ==
  /\ IsFiniteSet(Invoices)
  /\ Scale \in Nat \ {0}
  /\ Rates \subseteq Nat \ {0}
  /\ Subtotals \subseteq Nat \ {0}
  /\ Taxes \subseteq Nat
  /\ MaxAmount \in Nat
  /\ MaxRest \in Nat
  /\ MaxPostings \in Nat

VARIABLES
  invoices,   \* table invoice
  gl          \* the base columns of the journal per account; a debit is positive

vars == <<invoices, gl>>

(* How a credit memo splits its amount is the same in every currency.       *)
Postings == INSTANCE InvoicePostings WITH
  Users <- {}, NoUser <- "NULL", Chart <- {}, MaxVersion <- 0

Accounts == Postings!Accounts \cup {"FX_GAIN_LOSS"}

Invoice ==
  [status : {"ABSENT", "OPEN", "PAID", "WRITTEN_OFF"}, rate : Nat,
   subtotal : Nat, tax : Nat, balance : Nat, base_total : Nat, base_balance : Nat,
   reversed : Postings!Reversal,
   postings : Nat]   \* its rows in payment_allocation and credit_memo

Absent ==
  [status |-> "ABSENT", rate |-> 0, subtotal |-> 0, tax |-> 0, balance |-> 0,
   base_total |-> 0, base_balance |-> 0, reversed |-> Postings!NoReversal,
   postings |-> 0]

Init ==
  /\ invoices = [i \in Invoices |-> Absent]
  /\ gl = [a \in Accounts |-> 0]

Lesser(a, b) == IF a < b THEN a ELSE b

(* A journal entry: what it adds to each account.                           *)
Post(lines) ==
  gl' = [a \in Accounts |-> gl[a] + IF a \in DOMAIN lines THEN lines[a] ELSE 0]

-----------------------------------------------------------------------------
(* Conversion.                                                              *)

RoundDown(n) == n \div Scale \* faulty: the fraction is dropped

HalfUp(n) == (2 * n + Scale) \div (2 * Scale)

HalfEven(n) ==
  IF (2 * n + Scale) % (2 * Scale) = 0 /\ HalfUp(n) % 2 = 1
  THEN HalfUp(n) - 1 ELSE HalfUp(n)

ToBase(amount, rate) == HalfUp(amount * rate)

(* credit_memos.py rounds with the default of the decimal module.           *)
MemoToBase(amount, rate) == HalfEven(amount * rate)

-----------------------------------------------------------------------------
(* POST /invoices and its approval.                                         *)

PostInvoice(i, subtotal, tax, rate) ==
  LET base_subtotal == ToBase(subtotal, rate)
      base_tax == ToBase(tax, rate)
      base_total == base_subtotal + base_tax
  IN  /\ invoices[i].status = "ABSENT"
      /\ base_subtotal > 0
      /\ tax > 0 => base_tax > 0
      /\ invoices' = [invoices EXCEPT ![i] =
           [Absent EXCEPT !.status = "OPEN", !.rate = rate, !.subtotal = subtotal,
                          !.tax = tax, !.balance = subtotal + tax,
                          !.base_total = base_total, !.base_balance = base_total]]
      /\ Post([AR |-> base_total, REVENUE |-> -base_subtotal, TAX_PAYABLE |-> -base_tax])

-----------------------------------------------------------------------------
(* POST /payments.  What a part of a receipt releases of the carrying       *)
(* value: all that is left when it pays the balance.                        *)

BaseArConverted(inv, amount) == \* faulty: the last part is converted as well
  Lesser(ToBase(amount, inv.rate), inv.base_balance)

BaseArUnbounded(inv, amount) == \* faulty: no minimum with what is left
  IF amount = inv.balance THEN inv.base_balance ELSE ToBase(amount, inv.rate)

BaseAr(inv, amount) ==
  IF amount = inv.balance THEN inv.base_balance
  ELSE Lesser(ToBase(amount, inv.rate), inv.base_balance)

Settle(inv, amount, base) ==
  [inv EXCEPT !.balance = @ - amount, !.base_balance = @ - base,
              !.status = IF amount = inv.balance THEN "PAID" ELSE @,
              !.postings = @ + 1]

(* The base value of each part of a receipt; the last one takes the         *)
(* rounding residual.                                                       *)
BasePartsUnadjusted(alloc, last, rest, rate) == \* faulty: no residual
  [i \in DOMAIN alloc \cup {last} |-> ToBase(alloc[i], rate + 0 * rest)]

BaseParts(alloc, last, rest, rate) ==
  LET allocated == ToBase(SumFunction(alloc) + rest, rate) - ToBase(rest, rate)
      others == [i \in DOMAIN alloc \ {last} |-> ToBase(alloc[i], rate)]
  IN  [i \in DOMAIN alloc |->
         IF i = last THEN allocated - SumFunction(others) ELSE others[i]]

ReceiptLinesAtItsRate(paid, rest, parts, cleared) == \* faulty: AR at the receipt's rate
  [CASH |-> paid, AR |-> -SumFunction(parts), CUSTOMER_CREDIT |-> -rest,
   FX_GAIN_LOSS |-> 0 * SumFunction(cleared)]

ReceiptLines(paid, rest, parts, cleared) ==
  [CASH |-> paid, AR |-> -SumFunction(cleared), CUSTOMER_CREDIT |-> -rest,
   FX_GAIN_LOSS |-> -(SumFunction(parts) - SumFunction(cleared))]

(* "last" is the allocation that comes last, by due date (AUTO) or in the   *)
(* request (MANUAL).                                                        *)
CreatePayment(alloc, last, rest, rate) ==
  LET parts == BaseParts(alloc, last, rest, rate)
      cleared == [i \in DOMAIN alloc |-> BaseAr(invoices[i], alloc[i])]
  IN  /\ \A i \in DOMAIN alloc :
           /\ invoices[i].status = "OPEN"
           /\ alloc[i] <= invoices[i].balance
           /\ invoices[i].postings < MaxPostings
           /\ parts[i] > 0
           /\ cleared[i] > 0
      /\ rest > 0 => ToBase(rest, rate) > 0
      /\ invoices' = [i \in Invoices |->
           IF i \in DOMAIN alloc THEN Settle(invoices[i], alloc[i], cleared[i])
           ELSE invoices[i]]
      /\ Post(ReceiptLines(ToBase(SumFunction(alloc) + rest, rate), ToBase(rest, rate),
                           parts, cleared))

-----------------------------------------------------------------------------
(* POST /invoices/{id}/credit-memos.                                        *)

MemoBaseAr(inv, amount) ==
  IF amount = inv.balance THEN inv.base_balance
  ELSE Lesser(MemoToBase(amount, inv.rate), inv.base_balance)

MemoLinesToAr(base, base_tax, base_ar, on_account) == \* faulty: no line for the customer
  [REVENUE |-> base - base_tax, TAX_PAYABLE |-> base_tax,
   AR |-> -base_ar, CUSTOMER_CREDIT |-> 0 * on_account]

(* The line of the customer account is written when the memo exceeds the    *)
(* balance, and carries what AR does not.                                   *)
MemoLines(base, base_tax, base_ar, on_account) ==
  [REVENUE |-> base - base_tax, TAX_PAYABLE |-> base_tax,
   AR |-> -base_ar,
   CUSTOMER_CREDIT |-> IF on_account > 0 THEN -(base - base_ar) ELSE 0]

CreateCreditMemo(i, amount, include_tax) ==
  LET inv == invoices[i]
      split == Postings!CreditSplit(inv, inv.reversed, amount, include_tax)
      rem == Postings!Remaining(inv, inv.reversed)
      ar == Postings!ArCredit(inv, amount)
      base == MemoToBase(amount, inv.rate)
      base_tax == MemoToBase(split.tax, inv.rate)
      base_ar == MemoBaseAr(inv, ar)
  IN  /\ inv.status \in {"OPEN", "PAID"}
      /\ inv.postings < MaxPostings
      /\ amount <= rem.subtotal + rem.tax
      /\ split.subtotal \in 1 .. rem.subtotal
      /\ split.tax \in 0 .. rem.tax
      /\ base - base_tax > 0
      /\ split.tax > 0 => base_tax > 0
      /\ ar > 0 => base_ar > 0
      /\ amount > ar => base - base_ar > 0
      /\ invoices' = [invoices EXCEPT ![i] =
           [Settle(inv, ar, base_ar) EXCEPT
              !.reversed = Postings!AddReversal(@, split)]]
      /\ Post(MemoLines(base, base_tax, base_ar, amount - ar))

-----------------------------------------------------------------------------
(* POST /invoices/{id}/writeoff.                                            *)

WriteOff(i) ==
  /\ invoices[i].status = "OPEN"
  /\ invoices[i].base_balance > 0
  /\ invoices' = [invoices EXCEPT ![i].status = "WRITTEN_OFF", ![i].balance = 0,
                                  ![i].base_balance = 0]
  /\ Post([BAD_DEBT |-> invoices[i].base_balance, AR |-> -invoices[i].base_balance])

-----------------------------------------------------------------------------
Allocations == UNION {[S -> 1 .. MaxAmount] : S \in (SUBSET Invoices) \ {{}}}

Next ==
  \/ \E i \in Invoices, s \in Subtotals, t \in Taxes, r \in Rates : PostInvoice(i, s, t, r)
  \/ \E alloc \in Allocations, rest \in 0 .. MaxRest, r \in Rates :
       \E last \in DOMAIN alloc : CreatePayment(alloc, last, rest, r)
  \/ \E i \in Invoices, amount \in 1 .. MaxAmount, include_tax \in BOOLEAN :
       CreateCreditMemo(i, amount, include_tax)
  \/ \E i \in Invoices : WriteOff(i)

Spec == Init /\ [][Next]_vars

-----------------------------------------------------------------------------
(* Type correctness, with the bounds of invoice_balance_valid and           *)
(* invoice_base_balance_valid.                                              *)
InvoicesOK ==
  /\ invoices \in [Invoices -> Invoice]
  /\ \A i \in Invoices :
       /\ invoices[i].balance <= invoices[i].subtotal + invoices[i].tax
       /\ invoices[i].base_balance <= invoices[i].base_total

TypeOK == InvoicesOK /\ gl \in [Accounts -> Int]

(* The AR account carries the open invoices at their own rates, whatever    *)
(* the rates of the receipts (the comparison of the health endpoint).       *)
BaseReconciled ==
  gl["AR"] = SumFunction([i \in Invoices |-> invoices[i].base_balance])

(* The conversions an invoice has been through: of its one or two parts,    *)
(* and of each amount posted against it.                                    *)
Conversions(inv) == inv.postings + IF inv.tax = 0 THEN 1 ELSE 2

(* Rounding never builds up beyond half a unit per conversion: what an      *)
(* invoice is carried at stays next to the value of its balance at its      *)
(* locked rate (fx-rate-design.md: "to avoid accumulated rounding drift").  *)
CarryingValueTracksBalance ==
  \A i \in Invoices :
    LET inv == invoices[i]
        drift == 2 * inv.base_balance * Scale - 2 * inv.balance * inv.rate
        bound == Conversions(inv) * Scale
    IN  -bound <= drift /\ drift <= bound

(* An invoice that is settled in its currency leaves nothing on the books,  *)
(* however many parts it was paid in and whatever they were rounded to.     *)
SettledExactly ==
  \A i \in Invoices : invoices[i].balance = 0 => invoices[i].base_balance = 0

Imbalance == SumFunction(gl)

(* Every journal entry balances in base currency (001_init.sql: "Debits     *)
(* must equal credits per journal entry, in both transaction and base       *)
(* currency").                                                              *)
EntriesBalance == Imbalance = 0

(* The parts of a receipt, the gain or loss on each and what is left for    *)
(* the customer add up to the cash, however it is split and rounded: only a *)
(* credit memo that takes the rest of an invoice's carrying value parts     *)
(* the debits from the credits, by no more than the rounding that the       *)
(* invoice has gathered.                                                    *)
OnlyClosingMemosUnbalance ==
  [][Imbalance' # Imbalance =>
       \E i \in Invoices :
         /\ invoices'[i].reversed # invoices[i].reversed
         /\ invoices[i].base_balance > 0
         /\ invoices'[i].base_balance = 0
         /\ LET gap == 2 * (Imbalance' - Imbalance)
                bound == Conversions(invoices'[i])
            IN  -bound <= gap /\ gap <= bound]_vars
=============================================================================
