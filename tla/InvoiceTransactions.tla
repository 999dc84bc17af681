------------------------ MODULE InvoiceTransactions ------------------------
(***************************************************************************)
(* The receivables API as PostgreSQL runs it: sessions whose transactions  *)
(* overlap.  A request begins by looking up its idempotency key, reading   *)
(* the invoices it is about and checking its conditions; other sessions    *)
(* commit; then it commits under its own isolation, or aborts.             *)
(*                                                                         *)
(*   CREATE                  READ COMMITTED                                *)
(*   EDIT, APPROVE, REJECT   READ COMMITTED, UPDATE ... WHERE version = n   *)
(*   CREDIT                  READ COMMITTED, SELECT ... FOR UPDATE first    *)
(*   WRITE_OFF               READ COMMITTED, plain SELECT, plain UPDATE     *)
(*   VOID                    REPEATABLE READ                                *)
(*   PAY_MANUAL, PAY_AUTO    SERIALIZABLE, SELECT ... FOR UPDATE            *)
(*                                                                         *)
(* Writes of a transaction are seen by others only once it commits, and    *)
(* its row locks and key insert make later writers of the same row or key  *)
(* wait until then; so one step for everything from the first write to the *)
(* commit, enabled when nothing that conflicts came between, loses no      *)
(* behaviour.  A session that would wait for ever, lose a conflict or die  *)
(* aborts.                                                                 *)
(***************************************************************************)
EXTENDS InvoicePostings, AutoAllocation, FiniteSetsExt

CONSTANTS
  Invoices, Subtotals, Taxes, MaxAmount, CreditLimit,   \* as in InvoiceLedger
  Sessions,    \* database sessions, one request each at a time
  Keys,        \* the X-Idempotency-Key values clients use
  Operations   \* bound: the operations this instance has requests for

ASSUME TransactionAssumption ==
  /\ Invoices \subseteq Nat
  /\ IsFiniteSet(Invoices)
  /\ Subtotals \subseteq Nat
  /\ Taxes \subseteq Nat
  /\ MaxAmount \in Nat
  /\ CreditLimit \in Nat

VARIABLES
  rows, books, credited, outbox, onAccount,   \* committed, as in InvoiceLedger
  tuple,   \* how often the row of each invoice was written
  done,    \* table idempotency_key: the requests that committed
  sess     \* what each session has read and is about to do

ledgerVars == <<rows, books, credited, outbox, onAccount>>
vars == <<rows, books, credited, outbox, onAccount, tuple, done, sess>>

Ledger == INSTANCE InvoiceLedger

-----------------------------------------------------------------------------
(* Requests.  A client sends the version it just read as If-Match, so the   *)
(* version is not a parameter: an older one is refused without effect.      *)
CreateRequests ==
  [op : {"CREATE"}, key : Keys, user : Users, subtotal : Subtotals, tax : Taxes]
EditRequests ==
  [op : {"EDIT"}, key : Keys, inv : Invoices, subtotal : Subtotals, tax : Taxes]
DecideRequests ==
  [op : {"APPROVE", "REJECT"}, key : Keys, inv : Invoices, user : Users]
CreditRequests ==
  [op : {"CREDIT"}, key : Keys, inv : Invoices, user : Users,
   amount : 1 .. MaxAmount, include_tax : BOOLEAN]
CloseRequests ==
  [op : {"WRITE_OFF", "VOID"}, key : Keys, inv : Invoices]
ManualRequests ==
  [op : {"PAY_MANUAL"}, key : Keys, alloc : Ledger!Allocations,
   rest : 0 .. MaxAmount]
AutoRequests == [op : {"PAY_AUTO"}, key : Keys, amount : 1 .. MaxAmount]

Requests ==
  {q \in CreateRequests \cup EditRequests \cup DecideRequests
         \cup CreditRequests \cup CloseRequests \cup ManualRequests
         \cup AutoRequests : q.op \in Operations}

(* What the unique constraint of table idempotency_key compares: approve    *)
(* and reject share an endpoint, and so do the two ways to pay.             *)
Endpoint(q) ==
  CASE q.op = "CREATE" -> <<"POST /invoices">>
    [] q.op \in {"PAY_MANUAL", "PAY_AUTO"} -> <<"POST /payments">>
    [] q.op \in {"APPROVE", "REJECT"} -> <<"POST approve", q.inv>>
    [] OTHER -> <<q.op, q.inv>>

Claims(p, q) == p.key = q.key /\ Endpoint(p) = Endpoint(q)

(* Neither a replay nor a reuse of the key with another body has an effect. *)
KeyUnused(q) == ~\E p \in done : Claims(p, q)

-----------------------------------------------------------------------------
(* The receipt of an AUTO payment goes to the open invoices, oldest first.  *)
OpenInvoices ==
  {i \in Invoices : rows[i].status \in Payable /\ rows[i].balance > 0}

AllocOf(t) ==
  IF t.req.op = "PAY_MANUAL" THEN t.req.alloc
  ELSE AllocationsOldestFirst(t.seen, t.req.amount)

RestOf(t) ==
  IF t.req.op = "PAY_MANUAL" THEN t.req.rest ELSE AutoRest(t.seen, t.req.amount)

-----------------------------------------------------------------------------
Idle == [open |-> FALSE]

Init ==
  /\ Ledger!Init
  /\ tuple = [i \in Invoices |-> 0]
  /\ done = {}
  /\ sess = [s \in Sessions |-> Idle]

(* The invoices whose rows the handler works from.                          *)
ReadSet(q) ==
  CASE q.op \in {"CREATE", "CREDIT"} -> {}
    [] q.op = "PAY_MANUAL" -> DOMAIN q.alloc
    [] q.op = "PAY_AUTO" -> OpenInvoices
    [] OTHER -> {q.inv}

(* What the handler checks on the rows it reads before its first write.     *)
Accepts(q) ==
  CASE q.op = "CREATE" -> Ledger!WithinLimit(Invoices, q.subtotal + q.tax)
    [] q.op = "EDIT" ->
         /\ CanEdit(rows[q.inv])
         /\ Ledger!WithinLimit(Invoices \ {q.inv}, q.subtotal + q.tax)
    [] q.op = "REJECT" -> CanReject(rows[q.inv], q.user)
    [] q.op = "APPROVE" -> CanApprove(rows[q.inv], q.user)
    [] q.op = "CREDIT" -> rows[q.inv].status # "ABSENT"
    [] q.op = "WRITE_OFF" -> CanWriteOff(rows[q.inv])
    [] q.op = "VOID" -> CanVoid(rows[q.inv])
    [] q.op = "PAY_MANUAL" ->
         /\ \A i \in DOMAIN q.alloc : CanPay(rows[i], q.alloc[i])
         /\ CanBookReceipt(q.rest)
    [] q.op = "PAY_AUTO" ->
         /\ OpenInvoices # {}
         /\ CanBookReceipt(
              AutoRest([i \in OpenInvoices |-> rows[i]], q.amount))

Begin(s, q) ==
  /\ ~sess[s].open
  /\ KeyUnused(q)
  /\ Accepts(q)
  /\ sess' = [sess EXCEPT ![s] =
       [open |-> TRUE, req |-> q,
        seen |-> [i \in ReadSet(q) |-> rows[i]],
        tups |-> [i \in ReadSet(q) |-> tuple[i]]]]
  /\ UNCHANGED <<ledgerVars, tuple, done>>

(* Conflict, failed check under the lock, key taken meanwhile, lost client. *)
Abort(s) ==
  /\ sess[s].open
  /\ sess' = [sess EXCEPT ![s] = Idle]
  /\ UNCHANGED <<ledgerVars, tuple, done>>

-----------------------------------------------------------------------------
(* Committing.  The key insert of a transaction fails once another one with *)
(* the same key has committed.                                              *)
CommittingUnchecked(s, op) == \* faulty: no unique constraint on the key
  /\ sess[s].open
  /\ sess[s].req.op = op
  /\ done' = done \cup {sess[s].req}
  /\ sess' = [sess EXCEPT ![s] = Idle]

Committing(s, op) ==
  /\ sess[s].open
  /\ sess[s].req.op = op
  /\ KeyUnused(sess[s].req)
  /\ done' = done \cup {sess[s].req}
  /\ sess' = [sess EXCEPT ![s] = Idle]

WriteRows(S) == tuple' = [i \in Invoices |-> IF i \in S THEN tuple[i] + 1 ELSE tuple[i]]

(* The WHERE clause that claims the version which the handler read.         *)
VersionIgnored(i, seen) == \* faulty: WHERE id = ... only
  rows[i].status \in {seen.status, "APPROVED"}

VersionUnmoved(i, seen) ==
  rows[i].version = seen.version /\ rows[i].status = "DRAFT"

(* REPEATABLE READ and SERIALIZABLE: a row written since the snapshot can   *)
(* be neither locked nor updated.                                           *)
SnapshotIgnored(t) == \* faulty: READ COMMITTED and no row lock
  \A i \in DOMAIN t.tups : tuple[i] >= t.tups[i]

SnapshotHolds(t) == \A i \in DOMAIN t.tups : tuple[i] = t.tups[i]

CommitCreate(s) ==
  LET q == sess[s].req
  IN  /\ Committing(s, "CREATE")
      /\ \E i \in Invoices :
           /\ Ledger!CreateInvoice(i, q.user, q.subtotal, q.tax)
           /\ WriteRows({i})

CommitEdit(s) ==
  LET q == sess[s].req
      r == sess[s].seen[q.inv]
  IN  /\ Committing(s, "EDIT")
      /\ VersionUnmoved(q.inv, r)
      /\ rows' = [rows EXCEPT ![q.inv] = EditRow(@, q.subtotal, q.tax)]
      /\ WriteRows({q.inv})
      /\ UNCHANGED <<books, credited, outbox, onAccount>>

CommitReject(s) ==
  LET q == sess[s].req
      r == sess[s].seen[q.inv]
  IN  /\ Committing(s, "REJECT")
      /\ VersionUnmoved(q.inv, r)
      /\ rows' = [rows EXCEPT ![q.inv] = RejectRow(@)]
      /\ WriteRows({q.inv})
      /\ UNCHANGED <<books, credited, outbox, onAccount>>

(* The journal and the delivery event are made from the row as it was read. *)
CommitApprove(s) ==
  LET q == sess[s].req
      r == sess[s].seen[q.inv]
  IN  /\ Committing(s, "APPROVE")
      /\ VersionUnmoved(q.inv, r)
      /\ rows' = [rows EXCEPT ![q.inv] = ApproveRow(@, q.user)]
      /\ books' = [books EXCEPT ![q.inv] = ApprovePost(@, r)]
      /\ outbox' = [outbox EXCEPT ![q.inv] = "QUEUED"]
      /\ WriteRows({q.inv})
      /\ UNCHANGED <<credited, onAccount>>

(* Everything after FOR UPDATE sees the latest row, and holds it.           *)
CommitCredit(s) ==
  LET q == sess[s].req
  IN  /\ Committing(s, "CREDIT")
      /\ Ledger!CreateCreditMemo(q.inv, q.user, q.amount, q.include_tax)
      /\ WriteRows({q.inv})

CommitPayment(s) ==
  LET t == sess[s]
      alloc == AllocOf(t)
  IN  /\ \E op \in {"PAY_MANUAL", "PAY_AUTO"} : Committing(s, op)
      /\ SnapshotHolds(t)
      /\ rows' = [i \in Invoices |->
           IF i \in DOMAIN alloc THEN PayRow(t.seen[i], alloc[i]) ELSE rows[i]]
      /\ books' = [i \in Invoices |->
           IF i \in DOMAIN alloc THEN PayPost(books[i], alloc[i]) ELSE books[i]]
      /\ onAccount' = onAccount + RestOf(t)
      /\ WriteRows(DOMAIN alloc)
      /\ UNCHANGED <<credited, outbox>>

(* No lock, no version, no snapshot: the row may have moved on.             *)
CommitWriteOff(s) ==
  LET q == sess[s].req
      r == sess[s].seen[q.inv]
  IN  /\ Committing(s, "WRITE_OFF")
      /\ rows' = [rows EXCEPT ![q.inv] = WriteOffRow(@, r)]
      /\ books' = [books EXCEPT ![q.inv] = WriteOffPost(@, r)]
      /\ WriteRows({q.inv})
      /\ UNCHANGED <<credited, outbox, onAccount>>

CommitVoid(s) ==
  LET q == sess[s].req
      r == sess[s].seen[q.inv]
  IN  /\ Committing(s, "VOID")
      /\ SnapshotHolds(sess[s])
      /\ rows' = [rows EXCEPT ![q.inv] = VoidRow(r)]
      /\ books' = [books EXCEPT ![q.inv] = VoidPost(@, r)]
      /\ WriteRows({q.inv})
      /\ UNCHANGED <<credited, outbox, onAccount>>

(* The delivery worker: one UPDATE over the row as it is.                   *)
Deliver(i) ==
  /\ Ledger!MarkDelivered(i)
  /\ WriteRows({i})
  /\ UNCHANGED <<done, sess>>

Commit(s) ==
  \/ CommitCreate(s)
  \/ CommitEdit(s)
  \/ CommitReject(s)
  \/ CommitApprove(s)
  \/ CommitCredit(s)
  \/ CommitPayment(s)
  \/ CommitWriteOff(s)
  \/ CommitVoid(s)

Next ==
  \/ \E s \in Sessions : Abort(s) \/ Commit(s)
  \/ \E s \in Sessions, q \in Requests : Begin(s, q)
  \/ \E i \in Invoices : Deliver(i)

Spec == Init /\ [][Next]_vars

-----------------------------------------------------------------------------
(* Type correctness of the transaction state and of the tables.             *)
TypeOK ==
  /\ Ledger!TypeOK
  /\ tuple \in [Invoices -> Nat]
  /\ done \subseteq Requests
  /\ \A s \in Sessions : sess[s].open =>
       /\ sess[s].req \in Requests
       /\ \A i \in DOMAIN sess[s].seen : sess[s].seen[i] \in Invoice
       /\ sess[s].tups \in [DOMAIN sess[s].seen -> Nat]

(* A write-off that was decided on a row which another request has written  *)
(* since.                                                                   *)
OverwritingWriteOff ==
  \E s \in Sessions :
    /\ CommitWriteOff(s)
    /\ rows[sess[s].req.inv] # sess[s].seen[sess[s].req.inv]

(* The isolation levels, the version in the WHERE clause and the row locks  *)
(* make overlapping requests behave like requests one at a time, whatever   *)
(* write-offs have done; only a write-off itself may do what none alone     *)
(* could.                                                                   *)
ImplementsLedger ==
  Ledger!Init /\ [][Ledger!Next \/ OverwritingWriteOff]_ledgerVars

(* No receipt, credit or approval is lost, and none takes effect twice for  *)
(* one idempotency key: the money on the books is the sum of the requests   *)
(* that committed (NFRs.md: a retried payment is not duplicated).           *)
PaymentAmount(q) ==
  CASE q.op = "PAY_AUTO" -> q.amount
    [] q.op = "PAY_MANUAL" ->
         q.rest + SumFunction(q.alloc)
    [] OTHER -> 0

CreditAmount(q) == IF q.op = "CREDIT" THEN q.amount ELSE 0

EffectsMatchRequests ==
  /\ onAccount + SumFunction([i \in Invoices |-> books[i].cash])
       = SumFunction([q \in done |-> PaymentAmount(q)])
  /\ SumFunction([i \in Invoices |-> Ledger!Credits(i)])
       = SumFunction([q \in done |-> CreditAmount(q)])
  /\ \A i \in Invoices : Ledger!Approved(i) =>
       \E q \in done : /\ q.op = "APPROVE"
                       /\ q.inv = i
                       /\ q.user = rows[i].approved_by

(* The version a client sends as If-Match tells two states of an invoice    *)
(* apart: it counts every write of the row (api-design.md: "increments on   *)
(* every invoice mutation").                                                *)
VersionCountsMutations ==
  \A i \in Invoices :
    \/ rows[i].version = tuple[i]
    \/ \E q \in done : q.op = "WRITE_OFF" /\ q.inv = i

(* The damage of a write-off that races is confined to the invoice it       *)
(* closed: until one commits, no overlap of the other requests, and no      *)
(* write-off that is open or was given up, parts AR from the balance.       *)
ReconciledUntilWriteOff ==
  \A i \in Invoices :
    \/ \E q \in done : q.op = "WRITE_OFF" /\ q.inv = i
    \/ books[i].ar = Ledger!OpenBalance(i)
    \/ rows[i].status = "VOID" /\ books[i].ar = -Ledger!Credits(i)

(* credit_memos.py and FRs.md: a write-off is of the outstanding balance    *)
(* only, what was paid or credited is never reversed.                       *)
WriteOffLeavesReceipts ==
  \A i \in Invoices :
    books[i].badDebt > 0 =>
      books[i].badDebt + books[i].cash + books[i].credit + Ledger!Credits(i)
        <= Total(rows[i])
=============================================================================
