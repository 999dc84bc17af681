# TLA+ models of the ERP accounts-receivable module

This directory specifies the accounts-receivable (AR) service of this
repository in TLA+, model-checks it with TLC and proves theorems about it with
TLAPS. The models are translated from the source; documentation is quoted only
where a run shows that the code does something else.

Paths below are relative to the repository root, with `src/routers/...` for the
FastAPI handlers and `migrations/001_init.sql` for the database schema.

## 1. The system

A FastAPI service over PostgreSQL, with two background processes and an SQS
queue behind it:

    client -> API (invoices, payments, corrections) -> PostgreSQL
                                                        | delivery_outbox
                          delivery_publisher  <---------+
                                  | SQS (+ DLQ)
                          delivery_worker ---- POST ----> delivery service (stub)
                                  +------> PostgreSQL (outbox, invoice.sent_at)
    pg_cron -> fx_import_job -> fx_rate_worker -- GET --> European Central Bank
                                  +------> exchange_rate -> API (conversion)
    operator (SQL) -> accounting_period -> triggers on invoice and journal
    client -> API (tenants, entities) -> PostgreSQL
    pg_cron -> aging materialized view;  triggers -> audit_log

### Components

| Component | State it keeps | Operations | What makes it correct |
|---|---|---|---|
| Invoice API, `src/routers/invoices.py` | `invoice`, lines, journal, outbox row | create, edit (PATCH), approve, reject | only the other user approves; totals, balance and status agree; approval, journal and delivery event appear together; racing decisions are decided by the version |
| Payment API, `src/routers/payments.py` | `payment`, `payment_allocation`, balances, journal | AUTO (oldest first) and MANUAL receipts, overpayment to account 2100 | no balance is used twice; what is received is either allocated or held for the customer |
| Corrections, `src/routers/credit_memos.py` | `credit_memo`, balances, journal | credit memo, write-off, void | reversals never exceed the invoice; AR of the subledger and of the ledger agree; postings balance |
| Idempotency keys | `idempotency_key` | look up, claim, complete, in the request's transaction | a repeated request has no second effect |
| Credit limit | none (a query over `invoice`) | check on create and edit | open and draft invoices together stay within the limit |
| Outbox publisher, `src/delivery_publisher.py` | lease and publish count in `delivery_outbox` | claim, send, mark published or failed | an event is published, or given up within its attempts |
| Delivery worker, `src/delivery_worker.py` | lease and attempt count in `delivery_outbox`, `invoice.sent_at` | receive, claim, call, mark delivered or failed, delete | the invoice is sent once and recorded as sent only if it was |
| Delivery operations, `src/routers/delivery.py` | `delivery_outbox` | query, retry of a dead event | only a dead event is retried; messages and workers of its first life neither take back nor lose a recorded delivery |
| SQS queue and DLQ, `localstack/init-sqs.sh` | messages, receive counts | send, receive, delete, visibility timeout, redrive | at-least-once delivery (external) |
| Delivery service, `delivery_stub/stub.py` | event ids in memory | accept, deduplicate | one sending per event id |
| FX rate import, `src/fx_rate_worker.py` | `fx_import_job`, `exchange_rate` | enqueue, claim with lease, fetch, derive cross rates, store, fail | the rates of a day appear at once, from quotes of that day, and never change; a completed job leaves every active tenant priced; a job ends |
| Currency conversion (in invoices, payments, credit memos) | rate and base amounts on the invoice | round to base, release the carrying value, FX gain or loss | base AR is the carrying value of the open invoices; nothing is left of a settled one; entries balance |
| Accounting periods, `001_init.sql` triggers | `accounting_period` | close, lock, reopen (by SQL) | nothing is posted into a closed period except from before its close |
| Entities and tenants, `src/routers/entities.py`, `tenants.py` | `tenant`, `entity` | create, edit (PATCH) | a change starts from the version its client saw, once per key; names are unique; parents are of the same tenant |
| Aging report, `src/routers/aging.py` | materialized view | refresh, query | bucket arithmetic, freshness |
| Health, `src/routers/health.py` | none | reconciliation of subledger and GL | compares what the invoice model calls `SubledgerMatchesGL` |
| Journal queries, authentication, audit triggers, application shell, seed data | - | read-only, stateless or wiring | - |

### How they interact, and what is hard

* Requests share rows of `invoice` and lock them in different orders. Each handler picks its own guard against
  overlap: a version in the WHERE clause (edit, approve, reject), row locks
  under READ COMMITTED (credit memo), SERIALIZABLE with row locks (payment),
  REPEATABLE READ (void), or none (write-off, credit limit).
* A request is retried by clients, so the same request may be in flight twice.
* Approval hands over to delivery through `delivery_outbox`; the worker writes
  back to the invoice while payments, voids and write-offs go on.
* Publishers and workers can stop between any two calls, can be outlived by
  their own lease, and see messages twice; answers of SQS and of the service
  can be lost after the call took effect.
* Periods are closed by hand while requests are between their check and their
  commit; a serializable receipt keeps seeing the period as of its first read.
* Every conversion rounds. A balance is paid in parts, at other rates than its
  own, and the parts must neither leave a rest nor gather one.
* Import jobs outlive their workers, and a failure is recorded without asking
  whose claim the job is under.
* Corrections are legal in many sequences (memo, part payment, memo, void ...),
  and the journal has to come out right for all of them.

`PROJECT.json` lists these hazards line by line, with the properties that watch
each of them.

## 2. Modules

| Module | Models | Role |
|---|---|---|
| `InvoicePostings` | what each write handler checks, writes to the row and posts to the journal, as operators on values | library of the next two, and of `ForeignLedger` for the split of a credit memo |
| `InvoiceLedger` | the API with one request at a time | the abstract specification of the API |
| `InvoiceTransactions` | the API as overlapping database transactions with idempotency keys | implements `InvoiceLedger`, but for write-offs that overwrite |
| `AutoAllocation` | how an AUTO receipt is spread over the open invoices | library of `InvoiceTransactions` and `PostingSessions` |
| `Receivables` | each approval, receipt and credit memo counts once against the balances of one instant | abstract specification of the next |
| `PostingSessions` | the posting requests statement by statement: row locks, deadlocks, triggers; the operator who moves periods | implements `Receivables` |
| `ForeignLedger` | invoices, receipts, credit memos and write-offs in a foreign currency, with every rounding | - |
| `RateBook` | approved batches of rates: whole, of one day, for ever | abstract specification of the next |
| `FxImport` | scheduler, import jobs, workers, the provider | implements `RateBook` |
| `Directory` | one change of one row at a time, from the version seen, once per key | abstract specification of the next |
| `EntityAdmin` | POST and PATCH of tenants and entities statement by statement, with unique indexes, row locks and keys | implements `Directory` |
| `DeliveryPromise` | what delivery promises: accepted before confirmed, confirmed once | abstract specification of delivery |
| `DeliveryPipeline` | publisher, queue, worker, service and CFO retry for one event | implements `DeliveryPromise` |
| `...Proofs` | - | theorems and proofs of the module they are named for |
| `FiniteSums` | - | laws of sums over finite sets, and with them what `AutoAllocation` spends, on whom |
| `MC...` | - | values and symmetry for TLC |

### Invoice model

`rows[i]` is the row of invoice `i` (status, version, subtotal, tax, balance,
creator, approver, whether `sent_at` is set), `books[i]` the journal lines that
were posted for it summed per account (debit positive), `credited[i]` what its
credit memos reversed, `outbox[i]` its delivery event as the invoice sees it,
`onAccount` the overpayments on account 2100. Every handler has a condition
`Can...` (its guards, including the GL accounts it insists on), a row `...Row`
and a posting `...Post`:

| Handler | Operators | Action of InvoiceLedger | of InvoiceTransactions |
|---|---|---|---|
| `create_invoice` | `DraftRow` | `CreateInvoice` | `CommitCreate` |
| `update_invoice` | `CanEdit`, `EditRow` | `UpdateInvoice` | `CommitEdit` |
| `approve_invoice`, REJECT | `CanReject`, `RejectRow` | `RejectInvoice` | `CommitReject` |
| `approve_invoice`, APPROVE | `CanApprove`, `ApproveRow`, `ApprovePost` | `ApproveInvoice` | `CommitApprove` |
| `create_payment` | `CanPay`, `PayRow`, `PayPost`, `CanBookReceipt` | `CreatePayment` | `CommitPayment` |
| `create_credit_memo` | `CanCredit`, `CreditSplit`, `CreditRow`, `CreditPost` | `CreateCreditMemo` | `CommitCredit` |
| `write_off_invoice` | `CanWriteOff`, `WriteOffRow`, `WriteOffPost` | `WriteOffInvoice` | `CommitWriteOff` |
| `void_invoice` | `CanVoid`, `VoidRow`, `VoidPost` | `VoidInvoice` | `CommitVoid` |
| `mark_delivered` (worker) | `SentRow` | `MarkDelivered` | `Deliver` |

Abstractions. Amounts are whole numbers of 0.0001, the invoice is in the base
currency (`ForeignLedger` has the others), the posting period is open
(`PostingSessions` has the others), one customer, one entity. Line items
appear through their two totals. A constraint of the schema that can fail is
part of the guard: a revenue line of zero is refused by `je_line_double_entry`,
so a zero invoice is never approved and a credit must reverse some revenue.

In `InvoiceTransactions` a request is two steps. `Begin` looks up the key, reads
the rows and checks what the handler checks before its first write; the commit
step re-checks what the isolation level re-checks (the version, the snapshot, or
the row under its lock) and the unique constraint of the key, and writes. Row
locks and the insert of the key make conflicting writers wait, so merging
everything from the first write to the commit loses no behaviour. `tuple[i]`
counts writes of a row; PostgreSQL compares tuples, not the version column.
`Abort` stands for a serialization failure, a deadlock, a refusal under the lock
or a lost client. The version sent as If-Match is the one that was read: an
older one is refused without effect.

### Posting sessions

`InvoiceTransactions` takes a request's writes as one step, which hides the order
in which it waits for rows. `PostingSessions` has the statements: `Begin` is the
handler up to its first lock (it takes the period and, for AUTO, computes the
allocation), `TakeLock` locks the next row - by due date for AUTO, by the request
for MANUAL - and makes the check that follows it (`Accepts`), `InsertEntry` is the
journal's INSERT with its trigger, `Commit...` the commit. `Fail` is an error of
the statement the session is at, or PostgreSQL choosing it as the victim of a
deadlock; `Lose` a lost client. `ClosePeriod`, `LockPeriod` and `ReopenPeriod` are
the operator's UPDATEs that `check_period_transition` lets pass; `DayPasses` moves
the date under corrections. A credit memo takes the latest open period and the
current date, so its entry is refused by the trigger while a later period is
open as well: no correction can be posted then.
`overtaken` is a history variable: the period was closed after the session had
looked at it for the last time.

### Foreign invoices

`invoices[i]` is the row with its locked rate, `balance` and `base_balance`; `gl`
sums the base columns of the journal per account. A rate `r` stands for
`r / Scale`; `HalfUp` is `convert_to_base`, `HalfEven` the default rounding of
`Decimal.quantize` that `credit_memos.py` uses. `BaseParts` gives the parts of a
receipt at its own rate with the residual on the last one, `BaseAr` what a part
releases of the carrying value, the difference goes to FX gain or loss. A
request that a CHECK constraint refuses (a line of zero in base currency) changes
nothing and is no step. Requests run one at a time: overlap is the subject of the
other modules and does not depend on the currency.

### Rate import

`jobs[d]` is the row of `fx_import_job` for the requested day `d`, `rates` the
approved rows of `exchange_rate` with all pairs of one batch and tenant as one
record, a rate being represented by the days of the quotes it was derived from.
`Publish` moves one series of the provider on, so a fetch may find the series at
different days. A worker's transaction, its call of the provider and its failure
handler are steps, between which it may `Crash`; `StoreFails` covers a commit that
took effect and was reported as failed. `Stall` is a lease that runs out on a
worker at work, `SetActive` the PATCH of a tenant. `lost` is a history variable:
the days whose job lost its worker in the last attempt it has.

### Administration

`table` has the committed rows of `tenant` and `entity`, `keyRows` the committed
idempotency keys with the answer stored in each, `sess` what a session has read
or written and not committed. The steps are those of the handlers: look up the
key, read the row, the version and the parent, check the name, claim the key,
update or insert, complete the key, commit. The unique indexes of keys and
names, and the row lock of the UPDATE, make a session wait for the other's end,
or fail. `POST /entities` stores its key with a NULL entity, which no unique index
compares (`Unscoped`): two overlapping creations of different entities can both
commit under one key. `Directory` excepts that case, and only that.

### Delivery model

One event is modelled, since events share nothing but the processes. `event` is
its outbox row (status, the two counters, the lease), `queue` the SQS messages,
`pub` and `worker` the program counters of the processes with what they hold in
memory, `known` and `accepted` the delivery service. Each database transaction
and each call of SQS or of the service is one step, so a process may stop
between any two. An exception after the call of SQS or of the service lands in
the handler the code has for it (`MarkPublishedFails`, `ConfirmFails`), and a
failed call may have had its effect (`SendFails`, `PostFails`). Time is
abstracted to its outcomes: a visibility timeout can pass at any time, the lease
of a process that is gone can pass at any time, and a lease that passes while
its holder is still working is a `Stall`. `Deleted` covers both outcomes of
deleting by a receipt handle that a later receive made obsolete.

`DeliveryPromise` sees the outbox row as `InvoiceLedger` does, as QUEUED or
DELIVERED, which ties the two parts together: `MarkDelivered` of the ledger is
`Confirm` of the promise.

## 3. Runs

| Run | Instance | Shows |
|---|---|---|
| `ledger` | two invoices, two users, amounts 1-2, tax 1, limit 4 | with requests one at a time: reconciliation of AR, revenue and tax net of credits, balanced postings, no receipt lost or used twice, status against balance, posting and delivery only behind an approval by someone else, credit limit, order of the lifecycle, frozen amounts |
| `tx_settle` | two sessions, one key, one invoice, all nine operations | overlapping transactions implement `InvoiceLedger`, but for the one step of a write-off that overwrites; committed requests and effects agree; the version counts every write, and AR agrees with the balance, until a write-off commits |
| `postings` | two sessions, two invoices in two periods, one move of the operator or of the date | each request counts once at its commit; AUTO pays the oldest first; circles of waiting sessions contain a MANUAL receipt; postings to a closed period are from before its close; every request ends |
| `delivery` | a publisher, two workers, two publications, two attempts; a crash, a stall, a service restart | accepted once per memory of the service, one delivery at a time, `DeliveryPromise` implemented, the event comes to rest |
| `delivery_retry` | a retry by the CFO with old messages and workers about; a crash, a stall, a service restart | the promise also over a retry; no message is deleted before the service accepted the invoice and, unless there was a stall, the row says so |
| `fx_import` | two workers, two days, two quoted currencies, two attempts, one stall | the import implements `RateBook`; a completed job leaves every active tenant priced; two workers at one job need a stall; every job ends COMPLETED or DEAD, except for two named causes |
| `foreign` | two invoices, rates 1/4 and 3/4, taxes 0 and 2, two postings each | base AR is the carrying value, which stays within half a unit per conversion of the converted balance; a settled invoice leaves nothing; receipts balance in base currency |
| `entities` | three rows, two names, two keys, two sessions, three successful requests | the administration implements `Directory`; the stored answers are the history of each row |

Runs that are expected to find a violation; each is a disagreement between the
code and what the repository says of it:

| Run | Statement | What the trace shows |
|---|---|---|
| `ledger_void` | `docs/NFRs.md:341`: subledger and GL never mismatch | approve, partial credit memo, void: the void reverses the whole invoice although the memo had reversed a part. `Reconciled` states what does hold: AR of a voided invoice is short by exactly its credits |
| `tx_write_off_receipt` | `credit_memos.py:477-478`: a paid amount is never reversed | a payment commits between the read and the UPDATE of a write-off; the paid part is expensed too |
| `foreign_memo` | `001_init.sql:766-767`: debits equal credits, also in base currency | a credit memo over exactly the open balance of a foreign invoice clears the stored base balance but reverses the converted amount; the rounding between them has no line |
| `delivery_stranded` | `docs/data-model.md:105-106`: exhaustion produces DEAD | with the limits of the deployment, one worker that stops while delivering leaves a lease of 30 s; the two further receives, 3 s apart, find it busy, the message goes to the DLQ, and the event stays DELIVERING, which the CFO cannot retry |

A write-off that races also takes the version back to a value it had before
(`docs/api-design.md:87-88` says it increments on every mutation);
`VersionCountsMutations` therefore speaks of invoices no write-off has committed
on. Some limits of the code are not runs of their own. A write-off in an entity
without account 4100 posts the credit side only, since a line whose account is
missing is skipped (`credit_memos.py:582`), so `ledger` and the theorems about
balance assume that account. Two invoices created at once can exceed the
credit limit together, since each sums the exposure without the other
(`invoices.py:334`), so `WithinCreditLimit` is about requests one at a time.

Three more are disagreements with the docs about events and jobs that are used up
or lost. They show as exceptions in the properties, or as the absence of one:

* Exhausted import jobs. `docs/fx-rate-design.md:79-80` says "exhausted jobs become
  visible as `DEAD`". Two do not. A worker that stops in the last attempt leaves the
  job PROCESSING with all its attempts counted, and the claim asks for
  `attempt_count < max_attempts` (`fx_rate_worker.py:147`). And a worker whose lease
  ran out in an earlier attempt can fail after the last one was claimed;
  `mark_failed` compares the number of its own attempt and has no status guard
  (`fx_rate_worker.py:264-280`), so it sets the exhausted job to RETRY. `Settles` of
  `FxImport` requires DEAD of every other exhausted job and names these two causes:
  `lost`, and a stall.
* An early second death. `RetryEvent` sets the counters of a dead event to zero
  (`routers/delivery.py:109`), but a message of the first life keeps its receive count,
  and a claim takes the larger of the two (`delivery_worker.py:100`). With three
  receives and three attempts: the last send stores a message and fails for the publisher,
  and the event goes DEAD; a worker receives the message twice and leaves it; the CFO
  retries; the third receive claims the PENDING event with three attempts counted, one
  refused call makes it DEAD again, and the publisher, which "owns the next SQS
  publication" (`docs/api-design.md:540-541`), never published it in that life. A worker or a second
  publisher of the first life that records its failure late does the same, since the
  updates ask for the status and not for the attempt. So no property says that a
  retried event gets all its attempts; it can be retried again.
* Deletion without a record. `docs/NFRs.md:526-527` says "Consumers delete only
  after the adapter success and DB status commit". `mark_delivered` returns quietly
  when its UPDATE hits no row (`delivery_worker.py:143`), and the message is deleted
  all the same. `DeletedOnlyWhenRecorded` says that it takes a stall to get there,
  and that the service has accepted the invoice even then.

### Bounds, and why they are enough

* `MaxVersion` bounds edits and rejections of a draft and nothing else; with 2, a
  draft is edited or rejected once, which lets an edit, a rejection and an
  approval that read the same version race each other.
* Amounts: totals of 2 and 3 with tax 1 make the tax split of a credit memo
  round down, up and tie, leave a rest to the last memo, and let a receipt pay
  a part, the whole or more. The theorems cover all amounts.
* Two users are a creator and an approver; a third acts like one of them.
* Two sessions: each isolation rule, lock queue and unique index is about one
  pair of transactions. One key per endpoint and invoice in `tx_settle` already
  makes two requests compete for the same key or use different ones on different
  endpoints; AUTO receipts over two invoices are in `postings`.
* `postings`: two invoices are the fewest over which two sessions can lock in
  opposite orders; amounts of one make every receipt pay or not pay an invoice,
  and amounts in parts are left to `ledger` and `foreign`. Either period may be
  open or closed at the start, so one move suffices for a close under a request,
  a lock, a reopening, or a correction whose date moves on.
* `foreign`: rates below one and a scale of four give ties and both directions of
  rounding; two postings per invoice are a part and the rest. The theorems
  cover all rates and amounts and any number of postings.
* `fx_import`: the second day is the one whose job may take the first day's rates
  (`MaxAge` 1) or find its own; the second attempt is the last.
* `entities`: one tenant and entity exist; the third id is a creation. Versions
  seen are 1 and 2, so a stale If-Match occurs; three writes let a rename, a
  creation and a retry meet.
* Delivery: the second publication yields the duplicate message, the second
  attempt the last one, the second worker the competitor. `delivery_stranded`
  uses the real limits 10/3/3. In `delivery_retry` one publication per life is
  enough for a message of the first life to meet the second one, and the stall, the
  crash and the restart may fall in either life.
* `CHECK_DEADLOCK FALSE` is set where the system really stops: all invoices are
  closed and delivered, all keys are used (requests are a bound of the model),
  the event or the jobs have come to rest, or no request is left within the
  bounds.
* Symmetry: users, sessions, keys and processes are compared for equality only.
  The runs with a liveness property (`delivery`, `fx_import`, `postings`) use none. Message ids are picked by
  `CHOOSE` and are not permuted.

### Fairness

`DeliveryPipeline`. The loops of publisher and worker poll for ever and
`docker-compose.yml` restarts them, so each has weak fairness as a whole (some
step of it, not a chosen one); time passes, so a visibility timeout, a redrive and
the end of an abandoned lease happen. Nothing is assumed about the success of a
call: `SendFails` and `PostFails` may be chosen for ever, and no one has to retry.
`Settles` says that even so the event ends DELIVERED or DEAD, or in one of two
named ways to be stranded (`PublishesSpent`, `MessagesSpent`), and is never left
undecided while an attempt remains.

`FxImport`. The same for the import workers and their leases; nothing says that
the provider answers, that a day is scheduled or that a tenant stays active.
`Settles` says that every job ends COMPLETED or DEAD, but for the two causes section
3 names: PROCESSING when its worker was lost in the last attempt, and RETRY when,
after a stall, a failure was recorded over an exhausted job.

`PostingSessions`. `SF(Progress(s))`: a handler goes on by itself, PostgreSQL
queues the waiters of a row, so that a session which is again and again free to
take its lock gets it, and the deadlock detector ends every circle. `Begin` and
`Lose` are not fair: clients may send nothing and lose nothing.

`InvoiceLedger`, `InvoiceTransactions`, `ForeignLedger` and `EntityAdmin` have no
scheduler; a client that goes away is a legal end.

## 4. Proofs

All theorems hold for every value of the constants allowed by the named
assumptions of the modules: any number of users, invoices, processes, messages,
sessions, rows, crashes and retries, any amounts and rates. The sets that sums
or counts run over (invoices, sessions, workers, messages) are assumed finite, and
nothing else of their size. The hypotheses a theorem has beyond these are named
below, with what goes wrong without them.

`FiniteSums`. The models sum with `SumFunctionOnSet`, a fold. Its laws (one more
element, disjoint parts, pointwise comparison, one value changed) are proved by
least counterexample: of the subsets on which a law fails, one has the least
cardinality, and taking out the element the sum takes first leaves a smaller one.
From the laws follow the two facts an AUTO receipt rests on: what is allocated and
the rest make up the receipt (`ReceiptSpent`), and an invoice gets something only
if every older one is paid in full (`OlderServedFirst`).

`InvoiceLedgerProofs`. None of the properties is inductive alone: that AR is the
open balance after a credit memo needs the total to be accounted for, which needs
the status to reflect the balance, and so on. `LedgerInv` says of each invoice
that its row, books, credits and event are `Good` together: either nothing was
posted, or the amounts satisfy one set of equations with the case of the status.
One lemma per handler (`ApproveGood`, `PayGood`, ...) shows that the operators of
`InvoicePostings` lead from `Good` to `Good`; one lemma per action lifts it to the
tables; `LedgerInvariance` concludes. From it follow `TypeCorrect`,
`LedgerReconciled`, `LedgerEarnedRevenue`, `LedgerCredits`, `LedgerStatus`,
`LedgerGates`, and, if account 4100 is in the chart (the hypothesis is needed, see
section 3), `LedgerReceipts` and `LedgerBalance`.
The two action properties, `LedgerLifecycle` and `LedgerFrozen`, use the same
invariant: one lemma per handler says that what it writes goes `Onward` (the status
moves along the lifecycle, and an approved row keeps its amounts and people while
its books only grow). The invariant is needed to know that a row which is not
there or still a draft is not approved. `LedgerCreditLimit` adds that no other
handler raises what a customer owes, and that a creation or an edit checks the sum
of the other invoices and its own.

`InvoiceTransactionsProofs`. `TxInv` has three parts. Each invoice is `Fit` (types,
whatever happens) and, until a write-off commits on it, `Sound` (AR against the
balance, version against the count of its writes); one lemma per handler shows that
what it writes keeps both. `ReadOK` says of every session how far a row may have
moved since it was read: with the tuple unchanged it is the same row, and a draft
that is a draft still has no smaller version, and the same one only if it is the
same row. So the version in the WHERE clause, the snapshot or the row
lock proves at the commit that the row is the one that was read, and the commit is
an action of the ledger (`CommitActs`). Third, a session at work has checked what its
handler checks. `TransactionTypes`, `VersionCounts` and `ReconciledInTransactions` follow.
`EffectsCounted` is a second invariant on top: the sums of cash, credits and
approvals grow by the request of a key that is not used yet.
The refinement is stated as far as it is true. With a credit limit, one further
exception appears besides the write-off that overwrites: a creation or an edit
that overlooks another one, since each sums the exposure without a lock
(`OverlookedLimit`); `TransactionsImplementUpToLimit` is for any limit and names both.
`TransactionsImplementLedger` is the property of `tx_settle` and needs
`CreditLimit = 0`, a customer without a limit. Without a limit and without
write-offs nothing is left to except: `TransactionsAreSerial` gives the
specification of the ledger, and with it every theorem of `InvoiceLedgerProofs`.

`DeliveryPipelineProofs`. `PipelineInv` joins the types, `HandleInv` (a worker at
work holds an existing message) and `Acceptance` (what the service remembers
bounds how often it accepted, and a worker that goes on to confirm implies an
acceptance). The bound alone is not inductive: it needs to know whether the
service remembers the event. `PipelineInvariance`, `PipelineTypeCorrect` (the
counters never break the constraints of the table), `InvoiceAcceptedOnce` and
`PipelineImplementsPromise` (step simulation of `DeliveryPromise`) follow.
`OneWorkerDelivers` counts claims with an invariant of its own (`ClaimsInv`): the
processes that hold the event are at most one more than the leases that ran out on
one at work, and at most those leases while the event may be claimed.
`DeletionIsRecorded` rests on it too: a worker that confirms while the row does not
say DELIVERED was overtaken, so there was a stall (`ConfirmedIsRecorded`). Its own
invariant, `AcceptedFirst`, adds that the service accepted the invoice before a
worker confirms or the row says so, and `RecordsStay` that none of this is taken
back by a retry, a late publisher or a late worker.

`FxImportProofs`. `ImportInv` joins the types with what is known of rates: what a
worker fetched and passed on is of one day, and what is stored is of age for its
job. `CompletionPrices` and `RatesImplementBook` follow from it and from the two
unique indexes that keep a batch from being stored twice. `OneImporter` counts, with
an invariant of its own (`ClaimInv`): the workers at a job are at most one more than
the stalls, and at most the stalls while the job may be claimed; a failure recorded
over another worker's claim fits, since a stall had let the other in.

`PostingSessionsProofs`. `PostingInv` says of every session that an entry past its
last check belongs to a period that is open or was closed on it, and that what it
holds comes before what it still has to lock, unless it is a MANUAL receipt.
`PeriodsFrozen` is the first half. `DeadlocksAreManual` is the second, for circles of
any number of sessions: without a MANUAL receipt everybody in the circle waits for a
later invoice than the one who waits for him, and a set of naturals has a least
member. `WorkInv` says more of a session: its plan is the one made from what it
read, it holds exactly the rows it has locked so far, and these have not been
written since it read them. With it `PostingTypes` holds; a commit is one step of `Receivables` at the
balances of that instant (`PostingsImplementReceivables`); and an AUTO receipt, whose
plan `OlderServedFirst` describes, takes nothing off an invoice while an older one it
saw keeps a balance (`OldestFirst`).

`ForeignLedgerProofs`. The invariant per invoice (`RowInv`) bounds the drift between
the carrying value and the converted balance by the conversions the invoice has
been through and says that no balance means no carrying value; lemmas about
`HalfUp` and `HalfEven` bound one rounding. `DriftBounded` and `InvoicesSettleExactly`
follow for receipts and credit memos in any order. `BooksInv` adds the accounts:
AR is the sum of the carrying values (`ForeignReconciled`), the accounts are whole
units (`ForeignTypes`), and the debits part from the credits only in a credit memo
that closes an invoice, by at most half a unit per conversion (`ImbalanceExplained`).

`EntityAdminProofs`. `AdminInv` says of every session that what it has read is
still true as far as its locks keep it so, and of every pair of sessions that they
do not hold the same key, row, new id or name. `AdminImplementsDirectory` is the
step simulation (only `Commit` moves the directory), `AdminHistory` the relation
between the stored answers and the rows.

Only model-checked: liveness. `Settles` of the delivery and of the import and
`RequestsEnd` of the posting sessions rest on fairness, which is beyond the prover.
Every invariant, action property and refinement that a passing run checks is
stated by a theorem, with the hypotheses named above. The statements of the four
runs that find a violation are false, so there is nothing to prove of them; what
holds in their place is proved (`LedgerReconciled`, `ReconciledInTransactions`,
`ImbalanceExplained`).

## 5. Not modelled

* The answer that an idempotency key replays on invoices and payments: it changes
  no table. The hash of `POST /invoices/{id}/approve` leaves out the action
  (`invoices.py:943`), so a retry with the key of another decision is answered with
  that decision; no second effect follows (`EffectsMatchRequests`).
* Expiry of keys: `expires_at` is stored and never read.
* Line items (their rounding into the columns of the invoice, `invoices.py:160`),
  due dates, and the choice of the rate of a document, a query for the latest
  approved rate of the last days: `CompletedIsPriced` says when it finds one.
* Void and edit of a foreign invoice: the void reverses the stored base columns as
  it does the others (`ledger_void`).
* The aging view (a query refreshed by `pg_cron`), journal queries and health checks
  read only; audit triggers append one row per change in the same transaction.
* Authentication checks a token and roles per request and keeps no state but a
  cache of signing keys.
* Seed data, gateway, debug and deployment scripts are fixtures and configuration.

## 6. Plan

Modelled and checked: every component that writes. What would add most next:

1. `PostingSessions` with write-off and void, whose statements lock last: its
   theorems (`DeadlocksAreManual`, `PostingsImplementReceivables`) would then cover
   every handler that posts.
2. Replayed answers in `InvoiceTransactions`.
3. Void of a foreign invoice in `ForeignLedger`, with `ForeignReconciled` weakened
   by the credits of the void invoices as in `Reconciled`.
