-------------------------- MODULE PostingSessions --------------------------
(***************************************************************************)
(* Requests that post to the books, statement by statement: what a session *)
(* reads, the row locks it takes one after the other, the insert of its    *)
(* journal entry, and its commit.  Sessions wait for one another's locks,  *)
(* deadlock, lose conflicts and die; meanwhile the operator closes, locks  *)
(* and moves accounting periods, and the day passes.                       *)
(*                                                                         *)
(*   AUTO, MANUAL   POST /payments, SERIALIZABLE                           *)
(*   CREDIT         POST credit-memos, READ COMMITTED                      *)
(*   APPROVE        POST approve, READ COMMITTED                           *)
(*                                                                         *)
(* Idempotency keys are left to InvoiceTransactions, statuses and the      *)
(* parts of an amount to InvoiceLedger; all invoices here have one amount  *)
(* and are sent as soon as they are approved.                              *)
(***************************************************************************)
EXTENDS AutoAllocation

CONSTANTS
  Invoices,      \* invoices of one customer, in the order of their due dates
  Amount,        \* the total of each
  DatePeriod,    \* the period of the date of each invoice
  Periods,       \* accounting periods, in the order of their start dates
  Sessions, Nobody,
  MaxRest,          \* bound: the part of a MANUAL receipt no invoice takes
  PaymentPeriods,   \* bound: the periods of the dates of receipts
  MovedPeriods,     \* bound: the periods the operator closes
  MaxMoves          \* bound: the operator's moves and the days that pass

ASSUME PostingAssumption ==
  /\ Invoices \subseteq Nat
  /\ IsFiniteSet(Invoices)
  /\ Amount \in Nat \ {0}
  /\ Periods \subseteq Nat
  /\ DatePeriod \in [Invoices -> Periods]
  /\ IsFiniteSet(Sessions)
  /\ Nobody \notin Sessions
  /\ MaxRest \in Nat
  /\ PaymentPeriods \subseteq Periods
  /\ MovedPeriods \subseteq Periods
  /\ MaxMoves \in Nat

VARIABLES
  rows,        \* table invoice: status, balance and how often it was written
  credited,    \* the credit memos on each invoice
  onAccount,   \* held for the customer
  period,      \* table accounting_period: the status of each
  today,       \* the period of the current date
  moves,       \* how often one of the two has changed
  lock,        \* the session that holds the row of each invoice
  sess         \* what each session is doing

tables == <<rows, credited, onAccount>>
calendar == <<period, today, moves>>
vars == <<tables, calendar, lock, sess>>

Row == [status : {"DRAFT", "SENT"}, balance : Nat, writes : Nat]

-----------------------------------------------------------------------------
(* Requests.  "place" is where an invoice stands in a MANUAL request.       *)
Places(S) ==
  {f \in [S -> 1 .. Cardinality(S)] : \A i, j \in S : f[i] = f[j] => i = j}

ManualRequests ==
  UNION {[op : {"MANUAL"}, period : PaymentPeriods, rest : 0 .. MaxRest,
          alloc : [S -> 1 .. Amount], place : Places(S)] : S \in (SUBSET Invoices) \ {{}}}
AutoRequests ==
  [op : {"AUTO"}, period : PaymentPeriods, amount : 1 .. Amount * Cardinality(Invoices) + MaxRest]
CreditRequests == [op : {"CREDIT"}, inv : Invoices, amount : 1 .. Amount]
ApproveRequests == [op : {"APPROVE"}, inv : Invoices]

Requests == ManualRequests \cup AutoRequests \cup CreditRequests \cup ApproveRequests

(* A receipt reads everything as of its first statement.                    *)
Receipt(q) == q.op \in {"AUTO", "MANUAL"}

-----------------------------------------------------------------------------
Idle == [pc |-> "IDLE"]

Init ==
  /\ rows = [i \in Invoices |-> [status |-> "DRAFT", balance |-> Amount, writes |-> 0]]
  /\ credited = [i \in Invoices |-> 0]
  /\ onAccount = 0
  /\ period \in [Periods -> {"OPEN", "CLOSED"}]
  /\ \A p \in Periods \ MovedPeriods : period[p] = "OPEN"
  /\ today \in Periods /\ \A p \in Periods : today <= p
  /\ moves = 0
  /\ lock = [i \in Invoices |-> Nobody]
  /\ sess = [s \in Sessions |-> Idle]

Payable(r) == r.status = "SENT" /\ r.balance > 0

(* The rows the request is going to lock: AUTO all the open invoices, also  *)
(* those the receipt will not reach.                                        *)
ToLock(q) ==
  CASE q.op = "AUTO" -> {i \in Invoices : Payable(rows[i])}
    [] q.op = "MANUAL" -> DOMAIN q.alloc
    [] OTHER -> {q.inv}

(* The period of the date of the entry; a credit memo looks for its own     *)
(* later.                                                                   *)
EntryPeriod(q) ==
  CASE Receipt(q) -> q.period
    [] q.op = "APPROVE" -> DatePeriod[q.inv]
    [] OTHER -> today

(* What each invoice gets of a receipt, and what is left of it.             *)
Allocation(q, seen) ==
  CASE q.op = "MANUAL" -> q.alloc
    [] q.op = "AUTO" -> AllocationsOldestFirst(seen, q.amount)
    [] OTHER -> <<>>

Rest(q, seen) ==
  CASE q.op = "MANUAL" -> q.rest
    [] q.op = "AUTO" -> AutoRest(seen, q.amount)
    [] OTHER -> 0

(* The handler up to its first lock.                                        *)
Begin(s, q) ==
  /\ sess[s].pc = "IDLE"
  /\ ToLock(q) # {}
  /\ q.op # "CREDIT" => period[EntryPeriod(q)] = "OPEN"
  /\ q.op = "APPROVE" => rows[q.inv].status = "DRAFT"
  /\ LET seen == [i \in IF q.op = "CREDIT" THEN {} ELSE ToLock(q) |-> rows[i]]
     IN  sess' = [sess EXCEPT ![s] =
           [pc |-> "LOCKING", req |-> q, todo |-> ToLock(q), seen |-> seen,
            alloc |-> Allocation(q, seen), rest |-> Rest(q, seen),
            period |-> EntryPeriod(q), overtaken |-> FALSE]]
  /\ UNCHANGED <<tables, calendar, lock>>

-----------------------------------------------------------------------------
(* Locks.  AUTO takes them by due date, MANUAL in the order of the request. *)
Place(t, i) == IF t.req.op = "MANUAL" THEN t.req.place[i] ELSE i

NextLock(t) == CHOOSE i \in t.todo : \A j \in t.todo : Place(t, i) <= Place(t, j)

LatestOpen == {p \in Periods : period[p] = "OPEN" /\
                 \A o \in Periods : period[o] = "OPEN" => o <= p}

(* What the statement that takes the lock, and the checks that follow it,   *)
(* find: a receipt refuses a row written since its snapshot; the UPDATE of  *)
(* an approval has the version in its WHERE clause and the trigger of the   *)
(* invoice behind it; a credit memo works from the row as it is now.        *)
AcceptsAnyVersion(t, i) == \* faulty: READ COMMITTED and no version
  CASE Receipt(t.req) ->
         t.req.op = "MANUAL" => Payable(t.seen[i]) /\ t.req.alloc[i] <= t.seen[i].balance
    [] t.req.op = "APPROVE" -> period[t.period] = "OPEN"
    [] OTHER -> /\ rows[i].status = "SENT"
                /\ credited[i] + t.req.amount <= Amount
                /\ LatestOpen # {}

Accepts(t, i) ==
  CASE Receipt(t.req) ->
         /\ rows[i].writes = t.seen[i].writes
         /\ t.req.op = "MANUAL" => Payable(t.seen[i]) /\ t.req.alloc[i] <= t.seen[i].balance
    [] t.req.op = "APPROVE" ->
         /\ rows[i].writes = t.seen[i].writes
         /\ period[t.period] = "OPEN"
    [] OTHER -> /\ rows[i].status = "SENT"
                /\ credited[i] + t.req.amount <= Amount
                /\ LatestOpen # {}

TakeRow(s, i) ==
  LET t == sess[s]
  IN  /\ lock[i] = Nobody
      /\ Accepts(t, i)
      /\ lock' = [lock EXCEPT ![i] = s]
      /\ \E p \in IF t.req.op = "CREDIT" THEN LatestOpen ELSE {t.period} :
           sess' = [sess EXCEPT ![s] =
             [t EXCEPT !.pc = IF t.todo = {i} THEN "POSTING" ELSE @,
                       !.todo = @ \ {i},
                       !.seen = IF t.req.op = "CREDIT" THEN [j \in {i} |-> rows[j]] ELSE @,
                       !.period = p]]
      /\ UNCHANGED <<tables, calendar>>

TakeLockUnordered(s) == \* faulty: the query has no ORDER BY
  sess[s].pc = "LOCKING" /\ \E i \in sess[s].todo : TakeRow(s, i)

TakeLock(s) == sess[s].pc = "LOCKING" /\ TakeRow(s, NextLock(sess[s]))

-----------------------------------------------------------------------------
(* The trigger of the journal: the entry belongs to an OPEN period, which   *)
(* for a receipt is what its snapshot says.                                 *)
TriggerTrustsHandler(t) == \* faulty: the handler has looked already
  t.req.op = "CREDIT" => t.period = today

Trigger(t) ==
  \/ Receipt(t.req)
  \/ /\ period[t.period] = "OPEN"
     /\ t.req.op = "CREDIT" => t.period = today

InsertEntry(s) ==
  LET t == sess[s]
  IN  /\ t.pc = "POSTING"
      /\ Trigger(t)
      /\ sess' = [sess EXCEPT ![s].pc = "COMMITTING"]
      /\ UNCHANGED <<tables, calendar, lock>>

UnlockNone(s) == [i \in DOMAIN lock |-> IF lock[i] = s THEN s ELSE lock[i]] \* faulty

Unlock(s) == [i \in DOMAIN lock |-> IF lock[i] = s THEN Nobody ELSE lock[i]]

Release(s) ==
  /\ sess' = [sess EXCEPT ![s] = Idle]
  /\ lock' = Unlock(s)

CommitReceipt(s) ==
  LET t == sess[s]
  IN  /\ t.pc = "COMMITTING"
      /\ Receipt(t.req)
      /\ rows' = [i \in Invoices |->
           IF i \in DOMAIN t.alloc
           THEN [rows[i] EXCEPT !.balance = t.seen[i].balance - t.alloc[i], !.writes = @ + 1]
           ELSE rows[i]]
      /\ onAccount' = onAccount + t.rest
      /\ Release(s)
      /\ UNCHANGED <<credited, calendar>>

CommitCredit(s) ==
  LET t == sess[s]
      i == t.req.inv
      open == t.seen[i].balance
      ar == IF t.req.amount < open THEN t.req.amount ELSE open
  IN  /\ t.pc = "COMMITTING"
      /\ t.req.op = "CREDIT"
      /\ rows' = [rows EXCEPT ![i].balance = open - ar, ![i].writes = @ + 1]
      /\ credited' = [credited EXCEPT ![i] = @ + t.req.amount]
      /\ onAccount' = onAccount + (t.req.amount - ar)
      /\ Release(s)
      /\ UNCHANGED calendar

CommitApproval(s) ==
  LET t == sess[s]
  IN  /\ t.pc = "COMMITTING"
      /\ t.req.op = "APPROVE"
      /\ rows' = [rows EXCEPT ![t.req.inv].status = "SENT", ![t.req.inv].writes = @ + 1]
      /\ Release(s)
      /\ UNCHANGED <<credited, onAccount, calendar>>

Commit(s) == CommitReceipt(s) \/ CommitCredit(s) \/ CommitApproval(s)

-----------------------------------------------------------------------------
(* Failures.                                                                *)
Waiting(s) == sess[s].pc = "LOCKING" /\ lock[NextLock(sess[s])] # Nobody

Holder(s) == lock[NextLock(sess[s])]

(* Sessions that wait for one another in a circle.                          *)
Circle(D) ==
  /\ D # {}
  /\ \A s \in D : Waiting(s)
  /\ {Holder(s) : s \in D} = D

Deadlocked(s) == Waiting(s) /\ \E D \in SUBSET Sessions : s \in D /\ Circle(D)

(* The statement a session is at raises: a conflict, a check or a trigger;  *)
(* or PostgreSQL makes it the victim of a deadlock.                         *)
Fail(s) ==
  LET t == sess[s]
  IN  /\ t.pc \in {"LOCKING", "POSTING"}
      /\ \/ /\ t.pc = "LOCKING"
            /\ lock[NextLock(t)] = Nobody
            /\ ~Accepts(t, NextLock(t))
         \/ t.pc = "POSTING" /\ ~Trigger(t)
         \/ Deadlocked(s)
      /\ Release(s)
      /\ UNCHANGED <<tables, calendar>>

(* The client or the connection is lost.                                    *)
Lose(s) ==
  /\ sess[s].pc # "IDLE"
  /\ Release(s)
  /\ UNCHANGED <<tables, calendar>>

-----------------------------------------------------------------------------
(* The operator, by SQL, as far as the trigger of the table lets him.       *)
Move ==
  /\ moves < MaxMoves
  /\ moves' = moves + 1
  /\ UNCHANGED <<tables, lock>>

(* The sessions that have looked at the period for the last time.           *)
PastCheck(s, p) ==
  /\ sess[s].pc # "IDLE"
  /\ sess[s].period = p
  /\ Receipt(sess[s].req) \/ sess[s].pc = "COMMITTING"

ClosePeriod(p) ==
  /\ period[p] = "OPEN"
  /\ period' = [period EXCEPT ![p] = "CLOSED"]
  /\ sess' = [s \in Sessions |->
       IF PastCheck(s, p) THEN [sess[s] EXCEPT !.overtaken = TRUE] ELSE sess[s]]
  /\ Move
  /\ UNCHANGED today

LockPeriod(p) ==
  /\ period[p] = "CLOSED"
  /\ period' = [period EXCEPT ![p] = "LOCKED"]
  /\ Move
  /\ UNCHANGED <<today, sess>>

ReopenPeriod(p) ==
  /\ period[p] = "CLOSED"
  /\ period' = [period EXCEPT ![p] = "OPEN"]
  /\ Move
  /\ UNCHANGED <<today, sess>>

DayPasses ==
  /\ \E p \in Periods : p > today /\ today' = p
  /\ Move
  /\ UNCHANGED <<period, sess>>

Next ==
  \/ \E s \in Sessions, q \in Requests : Begin(s, q)
  \/ \E s \in Sessions : TakeLock(s) \/ InsertEntry(s) \/ Commit(s) \/ Fail(s) \/ Lose(s)
  \/ \E p \in MovedPeriods : ClosePeriod(p) \/ LockPeriod(p) \/ ReopenPeriod(p)
  \/ DayPasses

(* What a handler, or PostgreSQL for it, does without anybody's help.       *)
Progress(s) == TakeLock(s) \/ InsertEntry(s) \/ Commit(s) \/ Fail(s)

(* A handler goes on by itself; whoever waits for a row stands in a queue,  *)
(* so others cannot take it ahead of him again and again; and PostgreSQL    *)
(* ends every deadlock.                                                     *)
Fairness == \A s \in Sessions : SF_vars(Progress(s))

Spec == Init /\ [][Next]_vars /\ Fairness

-----------------------------------------------------------------------------
(* Type correctness; a row is held by a session that asked for it.          *)
TypeOK ==
  /\ rows \in [Invoices -> Row]
  /\ credited \in [Invoices -> 0 .. Amount]
  /\ onAccount \in Nat
  /\ period \in [Periods -> {"OPEN", "CLOSED", "LOCKED"}]
  /\ today \in Periods
  /\ moves \in 0 .. MaxMoves
  /\ lock \in [Invoices -> Sessions \cup {Nobody}]
  /\ \A i \in Invoices : lock[i] # Nobody =>
       sess[lock[i]].pc # "IDLE" /\ i \in DOMAIN sess[lock[i]].seen \ sess[lock[i]].todo

(* However the statements of requests interleave, each counts once, against *)
(* the balances at its commit: no receipt, credit memo or approval is lost, *)
(* and no balance is taken twice.                                           *)
Promise == INSTANCE Receivables WITH
  approved <- {i \in Invoices : rows[i].status = "SENT"},
  balance <- [i \in Invoices |-> rows[i].balance],
  MaxRest <- Amount * Cardinality(Invoices) + MaxRest

ImplementsReceivables == Promise!Spec

(* An AUTO receipt takes nothing off an invoice while an older one of those *)
(* it found open still has a balance after it.                              *)
OldestPaidFirst ==
  [][\A s \in Sessions :
       CommitReceipt(s) /\ sess[s].req.op = "AUTO" =>
         \A i, j \in DOMAIN sess[s].seen :
           i < j /\ rows'[j].balance # rows[j].balance => rows'[i].balance = 0]_vars

(* Requests that lock by due date, or one row only, never deadlock: every   *)
(* circle has a MANUAL receipt in it, the one kind that locks in the order  *)
(* its client chose.                                                        *)
OnlyManualDeadlocks ==
  \A D \in SUBSET Sessions : Circle(D) => \E s \in D : sess[s].req.op = "MANUAL"

(* What closing a period is worth (assessment-submission.md: "No entries    *)
(* post to a closed period"): the last check of an entry is the trigger's,  *)
(* so what still posts to a period that is not open was past its trigger,   *)
(* or is a receipt which began, when the period was closed.                 *)
ClosedPeriodsFrozen ==
  [][\A s \in Sessions :
       Commit(s) => period[sess[s].period] = "OPEN" \/ sess[s].overtaken]_vars

(* No request waits for ever, whatever locks it meets, and none keeps its   *)
(* locks for ever.                                                          *)
RequestsEnd == \A s \in Sessions : sess[s].pc # "IDLE" ~> sess[s].pc = "IDLE"
=============================================================================
