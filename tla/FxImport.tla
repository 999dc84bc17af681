------------------------------ MODULE FxImport ------------------------------
(***************************************************************************)
(* The import of exchange rates: a job per requested day, inserted by the  *)
(* scheduler or by a worker that starts; workers that claim a job under a  *)
(* lease, fetch the latest observation of every currency from the ECB,     *)
(* derive the base rates and store them for all active tenants, or record  *)
(* a failure.                                                              *)
(*                                                                         *)
(* Each database transaction and the call of the provider are one step; a  *)
(* worker can stop between any two of them.  The lease (locked_at, 120 s)  *)
(* of a claim whose holder is gone can run out at any time; that it runs   *)
(* out while a worker is still at the job is counted as a stall.  Back-off *)
(* is not timed: a job in RETRY may be due or not.  Rates are represented  *)
(* by the day of the quotes they were derived from.                        *)
(***************************************************************************)
EXTENDS Naturals, FiniteSets

CONSTANTS
  Workers,      \* processes that run the import
  Tenants,      \* tenants whose base currency is INR
  Quotes,       \* the currencies the ECB quotes against EUR
  LastDay,      \* bound: the last day of the calendar
  MaxAge,       \* MAX_RATE_AGE_DAYS
  MaxAttempts,  \* max_attempts of a job
  MaxStalls     \* bound on leases that run out on a worker at work

Days == 1 .. LastDay
NoDay == 0

ASSUME ImportAssumption ==
  /\ LastDay \in Nat \ {0}
  /\ MaxAge \in Nat
  /\ MaxAttempts \in Nat \ {0}
  /\ MaxStalls \in Nat
  /\ Quotes # {}

(* As many workers as containers run.                                       *)
ASSUME FiniteWorkers == IsFiniteSet(Workers)

VARIABLES
  jobs,       \* table fx_import_job, by requested_date
  rates,      \* table exchange_rate, the rows of one batch and tenant as one
  active,     \* the tenants that are active
  published,  \* the day of the ECB's latest observation of each currency
  today,
  worker,     \* what each worker is at
  stalls,     \* leases that ran out on a worker at work
  lost        \* history: the days whose last attempt lost its worker

vars == <<jobs, rates, active, published, today, worker, stalls, lost>>

Statuses == {"ABSENT", "PENDING", "PROCESSING", "COMPLETED", "RETRY", "DEAD"}

Job ==
  [status : Statuses, attempts : 0 .. MaxAttempts,
   lease : {"NONE", "FRESH", "STALE"}, provider_date : Days \cup {NoDay}]

NoJob ==
  [status |-> "ABSENT", attempts |-> 0, lease |-> "NONE", provider_date |-> NoDay]

Rate == [tenant : Tenants, date : Days, quoted : [Quotes -> Days], job : Days]

WorkerState ==
  [pc : {"IDLE", "CLAIMED", "FETCHED", "FAILED"}, job : Days,
   attempt : 0 .. MaxAttempts, quoted : [Quotes -> Days]]

Idle == [pc |-> "IDLE", job |-> 1, attempt |-> 0, quoted |-> [c \in Quotes |-> 1]]

Init ==
  /\ jobs = [d \in Days |-> NoJob]
  /\ rates = {}
  /\ active = Tenants
  /\ published = [c \in Quotes |-> 1]
  /\ today = 1
  /\ worker = [w \in Workers |-> Idle]
  /\ stalls = 0
  /\ lost = {}

-----------------------------------------------------------------------------
(* The world around the workers.                                            *)

NewDay ==
  /\ today < LastDay
  /\ today' = today + 1
  /\ UNCHANGED <<jobs, rates, active, published, worker, stalls, lost>>

(* The provider may be read when only some of its series have moved on.     *)
Publish(c) ==
  /\ published[c] < today
  /\ published' = [published EXCEPT ![c] = today]
  /\ UNCHANGED <<jobs, rates, active, today, worker, stalls, lost>>

(* PATCH /tenants/{id} with is_active.                                      *)
SetActive(S) ==
  /\ S # active
  /\ active' = S
  /\ UNCHANGED <<jobs, rates, published, today, worker, stalls, lost>>

(* By the scheduler on weekdays, and by every worker that starts.           *)
EnqueueImport ==
  /\ jobs[today].status = "ABSENT"
  /\ jobs' = [jobs EXCEPT ![today].status = "PENDING"]
  /\ UNCHANGED <<rates, active, published, today, worker, stalls, lost>>

-----------------------------------------------------------------------------
(* Claiming.                                                                *)

AtWork(d) == {w \in Workers : worker[w].pc # "IDLE" /\ worker[w].job = d}

ClaimableIgnoringLease(j) == \* faulty: locked_at is not compared
  /\ j.attempts < MaxAttempts
  /\ j.status \in {"PENDING", "RETRY", "PROCESSING"}

ClaimableForEver(j) == \* faulty: the attempts are no bound
  /\ j.attempts <= MaxAttempts
  /\ j.status \in {"PENDING", "RETRY"} \/ j.lease = "STALE"

Claimable(j) ==
  /\ j.attempts < MaxAttempts
  /\ \/ j.status \in {"PENDING", "RETRY"}
     \/ j.status = "PROCESSING" /\ j.lease = "STALE"

(* The earliest day that is due; a job in RETRY need not be due yet.        *)
ClaimJob(w, d) ==
  /\ worker[w].pc = "IDLE"
  /\ Claimable(jobs[d])
  /\ \A k \in Days : k < d /\ Claimable(jobs[k]) => jobs[k].status = "RETRY"
  /\ jobs' = [jobs EXCEPT ![d].status = "PROCESSING", ![d].attempts = @ + 1,
                          ![d].lease = "FRESH"]
  /\ worker' = [worker EXCEPT ![w] =
       [pc |-> "CLAIMED", job |-> d, attempt |-> jobs[d].attempts + 1,
        quoted |-> Idle.quoted]]
  /\ UNCHANGED <<rates, active, published, today, stalls, lost>>

-----------------------------------------------------------------------------
(* Fetching: a batch is refused unless all its quotes are of one day.       *)

CoherentEnough(q) == \* faulty: the dates of the rows are not compared
  \A c \in Quotes : q[c] \in Days

Coherent(q) == \A c, e \in Quotes : q[c] = q[e]

FetchRates(w) ==
  /\ worker[w].pc = "CLAIMED"
  /\ worker' = [worker EXCEPT
       ![w].pc = IF Coherent(published) THEN "FETCHED" ELSE "FAILED",
       ![w].quoted = published]
  /\ UNCHANGED <<jobs, rates, active, published, today, stalls, lost>>

(* No answer, an error, or a payload that parse_ecb_csv refuses.            *)
FetchFails(w) ==
  /\ worker[w].pc = "CLAIMED"
  /\ worker' = [worker EXCEPT ![w].pc = "FAILED"]
  /\ UNCHANGED <<jobs, rates, active, published, today, stalls, lost>>

-----------------------------------------------------------------------------
(* Storing.                                                                 *)

ProviderDate(q) == CHOOSE d \in Days : \E c \in Quotes : q[c] = d

StorableLater(d, date) == d - date <= MaxAge \/ d < date \* faulty: no lower bound

Storable(d, date) == date <= d /\ d - date <= MaxAge

(* ON CONFLICT DO NOTHING passes over a tenant that has approved rates of   *)
(* that day, and one for which the same job stored rates before.            *)
NewRates(t, date, d) ==
  ~\E r \in rates : r.tenant = t /\ (r.date = date \/ r.job = d)

StoredRates(q, d) ==
  LET date == ProviderDate(q)
  IN  rates \cup
        {[tenant |-> t, date |-> date, quoted |-> q, job |-> d] :
           t \in {u \in active : NewRates(u, date, d)}}

(* UPDATE ... WHERE status = 'PROCESSING'.                                  *)
CompletedRow(j, date) ==
  IF j.status = "PROCESSING"
  THEN [j EXCEPT !.status = "COMPLETED", !.provider_date = date, !.lease = "NONE"]
  ELSE j

Store(w) ==
  LET d == worker[w].job
      q == worker[w].quoted
  IN  /\ rates' = StoredRates(q, d)
      /\ jobs' = [jobs EXCEPT ![d] = CompletedRow(@, ProviderDate(q))]

StoreRates(w) ==
  /\ worker[w].pc = "FETCHED"
  /\ Storable(worker[w].job, ProviderDate(worker[w].quoted))
  /\ Store(w)
  /\ worker' = [worker EXCEPT ![w] = Idle]
  /\ UNCHANGED <<active, published, today, stalls, lost>>

RefuseRates(w) ==
  /\ worker[w].pc = "FETCHED"
  /\ ~Storable(worker[w].job, ProviderDate(worker[w].quoted))
  /\ worker' = [worker EXCEPT ![w].pc = "FAILED"]
  /\ UNCHANGED <<jobs, rates, active, published, today, stalls, lost>>

(* The transaction fails, or its commit takes effect and the answer is lost. *)
StoreFails(w) ==
  /\ worker[w].pc = "FETCHED"
  /\ Storable(worker[w].job, ProviderDate(worker[w].quoted))
  /\ Store(w) \/ UNCHANGED <<jobs, rates>>
  /\ worker' = [worker EXCEPT ![w].pc = "FAILED"]
  /\ UNCHANGED <<active, published, today, stalls, lost>>

-----------------------------------------------------------------------------
(* Failing: UPDATE ... WHERE id = ..., whatever the job has become.         *)

FailedRowLater(j, attempt) == \* faulty: the last attempt is retried like the others
  [j EXCEPT !.status = IF attempt > MaxAttempts THEN "DEAD" ELSE "RETRY",
            !.lease = "NONE"]

FailedRow(j, attempt) ==
  [j EXCEPT !.status = IF attempt >= MaxAttempts THEN "DEAD" ELSE "RETRY",
            !.lease = "NONE"]

MarkFailed(w) ==
  LET d == worker[w].job
  IN  /\ worker[w].pc = "FAILED"
      /\ jobs' = [jobs EXCEPT ![d] = FailedRow(@, worker[w].attempt)]
      /\ worker' = [worker EXCEPT ![w] = Idle]
      /\ UNCHANGED <<rates, active, published, today, stalls, lost>>

(* A worker ends: killed, or by an error in claim_job or mark_failed.       *)
Crash(w) ==
  /\ worker[w].pc # "IDLE"
  /\ worker' = [worker EXCEPT ![w] = Idle]
  /\ lost' = IF worker[w].attempt = MaxAttempts THEN lost \cup {worker[w].job} ELSE lost
  /\ UNCHANGED <<jobs, rates, active, published, today, stalls>>

LeaseExpires(d) ==
  /\ jobs[d].lease = "FRESH"
  /\ AtWork(d) = {}
  /\ jobs' = [jobs EXCEPT ![d].lease = "STALE"]
  /\ UNCHANGED <<rates, active, published, today, worker, stalls, lost>>

Stall(d) ==
  /\ jobs[d].lease = "FRESH"
  /\ AtWork(d) # {}
  /\ stalls < MaxStalls
  /\ jobs' = [jobs EXCEPT ![d].lease = "STALE"]
  /\ stalls' = stalls + 1
  /\ UNCHANGED <<rates, active, published, today, worker, lost>>

-----------------------------------------------------------------------------
WorkerStep(w) ==
  \/ \E d \in Days : ClaimJob(w, d)
  \/ FetchRates(w)
  \/ FetchFails(w)
  \/ StoreRates(w)
  \/ RefuseRates(w)
  \/ StoreFails(w)
  \/ MarkFailed(w)

Next ==
  \/ \E w \in Workers : WorkerStep(w) \/ Crash(w)
  \/ \E d \in Days : LeaseExpires(d) \/ Stall(d)
  \/ \E c \in Quotes : Publish(c)
  \/ \E S \in SUBSET Tenants : SetActive(S)
  \/ EnqueueImport
  \/ NewDay

(* Workers poll for ever and are restarted by the container runtime, and    *)
(* leases run out.  Nothing says that the provider answers, that a day is   *)
(* scheduled or that a tenant stays active.                                 *)
Fairness ==
  /\ \A w \in Workers : WF_vars(WorkerStep(w))
  /\ \A d \in Days : WF_vars(LeaseExpires(d))

Spec == Init /\ [][Next]_vars /\ Fairness

-----------------------------------------------------------------------------
(* Type correctness; the range of attempts is the constraint                *)
(* fx_import_job_attempts_valid.                                            *)
TypeOK ==
  /\ jobs \in [Days -> Job]
  /\ rates \subseteq Rate
  /\ active \subseteq Tenants
  /\ published \in [Quotes -> Days]
  /\ today \in Days
  /\ worker \in [Workers -> WorkerState]
  /\ stalls \in Nat
  /\ lost \subseteq Days

Book == INSTANCE RateBook WITH
  approved <- {[tenant |-> r.tenant, date |-> r.date, quoted |-> r.quoted] :
                 r \in rates}

(* Whatever is retried, taken over or stored twice, a tenant gets the rates *)
(* of a day at once, all derived from quotes of that day, and keeps them as *)
(* they are (fx-rate-design.md: "Approved rates are immutable"; "one        *)
(* coherent provider date").                                                *)
ImplementsRateBook == Book!Spec

(* A job that turns COMPLETED leaves every active tenant able to price a    *)
(* document of the requested day, also when an earlier attempt of the job,  *)
(* or the job of another day, had stored rates before it.                   *)
CompletedIsPriced ==
  [][\A d \in Days :
       jobs[d].status # "COMPLETED" /\ jobs'[d].status = "COMPLETED"
         => \A t \in active : \E r \in rates' :
              r.tenant = t /\ r.date <= d /\ d - r.date <= MaxAge]_vars

(* Two workers are at the same job only if a lease ran out on one that was  *)
(* at work, although a failure is recorded without asking whose claim the   *)
(* job is under.                                                            *)
OneImporterAtATime ==
  \A d \in Days : Cardinality(AtWork(d)) <= 1 + stalls

Exhausted(d) == jobs[d].attempts = MaxAttempts

(* Every job comes to rest as COMPLETED or DEAD, with two exceptions to     *)
(* fx-rate-design.md:79-80, "exhausted jobs become visible as DEAD": a      *)
(* worker that is lost in the last attempt leaves the job PROCESSING, and   *)
(* one that fails after it was overtaken, which takes a stall, can set an   *)
(* exhausted job to RETRY.  No claim takes these jobs again and no step     *)
(* marks them DEAD.                                                         *)
Settles ==
  <>[](\A d \in Days :
         \/ jobs[d].status \in {"ABSENT", "COMPLETED", "DEAD"}
         \/ Exhausted(d) /\ jobs[d].status = "PROCESSING" /\ d \in lost
         \/ Exhausted(d) /\ jobs[d].status = "RETRY" /\ stalls > 0)
=============================================================================
