--------------------------- MODULE FxImportProofs ---------------------------
(***************************************************************************)
(* Theorems about FxImport, for any calendar, any number of workers,       *)
(* tenants and currencies, any limits and any number of stalls.            *)
(***************************************************************************)
EXTENDS FxImport, FiniteSetTheorems, TLAPS

(* A job that is not under a fresh claim, and so may be given away again.   *)
Loose(d) ==
  jobs[d].status \in {"ABSENT", "PENDING", "RETRY"} \/ jobs[d].lease = "STALE"

(* Whoever may claim a loose job finds at most the stalled workers at it.   *)
ClaimInv ==
  \A d \in Days :
    /\ Cardinality(AtWork(d)) <= 1 + stalls
    /\ Loose(d) => Cardinality(AtWork(d)) <= stalls

(* What is fetched has one date, what is stored is of age for its job.      *)
RatesInv ==
  /\ \A w \in Workers : worker[w].pc = "FETCHED" => Coherent(worker[w].quoted)
  /\ \A r \in rates : Storable(r.job, r.date)

ImportInv == TypeOK /\ RatesInv

-----------------------------------------------------------------------------
(* The date of a batch is a day of the calendar, and the one day of all its *)
(* quotes when they agree.                                                  *)
LEMMA ProviderDateOfQuotes ==
  ASSUME ImportAssumption, NEW q \in [Quotes -> Days]
  PROVE  /\ ProviderDate(q) \in Days
         /\ Coherent(q) => q = [c \in Quotes |-> ProviderDate(q)]
<1>1. PICK c \in Quotes : q[c] \in Days
  BY DEF ImportAssumption
<1>2. \E d \in Days : \E e \in Quotes : q[e] = d
  BY <1>1
<1>3. ProviderDate(q) \in Days /\ \E e \in Quotes : q[e] = ProviderDate(q)
  BY <1>2 DEF ProviderDate
<1>4. ASSUME Coherent(q) PROVE q = [e \in Quotes |-> ProviderDate(q)]
  BY <1>3, <1>4 DEF Coherent
<1> QED
  BY <1>3, <1>4

(* The rows of one import are rates, all of age.                            *)
LEMMA StoredRatesType ==
  ASSUME ImportAssumption, TypeOK, RatesInv, NEW q \in [Quotes -> Days],
         NEW d \in Days, Storable(d, ProviderDate(q))
  PROVE  /\ StoredRates(q, d) \subseteq Rate
         /\ \A r \in StoredRates(q, d) : Storable(r.job, r.date)
<1>1. ProviderDate(q) \in Days
  BY ProviderDateOfQuotes
<1> DEFINE row(t) ==
      [tenant |-> t, date |-> ProviderDate(q), quoted |-> q, job |-> d]
<1>2. \A t \in Tenants : row(t) \in Rate
  BY <1>1 DEF Rate
<1>3. \A r \in StoredRates(q, d) : r \in rates \/ \E t \in Tenants : r = row(t)
  BY DEF StoredRates, TypeOK
<1>4. \A t \in Tenants : row(t).job = d /\ row(t).date = ProviderDate(q)
  OBVIOUS
<1>5. StoredRates(q, d) \subseteq Rate
  BY <1>2, <1>3 DEF TypeOK
<1>6. \A r \in StoredRates(q, d) : Storable(r.job, r.date)
  BY <1>3, <1>4 DEF RatesInv
<1> QED
  BY <1>5, <1>6

(* Completion and failure leave a job a job.                                *)
LEMMA JobRows ==
  ASSUME NEW j \in Job
  PROVE  /\ \A date \in Days : CompletedRow(j, date) \in Job
         /\ \A n : FailedRow(j, n) \in Job
  BY DEF Job, CompletedRow, FailedRow, Statuses

-----------------------------------------------------------------------------
(* The calendar opens with no job, no rate and idle workers.                *)
LEMMA InitialStates ==
  ASSUME ImportAssumption, Init
  PROVE  ImportInv
<1>1. Idle \in WorkerState
  BY DEF Idle, WorkerState, Days, ImportAssumption
<1>2. NoJob \in Job
  BY DEF NoJob, Job, Statuses, ImportAssumption
<1>3. 1 \in Days
  BY DEF Days, ImportAssumption
<1>4. TypeOK
  BY <1>1, <1>2, <1>3 DEF Init, TypeOK
<1>5. RatesInv
  BY DEF Init, RatesInv, Idle
<1> QED
  BY <1>4, <1>5 DEF ImportInv

(* The steps of a worker.                                                   *)
LEMMA WorkerSteps ==
  ASSUME ImportAssumption, ImportInv, NEW w \in Workers, WorkerStep(w)
  PROVE  ImportInv'
<1> USE DEF ImportInv
<1>w. worker[w] \in WorkerState /\ worker \in [Workers -> WorkerState]
  BY DEF TypeOK
<1>d. worker[w].job \in Days /\ worker[w].quoted \in [Quotes -> Days]
  BY <1>w DEF WorkerState
<1>i. Idle \in WorkerState /\ Idle.pc = "IDLE" /\ Idle.quoted \in [Quotes -> Days]
  BY DEF Idle, WorkerState, Days, ImportAssumption
<1>1. ASSUME NEW d \in Days, ClaimJob(w, d) PROVE ImportInv'
  <2>1. jobs[d] \in Job /\ jobs[d].attempts + 1 \in 0 .. MaxAttempts
    BY <1>1 DEF ClaimJob, Claimable, TypeOK, Job, ImportAssumption
  <2>2. jobs' \in [Days -> Job]
    BY <1>1, <2>1 DEF ClaimJob, TypeOK, Job, Statuses
  <2> DEFINE n == [pc |-> "CLAIMED", job |-> d, attempt |-> jobs[d].attempts + 1,
                   quoted |-> Idle.quoted]
  <2>3. n \in WorkerState
    BY <1>i, <2>1 DEF WorkerState
  <2>4. worker' = [worker EXCEPT ![w] = n]
    BY <1>1 DEF ClaimJob
  <2>5. worker' \in [Workers -> WorkerState]
    BY <1>w, <2>3, <2>4
  <2>6. \A v \in Workers : worker'[v].pc = "FETCHED" => worker'[v] = worker[v]
    BY <1>w, <2>4
  <2> QED
    BY <1>1, <2>2, <2>5, <2>6 DEF ClaimJob, TypeOK, RatesInv
<1>2. CASE FetchRates(w)
  <2> DEFINE n == [worker[w] EXCEPT
                     !.pc = IF Coherent(published) THEN "FETCHED" ELSE "FAILED",
                     !.quoted = published]
  <2>1. n \in WorkerState /\ n.quoted = published
    BY <1>w DEF WorkerState, TypeOK
  <2>2. n.pc = "FETCHED" => Coherent(n.quoted)
    BY <1>w, <2>1 DEF WorkerState
  <2>3. worker' = [worker EXCEPT ![w] = n]
    BY <1>2, <1>w DEF FetchRates
  <2>4. worker' \in [Workers -> WorkerState]
    BY <1>w, <2>1, <2>3
  <2>5. \A v \in Workers : worker'[v].pc = "FETCHED" => Coherent(worker'[v].quoted)
    BY <1>w, <2>2, <2>3 DEF RatesInv
  <2>6. UNCHANGED <<jobs, rates, active, published, today, stalls, lost>>
    BY <1>2 DEF FetchRates
  <2> QED
    BY <2>4, <2>5, <2>6 DEF TypeOK, RatesInv
<1>3. CASE FetchFails(w) \/ RefuseRates(w) \/ (StoreFails(w) /\ UNCHANGED <<jobs, rates>>)
  <2>1. worker' = [worker EXCEPT ![w].pc = "FAILED"]
    BY <1>3 DEF FetchFails, RefuseRates, StoreFails
  <2>2. worker' \in [Workers -> WorkerState]
    BY <1>w, <2>1 DEF WorkerState
  <2>3. \A v \in Workers : worker'[v].pc = "FETCHED" => worker'[v] = worker[v]
    BY <1>w, <2>1 DEF WorkerState
  <2>4. UNCHANGED <<jobs, rates, active, published, today, stalls, lost>>
    BY <1>3 DEF FetchFails, RefuseRates, StoreFails
  <2> QED
    BY <2>2, <2>3, <2>4 DEF TypeOK, RatesInv
<1>4. ASSUME Store(w), Storable(worker[w].job, ProviderDate(worker[w].quoted)),
             UNCHANGED <<active, published, today, stalls, lost>>,
             \/ worker' = [worker EXCEPT ![w] = Idle]
             \/ worker' = [worker EXCEPT ![w].pc = "FAILED"]
      PROVE  ImportInv'
  <2>1. /\ rates' \subseteq Rate
        /\ \A r \in rates' : Storable(r.job, r.date)
    BY <1>4, <1>d, StoredRatesType DEF Store
  <2>2. jobs' \in [Days -> Job]
    BY <1>4, <1>d, JobRows, ProviderDateOfQuotes DEF Store, TypeOK
  <2>3. worker' \in [Workers -> WorkerState]
    BY <1>4, <1>i, <1>w DEF WorkerState
  <2>4. \A v \in Workers : worker'[v].pc = "FETCHED" => worker'[v] = worker[v]
    BY <1>4, <1>i, <1>w DEF WorkerState
  <2> QED
    BY <1>4, <2>1, <2>2, <2>3, <2>4 DEF TypeOK, RatesInv
<1>5. CASE StoreRates(w)
  BY <1>4, <1>5 DEF StoreRates
<1>6. CASE StoreFails(w) /\ Store(w)
  BY <1>4, <1>6 DEF StoreFails
<1>7. CASE MarkFailed(w)
  <2>1. jobs' \in [Days -> Job]
    BY <1>7, <1>d, JobRows DEF MarkFailed, TypeOK
  <2>2. worker' = [worker EXCEPT ![w] = Idle]
    BY <1>7 DEF MarkFailed
  <2>3. worker' \in [Workers -> WorkerState]
    BY <1>i, <1>w, <2>2
  <2>4. \A v \in Workers : worker'[v].pc = "FETCHED" => worker'[v] = worker[v]
    BY <1>i, <1>w, <2>2
  <2> QED
    BY <1>7, <2>1, <2>3, <2>4 DEF MarkFailed, TypeOK, RatesInv
<1>8. StoreFails(w) => Store(w) \/ UNCHANGED <<jobs, rates>>
  BY DEF StoreFails
<1>9. CASE StoreFails(w)
  BY <1>3, <1>6, <1>8, <1>9
<1>10. CASE \E d \in Days : ClaimJob(w, d)
  BY <1>1, <1>10
<1>11. CASE FetchFails(w)
  BY <1>3, <1>11
<1>12. CASE RefuseRates(w)
  BY <1>3, <1>12
<1> QED
  BY <1>2, <1>5, <1>7, <1>9, <1>10, <1>11, <1>12 DEF WorkerStep

(* The steps of the world around the workers.                               *)
LEMMA OtherSteps ==
  ASSUME ImportAssumption, ImportInv,
         \/ \E w \in Workers : Crash(w)
         \/ \E d \in Days : LeaseExpires(d) \/ Stall(d)
         \/ \E c \in Quotes : Publish(c)
         \/ \E S \in SUBSET Tenants : SetActive(S)
         \/ EnqueueImport \/ NewDay \/ UNCHANGED vars
  PROVE  ImportInv'
<1> USE DEF ImportInv
<1>1. ASSUME NEW w \in Workers, Crash(w) PROVE ImportInv'
  <2>1. Idle \in WorkerState /\ Idle.pc = "IDLE"
    BY DEF Idle, WorkerState, Days, ImportAssumption
  <2>2. worker' \in [Workers -> WorkerState]
    BY <1>1, <2>1 DEF Crash, TypeOK
  <2>3. \A v \in Workers : worker'[v].pc = "FETCHED" => worker'[v] = worker[v]
    BY <1>1, <2>1 DEF Crash, TypeOK
  <2>4. lost' \subseteq Days
    BY <1>1 DEF Crash, TypeOK, WorkerState
  <2> QED
    BY <1>1, <2>2, <2>3, <2>4 DEF Crash, TypeOK, RatesInv
<1>2. ASSUME NEW d \in Days, LeaseExpires(d) \/ Stall(d) PROVE ImportInv'
  <2>1. jobs' = [jobs EXCEPT ![d].lease = "STALE"]
    BY <1>2 DEF LeaseExpires, Stall
  <2>2. jobs' \in [Days -> Job]
    BY <2>1 DEF TypeOK, Job
  <2>3. stalls' \in Nat
    BY <1>2 DEF LeaseExpires, Stall, TypeOK
  <2>4. UNCHANGED <<rates, active, published, today, worker, lost>>
    BY <1>2 DEF LeaseExpires, Stall
  <2> QED
    BY <2>2, <2>3, <2>4 DEF TypeOK, RatesInv
<1>3. ASSUME NEW c \in Quotes, Publish(c) PROVE ImportInv'
  BY <1>3 DEF Publish, TypeOK, RatesInv
<1>4. ASSUME NEW S \in SUBSET Tenants, SetActive(S) PROVE ImportInv'
  BY <1>4 DEF SetActive, TypeOK, RatesInv
<1>5. CASE EnqueueImport
  <2>1. jobs' \in [Days -> Job]
    BY <1>5 DEF EnqueueImport, TypeOK, Job, Statuses
  <2> QED
    BY <1>5, <2>1 DEF EnqueueImport, TypeOK, RatesInv
<1>6. CASE NewDay
  <2>1. today' \in Days
    BY <1>6 DEF NewDay, TypeOK, Days, ImportAssumption
  <2> QED
    BY <1>6, <2>1 DEF NewDay, TypeOK, RatesInv
<1>7. CASE UNCHANGED vars
  BY <1>7 DEF vars, TypeOK, RatesInv
<1> QED
  BY <1>1, <1>2, <1>3, <1>4, <1>5, <1>6, <1>7

(* Every step of a worker, the scheduler, the provider or an administrator  *)
(* keeps the invariant.                                                     *)
LEMMA ImportInvInductive ==
  ASSUME ImportAssumption
  PROVE  Spec => []ImportInv
<1>1. Init => ImportInv
  BY InitialStates
<1>2. ASSUME ImportInv, [Next]_vars PROVE ImportInv'
  BY <1>2, WorkerSteps, OtherSteps DEF Next
<1> QED
  BY <1>1, <1>2, PTL DEF Spec

(* Every row of fx_import_job stays within its constraints, and every row   *)
(* and claim the workers write is well formed.                              *)
THEOREM TypeCorrect == Spec => []TypeOK
<1>1. ImportInv => TypeOK
  BY DEF ImportInv
<1> QED
  BY <1>1, ImportAssumption, ImportInvInductive, PTL
-----------------------------------------------------------------------------
(* A step that keeps no more workers at a job, nor frees its claim, keeps   *)
(* the bounds on the workers at it.                                         *)
LEMMA SmallerKeeps ==
  ASSUME NEW S, IsFiniteSet(S), NEW T \in SUBSET S,
         NEW n \in Nat, NEW m \in Nat, n <= m, Cardinality(S) <= n
  PROVE  Cardinality(T) <= m
<1>1. Cardinality(S) \in Nat /\ Cardinality(T) \in Nat /\ Cardinality(T) <= Cardinality(S)
  BY FS_CardinalityType, FS_Subset
<1> QED
  BY <1>1

(* A worker that leaves a job makes room for one.                           *)
LEMMA LeavingFrees ==
  ASSUME NEW S, IsFiniteSet(S), NEW w \in S, NEW T \in SUBSET (S \ {w}),
         NEW n \in Nat, Cardinality(S) <= 1 + n
  PROVE  Cardinality(T) <= n
<1>1. Cardinality(S \ {w}) = Cardinality(S) - 1 /\ IsFiniteSet(S \ {w})
  BY FS_RemoveElement
<1>2. Cardinality(S) \in Nat
  BY FS_CardinalityType
<1>3. Cardinality(S \ {w}) <= n
  BY <1>1, <1>2
<1> QED
  BY <1>1, <1>3, SmallerKeeps

(* The workers at a job are as few as there are workers.                    *)
LEMMA AtWorkFinite ==
  ASSUME NEW d \in Days
  PROVE  IsFiniteSet(AtWork(d)) /\ Cardinality(AtWork(d)) \in Nat
<1>1. AtWork(d) \in SUBSET Workers
  BY DEF AtWork
<1> QED
  BY <1>1, FiniteWorkers, FS_Subset, FS_CardinalityType

(* One more worker comes to a job by a claim, which only a loose job allows *)
(* and which ends the looseness.                                            *)
LEMMA ClaimKeepsClaimInv ==
  ASSUME TypeOK, ClaimInv, NEW w \in Workers, NEW d \in Days, ClaimJob(w, d)
  PROVE  ClaimInv'
<1>1. worker' = [worker EXCEPT ![w] =
        [pc |-> "CLAIMED", job |-> d, attempt |-> jobs[d].attempts + 1,
         quoted |-> Idle.quoted]]
  BY DEF ClaimJob
<1>2. worker[w].pc = "IDLE" /\ stalls' = stalls /\ stalls \in Nat
  BY DEF ClaimJob, TypeOK
<1>3. AtWork(d)' = AtWork(d) \cup {w}
  BY <1>1, <1>2 DEF AtWork, TypeOK
<1>4. \A e \in Days : e # d => AtWork(e)' = AtWork(e)
  BY <1>1, <1>2 DEF AtWork, TypeOK
<1>5. Loose(d)
  BY DEF ClaimJob, Claimable, Loose
<1>6. /\ jobs' = [jobs EXCEPT ![d] = [jobs[d] EXCEPT !.status = "PROCESSING",
                     !.attempts = jobs[d].attempts + 1, !.lease = "FRESH"]]
      /\ jobs[d] \in Job
  BY DEF ClaimJob, TypeOK
<1>7. ~Loose(d)'
  BY <1>6 DEF Loose, TypeOK, Job
<1>8. \A e \in Days : e # d => Loose(e)' = Loose(e)
  BY <1>6 DEF Loose, TypeOK
<1>9. Cardinality(AtWork(d)') <= 1 + stalls
  <2>1. Cardinality(AtWork(d)') <= Cardinality(AtWork(d)) + 1
    BY <1>3, AtWorkFinite, FS_AddElement
  <2>2. Cardinality(AtWork(d)) <= stalls
    BY <1>5 DEF ClaimInv
  <2>3. IsFiniteSet(AtWork(d)') /\ Cardinality(AtWork(d)') \in Nat
    BY <1>3, AtWorkFinite, FS_AddElement, FS_CardinalityType
  <2> QED
    BY <1>2, <2>1, <2>2, <2>3, AtWorkFinite
<1> QED
  BY <1>2, <1>4, <1>7, <1>8, <1>9 DEF ClaimInv

(* Workers that stay or go, over jobs that do not become loose, or over a   *)
(* job that becomes loose as one of its workers goes.                       *)
LEMMA OthersKeepClaimInv ==
  ASSUME TypeOK, ClaimInv, stalls' = stalls,
         \A d \in Days :
           /\ AtWork(d)' \subseteq AtWork(d)
           /\ Loose(d)' => \/ Loose(d)
                           \/ \E w \in AtWork(d) : w \notin AtWork(d)'
  PROVE  ClaimInv'
<1> SUFFICES ASSUME NEW d \in Days
             PROVE  /\ Cardinality(AtWork(d)') <= 1 + stalls
                    /\ Loose(d)' => Cardinality(AtWork(d)') <= stalls
  BY DEF ClaimInv
<1>1. stalls \in Nat /\ 1 + stalls \in Nat
  BY DEF TypeOK
<1>2. Cardinality(AtWork(d)) <= 1 + stalls
  BY DEF ClaimInv
<1>3. Cardinality(AtWork(d)') <= 1 + stalls
  BY <1>1, <1>2, AtWorkFinite, SmallerKeeps
<1>4. ASSUME Loose(d) PROVE Cardinality(AtWork(d)') <= stalls
  <2>1. Cardinality(AtWork(d)) <= stalls
    BY <1>4 DEF ClaimInv
  <2> QED
    BY <1>1, <2>1, AtWorkFinite, SmallerKeeps
<1>5. ASSUME NEW w \in AtWork(d), w \notin AtWork(d)'
      PROVE  Cardinality(AtWork(d)') <= stalls
  <2>1. AtWork(d)' \in SUBSET (AtWork(d) \ {w})
    BY <1>5
  <2> QED
    BY <1>1, <1>2, <2>1, AtWorkFinite, LeavingFrees
<1> QED
  BY <1>3, <1>4, <1>5

(* A worker that stays at its job, or gives it up.                          *)
LEMMA LeavingWorker ==
  ASSUME TypeOK, NEW w \in Workers, worker[w].pc # "IDLE",
         \/ worker' = [worker EXCEPT ![w] = Idle]
         \/ worker' = [worker EXCEPT ![w].pc = "FAILED"]
  PROVE  \A d \in Days : AtWork(d)' \subseteq AtWork(d)
<1>1. Idle.pc = "IDLE"
  BY DEF Idle
<1> QED
  BY <1>1 DEF AtWork, TypeOK, WorkerState

(* What a worker does keeps the count of those at one job: only a claim     *)
(* adds to them, and a claim needs a job that nobody holds.                 *)
LEMMA WorkerKeepsClaimInv ==
  ASSUME ImportAssumption, TypeOK, ClaimInv, NEW w \in Workers, WorkerStep(w)
  PROVE  ClaimInv'
<1>1. ASSUME NEW d \in Days, ClaimJob(w, d) PROVE ClaimInv'
  BY <1>1, ClaimKeepsClaimInv
<1>2. CASE FetchRates(w)
  <2>1. \A d \in Days : AtWork(d)' \subseteq AtWork(d)
    BY <1>2 DEF FetchRates, AtWork, TypeOK, WorkerState
  <2>2. \A d \in Days : Loose(d)' = Loose(d)
    BY <1>2 DEF FetchRates, Loose
  <2> QED
    BY <1>2, <2>1, <2>2, OthersKeepClaimInv DEF FetchRates
<1>3. CASE FetchFails(w) \/ RefuseRates(w)
  <2>0. worker[w].pc # "IDLE" /\ worker' = [worker EXCEPT ![w].pc = "FAILED"]
    BY <1>3 DEF FetchFails, RefuseRates
  <2>1. \A d \in Days : AtWork(d)' \subseteq AtWork(d)
    BY <2>0, LeavingWorker
  <2>2. \A d \in Days : Loose(d)' = Loose(d)
    BY <1>3 DEF FetchFails, RefuseRates, Loose
  <2>3. stalls' = stalls
    BY <1>3 DEF FetchFails, RefuseRates
  <2> QED
    BY <2>1, <2>2, <2>3, OthersKeepClaimInv
<1>4. CASE StoreRates(w) \/ StoreFails(w)
  <2>1. \A d \in Days : AtWork(d)' \subseteq AtWork(d)
    BY <1>4, LeavingWorker DEF StoreRates, StoreFails
  <2>2. ASSUME NEW d \in Days, Loose(d)' PROVE Loose(d)
    <3>1. \/ UNCHANGED jobs
          \/ /\ worker[w].job \in Days
             /\ \E date : jobs' = [jobs EXCEPT ![worker[w].job] = CompletedRow(@, date)]
      BY <1>4 DEF StoreRates, StoreFails, Store, TypeOK, WorkerState
    <3>2. jobs[d] \in Job
      BY DEF TypeOK
    <3>3. jobs'[d] = jobs[d] \/ \E date : jobs'[d] = CompletedRow(jobs[d], date)
      BY <3>1 DEF TypeOK
    <3> QED
      BY <2>2, <3>2, <3>3 DEF Loose, CompletedRow, Job
  <2>3. stalls' = stalls
    BY <1>4 DEF StoreRates, StoreFails
  <2> QED
    BY <2>1, <2>2, <2>3, OthersKeepClaimInv
<1>5. CASE MarkFailed(w)
  <2>1. \A d \in Days : AtWork(d)' \subseteq AtWork(d)
    BY <1>5, LeavingWorker DEF MarkFailed
  <2>2. PICK e \in Days : e = worker[w].job
    BY DEF TypeOK, WorkerState
  <2>3. w \in AtWork(e) /\ w \notin AtWork(e)'
    BY <1>5, <2>2 DEF MarkFailed, AtWork, TypeOK, Idle
  <2>4. \A d \in Days : d # e => Loose(d)' = Loose(d)
    BY <1>5, <2>2 DEF MarkFailed, Loose, TypeOK
  <2>5. stalls' = stalls
    BY <1>5 DEF MarkFailed
  <2>6. ASSUME NEW d \in Days, Loose(d)'
        PROVE  Loose(d) \/ \E v \in AtWork(d) : v \notin AtWork(d)'
    <3>1. CASE d = e
      BY <2>3, <3>1
    <3>2. CASE d # e
      BY <2>4, <2>6, <3>2
    <3> QED
      BY <3>1, <3>2
  <2> QED
    BY <2>1, <2>5, <2>6, OthersKeepClaimInv
<1> QED
  BY <1>1, <1>2, <1>3, <1>4, <1>5 DEF WorkerStep

(* So does the rest: a stall frees a job for one more worker and is counted. *)
LEMMA OtherStepsKeepClaimInv ==
  ASSUME TypeOK, ClaimInv,
         \/ \E w \in Workers : Crash(w)
         \/ \E d \in Days : LeaseExpires(d) \/ Stall(d)
         \/ \E c \in Quotes : Publish(c)
         \/ \E S \in SUBSET Tenants : SetActive(S)
         \/ EnqueueImport \/ NewDay \/ UNCHANGED vars
  PROVE  ClaimInv'
<1>1. ASSUME NEW w \in Workers, Crash(w) PROVE ClaimInv'
  <2>1. \A d \in Days : AtWork(d)' \subseteq AtWork(d)
    BY <1>1, LeavingWorker DEF Crash
  <2>2. \A d \in Days : Loose(d)' = Loose(d)
    BY <1>1 DEF Crash, Loose
  <2> QED
    BY <1>1, <2>1, <2>2, OthersKeepClaimInv DEF Crash
<1>2. ASSUME NEW d \in Days, LeaseExpires(d) PROVE ClaimInv'
  <2>1. \A e \in Days : AtWork(e)' = AtWork(e)
    BY <1>2 DEF LeaseExpires, AtWork
  <2>2. \A e \in Days : e # d => Loose(e)' = Loose(e)
    BY <1>2 DEF LeaseExpires, Loose, TypeOK
  <2>3. Cardinality(AtWork(d)) <= stalls
    BY <1>2, FS_EmptySet DEF LeaseExpires, TypeOK
  <2> QED
    BY <1>2, <2>1, <2>2, <2>3 DEF ClaimInv, LeaseExpires
<1>3. ASSUME NEW d \in Days, Stall(d) PROVE ClaimInv'
  <2>1. \A e \in Days : AtWork(e)' = AtWork(e)
    BY <1>3 DEF Stall, AtWork
  <2>2. stalls' = stalls + 1 /\ stalls \in Nat
    BY <1>3 DEF Stall, TypeOK
  <2>3. \A e \in Days : Cardinality(AtWork(e)) \in Nat
    BY AtWorkFinite
  <2> QED
    BY <2>1, <2>2, <2>3 DEF ClaimInv
<1>4. ASSUME UNCHANGED <<worker, stalls>>,
             \A d \in Days : Loose(d)' => Loose(d)
      PROVE  ClaimInv'
  <2>1. \A d \in Days : AtWork(d)' = AtWork(d)
    BY <1>4 DEF AtWork
  <2> QED
    BY <1>4, <2>1, OthersKeepClaimInv
<1>5. CASE EnqueueImport
  BY <1>4, <1>5 DEF EnqueueImport, Loose, TypeOK
<1>6. CASE \/ \E c \in Quotes : Publish(c)
           \/ \E S \in SUBSET Tenants : SetActive(S)
           \/ NewDay \/ UNCHANGED vars
  <2>1. UNCHANGED <<jobs, worker, stalls>>
    BY <1>6 DEF Publish, SetActive, NewDay, vars
  <2> QED
    BY <1>4, <2>1 DEF Loose
<1> QED
  BY <1>1, <1>2, <1>3, <1>5, <1>6

(* Only a lease that runs out on a worker at work lets a second one at the  *)
(* same job.                                                                *)
THEOREM OneImporter == Spec => []OneImporterAtATime
<1>1. ASSUME Init PROVE ClaimInv
  <2>1. \A d \in Days : AtWork(d) = {}
    BY <1>1 DEF Init, AtWork, Idle
  <2> QED
    BY <1>1, <2>1, FS_EmptySet DEF Init, ClaimInv
<1>2. ASSUME TypeOK, ClaimInv, [Next]_vars PROVE ClaimInv'
  BY <1>2, ImportAssumption, WorkerKeepsClaimInv, OtherStepsKeepClaimInv DEF Next
<1>3. ClaimInv => OneImporterAtATime
  BY DEF ClaimInv, OneImporterAtATime
<1> QED
  BY <1>1, <1>2, <1>3, TypeCorrect, PTL DEF Spec

-----------------------------------------------------------------------------
(* A batch that is stored prices the requested day for every active tenant: *)
(* the tenant gets it now, or had rates of that day or of that job, which   *)
(* are of age as well.                                                      *)
LEMMA StoredPrices ==
  ASSUME ImportAssumption, TypeOK, RatesInv, NEW q \in [Quotes -> Days],
         NEW d \in Days, Storable(d, ProviderDate(q)), NEW t \in active
  PROVE  \E r \in StoredRates(q, d) : r.tenant = t /\ Storable(d, r.date)
<1> DEFINE row == [tenant |-> t, date |-> ProviderDate(q), quoted |-> q, job |-> d]
<1>1. CASE NewRates(t, ProviderDate(q), d)
  <2>1. row \in StoredRates(q, d)
    BY <1>1 DEF StoredRates
  <2> QED
    BY <2>1
<1>2. CASE ~NewRates(t, ProviderDate(q), d)
  <2>1. PICK r \in rates : r.tenant = t /\ (r.date = ProviderDate(q) \/ r.job = d)
    BY <1>2 DEF NewRates
  <2>2. Storable(d, r.date)
    BY <2>1 DEF RatesInv
  <2>3. r \in StoredRates(q, d)
    BY DEF StoredRates
  <2> QED
    BY <2>1, <2>2, <2>3
<1> QED
  BY <1>1, <1>2

(* A step that completes a job is one that stores a batch for it.           *)
LEMMA CompletionStores ==
  ASSUME TypeOK, Next, NEW d \in Days,
         jobs[d].status # "COMPLETED", jobs'[d].status = "COMPLETED"
  PROVE  \E w \in Workers :
           /\ worker[w].pc = "FETCHED"
           /\ worker[w].job = d
           /\ Storable(d, ProviderDate(worker[w].quoted))
           /\ rates' = StoredRates(worker[w].quoted, d)
<1>1. jobs' # jobs
  OBVIOUS
<1>2. ~EnqueueImport /\ ~NewDay
  BY <1>1 DEF EnqueueImport, NewDay, TypeOK, Job
<1>3. ASSUME NEW e \in Days PROVE ~LeaseExpires(e) /\ ~Stall(e)
  BY DEF LeaseExpires, Stall, TypeOK, Job
<1>4. \A c \in Quotes : ~Publish(c)
  BY <1>1 DEF Publish
<1>5. \A S \in SUBSET Tenants : ~SetActive(S)
  BY <1>1 DEF SetActive
<1>6. PICK w \in Workers : WorkerStep(w) \/ Crash(w)
  BY <1>2, <1>3, <1>4, <1>5 DEF Next
<1>7. ~Crash(w) /\ ~FetchRates(w) /\ ~FetchFails(w) /\ ~RefuseRates(w)
  BY <1>1 DEF Crash, FetchRates, FetchFails, RefuseRates
<1>8. ASSUME NEW e \in Days PROVE ~ClaimJob(w, e)
  BY DEF ClaimJob, TypeOK, Job
<1>9. ~MarkFailed(w)
  <2>1. MarkFailed(w) => \/ jobs'[d] = jobs[d]
                        \/ jobs'[d] = FailedRow(jobs[d], worker[w].attempt)
    BY DEF MarkFailed, TypeOK
  <2>2. jobs[d] \in Job
    BY DEF TypeOK
  <2>3. FailedRow(jobs[d], worker[w].attempt).status # "COMPLETED"
    BY <2>2 DEF FailedRow, Job
  <2> QED
    BY <2>1, <2>3
<1>10. StoreRates(w) \/ StoreFails(w)
  BY <1>6, <1>7, <1>8, <1>9 DEF WorkerStep
<1>11. Store(w)
  BY <1>1, <1>10 DEF StoreRates, StoreFails
<1>12. worker[w].job = d
  BY <1>11 DEF Store, TypeOK
<1> QED
  BY <1>10, <1>11, <1>12 DEF StoreRates, StoreFails, Store

(* A completed job leaves no active tenant without a rate that is of age.   *)
THEOREM CompletionPrices == Spec => CompletedIsPriced
<1>1. ASSUME ImportInv, Next, NEW d \in Days,
             jobs[d].status # "COMPLETED", jobs'[d].status = "COMPLETED",
             NEW t \in active
      PROVE  \E r \in rates' : r.tenant = t /\ r.date <= d /\ d - r.date <= MaxAge
  <2>1. PICK w \in Workers :
           /\ worker[w].pc = "FETCHED"
           /\ worker[w].job = d
           /\ Storable(d, ProviderDate(worker[w].quoted))
           /\ rates' = StoredRates(worker[w].quoted, d)
    BY <1>1, CompletionStores DEF ImportInv
  <2>2. worker[w].quoted \in [Quotes -> Days]
    BY <1>1 DEF ImportInv, TypeOK, WorkerState
  <2>3. \E r \in rates' : r.tenant = t /\ Storable(d, r.date)
    BY <1>1, <2>1, <2>2, ImportAssumption, StoredPrices DEF ImportInv
  <2> QED
    BY <2>3 DEF Storable
<1>2. ImportInv /\ [Next]_vars =>
        [\A d \in Days :
           jobs[d].status # "COMPLETED" /\ jobs'[d].status = "COMPLETED"
             => \A t \in active : \E r \in rates' :
                  r.tenant = t /\ r.date <= d /\ d - r.date <= MaxAge]_vars
  BY <1>1
<1> QED
  BY <1>2, ImportAssumption, ImportInvInductive, PTL DEF Spec, CompletedIsPriced

-----------------------------------------------------------------------------
(* The batches in table exchange_rate as RateBook sees them.                *)
Approved ==
  {[tenant |-> r.tenant, date |-> r.date, quoted |-> r.quoted] : r \in rates}

(* Storing a batch approves it for the active tenants that had neither      *)
(* rates of its day nor rates of the job.                                   *)
LEMMA StoreApproves ==
  ASSUME ImportAssumption, ImportInv, NEW w \in Workers,
         worker[w].pc = "FETCHED", Store(w)
  PROVE  Book!Next
<1>1. PICK d \in Days, q \in [Quotes -> Days] :
        d = worker[w].job /\ q = worker[w].quoted /\ Coherent(q)
  BY DEF ImportInv, TypeOK, WorkerState, RatesInv
<1>2. PICK date \in Days : date = ProviderDate(q) /\ q = [c \in Quotes |-> date]
  BY <1>1, ProviderDateOfQuotes
<1>3. PICK S \in SUBSET Tenants : S = {u \in active : NewRates(u, date, d)}
  BY DEF ImportInv, TypeOK
<1>4. rates' = rates \cup
        {[tenant |-> t, date |-> date, quoted |-> q, job |-> d] : t \in S}
  BY <1>1, <1>2, <1>3 DEF Store, StoredRates
<1>5. Approved' = Approved \cup
        {[tenant |-> t, date |-> date, quoted |-> q] : t \in S}
  <2> DEFINE row(t) == [tenant |-> t, date |-> date, quoted |-> q, job |-> d]
             cut(r) == [tenant |-> r.tenant, date |-> r.date, quoted |-> r.quoted]
             batch(t) == [tenant |-> t, date |-> date, quoted |-> q]
  <2>1. \A t \in S : cut(row(t)) = batch(t)
    OBVIOUS
  <2>2. \A r : r \in rates' <=> r \in rates \/ \E t \in S : r = row(t)
    BY <1>4
  <2>3. Approved = {cut(r) : r \in rates} /\ Approved' = {cut(r) : r \in rates'}
    BY DEF Approved
  <2> HIDE DEF row, cut, batch
  <2>4. \A x : x \in Approved' <=> x \in Approved \/ \E t \in S : x = batch(t)
    BY <2>1, <2>2, <2>3
  <2>5. Approved' = Approved \cup {batch(t) : t \in S}
    BY <2>4
  <2> QED
    BY <2>5 DEF batch
<1>6. \A t \in S : ~\E b \in Approved : b.tenant = t /\ b.date = date
  BY <1>3 DEF NewRates, Approved
<1>7. Book!Approve(date, S)
  BY <1>2, <1>5, <1>6 DEF Book!Approve, Book!Known, Approved
<1> QED
  BY <1>7 DEF Book!Next

(* Every other step leaves the approved rates alone.                        *)
LEMMA StepMapsToRateBook ==
  ASSUME ImportAssumption, ImportInv, [Next]_vars
  PROVE  Book!Next \/ Approved' = Approved
<1>1. CASE rates' = rates
  BY <1>1 DEF Approved
<1>2. CASE rates' # rates
  <2>1. PICK w \in Workers : StoreRates(w) \/ StoreFails(w)
    BY <1>2 DEF Next, WorkerStep, Crash, LeaseExpires, Stall, Publish, SetActive,
                EnqueueImport, NewDay, ClaimJob, FetchRates, FetchFails,
                RefuseRates, MarkFailed, vars
  <2>2. worker[w].pc = "FETCHED" /\ Store(w)
    BY <1>2, <2>1 DEF StoreRates, StoreFails
  <2> QED
    BY <2>2, StoreApproves
<1> QED
  BY <1>1, <1>2

(* The import implements the rate book: whatever is retried, taken over or  *)
(* stored twice, approved rates appear in whole batches of one day and stay *)
(* as they are.                                                             *)
THEOREM RatesImplementBook == Spec => ImplementsRateBook
<1>1. Init => Book!Init
  BY DEF Init, Book!Init
<1>2. ASSUME ImportInv, [Next]_vars PROVE [Book!Next]_Approved
  BY <1>2, ImportAssumption, StepMapsToRateBook
<1> QED
  BY <1>1, <1>2, ImportAssumption, ImportInvInductive, PTL
     DEF Spec, ImplementsRateBook, Book!Spec, Approved
=============================================================================
