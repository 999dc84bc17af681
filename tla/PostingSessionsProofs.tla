----------------------- MODULE PostingSessionsProofs -----------------------
(***************************************************************************)
(* Proofs about PostingSessions, for any number of sessions, invoices and  *)
(* periods: types and who holds which lock, what closing a period is       *)
(* worth, that only MANUAL receipts can be the cause of a deadlock, that   *)
(* sessions which lock row by row do what receipts, credits and approvals  *)
(* do at once, and that AUTO receipts pay the oldest invoices first.       *)
(***************************************************************************)
EXTENDS PostingSessions, FiniteSums

Fields == {"pc", "req", "todo", "seen", "alloc", "rest", "period", "overtaken"}

(* An entry that has had its last check belongs to a period that is open,   *)
(* or the period was closed on it.                                          *)
PeriodOK(t, per) ==
  t.pc # "IDLE" =>
    /\ t.pc \in {"LOCKING", "POSTING", "COMMITTING"}
    /\ DOMAIN t = Fields
    /\ t.period \in Periods
    /\ Receipt(t.req) \/ t.pc = "COMMITTING" =>
         per[t.period] = "OPEN" \/ t.overtaken = TRUE

(* What a session s holds comes before what it still has to lock.           *)
LocksOK(s, t, lk) ==
  /\ t.pc = "IDLE" => \A i \in Invoices : lk[i] # s
  /\ t.pc = "LOCKING" =>
       /\ t.todo \subseteq Invoices
       /\ t.todo # {}
       /\ t.req.op # "MANUAL" =>
            \A i \in Invoices, j \in t.todo : lk[i] = s => i < j

PostingInv ==
  /\ period \in [Periods -> {"OPEN", "CLOSED", "LOCKED"}]
  /\ today \in Periods
  /\ lock \in [Invoices -> Sessions \cup {Nobody}]
  /\ DOMAIN sess = Sessions
  /\ \A s \in Sessions : PeriodOK(sess[s], period) /\ LocksOK(s, sess[s], lock)

-----------------------------------------------------------------------------
(* A request that locks by due date takes the least of what it has to lock. *)
LEMMA NextLockIsLeast ==
  ASSUME NEW t, t.todo \subseteq Invoices, t.todo # {}, t.req.op # "MANUAL"
  PROVE  NextLock(t) \in t.todo /\ \A j \in t.todo : NextLock(t) <= j
<1>1. \E i \in t.todo : \A j \in t.todo : i <= j
  BY LeastNatural, PostingAssumption
<1>2. \E i \in t.todo : \A j \in t.todo : Place(t, i) <= Place(t, j)
  BY <1>1 DEF Place
<1>3. NextLock(t) \in t.todo /\ \A j \in t.todo : Place(t, NextLock(t)) <= Place(t, j)
  BY <1>2 DEF NextLock
<1>4. QED
  BY <1>3 DEF Place

(* What a request asks for is there.                                        *)
LEMMA RequestsType ==
  ASSUME PostingInv, NEW q \in Requests
  PROVE  ToLock(q) \subseteq Invoices /\ EntryPeriod(q) \in Periods
<1>1. CASE q \in ManualRequests
  BY <1>1, PostingAssumption DEF ManualRequests, ToLock, EntryPeriod, Receipt
<1>2. CASE q \in AutoRequests
  BY <1>2, PostingAssumption DEF AutoRequests, ToLock, EntryPeriod, Receipt
<1>3. CASE q \in CreditRequests
  BY <1>3, PostingAssumption DEF CreditRequests, ToLock, EntryPeriod, Receipt, PostingInv
<1>4. CASE q \in ApproveRequests
  BY <1>4, PostingAssumption DEF ApproveRequests, ToLock, EntryPeriod, Receipt
<1>5. QED
  BY <1>1, <1>2, <1>3, <1>4 DEF Requests

-----------------------------------------------------------------------------
(* A step of one session that gives others nothing and takes nothing from   *)
(* them leaves them as they are.                                            *)
LEMMA SessionStep ==
  ASSUME PostingInv, UNCHANGED calendar, NEW s \in Sessions,
         sess' = [sess EXCEPT ![s] = sess'[s]],
         lock' \in [Invoices -> Sessions \cup {Nobody}],
         \A i \in Invoices : lock'[i] # s => lock'[i] \in {lock[i], Nobody},
         PeriodOK(sess'[s], period), LocksOK(s, sess'[s], lock')
  PROVE  PostingInv'
<1>1. period' = period /\ today' = today
  BY DEF calendar
<1>2. DOMAIN sess' = Sessions /\ \A z \in Sessions \ {s} : sess'[z] = sess[z]
  BY DEF PostingInv
<1>3. ASSUME NEW z \in Sessions \ {s}
      PROVE  LocksOK(z, sess'[z], lock')
  <2>1. \A i \in Invoices : lock'[i] = z => lock[i] = z
    BY PostingAssumption
  <2>2. LocksOK(z, sess[z], lock)
    BY DEF PostingInv
  <2>3. QED
    BY <1>2, <2>1, <2>2 DEF LocksOK
<1>4. \A z \in Sessions : PeriodOK(sess'[z], period') /\ LocksOK(z, sess'[z], lock')
  BY <1>1, <1>2, <1>3 DEF PostingInv
<1>5. QED
  BY <1>1, <1>2, <1>4 DEF PostingInv

(* Nothing is held at the start.                                            *)
LEMMA InitialPostings == Init => PostingInv
<1> SUFFICES ASSUME Init PROVE PostingInv
  OBVIOUS
<1>1. period \in [Periods -> {"OPEN", "CLOSED", "LOCKED"}]
  BY DEF Init
<1>2. \A s \in Sessions : PeriodOK(sess[s], period) /\ LocksOK(s, sess[s], lock)
  BY PostingAssumption DEF Init, Idle, PeriodOK, LocksOK
<1>3. QED
  BY <1>1, <1>2 DEF Init, PostingInv

(* A receipt or an approval begins with a period that is open.              *)
LEMMA BeginKeeps ==
  ASSUME PostingInv, NEW s \in Sessions, NEW q \in Requests, Begin(s, q)
  PROVE  PostingInv'
<1>1. ToLock(q) \subseteq Invoices /\ EntryPeriod(q) \in Periods
  BY RequestsType
<1>2. /\ sess' = [sess EXCEPT ![s] = sess'[s]]
      /\ DOMAIN sess'[s] = Fields
      /\ sess'[s].pc = "LOCKING"
      /\ sess'[s].req = q
      /\ sess'[s].todo = ToLock(q)
      /\ sess'[s].period = EntryPeriod(q)
  BY DEF Begin, PostingInv, Fields
<1>3. /\ sess[s].pc = "IDLE" /\ ToLock(q) # {}
      /\ q.op # "CREDIT" => period[EntryPeriod(q)] = "OPEN"
      /\ UNCHANGED <<calendar, lock>>
  BY DEF Begin
<1>4. PeriodOK(sess'[s], period)
  BY <1>1, <1>2, <1>3 DEF PeriodOK, Receipt
<1>5. \A i \in Invoices : lock[i] # s
  BY <1>3 DEF PostingInv, LocksOK
<1>6. LocksOK(s, sess'[s], lock')
  BY <1>1, <1>2, <1>3, <1>5 DEF LocksOK
<1>7. QED
  BY <1>2, <1>3, <1>4, <1>6, SessionStep DEF PostingInv

(* A session locks in its order.                                            *)
LEMMA TakeLockKeeps ==
  ASSUME PostingInv, NEW s \in Sessions, TakeLock(s)
  PROVE  PostingInv'
<1> DEFINE t == sess[s]
           u == sess'[s]
           i == NextLock(t)
<1>1. /\ t.pc = "LOCKING" /\ lock[i] = Nobody
      /\ lock' = [lock EXCEPT ![i] = s]
      /\ UNCHANGED calendar
  BY DEF TakeLock, TakeRow
<1>2. PICK p \in (IF t.req.op = "CREDIT" THEN LatestOpen ELSE {t.period}) :
        sess' = [sess EXCEPT ![s] =
          [t EXCEPT !.pc = IF t.todo = {i} THEN "POSTING" ELSE @,
                    !.todo = @ \ {i},
                    !.seen = IF t.req.op = "CREDIT" THEN [j \in {i} |-> rows[j]] ELSE @,
                    !.period = p]]
  BY DEF TakeLock, TakeRow
<1>3. PeriodOK(t, period) /\ LocksOK(s, t, lock)
  BY DEF PostingInv
<1>4. p \in Periods /\ (t.req.op # "CREDIT" => p = t.period)
  BY <1>1, <1>2, <1>3 DEF LatestOpen, PeriodOK
<1>5. /\ sess' = [sess EXCEPT ![s] = u]
      /\ DOMAIN u = Fields
      /\ u.pc = IF t.todo = {i} THEN "POSTING" ELSE "LOCKING"
      /\ u.todo = t.todo \ {i}
      /\ u.req = t.req
      /\ u.period = p
      /\ u.overtaken = t.overtaken
  BY <1>1, <1>2, <1>3 DEF PeriodOK, Fields, PostingInv
<1> HIDE DEF u
<1>6. PeriodOK(u, period)
  BY <1>1, <1>3, <1>4, <1>5 DEF PeriodOK, Receipt
<1>7. t.todo \subseteq Invoices /\ t.todo # {}
  BY <1>1, <1>3 DEF LocksOK
<1>8. t.req.op # "MANUAL" =>
        /\ i \in t.todo
        /\ \A j \in t.todo : i <= j
  BY <1>7, NextLockIsLeast
<1> HIDE DEF i, t
<1>9. ASSUME t.req.op # "MANUAL", NEW k \in Invoices, NEW j \in t.todo \ {i}, lock'[k] = s
      PROVE  k < j
  <2>1. k \in Nat /\ j \in Nat /\ i \in Nat
    BY <1>7, <1>8, <1>9, PostingAssumption
  <2>2. CASE k = i
    BY <1>8, <1>9, <2>1, <2>2
  <2>3. CASE k # i
    <3>1. lock[k] = s
      BY <1>1, <1>9, <2>3 DEF PostingInv
    <3>2. QED
      BY <1>1, <1>3, <1>9, <3>1 DEF LocksOK
  <2>4. QED
    BY <2>2, <2>3
<1>10. LocksOK(s, u, lock')
  BY <1>5, <1>7, <1>9 DEF LocksOK
<1>11. /\ lock' \in [Invoices -> Sessions \cup {Nobody}]
       /\ \A k \in Invoices : lock'[k] # s => lock'[k] \in {lock[k], Nobody}
  BY <1>1 DEF PostingInv
<1>12. QED
  BY <1>1, <1>5, <1>6, <1>10, <1>11, SessionStep DEF u

(* The trigger is the last check of an entry.                               *)
LEMMA InsertKeeps ==
  ASSUME PostingInv, NEW s \in Sessions, InsertEntry(s)
  PROVE  PostingInv'
<1>1. /\ sess[s].pc = "POSTING" /\ UNCHANGED <<calendar, lock>>
      /\ Receipt(sess[s].req) \/ period[sess[s].period] = "OPEN"
  BY DEF InsertEntry, Trigger
<1>2. PeriodOK(sess[s], period) /\ LocksOK(s, sess[s], lock)
  BY DEF PostingInv
<1>3. sess' = [sess EXCEPT ![s] = [sess[s] EXCEPT !.pc = "COMMITTING"]]
  BY DEF InsertEntry
<1>4. /\ sess' = [sess EXCEPT ![s] = sess'[s]]
      /\ DOMAIN sess'[s] = Fields
      /\ sess'[s].pc = "COMMITTING"
      /\ sess'[s].req = sess[s].req
      /\ sess'[s].period = sess[s].period
      /\ sess'[s].overtaken = sess[s].overtaken
  BY <1>1, <1>2, <1>3 DEF PeriodOK, Fields, PostingInv
<1>5. PeriodOK(sess'[s], period)
  BY <1>1, <1>2, <1>4 DEF PeriodOK
<1>6. LocksOK(s, sess'[s], lock')
  BY <1>4 DEF LocksOK
<1>7. QED
  BY <1>1, <1>4, <1>5, <1>6, SessionStep DEF PostingInv

(* A session that ends holds nothing.                                       *)
LEMMA ReleaseKeeps ==
  ASSUME PostingInv, NEW s \in Sessions, Release(s), UNCHANGED calendar
  PROVE  PostingInv'
<1>1. sess' = [sess EXCEPT ![s] = sess'[s]] /\ sess'[s].pc = "IDLE"
  BY DEF Release, Idle, PostingInv
<1>2. lock' = [i \in Invoices |-> IF lock[i] = s THEN Nobody ELSE lock[i]]
  BY DEF Release, Unlock, PostingInv
<1>3. PeriodOK(sess'[s], period)
  BY <1>1 DEF PeriodOK
<1>4. LocksOK(s, sess'[s], lock')
  BY <1>1, <1>2, PostingAssumption DEF LocksOK
<1>5. QED
  BY <1>1, <1>2, <1>3, <1>4, SessionStep DEF PostingInv

(* A period that closes overtakes the entries past their last check.        *)
LEMMA CloseKeeps ==
  ASSUME PostingInv, NEW p \in Periods, ClosePeriod(p)
  PROVE  PostingInv'
<1>1. /\ period' = [period EXCEPT ![p] = "CLOSED"]
      /\ UNCHANGED <<today, lock>>
      /\ sess' = [s \in Sessions |->
           IF PastCheck(s, p) THEN [sess[s] EXCEPT !.overtaken = TRUE] ELSE sess[s]]
  BY DEF ClosePeriod, Move
<1>2. ASSUME NEW s \in Sessions
      PROVE  PeriodOK(sess'[s], period') /\ LocksOK(s, sess'[s], lock')
  <2>1. PeriodOK(sess[s], period) /\ LocksOK(s, sess[s], lock)
    BY DEF PostingInv
  <2>2. CASE PastCheck(s, p)
    <3>1. sess'[s] = [sess[s] EXCEPT !.overtaken = TRUE] /\ sess[s].pc # "IDLE"
      BY <1>1, <2>2 DEF PastCheck
    <3>2. /\ DOMAIN sess'[s] = Fields
          /\ sess'[s].pc = sess[s].pc
          /\ sess'[s].req = sess[s].req
          /\ sess'[s].todo = sess[s].todo
          /\ sess'[s].period = sess[s].period
          /\ sess'[s].overtaken = TRUE
      BY <2>1, <3>1 DEF PeriodOK, Fields
    <3>3. QED
      BY <1>1, <2>1, <3>1, <3>2 DEF PeriodOK, LocksOK
  <2>3. CASE ~PastCheck(s, p)
    <3>1. sess'[s] = sess[s]
      BY <1>1, <2>3
    <3>2. PeriodOK(sess[s], period')
      <4>1. CASE sess[s].period = p
        BY <2>1, <2>3, <4>1 DEF PeriodOK, PastCheck
      <4>2. CASE sess[s].period # p
        BY <1>1, <2>1, <4>2 DEF PeriodOK, PostingInv
      <4>3. QED
        BY <4>1, <4>2
    <3>3. QED
      BY <1>1, <2>1, <3>1, <3>2
  <2>4. QED
    BY <2>2, <2>3
<1>3. QED
  BY <1>1, <1>2 DEF PostingInv

(* No other move of the operator or of the day closes an open period.       *)
LEMMA MovesKeep ==
  ASSUME PostingInv, NEW p \in Periods, LockPeriod(p) \/ ReopenPeriod(p) \/ DayPasses
  PROVE  PostingInv'
<1>1. /\ UNCHANGED <<lock, sess>>
      /\ period' \in [Periods -> {"OPEN", "CLOSED", "LOCKED"}]
      /\ \A o \in Periods : period[o] = "OPEN" => period'[o] = "OPEN"
      /\ today' \in Periods
  BY DEF LockPeriod, ReopenPeriod, DayPasses, Move, PostingInv
<1>2. \A s \in Sessions : PeriodOK(sess[s], period')
  BY <1>1 DEF PostingInv, PeriodOK
<1>3. QED
  BY <1>1, <1>2 DEF PostingInv

(* The invariant is inductive.                                              *)
LEMMA PostingInvInductive ==
  ASSUME PostingInv, [Next]_vars
  PROVE  PostingInv'
<1>1. CASE UNCHANGED vars
  BY <1>1 DEF vars, calendar, PostingInv
<1>2. CASE \E s \in Sessions, q \in Requests : Begin(s, q)
  BY <1>2, BeginKeeps
<1>3. ASSUME NEW s \in Sessions,
             TakeLock(s) \/ InsertEntry(s) \/ Commit(s) \/ Fail(s) \/ Lose(s)
      PROVE  PostingInv'
  <2>1. CASE Commit(s) \/ Fail(s) \/ Lose(s)
    <3>1. Release(s) /\ UNCHANGED calendar
      BY <2>1 DEF Commit, CommitReceipt, CommitCredit, CommitApproval, Fail, Lose
    <3>2. QED
      BY <3>1, ReleaseKeeps
  <2>2. QED
    BY <1>3, <2>1, TakeLockKeeps, InsertKeeps
<1>4. CASE \E p \in MovedPeriods : ClosePeriod(p) \/ LockPeriod(p) \/ ReopenPeriod(p)
  BY <1>4, CloseKeeps, MovesKeep, PostingAssumption
<1>5. CASE DayPasses
  BY <1>5, MovesKeep DEF PostingInv
<1>6. QED
  BY <1>1, <1>2, <1>3, <1>4, <1>5 DEF Next

(* The invariant holds in every reachable state.                            *)
LEMMA PostingInvariance == Spec => []PostingInv
<1>1. Init => PostingInv
  BY InitialPostings
<1>2. PostingInv /\ [Next]_vars => PostingInv'
  BY PostingInvInductive
<1>3. QED
  BY <1>1, <1>2, PTL DEF Spec

-----------------------------------------------------------------------------
(* Whatever the operator does while requests are on their way, what posts   *)
(* to a period that is not open was past its last check when it was closed. *)
THEOREM PeriodsFrozen == Spec => ClosedPeriodsFrozen
<1>1. ASSUME PostingInv, [Next]_vars
      PROVE  [\A s \in Sessions :
                Commit(s) => period[sess[s].period] = "OPEN" \/ sess[s].overtaken]_vars
  <2>1. ASSUME NEW s \in Sessions, Commit(s)
        PROVE  period[sess[s].period] = "OPEN" \/ sess[s].overtaken = TRUE
    <3>1. sess[s].pc = "COMMITTING"
      BY <2>1 DEF Commit, CommitReceipt, CommitCredit, CommitApproval
    <3>2. QED
      BY <1>1, <3>1 DEF PostingInv, PeriodOK
  <2>2. QED
    BY <2>1
<1>2. QED
  BY <1>1, PostingInvariance, PTL DEF Spec, ClosedPeriodsFrozen

(* In a circle without a MANUAL receipt everybody waits for a later invoice *)
(* than the one who waits for him: there is none.                           *)
LEMMA NoOrderedCircle ==
  ASSUME PostingInv, NEW D \in SUBSET Sessions, Circle(D)
  PROVE  \E s \in D : sess[s].req.op = "MANUAL"
<1> SUFFICES ASSUME \A s \in D : sess[s].req.op # "MANUAL"
             PROVE  FALSE
  OBVIOUS
<1> DEFINE next(s) == NextLock(sess[s])
           Nexts == {next(s) : s \in D}
<1>1. \A s \in D : sess[s].todo \subseteq Invoices /\ next(s) \in sess[s].todo
  <2>1. TAKE s \in D
  <2>2. sess[s].todo \subseteq Invoices /\ sess[s].todo # {}
    BY DEF Circle, Waiting, PostingInv, LocksOK
  <2>3. QED
    BY <2>2, NextLockIsLeast
<1>2. \A s \in D : next(s) \in Invoices /\ next(s) \in Nat
  BY <1>1, PostingAssumption
<1>3. /\ D # {}
      /\ \A s \in D : \E z \in D : lock[next(z)] = s
      /\ \A s \in D : sess[s].pc = "LOCKING"
  BY DEF Circle, Holder, Waiting
<1>4. ASSUME NEW s \in D, NEW z \in D, lock[next(z)] = s
      PROVE  next(z) < next(s)
  BY <1>1, <1>2, <1>3, <1>4 DEF PostingInv, LocksOK
<1> HIDE DEF next
<1>5. Nexts \subseteq Nat /\ Nexts # {}
  BY <1>2, <1>3
<1>6. PICK i \in Nexts : \A j \in Nexts : i <= j
  BY <1>5, LeastNatural
<1>7. PICK s \in D : i = next(s)
  BY <1>6
<1>8. PICK z \in D : lock[next(z)] = s
  BY <1>3
<1>9. QED
  BY <1>2, <1>4, <1>6, <1>7, <1>8

(* Every deadlock, of any number of sessions, has a MANUAL receipt in it.   *)
THEOREM DeadlocksAreManual == Spec => []OnlyManualDeadlocks
<1>1. PostingInv => OnlyManualDeadlocks
  BY NoOrderedCircle DEF OnlyManualDeadlocks
<1>2. QED
  BY <1>1, PostingInvariance, PTL

-----------------------------------------------------------------------------
(* What a session works on: its plan t is made once, from rows that others  *)
(* may write until it locks them, and is carried out when it holds them.    *)

Target(t) == IF t.req.op = "CREDIT" THEN {t.req.inv} ELSE DOMAIN t.seen

(* What was read is no newer than the table tab, and is its content unless  *)
(* somebody wrote the row since.                                            *)
ReadOK(t, tab) ==
  \A i \in DOMAIN t.seen :
    /\ i \in Invoices
    /\ t.seen[i] \in Row
    /\ t.seen[i].balance <= Amount
    /\ t.seen[i].writes <= tab[i].writes
    /\ t.seen[i].writes = tab[i].writes => t.seen[i] = tab[i]

PlanOK(t) ==
  /\ t.req \in Requests
  /\ DOMAIN t.seen \subseteq Target(t)
  /\ t.req.op = "MANUAL" =>
       /\ DOMAIN t.seen = DOMAIN t.req.alloc
       /\ t.alloc = t.req.alloc
       /\ t.rest = t.req.rest
  /\ t.req.op = "AUTO" =>
       /\ DOMAIN t.seen # {}
       /\ \A i \in DOMAIN t.seen : Payable(t.seen[i])
       /\ t.alloc = AllocationsOldestFirst(t.seen, t.req.amount)
       /\ t.rest = AutoRest(t.seen, t.req.amount)
  /\ t.req.op = "APPROVE" =>
       /\ DOMAIN t.seen = {t.req.inv}
       /\ t.seen[t.req.inv].status = "DRAFT"

(* What s has locked it has checked, and nobody has written it since.       *)
HeldOK(s, t, tab, cred, lk) ==
  /\ t.todo \subseteq Target(t)
  /\ t.pc = "LOCKING" <=> t.todo # {}
  /\ \A i \in Invoices : lk[i] = s => i \in DOMAIN t.seen \ t.todo
  /\ \A i \in Target(t) \ t.todo :
       /\ lk[i] = s
       /\ i \in DOMAIN t.seen
       /\ t.seen[i] = tab[i]
       /\ t.req.op = "MANUAL" =>
            Payable(t.seen[i]) /\ t.req.alloc[i] <= t.seen[i].balance
       /\ t.req.op = "CREDIT" =>
            tab[i].status = "SENT" /\ cred[i] + t.req.amount <= Amount

WorkOK(s, t, tab, cred, lk) ==
  IF t.pc = "IDLE" THEN \A i \in Invoices : lk[i] # s
  ELSE PlanOK(t) /\ ReadOK(t, tab) /\ HeldOK(s, t, tab, cred, lk)

TablesOK(tab, cred, held) ==
  /\ tab \in [Invoices -> Row]
  /\ \A i \in Invoices : tab[i].balance <= Amount
  /\ cred \in [Invoices -> 0 .. Amount]
  /\ held \in Nat

WorkInv ==
  /\ TablesOK(rows, credited, onAccount)
  /\ moves \in 0 .. MaxMoves
  /\ \A s \in Sessions : WorkOK(s, sess[s], rows, credited, lock)

(* The most that a receipt can be.                                          *)
MaxReceipt == Amount * Cardinality(Invoices) + MaxRest

(* The parts of a request.                                                  *)
LEMMA RequestParts ==
  ASSUME NEW q \in Requests
  PROVE  /\ q.op \in {"MANUAL", "AUTO", "CREDIT", "APPROVE"}
         /\ q.op = "MANUAL" => /\ DOMAIN q.alloc # {}
                               /\ DOMAIN q.alloc \subseteq Invoices
                               /\ q.alloc \in [DOMAIN q.alloc -> 1 .. Amount]
                               /\ q.rest \in 0 .. MaxRest
         /\ q.op = "AUTO" => q.amount \in 1 .. MaxReceipt
         /\ q.op = "CREDIT" => q.inv \in Invoices /\ q.amount \in 1 .. Amount
         /\ q.op = "APPROVE" => q.inv \in Invoices
<1>1. CASE q \in ManualRequests
  BY <1>1 DEF ManualRequests
<1>2. CASE q \in AutoRequests
  BY <1>2 DEF AutoRequests, MaxReceipt
<1>3. CASE q \in CreditRequests
  BY <1>3 DEF CreditRequests
<1>4. CASE q \in ApproveRequests
  BY <1>4 DEF ApproveRequests
<1>5. QED
  BY <1>1, <1>2, <1>3, <1>4 DEF Requests

(* The bounds on amounts are numbers.                                       *)
LEMMA BoundsNat ==
  /\ Amount \in Nat
  /\ MaxReceipt \in Nat
  /\ MaxRest <= MaxReceipt
<1>1. Cardinality(Invoices) \in Nat
  BY FS_CardinalityType, PostingAssumption
<1>2. Amount * Cardinality(Invoices) \in Nat
  BY <1>1, PostingAssumption
<1> DEFINE p == Amount * Cardinality(Invoices)
<1> HIDE DEF p
<1>3. p \in Nat /\ MaxReceipt = p + MaxRest
  BY <1>2 DEF p, MaxReceipt
<1>4. QED
  BY <1>3, PostingAssumption

(* Nobody else's writes reach what a session holds, and they show in what   *)
(* it has only read.                                                        *)
LEMMA OthersWork ==
  ASSUME NEW z, NEW t, NEW tab \in [Invoices -> Row], NEW cred, NEW lk,
         WorkOK(z, t, tab, cred, lk), NEW tab2, NEW cred2, NEW lk2,
         t.pc # "IDLE" => Target(t) \subseteq Invoices,
         \A i \in Invoices : lk2[i] = z <=> lk[i] = z,
         \A i \in Invoices :
           \/ tab2[i] = tab[i] /\ cred2[i] = cred[i]
           \/ tab2[i].writes = tab[i].writes + 1 /\ lk[i] # z
  PROVE  WorkOK(z, t, tab2, cred2, lk2)
<1>1. CASE t.pc = "IDLE"
  BY <1>1 DEF WorkOK
<1>2. CASE t.pc # "IDLE"
  <2>1. PlanOK(t) /\ ReadOK(t, tab) /\ HeldOK(z, t, tab, cred, lk)
    BY <1>2 DEF WorkOK
  <2>2. ReadOK(t, tab2)
    <3> SUFFICES ASSUME NEW i \in DOMAIN t.seen
                 PROVE  /\ i \in Invoices
                        /\ t.seen[i] \in Row
                        /\ t.seen[i].balance <= Amount
                        /\ t.seen[i].writes <= tab2[i].writes
                        /\ t.seen[i].writes = tab2[i].writes => t.seen[i] = tab2[i]
      BY DEF ReadOK
    <3>2. /\ i \in Invoices
          /\ t.seen[i] \in Row
          /\ t.seen[i].balance <= Amount
          /\ t.seen[i].writes <= tab[i].writes
          /\ t.seen[i].writes = tab[i].writes => t.seen[i] = tab[i]
      BY <2>1 DEF ReadOK
    <3>3. tab[i].writes \in Nat /\ t.seen[i].writes \in Nat
      BY <3>2 DEF Row
    <3>4. QED
      BY <3>2, <3>3
  <2>3. HeldOK(z, t, tab2, cred2, lk2)
    <3>1. \A i \in Target(t) \ t.todo :
            lk2[i] = z /\ tab2[i] = tab[i] /\ cred2[i] = cred[i]
      BY <1>2, <2>1 DEF HeldOK
    <3>2. QED
      BY <2>1, <3>1 DEF HeldOK
  <2>4. QED
    BY <1>2, <2>1, <2>2, <2>3 DEF WorkOK
<1>3. QED
  BY <1>1, <1>2

(* What a session is after is an invoice.                                   *)
LEMMA TargetInvoices ==
  ASSUME NEW t, PlanOK(t), NEW tab, ReadOK(t, tab)
  PROVE  Target(t) \subseteq Invoices
BY RequestParts DEF PlanOK, ReadOK, Target

(* A step of the session s that writes only what it holds.                  *)
LEMMA WorkStep ==
  ASSUME PostingInv, WorkInv, NEW s \in Sessions,
         sess' = [sess EXCEPT ![s] = sess'[s]],
         TablesOK(rows', credited', onAccount'),
         UNCHANGED moves,
         \A z \in Sessions \ {s}, i \in Invoices : lock'[i] = z <=> lock[i] = z,
         \A i \in Invoices :
           \/ rows'[i] = rows[i] /\ credited'[i] = credited[i]
           \/ rows'[i].writes = rows[i].writes + 1 /\ lock[i] = s,
         WorkOK(s, sess'[s], rows', credited', lock')
  PROVE  WorkInv'
<1>1. \A z \in Sessions \ {s} : sess'[z] = sess[z]
  BY DEF PostingInv
<1>2. ASSUME NEW z \in Sessions \ {s}
      PROVE  WorkOK(z, sess[z], rows', credited', lock')
  <2>1. WorkOK(z, sess[z], rows, credited, lock) /\ rows \in [Invoices -> Row]
    BY DEF WorkInv, TablesOK
  <2>2. sess[z].pc # "IDLE" => Target(sess[z]) \subseteq Invoices
    BY <2>1, TargetInvoices DEF WorkOK
  <2>3. \A i \in Invoices : lock'[i] = z <=> lock[i] = z
    BY <1>2
  <2>4. \A i \in Invoices :
           \/ rows'[i] = rows[i] /\ credited'[i] = credited[i]
           \/ rows'[i].writes = rows[i].writes + 1 /\ lock[i] # z
    BY <1>2
  <2>5. QED
    BY <2>1, <2>2, <2>3, <2>4, OthersWork
<1>3. QED
  BY <1>1, <1>2 DEF WorkInv

(* Nothing is planned at the start.                                         *)
LEMMA InitialWork == Init => WorkInv
<1> SUFFICES ASSUME Init PROVE WorkInv
  OBVIOUS
<1>1. TablesOK(rows, credited, onAccount) /\ moves \in 0 .. MaxMoves
  BY PostingAssumption DEF Init, TablesOK, Row
<1>2. \A s \in Sessions : WorkOK(s, sess[s], rows, credited, lock)
  BY PostingAssumption DEF Init, Idle, WorkOK
<1>3. QED
  BY <1>1, <1>2 DEF WorkInv

(* A request is planned from the rows of the moment.                        *)
LEMMA BeginWork ==
  ASSUME PostingInv, WorkInv, NEW s \in Sessions, NEW q \in Requests, Begin(s, q)
  PROVE  WorkInv'
<1> DEFINE t == sess'[s]
           S == IF q.op = "CREDIT" THEN {} ELSE ToLock(q)
           seen == [i \in S |-> rows[i]]
<1>1. /\ sess' = [sess EXCEPT ![s] = t]
      /\ t.pc = "LOCKING"
      /\ t.req = q
      /\ t.todo = ToLock(q)
      /\ t.seen = seen
      /\ t.alloc = Allocation(q, seen)
      /\ t.rest = Rest(q, seen)
  BY DEF Begin, PostingInv
<1>2. /\ sess[s].pc = "IDLE" /\ ToLock(q) # {}
      /\ q.op = "APPROVE" => rows[q.inv].status = "DRAFT"
      /\ UNCHANGED <<tables, calendar, lock>>
  BY DEF Begin
<1>3. ToLock(q) \subseteq Invoices
  BY RequestsType
<1>4. DOMAIN seen = S /\ \A i \in S : seen[i] = rows[i]
  OBVIOUS
<1> HIDE DEF t, seen
<1>5. PlanOK(t)
  <2>1. q.op \in {"MANUAL", "AUTO", "CREDIT", "APPROVE"}
    BY RequestParts
  <2>2. CASE q.op = "MANUAL"
    BY <1>1, <1>4, <2>2 DEF PlanOK, Target, Allocation, Rest, ToLock
  <2>3. CASE q.op = "AUTO"
    <3>1. DOMAIN t.seen # {} /\ \A i \in DOMAIN t.seen : Payable(t.seen[i])
      BY <1>1, <1>2, <1>4, <2>3 DEF ToLock
    <3>2. /\ t.alloc = AllocationsOldestFirst(t.seen, t.req.amount)
          /\ t.rest = AutoRest(t.seen, t.req.amount)
      BY <1>1, <2>3 DEF Allocation, Rest
    <3>3. QED
      BY <1>1, <2>3, <3>1, <3>2 DEF PlanOK, Target
  <2>4. CASE q.op = "CREDIT"
    BY <1>1, <1>4, <2>4 DEF PlanOK, Target
  <2>5. CASE q.op = "APPROVE"
    BY <1>1, <1>2, <1>4, <2>5 DEF PlanOK, Target, ToLock
  <2>6. QED
    BY <2>1, <2>2, <2>3, <2>4, <2>5
<1>6. ReadOK(t, rows)
  <2>1. \A i \in Invoices : rows[i] \in Row /\ rows[i].balance <= Amount
                           /\ rows[i].writes <= rows[i].writes
    BY DEF WorkInv, TablesOK, Row
  <2>2. QED
    BY <1>1, <1>3, <1>4, <2>1 DEF ReadOK
<1>7. HeldOK(s, t, rows, credited, lock)
  <2>1. \A i \in Invoices : lock[i] # s
    BY <1>2 DEF WorkInv, WorkOK
  <2>2. Target(t) = ToLock(q)
    BY <1>1, <1>4, RequestParts DEF Target, ToLock
  <2>3. QED
    BY <1>1, <1>2, <2>1, <2>2 DEF HeldOK
<1>8. WorkOK(s, t, rows, credited, lock)
  BY <1>1, <1>5, <1>6, <1>7 DEF WorkOK
<1>9. UNCHANGED <<rows, credited, onAccount, lock, moves>>
  BY <1>2 DEF tables, calendar
<1>10. TablesOK(rows', credited', onAccount')
  BY <1>9 DEF WorkInv
<1>11. QED
  BY <1>1, <1>8, <1>9, <1>10, WorkStep DEF t

(* The session is always about to lock something that it needs.             *)
LEMMA NextLockNeeded ==
  ASSUME NEW t, PlanOK(t), t.todo \subseteq Target(t), Target(t) \subseteq Invoices, t.todo # {}
  PROVE  NextLock(t) \in t.todo
<1>1. CASE t.req.op = "MANUAL"
  <2>1. \A i \in t.todo : t.req.place[i] \in Nat
    <3>1. t.req \in Requests /\ t.todo \subseteq DOMAIN t.req.alloc
      BY <1>1 DEF PlanOK, Target
    <3>2. t.req \in ManualRequests
      BY <1>1, <3>1 DEF Requests, AutoRequests, CreditRequests, ApproveRequests
    <3>3. PICK S \in (SUBSET Invoices) \ {{}} :
            t.req.alloc \in [S -> 1 .. Amount] /\ t.req.place \in Places(S)
      BY <3>2 DEF ManualRequests
    <3>4. \A i \in S : t.req.place[i] \in Nat
      <4>1. t.req.place \in [S -> 1 .. Cardinality(S)]
        BY <3>3 DEF Places
      <4>2. IsFiniteSet(S)
        BY PostingAssumption, FS_Subset
      <4>3. Cardinality(S) \in Nat
        BY <4>2, FS_CardinalityType
      <4>4. QED
        BY <4>1, <4>3
    <3>5. QED
      BY <3>1, <3>3, <3>4
  <2> DEFINE P == {t.req.place[i] : i \in t.todo}
  <2>2. P \subseteq Nat /\ P # {}
    BY <2>1
  <2>3. PICK p \in P : \A o \in P : p <= o
    BY <2>2, LeastNatural
  <2>4. \E i \in t.todo : \A j \in t.todo : Place(t, i) <= Place(t, j)
    BY <1>1, <2>3 DEF Place
  <2>5. QED
    BY <2>4 DEF NextLock
<1>2. CASE t.req.op # "MANUAL"
  BY <1>2, NextLockIsLeast
<1>3. QED
  BY <1>1, <1>2

(* A lock is taken on a row that is as it was read, or read then.           *)
LEMMA TakeLockWork ==
  ASSUME PostingInv, WorkInv, NEW s \in Sessions, TakeLock(s)
  PROVE  WorkInv'
<1> DEFINE t == sess[s]
           u == sess'[s]
           i == NextLock(t)
<1>1. /\ t.pc = "LOCKING" /\ lock[i] = Nobody
      /\ Accepts(t, i)
      /\ lock' = [lock EXCEPT ![i] = s]
      /\ UNCHANGED <<tables, calendar>>
  BY DEF TakeLock, TakeRow
<1>2. PICK p : sess' = [sess EXCEPT ![s] =
          [t EXCEPT !.pc = IF t.todo = {i} THEN "POSTING" ELSE @,
                    !.todo = @ \ {i},
                    !.seen = IF t.req.op = "CREDIT" THEN [j \in {i} |-> rows[j]] ELSE @,
                    !.period = p]]
  BY DEF TakeLock, TakeRow
<1>3. PlanOK(t) /\ ReadOK(t, rows) /\ HeldOK(s, t, rows, credited, lock)
  BY <1>1 DEF WorkInv, WorkOK
<1>4. DOMAIN t = Fields
  BY <1>1 DEF PostingInv, PeriodOK
<1>5. /\ sess' = [sess EXCEPT ![s] = u]
      /\ u.pc = IF t.todo = {i} THEN "POSTING" ELSE "LOCKING"
      /\ u.todo = t.todo \ {i}
      /\ u.req = t.req
      /\ u.seen = IF t.req.op = "CREDIT" THEN [j \in {i} |-> rows[j]] ELSE t.seen
      /\ u.alloc = t.alloc
      /\ u.rest = t.rest
  BY <1>1, <1>2, <1>4 DEF Fields, PostingInv
<1>6. /\ Target(t) \subseteq Invoices
      /\ t.todo \subseteq Target(t)
      /\ t.todo # {}
  BY <1>1, <1>3, TargetInvoices DEF HeldOK
<1>7. i \in t.todo
  BY <1>3, <1>6, NextLockNeeded
<1>8. i \in Invoices
  BY <1>6, <1>7
<1>9. /\ rows[i] \in Row /\ rows[i].balance <= Amount
      /\ rows[i].writes <= rows[i].writes
  BY <1>8 DEF WorkInv, TablesOK, Row
<1>10. t.req.op \in {"MANUAL", "AUTO", "CREDIT", "APPROVE"}
  BY <1>3, RequestParts DEF PlanOK
<1> HIDE DEF t, u, i
<1>11. Target(u) = Target(t)
  BY <1>5, <1>6, <1>7 DEF Target
<1>12. t.req.op = "CREDIT" => t.req.inv = i /\ Target(t) = {i} /\ t.todo = {i}
  BY <1>6, <1>7 DEF Target
<1>13. PlanOK(u)
  <2>1. CASE t.req.op = "CREDIT"
    BY <1>3, <1>5, <1>11, <1>12, <2>1 DEF PlanOK
  <2>2. CASE t.req.op # "CREDIT"
    BY <1>3, <1>5, <1>11, <2>2 DEF PlanOK
  <2>3. QED
    BY <2>1, <2>2
<1>14. ReadOK(u, rows)
  <2>1. CASE t.req.op = "CREDIT"
    BY <1>5, <1>8, <1>9, <2>1 DEF ReadOK
  <2>2. CASE t.req.op # "CREDIT"
    BY <1>3, <1>5, <2>2 DEF ReadOK
  <2>3. QED
    BY <2>1, <2>2
<1>15. /\ i \in DOMAIN u.seen
       /\ u.seen[i] = rows[i]
       /\ u.req.op = "MANUAL" => Payable(u.seen[i]) /\ u.req.alloc[i] <= u.seen[i].balance
       /\ u.req.op = "CREDIT" =>
            rows[i].status = "SENT" /\ credited[i] + u.req.amount <= Amount
  <2>1. CASE t.req.op = "CREDIT"
    <3>1. rows[i].status = "SENT" /\ credited[i] + t.req.amount <= Amount
      BY <1>1, <2>1 DEF Accepts, Receipt
    <3>2. QED
      BY <1>5, <2>1, <3>1
  <2>2. CASE t.req.op # "CREDIT"
    <3>1. i \in DOMAIN t.seen
      BY <1>6, <1>7, <2>2 DEF Target
    <3>2. rows[i].writes = t.seen[i].writes
      BY <1>1, <1>10, <2>2 DEF Accepts, Receipt
    <3>3. t.seen[i] = rows[i]
      BY <1>3, <3>1, <3>2 DEF ReadOK
    <3>4. t.req.op = "MANUAL" => Payable(t.seen[i]) /\ t.req.alloc[i] <= t.seen[i].balance
      BY <1>1 DEF Accepts, Receipt
    <3>5. QED
      BY <1>5, <2>2, <3>1, <3>3, <3>4
  <2>3. QED
    BY <2>1, <2>2
<1>16. /\ lock'[i] = s
       /\ \A k \in Invoices \ {i} : lock'[k] = lock[k]
  BY <1>1, <1>8 DEF PostingInv
<1>17. \A j \in Target(u) \ u.todo :
         /\ lock'[j] = s
         /\ j \in DOMAIN u.seen
         /\ u.seen[j] = rows[j]
         /\ u.req.op = "MANUAL" =>
              Payable(u.seen[j]) /\ u.req.alloc[j] <= u.seen[j].balance
         /\ u.req.op = "CREDIT" =>
              rows[j].status = "SENT" /\ credited[j] + u.req.amount <= Amount
  <2> SUFFICES ASSUME NEW j \in Target(u) \ u.todo
               PROVE  /\ lock'[j] = s
                      /\ j \in DOMAIN u.seen
                      /\ u.seen[j] = rows[j]
                      /\ u.req.op = "MANUAL" =>
                           Payable(u.seen[j]) /\ u.req.alloc[j] <= u.seen[j].balance
                      /\ u.req.op = "CREDIT" =>
                           rows[j].status = "SENT" /\ credited[j] + u.req.amount <= Amount
    OBVIOUS
  <2>1. CASE j = i
    BY <1>15, <1>16, <2>1
  <2>2. CASE j # i
    <3>1. j \in Target(t) \ t.todo /\ j \in Invoices /\ t.req.op # "CREDIT"
      BY <1>5, <1>6, <1>11, <1>12, <2>2
    <3>2. QED
      BY <1>3, <1>5, <1>16, <2>2, <3>1 DEF HeldOK
  <2>3. QED
    BY <2>1, <2>2
<1>18. \A k \in Invoices : lock'[k] = s => k \in DOMAIN u.seen \ u.todo
  <2> SUFFICES ASSUME NEW k \in Invoices, lock'[k] = s
               PROVE  k \in DOMAIN u.seen \ u.todo
    OBVIOUS
  <2>1. CASE k = i
    BY <1>5, <1>15, <2>1
  <2>2. CASE k # i
    <3>1. k \in DOMAIN t.seen \ t.todo
      BY <1>3, <1>16, <2>2 DEF HeldOK
    <3>2. t.req.op # "CREDIT"
      BY <1>3, <1>12, <2>2, <3>1 DEF PlanOK
    <3>3. QED
      BY <1>5, <3>1, <3>2
  <2>3. QED
    BY <2>1, <2>2
<1>19. HeldOK(s, u, rows, credited, lock')
  <2>1. u.todo \subseteq Target(u)
    BY <1>5, <1>6, <1>11
  <2>2. u.pc = "LOCKING" <=> u.todo # {}
    BY <1>5, <1>7
  <2>3. QED
    BY <1>17, <1>18, <2>1, <2>2 DEF HeldOK
<1>20. WorkOK(s, u, rows, credited, lock')
  BY <1>5, <1>13, <1>14, <1>19 DEF WorkOK
<1>21. UNCHANGED <<rows, credited, onAccount, moves>>
  BY <1>1 DEF tables, calendar
<1>22. TablesOK(rows', credited', onAccount')
  BY <1>21 DEF WorkInv
<1>23. \A z \in Sessions \ {s}, k \in Invoices : lock'[k] = z <=> lock[k] = z
  BY <1>1, <1>8, PostingAssumption DEF PostingInv
<1>24. QED
  BY <1>5, <1>20, <1>21, <1>22, <1>23, WorkStep DEF u

(* Neither the insert of the entry nor the calendar touches the plan.       *)
LEMMA SamePlanWork ==
  ASSUME NEW s, NEW t, NEW u, NEW tab, NEW cred, NEW lk, WorkOK(s, t, tab, cred, lk),
         t.pc # "IDLE", u.pc # "IDLE", u.pc = "LOCKING" <=> t.pc = "LOCKING",
         u.req = t.req, u.todo = t.todo, u.seen = t.seen, u.alloc = t.alloc, u.rest = t.rest
  PROVE  WorkOK(s, u, tab, cred, lk)
<1>1. PlanOK(t) /\ ReadOK(t, tab) /\ HeldOK(s, t, tab, cred, lk)
  BY DEF WorkOK
<1>2. Target(u) = Target(t)
  BY DEF Target
<1>3. PlanOK(u)
  BY <1>1, <1>2 DEF PlanOK
<1>4. ReadOK(u, tab)
  BY <1>1 DEF ReadOK
<1>5. HeldOK(s, u, tab, cred, lk)
  BY <1>1, <1>2 DEF HeldOK
<1>6. QED
  BY <1>3, <1>4, <1>5 DEF WorkOK

(* The insert of the entry writes no row of the tables here.                *)
LEMMA InsertWork ==
  ASSUME PostingInv, WorkInv, NEW s \in Sessions, InsertEntry(s)
  PROVE  WorkInv'
<1>1. /\ sess[s].pc = "POSTING"
      /\ sess' = [sess EXCEPT ![s] = [sess[s] EXCEPT !.pc = "COMMITTING"]]
      /\ UNCHANGED <<tables, calendar, lock>>
  BY DEF InsertEntry
<1>2. DOMAIN sess[s] = Fields
  BY <1>1 DEF PostingInv, PeriodOK
<1>3. /\ sess' = [sess EXCEPT ![s] = sess'[s]]
      /\ sess'[s].pc = "COMMITTING"
      /\ sess'[s].req = sess[s].req
      /\ sess'[s].todo = sess[s].todo
      /\ sess'[s].seen = sess[s].seen
      /\ sess'[s].alloc = sess[s].alloc
      /\ sess'[s].rest = sess[s].rest
  BY <1>1, <1>2 DEF Fields, PostingInv
<1>4. WorkOK(s, sess'[s], rows, credited, lock)
  <2> DEFINE t == sess[s]
             u == sess'[s]
  <2>1. WorkOK(s, t, rows, credited, lock)
    BY DEF WorkInv
  <2> HIDE DEF t, u
  <2>2. WorkOK(s, u, rows, credited, lock)
    BY <1>1, <1>3, <2>1, SamePlanWork DEF t, u
  <2>3. QED
    BY <2>2 DEF u
<1>5. UNCHANGED <<rows, credited, onAccount, moves, lock>>
  BY <1>1 DEF tables, calendar
<1>6. TablesOK(rows', credited', onAccount')
  BY <1>5 DEF WorkInv
<1>7. QED
  BY <1>3, <1>4, <1>5, <1>6, WorkStep

(* A session that ends has written no row but those it held.                *)
LEMMA ReleaseWork ==
  ASSUME PostingInv, WorkInv, NEW s \in Sessions, Release(s), UNCHANGED moves,
         TablesOK(rows', credited', onAccount'),
         \A i \in Invoices :
           \/ rows'[i] = rows[i] /\ credited'[i] = credited[i]
           \/ rows'[i].writes = rows[i].writes + 1 /\ lock[i] = s
  PROVE  WorkInv'
<1>1. sess' = [sess EXCEPT ![s] = sess'[s]] /\ sess'[s].pc = "IDLE"
  BY DEF Release, Idle, PostingInv
<1>2. lock' = [i \in Invoices |-> IF lock[i] = s THEN Nobody ELSE lock[i]]
  BY DEF Release, Unlock, PostingInv
<1>3. \A z \in Sessions \ {s}, i \in Invoices : lock'[i] = z <=> lock[i] = z
  BY <1>2, PostingAssumption
<1>4. WorkOK(s, sess'[s], rows', credited', lock')
  BY <1>1, <1>2, PostingAssumption DEF WorkOK
<1>5. QED
  BY <1>1, <1>3, <1>4, WorkStep

(* What a receipt carries out when it holds all that it needs.              *)
LEMMA ReceiptPlan ==
  ASSUME NEW s, NEW t, NEW tab, NEW cred, NEW lk,
         PlanOK(t), ReadOK(t, tab), HeldOK(s, t, tab, cred, lk),
         t.pc = "COMMITTING", Receipt(t.req)
  PROVE  /\ DOMAIN t.alloc # {}
         /\ t.alloc \in [DOMAIN t.alloc -> 1 .. Amount]
         /\ t.rest \in 0 .. MaxReceipt
         /\ \A i \in DOMAIN t.alloc : /\ i \in Invoices
                                      /\ lk[i] = s
                                      /\ i \in DOMAIN t.seen
                                      /\ t.seen[i] = tab[i]
                                      /\ Payable(tab[i])
                                      /\ t.alloc[i] <= tab[i].balance
<1>1. \A i \in DOMAIN t.seen : i \in Invoices /\ lk[i] = s /\ t.seen[i] = tab[i]
  BY DEF HeldOK, ReadOK, Target, Receipt
<1>2. t.req \in Requests
  BY DEF PlanOK
<1>3. CASE t.req.op = "MANUAL"
  <2>1. /\ DOMAIN t.alloc = DOMAIN t.seen
        /\ t.alloc = t.req.alloc
        /\ t.rest = t.req.rest
    BY <1>3 DEF PlanOK
  <2>2. /\ DOMAIN t.alloc # {}
        /\ t.alloc \in [DOMAIN t.alloc -> 1 .. Amount]
        /\ t.rest \in 0 .. MaxReceipt
    BY <1>2, <1>3, <2>1, RequestParts, BoundsNat, PostingAssumption
  <2>3. \A i \in DOMAIN t.seen : Payable(t.seen[i]) /\ t.alloc[i] <= t.seen[i].balance
    BY <1>3, <2>1 DEF HeldOK, Target
  <2>4. QED
    BY <1>1, <2>1, <2>2, <2>3
<1>4. CASE t.req.op = "AUTO"
  <2> DEFINE a == t.alloc
             n == t.req.amount
  <2>1. /\ DOMAIN t.seen # {}
        /\ \A i \in DOMAIN t.seen : Payable(t.seen[i])
        /\ a = AllocationsOldestFirst(t.seen, n)
        /\ t.rest = AutoRest(t.seen, n)
    BY <1>4 DEF PlanOK
  <2>2. n \in Nat /\ n > 0 /\ n <= MaxReceipt
    BY <1>2, <1>4, RequestParts, BoundsNat
  <2>3. DOMAIN t.seen \subseteq Invoices
    BY <1>1
  <2>4. Seen(t.seen)
    <3>1. IsFiniteSet(DOMAIN t.seen) /\ DOMAIN t.seen \subseteq Nat
      BY <2>3, PostingAssumption, FS_Subset
    <3>2. \A i \in DOMAIN t.seen : t.seen[i].balance \in Nat
      BY DEF ReadOK, Row
    <3>3. QED
      BY <3>1, <3>2 DEF Seen
  <2>5. \A i \in DOMAIN t.seen : t.seen[i].balance > 0 /\ t.seen[i].balance <= Amount
    BY <2>1 DEF Payable, ReadOK
  <2>6. DOMAIN a # {}
    BY <2>1, <2>2, <2>4, AllocationSome
  <2>7. /\ DOMAIN a \subseteq DOMAIN t.seen
        /\ a \in [DOMAIN a -> 1 .. n]
        /\ \A i \in DOMAIN a : a[i] <= t.seen[i].balance
    BY <2>1, <2>2, <2>4, <2>5, AllocationBounds
  <2>8. t.rest \in 0 .. MaxReceipt
    <3>1. t.rest \in 0 .. n
      BY <2>1, <2>2, <2>4, RestBounds
    <3>2. QED
      BY <2>2, <3>1, BoundsNat
  <2>9. a \in [DOMAIN a -> 1 .. Amount]
    <3>1. \A i \in DOMAIN a : a[i] \in 1 .. Amount
      <4>1. TAKE i \in DOMAIN a
      <4>2. a[i] \in 1 .. n /\ a[i] <= t.seen[i].balance /\ t.seen[i].balance <= Amount
        BY <2>5, <2>7
      <4>3. t.seen[i].balance \in Nat
        BY <2>4, <2>7 DEF Seen
      <4>4. QED
        BY <2>2, <4>2, <4>3, BoundsNat
    <3>2. QED
      BY <2>7, <3>1
  <2>10. QED
    BY <1>1, <2>1, <2>6, <2>7, <2>8, <2>9
<1>5. QED
  BY <1>3, <1>4 DEF Receipt

(* The session that commits, as the invariant knows it.                     *)
LEMMA CommittingWork ==
  ASSUME WorkInv, NEW s \in Sessions, sess[s].pc = "COMMITTING"
  PROVE  /\ PlanOK(sess[s])
         /\ ReadOK(sess[s], rows)
         /\ HeldOK(s, sess[s], rows, credited, lock)
BY DEF WorkInv, WorkOK

(* A receipt takes its allocations off the balances.                        *)
LEMMA ReceiptEffect ==
  ASSUME WorkInv, NEW s \in Sessions, CommitReceipt(s)
  PROVE  /\ TablesOK(rows', credited', onAccount')
         /\ sess[s].alloc \in [DOMAIN sess[s].alloc -> 1 .. Amount]
         /\ DOMAIN sess[s].alloc \subseteq Invoices /\ DOMAIN sess[s].alloc # {}
         /\ sess[s].rest \in 0 .. MaxReceipt
         /\ \A i \in DOMAIN sess[s].alloc :
              /\ rows[i].status = "SENT"
              /\ sess[s].alloc[i] <= rows[i].balance
              /\ lock[i] = s
              /\ rows'[i].status = rows[i].status
              /\ rows'[i].balance = rows[i].balance - sess[s].alloc[i]
              /\ rows'[i].writes = rows[i].writes + 1
         /\ \A i \in Invoices \ DOMAIN sess[s].alloc : rows'[i] = rows[i]
         /\ credited' = credited
         /\ onAccount' = onAccount + sess[s].rest
<1> DEFINE t == sess[s]
           D == DOMAIN t.alloc
<1>1. /\ t.pc = "COMMITTING"
      /\ Receipt(t.req)
      /\ rows' = [i \in Invoices |->
           IF i \in D
           THEN [rows[i] EXCEPT !.balance = t.seen[i].balance - t.alloc[i], !.writes = @ + 1]
           ELSE rows[i]]
      /\ onAccount' = onAccount + t.rest
      /\ credited' = credited
  BY DEF CommitReceipt
<1>2. PlanOK(t) /\ ReadOK(t, rows) /\ HeldOK(s, t, rows, credited, lock)
  BY <1>1, CommittingWork
<1>3. TablesOK(rows, credited, onAccount)
  BY DEF WorkInv
<1> HIDE DEF t
<1>4. /\ DOMAIN t.alloc # {}
      /\ t.alloc \in [DOMAIN t.alloc -> 1 .. Amount]
      /\ t.rest \in 0 .. MaxReceipt
      /\ \A i \in DOMAIN t.alloc : /\ i \in Invoices
                                   /\ lock[i] = s
                                   /\ i \in DOMAIN t.seen
                                   /\ t.seen[i] = rows[i]
                                   /\ Payable(rows[i])
                                   /\ t.alloc[i] <= rows[i].balance
  BY <1>1, <1>2, ReceiptPlan
<1>5. \A i \in D : /\ rows'[i].status = rows[i].status
                   /\ rows'[i].balance = rows[i].balance - t.alloc[i]
                   /\ rows'[i].writes = rows[i].writes + 1
                   /\ rows'[i] \in Row
                   /\ rows'[i].balance <= Amount
  <2>1. TAKE i \in D
  <2>2. /\ i \in Invoices /\ t.seen[i] = rows[i] /\ t.alloc[i] \in 1 .. Amount
        /\ t.alloc[i] <= rows[i].balance
    BY <1>4
  <2>3. rows[i] \in Row /\ rows[i].balance <= Amount /\ Amount \in Nat
    BY <1>3, <2>2, BoundsNat DEF TablesOK
  <2>4. rows'[i] = [rows[i] EXCEPT !.balance = rows[i].balance - t.alloc[i],
                                   !.writes = rows[i].writes + 1]
    BY <1>1, <2>2
  <2>5. rows[i].balance - t.alloc[i] \in Nat /\ rows[i].writes + 1 \in Nat
    BY <2>2, <2>3 DEF Row
  <2>6. /\ rows'[i].status = rows[i].status
        /\ rows'[i].balance = rows[i].balance - t.alloc[i]
        /\ rows'[i].writes = rows[i].writes + 1
        /\ rows'[i] \in Row
    BY <2>3, <2>4, <2>5 DEF Row
  <2>7. rows'[i].balance <= Amount
    BY <2>2, <2>3, <2>6 DEF Row
  <2>8. QED
    BY <2>6, <2>7
<1>6. \A i \in Invoices \ D : rows'[i] = rows[i]
  BY <1>1
<1>7. TablesOK(rows', credited', onAccount')
  <2>1. \A i \in Invoices : rows'[i] \in Row /\ rows'[i].balance <= Amount
    <3>1. \A i \in Invoices : rows[i] \in Row /\ rows[i].balance <= Amount
      BY <1>3 DEF TablesOK
    <3>2. \A i \in D : rows'[i] \in Row /\ rows'[i].balance <= Amount
      BY <1>5
    <3>3. QED
      BY <1>6, <3>1, <3>2
  <2>2. rows' \in [Invoices -> Row]
    <3>1. rows' = [i \in Invoices |-> rows'[i]]
      BY <1>1
    <3>2. QED
      BY <2>1, <3>1
  <2>3. onAccount' \in Nat
    <3>1. onAccount \in Nat
      BY <1>3 DEF TablesOK
    <3>2. t.rest \in Nat
      BY <1>4, BoundsNat
    <3>3. onAccount' = onAccount + t.rest
      BY <1>1
    <3>4. QED
      BY <3>1, <3>2, <3>3
  <2>4. QED
    BY <1>1, <1>3, <2>1, <2>2, <2>3 DEF TablesOK
<1>8. QED
  BY <1>1, <1>4, <1>5, <1>6, <1>7 DEF t, Payable

(* A credit memo takes what it can off the balance.                         *)
LEMMA CreditEffect ==
  ASSUME WorkInv, NEW s \in Sessions, CommitCredit(s)
  PROVE  LET i == sess[s].req.inv
             amount == sess[s].req.amount
             ar == IF amount < rows[i].balance THEN amount ELSE rows[i].balance
         IN  /\ TablesOK(rows', credited', onAccount')
             /\ i \in Invoices /\ amount \in 1 .. Amount /\ ar \in 0 .. amount
             /\ lock[i] = s
             /\ rows[i].status = "SENT"
             /\ credited[i] + amount <= Amount
             /\ rows'[i].status = rows[i].status
             /\ rows'[i].balance = rows[i].balance - ar
             /\ rows'[i].writes = rows[i].writes + 1
             /\ \A j \in Invoices \ {i} : rows'[j] = rows[j]
             /\ credited' = [credited EXCEPT ![i] = @ + amount]
             /\ onAccount' = onAccount + (amount - ar)
<1> DEFINE t == sess[s]
           i == t.req.inv
           amount == t.req.amount
           open == t.seen[i].balance
           ar == IF amount < open THEN amount ELSE open
<1>1. /\ t.pc = "COMMITTING"
      /\ t.req.op = "CREDIT"
      /\ rows' = [rows EXCEPT ![i].balance = open - ar, ![i].writes = @ + 1]
      /\ credited' = [credited EXCEPT ![i] = @ + amount]
      /\ onAccount' = onAccount + (amount - ar)
  BY DEF CommitCredit
<1>2. PlanOK(t) /\ ReadOK(t, rows) /\ HeldOK(s, t, rows, credited, lock)
  BY <1>1, CommittingWork
<1>3. TablesOK(rows, credited, onAccount) /\ Amount \in Nat
  BY BoundsNat DEF WorkInv
<1>4. i \in Invoices /\ amount \in 1 .. Amount
  BY <1>1, <1>2, RequestParts DEF PlanOK
<1>5. /\ lock[i] = s /\ t.seen[i] = rows[i]
      /\ rows[i].status = "SENT" /\ credited[i] + amount <= Amount
  BY <1>1, <1>2 DEF HeldOK, Target
<1>6. /\ rows[i] \in Row /\ rows[i].balance \in Nat /\ rows[i].balance <= Amount
      /\ credited[i] \in Nat
  BY <1>3, <1>4 DEF TablesOK, Row
<1>7. open = rows[i].balance
  BY <1>5
<1> HIDE DEF t, i, amount, open
<1>8. ar \in 0 .. amount /\ open - ar \in Nat /\ open - ar <= Amount /\ amount - ar \in Nat
  BY <1>3, <1>4, <1>6, <1>7
<1> HIDE DEF ar
<1>9. /\ rows'[i] = [rows[i] EXCEPT !.balance = open - ar, !.writes = rows[i].writes + 1]
      /\ \A j \in Invoices \ {i} : rows'[j] = rows[j]
      /\ DOMAIN rows' = Invoices
      /\ rows' = [j \in Invoices |-> rows'[j]]
  BY <1>1, <1>3, <1>4 DEF TablesOK
<1>10. /\ rows'[i].status = rows[i].status
       /\ rows'[i].balance = open - ar
       /\ rows'[i].writes = rows[i].writes + 1
       /\ rows'[i] \in Row
  <2>1. rows[i].writes + 1 \in Nat
    BY <1>6 DEF Row
  <2>2. QED
    BY <1>6, <1>8, <1>9, <2>1 DEF Row
<1>11. TablesOK(rows', credited', onAccount')
  <2>1. \A j \in Invoices : rows'[j] \in Row /\ rows'[j].balance <= Amount
    BY <1>3, <1>8, <1>9, <1>10 DEF TablesOK
  <2>2. rows' \in [Invoices -> Row]
    BY <1>9, <2>1
  <2>3. credited[i] + amount \in 0 .. Amount
    BY <1>3, <1>4, <1>5, <1>6
  <2>4. credited' \in [Invoices -> 0 .. Amount]
    BY <1>1, <1>3, <1>4, <2>3 DEF TablesOK
  <2>5. onAccount' \in Nat
    BY <1>1, <1>3, <1>8 DEF TablesOK
  <2>6. QED
    BY <2>1, <2>2, <2>4, <2>5 DEF TablesOK
<1>12. ar = IF amount < rows[i].balance THEN amount ELSE rows[i].balance
  BY <1>7 DEF ar
<1>13. QED
  BY <1>1, <1>4, <1>5, <1>7, <1>8, <1>9, <1>10, <1>11, <1>12 DEF t, i, amount

(* An approval turns a draft into an invoice that is sent.                  *)
LEMMA ApprovalEffect ==
  ASSUME WorkInv, NEW s \in Sessions, CommitApproval(s)
  PROVE  LET i == sess[s].req.inv
         IN  /\ TablesOK(rows', credited', onAccount')
             /\ i \in Invoices
             /\ lock[i] = s
             /\ rows[i].status = "DRAFT"
             /\ rows'[i].status = "SENT"
             /\ rows'[i].balance = rows[i].balance
             /\ rows'[i].writes = rows[i].writes + 1
             /\ \A j \in Invoices \ {i} : rows'[j] = rows[j]
             /\ UNCHANGED <<credited, onAccount>>
<1> DEFINE t == sess[s]
           i == t.req.inv
<1>1. /\ t.pc = "COMMITTING"
      /\ t.req.op = "APPROVE"
      /\ rows' = [rows EXCEPT ![i].status = "SENT", ![i].writes = @ + 1]
      /\ UNCHANGED <<credited, onAccount>>
  BY DEF CommitApproval
<1>2. PlanOK(t) /\ ReadOK(t, rows) /\ HeldOK(s, t, rows, credited, lock)
  BY <1>1, CommittingWork
<1>3. TablesOK(rows, credited, onAccount)
  BY DEF WorkInv
<1>4. i \in Invoices
  BY <1>1, <1>2, RequestParts DEF PlanOK
<1>5. lock[i] = s /\ t.seen[i] = rows[i] /\ t.seen[i].status = "DRAFT"
  BY <1>1, <1>2 DEF HeldOK, PlanOK, Target
<1>6. rows[i] \in Row /\ rows[i].balance <= Amount
  BY <1>3, <1>4 DEF TablesOK
<1> HIDE DEF t, i
<1>7. /\ rows'[i] = [rows[i] EXCEPT !.status = "SENT", !.writes = rows[i].writes + 1]
      /\ \A j \in Invoices \ {i} : rows'[j] = rows[j]
      /\ rows' = [j \in Invoices |-> rows'[j]]
  BY <1>1, <1>3, <1>4 DEF TablesOK
<1>8. /\ rows'[i].status = "SENT"
      /\ rows'[i].balance = rows[i].balance
      /\ rows'[i].writes = rows[i].writes + 1
      /\ rows'[i] \in Row
  <2>1. rows[i].writes + 1 \in Nat
    BY <1>6 DEF Row
  <2>2. QED
    BY <1>6, <1>7, <2>1 DEF Row
<1>9. TablesOK(rows', credited', onAccount')
  <2>1. \A j \in Invoices : rows'[j] \in Row /\ rows'[j].balance <= Amount
    BY <1>3, <1>6, <1>7, <1>8 DEF TablesOK
  <2>2. rows' \in [Invoices -> Row]
    BY <1>7, <2>1
  <2>3. QED
    BY <1>1, <1>3, <2>1, <2>2 DEF TablesOK
<1>10. QED
  BY <1>1, <1>4, <1>5, <1>7, <1>8, <1>9 DEF t, i

(* The end of a request.                                                    *)
LEMMA EndWork ==
  ASSUME PostingInv, WorkInv, NEW s \in Sessions, Commit(s) \/ Fail(s) \/ Lose(s)
  PROVE  WorkInv'
<1>1. Release(s) /\ UNCHANGED moves
  BY DEF Commit, CommitReceipt, CommitCredit, CommitApproval, Fail, Lose, calendar
<1>2. CASE CommitReceipt(s)
  <2>1. /\ TablesOK(rows', credited', onAccount')
        /\ \A i \in Invoices :
             \/ rows'[i] = rows[i] /\ credited'[i] = credited[i]
             \/ rows'[i].writes = rows[i].writes + 1 /\ lock[i] = s
    BY <1>2, ReceiptEffect
  <2>2. QED
    BY <1>1, <2>1, ReleaseWork
<1>3. CASE CommitCredit(s)
  <2> DEFINE i == sess[s].req.inv
  <2>1. /\ TablesOK(rows', credited', onAccount')
        /\ i \in Invoices
        /\ rows'[i].writes = rows[i].writes + 1 /\ lock[i] = s
        /\ \A j \in Invoices \ {i} : rows'[j] = rows[j]
        /\ credited' = [credited EXCEPT ![i] = @ + sess[s].req.amount]
    BY <1>3, CreditEffect
  <2> HIDE DEF i
  <2>2. \A j \in Invoices \ {i} : credited'[j] = credited[j]
    BY <2>1 DEF WorkInv, TablesOK
  <2>3. QED
    BY <1>1, <2>1, <2>2, ReleaseWork
<1>4. CASE CommitApproval(s)
  <2> DEFINE i == sess[s].req.inv
  <2>1. /\ TablesOK(rows', credited', onAccount')
        /\ i \in Invoices
        /\ rows'[i].writes = rows[i].writes + 1 /\ lock[i] = s
        /\ \A j \in Invoices \ {i} : rows'[j] = rows[j]
        /\ credited' = credited
    BY <1>4, ApprovalEffect
  <2> HIDE DEF i
  <2>2. QED
    BY <1>1, <2>1, ReleaseWork
<1>5. CASE Fail(s) \/ Lose(s)
  <2>1. UNCHANGED <<rows, credited, onAccount>>
    BY <1>5 DEF Fail, Lose, tables
  <2>2. TablesOK(rows', credited', onAccount')
    BY <2>1 DEF WorkInv
  <2>3. QED
    BY <1>1, <2>1, <2>2, ReleaseWork
<1>6. QED
  BY <1>2, <1>3, <1>4, <1>5 DEF Commit

(* The operator and the day change no plan.                                 *)
LEMMA CalendarWork ==
  ASSUME PostingInv, WorkInv, NEW p \in Periods,
         ClosePeriod(p) \/ LockPeriod(p) \/ ReopenPeriod(p) \/ DayPasses
  PROVE  WorkInv'
<1>1. UNCHANGED <<rows, credited, onAccount, lock>> /\ moves' \in 0 .. MaxMoves
  BY PostingAssumption
     DEF ClosePeriod, LockPeriod, ReopenPeriod, DayPasses, Move, tables, WorkInv
<1>2. ASSUME NEW z \in Sessions
      PROVE  WorkOK(z, sess'[z], rows, credited, lock)
  <2>1. WorkOK(z, sess[z], rows, credited, lock)
    BY DEF WorkInv
  <2>2. CASE sess'[z] = sess[z]
    BY <2>1, <2>2
  <2>3. CASE sess'[z] # sess[z]
    <3>1. PastCheck(z, p) /\ sess'[z] = [sess[z] EXCEPT !.overtaken = TRUE]
      BY <2>3 DEF ClosePeriod, LockPeriod, ReopenPeriod, DayPasses
    <3>2. sess[z].pc # "IDLE" /\ DOMAIN sess[z] = Fields
      BY <3>1 DEF PastCheck, PostingInv, PeriodOK
    <3>3. /\ sess'[z].pc = sess[z].pc
          /\ sess'[z].req = sess[z].req
          /\ sess'[z].todo = sess[z].todo
          /\ sess'[z].seen = sess[z].seen
          /\ sess'[z].alloc = sess[z].alloc
          /\ sess'[z].rest = sess[z].rest
      BY <3>1, <3>2 DEF Fields
    <3> DEFINE t == sess[z]
               u == sess'[z]
    <3> HIDE DEF t, u
    <3>4. WorkOK(z, u, rows, credited, lock)
      BY <2>1, <3>2, <3>3, SamePlanWork DEF t, u
    <3>5. QED
      BY <3>4 DEF u
  <2>4. QED
    BY <2>2, <2>3
<1>3. TablesOK(rows', credited', onAccount')
  BY <1>1 DEF WorkInv
<1>4. \A z \in Sessions : WorkOK(z, sess'[z], rows', credited', lock')
  BY <1>1, <1>2
<1>5. QED
  BY <1>1, <1>3, <1>4 DEF WorkInv

(* The invariant of the plans is inductive, given the one of the locks.     *)
LEMMA WorkInvInductive ==
  ASSUME PostingInv, WorkInv, [Next]_vars
  PROVE  WorkInv'
<1>1. CASE UNCHANGED vars
  BY <1>1 DEF vars, tables, calendar, WorkInv
<1>2. CASE \E s \in Sessions, q \in Requests : Begin(s, q)
  BY <1>2, BeginWork
<1>3. ASSUME NEW s \in Sessions,
             TakeLock(s) \/ InsertEntry(s) \/ Commit(s) \/ Fail(s) \/ Lose(s)
      PROVE  WorkInv'
  BY <1>3, TakeLockWork, InsertWork, EndWork
<1>4. CASE \E p \in MovedPeriods : ClosePeriod(p) \/ LockPeriod(p) \/ ReopenPeriod(p)
  BY <1>4, CalendarWork, PostingAssumption
<1>5. CASE DayPasses
  BY <1>5, CalendarWork DEF PostingInv
<1>6. QED
  BY <1>1, <1>2, <1>3, <1>4, <1>5 DEF Next

(* Both invariants hold in every reachable state.                           *)
LEMMA WorkInvariance == Spec => []WorkInv
<1>1. Init => WorkInv
  BY InitialWork
<1>2. PostingInv /\ WorkInv /\ [Next]_vars => WorkInv'
  BY WorkInvInductive
<1>3. QED
  BY <1>1, <1>2, PostingInvariance, PTL DEF Spec

-----------------------------------------------------------------------------
(* The tables have their types, and a row is held only by a session that    *)
(* asked for it and has been through its checks.                            *)
THEOREM PostingTypes == Spec => []TypeOK
<1>1. PostingInv /\ WorkInv => TypeOK
  <2> SUFFICES ASSUME PostingInv, WorkInv PROVE TypeOK
    OBVIOUS
  <2>1. ASSUME NEW i \in Invoices, lock[i] # Nobody
        PROVE  sess[lock[i]].pc # "IDLE" /\ i \in DOMAIN sess[lock[i]].seen \ sess[lock[i]].todo
    <3> DEFINE s == lock[i]
    <3>1. s \in Sessions
      BY <2>1 DEF PostingInv
    <3>2. WorkOK(s, sess[s], rows, credited, lock)
      BY <3>1 DEF WorkInv
    <3>3. QED
      BY <3>2 DEF WorkOK, HeldOK
  <2>2. QED
    BY <2>1 DEF TypeOK, PostingInv, WorkInv, TablesOK
<1>2. QED
  BY <1>1, PostingInvariance, WorkInvariance, PTL

-----------------------------------------------------------------------------
(* The tables refine the promise: what a commit does to them is one request *)
(* carried out at that instant, and nothing else touches them.              *)
LEMMA ReceiptIsReceive ==
  ASSUME PostingInv, WorkInv, NEW s \in Sessions, CommitReceipt(s)
  PROVE  Promise!Next
<1>0. PICK a, rest : a = sess[s].alloc /\ rest = sess[s].rest
  OBVIOUS
<1> DEFINE D == DOMAIN a
           approved == {i \in Invoices : rows[i].status = "SENT"}
           balance == [i \in Invoices |-> rows[i].balance]
<1>1. /\ a \in [D -> 1 .. Amount]
      /\ D \subseteq Invoices /\ D # {}
      /\ rest \in 0 .. MaxReceipt
      /\ \A i \in D : /\ rows[i].status = "SENT"
                      /\ a[i] <= rows[i].balance
                      /\ rows'[i].status = rows[i].status
                      /\ rows'[i].balance = rows[i].balance - a[i]
      /\ \A i \in Invoices \ D : rows'[i] = rows[i]
      /\ credited' = credited
      /\ onAccount' = onAccount + rest
  BY <1>0, ReceiptEffect
<1>2. D \subseteq approved /\ \A i \in D : a[i] <= balance[i]
  BY <1>1
<1>3. balance' = [i \in Invoices |-> IF i \in D THEN balance[i] - a[i] ELSE balance[i]]
  BY <1>1
<1>4. approved' = approved
  BY <1>1
<1>5. Promise!Receive(a, rest)
  BY <1>1, <1>2, <1>3, <1>4 DEF Promise!Receive
<1>6. a \in Promise!Allocations
  BY <1>1 DEF Promise!Allocations
<1>7. rest \in 0 .. Amount * Cardinality(Invoices) + MaxRest
  BY <1>1 DEF MaxReceipt
<1>8. QED
  BY <1>5, <1>6, <1>7 DEF Promise!Next

(* A credit memo counts once, against the balance of its commit.            *)
LEMMA CreditIsCredit ==
  ASSUME PostingInv, WorkInv, NEW s \in Sessions, CommitCredit(s)
  PROVE  Promise!Next
<1>0. PICK i, amount, ar :
        /\ i = sess[s].req.inv
        /\ amount = sess[s].req.amount
        /\ ar = IF amount < rows[i].balance THEN amount ELSE rows[i].balance
  OBVIOUS
<1> DEFINE approved == {j \in Invoices : rows[j].status = "SENT"}
           balance == [j \in Invoices |-> rows[j].balance]
<1>1. /\ i \in Invoices /\ amount \in 1 .. Amount /\ ar \in 0 .. amount
      /\ rows[i].status = "SENT"
      /\ credited[i] + amount <= Amount
      /\ rows'[i].status = rows[i].status
      /\ rows'[i].balance = rows[i].balance - ar
      /\ \A j \in Invoices \ {i} : rows'[j] = rows[j]
      /\ credited' = [credited EXCEPT ![i] = @ + amount]
      /\ onAccount' = onAccount + (amount - ar)
  BY <1>0, CreditEffect
<1>2. ar = IF amount < balance[i] THEN amount ELSE balance[i]
  BY <1>0, <1>1
<1>3. i \in approved /\ approved' = approved
  BY <1>1
<1>4. balance' = [balance EXCEPT ![i] = @ - ar]
  BY <1>1
<1> HIDE DEF approved, balance
<1>5. Promise!Credit(i, amount, ar)
  BY <1>1, <1>2, <1>3, <1>4 DEF Promise!Credit, approved, balance
<1>6. QED
  BY <1>1, <1>5 DEF Promise!Next

(* An approval posts an invoice that was not posted.                        *)
LEMMA ApprovalIsApprove ==
  ASSUME PostingInv, WorkInv, NEW s \in Sessions, CommitApproval(s)
  PROVE  Promise!Next
<1>0. PICK i : i = sess[s].req.inv
  OBVIOUS
<1> DEFINE approved == {j \in Invoices : rows[j].status = "SENT"}
           balance == [j \in Invoices |-> rows[j].balance]
<1>1. /\ i \in Invoices
      /\ rows[i].status = "DRAFT"
      /\ rows'[i].status = "SENT"
      /\ rows'[i].balance = rows[i].balance
      /\ \A j \in Invoices \ {i} : rows'[j] = rows[j]
      /\ UNCHANGED <<credited, onAccount>>
  BY <1>0, ApprovalEffect
<1>2. /\ i \notin approved
      /\ approved' = approved \cup {i}
      /\ balance' = balance
  BY <1>1
<1>3. Promise!Approve(i)
  BY <1>1, <1>2 DEF Promise!Approve
<1>4. QED
  BY <1>1, <1>3 DEF Promise!Next

(* However the statements of requests interleave, the balances move as if   *)
(* every request had run alone at its commit.                               *)
THEOREM PostingsImplementReceivables == Spec => ImplementsReceivables
<1>1. Init => Promise!Init
  <2> SUFFICES ASSUME Init PROVE Promise!Init
    OBVIOUS
  <2>1. {i \in Invoices : rows[i].status = "SENT"} = {}
    BY DEF Init
  <2>2. [i \in Invoices |-> rows[i].balance] = [i \in Invoices |-> Amount]
    BY DEF Init
  <2>3. QED
    BY <2>1, <2>2 DEF Init, Promise!Init
<1>2. PostingInv /\ WorkInv /\ [Next]_vars => [Promise!Next]_(Promise!vars)
  <2> SUFFICES ASSUME PostingInv, WorkInv, [Next]_vars
               PROVE  Promise!Next \/ UNCHANGED Promise!vars
    OBVIOUS
  <2>1. CASE UNCHANGED tables
    BY <2>1 DEF tables, Promise!vars
  <2>2. ASSUME NEW s \in Sessions, Commit(s)
        PROVE  Promise!Next
    BY <2>2, ReceiptIsReceive, CreditIsCredit, ApprovalIsApprove DEF Commit
  <2>3. CASE ~ \E s \in Sessions : Commit(s)
    <3>1. UNCHANGED tables
      BY <2>3 DEF Next, vars, Begin, TakeLock, TakeRow, InsertEntry, Fail, Lose,
         ClosePeriod, LockPeriod, ReopenPeriod, DayPasses, Move
    <3>2. QED
      BY <2>1, <3>1
  <2>4. QED
    BY <2>2, <2>3
<1>3. QED
  BY <1>1, <1>2, PostingInvariance, WorkInvariance, PTL
     DEF Spec, ImplementsReceivables, Promise!Spec

-----------------------------------------------------------------------------
(* An AUTO receipt leaves no older invoice open while it pays a later one.  *)
THEOREM OldestFirst == Spec => OldestPaidFirst
<1>1. ASSUME PostingInv, WorkInv, NEW s \in Sessions, CommitReceipt(s), sess[s].req.op = "AUTO",
             NEW i \in DOMAIN sess[s].seen, NEW j \in DOMAIN sess[s].seen,
             i < j, rows'[j].balance # rows[j].balance
      PROVE  rows'[i].balance = 0
  <2> DEFINE t == sess[s]
             a == t.alloc
             n == t.req.amount
  <2>1. /\ \A k \in DOMAIN a : rows'[k].balance = rows[k].balance - a[k]
        /\ \A k \in Invoices \ DOMAIN a : rows'[k] = rows[k]
    BY <1>1, ReceiptEffect
  <2>2. t.pc = "COMMITTING"
    BY <1>1 DEF CommitReceipt
  <2>3. PlanOK(t) /\ ReadOK(t, rows) /\ HeldOK(s, t, rows, credited, lock)
    BY <1>1, <2>2, CommittingWork
  <2>4. j \in Invoices /\ i \in Invoices /\ rows[i] \in Row /\ t.seen[i] = rows[i]
    BY <1>1, <2>2, <2>3 DEF ReadOK, HeldOK, Target, WorkInv, TablesOK
  <2>5. j \in DOMAIN a
    BY <1>1, <2>1, <2>4
  <2>6. a = AllocationsOldestFirst(t.seen, n) /\ n \in Nat
    BY <1>1, <2>3, RequestParts, BoundsNat DEF PlanOK
  <2>7. Seen(t.seen)
    <3>1. DOMAIN t.seen \subseteq Invoices /\ \A k \in DOMAIN t.seen : t.seen[k].balance \in Nat
      BY <2>3 DEF ReadOK, Row
    <3>2. IsFiniteSet(DOMAIN t.seen) /\ DOMAIN t.seen \subseteq Nat
      BY <3>1, PostingAssumption, FS_Subset
    <3>3. QED
      BY <3>1, <3>2 DEF Seen
  <2>8. i \in DOMAIN a /\ a[i] = t.seen[i].balance
    BY <1>1, <2>5, <2>6, <2>7, OlderServedFirst
  <2>9. QED
    BY <2>1, <2>4, <2>8 DEF Row
<1>2. PostingInv /\ WorkInv /\ [Next]_vars =>
        [\A s \in Sessions :
           CommitReceipt(s) /\ sess[s].req.op = "AUTO" =>
             \A i, j \in DOMAIN sess[s].seen :
               i < j /\ rows'[j].balance # rows[j].balance => rows'[i].balance = 0]_vars
  BY <1>1
<1>3. QED
  BY <1>2, PostingInvariance, WorkInvariance, PTL DEF Spec, OldestPaidFirst
=============================================================================
