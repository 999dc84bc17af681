-------------------------- MODULE DeliveryPipeline --------------------------
(***************************************************************************)
(* How the INVOICE_APPROVED event of one invoice gets from the outbox row  *)
(* that the approval inserted to the delivery service: publishers relay it *)
(* to a standard SQS queue, workers receive it, call the service and       *)
(* record the outcome.  Events share nothing but the processes, so one is  *)
(* modelled.                                                               *)
(*                                                                         *)
(* Each database transaction is one step, and so is each call of SQS or of *)
(* the service; a process can stop between any two of them.  Time is not   *)
(* counted: a visibility timeout may pass at any moment, and so may the    *)
(* lease (locked_at) of a claim whose holder is gone; that a lease passes  *)
(* while its holder is still at work is counted as a stall.  Back-off only *)
(* delays a publication, retention periods are long, and a malformed       *)
(* message is never read: all three are left out.                          *)
(***************************************************************************)
EXTENDS Naturals, FiniteSets

CONSTANTS
  Publishers, Workers,   \* processes
  Messages,              \* bound: ids of the SQS messages that can be sent
  NoMessage,
  MaxPublish,            \* max_publish_attempts
  MaxAttempts,           \* max_attempts
  MaxReceives,           \* maxReceiveCount of the redrive policy
  MaxCrashes, MaxStalls, \* bounds on processes that stop or dawdle, ...
  MaxRestarts,           \* ... on restarts of the delivery service, ...
  MaxRetries             \* ... and on retries by the CFO

ASSUME DeliveryAssumption ==
  /\ NoMessage \notin Messages
  /\ MaxPublish \in Nat \ {0}
  /\ MaxAttempts \in Nat \ {0}
  /\ MaxReceives \in Nat \ {0}

(* No publication is held up by the bound on messages.                      *)
ASSUME EnoughMessages ==
  /\ IsFiniteSet(Messages)
  /\ MaxRetries \in Nat
  /\ Cardinality(Messages) >= MaxPublish * (1 + MaxRetries)

VARIABLES
  event,     \* the row of delivery_outbox
  sent,      \* sent_at of its invoice is set
  queue,     \* the SQS queue and its dead-letter queue
  pub,       \* the event each publisher is working on
  worker,    \* the message each worker is working on
  known,     \* the delivery service remembers the event id
  accepted,  \* how often it sent the invoice out
  spent      \* what is used up of the bounds

vars == <<event, sent, queue, pub, worker, known, accepted, spent>>

EventStatuses ==
  {"PENDING", "PROCESSING", "PUBLISHED", "DELIVERING", "DELIVERED", "DEAD"}

Event ==
  [status : EventStatuses, publishes : 0 .. MaxPublish,
   attempts : 0 .. MaxAttempts, lease : {"NONE", "FRESH", "STALE"}]

Message ==
  [state : {"UNSENT", "VISIBLE", "IN_FLIGHT", "DELETED", "DLQ"},
   receives : 0 .. MaxReceives]

PublisherState == [pc : {"IDLE", "CLAIMED", "SENT", "FAILED"}, publishes : Nat]

WorkerState ==
  [pc : {"IDLE", "RECEIVED", "CLAIMED", "ACCEPTED", "FAILED", "CONFIRMED"},
   msg : Messages \cup {NoMessage}, receives : Nat, attempts : Nat]

IdlePublisher == [pc |-> "IDLE", publishes |-> 0]
IdleWorker == [pc |-> "IDLE", msg |-> NoMessage, receives |-> 0, attempts |-> 0]

Init ==
  /\ event = [status |-> "PENDING", publishes |-> 0, attempts |-> 0,
              lease |-> "NONE"]
  /\ sent = FALSE
  /\ queue = [m \in Messages |-> [state |-> "UNSENT", receives |-> 0]]
  /\ pub = [p \in Publishers |-> IdlePublisher]
  /\ worker = [w \in Workers |-> IdleWorker]
  /\ known = FALSE
  /\ accepted = 0
  /\ spent = [crashes |-> 0, stalls |-> 0, restarts |-> 0, retries |-> 0]

-----------------------------------------------------------------------------
(* The publisher.                                                           *)

PublishableWhilePending(e) == \* faulty: a claim that was abandoned stays
  e.publishes < MaxPublish /\ e.status = "PENDING"

PublishableForEver(e) == \* faulty: the attempts are no bound
  e.status = "PENDING" \/ (e.status = "PROCESSING" /\ e.lease = "STALE")

Publishable(e) ==
  /\ e.publishes < MaxPublish
  /\ \/ e.status = "PENDING"
     \/ e.status = "PROCESSING" /\ e.lease = "STALE"

ClaimEvent(p) ==
  /\ pub[p].pc = "IDLE"
  /\ Publishable(event)
  /\ event' = [event EXCEPT !.status = "PROCESSING", !.publishes = @ + 1,
                            !.lease = "FRESH"]
  /\ pub' = [pub EXCEPT ![p] =
       [pc |-> "CLAIMED", publishes |-> event.publishes + 1]]
  /\ UNCHANGED <<sent, queue, worker, known, accepted, spent>>

(* The queue with one message more; ids that are not used yet are alike.    *)
Unsent == {m \in Messages : queue[m].state = "UNSENT"}

Enqueued == [queue EXCEPT ![CHOOSE m \in Unsent : TRUE].state = "VISIBLE"]

SendMessage(p) ==
  /\ pub[p].pc = "CLAIMED"
  /\ Unsent # {}
  /\ queue' = Enqueued
  /\ pub' = [pub EXCEPT ![p].pc = "SENT"]
  /\ UNCHANGED <<event, sent, worker, known, accepted, spent>>

(* The call raises; the message may have been stored all the same.          *)
SendFails(p) ==
  /\ pub[p].pc = "CLAIMED"
  /\ Unsent # {}
  /\ queue' \in {queue, Enqueued}
  /\ pub' = [pub EXCEPT ![p].pc = "FAILED"]
  /\ UNCHANGED <<event, sent, worker, known, accepted, spent>>

(* UPDATE ... WHERE status = 'PROCESSING'.                                  *)
PublishedRow(e) ==
  IF e.status = "PROCESSING"
  THEN [e EXCEPT !.status = "PUBLISHED", !.lease = "NONE"] ELSE e

MarkPublished(p) ==
  /\ pub[p].pc = "SENT"
  /\ event' = PublishedRow(event)
  /\ pub' = [pub EXCEPT ![p] = IdlePublisher]
  /\ UNCHANGED <<sent, queue, worker, known, accepted, spent>>

(* A database error here lands in the same handler as one of SQS.           *)
MarkPublishedFails(p) ==
  /\ pub[p].pc = "SENT"
  /\ pub' = [pub EXCEPT ![p].pc = "FAILED"]
  /\ UNCHANGED <<event, sent, queue, worker, known, accepted, spent>>

PublishFailedRow(e, publishes) ==
  IF e.status = "PROCESSING"
  THEN [e EXCEPT !.status = IF publishes >= MaxPublish THEN "DEAD" ELSE "PENDING",
                 !.lease = "NONE"]
  ELSE e

MarkPublishFailed(p) ==
  /\ pub[p].pc = "FAILED"
  /\ event' = PublishFailedRow(event, pub[p].publishes)
  /\ pub' = [pub EXCEPT ![p] = IdlePublisher]
  /\ UNCHANGED <<sent, queue, worker, known, accepted, spent>>

-----------------------------------------------------------------------------
(* SQS: at-least-once, with a visibility timeout and a dead-letter queue.   *)

Receive(w, m) ==
  /\ worker[w].pc = "IDLE"
  /\ queue[m].state = "VISIBLE"
  /\ queue[m].receives < MaxReceives
  /\ queue' = [queue EXCEPT ![m] =
       [state |-> "IN_FLIGHT", receives |-> queue[m].receives + 1]]
  /\ worker' = [worker EXCEPT ![w] =
       [pc |-> "RECEIVED", msg |-> m, receives |-> queue[m].receives + 1,
        attempts |-> 0]]
  /\ UNCHANGED <<event, sent, pub, known, accepted, spent>>

VisibilityTimeout(m) ==
  /\ queue[m].state = "IN_FLIGHT"
  /\ queue' = [queue EXCEPT ![m].state = "VISIBLE"]
  /\ UNCHANGED <<event, sent, pub, worker, known, accepted, spent>>

Redrive(m) ==
  /\ queue[m].state = "VISIBLE"
  /\ queue[m].receives >= MaxReceives
  /\ queue' = [queue EXCEPT ![m].state = "DLQ"]
  /\ UNCHANGED <<event, sent, pub, worker, known, accepted, spent>>

Live(m) == queue[m].state \in {"VISIBLE", "IN_FLIGHT"}

(* Deleting by the receipt handle of a receive: a handle that a later       *)
(* receive made obsolete may or may not delete, silently.                   *)
Deleted(t) ==
  LET gone == [queue EXCEPT ![t.msg].state = "DELETED"]
  IN  IF ~Live(t.msg) THEN {queue}
      ELSE IF queue[t.msg].receives > t.receives THEN {queue, gone}
      ELSE {gone}

-----------------------------------------------------------------------------
(* The worker.                                                              *)

Attempts(e, receives) == IF receives > e.attempts THEN receives ELSE e.attempts

ClaimableIgnoringLease(e, receives) == \* faulty: the claim of another worker
  e.status \notin {"DELIVERED", "DEAD"} /\ Attempts(e, receives) <= MaxAttempts

(* An attempt too many should set the event DEAD, but with an attempt_count *)
(* that the constraint delivery_outbox_attempts_valid refuses: nothing is   *)
(* written and the worker process ends.                                     *)
Claimable(e, receives) ==
  /\ e.status \notin {"DELIVERED", "DEAD"}
  /\ ~(e.status = "DELIVERING" /\ e.lease = "FRESH")
  /\ Attempts(e, receives) <= MaxAttempts

ClaimDelivery(w) ==
  LET n == Attempts(event, worker[w].receives)
  IN  /\ worker[w].pc = "RECEIVED"
      /\ Claimable(event, worker[w].receives)
      /\ event' = [event EXCEPT !.status = "DELIVERING", !.attempts = n,
                                !.lease = "FRESH"]
      /\ worker' = [worker EXCEPT ![w].pc = "CLAIMED", ![w].attempts = n]
      /\ UNCHANGED <<sent, queue, pub, known, accepted, spent>>

DiscardWhenClosed(w) == \* faulty: a dead event's message is discarded as well
  /\ worker[w].pc = "RECEIVED"
  /\ event.status \in {"DELIVERED", "DEAD"}
  /\ queue' \in Deleted(worker[w])
  /\ worker' = [worker EXCEPT ![w] = IdleWorker]
  /\ UNCHANGED <<event, sent, pub, known, accepted, spent>>

DiscardDuplicate(w) ==
  /\ worker[w].pc = "RECEIVED"
  /\ event.status = "DELIVERED"
  /\ queue' \in Deleted(worker[w])
  /\ worker' = [worker EXCEPT ![w] = IdleWorker]
  /\ UNCHANGED <<event, sent, pub, known, accepted, spent>>

(* Busy: the visibility timeout is renewed; dead: the message is let alone. *)
LeaveMessage(w) ==
  /\ worker[w].pc = "RECEIVED"
  /\ event.status # "DELIVERED"
  /\ ~Claimable(event, worker[w].receives)
  /\ worker' = [worker EXCEPT ![w] = IdleWorker]
  /\ UNCHANGED <<event, sent, queue, pub, known, accepted, spent>>

(* The delivery service deduplicates by the event id, in memory.            *)
ServiceForgets == \* faulty: the key is not looked up
  known' = TRUE /\ accepted' = accepted + 1

ServiceAccepts ==
  known' = TRUE /\ accepted' = IF known THEN accepted ELSE accepted + 1

PostInvoice(w) ==
  /\ worker[w].pc = "CLAIMED"
  /\ ServiceAccepts
  /\ worker' = [worker EXCEPT ![w].pc = "ACCEPTED"]
  /\ UNCHANGED <<event, sent, queue, pub, spent>>

(* The call fails or times out, in the latter case after the service acted. *)
PostFails(w) ==
  /\ worker[w].pc = "CLAIMED"
  /\ ServiceAccepts \/ UNCHANGED <<known, accepted>>
  /\ worker' = [worker EXCEPT ![w].pc = "FAILED"]
  /\ UNCHANGED <<event, sent, queue, pub, spent>>

(* UPDATE ... WHERE status = 'DELIVERING', and the invoice if that hit.     *)
MarkDelivered(w) ==
  /\ worker[w].pc = "ACCEPTED"
  /\ IF event.status = "DELIVERING"
     THEN /\ event' = [event EXCEPT !.status = "DELIVERED", !.lease = "NONE"]
          /\ sent' = TRUE
     ELSE UNCHANGED <<event, sent>>
  /\ worker' = [worker EXCEPT ![w].pc = "CONFIRMED"]
  /\ UNCHANGED <<queue, pub, known, accepted, spent>>

DeleteMessage(w) ==
  /\ worker[w].pc = "CONFIRMED"
  /\ queue' \in Deleted(worker[w])
  /\ worker' = [worker EXCEPT ![w] = IdleWorker]
  /\ UNCHANGED <<event, sent, pub, known, accepted, spent>>

(* An error of the database or of SQS after the service accepted lands in   *)
(* the handler that serves a refused delivery.                              *)
ConfirmFails(w) ==
  /\ worker[w].pc \in {"ACCEPTED", "CONFIRMED"}
  /\ worker' = [worker EXCEPT ![w].pc = "FAILED"]
  /\ UNCHANGED <<event, sent, queue, pub, known, accepted, spent>>

FailedRowAlways(e, attempts) == \* faulty: WHERE id = ... only
  [e EXCEPT !.status = IF attempts >= MaxAttempts THEN "DEAD" ELSE "PUBLISHED",
            !.lease = "NONE"]

FailedRow(e, attempts) ==
  IF e.status = "DELIVERING"
  THEN [e EXCEPT !.status = IF attempts >= MaxAttempts THEN "DEAD" ELSE "PUBLISHED",
                 !.lease = "NONE"]
  ELSE e

MarkFailed(w) ==
  /\ worker[w].pc = "FAILED"
  /\ event' = FailedRow(event, worker[w].attempts)
  /\ worker' = [worker EXCEPT ![w] = IdleWorker]
  /\ UNCHANGED <<sent, queue, pub, known, accepted, spent>>

-----------------------------------------------------------------------------
(* POST /delivery-events/{id}/retry acts on a dead event only.  Messages of *)
(* the life before keep their receive counts, which Attempts charges to the *)
(* new one: the event can be DEAD again after one attempt, unpublished.     *)
RetryEvent ==
  /\ event.status = "DEAD"
  /\ spent.retries < MaxRetries
  /\ event' = [status |-> "PENDING", publishes |-> 0, attempts |-> 0,
               lease |-> "NONE"]
  /\ spent' = [spent EXCEPT !.retries = @ + 1]
  /\ UNCHANGED <<sent, queue, pub, worker, known, accepted>>

(* A process ends, is killed or loses its database, and starts again.       *)
Crash ==
  /\ spent.crashes < MaxCrashes
  /\ spent' = [spent EXCEPT !.crashes = @ + 1]
  /\ \/ \E p \in Publishers :
          /\ pub[p].pc # "IDLE"
          /\ pub' = [pub EXCEPT ![p] = IdlePublisher]
          /\ UNCHANGED worker
     \/ \E w \in Workers :
          /\ worker[w].pc # "IDLE"
          /\ worker' = [worker EXCEPT ![w] = IdleWorker]
          /\ UNCHANGED pub
  /\ UNCHANGED <<event, sent, queue, known, accepted>>

ServiceRestart ==
  /\ known
  /\ spent.restarts < MaxRestarts
  /\ known' = FALSE
  /\ spent' = [spent EXCEPT !.restarts = @ + 1]
  /\ UNCHANGED <<event, sent, queue, pub, worker, accepted>>

Delivering(w) == worker[w].pc \in {"CLAIMED", "ACCEPTED", "FAILED"}

Held == \/ \E p \in Publishers : pub[p].pc # "IDLE"
        \/ \E w \in Workers : Delivering(w)

LeaseExpires ==
  /\ event.lease = "FRESH"
  /\ ~Held
  /\ event' = [event EXCEPT !.lease = "STALE"]
  /\ UNCHANGED <<sent, queue, pub, worker, known, accepted, spent>>

Stall ==
  /\ event.lease = "FRESH"
  /\ Held
  /\ spent.stalls < MaxStalls
  /\ event' = [event EXCEPT !.lease = "STALE"]
  /\ spent' = [spent EXCEPT !.stalls = @ + 1]
  /\ UNCHANGED <<sent, queue, pub, worker, known, accepted>>

-----------------------------------------------------------------------------
PublisherStep(p) ==
  \/ ClaimEvent(p)
  \/ SendMessage(p)
  \/ SendFails(p)
  \/ MarkPublished(p)
  \/ MarkPublishedFails(p)
  \/ MarkPublishFailed(p)

WorkerStep(w) ==
  \/ \E m \in Messages : Receive(w, m)
  \/ ClaimDelivery(w)
  \/ DiscardDuplicate(w)
  \/ LeaveMessage(w)
  \/ PostInvoice(w)
  \/ PostFails(w)
  \/ MarkDelivered(w)
  \/ DeleteMessage(w)
  \/ ConfirmFails(w)
  \/ MarkFailed(w)

Next ==
  \/ \E p \in Publishers : PublisherStep(p)
  \/ \E w \in Workers : WorkerStep(w)
  \/ \E m \in Messages : VisibilityTimeout(m) \/ Redrive(m)
  \/ RetryEvent
  \/ Crash
  \/ ServiceRestart
  \/ LeaseExpires
  \/ Stall

(* The processes poll for ever and are restarted by the container runtime;  *)
(* timeouts pass.  Nothing says that a call succeeds or that anyone retries. *)
Fairness ==
  /\ \A p \in Publishers : WF_vars(PublisherStep(p))
  /\ \A w \in Workers : WF_vars(WorkerStep(w))
  /\ \A m \in Messages : WF_vars(VisibilityTimeout(m) \/ Redrive(m))
  /\ WF_vars(LeaseExpires)

Spec == Init /\ [][Next]_vars /\ Fairness

-----------------------------------------------------------------------------
(* Type correctness; the ranges of the two counters are the constraints     *)
(* delivery_outbox_attempts_valid and delivery_outbox_publish_attempts_valid. *)
TypeOK ==
  /\ event \in Event
  /\ sent \in BOOLEAN
  /\ queue \in [Messages -> Message]
  /\ pub \in [Publishers -> PublisherState]
  /\ worker \in [Workers -> WorkerState]
  /\ known \in BOOLEAN
  /\ accepted \in Nat
  /\ spent \in [crashes : Nat, stalls : Nat, restarts : Nat, retries : Nat]

(* However often the event is published, received, timed out and retried,   *)
(* the invoice leaves the service once for each memory the service had      *)
(* (high-level-design.md: the stable event ID provides idempotency).        *)
AcceptedOnce == accepted <= 1 + spent.restarts

(* The claim in the database keeps workers apart: two hold the event at the *)
(* same time only if a lease ran out on a worker that was still at it.      *)
OneDeliveryAtATime ==
  Cardinality({w \in Workers : Delivering(w)}) <= 1 + spent.stalls

Promise == INSTANCE DeliveryPromise WITH
  outbox <- IF event.status = "DELIVERED" THEN "DELIVERED" ELSE "QUEUED"

(* The event is recorded as delivered only after the service accepted it,   *)
(* together with sent_at, and no late publisher, late worker or retry takes *)
(* that back.                                                               *)
ImplementsPromise == Promise!Spec

Decided == event.status \in {"DELIVERED", "DEAD"}

(* The publish attempts are used up and no publisher recorded it.           *)
PublishesSpent ==
  /\ event.status \in {"PENDING", "PROCESSING"}
  /\ event.publishes = MaxPublish

(* Every message is in the dead-letter queue or deleted and no worker       *)
(* recorded it.                                                             *)
MessagesSpent ==
  event.status \in {"PUBLISHED", "DELIVERING"} /\ \A m \in Messages : ~Live(m)

(* An event comes to rest as DELIVERED or DEAD, or in one of the two ways   *)
(* to be stranded; it never stays undecided while an attempt is left.       *)
Settles == <>[](Decided \/ PublishesSpent \/ MessagesSpent)

(* A message is deleted only after the service accepted the invoice and the *)
(* outcome is in the outbox row (NFRs.md:526-527, "Consumers delete only    *)
(* after the adapter success and DB status commit"), also when the message  *)
(* or its worker is left from before a retry.  The exception is a stall:    *)
(* the UPDATE of a worker that was overtaken can hit no row, and it deletes *)
(* the message all the same.                                                *)
DeletedOnlyWhenRecorded ==
  (\E m \in Messages : queue[m].state = "DELETED") =>
    accepted > 0 /\ (event.status = "DELIVERED" \/ spent.stalls > 0)

(* data-model.md: "publication or delivery exhaustion produces DEAD", which *)
(* is what the CFO can retry.                                               *)
ExhaustionEndsDead ==
  (\A p \in Publishers : pub[p].pc = "IDLE")
    /\ (\A w \in Workers : worker[w].pc = "IDLE")
    /\ (\A m \in Messages : ~Live(m))
  => ~PublishesSpent /\ ~MessagesSpent
=============================================================================
