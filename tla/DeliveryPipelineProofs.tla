----------------------- MODULE DeliveryPipelineProofs -----------------------
(***************************************************************************)
(* Theorems about DeliveryPipeline, for any number of publishers, workers  *)
(* and messages, any limits, and any number of crashes, stalls, restarts    *)
(* and retries.                                                            *)
(***************************************************************************)
EXTENDS DeliveryPipeline, FiniteSetTheorems, TLAPS

(* What the service has done, as seen by the processes and by the service:  *)
(* a worker that moves on to confirm has had the invoice accepted, and the  *)
(* service forgets an acceptance only when it restarts.                     *)
Acceptance ==
  /\ known => accepted > 0 /\ accepted <= 1 + spent.restarts
  /\ ~known => accepted <= spent.restarts
  /\ \A w \in Workers : worker[w].pc = "ACCEPTED" => accepted > 0

(* A worker that holds a message holds one that exists.                     *)
HandleInv ==
  \A w \in Workers : worker[w].pc # "IDLE" => worker[w].msg \in Messages

PipelineInv == TypeOK /\ HandleInv /\ Acceptance

-----------------------------------------------------------------------------
(* Sending stores one message that was not used before.                     *)
LEMMA EnqueuedType ==
  ASSUME queue \in [Messages -> Message], Unsent # {}
  PROVE  Enqueued \in [Messages -> Message]
<1> DEFINE m == CHOOSE x \in Unsent : TRUE
<1>1. m \in Unsent
  OBVIOUS
<1>2. m \in Messages
  BY <1>1 DEF Unsent
<1>3. [queue[m] EXCEPT !.state = "VISIBLE"] \in Message
  BY <1>2 DEF Message
<1>4. Enqueued = [queue EXCEPT ![m] = [@ EXCEPT !.state = "VISIBLE"]]
  BY DEF Enqueued
<1> QED
  BY <1>2, <1>3, <1>4

(* Deleting a message leaves the queue well formed.                         *)
LEMMA DeletedType ==
  ASSUME queue \in [Messages -> Message],
         NEW t, t.msg \in Messages,
         NEW q \in Deleted(t)
  PROVE  q \in [Messages -> Message]
<1>1. [queue EXCEPT ![t.msg].state = "DELETED"] \in [Messages -> Message]
  BY DEF Message
<1>2. q \in {queue, [queue EXCEPT ![t.msg].state = "DELETED"]}
  BY DEF Deleted
<1> QED
  BY <1>1, <1>2

(* The claim never records more attempts than the constraint of the table   *)
(* allows.                                                                  *)
LEMMA ClaimWithinAttempts ==
  ASSUME DeliveryAssumption, NEW e \in Event, NEW n \in Nat, Claimable(e, n)
  PROVE  Attempts(e, n) \in 0 .. MaxAttempts
  BY DEF Claimable, Attempts, Event, DeliveryAssumption

-----------------------------------------------------------------------------
(* Each kind of step keeps the tables, the queue and the processes well     *)
(* formed.                                                                  *)
LEMMA InitType == ASSUME DeliveryAssumption, Init PROVE TypeOK /\ HandleInv
<1>1. event \in Event
  BY DEF Init, DeliveryAssumption, Event, EventStatuses
<1>2. queue \in [Messages -> Message]
  BY DEF Init, DeliveryAssumption, Message
<1>3. pub \in [Publishers -> PublisherState]
  BY DEF Init, PublisherState, IdlePublisher
<1>4. worker \in [Workers -> WorkerState] /\ HandleInv
  BY DEF Init, WorkerState, IdleWorker, HandleInv
<1>5. /\ sent \in BOOLEAN /\ known \in BOOLEAN /\ accepted \in Nat
      /\ spent \in [crashes : Nat, stalls : Nat, restarts : Nat, retries : Nat]
  BY DEF Init
<1> QED
  BY <1>1, <1>2, <1>3, <1>4, <1>5 DEF TypeOK

(* The steps of a publisher keep the types.                                 *)
LEMMA PublisherType ==
  ASSUME DeliveryAssumption, TypeOK, HandleInv,
         NEW p \in Publishers, PublisherStep(p)
  PROVE  TypeOK' /\ HandleInv'
<1>1. CASE ClaimEvent(p)
  <2>1. event \in Event /\ event.publishes < MaxPublish /\ event.publishes \in Nat
    BY <1>1 DEF ClaimEvent, Publishable, TypeOK, Event
  <2>2. event.publishes + 1 \in 0 .. MaxPublish
    BY <2>1 DEF DeliveryAssumption
  <2>3. event' \in Event
    BY <1>1, <2>1, <2>2 DEF ClaimEvent, Event, EventStatuses
  <2>4. pub' \in [Publishers -> PublisherState]
    BY <1>1, <2>1 DEF ClaimEvent, TypeOK, PublisherState
  <2> QED
    BY <1>1, <2>3, <2>4 DEF ClaimEvent, TypeOK, HandleInv
<1>2. CASE SendMessage(p)
  BY EnqueuedType, <1>2 DEF SendMessage,
     TypeOK, HandleInv, Event, EventStatuses, Message, PublisherState, WorkerState, IdlePublisher, IdleWorker
<1>3. CASE SendFails(p)
  BY EnqueuedType, <1>3 DEF SendFails,
     TypeOK, HandleInv, Event, EventStatuses, Message, PublisherState, WorkerState, IdlePublisher, IdleWorker
<1>4. CASE MarkPublished(p)
  BY <1>4 DEF MarkPublished, PublishedRow,
     TypeOK, HandleInv, Event, EventStatuses, Message, PublisherState, WorkerState, IdlePublisher, IdleWorker
<1>5. CASE MarkPublishedFails(p)
  BY <1>5 DEF MarkPublishedFails,
     TypeOK, HandleInv, Event, EventStatuses, Message, PublisherState, WorkerState, IdlePublisher, IdleWorker
<1>6. CASE MarkPublishFailed(p)
  BY <1>6 DEF MarkPublishFailed, PublishFailedRow,
     TypeOK, HandleInv, Event, EventStatuses, Message, PublisherState, WorkerState, IdlePublisher, IdleWorker
<1> QED
  BY <1>1, <1>2, <1>3, <1>4, <1>5, <1>6 DEF PublisherStep

(* The steps of a worker keep the types.                                    *)
LEMMA WorkerType ==
  ASSUME DeliveryAssumption, TypeOK, HandleInv,
         NEW w \in Workers, WorkerStep(w)
  PROVE  TypeOK' /\ HandleInv'
<1>1. CASE \E m \in Messages : Receive(w, m)
  BY <1>1 DEF Receive,
     TypeOK, HandleInv, Event, EventStatuses, Message, PublisherState, WorkerState, IdlePublisher, IdleWorker
<1>2. CASE ClaimDelivery(w)
  <2>1. worker[w].receives \in Nat /\ event \in Event
    BY DEF TypeOK, WorkerState
  <2>2. Attempts(event, worker[w].receives) \in 0 .. MaxAttempts
    BY <1>2, <2>1, ClaimWithinAttempts DEF ClaimDelivery
  <2>3. event' \in Event
    BY <1>2, <2>1, <2>2 DEF ClaimDelivery, Event, EventStatuses
  <2>4. worker' \in [Workers -> WorkerState] /\ HandleInv'
    <3> DEFINE n == Attempts(event, worker[w].receives)
               d == [worker[w] EXCEPT !.pc = "CLAIMED", !.attempts = n]
    <3>1. n \in Nat
      BY <2>2
    <3>2. worker' = [worker EXCEPT ![w] = d] /\ worker[w].pc = "RECEIVED"
      BY <1>2 DEF ClaimDelivery
    <3> HIDE DEF n
    <3>3. worker \in [Workers -> WorkerState] /\ worker[w] \in WorkerState
      BY DEF TypeOK
    <3>4. d \in WorkerState /\ d.msg = worker[w].msg
      BY <3>1, <3>3 DEF WorkerState
    <3> HIDE DEF d
    <3>5. worker' \in [Workers -> WorkerState]
      BY <3>2, <3>3, <3>4
    <3>6. worker'[w] = d /\ \A v \in Workers \ {w} : worker'[v] = worker[v]
      BY <3>2, <3>3
    <3>7. HandleInv'
      BY <3>2, <3>4, <3>6 DEF HandleInv
    <3> QED
      BY <3>5, <3>7
  <2> QED
    BY <1>2, <2>3, <2>4 DEF ClaimDelivery, TypeOK
<1>3. CASE DiscardDuplicate(w)
  <2>1. worker[w].msg \in Messages
    BY <1>3 DEF DiscardDuplicate, HandleInv
  <2>2. queue' \in [Messages -> Message]
    BY <1>3, <2>1, DeletedType DEF DiscardDuplicate, TypeOK
  <2> QED
    BY <1>3, <2>2 DEF DiscardDuplicate,
       TypeOK, HandleInv, Event, EventStatuses, Message, PublisherState, WorkerState, IdlePublisher, IdleWorker
<1>4. CASE LeaveMessage(w)
  BY <1>4 DEF LeaveMessage,
     TypeOK, HandleInv, Event, EventStatuses, Message, PublisherState, WorkerState, IdlePublisher, IdleWorker
<1>5. CASE PostInvoice(w)
  BY <1>5 DEF PostInvoice, ServiceAccepts,
     TypeOK, HandleInv, Event, EventStatuses, Message, PublisherState, WorkerState, IdlePublisher, IdleWorker
<1>6. CASE PostFails(w)
  <2>1. worker' \in [Workers -> WorkerState] /\ HandleInv'
    BY <1>6 DEF PostFails, TypeOK, WorkerState, HandleInv
  <2>2. known' \in BOOLEAN /\ accepted' \in Nat
    <3>1. CASE ServiceAccepts
      BY <3>1 DEF ServiceAccepts, TypeOK
    <3>2. CASE UNCHANGED <<known, accepted>>
      BY <3>2 DEF TypeOK
    <3> QED
      BY <1>6, <3>1, <3>2 DEF PostFails
  <2> QED
    BY <1>6, <2>1, <2>2 DEF PostFails, TypeOK
<1>7. CASE MarkDelivered(w)
  <2>1. worker' \in [Workers -> WorkerState] /\ HandleInv'
    BY <1>7 DEF MarkDelivered, TypeOK, WorkerState, HandleInv
  <2>2. event' \in Event /\ sent' \in BOOLEAN
    BY <1>7 DEF MarkDelivered, TypeOK, Event, EventStatuses
  <2> QED
    BY <1>7, <2>1, <2>2 DEF MarkDelivered, TypeOK
<1>8. CASE DeleteMessage(w)
  <2>1. worker[w].msg \in Messages
    BY <1>8 DEF DeleteMessage, HandleInv
  <2>2. queue' \in [Messages -> Message]
    BY <1>8, <2>1, DeletedType DEF DeleteMessage, TypeOK
  <2> QED
    BY <1>8, <2>2 DEF DeleteMessage,
       TypeOK, HandleInv, Event, EventStatuses, Message, PublisherState, WorkerState, IdlePublisher, IdleWorker
<1>9. CASE ConfirmFails(w)
  BY <1>9 DEF ConfirmFails,
     TypeOK, HandleInv, Event, EventStatuses, Message, PublisherState, WorkerState, IdlePublisher, IdleWorker
<1>10. CASE MarkFailed(w)
  BY <1>10 DEF MarkFailed, FailedRow,
     TypeOK, HandleInv, Event, EventStatuses, Message, PublisherState, WorkerState, IdlePublisher, IdleWorker
<1> QED
  BY <1>1, <1>2, <1>3, <1>4, <1>5, <1>6, <1>7, <1>8, <1>9, <1>10 DEF WorkerStep

(* Queue, retry, crash, restart and the end of a lease keep the types.      *)
LEMMA EnvironmentType ==
  ASSUME DeliveryAssumption, TypeOK, HandleInv,
         \/ \E m \in Messages : VisibilityTimeout(m) \/ Redrive(m)
         \/ RetryEvent \/ Crash \/ ServiceRestart \/ LeaseExpires \/ Stall
  PROVE  TypeOK' /\ HandleInv'
<1>1. CASE \E m \in Messages : VisibilityTimeout(m) \/ Redrive(m)
  <2>1. PICK m \in Messages : VisibilityTimeout(m) \/ Redrive(m)
    BY <1>1
  <2>2. queue' \in [Messages -> Message]
    BY <2>1 DEF VisibilityTimeout, Redrive, TypeOK, Message
  <2>3. UNCHANGED <<event, sent, pub, worker, known, accepted, spent>>
    BY <2>1 DEF VisibilityTimeout, Redrive
  <2> QED
    BY <2>2, <2>3 DEF TypeOK, HandleInv
<1>2. CASE RetryEvent
  BY <1>2 DEF RetryEvent,
     TypeOK, HandleInv, Event, EventStatuses, Message, PublisherState, WorkerState, IdlePublisher, IdleWorker
<1>3. CASE Crash
  <2>1. pub' \in [Publishers -> PublisherState]
    BY <1>3 DEF Crash, TypeOK, PublisherState, IdlePublisher
  <2>2. worker' \in [Workers -> WorkerState] /\ HandleInv'
    BY <1>3 DEF Crash, TypeOK, WorkerState, IdleWorker, HandleInv
  <2>3. spent' \in [crashes : Nat, stalls : Nat, restarts : Nat, retries : Nat]
    BY <1>3 DEF Crash, TypeOK
  <2> QED
    BY <1>3, <2>1, <2>2, <2>3 DEF Crash, TypeOK
<1>4. CASE ServiceRestart
  <2>1. spent' \in [crashes : Nat, stalls : Nat, restarts : Nat, retries : Nat]
    BY <1>4 DEF ServiceRestart, TypeOK
  <2> QED
    BY <1>4, <2>1 DEF ServiceRestart, TypeOK, HandleInv
<1>5. CASE LeaseExpires
  BY <1>5 DEF LeaseExpires,
     TypeOK, HandleInv, Event, EventStatuses, Message, PublisherState, WorkerState, IdlePublisher, IdleWorker
<1>6. CASE Stall
  BY <1>6 DEF Stall,
     TypeOK, HandleInv, Event, EventStatuses, Message, PublisherState, WorkerState, IdlePublisher, IdleWorker
<1> QED
  BY <1>1, <1>2, <1>3, <1>4, <1>5, <1>6

(* Every step keeps the types.                                              *)
LEMMA StepType ==
  ASSUME DeliveryAssumption, TypeOK, HandleInv, [Next]_vars
  PROVE  TypeOK' /\ HandleInv'
<1>1. CASE \E p \in Publishers : PublisherStep(p)
  BY <1>1, PublisherType
<1>2. CASE \E w \in Workers : WorkerStep(w)
  BY <1>2, WorkerType
<1>3. CASE \/ \E m \in Messages : VisibilityTimeout(m) \/ Redrive(m)
           \/ RetryEvent \/ Crash \/ ServiceRestart \/ LeaseExpires \/ Stall
  BY <1>3, EnvironmentType
<1>4. CASE UNCHANGED vars
  BY <1>4 DEF vars, TypeOK, HandleInv
<1> QED
  BY <1>1, <1>2, <1>3, <1>4 DEF Next

-----------------------------------------------------------------------------
(* What the service did is counted by acceptances and restarts.             *)
LEMMA StepAcceptance ==
  ASSUME TypeOK, Acceptance, [Next]_vars
  PROVE  Acceptance'
<1> USE DEF Acceptance
<1>0. /\ accepted \in Nat
      /\ spent \in [crashes : Nat, stalls : Nat, restarts : Nat, retries : Nat]
      /\ worker \in [Workers -> WorkerState]
  BY DEF TypeOK
<1>1. CASE \E p \in Publishers : PublisherStep(p)
  BY <1>1 DEF PublisherStep, ClaimEvent, SendMessage, SendFails, MarkPublished,
     MarkPublishedFails, MarkPublishFailed
<1>2. ASSUME NEW w \in Workers, WorkerStep(w) PROVE Acceptance'
  <2>1. CASE \E m \in Messages : Receive(w, m)
    BY <1>0, <2>1 DEF Receive
  <2>2. CASE ClaimDelivery(w)
    BY <1>0, <2>2 DEF ClaimDelivery
  <2>3. CASE DiscardDuplicate(w) \/ LeaveMessage(w) \/ DeleteMessage(w)
    BY <1>0, <2>3 DEF DiscardDuplicate, LeaveMessage, DeleteMessage, IdleWorker
  <2>4. CASE PostInvoice(w) \/ PostFails(w)
    <3>1. ServiceAccepts => /\ known' /\ accepted' > 0
                            /\ accepted' <= 1 + spent.restarts
      BY <1>0 DEF ServiceAccepts
    <3>2. spent' = spent
      BY <2>4 DEF PostInvoice, PostFails
    <3>3. CASE ServiceAccepts
      BY <3>1, <3>2, <3>3
    <3>4. CASE PostFails(w) /\ UNCHANGED <<known, accepted>>
      BY <1>0, <3>2, <3>4 DEF PostFails
    <3> QED
      BY <2>4, <3>3, <3>4 DEF PostInvoice, PostFails
  <2>5. CASE MarkDelivered(w)
    BY <1>0, <2>5 DEF MarkDelivered
  <2>6. CASE ConfirmFails(w)
    BY <1>0, <2>6 DEF ConfirmFails
  <2>7. CASE MarkFailed(w)
    BY <1>0, <2>7 DEF MarkFailed, IdleWorker
  <2> QED
    BY <1>2, <2>1, <2>2, <2>3, <2>4, <2>5, <2>6, <2>7 DEF WorkerStep
<1>3. CASE \E m \in Messages : VisibilityTimeout(m) \/ Redrive(m)
  BY <1>3 DEF VisibilityTimeout, Redrive
<1>4. CASE RetryEvent
  BY <1>0, <1>4 DEF RetryEvent
<1>5. CASE Crash
  BY <1>0, <1>5 DEF Crash, IdleWorker
<1>6. CASE ServiceRestart
  BY <1>0, <1>6 DEF ServiceRestart
<1>7. CASE LeaseExpires \/ Stall
  BY <1>0, <1>7 DEF LeaseExpires, Stall
<1>8. CASE UNCHANGED vars
  BY <1>8 DEF vars
<1> QED
  BY <1>1, <1>2, <1>3, <1>4, <1>5, <1>6, <1>7, <1>8 DEF Next

-----------------------------------------------------------------------------
(* The invariant the theorems below rest on.                                *)
THEOREM PipelineInvariance == Spec => []PipelineInv
<1>1. Init => PipelineInv
  <2>1. Init => TypeOK /\ HandleInv
    BY InitType, DeliveryAssumption
  <2>2. Init => Acceptance
    BY DEF Acceptance, Init, IdleWorker
  <2> QED
    BY <2>1, <2>2 DEF PipelineInv
<1>2. PipelineInv /\ [Next]_vars => PipelineInv'
  BY StepType, StepAcceptance, DeliveryAssumption DEF PipelineInv
<1> QED
  BY <1>1, <1>2, PTL DEF Spec

(* The rows, the queue and the processes keep their types: the two counters *)
(* of the outbox row never break the constraints of the table, whatever     *)
(* order publications, receives, failures and retries take.                 *)
THEOREM PipelineTypeCorrect == Spec => []TypeOK
<1>1. PipelineInv => TypeOK
  BY DEF PipelineInv
<1> QED
  BY <1>1, PipelineInvariance, PTL

(* The invoice leaves the delivery service once, and once more only for     *)
(* each restart that made the service forget the event id.                  *)
THEOREM InvoiceAcceptedOnce == Spec => []AcceptedOnce
<1>1. PipelineInv => AcceptedOnce
  BY DEF PipelineInv, TypeOK, Acceptance, AcceptedOnce
<1> QED
  BY <1>1, PipelineInvariance, PTL

-----------------------------------------------------------------------------
(* The outbox row leaves QUEUED only in MarkDelivered, and no other step    *)
(* touches it afterwards.                                                   *)
LEMMA StepPromise ==
  ASSUME PipelineInv, [Next]_vars
  PROVE  [Promise!Next]_(Promise!vars)
<1> USE DEF Promise!vars, Promise!Next
<1>0. /\ TypeOK /\ Acceptance /\ accepted \in Nat /\ worker \in [Workers -> WorkerState]
      /\ event \in Event
  BY DEF PipelineInv, TypeOK
<1> DEFINE same == /\ (event.status = "DELIVERED") = (event'.status = "DELIVERED")
                   /\ UNCHANGED <<sent, accepted>>
<1>1. same => UNCHANGED Promise!vars
  OBVIOUS
<1>2. ASSUME NEW p \in Publishers, PublisherStep(p) PROVE same
  BY <1>0, <1>2 DEF PublisherStep, ClaimEvent, SendMessage, SendFails, MarkPublished,
     MarkPublishedFails, MarkPublishFailed, Publishable, PublishedRow,
     PublishFailedRow, Event
<1>3. ASSUME NEW w \in Workers, WorkerStep(w) PROVE same \/ Promise!Next
  <2>1. CASE \E m \in Messages : Receive(w, m)
    BY <2>1 DEF Receive
  <2>2. CASE ClaimDelivery(w)
    BY <1>0, <2>2 DEF ClaimDelivery, Claimable, Event
  <2>3. CASE DiscardDuplicate(w) \/ LeaveMessage(w) \/ DeleteMessage(w) \/ ConfirmFails(w)
    BY <2>3 DEF DiscardDuplicate, LeaveMessage, DeleteMessage, ConfirmFails
  <2>4. CASE PostInvoice(w) \/ PostFails(w)
    <3>1. UNCHANGED <<event, sent>>
      BY <2>4 DEF PostInvoice, PostFails
    <3>2. accepted' = accepted \/ accepted' = accepted + 1
      BY <2>4 DEF PostInvoice, PostFails, ServiceAccepts
    <3> QED
      BY <3>1, <3>2 DEF Promise!Accept
  <2>5. CASE MarkDelivered(w)
    <3>1. accepted > 0 /\ accepted' = accepted
      BY <1>0, <2>5 DEF MarkDelivered, Acceptance
    <3>2. CASE event.status = "DELIVERING"
      BY <1>0, <2>5, <3>1, <3>2 DEF MarkDelivered, Event, Promise!Confirm
    <3>3. CASE event.status # "DELIVERING"
      BY <2>5, <3>1, <3>3 DEF MarkDelivered
    <3> QED
      BY <3>2, <3>3
  <2>6. CASE MarkFailed(w)
    BY <1>0, <2>6 DEF MarkFailed, FailedRow, Event
  <2> QED
    BY <1>3, <2>1, <2>2, <2>3, <2>4, <2>5, <2>6 DEF WorkerStep
<1>4. CASE \E m \in Messages : VisibilityTimeout(m) \/ Redrive(m)
  BY <1>1, <1>4 DEF VisibilityTimeout, Redrive
<1>5. CASE RetryEvent \/ Crash \/ ServiceRestart
  BY <1>1, <1>5 DEF RetryEvent, Crash, ServiceRestart
<1>6. CASE LeaseExpires \/ Stall
  BY <1>0, <1>1, <1>6 DEF LeaseExpires, Stall, Event
<1>7. CASE UNCHANGED vars
  BY <1>1, <1>7 DEF vars
<1> QED
  BY <1>1, <1>2, <1>3, <1>4, <1>5, <1>6, <1>7 DEF Next

(* The pipeline implements the promise the ledger is built on: recorded as  *)
(* delivered only after an acceptance, with sent_at, and for good.          *)
THEOREM PipelineImplementsPromise == Spec => ImplementsPromise
<1>1. Init => Promise!Init
  BY DEF Init, Promise!Init
<1>2. PipelineInv /\ [Next]_vars => [Promise!Next]_(Promise!vars)
  BY StepPromise
<1> QED
  BY <1>1, <1>2, PipelineInvariance, PTL DEF Spec, ImplementsPromise, Promise!Spec

-----------------------------------------------------------------------------
(* The workers that claimed the event and have not let go of its message,   *)
(* and those of them that believe it delivered.  The second kind can still  *)
(* fail to delete the message, and then acts on the event once more.        *)
Holding == {w \in Workers : worker[w].pc \in {"CLAIMED", "ACCEPTED", "FAILED", "CONFIRMED"}}

Confirming == {w \in Workers : worker[w].pc = "CONFIRMED"}

(* A claim in force keeps other workers out; a delivered event does so for  *)
(* good.                                                                    *)
InForce(e) == e.status = "DELIVERED" \/ (e.status = "DELIVERING" /\ e.lease = "FRESH")

(* Each stall lets one more worker in: every worker that holds the event,   *)
(* except the one whose claim is in force, was overtaken.                   *)
Claims(holding, confirming, e, stalls) ==
  /\ IsFiniteSet(holding)
  /\ IsFiniteSet(confirming)
  /\ Cardinality(holding) <= 1 + stalls
  /\ ~InForce(e) => Cardinality(holding) <= stalls
  /\ e.status # "DELIVERED" => Cardinality(confirming) <= stalls

ClaimsInv == Claims(Holding, Confirming, event, spent.stalls)

(* Workers that let go leave the bounds as they are.                        *)
LEMMA ClaimsShrink ==
  ASSUME NEW h, NEW c, NEW e, NEW stalls \in Nat, Claims(h, c, e, stalls),
         NEW h2, h2 \subseteq h, NEW c2, c2 \subseteq c
  PROVE  Claims(h2, c2, e, stalls)
<1>1. /\ IsFiniteSet(h2) /\ Cardinality(h2) <= Cardinality(h)
      /\ IsFiniteSet(c2) /\ Cardinality(c2) <= Cardinality(c)
  BY FS_Subset DEF Claims
<1>2. /\ Cardinality(h) \in Nat /\ Cardinality(h2) \in Nat
      /\ Cardinality(c) \in Nat /\ Cardinality(c2) \in Nat
  BY <1>1, FS_CardinalityType DEF Claims
<1> QED
  BY <1>1, <1>2 DEF Claims

(* What a step of one worker does to the two sets.                          *)
LEMMA SetsAfter ==
  ASSUME TypeOK, NEW w \in Workers, NEW t, worker' = [worker EXCEPT ![w] = t]
  PROVE  /\ Holding' = IF t.pc \in {"CLAIMED", "ACCEPTED", "FAILED", "CONFIRMED"}
                       THEN Holding \cup {w} ELSE Holding \ {w}
         /\ Confirming' = IF t.pc = "CONFIRMED" THEN Confirming \cup {w}
                          ELSE Confirming \ {w}
<1>1. \A v \in Workers : worker'[v] = IF v = w THEN t ELSE worker[v]
  BY DEF TypeOK
<1> QED
  BY <1>1 DEF Holding, Confirming

(* The publishers, the queue, the service and a retry by the CFO leave the  *)
(* claims of the workers alone.                                             *)
LEMMA ClaimsUndisturbed ==
  ASSUME TypeOK, ClaimsInv, worker' = worker, spent'.stalls = spent.stalls,
         event'.status # "DELIVERED" => event.status # "DELIVERED",
         InForce(event) => InForce(event')
  PROVE  ClaimsInv'
<1>1. Holding' = Holding /\ Confirming' = Confirming
  BY DEF Holding, Confirming
<1>2. Claims(Holding, Confirming, event', spent.stalls)
  BY DEF ClaimsInv, Claims
<1>3. ClaimsInv' <=> Claims(Holding', Confirming', event', spent'.stalls)
  BY DEF ClaimsInv, Claims, InForce
<1> QED
  BY <1>1, <1>2, <1>3

(* A worker that lets go, or goes on with its claim, adds to neither set.   *)
LEMMA ClaimsLetGo ==
  ASSUME TypeOK, ClaimsInv, NEW w \in Workers, NEW t,
         worker' = [worker EXCEPT ![w] = t],
         t.pc \in {"CLAIMED", "ACCEPTED", "FAILED"} => w \in Holding,
         t.pc # "CONFIRMED",
         event' = event, spent'.stalls = spent.stalls
  PROVE  ClaimsInv'
<1>1. Holding' \subseteq Holding /\ Confirming' \subseteq Confirming
  BY SetsAfter
<1>2. spent.stalls \in Nat
  BY DEF TypeOK
<1> DEFINE h == Holding'
           c == Confirming'
<1> HIDE DEF h, c
<1>3. h \subseteq Holding /\ c \subseteq Confirming
  BY <1>1 DEF h, c
<1>4. Claims(h, c, event, spent.stalls)
  BY <1>2, <1>3, ClaimsShrink DEF ClaimsInv
<1>5. ClaimsInv' <=> Claims(Holding', Confirming', event', spent'.stalls)
  BY DEF ClaimsInv, Claims, InForce
<1> QED
  BY <1>4, <1>5 DEF h, c

(* A publisher acts on events that no worker has claimed.                   *)
LEMMA PublisherKeepsClaims ==
  ASSUME TypeOK, ClaimsInv, NEW p \in Publishers, PublisherStep(p)
  PROVE  ClaimsInv'
<1>1. worker' = worker /\ spent' = spent
  BY DEF PublisherStep, ClaimEvent, SendMessage, SendFails, MarkPublished,
     MarkPublishedFails, MarkPublishFailed
<1>2. \/ event' = event
      \/ event.status \in {"PENDING", "PROCESSING"}
  BY DEF PublisherStep, ClaimEvent, SendMessage, SendFails, MarkPublished,
     MarkPublishedFails, MarkPublishFailed, Publishable, PublishedRow, PublishFailedRow
<1> QED
  BY <1>1, <1>2, ClaimsUndisturbed DEF InForce

(* The claim is the one step that adds a worker to those that hold the      *)
(* event, and it is made when no claim is in force.                         *)
LEMMA ClaimKeepsClaims ==
  ASSUME TypeOK, ClaimsInv, NEW w \in Workers, ClaimDelivery(w)
  PROVE  ClaimsInv'
<1> DEFINE t == [worker[w] EXCEPT !.pc = "CLAIMED",
                                  !.attempts = Attempts(event, worker[w].receives)]
<1>1. worker' = [worker EXCEPT ![w] = t] /\ t.pc = "CLAIMED" /\ spent' = spent
  BY DEF ClaimDelivery, TypeOK, WorkerState
<1>2. Holding' = Holding \cup {w} /\ Confirming' \subseteq Confirming
  BY <1>1, SetsAfter
<1>3. /\ ~InForce(event) /\ event.status # "DELIVERED"
      /\ event'.status = "DELIVERING" /\ event'.lease = "FRESH"
  BY DEF ClaimDelivery, Claimable, InForce, TypeOK, Event
<1>4. /\ IsFiniteSet(Holding) /\ Cardinality(Holding) \in Nat /\ spent.stalls \in Nat
      /\ IsFiniteSet(Confirming) /\ Cardinality(Confirming) \in Nat
      /\ Cardinality(Holding) <= spent.stalls
      /\ Cardinality(Confirming) <= spent.stalls
  BY <1>3, FS_CardinalityType DEF ClaimsInv, Claims, TypeOK
<1>5. /\ IsFiniteSet(Holding \cup {w})
      /\ Cardinality(Holding \cup {w}) <= 1 + spent.stalls
  <2> DEFINE h == Holding
  <2>1. IsFiniteSet(h) /\ Cardinality(h) \in Nat /\ Cardinality(h) <= spent.stalls
    BY <1>4
  <2> HIDE DEF h
  <2>2. /\ IsFiniteSet(h \cup {w})
        /\ \/ Cardinality(h \cup {w}) = Cardinality(h)
           \/ Cardinality(h \cup {w}) = Cardinality(h) + 1
    BY <2>1, FS_AddElement
  <2>3. Cardinality(h \cup {w}) <= 1 + spent.stalls
    BY <1>4, <2>1, <2>2
  <2> QED
    BY <2>2, <2>3 DEF h
<1> DEFINE c == Confirming'
<1>6. IsFiniteSet(c) /\ Cardinality(c) <= Cardinality(Confirming) /\ Cardinality(c) \in Nat
  BY <1>2, <1>4, FS_Subset, FS_CardinalityType
<1>7. Claims(Holding', Confirming', event', spent'.stalls)
  BY <1>1, <1>2, <1>3, <1>4, <1>5, <1>6 DEF Claims, InForce
<1> QED
  BY <1>7 DEF ClaimsInv, Claims, InForce

(* A worker that records the delivery has its claim in force, or has been   *)
(* overtaken and is one of those that the stalls account for.               *)
LEMMA DeliveredKeepsClaims ==
  ASSUME TypeOK, ClaimsInv, NEW w \in Workers, MarkDelivered(w)
  PROVE  ClaimsInv'
<1> DEFINE t == [worker[w] EXCEPT !.pc = "CONFIRMED"]
<1>1. worker' = [worker EXCEPT ![w] = t] /\ t.pc = "CONFIRMED" /\ spent' = spent
  BY DEF MarkDelivered, TypeOK, WorkerState
<1>2. w \in Holding /\ Confirming \subseteq Holding
  BY DEF MarkDelivered, Holding, Confirming
<1> HIDE DEF t
<1>3. Holding' = Holding /\ Confirming' \subseteq Holding
  <2>1. Holding' = Holding \cup {w} /\ Confirming' = Confirming \cup {w}
    BY <1>1, SetsAfter
  <2> QED
    BY <1>2, <2>1
<1>4. /\ IsFiniteSet(Holding) /\ Cardinality(Holding) \in Nat /\ spent.stalls \in Nat
      /\ Cardinality(Holding) <= 1 + spent.stalls
  BY FS_CardinalityType DEF ClaimsInv, Claims, TypeOK
<1> DEFINE c == Confirming'
<1>5. IsFiniteSet(c) /\ Cardinality(c) <= Cardinality(Holding) /\ Cardinality(c) \in Nat
  BY <1>3, <1>4, FS_Subset, FS_CardinalityType
<1>6. /\ event'.status # "DELIVERED" => event' = event /\ event.status # "DELIVERING"
      /\ event'.status # "DELIVERED" => ~InForce(event)
  BY DEF MarkDelivered, TypeOK, Event, InForce
<1>7. Claims(Holding', Confirming', event', spent'.stalls)
  <2>1. CASE event'.status = "DELIVERED"
    BY <2>1, <1>1, <1>3, <1>4, <1>5 DEF Claims, InForce
  <2>2. CASE event'.status # "DELIVERED"
    <3>1. Cardinality(Holding) <= spent.stalls
      BY <2>2, <1>6 DEF ClaimsInv, Claims
    <3> QED
      BY <2>2, <3>1, <1>1, <1>3, <1>4, <1>5 DEF Claims, InForce
  <2> QED
    BY <2>1, <2>2
<1> QED
  BY <1>7 DEF ClaimsInv, Claims, InForce

(* A worker that gives up takes its claim with it.                          *)
LEMMA FailedKeepsClaims ==
  ASSUME TypeOK, ClaimsInv, NEW w \in Workers, MarkFailed(w)
  PROVE  ClaimsInv'
<1>1. worker' = [worker EXCEPT ![w] = IdleWorker] /\ IdleWorker.pc = "IDLE" /\ spent' = spent
  BY DEF MarkFailed, IdleWorker
<1>2. Holding' = Holding \ {w} /\ Confirming' \subseteq Confirming /\ w \in Holding
  BY <1>1, SetsAfter DEF Holding, MarkFailed
<1>3. /\ IsFiniteSet(Holding) /\ Cardinality(Holding) \in Nat /\ spent.stalls \in Nat
      /\ IsFiniteSet(Confirming) /\ Cardinality(Confirming) \in Nat
      /\ Cardinality(Holding) <= 1 + spent.stalls
      /\ event.status # "DELIVERED" => Cardinality(Confirming) <= spent.stalls
  BY FS_CardinalityType DEF ClaimsInv, Claims, TypeOK
<1>4. /\ IsFiniteSet(Holding \ {w})
      /\ Cardinality(Holding \ {w}) = Cardinality(Holding) - 1
  BY <1>2, <1>3, FS_RemoveElement
<1> DEFINE c == Confirming'
<1>5. IsFiniteSet(c) /\ Cardinality(c) <= Cardinality(Confirming) /\ Cardinality(c) \in Nat
  BY <1>2, <1>3, FS_Subset, FS_CardinalityType
<1>6. event'.status # "DELIVERED" => event.status # "DELIVERED"
  BY DEF MarkFailed, FailedRow, TypeOK, Event
<1>7. Claims(Holding', Confirming', event', spent'.stalls)
  <2>1. Cardinality(Holding') <= spent.stalls
    BY <1>2, <1>3, <1>4
  <2> QED
    BY <2>1, <1>1, <1>2, <1>3, <1>4, <1>5, <1>6 DEF Claims
<1> QED
  BY <1>7 DEF ClaimsInv, Claims, InForce

(* The other steps of a worker touch neither the event nor its claim.       *)
LEMMA WorkerKeepsClaims ==
  ASSUME TypeOK, ClaimsInv, NEW w \in Workers, WorkerStep(w)
  PROVE  ClaimsInv'
<1>1. CASE \E m \in Messages : Receive(w, m)
  <2>1. PICK m \in Messages : Receive(w, m)
    BY <1>1
  <2> DEFINE t == [pc |-> "RECEIVED", msg |-> m,
                   receives |-> queue[m].receives + 1, attempts |-> 0]
  <2>2. /\ worker' = [worker EXCEPT ![w] = t] /\ t.pc = "RECEIVED"
        /\ event' = event /\ spent' = spent
    BY <2>1 DEF Receive
  <2> HIDE DEF t
  <2> QED
    BY <2>2, ClaimsLetGo
<1>2. CASE DiscardDuplicate(w) \/ LeaveMessage(w) \/ DeleteMessage(w)
  <2>1. worker' = [worker EXCEPT ![w] = IdleWorker] /\ event' = event /\ spent' = spent
    BY <1>2 DEF DiscardDuplicate, LeaveMessage, DeleteMessage
  <2>2. IdleWorker.pc = "IDLE"
    BY DEF IdleWorker
  <2> QED
    BY <2>1, <2>2, ClaimsLetGo
<1>3. CASE PostInvoice(w) \/ PostFails(w) \/ ConfirmFails(w)
  <2>1. \E x \in {"ACCEPTED", "FAILED"} : worker' = [worker EXCEPT ![w].pc = x]
    BY <1>3 DEF PostInvoice, PostFails, ConfirmFails
  <2>2. PICK x \in {"ACCEPTED", "FAILED"} : worker' = [worker EXCEPT ![w].pc = x]
    BY <2>1
  <2> DEFINE t == [worker[w] EXCEPT !.pc = x]
  <2>3. worker' = [worker EXCEPT ![w] = t] /\ t.pc = x
    BY <2>2 DEF TypeOK, WorkerState
  <2>4. w \in Holding /\ event' = event /\ spent' = spent
    BY <1>3 DEF PostInvoice, PostFails, ConfirmFails, Holding
  <2> HIDE DEF t
  <2> QED
    BY <2>3, <2>4, ClaimsLetGo
<1> QED
  BY <1>1, <1>2, <1>3, ClaimKeepsClaims, DeliveredKeepsClaims, FailedKeepsClaims
     DEF WorkerStep

(* A stall pays for the worker it lets in; a lease that runs out on nobody  *)
(* at work lets in one worker in the place of the one that is gone.         *)
LEMMA LeaseKeepsClaims ==
  ASSUME TypeOK, ClaimsInv, LeaseExpires \/ Stall
  PROVE  ClaimsInv'
<1>1. /\ Holding' = Holding /\ Confirming' = Confirming
      /\ event'.status = event.status
      /\ event'.lease = "STALE"
  BY DEF LeaseExpires, Stall, Holding, Confirming, TypeOK, Event
<1>2. /\ IsFiniteSet(Holding) /\ Cardinality(Holding) \in Nat /\ spent.stalls \in Nat
      /\ IsFiniteSet(Confirming) /\ Cardinality(Confirming) \in Nat
  BY FS_CardinalityType DEF ClaimsInv, Claims, TypeOK
<1>3. CASE LeaseExpires
  <2>1. spent' = spent /\ Holding = Confirming
    BY <1>3 DEF LeaseExpires, Held, Delivering, Holding, Confirming
  <2>2. Claims(Holding', Confirming', event', spent'.stalls)
    BY <1>1, <1>2, <2>1 DEF ClaimsInv, Claims, InForce
  <2> QED
    BY <2>2 DEF ClaimsInv, Claims, InForce
<1>4. CASE Stall
  <2>1. spent'.stalls = spent.stalls + 1
    BY <1>4 DEF Stall, TypeOK
  <2>2. Claims(Holding', Confirming', event', spent'.stalls)
    BY <1>1, <1>2, <2>1 DEF ClaimsInv, Claims, InForce
  <2> QED
    BY <2>2 DEF ClaimsInv, Claims, InForce
<1> QED
  BY <1>3, <1>4

(* Every step keeps the bounds on the workers that hold the event.          *)
LEMMA StepKeepsClaims ==
  ASSUME TypeOK, ClaimsInv, [Next]_vars
  PROVE  ClaimsInv'
<1>1. CASE \E m \in Messages : VisibilityTimeout(m) \/ Redrive(m)
  <2>1. worker' = worker /\ event' = event /\ spent' = spent
    BY <1>1 DEF VisibilityTimeout, Redrive
  <2> QED
    BY <2>1, ClaimsUndisturbed
<1>2. CASE RetryEvent
  <2>1. /\ worker' = worker /\ spent'.stalls = spent.stalls
        /\ event.status = "DEAD"
    BY <1>2 DEF RetryEvent, TypeOK
  <2> QED
    BY <2>1, ClaimsUndisturbed DEF InForce
<1>3. CASE Crash
  <2>1. event' = event /\ spent'.stalls = spent.stalls
    BY <1>3 DEF Crash, TypeOK
  <2>2. CASE worker' = worker
    BY <2>1, <2>2, ClaimsUndisturbed
  <2>3. CASE \E w \in Workers : worker' = [worker EXCEPT ![w] = IdleWorker]
    <3>1. IdleWorker.pc = "IDLE"
      BY DEF IdleWorker
    <3> QED
      BY <2>1, <2>3, <3>1, ClaimsLetGo
  <2> QED
    BY <1>3, <2>2, <2>3 DEF Crash
<1>4. CASE ServiceRestart
  <2>1. worker' = worker /\ event' = event /\ spent'.stalls = spent.stalls
    BY <1>4 DEF ServiceRestart, TypeOK
  <2> QED
    BY <2>1, ClaimsUndisturbed
<1>5. CASE UNCHANGED vars
  BY <1>5, ClaimsUndisturbed DEF vars
<1> QED
  BY <1>1, <1>2, <1>3, <1>4, <1>5, PublisherKeepsClaims, WorkerKeepsClaims,
     LeaseKeepsClaims DEF Next

(* No worker has claimed the event when it is queued.                       *)
LEMMA InitClaims == ASSUME Init PROVE ClaimsInv
<1>1. Holding = {} /\ Confirming = {}
  BY DEF Init, IdleWorker, Holding, Confirming
<1>2. spent.stalls = 0
  BY DEF Init
<1> QED
  BY <1>1, <1>2, FS_EmptySet DEF ClaimsInv, Claims

(* The bounds hold always.                                                  *)
THEOREM ClaimsInvariance == Spec => []ClaimsInv
<1>1. Init => ClaimsInv
  BY InitClaims
<1>2. PipelineInv /\ ClaimsInv /\ [Next]_vars => ClaimsInv'
  BY StepKeepsClaims DEF PipelineInv
<1> QED
  BY <1>1, <1>2, PipelineInvariance, PTL DEF Spec

(* Two workers deliver the event at the same time only if a lease ran out   *)
(* on one that was still at it, and each further one takes another stall.   *)
THEOREM OneWorkerDelivers == Spec => []OneDeliveryAtATime
<1>1. ASSUME TypeOK, ClaimsInv PROVE OneDeliveryAtATime
  <2> DEFINE D == {w \in Workers : Delivering(w)}
  <2>1. D \subseteq Holding
    BY DEF Delivering, Holding
  <2>2. /\ IsFiniteSet(Holding) /\ Cardinality(Holding) \in Nat /\ spent.stalls \in Nat
        /\ Cardinality(Holding) <= 1 + spent.stalls
    BY <1>1, FS_CardinalityType DEF ClaimsInv, Claims, TypeOK
  <2>3. Cardinality(D) <= Cardinality(Holding) /\ Cardinality(D) \in Nat
    BY <2>1, <2>2, FS_Subset, FS_CardinalityType
  <2> QED
    BY <2>2, <2>3 DEF OneDeliveryAtATime
<1> QED
  BY <1>1, PipelineTypeCorrect, ClaimsInvariance, PTL

-----------------------------------------------------------------------------
(* What is recorded stays recorded.                                         *)
LEMMA RecordsStay ==
  ASSUME TypeOK, [Next]_vars
  PROVE  /\ event.status = "DELIVERED" => event'.status = "DELIVERED"
         /\ accepted > 0 => accepted' > 0
         /\ spent.stalls > 0 => spent'.stalls > 0
<1>0. /\ event \in Event /\ accepted \in Nat
      /\ spent \in [crashes : Nat, stalls : Nat, restarts : Nat, retries : Nat]
  BY DEF TypeOK
<1>1. ASSUME NEW p \in Publishers, PublisherStep(p)
      PROVE  /\ event.status = "DELIVERED" => event'.status = "DELIVERED"
             /\ accepted' = accepted /\ spent' = spent
  BY <1>0, <1>1 DEF PublisherStep, ClaimEvent, SendMessage, SendFails, MarkPublished,
     MarkPublishedFails, MarkPublishFailed, Publishable, PublishedRow, PublishFailedRow
<1>2. ASSUME NEW w \in Workers, WorkerStep(w)
      PROVE  /\ event.status = "DELIVERED" => event'.status = "DELIVERED"
             /\ accepted' \in {accepted, accepted + 1} /\ spent' = spent
  BY <1>0, <1>2 DEF WorkerStep, Receive, ClaimDelivery, Claimable, DiscardDuplicate,
     LeaveMessage, PostInvoice, PostFails, ServiceAccepts, MarkDelivered, DeleteMessage,
     ConfirmFails, MarkFailed, FailedRow
<1>3. CASE \/ \E m \in Messages : VisibilityTimeout(m) \/ Redrive(m)
           \/ RetryEvent \/ Crash \/ ServiceRestart \/ LeaseExpires \/ Stall
           \/ UNCHANGED vars
  BY <1>0, <1>3 DEF VisibilityTimeout, Redrive, RetryEvent, Crash, ServiceRestart,
     LeaseExpires, Stall, vars, Event
<1> QED
  BY <1>0, <1>1, <1>2, <1>3 DEF Next

(* The service accepted the invoice before a worker or the row says so.     *)
AcceptedFirst ==
  /\ event.status = "DELIVERED" => accepted > 0
  /\ \A w \in Workers : worker[w].pc = "CONFIRMED" => accepted > 0

LEMMA StepAcceptedFirst ==
  ASSUME PipelineInv, AcceptedFirst, [Next]_vars
  PROVE  AcceptedFirst'
<1>0. TypeOK /\ Acceptance
  BY DEF PipelineInv
<1>1. CASE accepted > 0
  BY <1>0, <1>1, RecordsStay DEF AcceptedFirst
<1>2. CASE ~(accepted > 0)
  <2>1. /\ event.status # "DELIVERED"
        /\ \A w \in Workers : worker[w].pc \notin {"ACCEPTED", "CONFIRMED"}
    BY <1>0, <1>2 DEF AcceptedFirst, Acceptance
  <2>2. ASSUME NEW p \in Publishers, PublisherStep(p) PROVE event'.status # "DELIVERED"
    BY <1>0, <2>1, <2>2 DEF PublisherStep, ClaimEvent, SendMessage, SendFails,
       MarkPublished, MarkPublishedFails, MarkPublishFailed, PublishedRow,
       PublishFailedRow, TypeOK, Event
  <2>3. ASSUME NEW w \in Workers, WorkerStep(w)
        PROVE  /\ event'.status # "DELIVERED"
               /\ \A v \in Workers : worker'[v].pc # "CONFIRMED"
    <3>1. ~MarkDelivered(w) /\ ~DeleteMessage(w) /\ ~ConfirmFails(w)
      BY <2>1 DEF MarkDelivered, DeleteMessage, ConfirmFails
    <3>2. event'.status # "DELIVERED"
      BY <1>0, <2>1, <2>3, <3>1 DEF WorkerStep, Receive, ClaimDelivery, DiscardDuplicate,
         LeaveMessage, PostInvoice, PostFails, MarkFailed, FailedRow, TypeOK, Event
    <3>3. \A v \in Workers \ {w} : worker'[v] = worker[v]
      BY <1>0, <2>3, <3>1 DEF WorkerStep, Receive, ClaimDelivery, DiscardDuplicate,
         LeaveMessage, PostInvoice, PostFails, MarkFailed, TypeOK
    <3>4. worker'[w].pc # "CONFIRMED"
      <4>1. CASE ClaimDelivery(w) \/ PostInvoice(w) \/ PostFails(w)
        BY <1>0, <4>1 DEF ClaimDelivery, PostInvoice, PostFails, TypeOK, WorkerState
      <4>2. CASE (\E m \in Messages : Receive(w, m)) \/ DiscardDuplicate(w)
                 \/ LeaveMessage(w) \/ MarkFailed(w)
        BY <1>0, <4>2 DEF Receive, DiscardDuplicate, LeaveMessage, MarkFailed, IdleWorker,
           TypeOK
      <4> QED
        BY <2>3, <3>1, <4>1, <4>2 DEF WorkerStep
    <3> QED
      BY <2>1, <3>2, <3>3, <3>4
  <2>4. CASE \/ \E p \in Publishers : PublisherStep(p)
             \/ \E m \in Messages : VisibilityTimeout(m) \/ Redrive(m)
             \/ RetryEvent \/ Crash \/ ServiceRestart \/ LeaseExpires \/ Stall
             \/ UNCHANGED vars
    <3>1. \A v \in Workers : worker'[v] \in {worker[v], IdleWorker}
      BY <1>0, <2>4 DEF PublisherStep, ClaimEvent, SendMessage, SendFails,
         MarkPublished, MarkPublishedFails, MarkPublishFailed, VisibilityTimeout,
         Redrive, RetryEvent, Crash, ServiceRestart, LeaseExpires, Stall, vars, TypeOK
    <3>2. event'.status # "DELIVERED"
      BY <1>0, <2>1, <2>2, <2>4 DEF VisibilityTimeout, Redrive, RetryEvent, Crash,
         ServiceRestart, LeaseExpires, Stall, vars, TypeOK, Event
    <3> QED
      BY <2>1, <3>1, <3>2 DEF AcceptedFirst, IdleWorker
  <2> QED
    BY <2>3, <2>4 DEF AcceptedFirst, Next
<1> QED
  BY <1>1, <1>2

(* Only a worker that finds the event delivered, or has just marked it,     *)
(* deletes a message.                                                       *)
LEMMA NewlyDeleted ==
  ASSUME TypeOK, [Next]_vars, NEW m \in Messages,
         queue[m].state # "DELETED", queue'[m].state = "DELETED"
  PROVE  event.status = "DELIVERED" \/ Confirming # {}
<1>1. ASSUME NEW p \in Publishers, PublisherStep(p) PROVE FALSE
  <2>1. queue' = queue \/ queue' = Enqueued
    BY <1>1 DEF PublisherStep, ClaimEvent, SendMessage, SendFails, MarkPublished,
       MarkPublishedFails, MarkPublishFailed
  <2>2. \A x : [queue EXCEPT ![x].state = "VISIBLE"][m].state \in {queue[m].state, "VISIBLE"}
    BY DEF TypeOK, Message
  <2> QED
    BY <2>1, <2>2 DEF Enqueued
<1>2. ASSUME NEW w \in Workers, WorkerStep(w)
      PROVE  event.status = "DELIVERED" \/ Confirming # {}
  <2>1. CASE DiscardDuplicate(w) \/ DeleteMessage(w)
    BY <2>1 DEF DiscardDuplicate, DeleteMessage, Confirming
  <2>2. CASE \E k \in Messages : Receive(w, k)
    BY <2>2 DEF Receive, TypeOK, Message
  <2> QED
    BY <1>2, <2>1, <2>2 DEF WorkerStep, ClaimDelivery, LeaveMessage, PostInvoice,
       PostFails, MarkDelivered, ConfirmFails, MarkFailed
<1>3. CASE \E k \in Messages : VisibilityTimeout(k) \/ Redrive(k)
  BY <1>3 DEF VisibilityTimeout, Redrive, TypeOK, Message
<1>4. CASE RetryEvent \/ Crash \/ ServiceRestart \/ LeaseExpires \/ Stall \/ UNCHANGED vars
  BY <1>4 DEF RetryEvent, Crash, ServiceRestart, LeaseExpires, Stall, vars
<1> QED
  BY <1>1, <1>2, <1>3, <1>4 DEF Next

(* A worker confirms while the event is not delivered only after a stall.   *)
LEMMA ConfirmedIsRecorded ==
  ASSUME TypeOK, ClaimsInv, Confirming # {}
  PROVE  event.status = "DELIVERED" \/ spent.stalls > 0
<1> DEFINE c == Confirming
<1>1. IsFiniteSet(c) /\ c # {}
  BY DEF ClaimsInv, Claims
<1>2. event.status # "DELIVERED" => Cardinality(c) <= spent.stalls
  BY DEF ClaimsInv, Claims
<1> HIDE DEF c
<1>3. Cardinality(c) \in Nat /\ Cardinality(c) # 0
  BY <1>1, FS_CardinalityType, FS_EmptySet
<1> QED
  BY <1>2, <1>3 DEF TypeOK

(* No message is deleted before the service accepted the invoice and the    *)
(* row says so, for any number of processes, messages, crashes and retries; *)
(* without the record only if a lease ran out on a process at work.         *)
THEOREM DeletionIsRecorded == Spec => []DeletedOnlyWhenRecorded
<1>1. Init => AcceptedFirst /\ DeletedOnlyWhenRecorded
  BY DEF Init, IdleWorker, AcceptedFirst, DeletedOnlyWhenRecorded
<1>2. ASSUME PipelineInv, ClaimsInv, AcceptedFirst, DeletedOnlyWhenRecorded, [Next]_vars
      PROVE  AcceptedFirst' /\ DeletedOnlyWhenRecorded'
  <2>0. TypeOK
    BY <1>2 DEF PipelineInv
  <2>1. AcceptedFirst'
    BY <1>2, StepAcceptedFirst
  <2>2. SUFFICES ASSUME NEW m \in Messages, queue'[m].state = "DELETED"
                 PROVE  accepted' > 0 /\ (event'.status = "DELIVERED" \/ spent'.stalls > 0)
    BY <2>1 DEF DeletedOnlyWhenRecorded
  <2>3. accepted > 0 /\ (event.status = "DELIVERED" \/ spent.stalls > 0)
    <3>1. CASE queue[m].state = "DELETED"
      BY <1>2, <3>1 DEF DeletedOnlyWhenRecorded
    <3>2. CASE queue[m].state # "DELETED"
      <4>1. event.status = "DELIVERED" \/ Confirming # {}
        BY <1>2, <2>0, <2>2, <3>2, NewlyDeleted
      <4>2. accepted > 0
        BY <1>2, <4>1 DEF AcceptedFirst, Confirming
      <4> QED
        BY <1>2, <2>0, <4>1, <4>2, ConfirmedIsRecorded
    <3> QED
      BY <3>1, <3>2
  <2> QED
    BY <1>2, <2>0, <2>3, RecordsStay
<1> QED
  BY <1>1, <1>2, PipelineInvariance, ClaimsInvariance, PTL DEF Spec
=============================================================================
