-------------------------- MODULE DeliveryPromise --------------------------
(***************************************************************************)
(* What the delivery of an approved invoice promises, with the outbox row  *)
(* seen as InvoiceLedger sees it: it leaves QUEUED once, for good, together *)
(* with sent_at of the invoice, and only after the delivery service took   *)
(* the invoice.  DeliveryPipeline implements this with a queue, leases and  *)
(* processes that crash.                                                   *)
(***************************************************************************)
EXTENDS Naturals

VARIABLES
  outbox,    \* "QUEUED" or "DELIVERED"
  sent,      \* sent_at of the invoice is set
  accepted   \* how often the delivery service sent the invoice out

vars == <<outbox, sent, accepted>>

Init == outbox = "QUEUED" /\ sent = FALSE /\ accepted = 0

Accept == accepted' = accepted + 1 /\ UNCHANGED <<outbox, sent>>

Confirm ==
  /\ outbox = "QUEUED"
  /\ accepted > 0
  /\ outbox' = "DELIVERED"
  /\ sent' = TRUE
  /\ UNCHANGED accepted

Next == Accept \/ Confirm

Spec == Init /\ [][Next]_vars
=============================================================================
