------------------------- MODULE MCPostingSessions -------------------------
(* Instances of PostingSessions for TLC.                                    *)
EXTENDS PostingSessions, TLC

(* One invoice of each period.                                              *)
OwnPeriod == [i \in Invoices |-> i]
=============================================================================
