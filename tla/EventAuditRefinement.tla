----------------------- MODULE EventAuditRefinement -----------------------
(***************************************************************************)
(* EventAudit implements AuditDelivery: the log is seen as a counter, the  *)
(* history of outcomes as the outcomes themselves.                         *)
(***************************************************************************)
EXTENDS EventAudit

Delivery == INSTANCE AuditDelivery WITH
    published <- [p \in Partitions |-> Len(log[p])],
    outcome <- settled,
    givenUp <- abandoned

\* The consumer with its database and its broker delivers every message at
\* least once and never commits past one it did not deal with.
DeliverySpec == Delivery!Spec
=============================================================================
