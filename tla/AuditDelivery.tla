--------------------------- MODULE AuditDelivery ---------------------------
(***************************************************************************)
(* What the audit pipeline promises about delivery, and all that the rest  *)
(* of the system may rely on: at-least-once outcomes with a committed      *)
(* position that never moves backwards and never passes a message nobody   *)
(* looked at.  A message may get its outcome more than once, and may be    *)
(* given up on, but neither is ever forgotten.  EventAudit implements this *)
(* specification under the mapping of EventAuditRefinement.                *)
(***************************************************************************)
EXTENDS Integers

CONSTANT Partitions

VARIABLES
    published,      \* number of messages published, per partition
    outcome,        \* offsets audited or isolated, per partition
    givenUp,        \* offsets given up on, per partition
    committed       \* next offset to read after a restart, per partition

vars == <<published, outcome, givenUp, committed>>

Init ==
    /\ published = [p \in Partitions |-> 0]
    /\ outcome = [p \in Partitions |-> {}]
    /\ givenUp = [p \in Partitions |-> {}]
    /\ committed = [p \in Partitions |-> 0]

Publish(p) ==
    /\ published' = [published EXCEPT ![p] = @ + 1]
    /\ UNCHANGED <<outcome, givenUp, committed>>

Settle(p, o) ==
    /\ outcome' = [outcome EXCEPT ![p] = @ \cup {o}]
    /\ UNCHANGED <<published, givenUp, committed>>

GiveUp(p, o) ==
    /\ givenUp' = [givenUp EXCEPT ![p] = @ \cup {o}]
    /\ UNCHANGED <<published, outcome, committed>>

\* The position moves forward, over messages that were all dealt with.
Commit(p, n) ==
    /\ n >= committed[p]
    /\ n <= published[p]
    /\ 0 .. n - 1 \subseteq outcome[p] \cup givenUp[p]
    /\ committed' = [committed EXCEPT ![p] = n]
    /\ UNCHANGED <<published, outcome, givenUp>>

Next ==
    \E p \in Partitions :
        \/ Publish(p)
        \/ \E o \in 0 .. published[p] - 1 : Settle(p, o) \/ GiveUp(p, o)
        \/ \E n \in 1 .. published[p] : Commit(p, n)

Spec == Init /\ [][Next]_vars
=============================================================================
