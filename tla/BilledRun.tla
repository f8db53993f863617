----------------------------- MODULE BilledRun -----------------------------
(***************************************************************************)
(* What a research request promises about its run, its event and the usage *)
(* ledger, and all that history, audit and billing may rely on, whichever  *)
(* way the question is answered.  ChatRun (indexed sources) and WebRun     *)
(* (web and hybrid) implement this specification.                          *)
(*                                                                         *)
(* The run and the ledger rows of its calls appear together, once, when    *)
(* the run has ended, or never; no call is made for a run that has ended;  *)
(* there is at most one event, and it tells of that run; a completed run   *)
(* is never stored unannounced.                                            *)
(***************************************************************************)
EXTENDS Naturals

CONSTANT Early      \* the events that come before the commit, the others after it

VARIABLES
    open,           \* whether the request is under way
    ended,          \* how the run ended, once it has: whether complete, and its totals
    billed,         \* calls to the paid model
    events,         \* what was announced
    stored,         \* the run in the database, if it is there
    ledger          \* ledger rows in the database

vars == <<open, ended, billed, events, stored, ledger>>

Init ==
    /\ open = TRUE
    /\ ended = {}
    /\ billed = 0
    /\ events = {}
    /\ stored = {}
    /\ ledger = 0

\* Calls are made while the run goes on, the last of them as it ends.
CallAtMost == billed' = billed \/ (ended = {} /\ billed' = billed + 1)

Call ==
    /\ open
    /\ CallAtMost
    /\ UNCHANGED <<open, ended, events, stored, ledger>>

End ==
    /\ open /\ ended = {}
    /\ CallAtMost
    /\ \E run \in ended' : ended' = {run}
    /\ UNCHANGED <<open, events, stored, ledger>>

EventOf(run) == [type |-> IF run.complete THEN "completed" ELSE "failed", totals |-> run.totals]

\* The event, on its side of the commit.  It may be the last thing that is done.
Announce ==
    /\ open /\ events = {}
    /\ \E run \in ended :
        /\ events' = {EventOf(run)}
        /\ stored = IF EventOf(run).type \in Early THEN {} ELSE {run}
    /\ open' \in BOOLEAN
    /\ UNCHANGED <<ended, billed, stored, ledger>>

\* The commit: no call is missing from the ledger, and no completed run has no event.
Store ==
    /\ open /\ stored = {} /\ ledger = 0
    /\ \E run \in ended : run.complete => events # {}
    /\ stored' = ended
    /\ ledger' >= billed
    /\ open' \in BOOLEAN
    /\ UNCHANGED <<ended, billed, events>>

\* The reply, or whatever cuts the request short, in the middle of a call as well.
Stop ==
    /\ open /\ open' = FALSE
    /\ CallAtMost
    /\ UNCHANGED <<ended, events, stored, ledger>>

\* The run goes with a document it used; its ledger rows stay.
Purge ==
    /\ ~open
    /\ stored' = {}
    /\ UNCHANGED <<open, ended, billed, events, ledger>>

Next == Call \/ End \/ Announce \/ Store \/ Stop \/ Purge

Spec == Init /\ [][Next]_vars
=============================================================================
