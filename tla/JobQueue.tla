----------------------------- MODULE JobQueue -----------------------------
(***************************************************************************)
(* Background jobs: the API's create_job (api/jobs.py), the Redis list and *)
(* status hashes (cloud/jobs.py), and the worker processes (worker.py).    *)
(*                                                                         *)
(* Every call to Redis is a step of its own: enqueue is LPUSH, HSET, then  *)
(* EXPIRE; set_status is HSET, then EXPIRE.  A worker looks at SIGTERM     *)
(* between two jobs only, may be killed anywhere, and dies of any          *)
(* exception that Redis raises, since only _process is inside its try.     *)
(***************************************************************************)
EXTENDS Naturals, Sequences, FiniteSets

CONSTANTS
    Jobs,           \* job ids, one per create_job request
    Workers,        \* worker processes
    None,           \* no job in hand
    MaxFaults       \* bound: Redis errors, crashes and stops

ASSUME JobQueueAssumption == None \notin Jobs /\ MaxFaults \in Nat

VARIABLES
    queue,          \* Redis list "argus:jobs", its left end first
    status,         \* Redis hash argus:job:<id>, field "status"
    ttl,            \* whether that key has an expiry
    api,            \* where each create_job request is
    wpc,            \* where each worker is in its loop
    wjob,           \* the job it holds
    outcome,        \* how _process ended, per job; "none" before that
    lost,           \* history: jobs a failure took from a worker
    faults          \* bound: failures so far

vars == <<queue, status, ttl, api, wpc, wjob, outcome, lost, faults>>

workers == <<wpc, wjob, outcome, lost>>
redis == <<queue, status, ttl>>

Statuses == {"absent", "queued", "running", "complete", "failed"}

Init ==
    /\ queue = <<>>
    /\ status = [j \in Jobs |-> "absent"]
    /\ ttl = [j \in Jobs |-> FALSE]
    /\ api = [j \in Jobs |-> "new"]
    /\ wpc = [w \in Workers |-> "waiting"]
    /\ wjob = [w \in Workers |-> None]
    /\ outcome = [j \in Jobs |-> "none"]
    /\ lost = {}
    /\ faults = 0

Disturb == faults < MaxFaults /\ faults' = faults + 1

\* The HSET of set_status: it leaves the expiry of an existing key alone.
HSet(j, s) ==
    /\ status' = [status EXCEPT ![j] = s]
    /\ ttl' = ttl

Expiring(j) == ttl' = [ttl EXCEPT ![j] = status[j] # "absent"] /\ UNCHANGED status

-----------------------------------------------------------------------------
(* create_job                                                               *)

\* Mutant: the list is trimmed to one job.
PushTrimming(j) ==
    /\ api[j] = "new"
    /\ queue' = <<j>>
    /\ api' = [api EXCEPT ![j] = "pushed"]
    /\ UNCHANGED <<status, ttl, workers, faults>>

\* LPUSH: from here on a worker can take the job.
Push(j) ==
    /\ api[j] = "new"
    /\ queue' = <<j>> \o queue
    /\ api' = [api EXCEPT ![j] = "pushed"]
    /\ UNCHANGED <<status, ttl, workers, faults>>

\* set_status(QUEUED), and the answer 202.
StoreQueued(j) ==
    /\ api[j] = "pushed"
    /\ HSet(j, "queued")
    /\ api' = [api EXCEPT ![j] = "stored"]
    /\ UNCHANGED <<queue, workers, faults>>

Accept(j) ==
    /\ api[j] = "stored"
    /\ Expiring(j)
    /\ api' = [api EXCEPT ![j] = "accepted"]
    /\ UNCHANGED <<queue, workers, faults>>

\* Redis raises, or the API process is gone: the client gets no job id.  What
\* was asked of Redis may have been done all the same.
CreateFails(j) ==
    /\ api[j] \in {"new", "pushed", "stored"}
    /\ Disturb
    /\ api' = [api EXCEPT ![j] = "error"]
    /\ \/ UNCHANGED <<status, ttl>>
       \/ api[j] = "stored" /\ Expiring(j)
    /\ UNCHANGED <<queue, workers>>

-----------------------------------------------------------------------------
(* The worker                                                               *)

\* BRPOP hands the oldest job to one worker and forgets it.
Dequeue(w) ==
    /\ wpc[w] = "waiting"
    /\ queue # <<>>
    /\ queue' = SubSeq(queue, 1, Len(queue) - 1)
    /\ wjob' = [wjob EXCEPT ![w] = queue[Len(queue)]]
    /\ wpc' = [wpc EXCEPT ![w] = "popped"]
    /\ UNCHANGED <<status, ttl, api, outcome, lost, faults>>

\* BRPOP popped, but its answer timed out or the connection broke: dequeue
\* returns None, or raises and ends the worker.
DequeueAnswerLost(w) ==
    /\ wpc[w] = "waiting"
    /\ queue # <<>>
    /\ Disturb
    /\ queue' = SubSeq(queue, 1, Len(queue) - 1)
    /\ lost' = lost \cup {queue[Len(queue)]}
    /\ \E next \in {"waiting", "down"} : wpc' = [wpc EXCEPT ![w] = next]
    /\ UNCHANGED <<status, ttl, api, wjob, outcome>>

\* set_status(RUNNING)
MarkRunning(w) ==
    /\ wpc[w] = "popped"
    /\ HSet(wjob[w], "running")
    /\ wpc' = [wpc EXCEPT ![w] = "marked"]
    /\ UNCHANGED <<queue, api, wjob, outcome, lost, faults>>

StartProcess(w) ==
    /\ wpc[w] = "marked"
    /\ Expiring(wjob[w])
    /\ wpc' = [wpc EXCEPT ![w] = "processing"]
    /\ UNCHANGED <<queue, api, wjob, outcome, lost, faults>>

\* _process commits its transaction and returns, or raises.
Process(w) ==
    /\ wpc[w] = "processing"
    /\ \E o \in {"complete", "failed"} : outcome' = [outcome EXCEPT ![wjob[w]] = o]
    /\ wpc' = [wpc EXCEPT ![w] = "processed"]
    /\ UNCHANGED <<redis, api, wjob, lost, faults>>

\* Mutant: COMPLETE is reported whatever _process did.
RecordComplete(w) ==
    /\ wpc[w] = "processed"
    /\ HSet(wjob[w], "complete")
    /\ wpc' = [wpc EXCEPT ![w] = "recorded"]
    /\ UNCHANGED <<queue, api, wjob, outcome, lost, faults>>

\* Mutant: the status is a word the readers do not know.
RecordDone(w) ==
    /\ wpc[w] = "processed"
    /\ HSet(wjob[w], "done")
    /\ wpc' = [wpc EXCEPT ![w] = "recorded"]
    /\ UNCHANGED <<queue, api, wjob, outcome, lost, faults>>

\* set_status(COMPLETE) or set_status(FAILED), and the next iteration.
RecordOutcome(w) ==
    /\ wpc[w] = "processed"
    /\ HSet(wjob[w], outcome[wjob[w]])
    /\ wpc' = [wpc EXCEPT ![w] = "recorded"]
    /\ UNCHANGED <<queue, api, wjob, outcome, lost, faults>>

Finish(w) ==
    /\ wpc[w] = "recorded"
    /\ Expiring(wjob[w])
    /\ wpc' = [wpc EXCEPT ![w] = "waiting"]
    /\ wjob' = [wjob EXCEPT ![w] = None]
    /\ UNCHANGED <<queue, api, outcome, lost, faults>>

\* The worker is stopped, killed, or dies of an exception of Redis: the job it
\* holds is nowhere else.
WorkerDies(w) ==
    /\ wpc[w] # "down"
    /\ Disturb
    /\ wpc' = [wpc EXCEPT ![w] = "down"]
    /\ wjob' = [wjob EXCEPT ![w] = None]
    /\ lost' = lost \cup ({wjob[w]} \ {None})
    /\ UNCHANGED <<redis, api, outcome>>

\* The container is restarted.
WorkerStarts(w) ==
    /\ wpc[w] = "down"
    /\ wpc' = [wpc EXCEPT ![w] = "waiting"]
    /\ UNCHANGED <<redis, api, wjob, outcome, lost, faults>>

-----------------------------------------------------------------------------
\* Redis drops a status key 24 hours after it was last written.
ExpireKey(j) ==
    /\ ttl[j]
    /\ status' = [status EXCEPT ![j] = "absent"]
    /\ ttl' = [ttl EXCEPT ![j] = FALSE]
    /\ UNCHANGED <<queue, api, workers, faults>>

Next ==
    \/ \E j \in Jobs : Push(j) \/ StoreQueued(j) \/ Accept(j) \/ CreateFails(j) \/ ExpireKey(j)
    \/ \E w \in Workers :
        \/ Dequeue(w) \/ DequeueAnswerLost(w) \/ MarkRunning(w) \/ StartProcess(w)
        \/ Process(w) \/ RecordOutcome(w) \/ Finish(w) \/ WorkerDies(w) \/ WorkerStarts(w)

Spec == Init /\ [][Next]_vars

\* Workers run and are restarted; a job's code ends (healthcheck, or one
\* ingestion).  No fairness of the API, of failures or of expiry.
WorkerFairness ==
    \A w \in Workers :
        /\ WF_vars(Dequeue(w)) /\ WF_vars(MarkRunning(w)) /\ WF_vars(StartProcess(w))
        /\ WF_vars(Process(w)) /\ WF_vars(RecordOutcome(w)) /\ WF_vars(Finish(w))
        /\ WF_vars(WorkerStarts(w))

FairSpec == Spec /\ WorkerFairness

-----------------------------------------------------------------------------
InQueue == {queue[i] : i \in DOMAIN queue}
InHand == {wjob[w] : w \in Workers} \ {None}

TypeOK ==
    /\ queue \in Seq(Jobs)
    /\ status \in [Jobs -> Statuses]
    /\ ttl \in [Jobs -> BOOLEAN]
    /\ api \in [Jobs -> {"new", "pushed", "stored", "accepted", "error"}]
    /\ wpc \in [Workers -> {"down", "waiting", "popped", "marked", "processing",
                            "processed", "recorded"}]
    /\ wjob \in [Workers -> Jobs \cup {None}]
    /\ outcome \in [Jobs -> {"none", "complete", "failed"}]
    /\ lost \subseteq Jobs
    /\ faults \in Nat

\* The client that was told its job is accepted is not told a lie: the job is
\* waiting, being run, finished, or was lost by a failure.
AcceptedIsTracked ==
    \A j \in Jobs : api[j] = "accepted" =>
        j \in InQueue \cup InHand \cup lost \/ outcome[j] # "none"

\* A final status is the outcome _process really had.
FinalStatusIsTrue ==
    \A j \in Jobs : status[j] \in {"complete", "failed"} => status[j] = outcome[j]

\* A submitted job is eventually run to an end or lost by a failure.
SubmittedIsSettled ==
    \A j \in Jobs : (j \in InQueue) ~> (outcome[j] # "none" \/ j \in lost)

\* What the documentation says of a job's status (INTERVIEW_QA.md): queued, then
\* running, then complete or failed; so a final status stays until it expires.
FinalStatusStays ==
    [][\A j \in Jobs : status[j] \in {"complete", "failed"} =>
          status'[j] \in {status[j], "absent"}]_vars

=============================================================================
