------------------------------ MODULE ChatRun ------------------------------
(***************************************************************************)
(* One question asked over indexed sources: query_chat (api/chat.py), the  *)
(* agent loop with its budget (harness/agent_loop.py, budget.py), the tool *)
(* dispatch with its threads (harness/tools.py), and the request's single  *)
(* database transaction (api/dependencies.py).                             *)
(*                                                                         *)
(* Everything the request writes is pending until the commit that follows  *)
(* the handler, and is dropped by any exception; the event is handed to    *)
(* the Kafka producer before.  A tool handler that timed out keeps running *)
(* in its thread, on the session the request goes on using: from then on   *)
(* any database call of the request may raise.                             *)
(*                                                                         *)
(* The three providers behave alike: the first answer plans the retrieval  *)
(* locally, the second is about what the retrieval found.  Only Google's   *)
(* model brings an embedding API: passages and question are sent to it     *)
(* before the evidence gate (research/workflow.py, retrieval/vector.py).   *)
(***************************************************************************)
EXTENDS Naturals, FiniteSets

CONSTANTS
    Evidence,       \* evidence items the retrieval may return
    None,           \* no response, no row, no event
    CallTokens,     \* tokens one model call may use
    MaxTokens,      \* Budget.max_tokens of the request
    Limits,         \* max_iterations a loop may be made with
    MaxAttempts,    \* ARGUS_TOOL_MAX_ATTEMPTS
    MaxFaults       \* bound: exceptions and crashes

ASSUME ChatRunAssumption ==
    /\ CallTokens \subseteq Nat
    /\ MaxTokens \in Nat
    /\ Limits \subseteq Nat \ {0}
    /\ MaxAttempts \in Nat \ {0}
    /\ MaxFaults \in Nat

VARIABLES
    provider,       \* deployment of the selected model
    limit,          \* max_iterations of the loop
    semantic,       \* whether a Google model was chosen: GeminiEmbeddingProvider
    pc,             \* where the request is
    iteration,      \* iterations of the loop started
    response,       \* the model's last response
    used,           \* Budget.used_tokens, and the loop's total_tokens
    searched,       \* whether a tool call has succeeded
    found,          \* the evidence it returned
    attempt,        \* attempt of the tool call being made
    stale,          \* attempts whose handler timed out and still runs
    run,            \* pending agent_runs row (with its evidence links)
    calls,          \* pending model_calls: their number, tokens and cloud calls
    event,          \* the event handed to the producer
    stored,         \* the run in the database
    ledger,         \* cloud calls in the database's api_usage_ledger
    paid,           \* history: calls the cloud's answer model answered
    sent,           \* history: what the provider was sent, embeddings included
    faults          \* bound: disturbances so far

vars == <<provider, limit, semantic, pc, iteration, response, used, searched, found, attempt,
          stale, run, calls, event, stored, ledger, paid, sent, faults>>

request == <<provider, limit, semantic>>
loop == <<iteration, response, used, attempt, calls>>
retrieval == <<searched, found>>
database == <<stored, ledger>>
outside == <<paid, sent>>

Deployments == {"local", "cloud"}
Texts == {"passages", "query", "answer"}      \* two to embed, one to answer
Kinds == {"plan", "grounded", "refusal", "failure"}
Statuses == {"running", "complete", "failed", "budget_exceeded", "routing_failed"}
Errors == {"none", "routing", "budget", "provider", "tool", "max_iterations"}

Responses == [kind : Kinds, where : Deployments, tokens : CallTokens \cup {0}]
Runs == [status : Statuses, error : Errors, tokens : Nat, accepted : SUBSET Evidence]
Calls == [count : Nat, tokens : Nat, cloud : Nat]
NoCalls == [count |-> 0, tokens |-> 0, cloud |-> 0]

\* The events query_chat publishes, of which the payload says this much.
Events == [type : {"completed", "failed"}, tokens : Nat, generated : BOOLEAN]

ASSUME NoneAssumption == None \notin Responses \cup Runs \cup Events

Init ==
    /\ provider \in Deployments
    /\ limit \in Limits
    /\ semantic \in BOOLEAN /\ (semantic => provider = "cloud")
    /\ pc = "start"
    /\ iteration = 0
    /\ response = None
    /\ used = 0
    /\ searched = FALSE
    /\ found = {}
    /\ attempt = 0
    /\ stale = {}
    /\ run = None
    /\ calls = NoCalls
    /\ event = None
    /\ stored = None
    /\ ledger = 0
    /\ paid = 0
    /\ sent = {}
    /\ faults = 0

Disturb == faults < MaxFaults /\ faults' = faults + 1

\* update_run, the last thing the loop does.
CloseRun(status, error, accepted) ==
    /\ run' = [status |-> status, error |-> error, tokens |-> used', accepted |-> accepted]
    /\ pc' = "publish"

-----------------------------------------------------------------------------
(* The embeddings, made for every question before it is routed              *)

\* A text may be embedded by Google; the hash embedding of all others is made here.
MayEmbed(text) == sent' = sent \/ (semantic /\ sent' = sent \cup {text})

\* _ensure_document_embeddings: passages that have a vector already are not sent again.
EmbedPassages ==
    /\ pc = "start"
    /\ MayEmbed("passages")
    /\ pc' = "route"
    /\ UNCHANGED <<request, loop, retrieval, stale, run, event, database, paid, faults>>

\* A quota or a failure of the embedding API: 429 or 502, and no run.
EmbeddingFails ==
    /\ pc = "start" /\ semantic
    /\ MayEmbed("passages")
    /\ pc' = "done"
    /\ UNCHANGED <<request, loop, retrieval, stale, run, event, database, paid, faults>>

-----------------------------------------------------------------------------
(* The loop                                                                 *)

\* No model may be used for this question: a run says so.  The embeddings are
\* Google's only where its model may be used too.
RouteFails ==
    /\ pc = "route" /\ ~semantic
    /\ run' = [status |-> "routing_failed", error |-> "routing", tokens |-> 0,
               accepted |-> {}]
    /\ pc' = "publish"
    /\ UNCHANGED <<request, loop, retrieval, stale, event, database, outside, faults>>

StartRun ==
    /\ pc = "route"
    /\ run' = [status |-> "running", error |-> "none", tokens |-> 0, accepted |-> {}]
    /\ iteration' = 1
    /\ pc' = "generate"
    /\ UNCHANGED <<request, response, used, attempt, calls, retrieval, stale, event,
                   database, outside, faults>>

\* What a provider may answer: a plan; then, from what was found, an answer, a
\* refusal, or a failure.  Nothing found, or nothing the evidence gate lets
\* through, is refused without asking the cloud.
Possible ==
    IF ~searched
    THEN {r \in Responses : r.kind = "plan" /\ r.where = "local" /\ r.tokens \in CallTokens}
    ELSE {r \in Responses : r.kind = "refusal" /\ r.where = "local" /\ r.tokens \in CallTokens}
         \cup {r \in Responses : /\ found # {}
                                 /\ r.kind \in {"grounded", "refusal"}
                                 /\ r.where = provider
                                 /\ r.tokens \in CallTokens}
         \cup {r \in Responses : /\ found # {} /\ provider = "cloud"
                                 /\ r.kind = "failure" /\ r.where = "cloud"
                                 /\ r.tokens = 0}

Answered(r) == r.where = "cloud" /\ r.kind # "failure"

Generate ==
    /\ pc = "generate"
    /\ response' \in Possible
    /\ paid' = IF Answered(response') THEN paid + 1 ELSE paid
    /\ sent' = IF response'.where = "cloud" THEN sent \cup {"answer"} ELSE sent
    /\ pc' = "generated"
    /\ UNCHANGED <<request, iteration, used, attempt, calls, retrieval, stale, run, event,
                   database, faults>>

\* The answer arrived, but it cannot be read: the exception ends the request.
UnreadableAnswer ==
    /\ pc = "generate"
    /\ found # {}
    /\ provider = "cloud"
    /\ Disturb
    /\ paid' = paid + 1
    /\ sent' = sent \cup {"answer"}
    /\ pc' = "done"
    /\ UNCHANGED <<request, loop, retrieval, stale, run, event, database>>

\* record_model_call comes before Budget.charge: a call is recorded either way,
\* and enters the usage ledger unless it was local.
Record ==
    calls' = [count |-> calls.count + 1,
              tokens |-> calls.tokens + response.tokens,
              cloud |-> calls.cloud + (IF response.where = "cloud" THEN 1 ELSE 0)]

\* Mutant: the budget is looked at before the call is added.
AffordableLater == used <= MaxTokens
Affordable == used + response.tokens <= MaxTokens

\* BudgetExceeded: the call that was one too many is in no total.
BudgetStops ==
    /\ pc = "generated"
    /\ ~Affordable
    /\ Record
    /\ used' = used
    /\ CloseRun("budget_exceeded", "budget", run.accepted)
    /\ UNCHANGED <<request, iteration, response, attempt, retrieval, stale, event,
                   database, outside, faults>>

Charge == used' = used + response.tokens

ProviderFails ==
    /\ pc = "generated"
    /\ Affordable
    /\ response.kind = "failure"
    /\ Record
    /\ Charge
    /\ CloseRun("failed", "provider", run.accepted)
    /\ UNCHANGED <<request, iteration, response, attempt, retrieval, stale, event,
                   database, outside, faults>>

CallTool ==
    /\ pc = "generated"
    /\ Affordable
    /\ response.kind = "plan"
    /\ Record
    /\ Charge
    /\ attempt' = 1
    /\ pc' = "await"
    /\ UNCHANGED <<request, iteration, response, retrieval, stale, run, event, database,
                   outside, faults>>

\* Mutant: the links of the retrieval stay accepted whatever the answer says.
AcceptedAnyway == found
\* mark_answer_evidence: a refusal accepts nothing.
Accepted == IF response.kind = "refusal" THEN {} ELSE found

Complete ==
    /\ pc = "generated"
    /\ Affordable
    /\ response.kind \in {"grounded", "refusal"}
    /\ Record
    /\ Charge
    /\ CloseRun("complete", "none", Accepted)
    /\ UNCHANGED <<request, iteration, response, attempt, retrieval, stale, event,
                   database, outside, faults>>

-----------------------------------------------------------------------------
(* The tool: every attempt runs its handler in a thread of its own.         *)

\* The tool call is recorded with its error, and the run with it.
ToolFails ==
    /\ CloseRun("failed", "tool", run.accepted)
    /\ UNCHANGED <<iteration, attempt>>

\* Mutant: one attempt too many.
RetryOnceMore ==
    \/ /\ attempt <= MaxAttempts
       /\ attempt' = attempt + 1
       /\ UNCHANGED <<pc, iteration, run>>
    \/ attempt > MaxAttempts /\ ToolFails

\* Mutant: a timed-out attempt does not count, and the call is made again for ever.
RetryForever == UNCHANGED <<pc, iteration, run, attempt>>

\* The same call once more, until its attempts are used up.
Retry ==
    \/ /\ attempt < MaxAttempts
       /\ attempt' = attempt + 1
       /\ UNCHANGED <<pc, iteration, run>>
    \/ attempt = MaxAttempts /\ ToolFails

\* The handler returned rows: their links start as accepted.  The loop goes on,
\* or has run out of iterations.  A semantic search has embedded the question.
HandlerReturns ==
    /\ pc = "await"
    /\ used' = used
    /\ searched' = TRUE
    /\ found' \in SUBSET Evidence
    /\ \/ /\ iteration < limit
          /\ iteration' = iteration + 1
          /\ run' = [run EXCEPT !.accepted = found']
          /\ pc' = "generate"
       \/ /\ iteration = limit
          /\ iteration' = iteration
          /\ CloseRun("failed", "max_iterations", found')
    /\ sent' = IF semantic THEN sent \cup {"query"} ELSE sent
    /\ UNCHANGED <<request, response, attempt, calls, stale, event, database, paid, faults>>

\* The handler refused its arguments: not retryable.
HandlerRefuses ==
    /\ pc = "await"
    /\ used' = used
    /\ ToolFails
    /\ MayEmbed("query")
    /\ UNCHANGED <<request, response, calls, retrieval, stale, event, database, paid, faults>>

HandlerRaises ==
    /\ pc = "await"
    /\ used' = used
    /\ Retry
    /\ MayEmbed("query")
    /\ UNCHANGED <<request, response, calls, retrieval, stale, event, database, paid, faults>>

\* future.result timed out: the thread is not stopped.
HandlerTimesOut ==
    /\ pc = "await"
    /\ used' = used
    /\ stale' = stale \cup {attempt}
    /\ Retry
    /\ MayEmbed("query")
    /\ UNCHANGED <<request, response, calls, retrieval, event, database, paid, faults>>

StaleHandlerEnds(a) ==
    /\ stale' = stale \ {a}
    /\ MayEmbed("query")
    /\ UNCHANGED <<request, pc, loop, retrieval, run, event, database, paid, faults>>

-----------------------------------------------------------------------------
(* The rest of query_chat                                                   *)

\* The sources of the loop's result, which only a finished run has.
Sources == IF run.status = "complete" THEN run.accepted ELSE {}

\* Mutant: the model selected counts as called.
OutcomeBySelection ==
    LET cloudCalled == provider = "cloud" /\ run.status # "routing_failed"
    IN  IF run.status = "failed" THEN "cloud_provider_failed"
        ELSE IF cloudCalled /\ Sources # {} THEN "cloud_completed"
        ELSE IF cloudCalled THEN "cloud_declined_unsupported"
        ELSE "local_completed"

\* execution_outcome, what the user is told of the run.
Outcome ==
    LET cloudRequested == provider = "cloud" /\ run.status # "routing_failed"
        cloudCalled == calls.cloud > 0
    IN  IF run.status = "failed" THEN "cloud_provider_failed"
        ELSE IF cloudCalled /\ Sources # {} THEN "cloud_completed"
        ELSE IF cloudCalled THEN "cloud_declined_unsupported"
        ELSE IF cloudRequested /\ Sources = {} THEN "cloud_skipped_no_evidence"
        ELSE "local_completed"

AnswerGenerated == Sources # {} /\ Outcome \in {"cloud_completed", "local_completed"}

\* Mutant: a run that was stopped is announced as completed.
AnnouncementOfAll ==
    IF run.error # "provider"
    THEN [type |-> "completed", tokens |-> run.tokens, generated |-> AnswerGenerated]
    ELSE [type |-> "failed", tokens |-> run.tokens, generated |-> FALSE]

\* A completed run and a failure of the answer model are announced, any other
\* end is not.
Announcement ==
    IF run.status = "complete"
    THEN [type |-> "completed", tokens |-> run.tokens, generated |-> AnswerGenerated]
    ELSE IF run.error = "provider"
    THEN [type |-> "failed", tokens |-> run.tokens, generated |-> FALSE]
    ELSE None

\* The row gets its metadata (its status and totals are written back as they
\* were) and the event goes to the producer.
Publish ==
    /\ pc = "publish"
    /\ event' = Announcement
    /\ pc' = "commit"
    /\ UNCHANGED <<request, loop, retrieval, stale, run, database, outside, faults>>

\* The producer refuses the event: that is swallowed for a failed run only.
PublishRefused ==
    /\ pc = "publish"
    /\ Announcement # None
    /\ Disturb
    /\ pc' = IF run.status = "complete" THEN "done" ELSE "commit"
    /\ UNCHANGED <<request, loop, retrieval, stale, run, event, database, outside>>

\* The claims are recorded, the handler returns, and get_db_session commits.
Commit ==
    /\ pc = "commit"
    /\ stored' = run
    /\ ledger' = ledger + calls.cloud
    /\ pc' = "done"
    /\ UNCHANGED <<request, loop, retrieval, stale, run, event, outside, faults>>

\* Mutant: the session is committed whatever happens.
RaisesAndCommits ==
    /\ pc # "done"
    /\ Disturb \/ (stale # {} /\ faults' = faults)
    /\ stored' = run
    /\ ledger' = ledger + calls.cloud
    /\ pc' = "done"
    /\ UNCHANGED <<request, loop, retrieval, stale, run, event, outside>>

\* An exception reaches get_db_session, which rolls back: a failure of the
\* database or of the embedding provider, or the clash of two threads on the
\* session.
RequestRaises ==
    /\ pc # "done"
    /\ Disturb \/ (stale # {} /\ faults' = faults)
    /\ pc' = "done"
    /\ UNCHANGED <<request, loop, retrieval, stale, run, event, database, outside>>

\* The API process is gone, with every thread and the open transaction.
Crash ==
    /\ pc # "done"
    /\ Disturb
    /\ pc' = "done"
    /\ stale' = {}
    /\ UNCHANGED <<request, loop, retrieval, run, event, database, outside>>

\* ResearchHistoryRepository._purge: a document the run used was deleted.
Purge ==
    /\ stored # None
    /\ stored' = None
    /\ UNCHANGED <<request, pc, loop, retrieval, stale, run, event, ledger, outside, faults>>

Next ==
    \/ EmbedPassages \/ EmbeddingFails
    \/ RouteFails \/ StartRun
    \/ Generate \/ UnreadableAnswer
    \/ BudgetStops \/ ProviderFails \/ CallTool \/ Complete
    \/ HandlerReturns \/ HandlerRefuses \/ HandlerRaises \/ HandlerTimesOut
    \/ \E a \in stale : StaleHandlerEnds(a)
    \/ Publish \/ PublishRefused \/ Commit
    \/ RequestRaises \/ Crash \/ Purge

Spec == Init /\ [][Next]_vars

\* The request's own thread runs, providers answer or fail, and the timer of a
\* tool call fires.  No handler has to end.
Fairness ==
    /\ WF_vars(EmbedPassages \/ EmbeddingFails)
    /\ WF_vars(RouteFails \/ StartRun)
    /\ WF_vars(Generate)
    /\ WF_vars(BudgetStops \/ ProviderFails \/ CallTool \/ Complete)
    /\ WF_vars(HandlerTimesOut)
    /\ WF_vars(Publish)
    /\ WF_vars(Commit)

FairSpec == Spec /\ Fairness

-----------------------------------------------------------------------------
TypeOK ==
    /\ provider \in Deployments
    /\ limit \in Limits
    /\ semantic \in BOOLEAN
    /\ pc \in {"start", "route", "generate", "generated", "await", "publish", "commit", "done"}
    /\ iteration \in 0 .. limit
    /\ response \in Responses \cup {None}
    /\ used \in Nat
    /\ searched \in BOOLEAN
    /\ found \subseteq Evidence
    /\ attempt \in 0 .. MaxAttempts
    /\ stale \subseteq 1 .. MaxAttempts
    /\ run \in Runs \cup {None}
    /\ calls \in Calls
    /\ event \in Events \cup {None}
    /\ stored \in Runs \cup {None}
    /\ ledger \in Nat
    /\ paid \in Nat
    /\ sent \subseteq Texts
    /\ faults \in Nat

\* The budget is never overspent, and what a finished run reports is what was
\* charged: of all the calls it recorded, only one that broke the budget, the
\* last, is in no total.
OnlyLastCallOverruns ==
    /\ used <= MaxTokens
    /\ pc \in {"publish", "commit"} =>
        /\ run.tokens = used
        /\ calls.tokens = used + (IF run.error = "budget" THEN response.tokens ELSE 0)

\* What the user is told of the answer model is true of every run that did not fail: the
\* outcomes that speak of a billed call are given when it was paid, and those that deny it
\* when it was sent nothing to answer.  Then nothing at all has left the machine, unless a
\* Google model was chosen: its embedding API got passages and question before the evidence
\* gate, and "no question or excerpt was sent to the provider and no provider API cost was
\* incurred" is said all the same.
CostIsToldRightly ==
    pc \in {"publish", "commit"} /\ Outcome # "cloud_provider_failed" =>
        IF Outcome \in {"cloud_completed", "cloud_declined_unsupported"}
        THEN paid > 0 /\ "answer" \in sent
        ELSE paid = 0 /\ sent \subseteq (IF semantic THEN {"passages", "query"} ELSE {})

\* A run in the database has ended, and its evidence is accepted exactly when
\* an answer was given.
StoredRunIsTruthful ==
    stored # None =>
        /\ stored.status # "running"
        /\ stored.tokens <= MaxTokens
        /\ stored.status = "complete" => (stored.accepted = {} <=> Sources = {})
        /\ stored.status = "complete" =>
            stored.accepted = IF response.kind = "grounded" THEN found ELSE {}

\* A run in the database and its event tell the same story: a completed event
\* for a completed run and no other, with its tokens and its answer.
EventMatchesStoredRun ==
    stored # None =>
        /\ stored.status = "complete" => event # None
        /\ event # None =>
            /\ event.type = "completed" <=> stored.status = "complete"
            /\ event.type = "failed" => stored.error = "provider"
            /\ event.tokens = stored.tokens
            /\ event.generated <=> stored.status = "complete" /\ stored.accepted # {}

\* The request ends, even if no tool handler ever does.
RequestEnds == (pc = "start") ~> (pc = "done")

\* What the documentation says of the usage ledger (CURRENT_LIMITATIONS.md):
\* cloud model calls are written to it.
PaidCallsAreLedgered == pc = "done" => ledger >= paid

-----------------------------------------------------------------------------
(* What the request promises: BilledRun.                                    *)

Summary(r) == [complete |-> r.status = "complete", totals |-> r.tokens]

Billed == INSTANCE BilledRun WITH
    Early <- {"completed", "failed"},
    open <- pc # "done",
    ended <- IF run = None \/ run.status = "running" THEN {} ELSE {Summary(run)},
    billed <- paid,
    events <- IF event = None THEN {} ELSE {[type |-> event.type, totals |-> event.tokens]},
    stored <- IF stored = None THEN {} ELSE {Summary(stored)}

\* The run and its ledger rows are committed together, once, when the run has ended, and
\* its one event tells of it; a request that is cut short leaves neither.
PromisesOfBilledRun == Billed!Spec

\* Two consequences.  Every cloud call of a run in the database is in the usage ledger: refusals,
\* failures and the call that broke the budget as well.
StoredRunIsBilled == stored # None => ledger >= paid

\* Deleting a run takes nothing from the usage ledger.
LedgerOnlyGrows == [][ledger' >= ledger]_vars

-----------------------------------------------------------------------------
(* The inductive invariant the proofs use.                                  *)

\* While the loop runs, nothing has been announced, everything recorded was
\* charged, and the cloud has been asked at most for the response in hand.
LoopInv ==
    /\ pc \in {"start", "route", "generate", "generated", "await"} =>
        event = None /\ calls.cloud = 0 /\ calls.tokens = used
    /\ pc \in {"start", "route", "generate", "await"} => paid = 0
    /\ pc = "await" => attempt >= 1
    /\ pc \in {"start", "route"} => used = 0
    /\ pc \in {"generate", "generated", "await"} => run \in Runs
    /\ pc = "generated" =>
        /\ response \in Responses
        /\ paid = IF Answered(response) THEN 1 ELSE 0
        /\ response.kind = "plan" => response.where = "local"
        /\ response.kind = "grounded" => found # {}
        /\ response.kind = "failure" => response.tokens = 0

\* Only Google's embeddings leave the machine before the answer is asked for, and a call
\* that was asked of the cloud is recorded as a cloud call.
SentInv ==
    /\ ~semantic => sent \subseteq {"answer"}
    /\ pc \in {"start", "route", "generate", "await"} => "answer" \notin sent
    /\ pc = "generated" => ("answer" \in sent <=> response.where = "cloud")
    /\ pc \in {"publish", "commit"} => ("answer" \in sent <=> calls.cloud > 0)

\* What a run that has ended says of its error, its calls and its evidence.
EndInv ==
    pc \in {"publish", "commit"} =>
        /\ run \in Runs
        /\ run.status # "running"
        /\ run.status = "complete" <=> run.error = "none"
        /\ run.error \in {"provider", "tool", "max_iterations"} => run.status = "failed"
        /\ paid <= calls.cloud
        /\ run.status # "failed" => (paid > 0 <=> calls.cloud > 0)
        /\ run.status = "complete" =>
            /\ response \in Responses
            /\ response.kind \in {"grounded", "refusal"}
            /\ response.kind = "grounded" => found # {}
            /\ run.accepted = Accepted

\* The event of a run that is about to be committed.
AnnouncedInv ==
    /\ pc = "publish" => event = None
    /\ pc = "commit" => event = Announcement \/ (event = None /\ run.status # "complete")

\* Nothing is in the database before the commit, and what is there is the run.
StoredInv ==
    /\ pc # "done" => stored = None /\ ledger = 0
    /\ stored # None => stored = run

IInv ==
    /\ TypeOK /\ LoopInv /\ SentInv /\ EndInv /\ AnnouncedInv /\ StoredInv
    /\ OnlyLastCallOverruns /\ StoredRunIsTruthful /\ EventMatchesStoredRun
    /\ StoredRunIsBilled
=============================================================================
