------------------------------- MODULE WebRun -------------------------------
(***************************************************************************)
(* One question asked over the web, or over the web and the indexed        *)
(* sources ("hybrid"): _query_web_research (api/chat.py) with              *)
(* WebResearchWorkflow (research/web.py), the search adapter               *)
(* (search/exa.py) and the evidence gate (retrieval/evidence_gate.py).     *)
(*                                                                         *)
(* Unlike the indexed path (ChatRun), a run that fails is committed by the *)
(* handler itself, before its event and before the error reply.            *)
(*                                                                         *)
(* A passage supports the question or not: that is the set `direct`, drawn *)
(* once.  A model token costs one unit.                                    *)
(***************************************************************************)
EXTENDS Naturals, Sequences, FiniteSets, SequencesExt, Selections

CONSTANTS
    WebSources,     \* web evidence, one per evidence_key
    Chunks,         \* chunks of the indexed documents
    Items,          \* evidence items
    ItemOf,         \* the evidence item of a chunk, or None
    None,
    MaxRows,        \* rows the answer model is shown: accepted_rows[:8]
    CallLimits,     \* web_search_max_calls: one or two
    SearchCosts,    \* what a search may cost
    Tokens,         \* what an answer may use
    MaxFaults       \* bound: exceptions and crashes

ASSUME WebRunAssumption ==
    /\ ItemOf \in [Chunks -> Items \cup {None}]
    /\ WebSources \cap Chunks = {}
    /\ IsFiniteSet(WebSources) /\ IsFiniteSet(Chunks) /\ IsFiniteSet(Items)
    /\ MaxRows \in Nat \ {0}
    /\ CallLimits \subseteq {1, 2}
    /\ SearchCosts \subseteq Nat /\ Tokens \subseteq Nat
    /\ MaxFaults \in Nat

VARIABLES
    scope,          \* evidence_scope
    maxCalls,       \* max_search_calls
    direct,         \* the passages that support the question
    pc,             \* where the request is
    local,          \* local_rows
    web,            \* web_by_chunk, in the order of its keys
    round,          \* searches that were answered
    searchCost,     \* search_cost
    rows,           \* accepted_rows: what the model was shown, under which id
    run,            \* pending agent_runs row
    calls,          \* pending usage ledger rows
    event,          \* the event handed to the producer
    stored,         \* the run in the database
    ledger,         \* usage ledger rows in the database
    asked,          \* history: calls to the answer model
    spent,          \* history: what searches and answers were said to cost
    faults          \* bound: disturbances so far

vars == <<scope, maxCalls, direct, pc, local, web, round, searchCost, rows, run, calls, event,
          stored, ledger, asked, spent, faults>>

request == <<scope, maxCalls, direct>>
search == <<local, web, round, searchCost>>
answer == <<rows, calls, asked>>
database == <<stored, ledger>>

\* Some members of S in some order, none twice.
Distinct(S) == UNION {SetToSeqs(T) : T \in SUBSET S}

Init ==
    /\ scope \in {"web", "hybrid"}
    /\ maxCalls \in CallLimits
    /\ direct \in SUBSET (WebSources \cup Chunks)
    /\ pc = "start"
    /\ local = <<>> /\ web = <<>>
    /\ round = 0 /\ searchCost = 0
    /\ rows = <<>>
    /\ run = None
    /\ calls = 0
    /\ event = None
    /\ stored = None
    /\ ledger = 0
    /\ asked = 0 /\ spent = 0
    /\ faults = 0

Disturb == faults < MaxFaults /\ faults' = faults + 1

-----------------------------------------------------------------------------
(* What the gate accepts, and what is made of it                            *)

Candidates == local \o web

\* Chunks of one evidence item are one piece of evidence.
Identity(c) == IF c \in Chunks /\ ItemOf[c] # None THEN ItemOf[c] ELSE c

\* EvidenceGate.evaluate: the supporting candidates, the first of each identity.
Accepted ==
    LET supporting == {i \in DOMAIN Candidates : Candidates[i] \in direct}
    IN  Pick(Candidates, {i \in supporting : \A j \in supporting :
                             j < i => Identity(Candidates[j]) # Identity(Candidates[i])})

\* _accepted_model_rows: numbered by kind, in the order of the gate.
Kind(c) == IF c \in WebSources THEN "W" ELSE "L"
CountOfKind(k) == Cardinality({j \in 1 .. k : Kind(Accepted[j]) = Kind(Accepted[k])})
NumberedRows ==
    [k \in DOMAIN Accepted |->
        [id |-> <<Kind(Accepted[k]), CountOfKind(k)>>, source |-> Accepted[k]]]

\* Mutant: the model is shown every row.
AllRows == NumberedRows
ModelRows == SubSeq(NumberedRows, 1, IF Len(NumberedRows) < MaxRows THEN Len(NumberedRows)
                                     ELSE MaxRows)

\* Mutant: every source found is stored, the ones the gate rejected as well.
FoundWebSources == web

\* _accepted_web_sources: the run keeps them in the order of their W ids.
AcceptedWebSources == Pick(Accepted, {k \in DOMAIN Accepted : Accepted[k] \in WebSources})

\* _local_sources: the evidence items of the accepted chunks, in their order.
AcceptedItems ==
    LET items == [i \in DOMAIN local |-> ItemOf[local[i]]]
        kept == {i \in DOMAIN local : local[i] \in ToSet(Accepted) /\ items[i] # None}
    IN  Pick(items, {i \in kept : \A j \in kept : j < i => items[j] # items[i]})

-----------------------------------------------------------------------------
(* The workflow                                                             *)

EmptyRun == [status |-> "running", error |-> "none", tokens |-> 0, cost |-> 0, web |-> <<>>,
             evidence |-> <<>>, citations |-> "none", cited |-> {}, claims |-> {}, report |-> FALSE]

\* The run is created; a hybrid question retrieves from the index first.
Start ==
    /\ pc = "start"
    /\ run' = EmptyRun
    /\ local' \in IF scope = "hybrid" THEN Distinct(Chunks) ELSE {<<>>}
    /\ pc' = "search"
    /\ UNCHANGED <<request, web, round, searchCost, answer, event, database, spent, faults>>

\* _append_web_candidates: a source found twice is one.
SearchAnswered(results, cost) ==
    /\ pc = "search"
    /\ web' = web \o Pick(results, {i \in DOMAIN results : results[i] \notin ToSet(web)})
    /\ searchCost' = searchCost + cost
    /\ spent' = spent + cost
    /\ round' = round + 1
    /\ pc' = "gate"
    /\ UNCHANGED <<request, local, answer, run, event, database, faults>>

\* Mutant: the run shows the cost of the failed call only.
FailureCostOfCall(cost) == cost
FailureCost(cost) == searchCost + cost

\* The search failed: no answer, at no cost, or one that cannot be used, at the
\* price of a search unless it was no object.
SearchFails(error, cost) ==
    /\ pc = "search"
    /\ error = "web_search" => cost = 0
    /\ run' = [run EXCEPT !.status = "failed", !.error = error, !.cost = FailureCost(cost)]
    /\ spent' = spent + cost
    /\ pc' = "failed"
    /\ UNCHANGED <<request, search, answer, event, database, faults>>

\* Nothing supports the question yet: one more search, if it is allowed.
FollowUp ==
    /\ pc = "gate"
    /\ Accepted = <<>>
    /\ round < maxCalls
    /\ pc' = "search"
    /\ UNCHANGED <<request, search, answer, run, event, database, spent, faults>>

\* The gate refuses, and the answer model is not asked.
Refuse ==
    /\ pc = "gate"
    /\ Accepted = <<>>
    /\ round = maxCalls
    /\ run' = [run EXCEPT !.status = "complete", !.cost = searchCost,
                          !.citations = "not_applicable"]
    /\ pc' = "publish"
    /\ UNCHANGED <<request, search, answer, event, database, spent, faults>>

\* record_model_call, for an answer and for a failure.
Ask ==
    /\ pc = "gate"
    /\ Accepted # <<>>
    /\ rows' = ModelRows
    /\ asked' = asked + 1
    /\ calls' = calls + 1

\* The ids the model was given, and one it was not.
Invented == <<"W", 0>>
AllowedIds == {rows'[k].id : k \in DOMAIN rows'}

\* _citation_status.
CitationStatus(cited) ==
    IF cited = {} THEN "missing" ELSE IF cited \subseteq AllowedIds THEN "validated" ELSE "invalid"

\* The evidence items of a set of ids: claims are made from the rows.
ClaimedItems(ids) ==
    {ItemOf[rows'[k].source] : k \in {j \in DOMAIN rows' :
        rows'[j].id \in ids /\ rows'[j].source \in Chunks}} \ {None}

\* An answer that cites `cited`, and whose claims cite `claimed` (the two are read
\* off the text by patterns of their own); `sound` says that every claim has a
\* citation and is about what it cites.
Answer(tokens, sound) ==
    /\ Ask
    /\ \E cited, claimed \in SUBSET (AllowedIds \cup {Invented}) :
        LET status == CitationStatus(cited)
            supported == claimed # {} /\ claimed \subseteq AllowedIds /\ sound
        IN  run' = [run EXCEPT !.status = "complete", !.tokens = tokens,
                               !.cost = searchCost + tokens,
                               !.web = AcceptedWebSources, !.evidence = AcceptedItems,
                               !.citations = status, !.cited = cited,
                               !.claims = ClaimedItems(claimed),
                               !.report = status = "validated" /\ supported]
    /\ spent' = spent + tokens
    /\ pc' = "publish"
    /\ UNCHANGED <<request, search, event, database, faults>>

\* The provider answers with an error, which has no tokens.
ModelFails ==
    /\ Ask
    /\ run' = [run EXCEPT !.status = "failed", !.error = "model", !.cost = searchCost]
    /\ pc' = "failed"
    /\ UNCHANGED <<request, search, event, database, spent, faults>>

-----------------------------------------------------------------------------
(* _query_web_research                                                      *)

Event(type) == [type |-> type, tokens |-> run.tokens, cost |-> run.cost]

\* A completed run is announced before it is committed.
Publish ==
    /\ pc = "publish"
    /\ event' = Event("completed")
    /\ pc' = "commit"
    /\ UNCHANGED <<request, search, answer, run, database, spent, faults>>

Commit ==
    /\ pc = "commit"
    /\ stored' = run
    /\ ledger' = ledger + calls
    /\ pc' = "done"
    /\ UNCHANGED <<request, search, answer, run, event, spent, faults>>

\* Mutant: the failure is left to the request's session, which rolls it back.
FailureRollsBack ==
    /\ pc = "failed"
    /\ pc' = "announce"
    /\ UNCHANGED <<request, search, answer, run, event, database, spent, faults>>

\* Mutant: the run is committed without the rows of its calls.
CommitFailedRunOnly ==
    /\ pc = "failed"
    /\ stored' = run
    /\ pc' = "announce"
    /\ UNCHANGED <<request, search, answer, run, event, ledger, spent, faults>>

\* WebResearchError: the failed run is committed first of all.
CommitFailure ==
    /\ pc = "failed"
    /\ stored' = run
    /\ ledger' = ledger + calls
    /\ pc' = "announce"
    /\ UNCHANGED <<request, search, answer, run, event, spent, faults>>

\* _publish_model_failure_event: codes that start with web_search_ are not
\* announced.  A producer that refuses changes nothing; then comes the error reply.
AnnounceFailure ==
    /\ pc = "announce"
    /\ \/ event' = (IF run.error = "web_search" THEN None ELSE Event("failed")) /\ faults' = faults
       \/ event' = None /\ Disturb
    /\ pc' = "error_reply"
    /\ UNCHANGED <<request, search, answer, run, database, spent>>

\* Any other exception, an answer of the model that cannot be read or a producer
\* that refuses a completed run among them, reaches get_db_session.
RequestRaises ==
    /\ pc \in {"start", "search", "gate", "publish", "commit", "failed"}
    /\ Disturb
    /\ pc' = "done"
    /\ UNCHANGED <<request, search, answer, run, event, database, spent>>

\* The API process is gone.
Crash ==
    /\ pc \notin {"done", "error_reply"}
    /\ Disturb
    /\ pc' = "done"
    /\ UNCHANGED <<request, search, answer, run, event, database, spent>>

Next ==
    \/ Start
    \/ \E results \in Distinct(WebSources), cost \in SearchCosts : SearchAnswered(results, cost)
    \/ \E error \in {"web_search", "invalid_response"}, cost \in SearchCosts \cup {0} :
           SearchFails(error, cost)
    \/ FollowUp \/ Refuse
    \/ \E tokens \in Tokens, sound \in BOOLEAN : Answer(tokens, sound)
    \/ ModelFails
    \/ Publish \/ Commit
    \/ CommitFailure \/ AnnounceFailure
    \/ RequestRaises \/ Crash

Spec == Init /\ [][Next]_vars

-----------------------------------------------------------------------------
CitationIds == ({"W", "L"} \X (1 .. MaxRows)) \cup {Invented}

Runs == [status : {"running", "complete", "failed"},
         error : {"none", "web_search", "invalid_response", "model"},
         tokens : Tokens \cup {0}, cost : Nat,
         web : Distinct(WebSources), evidence : Distinct(Items),
         citations : {"none", "not_applicable", "missing", "invalid", "validated"},
         cited : SUBSET CitationIds, claims : SUBSET Items, report : BOOLEAN]

Events == [type : {"completed", "failed"}, tokens : Nat, cost : Nat]

ASSUME NoneAssumption == None \notin Runs \cup Events

TypeOK ==
    /\ scope \in {"web", "hybrid"} /\ maxCalls \in CallLimits
    /\ direct \subseteq WebSources \cup Chunks
    /\ pc \in {"start", "search", "gate", "publish", "commit", "failed", "announce",
               "error_reply", "done"}
    /\ local \in Distinct(Chunks) /\ web \in Distinct(WebSources)
    /\ round \in 0 .. maxCalls /\ searchCost \in Nat
    /\ \A k \in DOMAIN rows : /\ rows[k].id \in CitationIds
                              /\ rows[k].source \in ToSet(Candidates)
    /\ Len(rows) <= MaxRows
    /\ run \in Runs \cup {None} /\ stored \in Runs \cup {None}
    /\ event \in Events \cup {None}
    /\ calls \in 0 .. 1 /\ ledger \in 0 .. 1 /\ asked \in 0 .. 1
    /\ spent \in Nat /\ faults \in 0 .. MaxFaults

\* What a validated answer cites can be looked up in the stored run: the id Wn
\* stands for its nth web source, the very passage the model was shown under it,
\* and what its claims rest on are evidence items of the run.
CitationsResolve ==
    stored # None /\ stored.citations = "validated" =>
        /\ \A id \in stored.cited : \E k \in DOMAIN rows :
            /\ rows[k].id = id
            /\ id[1] = "W" => id[2] \in DOMAIN stored.web /\ stored.web[id[2]] = rows[k].source
        /\ stored.claims \subseteq ToSet(stored.evidence)

\* The cost of a stored run is what its searches and its answer cost together, a
\* failed second search included, and every call to the answer model is in the
\* usage ledger, the failed ones as well.
CostAddsUp == stored # None => stored.cost = spent /\ ledger = asked

\* The error reply names the failed run, and an announced failure tells of it: it
\* is in the database before either, with the same cost, whatever fails later.
FailureIsDurable ==
    /\ pc = "error_reply" => stored # None /\ stored.status = "failed"
    /\ event # None /\ event.type = "failed" =>
        /\ stored # None /\ stored.status = "failed"
        /\ event.tokens = stored.tokens /\ event.cost = stored.cost

\* What the documentation says of the failed event (LOCAL_RUNBOOK.md): it is a
\* model-failure contract, and failures of the search are not announced.
FailureEventIsOfTheModel == event # None /\ event.type = "failed" => asked > 0

-----------------------------------------------------------------------------
(* What the request promises: BilledRun.                                    *)

Summary(r) == [complete |-> r.status = "complete", totals |-> <<r.tokens, r.cost>>]

Billed == INSTANCE BilledRun WITH
    Early <- {"completed"},
    open <- pc \notin {"error_reply", "done"},
    ended <- IF run = None \/ run.status = "running" THEN {} ELSE {Summary(run)},
    billed <- asked,
    events <- IF event = None THEN {}
              ELSE {[type |-> event.type, totals |-> <<event.tokens, event.cost>>]},
    stored <- IF stored = None THEN {} ELSE {Summary(stored)}

\* The run and its ledger rows are committed together, once, when the run has ended, a
\* failure before it is announced and a success after; a request that is cut short leaves
\* neither run nor rows.
PromisesOfBilledRun == Billed!Spec

-----------------------------------------------------------------------------
(* The inductive invariant the proofs use.                                  *)

\* The run is there once the workflow has begun, and ends as its request does; while the
\* searches go on, there is one left when another may begin and the model was shown nothing.
RunInv ==
    /\ pc = "start" => round = 0
    /\ pc = "search" => round < maxCalls
    /\ pc \in {"search", "gate"} => run = EmptyRun
    /\ pc \in {"start", "search", "gate"} => rows = <<>>
    /\ pc \in {"publish", "commit"} => run # None /\ run.status = "complete"
    /\ pc \in {"failed", "announce", "error_reply"} => run # None /\ run.status = "failed"

\* Searches are added up until the run takes over their cost, and calls as they are made.
CostInv ==
    /\ pc \in {"start", "search", "gate"} => spent = searchCost /\ calls = 0
    /\ pc \in {"publish", "commit", "failed", "announce", "error_reply"} => run.cost = spent
    /\ calls = asked

\* What is in the database is the run as it ended, and nothing before that.
StoredInv ==
    /\ stored = None => ledger = 0
    /\ stored # None => stored = run
    /\ pc \in {"start", "search", "gate", "publish", "commit", "failed"} => stored = None
    /\ pc \in {"announce", "error_reply"} => stored = run
    /\ pc \in {"start", "search", "gate", "publish", "failed", "announce"} => event = None

\* What a validated answer cites is among what the model was shown and the run will keep.
CitedInv ==
    run # None /\ run.citations = "validated" =>
        /\ \A id \in run.cited : \E k \in DOMAIN rows :
            /\ rows[k].id = id
            /\ id[1] = "W" => id[2] \in DOMAIN run.web /\ run.web[id[2]] = rows[k].source
        /\ run.claims \subseteq ToSet(run.evidence)

IInv == /\ TypeOK /\ RunInv /\ CostInv /\ StoredInv /\ CitedInv
        /\ CitationsResolve /\ CostAddsUp /\ FailureIsDurable
=============================================================================
