-------------------------- MODULE MarketAnalysis --------------------------
(***************************************************************************)
(* POST /market-analysis (api/portfolio.py): one or two searches, the      *)
(* evidence gate and the fund audit, one answer and at most one citation   *)
(* repair (portfolio/market_analysis.py), the trace of the run, its model  *)
(* call and usage ledger row, and the pruning of old traces                *)
(* (repositories/runs.py).  Watchlist and citations: see MarketWatchlist.  *)
(*                                                                         *)
(* A request is one transaction: what it writes is seen by others when it  *)
(* commits, and it sees what was committed and its own rows.  Two requests *)
(* that prune the same trace delete it once, whichever comes first.        *)
(***************************************************************************)
EXTENDS Integers, FiniteSets, Sequences

CONSTANTS
    Analyses,       \* ids of the requests
    NoReply,        \* no answer yet
    KeepLatest,     \* market_analysis_trace_retention_count, at least 1
    SearchLimit,    \* web_search_max_calls, 1 or 2
    MaxFaults       \* bound: transactions the database fails

ASSUME AnalysisAssumption ==
    /\ KeepLatest \in Nat \ {0} /\ SearchLimit \in {1, 2} /\ MaxFaults \in Nat
    /\ NoReply \notin {200, 422, 429, 500, 502}

VARIABLES
    phase,          \* where each request is
    begun,          \* requests in the order their runs were created
    spent,          \* history: what the search and the answer model billed to each
    tally,          \* locals of analyze: what it has counted so far
    supported,      \* requests whose evidence was accepted
    outcome,        \* the result or the error each is about to record
    traces,         \* committed traces that were not pruned
    recorded,       \* the run row each committed
    pruned,         \* traces the transaction of each deletes
    usage,          \* the usage ledger row each committed
    aged,           \* traces older than the retention days
    reply,          \* status each was answered with
    faults          \* bound: failed transactions

analysisVars == <<phase, begun, spent, tally, supported, outcome, traces, recorded, pruned,
                  usage, aged, reply, faults>>

\* What a call adds to a bill. A search costs one unit, a model call as many as its tokens.
Searched(charge) == [searches |-> 1, searchCost |-> charge, calls |-> 0, tokens |-> 0]
Called(tokens) == [searches |-> 0, searchCost |-> 0, calls |-> 1, tokens |-> tokens]
Nothing == [searches |-> 0, searchCost |-> 0, calls |-> 0, tokens |-> 0]
Plus(bill, more) == [item \in DOMAIN bill |-> bill[item] + more[item]]

\* MarketAnalysisError: it knows no searches and no number of calls.
Error(code, tokens, cost) ==
    [code |-> code, tokens |-> tokens, cost |-> cost, modelCost |-> 0, searches |-> 0,
     calls |-> 0]

\* MarketAnalysis.
Result(bill) ==
    [code |-> 200, tokens |-> bill.tokens, cost |-> bill.searchCost + bill.tokens,
     modelCost |-> bill.tokens, searches |-> bill.searches, calls |-> bill.calls]

NoOutcome == Error(NoReply, 0, 0)
NoRow == [status |-> "none", tokens |-> 0, cost |-> 0, searches |-> 0]
NoUsage == [requests |-> 0, tokens |-> 0, cost |-> 0]
Limited == 429      \* a quota, balance or rate limit of the model or the search
Failed == 502       \* any other MarketAnalysisError

AnalysisInit ==
    /\ phase = [a \in Analyses |-> "new"]
    /\ begun = <<>>
    /\ spent = [a \in Analyses |-> Nothing]
    /\ tally = [a \in Analyses |-> Nothing]
    /\ supported = {}
    /\ outcome = [a \in Analyses |-> NoOutcome]
    /\ traces = {}
    /\ recorded = [a \in Analyses |-> NoRow]
    /\ pruned = [a \in Analyses |-> {}]
    /\ usage = [a \in Analyses |-> NoUsage]
    /\ aged = {}
    /\ reply = [a \in Analyses |-> NoReply]
    /\ faults = 0

\* The request goes on, or turns to recording its failure.
Proceed(a, next) ==
    /\ phase' = [phase EXCEPT ![a] = next]
    /\ UNCHANGED <<begun, traces, recorded, pruned, usage, aged, reply, faults>>
Record(a, told) == Proceed(a, "persist") /\ outcome' = [outcome EXCEPT ![a] = told]

Pay(a, bill) == spent' = [spent EXCEPT ![a] = Plus(@, bill)]
Count(a, bill) == tally' = [tally EXCEPT ![a] = Plus(@, bill)]

\* An exception that leaves the handler rolls the session back.
Answer(a, code) ==
    /\ reply' = [reply EXCEPT ![a] = code]
    /\ phase' = [phase EXCEPT ![a] = "done"]

\* No holdings, no search key, no such model, or a saved method that is gone.
RefuseAnalysis(a) ==
    /\ phase[a] = "new"
    /\ Answer(a, 422)
    /\ UNCHANGED <<begun, spent, tally, supported, outcome, traces, recorded, pruned, usage, aged,
                   faults>>

CreateTrace(a) ==
    /\ phase[a] = "new"
    /\ phase' = [phase EXCEPT ![a] = "search"]
    /\ begun' = Append(begun, a)
    /\ UNCHANGED <<spent, tally, supported, outcome, traces, recorded, pruned, usage, aged, reply,
                   faults>>

\* Mutant: the error of a failed search tells only what that search cost.
ErrorCostAlone(a, charge) == charge

\* _search: what the searches before it cost, and its own charge.
ErrorCost(a, charge) == tally[a].searchCost + charge

\* A failed search may have cost nothing; it ends the analysis, the second one too.
Search(a) ==
    /\ phase[a] = "search"
    /\ tally[a].searches < SearchLimit
    /\ UNCHANGED supported
    /\ \/ /\ Pay(a, Searched(1)) /\ Count(a, Searched(1))
          /\ UNCHANGED outcome
          /\ Proceed(a, IF tally[a].searches + 1 = SearchLimit THEN "gate" ELSE "search")
       \/ \E charge \in {0, 1}, code \in {Limited, Failed} :
             /\ Pay(a, Searched(charge))
             /\ UNCHANGED tally
             /\ Record(a, Error(code, 0, ErrorCost(a, charge)))

\* The gate over everything retrieved, and the auditor of the fixed ranking.
JudgeEvidence(a) ==
    /\ phase[a] = "gate"
    /\ UNCHANGED <<spent, tally>>
    /\ \/ /\ Proceed(a, "answer")
          /\ supported' = supported \cup {a}
          /\ UNCHANGED outcome
       \/ Record(a, Error(Failed, 0, tally[a].searchCost)) /\ UNCHANGED supported

\* The error of an answer model: the sums over its responses and the searches.
ModelError(code, bill) == Error(code, bill.tokens, bill.searchCost + bill.tokens)

\* One answer; without valid citations one repair by the same model.
Generate(a) ==
    /\ phase[a] \in {"answer", "repair"}
    /\ UNCHANGED supported
    /\ \E tokens \in {0, 1} :
          /\ Pay(a, Called(tokens)) /\ Count(a, Called(tokens))
          /\ \/ Proceed(a, "read") /\ UNCHANGED outcome
             \/ phase[a] = "answer" /\ Proceed(a, "repair") /\ UNCHANGED outcome
             \/ /\ phase[a] = "repair"
                /\ Record(a, ModelError(Failed, Plus(tally[a], Called(tokens))))
             \/ \E code \in {Limited, Failed} :
                   Record(a, ModelError(code, Plus(tally[a], Called(tokens))))

\* The provider answered, and the adapter could not read what it said.
UnreadableResponse(a) ==
    /\ phase[a] \in {"answer", "repair"}
    /\ \E tokens \in {0, 1} : Pay(a, Called(tokens))
    /\ Answer(a, 500)
    /\ UNCHANGED <<begun, tally, supported, outcome, traces, recorded, pruned, usage, aged,
                   faults>>

\* A watchlist item whose citation_ids are no list breaks the reading of the block.
ReadWatchlist(a) ==
    /\ phase[a] = "read"
    /\ \/ Record(a, Result(tally[a])) /\ UNCHANGED <<spent, tally, supported>>
       \/ /\ Answer(a, 500)
          /\ UNCHANGED <<begun, spent, tally, supported, outcome, traces, recorded, pruned,
                         usage, aged, faults>>

CreatedAfter(b, a) ==
    \E i, j \in DOMAIN begun : i > j /\ begun[i] = b /\ begun[j] = a
Newer(a, among) == {b \in among : CreatedAfter(b, a)}

\* Mutant: a trace counts among those newer than itself.
ObsoleteWithItself(visible) ==
    {b \in visible : Cardinality(Newer(b, visible)) + 1 >= KeepLatest \/ b \in aged}

Obsolete(visible) ==
    {b \in visible : Cardinality(Newer(b, visible)) >= KeepLatest \/ b \in aged}

\* The run row of a result or an error; only a result tells how often it searched.
RunRow(told) ==
    [status |-> IF told.code = 200 THEN "complete" ELSE "failed", tokens |-> told.tokens,
     cost |-> told.cost, searches |-> told.searches]

\* The model call and the ledger row beside it. An error without tokens leaves none, and one
\* with tokens the default request count and no cost, however many calls they are from.
UsageRow(told) ==
    IF told.code = 200
    THEN [requests |-> IF told.calls = 0 THEN 1 ELSE told.calls, tokens |-> told.tokens,
          cost |-> told.modelCost]
    ELSE IF told.tokens > 0 THEN [requests |-> 1, tokens |-> told.tokens, cost |-> 0]
    ELSE NoUsage

\* Both persist functions end with the pruning.
Persist(a) ==
    /\ phase[a] = "persist"
    /\ phase' = [phase EXCEPT ![a] = "commit"]
    /\ pruned' = [pruned EXCEPT ![a] = Obsolete(traces \cup {a})]
    /\ UNCHANGED <<begun, spent, tally, supported, outcome, traces, recorded, usage, aged,
                   reply, faults>>

\* What persisting flushed becomes visible. The handler commits a failure and the dependency a
\* result, before the answer is sent (FastAPI up to 0.117; later it is sent first).
Commit(a) ==
    /\ phase[a] = "commit"
    /\ traces' = (traces \cup {a}) \ pruned[a]
    /\ recorded' = [recorded EXCEPT ![a] = RunRow(outcome[a])]
    /\ usage' = [usage EXCEPT ![a] = UsageRow(outcome[a])]
    /\ Answer(a, outcome[a].code)
    /\ UNCHANGED <<begun, spent, tally, supported, outcome, pruned, aged, faults>>

DatabaseFails(a) ==
    /\ phase[a] \in {"persist", "commit"}
    /\ faults < MaxFaults
    /\ faults' = faults + 1
    /\ Answer(a, 500)
    /\ UNCHANGED <<begun, spent, tally, supported, outcome, traces, recorded, pruned, usage, aged>>

\* The retention days of a trace pass; those of the traces before it have passed too.
GrowOld(a) ==
    /\ a \in traces
    /\ aged' = aged \cup {a} \cup {b \in traces : CreatedAfter(a, b)}
    /\ aged' # aged
    /\ UNCHANGED <<phase, begun, spent, tally, supported, outcome, traces, recorded, pruned, usage,
                   reply, faults>>

AnalysisNext ==
    \E a \in Analyses :
        \/ RefuseAnalysis(a) \/ CreateTrace(a) \/ Search(a) \/ JudgeEvidence(a)
        \/ Generate(a) \/ UnreadableResponse(a) \/ ReadWatchlist(a) \/ Persist(a)
        \/ Commit(a) \/ DatabaseFails(a) \/ GrowOld(a)

AnalysisSpec == AnalysisInit /\ [][AnalysisNext]_analysisVars

-----------------------------------------------------------------------------

Phases == {"new", "search", "gate", "answer", "repair", "read", "persist", "commit", "done"}
Bills ==
    [searches : 0..SearchLimit, searchCost : 0..SearchLimit, calls : 0..2, tokens : 0..2]
Outcomes ==
    [code : {200, Limited, Failed, NoReply}, tokens : 0..2, cost : 0..SearchLimit + 2,
     modelCost : 0..2, searches : 0..SearchLimit, calls : 0..2]
Rows ==
    [status : {"none", "complete", "failed"}, tokens : 0..2, cost : 0..SearchLimit + 2,
     searches : 0..SearchLimit]
UsageRows == [requests : 0..2, tokens : 0..2, cost : 0..2]

\* Types of the market analysis variables; no request pays for more than SearchLimit searches
\* and two model calls.
AnalysisTypeOK ==
    /\ phase \in [Analyses -> Phases]
    /\ begun \in Seq(Analyses)
    /\ spent \in [Analyses -> Bills]
    /\ tally \in [Analyses -> Bills]
    /\ supported \subseteq Analyses
    /\ outcome \in [Analyses -> Outcomes]
    /\ traces \subseteq Analyses
    /\ recorded \in [Analyses -> Rows]
    /\ pruned \in [Analyses -> SUBSET Analyses]
    /\ usage \in [Analyses -> UsageRows]
    /\ aged \subseteq Analyses
    /\ reply \in [Analyses -> {200, 422, 429, 500, 502, NoReply}]
    /\ faults \in 0..MaxFaults

Recorded == {a \in Analyses : reply[a] \in {200, 429, 502}}

\* Whatever failed and how late, the run row of an answered analysis adds up to what the search
\* and the answer model billed for it ("the complete estimate on AgentRun"), and the usage
\* ledger, which outlives the pruned traces, has all its tokens and claims no more requests or
\* cost than there were; a result has them all and the number of its searches too. A failure
\* may claim fewer (UsageRow). A rolled back analysis leaves no row.
AnsweredIsAccounted ==
    /\ \A a \in Recorded :
          /\ recorded[a].status = "complete" <=> reply[a] = 200
          /\ recorded[a].tokens = spent[a].tokens
          /\ recorded[a].cost = spent[a].searchCost + spent[a].tokens
          /\ usage[a].tokens = spent[a].tokens
          /\ usage[a].requests <= spent[a].calls
          /\ usage[a].cost <= spent[a].tokens
          /\ reply[a] = 200 =>
                /\ recorded[a].searches = spent[a].searches
                /\ usage[a].requests = spent[a].calls
                /\ usage[a].cost = spent[a].tokens
    /\ \A a \in Analyses \ Recorded :
          a \notin traces /\ recorded[a] = NoRow /\ usage[a] = NoUsage

\* Retention deletes no trace it should keep, whatever concurrent requests prune and whichever
\* of them commit: an answered analysis whose trace is gone is older than the retention days
\* or has at least KeepLatest newer answered ones.
RetentionIsBounded ==
    \A a \in Recorded \ traces :
        a \in aged \/ Cardinality(Newer(a, Recorded)) >= KeepLatest

\* What the usage page may rely on: the run of an answered analysis adds up, the ledger has
\* its tokens, and its trace is kept as long as the retention settings say.
AnalysesStand == AnsweredIsAccounted /\ RetentionIsBounded
=============================================================================
