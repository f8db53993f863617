# Argus: a verification project

TLA+ modules, TLC configurations and TLAPS proofs about the server of Argus, the
investment research program in this repository (`src/investment_agent`).
`PROJECT.json` maps every definition to the lines it models. Paths below are
relative to `src/investment_agent/`.

## 1. The system

Argus is a FastAPI service over PostgreSQL, with optional Kafka (audit events), Redis
(jobs and cache) and cloud model providers. An API request is one Python thread with
one SQLAlchemy session, committed when the handler returns and rolled back by any
exception (`api/dependencies.py`). Two more processes run beside it: the Kafka event
consumer (`event_consumer.py`, one replica) and the job workers (`worker.py`, one to six).

| Component | State | Operations | Talks to | What is hard | What makes it correct |
|---|---|---|---|---|---|
| Event audit consumer (`event_consumer.py`, `repositories/events.py`) | topic log, group offsets, client position, DLQ topic and its producer buffer, projection rows, heartbeat | poll, validate, handle with retries, isolate to the DLQ, commit, retention, stop/restart | publishers (Kafka), database | crashes between projection and commit, lost answers, rebalances, swallowed exceptions | no message passed over unseen; a commit follows a durable outcome; the first outcome of an event id is final; retention keeps the newest |
| Background jobs (`api/jobs.py`, `cloud/jobs.py`, `worker.py`) | Redis list, status hashes with expiry, workers | enqueue, dequeue, set status, process | API clients, Redis | several Redis calls per operation, racing workers, BRPOP removes before work begins | each job is run at most once, in order, is never silently dropped, and its final status is its own |
| Indexed research request (`api/chat.py`, `harness/*`, `research/workflow.py`) | pending run, model calls, evidence links, budget; stored run and usage ledger; tool threads | embed, route, generate, charge, dispatch a tool with timeouts and retries, answer, publish, commit | providers, retrieval tool, Kafka, database | timed-out handlers keep running on the session; publish before commit; failure after payment; passages embedded before the gate | the budget holds; the stored run, its event, its evidence, the ledger and what the user is told agree |
| Independent web research (`research/web.py`, `search/exa.py`) | a run and its web evidence | plan, search, gate, answer, retry an invalid answer | Exa, providers, Kafka | failure after payment; the failed run is committed before its event | a failed web run and its cost survive the error reply |
| Providers (`providers/*`) | none (attempt counter) | call with retries, map errors | HTTP APIs | a retry after a request that was served | bounded attempts; only transient errors are retried |
| Document upload and ingestion (`api/documents.py`, `ingestion/*`, `repositories/documents.py`, `cloud/artifacts.py`) | files, artifacts, documents, chunks, evidence items | upload, extract, chunk, index, delete | artifact store, Kafka, database | racing uploads of one content; files and events outside the transaction | one document per content; chunks cover the text; nothing is left behind |
| Bounded extraction (`ingestion/resources.py`, `extract_worker.py`) | a child process | start, watch, kill, collect | operating system | limits racing the child's result | a child never outlives the request |
| Research history purge (`repositories/research_history.py`) | runs, claims, reports, ledger links | resolve references, delete | document deletion | references live in JSON snapshots | nothing derived from a deleted document stays; the usage ledger does |
| Market alerts (`api/alerts.py`, `portfolio/alerts.py`, `repositories/alerts.py`) | settings rows, previews | evaluate, feedback, read and write settings | Robinhood sidecar | two evaluations at once; 24-hour and 7-day windows against a unique key; a read that inserts | no preview is repeated or comes back within a week of being called noise; the last settings stand |
| Portfolio holdings (`api/portfolio.py`, `portfolio/sources.py`, `portfolio/csv_parser.py`, `repositories/portfolio.py`) | snapshots and positions per source | two uploads, one sync, merge | Robinhood sidecar | racing refreshes, partial records | the last refresh of a source stands; the merged view counts nothing twice |
| User profile (`api/profile.py`, `portfolio/guidance.py`) | profile rows | save, clear, read, guide | style packs, method documents | two saves at once; a save beside the deletion of what it names | the last save or clear stands; what the profile names exists; the guided allocation is one it accepts |
| Summary, cash and retirement planning, ETF selection (`portfolio/*`) | none | pure calculations | portfolio, profile | rounding, boundaries, several calculations that must agree | money is conserved; a plan called feasible is; the advice of the parts agrees |
| Market analysis (`portfolio/market_analysis.py`, `api/portfolio.py`) | runs and ledger rows | search, gate, answer, repair, prune | Exa, providers | failure after payment; concurrent pruning; citations of evidence never fetched | the run adds up to what was billed, whatever failed; retention keeps what it says; only supplied evidence is cited |
| Market data (`market_data/*`, `portfolio/heatmap.py`) | history cache | quote, history, score, tile | Robinhood sidecar | batches that fail one by one; dates of prices | no stored price passes for a live one; a failed history takes nothing else with it |
| Robinhood sidecar (`integrations/robinhood/*`) | cached capability audit | audit, read | MCP server | threads share the cached audit while the provider's tools change | no call outside the approved tools, and of the one account only |
| Retrieval and evidence gate (`retrieval/*`), embeddings | indexes | adaptive search, fusion, gate | database, embedding API | side ways of a chunk into an answer; depths and limits of five stages that must agree | what a request may not see changes nothing; what is found is judged; a follow-up is asked only after a gap |
| Claims, critic, reports (`research/*`, `api/reports.py`) | claims, reports | derive, render | runs | none (sequential) | a report is built from accepted evidence only |
| Runs, usage and billing (`api/runs.py`, `billing/*`) | usage ledger, billing snapshots | list, import | provider consoles | importing the same export twice | a row is counted once |
| Style packs, method documents (`api/style_packs.py`) | rows | upload, delete | profiles that name them, history purge | a deletion rewrites the lists of profiles it has read | the active profile names only what exists |
| Routing, cache, topic bootstrap, evaluation, migrations, wiring, frontend, infrastructure | see `PROJECT.json` | | | | |

## 2. Plan

Order: the behaviour that loses or falsifies data first. All steps but the last are done.

1. `EventAudit` with the abstract `AuditDelivery`, the refinement between them, and the proofs of both.
2. `JobQueue`.
3. `ChatRun`, the indexed request, and `ChatRunProofs`.
4. `WebRun`, the web path of `query_chat`, with the observables of `ChatRun`.
5. `DocumentStore`: upload, ingestion, deletion and history purge with questions, three requests at once.
6. The account and market pages: `Holdings`, `Profiles`, `MarketAlerts`, `MarketAnalysis`,
   `RobinhoodSidecar`, each with concurrent requests, and the calculators they serve as operators:
   `AllocationGuidance`, `CashPlanning`, `RetirementPlanning`, `PortfolioSummary`, `EtfSelection`,
   `MarketWatchlist`, `MarketMap`. `Desk` composes them.
7. Proofs of the desk: `DeskComponentProofs` (holdings, profiles, guidance, alerts, analyses, sidecar, cash
   plans) and
   `DeskProofs`, which carries them over to the desk.
8. `JobQueueProofs`.
9. `Retrieval` with `LocalAnswers`, a calculator of the desk: the evidence tool and the local answer.
10. `WebRunProofs`, and `SelectionsProofs` about the operators of `Selections` it shares with the desk.
11. `DocumentStoreProofs`.
12. `BilledRun`, the abstract specification of a billed run that `ChatRun` and `WebRun` implement.
13. Sums over finite sets (`SelectionsProofs`) and with them cash plans (`DeskComponentProofs`); the promises of
   the other calculators that rest on neither folds over sequences nor exponentials: `DeskProofs`.
14. Left: the child process of an extraction, the
   chunking of a text and the references of the purge one by one, as refinements of the steps
   `Extract`, `Insert` and `Purge` of `DocumentStore`.

One passing run per module is intended (two for the consumer, one for the desk as a whole), and a
run expected to be violated only where the repository's own documentation says otherwise.

## 3. Modules and code

**`EventAudit`** is `KafkaAuditMetricsConsumer` in the loop of `main()`. `pc` is the place in
`run_once`; `Heartbeat`, `PollNothing`, `PollMessage` are its first lines; `HandleCommits`,
`HandleRaises` and `HandleAnswerLost` are the three outcomes of one attempt, and `NextAttempt`
the retry loop; `ProduceDlq`, `FlushDone`, `DlqDeliveryFails` are `_send_to_dlq`; `RecordDlq`
is `record_dlq` with its conflict row; `CommitOffset` the synchronous commit. `BrokerStoresDlq`,
`DlqMessageLost`, `Rebalance` are the Kafka client (external). An exception that leaves
`run_once` is logged by `main()`, which polls on from the client's position: `GiveUp`. A message
is a form (`event`, `badPayload`, `garbage`), an id and a content. `Recorded` and `Pruned` are
`EventAuditRepository.record` and `prune`; rows carry a `rank` (age order) in place of a
timestamp, and ties of timestamps are covered by the choice of `keep`.

**`AuditDelivery`** promises at-least-once delivery in terms of published counts, outcomes and
commits only. **`EventAuditRefinement`** maps the consumer to it.

**`JobQueue`** takes each Redis call as a step: `Push` (LPUSH), `StoreQueued` (HSET), `Accept`
(EXPIRE and the reply); `Dequeue` (BRPOP); `MarkRunning`, `StartProcess`, `Process`,
`RecordOutcome`, `Finish` are the worker's loop. `WorkerDies` covers a kill and a Redis
exception, which nothing in `worker.main` catches.

**`ChatRun`** is one indexed request from its embeddings and its routing to the commit. With a Google
model (`semantic`) `EmbedPassages` sends the stored passages to the provider's embedding API before the run
is routed, and the retrieval the question; `sent` is history, what of the passages, the question and the
answer call left the machine. `Generate` is a provider call
with all it may return, `Record`/`Affordable`/`Charge` are `record_model_call` and
`Budget.charge` in the code's order, `Retry` the tool dispatch, `Complete`, `ProviderFails`,
`BudgetStops`, `ToolFails` the ends of the loop, `Publish` the metadata update and the
event, `Commit` the session's commit. `run`, `calls` are pending rows, `stored`, `ledger` what the
database holds. `stale` are the tool threads that timed out and still use the session, so
`RequestRaises` is possible while there are any.

**`WebRun`** is one question over the web, or over the web and the indexed sources: `Start` is the
retrieval from the index, `SearchAnswered` and `SearchFails` a call of the search adapter, `FollowUp`
and `Refuse` the branches on the gate's decision, `Answer` and `ModelFails` the answer model, all of
them `WebResearchWorkflow.run`; `Publish`, `Commit`, `CommitFailure`, `AnnounceFailure` are
`_query_web_research`. A completed run is announced and then committed, a failed one committed and
then announced. `direct` is the set of passages that support the question; what the gate makes of
it (`Accepted`), the numbering `W1`, `L1`, ... (`NumberedRows`) and what is stored (`AcceptedWebSources`,
`AcceptedItems`) are operators on the candidates in their order. The 4xx replies before the workflow
starts write nothing and are left out, as is the gate's exception for summary questions, which
keeps several chunks of one page.

**`BilledRun`** is what both promise to history, audit and billing, in terms of the stored run, its
event and its ledger rows alone: run and rows appear together, once, when the run has ended, or never;
no call is made for a run that has ended; there is one event at most, on its side of the commit (`Early`), and it
tells of that run; a completed run is never stored unannounced. `PromisesOfBilledRun` in `ChatRun` and in
`WebRun` states the refinement. They differ in `Early`: an indexed request announces everything before the
commit, a web request only its completed runs.

**`Selections`** has the operators for a loop that keeps some members of a list (`Nth`, `Pick`), for a sort by
a key without ties (`Placed`, `Sorted`) and for a sum over a set (`AddUp`), which
`WebRun`, `Profiles`, `EtfSelection`, `MarketWatchlist`, `MarketMap` and `Retrieval` use: none is recursive, so
what is built from them can be proved about.

**`DocumentStore`** puts uploads, ingestions, deletions and questions side by side, each request a
process with a transaction of its own (`writes`). `StartStream` to `Publish` are `upload_document`
and `ingest_document`; `FindDocument`, `ListDocuments` to `ClearRoot` the two deletions; `StartAsk`,
`Embed`, `Retrieve`, `Link` what a question does to documents. `Dispatch` and `EndSession` are
the end of `get_db_session`. Two things the source does not spell out are modelled because they
decide who waits: the event loop (`loop`), which the coroutine `upload_document` keeps from the
last byte of the body to its return, as nothing in between is awaited, and which every request needs to
begin and to have its session ended; and PostgreSQL's locks (`Blockers`), with its
detection of deadlocks. A content stands for its hash and file name. Method documents and reports
are left out: what refers to a document is the set of documents a stored run used. One API
process is assumed; replicas do not share the upload directory.

**`Desk`** puts the components below side by side. They share a database and no rows, so a behaviour
is one of a single component (`part`), or one question to one calculator; interleaving components
that cannot disturb each other would multiply the states and show nothing more. `MC_Desk`
holds what is asked. The components with a state are specifications of their own:

* **`Holdings`**: `replace_source_positions` as a transaction at READ COMMITTED, a step per
  statement: find the snapshots, delete the older rows, delete what was found, insert, commit. A DELETE
  waits for rows another transaction deletes. What is inserted is what the parsers make of a table
  (`TableAccepted`, `ParsedRows`) or of a provider's records (`sources.py`), with the code's `or` chains,
  for which a zero is as absent as a missing field. `_merge_source_positions` is an operator on
  the stored rows.
* **`Profiles`**: saving, clearing and reading the profile, and uploading and deleting the style packs
  and method documents it names. An UPDATE locks the rows it saw and looks at them again, an
  insertion locks the document it refers to. That deleting a document also purges research history is
  left to `DocumentStore`; parsing a pack or a document is one outcome.
* **`MarketAlerts`**: the four requests, with the inserted default settings, the columns each UPDATE
  writes, the 24-hour check, the unique key, and feedback. A tick passes between requests only. The
  policy that turns a position into a decision is translated as it is.
* **`MarketAnalysis`**: the request from its trace to its commit: searches, gate, answer, one
  citation repair, ledger and pruning. `tally` is what `analyze` counts in its locals, `outcome` the result or
  the error it hands to the handler (`Result`, `Error`), `RunRow` and `UsageRow` what the two persist
  functions make of that; `spent` is history, what the providers billed, and no row is written from it. What the evidence and the answer become is in `MarketWatchlist`.
* **`RobinhoodSidecar`**: the cached audit, listing and caching as separate steps of threads without
  a lock, the approval every read is checked against, the one account. `drifted` is history: the
  requests that began while the cached audit was not the approved one.

The calculators are operators: each is the code's calculation, beside it what it promises (`Sound...`), written
another way. **`CashPlanning`** replays a plan month by month; **`RetirementPlanning`** keeps the account
month by month where the code uses closed formulas (growth and inflation are
integers a month, amounts are scaled so that the code's divisions are exact); **`AllocationGuidance`**
rounds as the code does, in basis points; **`PortfolioSummary`** has drift, trades, scenarios, gaps
and the monthly plan in cents; **`EtfSelection`** the score, the selection and its audit;
**`MarketWatchlist`** the accepted evidence, the repaired citations and the watchlist of either
engine; **`MarketMap`** the quotes, the history with its cache and batches, and the tiles.
**`Retrieval`** is the evidence tool from its arguments to its reply: the filters of the repository, four
channels, fusion, context of neighbours, gate, plan, one follow-up, and the local model's answer.
**`LocalAnswers`** is what the gate and that model read out of a chunk: the supporting passage of a text and the
columns of a table. A sentence is the set of its words, so a word counts once in a chunk; the parsing of a
query is its given words, anchors and themes; the similarity of embeddings and the rank of
PostgreSQL's index are stood in for by common words, as no promise depends on what they are.

## 4. Runs

| Run | Shows | Bounds |
|---|---|---|
| `audit_safety` | types, commits after outcomes, rows about real messages, retention, immutability of outcomes | one partition, three messages out of four kinds, two attempts, retention 2, three failures |
| `audit_delivery` | the refinement (no skipped message, offsets never back), every message accounted for | two partitions, two messages each of two kinds, two attempts, one failure or rebalance |
| `audit_committed_without_outcome` | expected violation, see section 7 | one partition, two messages |
| `jobs` | tracking, truthful final status, every job settled | two jobs, two workers, two failures |
| `jobs_status_regresses` | expected violation, see section 7 | two jobs, two workers, none failing |
| `chat` | budget, cost message, stored run, event, ledger, the billed run, termination | loops of one and of two iterations, three attempts, token costs 1 and 3 against 4, two evidence items, two failures |
| `chat_paid_not_ledgered` | expected violation, see section 7 | the same, one failure |
| `web` | citations that resolve, cost and ledger, failures kept, the billed run | two web sources, two chunks of one item, two rows shown, one or two searches at cost 1 or 2, answers of 0 or 3 tokens, one failure |
| `web_search_failure_announced` | expected violation, see section 7 | the same, one cost, no failure |
| `documents` | what is left behind, complete sources, true replies, purged history, who waits for ever and whom it holds up | every choice of three requests, an old document or none, two contents, one exception or crash |
| `documents_reingest` | expected violation, see section 7 | two requests, one content, no failure |
| `desk` | last refresh, profile and settings stand, the profile resolves, previews are justified, the accounts of analyses add up and their traces are retained, reads approved, the advice proved of every question (`AdviceStands`), and the rest of what calculators promise on its questions (`SoundAdvice`: retirement, summary) | three requests of holdings, profiles and alerts, two of analyses and reads, one failed transaction (two changes of the provider's tools), two ticks, the questions of `MC_Desk` |

Why the bounds are enough. A conflict needs two messages of one id, retention needs one
more row than it keeps, an exhausted retry needs as many failures as attempts and one more
to disturb what follows: three messages, retention 2 and three failures reach each of them. What
the audit runs leave open is covered by the proofs, which have no bounds. Two workers and two
jobs are the least for a race and for an order. In `ChatRun` a question is planned by the
first answer and answered by the second, so a second iteration is the last that happens, and a loop
made with one ends without an answer;
costs 1 and 3 against 4 make the budget hold, be met exactly, and break on the second call.
In `WebRun` two chunks of one item are a duplicate to drop, two rows of up to three accepted are
a cut, every order of local and web candidates is tried, and two searches are what the code allows.
In `DocumentStore` three requests and an old document allow a circle of waits, a deletion
between two uploads of one content, and a deletion that works on what it read before another.

In `desk` three requests let two race and a third meet what they left: two snapshots of one source, two
active profiles, mixed settings. Two analyses with a retention of one prune each other, and
the proof of `AnalysesAlwaysStand` covers the rest; two reads and two changes of the tools let a listing be overtaken by a newer
one. A tick is a day and the feedback window two, so two ticks pass the day of a repetition but not the
week of a feedback: that a preview may come back after it is the code's freedom, not a promise. `OldRows`
(rows from before snapshots) are of one source: two refreshes of it wait for each other on
those rows, and two of the other source do not, and both cases are wanted. The questions of
`MC_Desk` are chosen at the edges of the rules: zeros, missing values, ties of rounding, limits of a
style pack, sums just within and beyond a budget, a batch that fails alone.
The depths of a search are a fifth of the code's (2, 1, 2, 4 for 10, 5, 10, 20), so that libraries of up to five chunks
are cut at every stage; the questions reach an answer by the first search, one only the follow-up
finds, refusals of each kind, a passage of a neighbour, two sentences, a summary, and a search that finds more than
one pass returns.
The permutations of the three requests are declared symmetric; the run checks safety only.

Every bound is a constant: `MaxLog`, `MaxFaults`, `MaxAborts`, `MaxFailures`, `MaxErrors`, `MaxChanges`, `MaxTime`,
and the code's own limits `MaxAttempts`, `Retention`, `MaxTokens`, `Limits` (the loop's `max_iterations`), `MaxRows`,
`CallLimits`, `MaxLines`, `PanelSize`, `KeepLatest`, `SearchLimit`, `MaxSelected`, `EvidenceLimit`, `PayloadLimit`,
`QuoteBatch`, `HistoryBatch`, `ToolDepth`, `SearchDepth`, `MergeDepth`, `PoolDepth`, which the run sets lower than the code does so that they are reached. Deadlock is checked in the audit runs. A
request ends, and the finite set of jobs runs out, so the other runs switch it off.

Every property of a passing run has a mutant in `PROJECT.json`: a definition of the module with
a plausible bug in it, for which TLC finds that property violated.

## 5. Fairness

* `EventAudit`: weak fairness of the process's own steps (one loop, and the container is
  restarted: `restart: unless-stopped`), of the broker's storing of what is buffered, and strong fairness of
  polling each partition: the client does not answer with nothing for ever while messages wait. None of
  producers, failures and rebalances, which the bound `MaxFaults` limits.
* `JobQueue`: weak fairness of each worker's steps and of its restart; none of the API.
* `WebRun`, `DocumentStore`, `Desk`: none, their properties are safety properties. `StuckOnlyOnSameContent`
  says who waits for whom by the state alone; that the requests it does not name can all take a step is
  `OnlyWaitersAreHeldUp`.
* `ChatRun`: weak fairness of the request's thread, of the provider's answer (an HTTP timeout is
  configured) and of the timer of a tool call. No handler has to end: `RequestEnds` holds
  because the dispatch gives up on it.

## 6. Proofs

`EventAuditProofs` proves, for any partitions, messages, attempts, retention and number of
failures, `TypeOK`, `NothingSkipped`, `CommitFollowsOutcome`, `RowsTraceToMessages`,
`RetentionKeepsNewest` (invariants), `FirstOutcomeSticks` and `CommittedNeverRegresses` (action
properties), and that the consumer implements `AuditDelivery`. TLC checks the refinement, which
`NothingSkipped` and `CommittedNeverRegresses` follow from, and the others.

None of the invariants is inductive alone. `NothingSkipped` speaks of committed offsets,
which are committed for the message in hand: `ProgressInv` adds that all that a live client
fetched is accounted for but the message in hand, and `CursorInv` that this message is the last
one fetched. `CommitFollowsOutcome` needs the row that was just written to survive retention
and a conflict row to hold the summary of the message it is named after (`ConflictRowsInv`),
and `RowsTraceToMessages` that whatever is in the dead-letter buffer was published
(`IsolationInv`). `RetentionKeepsNewest` is about cardinalities: it needs the rows to
be ranked from 1 without gaps or repetitions (`RankedInv`), through an insertion and through a pruning,
whose survivors are counted against what they are chosen from. `IInv` is their conjunction; the proof has one step per action and one
lemma per helper (`Recorded`, `Pruned`, `Projected`). The assumptions on constants are those of
`EventAuditAssumption`; the proofs rest on nothing else.

`ChatRunProofs` proves every safety property of `ChatRun`, for any evidence, token costs, budget,
iterations, attempts and failures: `TypeOK`, `OnlyLastCallOverruns`, `CostIsToldRightly`,
`StoredRunIsTruthful`, `EventMatchesStoredRun`, `StoredRunIsBilled`, and the action property
`LedgerOnlyGrows`. What is in the database is compared there with what was gone through before, so
the invariant follows the request: `LoopInv` (before the end nothing is announced, every call was
charged, and the cloud was paid at most for the response in hand), `EndInv` (what an ended run says
of its error, its calls and its evidence), `AnnouncedInv` (the event is the one that announces the
run) and `StoredInv` (the database is empty until the commit). `SentInv` follows what left the machine:
nothing but the answer call without a Google model, and that call exactly if the run's calls say so.
`CostIsToldRightly` rests on a point
of the code that `EndInv` carries: a provider's failure costs no tokens, so it never breaks the
budget, and a run stopped by the budget was stopped by a call that was paid for or local. The
assumptions are `ChatRunAssumption` and `NoneAssumption` (the absent value is none of the others).
`KeepsPromises` shows that the request implements `BilledRun`: `RunningInv` (a run that goes on has no
outcome) and `ToldInv` (the event is the one its outcome gives) say which state of the abstract run a state stands
for, and each action is then an abstract step or a stutter. `StoredRunIsBilled` and `LedgerOnlyGrows` follow
from that refinement, which TLC checks in their place.

`WebRunProofs` proves every property of `WebRun` its run checks, for any sources, chunks, items, row
limits, costs and failures: `TypeOK`, `CitationsResolve`, `CostAddsUp` and `FailureIsDurable`. The work
is in the citations. A citation is a number the model saw; the run stores the web sources in an
order of their own; so the proof has to count: the `k`th row of kind `W` is the source at the place
`k` of the stored list (`LeastNatural` finds it, from the well-foundedness of the strict subsets of a
finite set). `Accepted`, `AcceptedWebSources` and `AcceptedItems` are selections (`Pick`), the
members of a list at a set of positions. `SelectionsProofs` says of them, and of the lists of the
profiles, that `Nth` numbers a finite set of positions without gaps (`NthExists`), and with it that a finite set
of integers has a largest (`LargestExists`), without an induction of its own. It also says what the
sums of the community modules do: `SumProperties`, that any member may be taken first, and from it that a sum grows
with its members (`SumGrows`), has its parts below it (`SumOfLess`) and is the same under other names (`SumRenamed`);
and that whole-dollar shares of a budget add up to it (`SharesAddUp`).
The library's induction theorems take an operator and cannot be cited, so `FiniteInduction` and
`UpInduction` state induction over a finite set and an interval about a set of the cases reached, and prove it by a
least counterexample (`SmallestExists`). `RunInv` follows the request, `CostInv` adds searches and calls up until
the run takes them over, `StoredInv` says when the database may hold something, and `CitedInv` says of
the pending run what `CitationsResolve` says of the stored one. `KeepsPromises` is the refinement of
`BilledRun`, with a step lemma for each of the ways a run can end.

`JobQueueProofs` proves every safety property of `JobQueue`, for any jobs, workers and failures: `TypeOK`,
`AcceptedIsTracked`, `FinalStatusIsTrue`. A final status is a job's own only if no two workers hold
it, which no property says: the invariant adds that the list holds a job once (`ListInv`), that one worker
holds it (`HolderInv`) and never both (`PlaceInv`), that a job not yet pushed is nowhere (`NewInv`), and
that only what was processed has an outcome (`OutcomeInv`). Actions that disturb the same things
are proved as one (`Aside`, `Onward`).

`DocumentStoreProofs` proves, for any requests, contents and disturbances, `TypeOK`, `NothingLeftBehind`,
`StoredSourceIsComplete`, `RepliesAreTrue`, `PurgedHistoryIsGone` and `StuckOnlyOnSameContent`. What makes them hold is that
requests read what is settled: whatever is stored, and whatever a deletion or the history of one has read, is of a
request that is done and moves no more (`HistoryInv`). So what a commit adds is never in what a deletion
has read, a file or an artifact that comes is never of a document that is being deleted (`FileInv`,
`ArtifactInv`), and a run that a deletion has to purge still rests on what it rested on when the deletion
found it (`PurgeInv`). An upload discards its copy of a content without touching the artifact, which
is the stored document's; the insertion that follows is alone with its content until it
commits (`InsertInv`), so every artifact has one owner at a time, a stored upload or an open insertion
(`Owner`), and of what was put nothing is lost before the commit but to a deletion (`SourceInv`). `EmbedInv` says that
embeddings under way keep their documents. A step of one request leaves all that others have in hand
(`OthersStay`), and a lemma for each shared variable says which of its actions change it (`DocsOf`,
`FilesOf`, `ArtifactsOf`, `SeenOf`); the parts of the invariant need only those. A crash is a step of its
own (`CrashKeeps`). That requests wait for ever only on an upload of the same content (`OnlySameContentSticks`) is
about circles of waits: among finitely many requests a set in which each waits for another holds a least closed
one (the strict subsets of a finite set are well-founded), the deadlock detection of the database breaks those of locks
alone, so the event loop is part of it, and whoever keeps the loop and waits is an upload at its
insertion. `LookedInv` adds that no deletion has read a stored document of its content. The assumption is `DocumentStoreAssumption` (finitely many
requests; the old document and the absent value are none of them).

`DeskComponentProofs` holds the theorems about the components of the desk, a section for each.

*Holdings.* `RefreshStands`, for any refreshes, tables and provider replies. A refresh that
no other of its source overlaps is alone from its first statement to its commit, so what it found is all
that is stored when it commits (`OverlapIsSeen`, `FoundIsStored`). `MergedCountsOnce` is a fact about the
merge for whatever rows are stored, if they have a largest value (`HasLargest`). They do: tables,
replies and older rows are finite and their values numbers (`HoldingsInputs`), so what is parsed, normalized
and stored of them is (`RowsAreComparable`), and `HoldingsAlwaysStand` holds in every reachable state.

*Profiles.* `LastProfileStands` and `CurrentProfileResolves`, for any requests, packs, aliases and
documents; `ProfilesInv` follows what each request has in hand. A save or clear with no other beside it has found and
locked all that is active (`AloneInv`), so its commit leaves its own row or none. That the current
profile resolves is about deletions and what they read: a deletion of a document rewrites every
list that names it but those of requests it raced (`RewriteInv`), so a name without a document
was raced, wherever it stands: in a row, in a list a deletion has read, or in a save under way
(`ListInv`, `RacedDeletion`). The first method of a profile is one of its list through every rewriting (`FirstInv`).
A pack is deleted before the current profile is reset, so in between, and for an older active row
left by raced saves, the invariant says who will see it (`ResetInv`, `StyleInv`). `AgeInv` makes the current
profile, the active one that began last, one row.

*Alerts.* `LastSettingsStand` and `PreviewsAreJustified`, for any requests, choices, scenes and windows.
Requests under way know of each other (`ServedTogether`), and what runs now without having run beside a
request that ended began after it (`LaterStarts`): so what is stored after an evaluation made its
two queries is of a request it ran beside, and feedback given since does not count as given before.
`AddedAreFresh` says this of every row an evaluation is about to insert or has inserted, and the keys of stored and
of pending rows differ (`StoredKeysDiffer`, `AddedAreNotStored`, `AddedKeysDiffer`). A settings change alone works with the row
the next request will read (`ReadIsCurrent`): only another change or an insertion of defaults
moves it, and a row inserted before it committed is of a request it ran beside (`RowsFollow`).

*Market analyses.* `AnalysesStand`, for any number of requests and any retention. A transaction
decides what to prune before it commits, on what it sees then. What it decided stays right because
the three things it rests on only grow: the order of the runs, the answered analyses, and the aged traces
(`PrunedIsObsolete`). The accounting compares the rows with what was billed, which none of them is written
from: what `analyze` counted is the bill until it raises (`TallyFollows`), a result or an error adds up to the
bill whichever call ended it (`OutcomesAddUp`: a failed search charges beside those before it, a failed or
invalid repair beside the answer), and the rows keep that (`RowsAddUp`). `BillsFollow` bounds a bill by the
phase.

*Sidecar.* `ReadsAreApproved`, for any manifests, accounts and changes. While some
request waits that began under a drifted audit, the cached audit is another than the approved one
(`DriftIsCurrent`), so nothing passes the check, and what passed it before had not drifted (`PassedIsApproved`).

*Guidance.* The guided allocation is one the validator accepts, for every
profile and every style pack within its limits whose points are given to a tenth. The international part of
the equity is rounded and the domestic part is what it leaves; all else is a whole number of tenths, which
rounding keeps, so the sum is exact. Finer points pass the limits of a pack, and the allocation built from
them is refused.

*Cash plan.* `CashPlanIsSound`: for a profile of at most eight goals whose amounts are numbers where they are
given (`CashAskable`), a plan funds no goal while one of a higher priority is short, hands out exactly the savings
or all that is wanted, meets the deadline of each goal by its monthly amounts, and one called feasible asks for
no more than the monthly capacity in any month. `SpecsAreInOrder` carries it: the order of a
goal is unique and respects its priority, because eight goals do not fill the room between two priorities.
`SavingsAreHandedOut` goes up that order by induction.

`DeskProofs` shows that the desk implements the specification of each component with a state
(`DeskRunsItsParts`: a step of the desk is a step of one of them and a stutter of the others), and so
keeps `DeskTypeOK` and the promises of all of them (`DeskKeepsItsPromises`).

Its second half is about the calculators, whose promises are facts about operators, each with the
hypotheses it needs on what is asked.

*Fund selection.* `SelectionIsSound`: for finitely many funds of different symbols, with a score each, the
ranking passes its audit, no two selected funds share an exposure, and none is passed over for a worse one
of another exposure. The order has no ties, so the fund at a place of the ranking exists and is one
(`NthExists` does the counting), and the selection is a subsequence of it (`PickOfPick`).

*Watchlists.* `ModelIsControlled`, `FixedWatchlistIsControlled`: whatever a model answers, a watchlist names known funds,
on supplied evidence, at most `MaxSelected`, and proposes to add nothing held or overlapping. `WatchlistIsSound`
adds the amounts, for any list and any budget in whole dollars: those of the suitable rows stay within the
budget, and the fixed list, which names a fund once, shows amounts on suitable rows only and spends exactly the budget.
That nothing is shown on other rows is not true of a model's list (section 7), so the theorem does not say it.

*Evidence of an answer.* `EvidenceIsSound`: for any results in lists and any answer whose lines say what they share
with each passage (`EvidenceAskable`), the evidence was accepted of what was found, each passage once
(`DistinctIsOnce`, `GateIsOnce`, `AcceptedIsOnce`), in as many domains as the limit allows (`EvidenceIsDiverse`), and the
repair of citations loses no exact line and invents nothing (`RepairInventsNothing`).

*Market map.* `StoredPricesStaySo`, for any positions in a list and any observations. `MarketMapIsSound`, for any
symbols, holdings and bars in lists and a cache of what was kept before (`MapAskable`): the volumes read from bars are
one session a day in order (`VolumesAreSessions`), which merging with the cache and cutting to the reference keep, so a
move is over the last completed session before its quote, the cache loses nothing and stays within its bound, a
score has its sessions, and volumes that do not vary have a spread of zero and no score (`ScoreHasSupport`).

*Retrieval.* `SearchLeaksNothing`: for any library that is a list of chunks with ids of their own, one scope per
document and numbers for dates, and any question (`SearchAskable`), the tool replies as if the hidden chunks did not
exist. `HiddenChangesNothing` says it of the corpus, the ranking of every channel and the context of every
visible chunk; the rest is that each stage gets only visible chunks from the one before. `SearchesAreHonest`: the gate
has judged every chunk the searches found, since merging loses none (`MergeKeepsAll`: the limit is never below what two
searches return); there is an answer exactly if a chunk was accepted; a second search is made only after a first in
which nothing supports the question, so what is accepted then is new; and no item of evidence is cited twice
(`EvidenceIsCitedOnce`). `FusionIsFair`: a chunk that every channel which finds another one finds before it is fused
before it. The sums of shares are compared channel by channel (`FusedScoreGrows`); a later rank has a strictly smaller
share in the model's whole units up to rank 10000 (`ShareFalls`), so no pool may be larger. `TablesAreReadTruly`: the
sentence of a column tells its extremes, its direction and only columns asked for; the rows are assumed to have names of
their own (`TableAskable`): the code compares them by name and does not enforce it. `SearchesStand` puts these together
and adds that asking for fewer results changes none of them. A ranking is a sort by a key without ties (the id of a chunk is the last part of it), so it has a member at every place
and depends on nothing but the set it sorts.

`DeskAdviceStands` puts together what holds of every question `DeskAssumption` allows: `AdviceStands`, an
invariant of the desk. TLC evaluates that assumption on the questions of `MC_Desk`: the cases it names are those the
program's own types let in (lists, finite sets, numbers where a number is stored, ids that are keys).

The inductive invariants of profiles and alerts stand at the end of their modules; TLC was run on them, with
the constants of `MC_Desk`, and on that of `DocumentStore`, with those of its run, before they were proved. The assumptions on constants are the named `ASSUME`s of the
modules: the types of the inputs, `HoldingsInputs`, `DeskAssumption`, that the limits of a watchlist are natural
numbers (`WatchlistAssumption`), so are the depths of a search, in the order the code has them (`RetrievalAssumption`), and the sessions of a reference
(`MarketMapAssumption`), that requests are finitely many
(`MarketAlertsAssumption`; the version of the settings counts them), and that absent values are none of the others
(an unset amount is no number: `UnsetAssumption`).

Only model-checked: `SoundAdvice`, on the questions of `MC_Desk`: the retirement plan, which rests on exponentials kept
month by month; and the summary, on folds over the ordered targets. `OnlyWaitersAreHeldUp`,
which asks what is `ENABLED`; and liveness under fairness (`EveryMessageAccounted`,
`SubmittedIsSettled`, `RequestEnds`). `ENABLED` and liveness are out of the prover's reach.

## 7. Where code and documentation differ

* `CommittedOnlyAfterOutcome`: `docs/INTERVIEW_QA.md` says an offset is committed only after its
  event was processed or isolated; the next message's commit passes one whose iteration raised.
* `FinalStatusStays`: the same document gives the order queued, running, complete; a fast worker's
  final status is overwritten by `queued`, since `enqueue` pushes before it writes the status.
* `PaidCallsAreLedgered`: `docs/CURRENT_LIMITATIONS.md` says cloud calls are written to an
  append-only ledger; the row shares the request's transaction and goes with it.
* `FailureEventIsOfTheModel`: `docs/LOCAL_RUNBOOK.md` says the failed event is a model-failure
  contract which search failures do not enter; `invalid_web_search_response` does.
* `ReingestIsIdempotent`: `docs/DEV_TASKS.md` calls ingestion of the same file idempotent; of two
  requests at once with one content, one fails on the unique hash with an error nobody handles.

Met while modelling, and kept as notes: with the model as the selection engine a list that names
a fund twice, once suitable and once not, is accepted, and the monthly amounts, looked up by
symbol, are shown on both rows (`api/portfolio.py:1871`, `:1813`; `docs/DEV_TASKS.md:33` speaks of
suitable candidates only), which is why only the fixed list is promised to show amounts on
suitable rows only; a redelivery isolated after it was processed is filed as
a conflict though the bytes are the same (`event_consumer.py:126`); a dead-letter message
that fails for good counts as delivered, as `produce` has no callback (`:306`); `HSET` without its
`EXPIRE` leaves a status for ever (`cloud/jobs.py:74`); any failed run, a tool timeout with the local
model included, is told as a failure of the external model (`api/chat.py:330`); the purge looks
for `method_document` where runs store `method_documents` (`repositories/research_history.py:155`);
a web answer whose provider reports no tokens is announced as skipped (`api/chat.py:541`);
an upload that waits for the unique hash holds the event loop its opponent needs to commit, and the
server hangs (`api/documents.py:90`; `StuckOnlyOnSameContent` shows that nothing else does); two
first questions about a new document both embed it and one fails (`embeddings/service.py:40`). With a Google
model the passages and the question have gone to `GeminiEmbeddingProvider` before the evidence gate
(`research/workflow.py:191`), and a refusal is told all the same that "no question or excerpt was sent to the
provider and no provider API cost was incurred" (`api/chat.py:336`); `CostIsToldRightly` says so of every other
model and, with Google's, of the answer call only. No ledger has the cost of embeddings
(`docs/CURRENT_LIMITATIONS.md:54`), so `used`, `calls` and `ledger` are of the answer model.

Of the desk, found while modelling and excluded from a property by its wording, which says when:
raced refreshes leave two snapshots of a source until the next one (`repositories/portfolio.py:114`), and
raced saves two active profiles (`:239`); a save beside the deletion of a document it names, or two
deletions, leave a profile that answers 422 until it is saved again (`api/style_packs.py:95`); default settings
inserted by a read can undo a raced change (`repositories/alerts.py:19`); a preview met twice fails on the
unique key with a 500 (`:64`). A Robinhood record with a quantity of 0 counts as having none and fails
the whole sync (`portfolio/sources.py:172`). More than ten holdings always answer 503 to an evaluation, since the sidecar
takes ten symbols (`api/alerts.py:126`, `integrations/robinhood/sidecar.py:43`). A custom style pack named like a legacy alias
can never be resolved or deleted (`style_packs.py:475`). Fund selection looks for horizons and experiences the form does not offer, such as
`0-3` for "Under 3 years" (`portfolio/etf_selection.py:551`). The summary drops target labels without an asset
class and merges others, although their sum was checked before (`portfolio/summary.py:1919`): `NoTradeOvershoots` is about
targets that are whole. The whole-dollar monthly plan may miss the contribution by a dollar (`MonthlyPlanAddsUp` says by
how much). Citation ids of a model that are not a list end a market analysis with a 500, and what it
paid for leaves no trace (`portfolio/market_analysis.py`, `ReadWatchlist`); neither does one whose answer the
adapter cannot read (`UnreadableResponse`). A market analysis that fails keeps its tokens and its complete
cost on the run (`api/portfolio.py:1708`), but no number of its searches; its ledger row, missing if it used no tokens
(`:1686`), counts one request and no cost even when an answer and a repair were both paid for (`:1687`), so
after failures the usage ledger claims less than was billed. `AnsweredIsAccounted` promises the run's sums and
the ledger's tokens of every answered analysis, and requests, cost and searches of results only. For Kimi such a
failure may be told as "No analysis or Argus cost was produced" (`:1072`) after its searches were paid for.

Of retrieval: the gate says that the years asked for are covered by the accepted passage (`retrieval/evidence_gate.py:100`),
but they may stand elsewhere in the chunk, in its context or title (`providers/mock.py:439`). A passage may come from a
neighbour on another page and is cited as the chunk's own item (`evidence_gate.py:170`). The accepted ids the gate reports may name
items beyond the results the tool returns (`retrieval/tool.py:119`). A method hint that is only the question, asked with
uneven spaces, is counted as a follow-up that never searches (`retrieval/policy.py:347`).

## 8. Not modelled

Wording, layout, tracing and metrics; the US-dollar dimension of the budget, which is checked like
tokens; child budgets and the providers' inner retries; the OAuth dialogue of the sidecar's transport; the prompts and
queries of a market analysis, display labels, and the extraction of numbers from the prose of
evidence; the parsing of style packs; the cut of a context at 6000 characters, the gate's report flag and the ranking
helpers of `retrieval/tool.py` that nothing calls; the vectors of embeddings, and that those of a request that
is rolled back are paid for again; a provider's own `volume_z_score`, which is shown where there is no history
(`market_data/robinhood.py:316`); the symbol in place of a fund's empty `exposure_key`
(`portfolio/etf_selection.py:185`), as every candidate of the repository has one; the components listed as `not_modelled` in `PROJECT.json`, each with its reason.

One choice is of the environment. `pyproject.toml` asks for `fastapi>=0.115`, and `get_db_session` commits after
its `yield`. The modules take FastAPI as it was up to 0.117, where that happens before the answer is sent, so a
commit that fails is answered with an error (`CommitFails` in `DocumentStore`, `RequestRaises` in `ChatRun`,
`DatabaseFails` in `MarketAnalysis`). From 0.118 on the answer is sent first: a failed commit is then answered as if it
had succeeded, and what is said here of the replies of requests (`RepliesAreTrue`, `AnsweredIsAccounted`) holds of
those whose commit succeeds. What is said of rows, files and events does not depend on it.
