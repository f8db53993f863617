----------------------------- MODULE Holdings -----------------------------
(***************************************************************************)
(* Portfolio holdings: the two upload requests and the Robinhood sync      *)
(* (api/portfolio.py), the holdings table they parse (csv_parser.py), the  *)
(* Robinhood position records they normalise (sources.py), and the         *)
(* snapshots per source that they replace (repositories/portfolio.py).     *)
(*                                                                         *)
(* A refresh is one transaction of PostgreSQL at READ COMMITTED.  Every    *)
(* statement is a step: it sees what is committed and what its own         *)
(* transaction did, and it waits for rows another transaction deleted.  A  *)
(* snapshot and its positions carry the id of the refresh that wrote them. *)
(***************************************************************************)
EXTENDS Integers, FiniteSets, Sequences

CONSTANTS
    Refreshes,      \* ids of the refresh requests
    Missing,        \* an absent cell, field, date or reply
    FileTables,     \* holdings tables that may be uploaded
    FormDates,      \* dates of the upload form, Missing among them
    GatewayReplies, \* what reading the Robinhood positions may return
    OldRows,        \* rows older than the snapshots (snapshot_id is null)
    MaxLines,       \* bound: MAX_HOLDINGS_ROWS
    MaxAborts       \* bound: transactions that fail

ASSUME HoldingsAssumption == Missing \notin Refreshes /\ MaxAborts \in Nat

VARIABLES
    snapshots,      \* refreshes whose snapshot is committed and not deleted
    legacy,         \* rows without a snapshot that are left
    rowsOf,         \* the rows each refresh stores
    refresh,        \* where each refresh is
    sourceOf,       \* the source it replaces
    previous,       \* ids it found and deletes
    clearing,       \* legacy rows its transaction has deleted
    answer,         \* the status it was answered with
    overlapped,     \* history: it ran while another refresh of its source did
    latest,         \* history: per source, the refresh that committed last
    aborts          \* bound: transactions that failed

holdingsVars == <<snapshots, legacy, rowsOf, refresh, sourceOf, previous, clearing,
                  answer, overlapped, latest, aborts>>

File == "file_upload"
Robinhood == "robinhood_mcp"
Sources == {File, Robinhood}

-----------------------------------------------------------------------------
(* The holdings table.  A line is blank, broken, or a position.            *)

DatesOf(positions) == {p.date : p \in positions} \ {Missing}
AnyDate(positions) == IF DatesOf(positions) = {} THEN {Missing} ELSE DatesOf(positions)

PositionLines(table) == {i \in DOMAIN table.lines : table.lines[i].kind # "blank"}
ParsedRows(table) == {table.lines[i].row : i \in PositionLines(table)}

\* A broken line, a line beyond the limit or a second date refuses the whole file.
TableAccepted(table) ==
    /\ table.columns = "complete"
    /\ Len(table.lines) <= MaxLines
    /\ \A i \in PositionLines(table) : table.lines[i].kind = "position"
    /\ PositionLines(table) # {}
    /\ Cardinality(DatesOf(ParsedRows(table))) <= 1

\* What the two upload requests answer before anything is stored; 201 goes on.
UploadStatus(table) ==
    CASE table.file = "missing" -> 404
      [] table.file \in {"unnamed", "not_utf8", "unreadable"} -> 422
      [] table.file = "too_large" -> 413
      [] table.file = "read" -> IF TableAccepted(table) THEN 201 ELSE 422

-----------------------------------------------------------------------------
(* Robinhood position records.  A zero is as absent as a missing field     *)
(* where the code chains fields with "or".                                 *)

Truthy(v) == v # Missing /\ v # 0
FirstTruthy(a, b) == IF Truthy(a) THEN a ELSE b

UnpricedSymbols(records) ==
    {r.symbol : r \in {q \in records : q.price = Missing /\ q.value = Missing}} \ {Missing}

\* The quote of a symbol is asked for when a record of it has no price at all.
LivePrice(records, quotes, r) ==
    IF r.symbol \in UnpricedSymbols(records) /\ r.symbol \in DOMAIN quotes
    THEN quotes[r.symbol] ELSE Missing

GivenPrice(records, quotes, r) ==
    IF Truthy(r.price) THEN r.price ELSE LivePrice(records, quotes, r)
GivenValue(r) == IF Truthy(r.value) THEN r.value ELSE Missing
GivenQuantity(r) == FirstTruthy(r.quantity, r.shares)

Incomplete(records, quotes, r) ==
    \/ r.symbol = Missing
    \/ GivenQuantity(r) = Missing
    \/ /\ GivenPrice(records, quotes, r) = Missing
       /\ GivenValue(r) = Missing \/ GivenQuantity(r) = 0

NormalizedPosition(records, quotes, r) ==
    [symbol |-> r.symbol, account |-> r.account, date |-> r.date,  \* the day observed, if none
     value |-> IF GivenValue(r) # Missing THEN GivenValue(r)
               ELSE GivenQuantity(r) * GivenPrice(records, quotes, r)]

NormalizedPositions(reply) ==
    {NormalizedPosition(reply.records, reply.quotes, r) : r \in reply.records}

ProviderStatus ==
    [auth_required |-> 401, auth_expired |-> 401, denied_tool |-> 403,
     capability_drift |-> 409, rate_limited |-> 429, partial_response |-> 502,
     invalid_response |-> 502, timeout |-> 504, unavailable |-> 503]

\* What the sync answers before anything is stored; 201 goes on.
SyncStatus(reply) ==
    CASE reply.outcome \in {"data_disabled", "robinhood_disabled", "not_connected"} -> 409
      [] reply.outcome \in DOMAIN ProviderStatus -> ProviderStatus[reply.outcome]
      [] reply.outcome = "unexpected_error" -> 502
      [] reply.outcome = "positions" ->
           IF \E r \in reply.records : Incomplete(reply.records, reply.quotes, r)
           THEN ProviderStatus["partial_response"]
           ELSE IF reply.records = {} THEN 422 ELSE 201

\* What is uploaded, read and left behind is finite, and a value that is given is a number.
ASSUME HoldingsInputs ==
    /\ \A t \in FileTables :
          /\ t.file \in {"missing", "unnamed", "not_utf8", "unreadable", "too_large", "read"}
          /\ IsFiniteSet(DOMAIN t.lines)
          /\ \A i \in DOMAIN t.lines :
                t.lines[i].kind = "position" => t.lines[i].row.value \in Int
    /\ \A g \in GatewayReplies :
          /\ \/ g.outcome \in DOMAIN ProviderStatus
             \/ g.outcome \in {"data_disabled", "robinhood_disabled", "not_connected",
                               "unexpected_error", "positions"}
          /\ IsFiniteSet(g.records)
          /\ \A p \in g.records :
                {p.quantity, p.shares, p.price, p.value} \subseteq Int \cup {Missing}
          /\ \A s \in DOMAIN g.quotes : g.quotes[s] \in Int \cup {Missing}
    /\ IsFiniteSet(OldRows) /\ \A p \in OldRows : p.value \in Int

-----------------------------------------------------------------------------
(* The merged view.                                                        *)

Tagged(source, rows) ==
    {[source |-> source, symbol |-> p.symbol, account |-> p.account, value |-> p.value] :
        p \in rows}

\* Robinhood hides other rows of its symbols; per symbol and account the row of
\* the largest value is shown.
Merged(rows) ==
    LET live == {p.symbol : p \in {q \in rows : q.source = Robinhood}}
        kept == {p \in rows : p.source = Robinhood \/ p.symbol \notin live}
        SameKey(p) == {q \in kept : q.symbol = p.symbol /\ q.account = p.account}
        Largest(p) == {q \in SameKey(p) : \A o \in SameKey(p) : o.value <= q.value}
    IN {CHOOSE q \in Largest(p) : TRUE : p \in kept}

StoredRows == (UNION {Tagged(sourceOf[r], rowsOf[r]) : r \in snapshots}) \cup legacy
View == Merged(StoredRows)

-----------------------------------------------------------------------------

HoldingsInit ==
    /\ snapshots = {}
    /\ legacy = OldRows
    /\ rowsOf = [r \in Refreshes |-> {}]
    /\ refresh = [r \in Refreshes |-> "new"]
    /\ sourceOf = [r \in Refreshes |-> Missing]
    /\ previous = [r \in Refreshes |-> {}]
    /\ clearing = [r \in Refreshes |-> {}]
    /\ answer = [r \in Refreshes |-> Missing]
    /\ overlapped = {}
    /\ latest = [s \in Sources |-> Missing]
    /\ aborts = 0

Running == {"legacy", "find", "delete", "insert", "commit"}
InFlight(s) == {r \in Refreshes : refresh[r] \in Running /\ sourceOf[r] = s}

Refuse(r, code) ==
    /\ refresh' = [refresh EXCEPT ![r] = "done"]
    /\ answer' = [answer EXCEPT ![r] = code]
    /\ UNCHANGED <<snapshots, legacy, rowsOf, sourceOf, previous, clearing,
                   overlapped, latest, aborts>>

\* _store_holdings compares the requested date with one of the dates the rows
\* carry: whichever the set yields first.
StoreHoldings(r, source, rows, requested) ==
    \E embedded \in AnyDate(rows) :
        IF requested # Missing /\ embedded # Missing /\ requested # embedded
        THEN Refuse(r, 422)
        ELSE /\ refresh' = [refresh EXCEPT ![r] = "legacy"]
             /\ sourceOf' = [sourceOf EXCEPT ![r] = source]
             /\ rowsOf' = [rowsOf EXCEPT ![r] = rows]
             /\ overlapped' = IF InFlight(source) = {} THEN overlapped
                              ELSE overlapped \cup InFlight(source) \cup {r}
             /\ UNCHANGED <<snapshots, legacy, previous, clearing, answer, latest, aborts>>

\* upload_portfolio and upload_portfolio_file
Upload(r, table, requested) ==
    /\ refresh[r] = "new"
    /\ IF UploadStatus(table) # 201
       THEN Refuse(r, UploadStatus(table))
       ELSE StoreHoldings(r, File, ParsedRows(table), requested)

\* sync_robinhood_portfolio: the snapshot's date is the latest of its positions
SyncRobinhood(r, reply) ==
    /\ refresh[r] = "new"
    /\ IF SyncStatus(reply) # 201
       THEN Refuse(r, SyncStatus(reply))
       ELSE LET rows == NormalizedPositions(reply) IN
            \E newest \in DatesOf(rows) :
                /\ \A d \in DatesOf(rows) : d <= newest
                /\ StoreHoldings(r, Robinhood, rows, newest)

DeleteLegacyRows(r) ==
    LET mine == {p \in legacy : p.source = sourceOf[r]} IN
    /\ refresh[r] = "legacy"
    /\ \A q \in Refreshes \ {r} : clearing[q] \cap mine = {}
    /\ clearing' = [clearing EXCEPT ![r] = mine]
    /\ refresh' = [refresh EXCEPT ![r] = "find"]
    /\ UNCHANGED <<snapshots, legacy, rowsOf, sourceOf, previous, answer,
                   overlapped, latest, aborts>>

\* Mutant: only the newest snapshot of the source is looked for.
FindNewest(r) ==
    /\ refresh[r] = "find"
    /\ previous' = [previous EXCEPT ![r] = snapshots \cap {latest[sourceOf[r]]}]
    /\ refresh' = [refresh EXCEPT ![r] = "delete"]
    /\ UNCHANGED <<snapshots, legacy, rowsOf, sourceOf, clearing, answer,
                   overlapped, latest, aborts>>

FindPrevious(r) ==
    /\ refresh[r] = "find"
    /\ previous' = [previous EXCEPT ![r] = {q \in snapshots : sourceOf[q] = sourceOf[r]}]
    /\ refresh' = [refresh EXCEPT ![r] = "delete"]
    /\ UNCHANGED <<snapshots, legacy, rowsOf, sourceOf, clearing, answer,
                   overlapped, latest, aborts>>

\* Waits for the transactions that deleted one of these rows before.
DeletePrevious(r) ==
    /\ refresh[r] = "delete"
    /\ \A q \in Refreshes \ {r} :
          refresh[q] \in {"insert", "commit"} => previous[q] \cap previous[r] = {}
    /\ previous' = [previous EXCEPT ![r] = @ \cap snapshots]
    /\ refresh' = [refresh EXCEPT ![r] = "insert"]
    /\ UNCHANGED <<snapshots, legacy, rowsOf, sourceOf, clearing, answer,
                   overlapped, latest, aborts>>

\* The snapshot and its positions are flushed, and the merged view of the
\* answer is read, inside the transaction.
InsertSnapshot(r) ==
    /\ refresh[r] = "insert"
    /\ refresh' = [refresh EXCEPT ![r] = "commit"]
    /\ UNCHANGED <<snapshots, legacy, rowsOf, sourceOf, previous, clearing, answer,
                   overlapped, latest, aborts>>

CommitRefresh(r) ==
    /\ refresh[r] = "commit"
    /\ snapshots' = (snapshots \ previous[r]) \cup {r}
    /\ legacy' = legacy \ clearing[r]
    /\ clearing' = [clearing EXCEPT ![r] = {}]
    /\ latest' = [latest EXCEPT ![sourceOf[r]] = r]
    /\ answer' = [answer EXCEPT ![r] = 201]
    /\ refresh' = [refresh EXCEPT ![r] = "done"]
    /\ UNCHANGED <<rowsOf, sourceOf, previous, overlapped, aborts>>

\* Any statement, or the commit, may fail: the session is rolled back.
AbortRefresh(r) ==
    /\ refresh[r] \in Running
    /\ aborts < MaxAborts
    /\ aborts' = aborts + 1
    /\ clearing' = [clearing EXCEPT ![r] = {}]
    /\ answer' = [answer EXCEPT ![r] = 500]
    /\ refresh' = [refresh EXCEPT ![r] = "done"]
    /\ UNCHANGED <<snapshots, legacy, rowsOf, sourceOf, previous, overlapped, latest>>

HoldingsNext ==
    \E r \in Refreshes :
        \/ \E table \in FileTables, d \in FormDates : Upload(r, table, d)
        \/ \E reply \in GatewayReplies : SyncRobinhood(r, reply)
        \/ DeleteLegacyRows(r)
        \/ FindPrevious(r)
        \/ DeletePrevious(r)
        \/ InsertSnapshot(r)
        \/ CommitRefresh(r)
        \/ AbortRefresh(r)

HoldingsSpec == HoldingsInit /\ [][HoldingsNext]_holdingsVars

-----------------------------------------------------------------------------

Steps == Running \cup {"new", "done"}

\* Types of the holdings variables.
HoldingsTypeOK ==
    /\ snapshots \subseteq Refreshes
    /\ legacy \subseteq OldRows
    /\ refresh \in [Refreshes -> Steps]
    /\ sourceOf \in [Refreshes -> Sources \cup {Missing}]
    /\ previous \in [Refreshes -> SUBSET Refreshes]
    /\ clearing \in [Refreshes -> SUBSET OldRows]
    /\ overlapped \subseteq Refreshes
    /\ latest \in [Sources -> Refreshes \cup {Missing}]
    /\ aborts \in 0..MaxAborts

StoredOf(s) == {q \in snapshots : sourceOf[q] = s}

\* A refresh that no other refresh of its source ran beside, and that committed last, is all
\* that is stored of its source: what replace_source_positions promises ("atomically replace
\* one source scope without erasing other sources"), whatever the requests before it left
\* behind, two snapshots of one source among them.
RefreshStands ==
    \A s \in Sources :
        /\ latest[s] # Missing => StoredOf(s) # {}
        /\ latest[s] # Missing /\ latest[s] \notin overlapped =>
              StoredOf(s) = {latest[s]} /\ {p \in legacy : p.source = s} = {}

\* No security is counted twice in the merged view, even while raced refreshes have left two
\* snapshots of one source: one row per symbol and account, from one source per symbol, and
\* no stored symbol is lost from sight (_merge_source_positions).
NothingCountedTwice ==
    /\ \A p, q \in View :
          /\ p.symbol = q.symbol => p.source = q.source \/ Robinhood \notin {p.source, q.source}
          /\ p # q => p.symbol # q.symbol \/ p.account # q.account
    /\ {p.symbol : p \in View} = {p.symbol : p \in StoredRows}

\* What the holdings promise: the last refresh stands, and the merged view counts it once.
HoldingsStand == RefreshStands /\ NothingCountedTwice
=============================================================================
