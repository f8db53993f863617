------------------------------ MODULE MarketMap ------------------------------
(***************************************************************************)
(* GET /portfolio/market-map: which quotes are shown and as what           *)
(* (api/portfolio.py), the Robinhood quotes with their daily history and   *)
(* its cache (market_data/robinhood.py), the volume activity               *)
(* (market_data/volume.py), the uploaded fallback (market_data/uploaded.py)*)
(* and the tiles (portfolio/heatmap.py).                                   *)
(*                                                                         *)
(* A question q has the settings, the symbols in order, what the gateway   *)
(* serves, the numbers of the quote batches and history batches that fail, *)
(* the cached history, the holdings and today's day.  A zero of a provider *)
(* counts as no value ("or" chains).  Volumes stand for their logarithms,  *)
(* percentages are in basis points.                                        *)
(***************************************************************************)
EXTENDS Integers, Sequences, FiniteSets, Selections

CONSTANTS
    Unquoted,             \* no value
    QuoteBatch,         \* _QUOTE_BATCH_SIZE
    HistoryBatch,       \* _HISTORICAL_BATCH_SIZE
    ReferenceSessions,  \* VOLUME_REFERENCE_SESSIONS
    MinimumSessions     \* VOLUME_MINIMUM_SESSIONS

ASSUME MarketMapAssumption == ReferenceSessions \in Nat /\ MinimumSessions \in Nat \ {0}

NonZero(number) == IF number = 0 THEN Unquoted ELSE number

PercentMove(last, close) == ((last - close) * 10000) \div close

-----------------------------------------------------------------------------
(* Daily history.                                                          *)

\* extract_daily_volumes: one complete session a day, the last one told of it wins.
Complete(bar, today) == bar.volume > 0 /\ bar.day < today /\ ~bar.interpolated
DailyVolumes(bars, today) ==
    LET told == {i \in DOMAIN bars : Complete(bars[i], today)}
        last == {i \in told : \A j \in told : bars[j].day = bars[i].day => j <= i}
        byDay == Sorted(last, {p \in last \X last : bars[p[1]].day < bars[p[2]].day})
        Volume(bar) == [day |-> bar.day, volume |-> bar.volume, close |-> NonZero(bar.close)]
    IN  [k \in DOMAIN byDay |-> Volume(bars[byDay[k]])]

LastOf(s, n) == SubSeq(s, IF Len(s) > n THEN Len(s) - n + 1 ELSE 1, Len(s))
BatchOf(i, size) == 1 + (i - 1) \div size

\* Only what is not cached is asked for, in batches; a failed batch leaves its symbols out.
Uncached(q) ==
    Pick(q.symbols, {i \in DOMAIN q.symbols : q.refresh \/ q.cache[q.symbols[i]] = <<>>})
Received(asked, lost) ==
    {asked[i] : i \in {i \in DOMAIN asked : BatchOf(i, HistoryBatch) \notin lost}}
ObservedOf(q, asked, received) ==
    [symbol \in received \cup (Range(q.symbols) \ Range(asked)) |->
        IF symbol \in received
        THEN LastOf(DailyVolumes(q.bars[symbol], q.today), ReferenceSessions + 1)
        ELSE q.cache[symbol]]
Observations(q) == ObservedOf(q, Uncached(q), Received(Uncached(q), q.lost))

\* Twice the median, so that the mean of two middle values stays an integer.
MiddleTwice(sorted, half) ==
    IF Len(sorted) % 2 = 1 THEN 2 * sorted[half + 1] ELSE sorted[half] + sorted[half + 1]
Ascending(values) ==
    LET at == Sorted(DOMAIN values, {p \in (DOMAIN values) \X (DOMAIN values) :
                  \/ values[p[1]] < values[p[2]]
                  \/ values[p[1]] = values[p[2]] /\ p[1] < p[2]})
    IN  [k \in DOMAIN at |-> values[at[k]]]
TwiceMedian(values) == MiddleTwice(Ascending(values), Len(values) \div 2)

Magnitude(n) == IF n < 0 THEN -n ELSE n
LastSession(observations) == observations[Len(observations)]
Reference(observations) ==
    LastOf(SubSeq(observations, 1, Len(observations) - 1), ReferenceSessions)
Centre(reference) == TwiceMedian([i \in DOMAIN reference |-> reference[i].volume])
FourMad(reference, centre) ==
    TwiceMedian([i \in DOMAIN reference |-> Magnitude(2 * reference[i].volume - centre)])

\* round((volume - centre) / (1.4826 * mad), 2) within 9.99, in hundredths.
Clipped(score) == IF score > 999 THEN 999 ELSE IF score < -999 THEN -999 ELSE score
VolumeScore(volume, centre, fourMad) ==
    Clipped(((2 * volume - centre) * 4000000 + 14826 * fourMad) \div (2 * 14826 * fourMad))

ActivityLabel(score) ==
    CASE score >= 300 -> "Unusual"
      [] score \in 200..299 -> "High"
      [] score \in 100..199 -> "Elevated"
      [] score \in -149..99 -> "Normal"
      [] score <= -150 -> "Quiet"

NoActivity(label, quality) == [score |-> Unquoted, label |-> label, quality |-> quality]

\* calculate_volume_activity
Scored(score) == [score |-> score, label |-> ActivityLabel(score), quality |-> "supported"]
Varying(volume, centre, fourMad) ==
    IF fourMad = 0 THEN NoActivity("Not enough variation", "insufficient_variation")
    ELSE Scored(VolumeScore(volume, centre, fourMad))
Against(volume, reference, centre) ==
    IF Len(reference) < MinimumSessions
    THEN NoActivity("Not enough history", "insufficient_sessions")
    ELSE Varying(volume, centre, FourMad(reference, centre))
Activity(observations) ==
    IF observations = <<>> THEN NoActivity("Not enough history", "no_complete_sessions")
    ELSE Against(LastSession(observations).volume, Reference(observations),
                 Centre(Reference(observations)))

-----------------------------------------------------------------------------
(* Live quotes.                                                            *)

\* _normalize_quote
NormalQuote(record) ==
    LET last == NonZero(record.last)
        close == NonZero(record.close)
        move == NonZero(record.move)
    IN  [last |-> last, close |-> close, closeDay |-> record.closeDay,
         move |-> IF move = Unquoted /\ last # Unquoted /\ close # Unquoted
                  THEN PercentMove(last, close) ELSE move,
         volume |-> NonZero(record.volume), day |-> record.day,
         activity |-> NoActivity("Not enough history", "not_available"),
         status |-> IF last = Unquoted THEN "unavailable" ELSE "live"]

\* _previous_completed_session
PreviousSessions(quote, observations) ==
    Pick(observations, {i \in DOMAIN observations :
        /\ observations[i].close # Unquoted
        /\ quote.day = Unquoted \/ observations[i].day < quote.day})

\* _quote_with_historical_context
WithHistory(quote, observations) ==
    LET before == PreviousSessions(quote, observations)
        latest == before[Len(before)]
        compared == IF before = <<>> \/ quote.last = Unquoted THEN quote
                    ELSE [quote EXCEPT !.close = latest.close, !.closeDay = latest.day,
                                       !.move = PercentMove(quote.last, latest.close)]
    IN  [compared EXCEPT !.activity = Activity(observations)]

Served(q) == {symbol \in Range(q.symbols) : q.served[symbol] # Unquoted}
LiveQuotes(q, observations) ==
    [symbol \in Served(q) |->
        IF q.history /\ symbol \in DOMAIN observations
        THEN WithHistory(NormalQuote(q.served[symbol]), observations[symbol])
        ELSE NormalQuote(q.served[symbol])]

\* Any quote batch that fails takes the whole answer with it.
QuotesFail(q) == \E i \in DOMAIN q.symbols : BatchOf(i, QuoteBatch) \in q.failing

-----------------------------------------------------------------------------
(* Which quotes are shown.                                                 *)

HeldAs(q, symbol) ==
    Pick(q.positions, {i \in DOMAIN q.positions : q.positions[i].symbol = symbol})
HeldSum(rows, field) == AddUp(DOMAIN rows, [i \in DOMAIN rows |-> rows[i][field]])
LastGiven(rows, field) ==
    LET found == Pick(rows, {i \in DOMAIN rows : rows[i][field] \notin {Unquoted, 0}})
    IN IF found = <<>> THEN Unquoted ELSE found[Len(found)][field]

\* UploadedSnapshotMarketDataSource: the value over the quantity, else the last stored price.
UploadedPrice(rows, quantity, value) ==
    IF quantity > 0 /\ value > 0 THEN value \div quantity
    ELSE LastGiven(rows, "price")
UploadedQuote(rows, price) ==
    [last |-> price, close |-> Unquoted, closeDay |-> Unquoted,
     move |-> Unquoted, volume |-> Unquoted,
     day |-> LastGiven(rows, "day"),
     activity |-> NoActivity("Not enough history", "not_available"),
     status |-> IF price = Unquoted THEN "unavailable" ELSE "uploaded_snapshot"]
UploadedFrom(rows) ==
    UploadedQuote(rows, UploadedPrice(rows, HeldSum(rows, "quantity"), HeldSum(rows, "value")))
UploadedQuotes(q) == [symbol \in Range(q.symbols) |-> UploadedFrom(HeldAs(q, symbol))]

\* _resolve_market_data never asks another provider than the configured one.
SourceOf(q) ==
    IF q.source = "none" /\ q.configured = "robinhood" /\ q.gateway THEN "robinhood"
    ELSE q.source
Status(q) ==
    CASE ~q.enabled -> "external_disabled"
      [] q.enabled /\ q.configured = "robinhood" /\ ~q.robinhood -> "robinhood_disabled"
      [] OTHER ->
            CASE SourceOf(q) = "none" -> "connection_required"
              [] SourceOf(q) \notin {"none", q.configured} -> "provider_mismatch"
              [] SourceOf(q) = q.configured ->
                    IF QuotesFail(q) THEN "provider_error" ELSE "live"

\* The history is read after every quote batch was served; _cache_daily_volumes keeps nothing
\* empty.
CacheAfter(q, observations) ==
    [symbol \in DOMAIN q.cache |->
        IF /\ Status(q) = "live" /\ q.history
           /\ symbol \in DOMAIN observations /\ observations[symbol] # <<>>
        THEN observations[symbol]
        ELSE q.cache[symbol]]

\* build_heatmap_snapshot: a tile for each candidate, quoted or not.
TilesOf(q, shown) ==
    [symbol \in Range(q.symbols) |->
        [quote |-> IF symbol \in DOMAIN shown THEN shown[symbol] ELSE Unquoted,
         held |-> HeldAs(q, symbol) # <<>>]]
Tiles(q, status, live) == TilesOf(q, IF status = "live" THEN live ELSE UploadedQuotes(q))

-----------------------------------------------------------------------------

\* The history of a symbol: complete sessions before today, one a day, in their order.
DaysInOrder(observations, today) ==
    /\ \A i \in DOMAIN observations : observations[i].day \in Int /\ observations[i].day < today
    /\ \A i, j \in DOMAIN observations : i < j => observations[i].day < observations[j].day
SessionList(observations, today) ==
    /\ observations \in Seq(Range(observations))
    /\ DaysInOrder(observations, today)
    /\ \A i \in DOMAIN observations : observations[i].volume \in Int

\* What a map is asked of: lists of symbols, holdings and bars, and a cache of what was kept
\* before for each of the symbols.
MapAskable(q) ==
    /\ q.today \in Int
    /\ q.symbols \in Seq(Range(q.symbols)) /\ q.positions \in Seq(Range(q.positions))
    /\ DOMAIN q.cache = Range(q.symbols)
    /\ \A symbol \in Range(q.symbols) :
          /\ q.bars[symbol] \in Seq(Range(q.bars[symbol]))
          /\ \A bar \in Range(q.bars[symbol]) : bar.day \in Int /\ bar.volume \in Int
          /\ SessionList(q.cache[symbol], q.today)
          /\ Len(q.cache[symbol]) <= ReferenceSessions + 1

\* Stored prices never pass for market data: when the answer is not live no tile has a daily
\* move, a volume or an activity, and its price is of the holdings; when it is live every
\* price is the provider's and no provider but the configured one was asked.
NothingPosesAsLive(q, status, tiles) ==
    \A symbol \in DOMAIN tiles :
        LET quote == tiles[symbol].quote IN
        IF status = "live"
        THEN /\ q.enabled /\ SourceOf(q) = q.configured
             /\ quote # Unquoted => q.served[symbol] # Unquoted
                                  /\ (quote.last # Unquoted => quote.last = q.served[symbol].last)
        ELSE /\ quote.status # "live"
             /\ quote.move = Unquoted /\ quote.volume = Unquoted /\ quote.activity.score = Unquoted
             /\ quote.last # Unquoted => tiles[symbol].held

\* A move is over a completed session before the quoted one: with history, the latest session
\* known before the quote that has a close; price, close and move belong together.
Earlier(quote, observations) ==
    {seen \in {observations[i] : i \in DOMAIN observations} :
        seen.close # Unquoted /\ (quote.day # Unquoted => seen.day < quote.day)}
OverASession(quote, earlier, today) ==
    (earlier # {} /\ quote.last # Unquoted) =>
        /\ \E seen \in earlier :
              /\ quote.close = seen.close
              /\ quote.closeDay = seen.day
              /\ \A other \in earlier : other.day <= quote.closeDay
        /\ quote.move = PercentMove(quote.last, quote.close)
        /\ quote.closeDay < today
MoveIsOverASession(q, status, live, observations) ==
    (status = "live" /\ q.history) =>
        \A symbol \in DOMAIN live \cap DOMAIN observations :
            OverASession(live[symbol], Earlier(live[symbol], observations[symbol]), q.today)

\* A failed history batch costs only its own symbols their volumes: no quote is lost, nothing
\* cached is forgotten, and what is cached is only complete sessions before today.
HistoryFailsAlone(q, status, live, cache) ==
    /\ (status = "live") => DOMAIN live = Served(q)
    /\ \A symbol \in DOMAIN q.cache :
          /\ q.cache[symbol] # <<>> => cache[symbol] # <<>>
          /\ \A seen \in Range(cache[symbol]) : seen.day < q.today
          /\ Len(cache[symbol]) <= ReferenceSessions + 1

\* A score needs MinimumSessions sessions before the observed one and volumes that vary, and
\* says Unusual exactly from 3 up.
Supported(activity, observations) ==
    activity.score # Unquoted =>
        /\ Len(observations) > MinimumSessions
        /\ Cardinality({seen.volume : seen \in Range(observations)}) > 1
        /\ (activity.label = "Unusual") <=> activity.score >= 300
ScoreIsSupported(q, observations) ==
    q.history =>
        \A symbol \in DOMAIN observations :
            Supported(Activity(observations[symbol]), observations[symbol])

\* The tiles and the history of a market map (api/portfolio.py get_portfolio_market_map).
ShownAsWhatItIs(q, observations) ==
    NothingPosesAsLive(q, Status(q), Tiles(q, Status(q), LiveQuotes(q, observations)))
MapKeeps(q, status, observations, live) ==
    /\ MoveIsOverASession(q, status, live, observations)
    /\ HistoryFailsAlone(q, status, live, CacheAfter(q, observations))
    /\ ScoreIsSupported(q, observations)
MapFrom(q, observations) == MapKeeps(q, Status(q), observations, LiveQuotes(q, observations))
SoundMarketMap(q) == MapFrom(q, Observations(q))
=============================================================================
