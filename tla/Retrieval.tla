----------------------------- MODULE Retrieval -----------------------------
(***************************************************************************)
(* The evidence tool: search of the stored chunks in four channels, their  *)
(* fusion, the gate that accepts only chunks with a passage that supports  *)
(* the question, the one follow-up it may ask for, and the answer the      *)
(* local model makes of what was accepted.                                 *)
(*                                                                         *)
(* The library is the sequence of the stored chunks by document and index; *)
(* a word counts once in a chunk.                                          *)
(* Similarity of embeddings and the rank of the full-text index of         *)
(* PostgreSQL are external: common words stand in for both.                *)
(***************************************************************************)
EXTENDS LocalAnswers, Selections
LOCAL INSTANCE SequencesExt

CONSTANTS
    ToolDepth, SearchDepth, MergeDepth, PoolDepth,  \* least results at each stage
    Rarity      \* Rarity[n][f]: 100 log(1 + n / (1 + f)), the weight of a word in f of n chunks

ASSUME RetrievalAssumption ==
    /\ {ToolDepth, SearchDepth, MergeDepth, PoolDepth} \subseteq Nat
    /\ SearchDepth <= ToolDepth /\ PoolDepth <= 10000

RrfK == 60
Channels == {"exact", "full_text", "semantic", "document_summary"}
Weight(channel) == IF channel = "exact" THEN 3 ELSE 1

\* The share of a rank, in units in which the first five ranks divide without rest.
RankShare(rank) == 495593280 \div (RrfK + rank)

\* A ranking: what is scored by score and, of equal scores, by place.
Entry(x, score, place) == [of |-> x, score |-> score, place |-> place]
ByScore(scored) ==
    LET order == Sorted(scored, {p \in scored \X scored :
                                    \/ p[1].score > p[2].score
                                    \/ p[1].score = p[2].score /\ p[1].place < p[2].place})
    IN [k \in DOMAIN order |-> order[k].of]

WordsIn(text) == UNION {text[i].words : i \in DOMAIN text}
YearsIn(text) == UNION {text[i].years : i \in DOMAIN text}
SizeOf(text) == FoldFunction(+, 0, [i \in DOMAIN text |-> text[i].size])
SearchTerms(q) == q.words \cup q.years

-----------------------------------------------------------------------------
(* The stored chunks a request may see.                                    *)

Dated(chunk, c) ==
    c.asOf # Void =>
        /\ chunk.published # Void => chunk.published <= c.asOf
        /\ chunk.asOf # Void => chunk.asOf <= c.asOf

Visible(chunk, c) ==
    /\ c.document \in {Void, chunk.document}
    /\ c.scope \in {Void, chunk.scope}
    /\ Dated(chunk, c)

ListChunkRecords(c) == Pick(c.library, {i \in DOMAIN c.library : Visible(c.library[i], c)})

NeighborOf(n, chunk) ==
    n.document = chunk.document /\ n.index \in (chunk.index - 1)..(chunk.index + 1)
ListNeighborChunks(chunk, c) ==
    Pick(c.library, {i \in DOMAIN c.library :
                        NeighborOf(c.library[i], chunk) /\ Dated(c.library[i], c)})

-----------------------------------------------------------------------------
(* The channels: each a ranking of at most pool chunks.                    *)

AnchorIn(anchor, text) ==
    \E i \in DOMAIN text : anchor.words \subseteq text[i].words \cup text[i].years

\* In units of 1 / (40 n) for n anchors.
ExactScore(q, chunk, matched) ==
    LET longest == CHOOSE a \in matched :
                       \A b \in matched : Cardinality(b.words) <= Cardinality(a.words)
    IN 40 * Cardinality(matched)
        + Cardinality(q.anchors) * (6 * Cardinality({a \in matched : a.digits})
              + Smaller(10, 2 * Cardinality(longest.words))
              + Smaller(6, Cardinality({a \in q.anchors : a.words \subseteq chunk.title})))

MatchedAnchors(q, chunk) == {a \in q.anchors : AnchorIn(a, chunk.text)}

ExactRanking(q, corpus) ==
    ByScore({Entry(chunk, ExactScore(q, chunk, MatchedAnchors(q, chunk)), chunk.chunk) :
                chunk \in {x \in corpus : MatchedAnchors(q, x) # {}}})

ExactResults(q, c, pool) == Upto(ExactRanking(q, Range(ListChunkRecords(c))), pool)

ChunkTerms(chunk) == chunk.title \cup WordsIn(chunk.text) \cup YearsIn(chunk.text)

BroadWords == {"affect", "driver", "factor", "influence", "price", "trend", "value"}

\* In units of 1 / (100 n) for n words of the question.
LexicalScore(q, chunk, corpus, terms, common) ==
    LET rare == [t \in common |->
                    Rarity[Cardinality(corpus)][Cardinality({d \in corpus : t \in ChunkTerms(d)})]]
        phrase == \E a \in q.anchors : Cardinality(a.words) = 2 /\ AnchorIn(a, chunk.text)
    IN Cardinality(common) * AddUp(common, rare)
        + Cardinality(terms) * (15 * Cardinality(terms \cap chunk.title)
                                  + (IF phrase THEN 25 ELSE 0))

NeededOverlap(terms, chunk) ==
    IF Cardinality(terms) <= 2 \/ (chunk.csv /\ terms \cap BroadWords # {}) THEN 1 ELSE 2

Overlapping(terms, chunk) ==
    terms # {} /\ Cardinality(terms \cap ChunkTerms(chunk)) >= NeededOverlap(terms, chunk)

LexicalRanking(q, corpus, terms) ==
    ByScore({Entry(chunk, LexicalScore(q, chunk, corpus, terms, terms \cap ChunkTerms(chunk)),
                    chunk.chunk) :
                chunk \in {x \in corpus : Overlapping(terms, x)}})

PortableFullTextResults(q, c, pool) ==
    Upto(LexicalRanking(q, Range(ListChunkRecords(c)), SearchTerms(q)), pool)

Common(q, chunk) ==
    Cardinality(SearchTerms(q) \cap (WordsIn(chunk.text) \cup YearsIn(chunk.text)))

\* The chunks with any of the words.
FullTextRanking(q, corpus) ==
    ByScore({Entry(chunk, Common(q, chunk), chunk.chunk) :
                chunk \in {x \in corpus : Common(q, x) > 0}})
SearchChunksFullText(q, c, pool) ==
    Upto(FullTextRanking(q, Range(ListChunkRecords(c))), pool)

FullTextResults(q, c, pool) ==
    IF c.database = "postgresql" THEN SearchChunksFullText(q, c, pool)
    ELSE PortableFullTextResults(q, c, pool)

EmbeddedChunks(records) == Pick(records, {i \in DOMAIN records : records[i].embedded})
ListChunkEmbeddings(c) == EmbeddedChunks(ListChunkRecords(c))

\* Every embedded chunk, however far; equal similarity keeps the order of the rows.
BySimilarity(q, rows) == ByScore({Entry(rows[i], Common(q, rows[i]), i) : i \in DOMAIN rows})

SemanticResults(q, c, pool) ==
    IF c.provider = "local" THEN <<>> ELSE Upto(BySimilarity(q, ListChunkEmbeddings(c)), pool)

\* To the nearest integer, halves to the even one.
HalfEven(a, b) ==
    LET down == a \div b
        rest == 2 * (a % b)
    IN IF rest < b \/ (rest = b /\ down % 2 = 0) THEN down ELSE down + 1

\* A summary of the one document in sight: chunks spread evenly over it.
Sampled(usable, size) ==
    Pick(usable, IF size = 1 THEN {1}
                 ELSE {1 + HalfEven(i * (Len(usable) - 1), size - 1) : i \in 0..(size - 1)})

UsableChunks(records) == Pick(records, {i \in DOMAIN records : SizeOf(records[i].text) >= 40})

SummarySample(records, usable, pool) ==
    IF Cardinality({chunk.document : chunk \in Range(records)}) # 1 \/ usable = <<>> THEN <<>>
    ELSE Sampled(usable, Smaller(pool, Len(usable)))

DocumentSummaryResults(q, c, pool) ==
    IF ~ q.summary THEN <<>>
    ELSE SummarySample(ListChunkRecords(c), UsableChunks(ListChunkRecords(c)), pool)

-----------------------------------------------------------------------------
(* Fusion of the channels.                                                 *)

Rankings(q, c, pool) ==
    [exact |-> ExactResults(q, c, pool), full_text |-> FullTextResults(q, c, pool),
     semantic |-> SemanticResults(q, c, pool),
     document_summary |-> DocumentSummaryResults(q, c, pool)]

RankOf(ranking, chunk) == CHOOSE i \in DOMAIN ranking : ranking[i] = chunk
Signals(rankings, chunk) == {ch \in Channels : chunk \in Range(rankings[ch])}

FusedScore(rankings, chunk) ==
    AddUp(Signals(rankings, chunk),
          [ch \in Channels |-> Weight(ch) * RankShare(RankOf(rankings[ch], chunk))])

\* Equal scores are told apart by the number of channels, of which there are four, then by the id.
RrfFuse(rankings) ==
    ByScore({Entry(chunk,
                    5 * FusedScore(rankings, chunk) + Cardinality(Signals(rankings, chunk)),
                    chunk.chunk) :
                chunk \in UNION {Range(rankings[ch]) : ch \in Channels}})

\* One of the chunks of a document with the same text.
DeduplicateResults(fused) ==
    Pick(fused, {i \in DOMAIN fused : \A j \in 1..(i - 1) :
                    \/ fused[j].document # fused[i].document
                    \/ fused[j].text # fused[i].text})

Joined(chunks) == FlattenSeq([i \in DOMAIN chunks |-> chunks[i].text])

WithNeighborContext(chunk, rankings, c) ==
    [chunk |-> chunk.chunk, of |-> chunk, signals |-> Signals(rankings, chunk),
     context |-> Joined(ListNeighborChunks(chunk, c))]

Expanded(best, rankings, c) == [k \in DOMAIN best |-> WithNeighborContext(best[k], rankings, c)]
BestOf(rankings, c, depth) ==
    Expanded(Upto(DeduplicateResults(RrfFuse(rankings)), depth), rankings, c)

Retrieve(q, c, depth) == BestOf(Rankings(q, c, Larger(PoolDepth, 4 * depth)), c, depth)

-----------------------------------------------------------------------------
(* The gate.                                                               *)

CoversYears(q, result) ==
    q.years \subseteq YearsIn(result.of.text) \cup YearsIn(result.context) \cup result.of.title

SummaryChunk(q, result) == q.summary /\ "document_summary" \in result.signals

LongerOf(context, text) == IF SizeOf(context) > SizeOf(text) THEN context ELSE text

\* The first of two texts that holds a supporting passage.
EitherPassage(first, second, asked, dated) ==
    IF SupportedPassage(first, asked, dated) = Void THEN SupportedPassage(second, asked, dated)
    ELSE SupportedPassage(first, asked, dated)

DirectSupport(q, result) ==
    IF result.of.csv THEN AnswerFromTable(q, result.of.table)
    ELSE IF ~ CoversYears(q, result) THEN Void
    ELSE IF SummaryChunk(q, result)
    THEN SupportedPassage(LongerOf(result.context, result.of.text), {}, FALSE)
    ELSE EitherPassage(LongerOf(result.context, result.of.text), result.of.text,
                       q.words \ GenericWords, q.years # {})

\* One passage of an item of evidence, but every chunk of a summary.
EvidenceIdentity(q, result) ==
    IF SummaryChunk(q, result) \/ result.of.evidence = Void
    THEN <<"chunk", result.chunk>> ELSE <<"evidence", result.of.evidence>>

WithPassage(result, passage) ==
    [chunk |-> result.chunk, of |-> result.of, signals |-> result.signals,
     context |-> result.context, passage |-> passage]

OnceSupported(q, judged) ==
    Pick(judged, {i \in DOMAIN judged :
        /\ judged[i].passage # Void
        /\ \A j \in 1..(i - 1) :
              judged[j].passage # Void =>
                  EvidenceIdentity(q, judged[j]) # EvidenceIdentity(q, judged[i])})

AcceptedEvidence(q, results) ==
    OnceSupported(q, [i \in DOMAIN results |->
                          WithPassage(results[i], DirectSupport(q, results[i]))])

Template(words) == [words |-> words, anchors |-> {[words |-> words, digits |-> FALSE]}]

GapThemes == <<"causal", "comparison", "current", "risk">>
GapWords == <<{"causal", "mechanism"}, {"direct", "comparison"}, {"latest", "dated"},
              {"downside", "risk"}, {"direct", "evidence"}>>

\* The query a gap is followed up with; the first theme the question raises decides.
GapTemplate(q) ==
    LET raised == {i \in DOMAIN GapThemes : GapThemes[i] \in q.gaps}
        first == CHOOSE i \in raised \cup {5} : \A j \in raised : i <= j
    IN Template(GapWords[first])

Extended(q, template) ==
    [q EXCEPT !.spaced = FALSE, !.words = @ \cup template.words,
              !.anchors = @ \cup template.anchors]

FollowUpQuery(q, hints) ==
    IF hints = <<>> THEN Extended(q, GapTemplate(q))
    ELSE IF Extended(q, hints[1]) = q THEN Extended(q, GapTemplate(q))
    ELSE Extended(q, hints[1])

Verdict(q, accepted, judged, final, hints) ==
    [accepted |-> accepted, judged |-> judged,
     decision |-> IF accepted # <<>> THEN "supported" ELSE IF final THEN "refuse" ELSE "gap",
     followUp |-> IF accepted # <<>> \/ final THEN Void ELSE FollowUpQuery(q, hints)]

EvaluateEvidence(q, results, final, hints) ==
    Verdict(q, AcceptedEvidence(q, results), Len(results), final, hints)

-----------------------------------------------------------------------------
(* The plan of a search and the adaptive search.                           *)

ThemeScore(theme) ==
    CASE theme \in {"causal", "comparison", "current"} -> 2
      [] theme = "recommendation" -> 3
      [] OTHER -> 1

ThemeSlots(theme) ==
    CASE theme = "causal" -> {"causal_chain"}
      [] theme = "current" -> {"current_context"}
      [] theme = "risk" -> {"risk", "counter_evidence"}
      [] theme = "recommendation" -> {"current_context", "risk", "counter_evidence"}
      [] OTHER -> {theme}

PlanOf(score, themes) ==
    [mode |-> IF score <= 1 THEN "fast" ELSE IF score <= 5 THEN "standard" ELSE "deep",
     slots |-> {"primary_evidence"} \cup UNION {ThemeSlots(t) : t \in themes},
     queries |-> IF score <= 1 THEN 1 ELSE 2]

Plan(q) == PlanOf(AddUp(q.themes, [t \in q.themes |-> ThemeScore(t)]), q.themes)

NormalizedQuery(q) == [q EXCEPT !.spaced = FALSE]

\* The results of the searches of one request; those of a follow-up weigh 0.85.
MergeQueryRankings(first, second, limit) ==
    LET InFirst(r) == \E f \in Range(first) : f.chunk = r.chunk
        merged == Range(first) \cup {r \in Range(second) : ~ InFirst(r)}
        Share(s, r) == AddUp({i \in DOMAIN s : s[i].chunk = r.chunk},
                             [i \in DOMAIN s |-> RankShare(i)])
    IN Upto(ByScore({Entry(r, 20 * Share(first, r) + 17 * Share(second, r), r.chunk) :
                        r \in merged}), limit)

SlotTerms(slot) ==
    CASE slot = "causal_chain" -> {"because", "due", "drives", "impact", "influence", "leads"}
      [] slot = "risk" -> {"downside", "limit", "risk", "uncertain", "warning"}
      [] slot = "counter_evidence" -> {"although", "but", "counter", "however", "opposite"}
      [] slot = "valuation" -> {"earnings", "multiple", "price", "valuation"}
      [] slot = "falsification" -> {"falsify", "invalidate", "unless", "would", "change"}
      [] OTHER -> {}

FreshnessDays == 45

\* The accepted results that fill a slot.
MatchingResults(slot, accepted, c) ==
    LET results == {accepted[i] : i \in DOMAIN accepted}
        Speaks(r) == (r.of.title \cup WordsIn(r.of.text) \cup WordsIn(r.context))
                        \cap SlotTerms(slot) # {}
        Date(r) == IF r.of.asOf # Void THEN r.of.asOf ELSE r.of.published
        today == IF c.asOf # Void THEN c.asOf ELSE c.today
    IN CASE slot = "comparison" ->
              IF Cardinality({r.of.document : r \in results}) >= 2 THEN results ELSE {}
         [] slot = "current_context" ->
              {r \in results : Date(r) # Void /\ today - Date(r) \in 0..FreshnessDays}
         [] SlotTerms(slot) # {} -> {r \in results : Speaks(r)}
         [] OTHER -> results

FilledSlots(slots, accepted, c) ==
    {slot \in slots :
        Cardinality(MatchingResults(slot, accepted, c)) >= (IF slot = "comparison" THEN 2 ELSE 1)}

Outcome(plan, gate, found, triggered, c, depth) ==
    [results |-> Upto(gate.accepted, depth), gate |-> gate, plan |-> plan,
     found |-> found, triggered |-> triggered,
     filled |-> FilledSlots(plan.slots, gate.accepted, c),
     stop |-> IF gate.decision = "supported" THEN "supported"
              ELSE IF plan.mode = "fast" THEN "fast_budget"
              ELSE IF triggered THEN "after_follow_up" ELSE "no_safe_follow_up"]

MergeLimit(depth) == Larger(3 * depth, MergeDepth)

AfterFollowUp(q, c, depth, plan, found) ==
    Outcome(plan,
            EvaluateEvidence(q, MergeQueryRankings(found[1], found[2], MergeLimit(depth)),
                             TRUE, c.hints),
            found, TRUE, c, depth)

\* A query that was asked already is not asked again, but counts as a follow-up.
AfterOpening(q, c, depth, plan, first, opening) ==
    IF opening.decision = "gap" /\ plan.queries > 1
    THEN AfterFollowUp(q, c, depth, plan,
             <<first, IF NormalizedQuery(opening.followUp) = NormalizedQuery(q) THEN <<>>
                      ELSE Retrieve(opening.followUp, c, Larger(depth, SearchDepth))>>)
    ELSE Outcome(plan, opening, <<first, <<>>>>, FALSE, c, depth)

AfterFirst(q, c, depth, plan, first) ==
    AfterOpening(q, c, depth, plan, first,
        EvaluateEvidence(q, MergeQueryRankings(first, <<>>, MergeLimit(depth)),
                         plan.queries = 1, c.hints))

AdaptiveSearch(q, c, depth) ==
    AfterFirst(q, c, depth, Plan(q), Retrieve(q, c, Larger(depth, SearchDepth)))

-----------------------------------------------------------------------------
(* The tool and the local model's answer.                                  *)

RetrieveEvidence(c, topK) ==
    [topK |-> topK, search |-> AdaptiveSearch(c.query, c, Larger(topK, ToolDepth))]

\* The rows of the reply.
ResultsOf(tool) == Upto(tool.search.results, tool.topK)

\* No passage stands for the answer that no evidence was found.
PassagesOf(results) == [k \in DOMAIN results |-> results[k].passage]
AnswerFromToolResult(tool) ==
    IF ResultsOf(tool) = <<>> \/ tool.search.gate.decision # "supported" THEN <<>>
    ELSE Upto(PassagesOf(ResultsOf(tool)), 3)

-----------------------------------------------------------------------------
(* What may be asked, and what is promised of the answer.                  *)

\* The stored chunks: a scope belongs to a document, and dates are numbers where given.
StoredLibrary(c) ==
    /\ {"library", "document", "scope", "asOf", "database", "provider"} \subseteq DOMAIN c
    /\ c.library \in Seq(Range(c.library))
    /\ c.asOf \in Int \cup {Void}
    /\ \A chunk \in Range(c.library) :
          chunk.published \in Int \cup {Void} /\ chunk.asOf \in Int \cup {Void}
    /\ \A a, b \in Range(c.library) : a.document = b.document => a.scope = b.scope

\* A chunk has an id of its own, a title and a text, each of so many words.
FiniteText(text) ==
    /\ text \in Seq(Range(text))
    /\ \A i \in DOMAIN text : IsFiniteSet(text[i].words) /\ IsFiniteSet(text[i].years)
ReadableChunks(library) ==
    /\ \A chunk \in Range(library) :
          /\ chunk.chunk \in Int /\ IsFiniteSet(chunk.title) /\ FiniteText(chunk.text)
          /\ chunk.csv => TableAskable(chunk.table)
    /\ \A i, j \in DOMAIN library : library[i].chunk = library[j].chunk => i = j

FiniteWords(asked) ==
    /\ IsFiniteSet(asked.words) /\ IsFiniteSet(asked.anchors)
    /\ \A a \in asked.anchors : IsFiniteSet(a.words)
WellAsked(q) ==
    {"words", "years", "anchors", "spaced"} \subseteq DOMAIN q /\ IsFiniteSet(q.years) /\ FiniteWords(q)

SearchAskable(c) ==
    /\ {"query", "hints", "topK", "today"} \subseteq DOMAIN c
    /\ StoredLibrary(c) /\ ReadableChunks(c.library)
    /\ \A n \in 1..Len(c.library) : \A f \in 1..n : Rarity[n][f] \in Int
    /\ WellAsked(c.query) /\ c.topK \in Nat \ {0}
    /\ c.hints \in Seq(Range(c.hints)) /\ \A hint \in Range(c.hints) : FiniteWords(hint)

\* What a request may not see (another document or scope, or later than the date it asks of)
\* changes nothing: not a rank, not a passage, not the context of a neighbour.
SeenOnly(c) ==
    LET Later(date) == c.asOf # Void /\ date # Void /\ date > c.asOf
        Hidden(chunk) == \/ c.document # Void /\ chunk.document # c.document
                         \/ c.scope # Void /\ chunk.scope # c.scope
                         \/ Later(chunk.published) \/ Later(chunk.asOf)
    IN [c EXCEPT !.library = Pick(@, {i \in DOMAIN @ : ~ Hidden(@[i])})]
NothingLeaks(c, tool) == tool = RetrieveEvidence(SeenOnly(c), c.topK)

\* Asking for fewer results changes only how many of them are returned.
FewerIsAPrefix(c, tool) ==
    c.topK < ToolDepth => tool.search = RetrieveEvidence(c, ToolDepth).search

\* Every chunk that was found is judged, the question is answered exactly if one was accepted,
\* a second search is made only after a first that supported nothing, and then only what it
\* added can be accepted.
SearchIsHonest(tool) ==
    LET search == tool.search
        gate == search.gate
        Ids(s) == {s[i].chunk : i \in DOMAIN s}
        first == Ids(search.found[1])
        second == Ids(search.found[2])
    IN /\ gate.judged = Cardinality(first \cup second)
       /\ gate.decision # "gap" /\ search.stop # "no_safe_follow_up"
       /\ (gate.decision = "supported") = (AnswerFromToolResult(tool) # <<>>)
       /\ "primary_evidence" \in search.filled <=> gate.decision = "supported"
       /\ second # {} => search.triggered
       /\ search.triggered =>
            search.plan.mode # "fast" /\ Ids(gate.accepted) \subseteq second \ first

\* No item of evidence is cited twice, but for the chunks of a summary.
CitedOnce(c, results) ==
    \A i, j \in DOMAIN results :
        LET a == results[i]
            b == results[j]
        IN i # j /\ a.of.evidence = b.of.evidence /\ a.of.evidence # Void =>
            SummaryChunk(c.query, a) \/ SummaryChunk(c.query, b)

\* A chunk that every channel which finds another one finds before it is fused before it.
FusionRespectsChannels(rankings, fused) ==
    LET Before(a, b) == \A ch \in Signals(rankings, b) :
                            /\ ch \in Signals(rankings, a)
                            /\ RankOf(rankings[ch], a) < RankOf(rankings[ch], b)
    IN \A i, j \in DOMAIN fused : Before(fused[i], fused[j]) => i <= j

\* Every table in the library is read truly.
TablesAreRead(c) ==
    \A chunk \in Range(c.library) :
        chunk.csv => TrueReading(c.query, chunk.table, AnswerFromTable(c.query, chunk.table),
                                 c.query.words \ GenericWords)

\* What a search of the library promises.
SearchKeeps(c, tool, rankings) ==
    /\ NothingLeaks(c, tool) /\ FewerIsAPrefix(c, tool)
    /\ SearchIsHonest(tool) /\ CitedOnce(c, ResultsOf(tool))
    /\ FusionRespectsChannels(rankings, RrfFuse(rankings))
    /\ TablesAreRead(c)
SearchStands(c) == SearchKeeps(c, RetrieveEvidence(c, c.topK), Rankings(c.query, c, PoolDepth))
=============================================================================
