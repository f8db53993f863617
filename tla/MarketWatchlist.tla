-------------------------- MODULE MarketWatchlist --------------------------
(***************************************************************************)
(* What a market analysis makes of its evidence and of the model's answer  *)
(* (portfolio/market_analysis.py): the passages it keeps, the citations it *)
(* repairs, the watchlist block it reads, and the fixed watchlist that     *)
(* replaces it when the deterministic engine ranked the funds.             *)
(*                                                                         *)
(* A passage has a chunk, a key, a domain and the market cues it states    *)
(* completely.  A line of an answer has a form, the citations in brackets, *)
(* and the terms it shares with each accepted passage.                     *)
(***************************************************************************)
EXTENDS EtfSelection, Selections

CONSTANTS
    EvidenceLimit,  \* 8: passages an answer may use
    PayloadLimit    \* 10: watchlist items that are looked at

ASSUME WatchlistAssumption ==
    EvidenceLimit \in Nat /\ PayloadLimit \in Nat /\ MaxSelected \in Nat

-----------------------------------------------------------------------------
(* Evidence.                                                               *)

\* Results of both searches, each key once.
Distinct(results) ==
    Pick(results, {i \in DOMAIN results : \A j \in 1..(i - 1) : results[j].key # results[i].key})

\* A passage is accepted for the first cue it states, the cues in their order; the query
\* itself is asked only when no cue accepts anything.
FirstCue(r, cues) ==
    CHOOSE k \in DOMAIN cues : cues[k] \in r.cues /\ \A j \in 1..(k - 1) : cues[j] \notin r.cues
GateAccepted(results, cues, fallback) ==
    LET states == {i \in DOMAIN results : \E k \in DOMAIN cues : cues[k] \in results[i].cues}
        cue == [i \in states |-> FirstCue(results[i], cues)]
        found == Sorted(states, {p \in states \X states :
                     cue[p[1]] < cue[p[2]] \/ (cue[p[1]] = cue[p[2]] /\ p[1] < p[2])})
    IN IF states # {} THEN [k \in DOMAIN found |-> results[found[k]]]
       ELSE Pick(results, {i \in DOMAIN results : fallback \in results[i].cues})

\* The portfolio facet over all results, then what only the sector facet accepts.
Accepted(results, second, drivers, sector, fallback) ==
    LET first == GateAccepted(results, drivers \o sector, fallback)
        more == GateAccepted(second, sector, "sector outlook")
    IN IF first = <<>> THEN <<>>
       ELSE first \o Pick(more, {i \in DOMAIN more : \A j \in DOMAIN first : first[j] # more[i]})

DomainsOf(items) == {items[i].domain : i \in DOMAIN items} \ {Unnamed}

\* One passage of every domain before a second of any, up to the limit.
FirstOfDomain(items) ==
    {i \in DOMAIN items : /\ items[i].domain # Unnamed
                          /\ \A j \in 1..(i - 1) : items[j].domain # items[i].domain}
DiverseEvidence(items) ==
    LET new == FirstOfDomain(items)
        ranked == Pick(items, new) \o Pick(items, DOMAIN items \ new)
    IN SubSeq(ranked, 1, IF Len(ranked) < EvidenceLimit THEN Len(ranked) ELSE EvidenceLimit)

\* What both searches add up to; the second is judged on what it adds, and nothing is used
\* unless the portfolio facet over everything accepted something.
AcceptedFrom(e, all, before) ==
    Accepted(all, SubSeq(all, before + 1, Len(all)), e.drivers, e.sector, e.fallback)
MarketEvidence(e) == AcceptedFrom(e, Distinct(e.first \o e.second), Len(Distinct(e.first)))

-----------------------------------------------------------------------------
(* Citations.                                                              *)

\* A bracket that names only supplied passages is rewritten in the exact form; any other one
\* keeps the form the model gave it, and only an exact one counts as a citation.
Rewritten(line, allowed) ==
    IF line.cited # {} /\ line.cited \subseteq allowed THEN [line EXCEPT !.exact = TRUE] ELSE line

\* An uncited prose line of four terms or more is given the passage it shares most terms
\* with, if they are at least three.  (A line that says "[source:" in any other way is no
\* such line: its form is "other".)
Attached(line, allowed) ==
    LET best == {c \in allowed : \A d \in allowed : line.shared[d] <= line.shared[c]}
    IN IF line.form # "prose" \/ line.exact \/ best = {}
          \/ \A c \in best : line.shared[c] < 3
       THEN line
       ELSE [line EXCEPT !.cited = {CHOOSE c \in best : TRUE}, !.exact = TRUE]

Repaired(answer, allowed) ==
    [i \in DOMAIN answer |-> Attached(Rewritten(answer[i], allowed), allowed)]

CitedBy(answer) == UNION {answer[i].cited : i \in {j \in DOMAIN answer : answer[j].exact}}
CitationStatus(answer, allowed) ==
    IF CitedBy(answer) = {} THEN "missing"
    ELSE IF CitedBy(answer) \subseteq allowed THEN "validated" ELSE "invalid"

-----------------------------------------------------------------------------
(* The watchlist block.                                                    *)

CandidateOf(symbol, candidates) == CHOOSE c \in candidates : c.symbol = symbol
Known(item, candidates) == \E c \in candidates : c.symbol = item.symbol

\* Nothing but an unknown citation beside an accepted one is forgiven.
ItemAccepted(payload, i, q) ==
    LET item == payload[i] IN
    /\ i <= MaxSelected
    /\ item.object
    /\ Known(item, q.candidates)
    /\ item.citations \cap {r.citation : r \in q.rows} # {}
    /\ item.complete
    /\ item.dca \in BOOLEAN
    /\ LET mode == Mode(CandidateOf(item.symbol, q.candidates), q.positions) IN
       /\ item.mode = mode
       /\ mode # "new_exposure" => mode \in item.speaks

ItemTaken(item, q) ==
    [symbol |-> item.symbol, mode |-> item.mode,
     citations |-> item.citations \cap {r.citation : r \in q.rows},
     dca |-> item.mode = "new_exposure" /\ item.dca]

ItemsTaken(read, q) ==
    LET taken == Pick(read, {i \in DOMAIN read : ItemAccepted(read, i, q)})
    IN [n \in DOMAIN taken |-> ItemTaken(taken[n], q)]
ModelWatchlist(payload, q) ==
    ItemsTaken(SubSeq(payload, 1, IF Len(payload) < PayloadLimit THEN Len(payload)
                                  ELSE PayloadLimit), q)

\* The model's words explain the fixed ranking only if it repeats every decision of it.
ExplanationsMatch(decisions, watchlist) ==
    /\ Len(watchlist) = Len(decisions)
    /\ \A i \in DOMAIN decisions :
          /\ watchlist[i].symbol = decisions[i].symbol
          /\ watchlist[i].mode = decisions[i].mode
          /\ watchlist[i].dca = decisions[i].dca
          /\ watchlist[i].citations # {}
          /\ watchlist[i].citations \subseteq decisions[i].citations

FixedBy(decisions, watchlist) ==
    [i \in DOMAIN decisions |->
        [symbol |-> decisions[i].symbol, mode |-> decisions[i].mode,
         citations |-> decisions[i].citations, dca |-> decisions[i].dca,
         words |-> IF ExplanationsMatch(decisions, watchlist) THEN "model" ELSE "fixed"]]
FixedWatchlist(payload, q) == FixedBy(EtfDecisions(q), ModelWatchlist(payload, q))

Watchlist(engine, payload, q) ==
    IF engine = "deterministic" THEN FixedWatchlist(payload, q) ELSE ModelWatchlist(payload, q)

\* The share of the satellite budget that each row of the response shows: whole dollars, the
\* first suitable rows one more; the shares are looked up by symbol, and the last share of a
\* symbol stands.
SuitableRows(list) == {i \in DOMAIN list : list[i].dca}
BudgetShare(i, n, dollars) == dollars \div n + (IF i <= dollars % n THEN 1 ELSE 0)
RowAmounts(list, dollars) ==
    LET suitable == Pick(list, SuitableRows(list))
        LastOf(s) == {i \in DOMAIN suitable : /\ suitable[i].symbol = s
                                              /\ \A j \in DOMAIN suitable :
                                                    suitable[j].symbol = s => j <= i}
    IN [k \in DOMAIN list |->
          IF dollars > 0 /\ LastOf(list[k].symbol) # {}
          THEN BudgetShare(CHOOSE i \in LastOf(list[k].symbol) : TRUE, Len(suitable), dollars)
          ELSE 0]

-----------------------------------------------------------------------------

\* What an answer is: its exact lines cite something, and every line counts the terms it shares
\* with each passage.
AnswerLines(said, allowed) ==
    \A i \in DOMAIN said :
        /\ said[i] = [form |-> said[i].form, cited |-> said[i].cited,
                        exact |-> said[i].exact, shared |-> said[i].shared]
        /\ said[i].exact => said[i].cited # {}
        /\ \A key \in allowed : said[i].shared[key] \in Int

\* Results, cues and lines come in lists.
EvidenceAskable(e) ==
    /\ e.first \in Seq(Range(e.first)) /\ e.second \in Seq(Range(e.second))
    /\ e.drivers \in Seq(Range(e.drivers)) /\ e.sector \in Seq(Range(e.sector))
    /\ AnswerLines(e.answer, {r.key : r \in Range(e.first) \cup Range(e.second)})

\* Domain diversity: a domain with an accepted passage is missing from the evidence only if
\* the evidence is full of passages of other domains, one each; and nothing is used twice.
DiversityKept(items, kept) ==
    /\ DomainsOf(kept) # DomainsOf(items) =>
          Len(kept) = EvidenceLimit /\ Cardinality(DomainsOf(kept)) = EvidenceLimit
    /\ \A i, j \in DOMAIN kept : kept[i].key = kept[j].key => i = j
    /\ Len(kept) = EvidenceLimit \/ Len(kept) = Len(items)

\* The evidence of an answer is diverse, and the repair of its citations invents nothing: a
\* line gains only citations of supplied passages, an answer that cites anything else stays
\* invalid, and one is called uncited only if no prose line shares three terms with a passage
\* (_select_domain_diverse_evidence, _normalize_known_citations,
\* _attach_verifiable_market_citations).
RepairKept(answer, repaired, allowed) ==
    /\ CitedBy(repaired) \ CitedBy(answer) \subseteq allowed
    /\ CitationStatus(answer, allowed) = "invalid" =>
          CitationStatus(repaired, allowed) = "invalid"
    /\ CitationStatus(repaired, allowed) = "missing" =>
          \A i \in DOMAIN answer, key \in allowed :
              answer[i].form = "prose" => answer[i].shared[key] < 3
AnswerOn(e, allowed) == RepairKept(e.answer, Repaired(e.answer, allowed), allowed)
EvidenceOn(e, accepted, kept) ==
    DiversityKept(accepted, kept) /\ AnswerOn(e, {kept[i].key : i \in DOMAIN kept})
EvidenceFrom(e, accepted) == EvidenceOn(e, accepted, DiverseEvidence(accepted))
SoundEvidence(e) == EvidenceFrom(e, MarketEvidence(e))

\* Whatever the model writes, a watchlist only names funds of the controlled universe with
\* evidence that was supplied, never more than MaxSelected, and never proposes to add what is
\* held or overlaps a holding.
ItemControlled(item, q) ==
    /\ Known(item, q.candidates)
    /\ item.citations # {}
    /\ item.citations \subseteq {r.citation : r \in q.rows}
    /\ item.dca => {p.symbol : p \in q.positions}
                      \cap ({item.symbol} \cup CandidateOf(item.symbol, q.candidates).related) = {}
ListControlled(list, q) ==
    Len(list) <= MaxSelected /\ \A i \in DOMAIN list : ItemControlled(list[i], q)
ControlledWatchlist(engine, payload, q) == ListControlled(Watchlist(engine, payload, q), q)

\* A row that is not suitable for a monthly amount shows none.
OnlySuitableShow(list, dollars) ==
    \A i \in DOMAIN list \ SuitableRows(list) : RowAmounts(list, dollars)[i] = 0

\* The amounts that the suitable rows of a watchlist show stay within the budget; under the
\* fixed ranking every fund is listed once, no other row shows an amount, and the amounts spend
\* all of the budget if any row is suitable.
WatchlistKeeps(engine, list, dollars) ==
    LET amounts == RowAmounts(list, dollars)
        suitable == SuitableRows(list)
    IN  /\ AddUp(suitable, amounts) <= dollars
        /\ engine = "deterministic" =>
              /\ \A i, j \in DOMAIN list : list[i].symbol = list[j].symbol => i = j
              /\ OnlySuitableShow(list, dollars)
              /\ suitable # {} => AddUp(suitable, amounts) = dollars
SoundWatchlist(engine, payload, q, dollars) ==
    WatchlistKeeps(engine, Watchlist(engine, payload, q), dollars)
=============================================================================
