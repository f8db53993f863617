--------------------------- MODULE EtfSelection ---------------------------
(***************************************************************************)
(* The fixed ranking of candidate funds (portfolio/etf_selection.py):      *)
(* what evidence speaks of a candidate, its score and penalties, which     *)
(* candidates are eligible, the selection of at most MaxSelected funds of  *)
(* different exposures, and the audit of a selection.                      *)
(*                                                                         *)
(* A score is in hundredths of a point.  A passage of evidence is reduced  *)
(* to what the score looks at; the texts of a decision are left out.       *)
(***************************************************************************)
EXTENDS Integers, FiniteSets, Sequences, Selections
LOCAL INSTANCE FiniteSetsExt

CONSTANTS
    Unnamed,        \* no symbol, no exposure, no date
    MaxSelected,    \* MAX_SELECTED_CANDIDATES
    SymbolRank      \* the alphabetical place of each symbol

MinimumScore == 3000

Between(x, low, high) == IF x < low THEN low ELSE IF x > high THEN high ELSE x
Bonus(condition, points) == IF condition THEN points ELSE 0
SumOf(S, Value(_)) == MapThenSumSet(Value, S)

-----------------------------------------------------------------------------
(* Evidence and score of one candidate.                                    *)

Peers(c, candidates) == Cardinality({d \in candidates : d.exposure = c.exposure})

\* Among peers of one exposure only a passage that names the fund counts.
Matches(row, c, candidates) ==
    \/ row.about = c.symbol
    \/ Peers(c, candidates) = 1 /\ row.exposure = c.exposure

Matched(c, candidates, rows) == {row \in rows : Matches(row, c, candidates)}
Citations(c, candidates, rows) == {row.citation : row \in Matched(c, candidates, rows)}

MarketScore(matched) ==
    100 * Between(10 + 3 * SumOf(matched, LAMBDA r : r.positive)
                     - 2 * SumOf(matched, LAMBDA r : r.negative), 0, 25)

EvidenceScore(matched) ==
    100 * Between(6 + 3 * Cardinality({r.citation : r \in matched})
                    + 3 * Cardinality({r.domain : r \in matched})
                    + Bonus(\E r \in matched : r.primary, 3)
                    + Bonus(\E r \in matched : r.dated, 2), 0, 25)

\* The words the code looks for in a profile.  The horizons a profile form offers are
\* "Under 3 years", "3-10 years" and "10+ years": none of them is taken as short.
LongHorizon(p) == p.horizon = "10+ years"
ShortHorizon(p) == p.horizon \in {"0-3 years", "short term"}

Narrow(c) == c.category = "industry_research"

ProfileScore(c, p) ==
    100 * Between(
        12 + Bonus(LongHorizon(p), 4) - Bonus(ShortHorizon(p), 4)
           + Bonus(p.risk = "aggressive", IF Narrow(c) THEN 4 ELSE 2)
           - Bonus(p.risk = "conservative", IF Narrow(c) THEN 5 ELSE 2)
           - Bonus(p.liquidity = "high", 4) + Bonus(p.liquidity = "low", 2)
           - Bonus(Narrow(c) /\ p.beginner, 3)
           + Bonus(p.style = "macro", 2) - Bonus(p.style = "strategic" /\ Narrow(c), 2)
           + (IF p.budget > 0 THEN 3 ELSE -2), 0, 25)

DcaProfile(p) ==
    p.budget > 0 /\ p.risk # "conservative" /\ ~ ShortHorizon(p) /\ p.liquidity # "high"

Held(positions) == {q.symbol : q \in positions}

Mode(c, positions) ==
    IF c.symbol \in Held(positions) THEN "existing_holding_review"
    ELSE IF c.related # {} THEN "diversifying_replacement" ELSE "new_exposure"

\* The share of the portfolio in the fund and the stocks mapped to it, at 30 points a whole and
\* no more than 15, rounded to hundredths.
ConcentrationPenalty(near, total) ==
    IF 2 * near > total THEN 1500 ELSE (6000 * near + total) \div (2 * total)
RelatedPenalty(c, positions) ==
    LET total == SumOf(positions, LAMBDA q : q.value)
        near == {q \in positions : q.symbol \in c.related \cup {c.symbol}}
    IN IF total = 0 THEN 0 ELSE ConcentrationPenalty(SumOf(near, LAMBDA q : q.value), total)

Expense(c, matched) ==
    LET known == {r.expense : r \in {q \in matched : q.about = c.symbol}} \ {Unnamed}
    IN IF known = {} THEN Unnamed ELSE CHOOSE e \in known : TRUE
LiquidityOf(c, matched) == {r.liquidity : r \in {q \in matched : q.about = c.symbol}}

ExpensePenalty(e) ==
    IF e = Unnamed THEN 150 ELSE IF e > 50 THEN 500 ELSE IF e > 25 THEN 200 ELSE 0

LiquidityPenalty(words) ==
    IF words \ {Unnamed} = {} THEN 150 ELSE IF "thin" \in words THEN 600 ELSE 0

Penalties(c, positions, matched) ==
    Bonus(Mode(c, positions) = "existing_holding_review", 200)
      + RelatedPenalty(c, positions)
      + (IF Narrow(c) THEN 400 ELSE 150)
      + ExpensePenalty(Expense(c, matched))
      + LiquidityPenalty(LiquidityOf(c, matched))

Score(c, q) ==
    LET matched == Matched(c, q.candidates, q.rows)
    IN ProfileScore(c, q.profile) + MarketScore(matched) + EvidenceScore(matched)
         - Penalties(c, q.positions, matched)

Scores(q) == [c \in q.candidates |-> Score(c, q)]

\* A question of comparable peers without evidence of this one is without evidence too.
Eligible(c, q, scores) ==
    /\ c.referenced
    /\ Matched(c, q.candidates, q.rows) # {}
    /\ scores[c] >= MinimumScore

-----------------------------------------------------------------------------
(* Ranking and audit.                                                      *)

Ahead(c, d, scores) ==
    \/ scores[c] > scores[d]
    \/ /\ scores[c] = scores[d]
       /\ SymbolRank[c.symbol] < SymbolRank[d.symbol]

Ranked(eligible, scores) ==
    Sorted(eligible, {p \in eligible \X eligible : Ahead(p[1], p[2], scores)})
Ranking(q, scores) == Ranked({c \in q.candidates : Eligible(c, q, scores)}, scores)

\* Mutant of FirstOfExposure: exposures that are selected are not remembered.
EveryRank(ranking) == DOMAIN ranking

\* Down the ranking, the first fund of each exposure, until enough are selected.
FirstOfExposure(ranking) ==
    {i \in DOMAIN ranking : \A j \in 1 .. (i - 1) : ranking[j].exposure # ranking[i].exposure}
Selection(ranking) ==
    LET firsts == Pick(ranking, FirstOfExposure(ranking))
    IN  SubSeq(firsts, 1, Between(Len(firsts), 0, MaxSelected))

DcaSuitable(c, q, score) ==
    /\ Mode(c, q.positions) = "new_exposure"
    /\ DcaProfile(q.profile)
    /\ score >= IF Narrow(c) THEN 5500 ELSE 4800

EtfDecision(c, q, rank, score) ==
    [symbol |-> c.symbol, rank |-> rank, score |-> score, mode |-> Mode(c, q.positions),
     citations |-> Citations(c, q.candidates, q.rows), dca |-> DcaSuitable(c, q, score)]

DecidedOn(chosen, q, scores) ==
    [rank \in DOMAIN chosen |-> EtfDecision(chosen[rank], q, rank, scores[chosen[rank]])]
EtfDecisionsBy(q, scores) == DecidedOn(Selection(Ranking(q, scores)), q, scores)
EtfDecisions(q) == EtfDecisionsBy(q, Scores(q))

\* What is asked: finitely many funds of different symbols, each with a score and a place in the
\* alphabet.
SymbolsAreUnique(q) == \A c, d \in q.candidates : c.symbol = d.symbol => c = d
Ordered(E, scores) ==
    /\ IsFiniteSet(E)
    /\ \A c \in E : scores[c] \in Int /\ SymbolRank[c.symbol] \in Int
    /\ \A c, d \in E : SymbolRank[c.symbol] = SymbolRank[d.symbol] => c = d
Askable(q, scores) == SymbolsAreUnique(q) /\ Ordered(q.candidates, scores)

\* audit_etf_selection: the invariants of a ranking, from its decisions and the inputs.
AuditPasses(decisions, q) ==
    /\ Len(decisions) <= MaxSelected
    /\ \A i, j \in DOMAIN decisions : decisions[i].symbol = decisions[j].symbol => i = j
    /\ \A i \in DOMAIN decisions : decisions[i].rank = i
    /\ \A i, j \in DOMAIN decisions : i < j =>
          \/ decisions[i].score > decisions[j].score
          \/ /\ decisions[i].score = decisions[j].score
             /\ SymbolRank[decisions[i].symbol] < SymbolRank[decisions[j].symbol]
    /\ \A i \in DOMAIN decisions : \E c \in q.candidates :
          /\ c.symbol = decisions[i].symbol
          /\ decisions[i].score >= MinimumScore
          /\ decisions[i].citations # {}
          /\ decisions[i].citations \subseteq {r.citation : r \in q.rows}
          /\ decisions[i].mode = Mode(c, q.positions)
          /\ decisions[i].mode # "new_exposure" => ~ decisions[i].dca

-----------------------------------------------------------------------------

\* Every ranking passes the independent audit, whatever the funds, holdings and evidence;
\* no two selected funds have one exposure; no eligible fund that was passed over is better than
\* a selected one unless a selected fund has its exposure; and no evidence of one peer supports
\* another (select_etf_candidates, audit_etf_selection).
SelectionStands(q, scores, chosen) ==
    /\ \A c, d \in chosen : c.exposure = d.exposure => c = d
    /\ \A c \in q.candidates \ chosen : Eligible(c, q, scores) =>
          \/ \E d \in chosen : d.exposure = c.exposure /\ Ahead(d, c, scores)
          \/ Cardinality(chosen) = MaxSelected /\ \A d \in chosen : Ahead(d, c, scores)
    /\ \A c \in chosen : Peers(c, q.candidates) > 1 =>
          \E r \in q.rows : r.about = c.symbol
SelectionPasses(q, scores, decisions) ==
    /\ AuditPasses(decisions, q)
    /\ SelectionStands(q, scores, {c \in q.candidates :
                                      \E i \in DOMAIN decisions : decisions[i].symbol = c.symbol})
SelectionBy(q, scores) == SelectionPasses(q, scores, EtfDecisionsBy(q, scores))
SoundSelection(q) == SelectionBy(q, Scores(q))
=============================================================================
