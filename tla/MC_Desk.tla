------------------------------ MODULE MC_Desk ------------------------------
(* Instance of Desk for TLC: three requests at a time for the components   *)
(* with rows, and the questions the calculators are asked, chosen at the   *)
(* edges of their rules.                                                   *)
EXTENDS Desk, TLC

CONSTANTS q1, q2, q3, a1, a2, r1, r2, m1, m2, M

Symmetry == Permutations({q1, q2, q3})

-----------------------------------------------------------------------------
(* Holdings: two symbols, one of them with the same key in both sources.   *)

Row(symbol, account, value, date) ==
    [symbol |-> symbol, account |-> account, value |-> value, date |-> date]
Line(row) == [kind |-> "position", row |-> row]
Blanks == [kind |-> "blank", row |-> Missing]
Broken == [kind |-> "broken", row |-> Missing]
Table(lines) == [file |-> "read", columns |-> "complete", lines |-> lines]

MCFileTables ==
    {Table(<<Line(Row("VTI", "x", 2, 1)), Blanks, Line(Row("BND", "x", 1, Missing))>>),
     Table(<<Line(Row("BND", "x", 3, Missing)), Line(Row("BND", "x", 2, Missing))>>),
     Table(<<Line(Row("VTI", "x", 2, 1)), Line(Row("BND", "x", 1, 2))>>),
     Table(<<Line(Row("VTI", "x", 2, 1)), Broken>>),
     [Table(<<>>) EXCEPT !.file = "too_large"]}

Observed(symbol, quantity, price, value, date) ==
    [symbol |-> symbol, account |-> "x", quantity |-> quantity, shares |-> Missing,
     price |-> price, value |-> value, date |-> date]
Positions(records) ==
    [outcome |-> "positions", records |-> records, quotes |-> ("VTI" :> 4)]

MCGatewayReplies ==
    {Positions({Observed("VTI", 2, Missing, Missing, 2)}),
     Positions({Observed("VTI", 1, 5, Missing, 1), Observed("BND", 1, 0, 3, 2)}),
     Positions({Observed("VTI", 0, 5, Missing, 1)}),
     Positions({}),
     [Positions({}) EXCEPT !.outcome = "timeout"]}

\* Rows without a snapshot of one source only: two refreshes that delete such rows wait for
\* each other and leave no two snapshots.
MCOldRows == {[source |-> File, symbol |-> "BND", account |-> "x", value |-> 9]}

-----------------------------------------------------------------------------
(* Profiles and alerts.                                                    *)

MCStyleAliases == "old" :> "strategic_index"
MCMethodLists == {<<>>, <<m1, m2>>}

\* Beside the defaults (enabled, standard) each changes one column.
MCChoices == {[enabled |-> FALSE, sensitivity |-> "standard"],
              [enabled |-> TRUE, sensitivity |-> "active"]}

Position(symbol, data, tilt, drawdown, trend, share) ==
    [symbol |-> symbol, data |-> data, tilt |-> tilt, drawdown |-> drawdown,
     trend |-> trend, elevated |-> TRUE, share |-> share]
\* The standard sensitivity says buy, the active one both buy and reduce.
MCScenes ==
    {<<Position("VTI", "usable", "under", -16, "flat", 30),
       Position("VXUS", "stale", "over", -9, "flat", 30)>>}

-----------------------------------------------------------------------------
(* Plans.                                                                  *)

MCToday == [year |-> 2025, month |-> 6]

CashGoal(target, months, priority) ==
    [known |-> TRUE, target |-> target, months |-> months, priority |-> priority]
MCCashCases ==
    [reserve : {Unset, 500}, essentials : {100}, months : {3}, build : {0, 4},
     goals : {<<>>,
              <<CashGoal(310, 7, "urgent")>>,
              <<CashGoal(400, 3, "flexible"), CashGoal(200, 2, "important"),
                CashGoal(100, Unset, "urgent")>>,
              <<CashGoal(90, 0, "flexible"), CashGoal(90, 5, "whim"),
                [CashGoal(70, 3, "urgent") EXCEPT !.known = FALSE],
                CashGoal(110, 9, "urgent")>>},
     nearName : {"car"}, nearAmount : {250}, nearMonths : {Unset, 6},
     education : BOOLEAN, tuition : {700}, year : {2025, 2026},
     savings : {0, 150, 650}, contribution : {60}, income : {Unset, 200, 900},
     spending : {100}]

MCRetirementCases ==
    [uploaded : {0, 40},
     profile : [age : {60}, retire : {60, 61, 62}, until : {63}, spending : {Blank, 10},
                essentials : {6}, account : {"mixed", "traditional_ira"},
                share : {Blank, 50}, income : {5, 12}, incomeTaxable : {TRUE},
                tax : {20}, growth : {1, 2}, inflation : {1, 2}, adjust : BOOLEAN,
                planned : {0, 25}, savings : {Blank, 90}]]

Pack(equity, share, gold, alternatives) ==
    [equity |-> equity, share |-> share, gold |-> gold, alternatives |-> alternatives]
\* The policies of the built-in packs, and custom ones at the bounds of a policy.
MCGuidanceCases ==
    [risk : {"conservative", "moderate", "aggressive", "other"},
     horizon : {"under3", "medium", "long", "other"}, stability : {"low", "high", "other"},
     liquidity : {"medical", "high", "other"}, stage : {"family", "retired", "other"},
     income : {"none", "some"},
     pack : {Pack(0, 20, 0, 0), Pack(0, 25, 0, 0), Pack(500, 20, 0, 0), Pack(-500, 25, 250, 0),
             Pack(1000, 33, 130, 370), Pack(-1000, 40, -250, 500)}]

-----------------------------------------------------------------------------
(* The summary.                                                            *)

MCClassOrder == <<"alternatives", "bond", "commodity", "crypto", "equity", "etf",
                  "international equity">>
Held1(symbol, label, value, price) ==
    [symbol |-> symbol, label |-> label, value |-> value, price |-> price]
MCHeld ==
    {Held1("AAPL", "stock", 4000, 1100), Held1("QQQ", "etf", 0, 300),
     Held1("VTI", "equity", 700, 250), Held1("BND", "bonds", 2300, 900),
     Held1("BTC", "crypto", 900, 5000), Held1("CASH", "cash", 1000, 100)}
Goal1(label, percent) == [label |-> label, percent |-> percent]
MCTargets ==
    {<<>>,
     <<Goal1("equity", 60), Goal1("bonds", 40)>>,
     <<Goal1("equity", 50), Goal1("bond", 30), Goal1("fixed income", 20)>>,
     <<Goal1("equity", 45), Goal1("bond", 25), Goal1("gold", 13),
       Goal1("international equity", 17)>>}
MCSummaryCases ==
    [positions : {<<Held1("VTI", "equity", 700, 250), a, b>> : a, b \in MCHeld}
                    \cup {<<a>> : a \in MCHeld},
     profile : {NoValue} \cup
        [targets : MCTargets, threshold : {5}, fractional : {FALSE}, contribution : {0, 3333},
         satellite : {2050}, growth : {TRUE}, growthHorizon : {TRUE}],
     quotes : {"VXUS" :> 150 @@ "VOO" :> 0}, suitable : {3}]

-----------------------------------------------------------------------------
(* Funds: two peers of one exposure and one of another.                    *)

MCSymbolRank == "SMH" :> 1 @@ "SOXX" :> 2 @@ "XLV" :> 3
Fund(symbol, exposure, category, related, referenced) ==
    [symbol |-> symbol, exposure |-> exposure, category |-> category, related |-> related,
     referenced |-> referenced]
MCFunds ==
    {Fund("SMH", "semis", "industry_research", {"NVDA"}, TRUE),
     Fund("SOXX", "semis", "industry_research", {}, TRUE),
     Fund("XLV", "health", "sector_research", {}, TRUE)}
Fact(citation, about, exposure, domain) ==
    [citation |-> citation, about |-> about, exposure |-> exposure, positive |-> 4,
     negative |-> 0, domain |-> domain, primary |-> TRUE, dated |-> TRUE, expense |-> 20,
     liquidity |-> "deep"]
MCFacts ==
    {Fact("W1", "SMH", "semis", "d1"), Fact("W2", "SOXX", "semis", "d2"),
     [Fact("W3", Unnamed, "health", "d3") EXCEPT !.positive = 1],
     [Fact("W4", "SOXX", "semis", "d3") EXCEPT !.liquidity = "thin", !.expense = 60]}
MCSelectionCases ==
    [candidates : {MCFunds},
     positions : {{}, {[symbol |-> "NVDA", value |-> 10]},
                  {[symbol |-> "XLV", value |-> 4], [symbol |-> "KO", value |-> 6]}},
     profile : [horizon : {"10+ years", "short term"}, risk : {"aggressive", "conservative"},
                liquidity : {"low", "high"}, beginner : {TRUE}, style : {"macro"},
                budget : {0, 5}],
     rows : {rows \in SUBSET MCFacts : Cardinality(rows) # 1}]

Item(symbol, mode, citations, dca) ==
    [object |-> TRUE, symbol |-> symbol, mode |-> mode, citations |-> citations,
     complete |-> TRUE, dca |-> dca, speaks |-> {"existing_holding_review"}]
MCItems ==
    {Item("SMH", "new_exposure", {"W1"}, TRUE),
     Item("XLV", "new_exposure", {"W3", "W9"}, TRUE),
     Item("XLV", "existing_holding_review", {"W3"}, TRUE),
     Item("XLV", "new_exposure", {"W3"}, FALSE),
     Item("KO", "new_exposure", {"W9"}, FALSE),
     [Item("SOXX", "new_exposure", {}, FALSE) EXCEPT !.object = FALSE]}
MCPayloads ==
    {<<>>} \cup {<<i>> : i \in MCItems} \cup {<<i, j>> : i, j \in MCItems}
        \cup {<<i, i, j>> : i, j \in MCItems}
MCWatchlistCases ==
    [engine : {"deterministic", "model"}, payload : MCPayloads, dollars : {0, 5},
     given : {q \in MCSelectionCases :
                 /\ q.candidates = MCFunds /\ q.rows \in {MCFacts, {}}
                 /\ q.profile.horizon = "10+ years" /\ q.profile.risk = "aggressive"
                 /\ q.profile.liquidity = "low" /\ q.profile.budget = 5}]

-----------------------------------------------------------------------------
(* Evidence and citations.                                                 *)

Passage(key, domain, cues) == [key |-> key, domain |-> domain, cues |-> cues]
MCPassages ==
    {Passage("W1", "d1", {"rates"}), Passage("W2", "d1", {"rates", "sector demand"}),
     Passage("W3", "d2", {"sector demand"}), Passage("W4", Unnamed, {"risk"}),
     Passage("W5", "d3", {})}
Shares4(a, b) == [key \in {"W1", "W2", "W3", "W4", "W5"} |->
                    IF key = "W1" THEN a ELSE IF key = "W3" THEN b ELSE 0]
MCLine(form, cited, exact, a, b) ==
    [form |-> form, cited |-> cited, exact |-> exact, shared |-> Shares4(a, b)]
MCLines ==
    {MCLine("prose", {}, FALSE, 3, 4), MCLine("prose", {"W1"}, FALSE, 0, 2),
     MCLine("prose", {"W9"}, TRUE, 4, 0), MCLine("other", {"W1", "W9"}, FALSE, 4, 4)}
MCEvidenceCases ==
    [first : {<<>>} \cup {<<a, b>> : a, b \in MCPassages},
     second : {<<>>} \cup {<<b>> : b \in MCPassages},
     drivers : {<<"rates">>}, sector : {<<"sector demand">>}, fallback : {"risk"},
     answer : {<<l>> : l \in MCLines} \cup {<<k, l>> : k, l \in MCLines}]

-----------------------------------------------------------------------------
(* The market map: today is day 7.                                         *)

Bar(day, volume, close) ==
    [day |-> day, volume |-> volume, close |-> close, interpolated |-> FALSE]
Seen(day, volume, close) == [day |-> day, volume |-> volume, close |-> close]
MCBars ==
    {<<>>,
     <<Bar(2, 4, 10), Bar(3, 5, 0), Bar(3, 6, 12), Bar(5, 7, 11), Bar(6, 30, 13), Bar(7, 2, 14)>>,
     <<Bar(3, 5, 10), Bar(4, 5, 10), Bar(5, 5, 0), Bar(6, 9, 10)>>}
MCCached == {<<>>, <<Seen(4, 3, Unquoted), Seen(6, 5, 10)>>}
Quote(last, close, move, day) ==
    [last |-> last, close |-> close, closeDay |-> 5, move |-> move, volume |-> 40, day |-> day]
MCServed == {Unquoted, Quote(12, 10, 0, 7), Quote(12, 0, 5, 6), Quote(0, 10, 0, Unquoted)}
MCHoldingRows ==
    {<<>>,
     <<[symbol |-> "VTI", quantity |-> 2, value |-> 30, price |-> 0, day |-> 3],
       [symbol |-> "VTI", quantity |-> 1, value |-> 0, price |-> 9, day |-> Unquoted]>>}
Both(S) == {"VTI" :> x @@ "BND" :> y : x, y \in S}
MCMapCases ==
    [enabled : {TRUE}, configured : {"robinhood"}, robinhood : {TRUE}, source : {"none"},
     gateway : {TRUE}, history : BOOLEAN, refresh : BOOLEAN, symbols : {<<"VTI", "BND">>},
     served : Both(MCServed), failing : {{}}, lost : {{}, {2}}, bars : {"VTI" :> x @@ "BND" :> <<Bar(6, 9, 10)>> : x \in MCBars},
     cache : Both(MCCached), positions : {<<>>}, today : {7}]
    \cup
    [enabled : BOOLEAN, configured : {"robinhood", "other"}, robinhood : BOOLEAN,
     source : {"none", "robinhood", "other"}, gateway : BOOLEAN, history : {FALSE},
     refresh : {FALSE}, symbols : {<<"VTI", "BND">>}, served : Both({Quote(12, 10, 0, 7)}),
     failing : {{}, {1}}, lost : {{}}, bars : Both({<<>>}), cache : Both({<<>>}),
     positions : MCHoldingRows, today : {7}]

-----------------------------------------------------------------------------
(* Search: five chunks at the least depths, the results of a search cut    *)
(* at two.  Day 10 lies between the chunks; today is day 60.               *)

MCRarity ==
    <<<<41, 29>>, <<69, 51, 41>>, <<92, 69, 56, 47>>, <<110, 85, 69, 59, 51>>,
      <<125, 98, 81, 69, 61, 54>>>>

Sentence(words, years, size) ==
    [words |-> words, years |-> years, size |-> size, form |-> "plain", cjk |-> FALSE]
NoTable == [columns |-> <<>>, periods |-> <<>>]
Chunk(id, document, index, evidence, published, text) ==
    [chunk |-> id, document |-> document, index |-> index, scope |-> "public",
     evidence |-> evidence, published |-> published, asOf |-> M, csv |-> FALSE, text |-> text,
     table |-> NoTable, title |-> {"gold"}, embedded |-> TRUE]

Period(name) == [name |-> name, years |-> {name}]
Column(terms, cells) == [terms |-> terms, cells |-> cells]
MCTable ==
    [periods |-> <<Period("2022"), Period("2023"), Period("2024")>>,
     columns |-> <<Column({"gold", "price"}, <<5, 9, 7>>), Column({"bank", "demand"}, <<4, M, 2>>),
                   Column({"real", "rate"}, <<M, 3, M>>), Column({"note"}, <<M, M, M>>),
                   Column({"gold", "etf", "return"}, <<1, 2, 2>>),
                   Column({"usd", "share"}, <<3, 0, 1>>), Column({"fund", "flow"}, <<6, 6, 6>>)>>]

\* The first two are of one page; the first holds the words apart, the third together, later.
Page1 == Chunk(1, 1, 0, 11, 5, <<[Sentence({"why", "gold"}, {}, 30) EXCEPT !.form = "heading"],
                                 Sentence({"gold", "mine"}, {}, 300),
                                 Sentence({"bank", "demand", "because"}, {"2024"}, 320)>>)
Page1b == Chunk(2, 1, 1, 11, 5, <<Sentence({"gold", "demand", "bank", "drive"}, {"2024"}, 90),
                                  Sentence({"gold", "fund"}, {}, 60)>>)
Page2 == [Chunk(3, 1, 2, 12, 5, <<Sentence({"gold", "demand", "risk", "however"}, {}, 80),
                                   Sentence({"oil", "price"}, {"2023"}, 10)>>) EXCEPT !.asOf = 18]
Copy == [Page1b EXCEPT !.chunk = 4, !.index = 3, !.evidence = 12]
Paper == [Chunk(4, 2, 0, 13, M, <<Sentence({"gold", "oil"}, {}, 50),
                                  Sentence({"oil", "risk", "mechanism", "causal"}, {}, 50)>>)
              EXCEPT !.scope = "private", !.title = {"oil", "risk"}]
Loose == [Chunk(4, 3, 0, M, 9, <<[Sentence({"gold", "bank"}, {"2024"}, 70) EXCEPT !.cjk = TRUE]>>)
              EXCEPT !.embedded = FALSE]
Csv == [Chunk(5, 4, 0, 14, M, <<Sentence({"gold", "price", "bank", "demand", "flow"},
                                         {"2022", "2023", "2024"}, 200)>>)
            EXCEPT !.csv = TRUE, !.table = MCTable, !.title = {"market"}]

\* Found by the words themselves but broken off, and found by the follow-up only.
Decoy(id, index) == Chunk(id, 6, index, id, M, <<[Sentence({"oil", "price"}, {}, 60 + index)
                                                     EXCEPT !.form = "broken"]>>)
Target(id, document) ==
    [Chunk(id, document, 0, id, 8, <<Sentence({"oil", "mechanism", "causal"}, {}, 60)>>)
        EXCEPT !.title = {}]

MCLibraries ==
    {<<>>, <<Target(1, 4), Target(2, 5), Decoy(3, 0), Decoy(5, 2)>>,
     <<Page1, Page1b, Page2, Paper, Csv>>, <<Page1, Page1b, Page2, Copy>>,
     <<Page1, Page2, Loose, Csv>>, <<Paper, Csv>>}

Anchor(words) == [words |-> words, digits |-> FALSE]
Question(words, years, themes) ==
    [words |-> words, years |-> years, spaced |-> FALSE, summary |-> FALSE, themes |-> themes,
     anchors |-> {[words |-> {y}, digits |-> TRUE] : y \in years}
                     \cup (IF Cardinality(words) = 2 THEN {Anchor(words)} ELSE {}),
     gaps |-> themes \cap {"causal", "comparison", "current", "risk"}]
MCQuestions ==
    {Question({"gold", "demand"}, {}, {}),
     Question({"gold", "demand"}, {}, {"risk", "current"}),
     [Question({"mine", "oil"}, {}, {"causal", "comparison"}) EXCEPT !.spaced = TRUE],
     [Question({"oil", "price", "mechanism"}, {}, {"causal", "recommendation"}) EXCEPT
        !.anchors = {Anchor({"oil", "price"}), Anchor({"price", "mechanism"})}],
     Question({"bank", "gold"}, {"2024"}, {"comparison"}),
     Question({"factor", "gold"}, {"2023"}, {"causal"}),
     Question({"buy", "gold"}, {}, {"recommendation", "valuation"}),
     [Question({"summary"}, {}, {}) EXCEPT !.summary = TRUE]}

Stores == {<<"sqlite", "local">>, <<"sqlite", "remote">>, <<"postgresql", "remote">>}
Scopes == {<<M, M>>, <<1, M>>, <<M, "public">>}
MCSearchCases ==
    {[query |-> q, library |-> l, document |-> s[1], scope |-> s[2], asOf |-> d, today |-> 60,
      database |-> store[1], provider |-> store[2], hints |-> h, topK |-> k] :
        q \in MCQuestions, l \in MCLibraries, s \in Scopes, d \in {M, 10}, store \in Stores,
        h \in {<<>>, <<[words |-> {}, anchors |-> {}]>>, <<Template({"downside"})>>},
        k \in {1, 3}}
=============================================================================
