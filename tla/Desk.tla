-------------------------------- MODULE Desk --------------------------------
(***************************************************************************)
(* The investment desk of the API: the components that serve the account   *)
(* and the market pages, side by side.  They share the database but no     *)
(* rows: a behaviour is one of one component, chosen at the start, and the *)
(* calculators answer one question each.                                   *)
(***************************************************************************)
EXTENDS Holdings, Profiles, MarketAlerts, MarketAnalysis, RobinhoodSidecar,
        CashPlanning, RetirementPlanning, AllocationGuidance, PortfolioSummary,
        MarketWatchlist, MarketMap, Retrieval

CONSTANTS
    NoQuestion,     \* a calculator that was not asked yet
    Today,          \* the date a cash plan starts from
    CashCases, RetirementCases, GuidanceCases, SummaryCases,
    SelectionCases, WatchlistCases, EvidenceCases, MapCases, SearchCases

\* The cases are what the API lets be asked: amounts that are numbers where they are given, style
\* packs within the bounds of their policy, funds of different symbols with a score, items and
\* positions in lists, chunks with an id of their own and finite texts.
ASSUME DeskAssumption ==
    /\ \A p \in CashCases : CashAskable(p, Today)
    /\ \A p \in GuidanceCases : PackAccepted(p.pack)
    /\ \A q \in SelectionCases : Askable(q, Scores(q))
    /\ \A w \in WatchlistCases :
          /\ Askable(w.given, Scores(w.given))
          /\ w.payload \in Seq({w.payload[i] : i \in DOMAIN w.payload})
          /\ w.dollars \in Nat
    /\ \A e \in EvidenceCases : EvidenceAskable(e)
    /\ \A q \in MapCases : MapAskable(q)
    /\ \A c \in SearchCases : SearchAskable(c)

VARIABLES
    part,           \* the component that is at work
    question        \* what a calculator was asked: [of, about]

components == <<holdingsVars, profilesVars, alertsVars, analysisVars, sidecarVars>>

Calculators == {"cash", "retirement", "guidance", "summary", "selection", "watchlist",
                "evidence", "map", "search"}
Parts == {"holdings", "profiles", "alerts", "analysis", "sidecar"} \cup Calculators

DeskInit ==
    /\ part \in Parts
    /\ question = NoQuestion
    /\ HoldingsInit /\ ProfilesInit /\ AlertsInit /\ AnalysisInit /\ SidecarInit
    /\ part # "sidecar" => offered \in Approved

Others(mine) == UNCHANGED <<part, question>> /\ part = mine

HoldingsStep ==
    Others("holdings") /\ HoldingsNext
        /\ UNCHANGED <<profilesVars, alertsVars, analysisVars, sidecarVars>>
ProfilesStep ==
    Others("profiles") /\ ProfilesNext
        /\ UNCHANGED <<holdingsVars, alertsVars, analysisVars, sidecarVars>>
AlertsStep ==
    Others("alerts") /\ AlertsNext
        /\ UNCHANGED <<holdingsVars, profilesVars, analysisVars, sidecarVars>>
AnalysisStep ==
    Others("analysis") /\ AnalysisNext
        /\ UNCHANGED <<holdingsVars, profilesVars, alertsVars, sidecarVars>>
SidecarStep ==
    Others("sidecar") /\ SidecarNext
        /\ UNCHANGED <<holdingsVars, profilesVars, alertsVars, analysisVars>>

Ask1(of, cases) ==
    /\ part = of
    /\ question = NoQuestion
    /\ \E case \in cases : question' = [of |-> of, about |-> case]
    /\ UNCHANGED <<part, components>>

Calculate ==
    \/ Ask1("cash", CashCases)
    \/ Ask1("retirement", RetirementCases)
    \/ Ask1("guidance", GuidanceCases)
    \/ Ask1("summary", SummaryCases)
    \/ Ask1("selection", SelectionCases)
    \/ Ask1("watchlist", WatchlistCases)
    \/ Ask1("evidence", EvidenceCases)
    \/ Ask1("map", MapCases)
    \/ Ask1("search", SearchCases)

DeskNext ==
    HoldingsStep \/ ProfilesStep \/ AlertsStep \/ AnalysisStep \/ SidecarStep \/ Calculate

DeskSpec == DeskInit /\ [][DeskNext]_<<part, question, components>>

-----------------------------------------------------------------------------

\* Types of the five components with a state.
DeskTypeOK ==
    /\ part \in Parts
    /\ HoldingsTypeOK /\ ProfilesTypeOK /\ AlertsTypeOK /\ AnalysisTypeOK /\ SidecarTypeOK

Asked(of) == part = of /\ question # NoQuestion

\* What the desk shows is what it may show: cash plans that hand out the savings in order and can
\* be kept, allocations the profile accepts, rankings of funds that pass their audit and pass over
\* no better fund, watchlists within the controlled universe, the evidence and the budget, evidence
\* that is diverse and citations of nothing else, no stored price passed off as live and no move or
\* score without its sessions, and searches that leak nothing, are honest about what they found and
\* cite no evidence twice.
AdviceStands ==
    /\ Asked("cash") => SoundCashPlan(question.about, Today)
    /\ Asked("guidance") => SoundGuidance(question.about)
    /\ Asked("selection") => SoundSelection(question.about)
    /\ Asked("watchlist") =>
          /\ ControlledWatchlist(question.about.engine, question.about.payload,
                                 question.about.given)
          /\ SoundWatchlist(question.about.engine, question.about.payload, question.about.given,
                            question.about.dollars)
    /\ Asked("evidence") => SoundEvidence(question.about)
    /\ Asked("map") =>
          /\ ShownAsWhatItIs(question.about, Observations(question.about))
          /\ SoundMarketMap(question.about)
    /\ Asked("search") => SearchStands(question.about)

\* What the other calculators promise of what they are asked: retirement plans that can be followed
\* to the end, and advice that conserves money and agrees with itself.
SoundAdvice ==
    /\ Asked("retirement") => SoundRetirementPlan(question.about.profile, question.about.uploaded)
    /\ Asked("summary") => SoundSummary(question.about)
=============================================================================
