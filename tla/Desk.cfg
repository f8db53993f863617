SPECIFICATION DeskSpec
CONSTANTS
    q1 = q1
    q2 = q2
    q3 = q3
    a1 = a1
    a2 = a2
    r1 = r1
    r2 = r2
    m1 = m1
    m2 = m2
    M = M
    Missing = M
    Absent = M
    Nobody = M
    Unset = M
    Blank = M
    Unnamed = M
    NoValue = M
    Unquoted = M
    NoReply = M
    NoAudit = M
    NoQuestion = M
    Refreshes = {q1, q2, q3}
    FileTables <- MCFileTables
    FormDates = {M, 1, 2}
    GatewayReplies <- MCGatewayReplies
    OldRows <- MCOldRows
    MaxLines = 3
    MaxAborts = 1
    Changes = {q1, q2, q3}
    StyleIds = {"strategic_index", "old", "mine"}
    BuiltinStyles = {"strategic_index"}
    StyleAliases <- MCStyleAliases
    DefaultStyle = "strategic_index"
    FirstMethods = {m1, m2}
    MethodLists <- MCMethodLists
    PanelSize = 5
    MaxFailures = 1
    Calls = {q1, q2, q3}
    Choices <- MCChoices
    Scenes <- MCScenes
    RepeatWindow = 1
    FeedbackWindow = 2
    MaxTime = 2
    MaxErrors = 1
    Analyses = {a1, a2}
    KeepLatest = 1
    SearchLimit = 2
    MaxFaults = 1
    Reads = {r1, r2}
    Approved = {"reviewed"}
    Manifests = {"reviewed", "extended", "renamed"}
    Directory = {"reviewed", "extended"}
    Accounts = {"main", "joint"}
    HistoricalsOn = TRUE
    MaxChanges = 2
    Today <- MCToday
    MonthsPerYear = 2
    ClassOrder <- MCClassOrder
    MaxSelected = 2
    SymbolRank <- MCSymbolRank
    EvidenceLimit = 2
    PayloadLimit = 3
    QuoteBatch = 2
    HistoryBatch = 1
    ReferenceSessions = 4
    MinimumSessions = 3
    CashCases <- MCCashCases
    RetirementCases <- MCRetirementCases
    GuidanceCases <- MCGuidanceCases
    SummaryCases <- MCSummaryCases
    SelectionCases <- MCSelectionCases
    WatchlistCases <- MCWatchlistCases
    EvidenceCases <- MCEvidenceCases
    MapCases <- MCMapCases
    SearchCases <- MCSearchCases
    Void = M
    GenericWords = {"summary", "trend", "value", "market"}
    DecisionWords = {"buy", "sell", "hold"}
    MetricWords = {"bank", "demand", "flow", "price", "rate", "real", "return", "share"}
    PriorityWords = {"gold", "price", "return", "value", "flow", "demand"}
    FactorWords = {"bank", "demand", "etf", "flow", "rate", "real", "share", "usd"}
    ToolDepth = 2
    SearchDepth = 1
    MergeDepth = 2
    PoolDepth = 4
    Rarity <- MCRarity
SYMMETRY Symmetry
INVARIANTS
    DeskTypeOK
    HoldingsStand
    LastProfileStands
    CurrentProfileResolves
    LastSettingsStand
    PreviewsAreJustified
    AnalysesStand
    ReadsAreApproved
    AdviceStands
    SoundAdvice
CHECK_DEADLOCK FALSE
