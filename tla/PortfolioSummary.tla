------------------------- MODULE PortfolioSummary -------------------------
(***************************************************************************)
(* The deterministic portfolio summary (portfolio/summary.py): drift from  *)
(* the saved targets, the sales and purchases it proposes, the three       *)
(* rebalancing scenarios, coverage gaps, and the monthly plan in whole     *)
(* dollars, with the sector part of it (api/portfolio.py).                 *)
(*                                                                         *)
(* Money is in cents, weights in percent, shares in 1/10000.  Labels are   *)
(* lower case.  Cash is no investment: positions in it are left out, and   *)
(* so is a target for it, so the cash branches of a purchase never run.    *)
(***************************************************************************)
EXTENDS Integers, FiniteSets, Sequences
LOCAL INSTANCE SequencesExt
LOCAL INSTANCE FiniteSetsExt
LOCAL INSTANCE TLC

CONSTANTS
    NoValue,        \* no profile, no instrument
    ClassOrder      \* asset classes in alphabetical order

Lesser(a, b) == IF a < b THEN a ELSE b
Positive(x) == IF x > 0 THEN x ELSE 0
Rounded(a, b) == (2 * a + b) \div (2 * b)
Place(order, x) == CHOOSE i \in DOMAIN order : order[i] = x
ValueOfAll(f) == MapThenSumSet(LAMBDA c : f[c], DOMAIN f)
TotalOf(s) == FoldLeft(LAMBDA sum, x : sum + x.amount, 0, s)

-----------------------------------------------------------------------------
(* Asset classes, targets and totals.                                      *)

Canonical(label) ==
    CASE label \in {"long", "long position", "stock", "stocks", "us stock", "us equity",
                    "equity etf", "stock etf", "us equity etf"} -> "equity"
      [] label \in {"fixed income", "bonds", "bond etf", "fixed income etf"} -> "bond"
      [] label \in {"cash equivalent", "cash equivalents"} -> "cash"
      [] label \in {"international stock", "international stocks", "non-us equity",
                    "international equity etf", "non us equity"} -> "international equity"
      [] label \in {"commodity / gold", "commodity etf", "commodities", "gold", "gold etf",
                    "precious metals"} -> "commodity"
      [] label \in {"alternative", "alternative etf", "alternatives etf"} -> "alternatives"
      [] OTHER -> label

ClassOf(position) ==
    CASE position.symbol \in {"GLD", "IAU", "SLV", "GDX"} -> "commodity"
      [] position.symbol \in {"VXUS", "IXUS", "VEA", "VWO", "FLKR"} -> "international equity"
      [] position.symbol \in {"BND", "AGG", "IEF", "TLT", "BIL", "SGOV"} -> "bond"
      [] position.symbol = "CASH" -> "cash"
      [] OTHER -> Canonical(position.label)

Value(positions) == FoldLeft(LAMBDA sum, p : sum + p.value, 0, positions)
InClass(positions, class) == SelectSeq(positions, LAMBDA p : p.class = class)
ValueIn(current, class) == IF class \in DOMAIN current THEN current[class] ELSE 0

\* The positions with their class, without those of cash.
Investable(positions) ==
    SelectSeq([i \in DOMAIN positions |->
                  [symbol |-> positions[i].symbol, value |-> positions[i].value,
                   price |-> positions[i].price, class |-> ClassOf(positions[i])]],
              LAMBDA p : p.class # "cash")
CurrentTotals(positions) ==
    [c \in {positions[i].class : i \in DOMAIN positions} |-> Value(InClass(positions, c))]

\* A profile's targets in order.  Labels of one class share a place, and the last of them
\* its weight; what is saved for cash is dropped.
TargetMap(profile) ==
    LET saved == IF profile = NoValue THEN <<>> ELSE profile.targets
        classes == [i \in DOMAIN saved |-> Canonical(saved[i].label)]
        First(i) == classes[i] # "cash" /\ \A j \in 1..(i - 1) : classes[j] # classes[i]
        weights == [c \in Range(classes) |->
                       saved[Max({j \in DOMAIN classes : classes[j] = c})].percent]
        places == SelectSeq([i \in DOMAIN saved |-> i], First)
    IN [n \in DOMAIN places |->
          [class |-> classes[places[n]], percent |-> weights[classes[places[n]]]]]

\* What every part of a summary is computed from.
SituationOf(q, positions, targets) ==
    [positions |-> positions, total |-> Value(positions), current |-> CurrentTotals(positions),
     targets |-> targets, classes |-> {targets[i].class : i \in DOMAIN targets},
     profile |-> q.profile, quotes |-> q.quotes, suitable |-> q.suitable]
Situation(q) == SituationOf(q, Investable(q.positions), TargetMap(q.profile))

HasTargets(s) == s.targets # <<>>
TargetWeight(s, class) ==
    IF class \in s.classes THEN (CHOOSE t \in Range(s.targets) : t.class = class).percent ELSE 0
DriftThreshold(profile) == IF profile = NoValue THEN 5 ELSE profile.threshold

\* How far a class is above its target, in percent of the total times the total.
Drift(s, class) == 100 * ValueIn(s.current, class) - TargetWeight(s, class) * s.total
Overweight(s, class) == Drift(s, class) >= DriftThreshold(s.profile) * s.total
Underweight(s, class) == Drift(s, class) <= - DriftThreshold(s.profile) * s.total

-----------------------------------------------------------------------------
(* Instruments and trades.                                                 *)

CoreFunds(class) ==
    CASE class = "equity" -> <<"VTI", "VOO", "QQQ">>
      [] class = "international equity" -> <<"VXUS">>
      [] class = "bond" -> <<"BND">>
      [] class = "commodity" -> <<"GLD">>
      [] OTHER -> <<>>

CoreFirst == <<"BND", "GLD", "VOO", "VTI", "VXUS", "QQQ">>  \* satellites last, by symbol
GrowthFirst == <<"QQQ">> \o Front(CoreFirst)
BySymbol(positions, symbol) ==
    LET those == SelectSeq(positions, LAMBDA p : p.symbol = symbol)
    IN IF those = <<>> THEN NoValue ELSE Last(those)

\* A fund already held comes first; the growth style prefers the satellite only there.
SelectCandidate(s, class) ==
    LET funds == CoreFunds(class)
        growth == s.profile # NoValue /\ s.profile.growth
        owned == SelectSeq(IF growth THEN GrowthFirst ELSE CoreFirst,
                           LAMBDA x : Contains(funds, x) /\ BySymbol(s.positions, x) # NoValue)
        offered == IF growth THEN funds ELSE SelectSeq(CoreFirst, LAMBDA x : Contains(funds, x))
    IN IF owned # <<>> THEN owned[1] ELSE IF offered # <<>> THEN offered[1] ELSE NoValue

\* The price of the holding, or a quote above zero of a fund not held; 0 is no price.
CandidatePrice(s, symbol) ==
    IF symbol = NoValue THEN 0
    ELSE IF BySymbol(s.positions, symbol) # NoValue THEN BySymbol(s.positions, symbol).price
    ELSE IF symbol \in DOMAIN s.quotes THEN Positive(s.quotes[symbol]) ELSE 0

Shares(amount, price, fractional) ==
    IF amount <= 0 \/ price <= 0 THEN 0
    ELSE IF fractional THEN Rounded(10000 * amount, price) ELSE 10000 * (amount \div price)
Executable(amount, price, fractional) ==
    LET shares == Shares(amount, price, fractional)
    IN IF shares = 0 THEN Positive(amount) ELSE Rounded(shares * price, 10000)

Fractional(profile) == profile # NoValue /\ profile.fractional

-----------------------------------------------------------------------------
(* Rebalance actions: sales of the overweight classes, largest holding     *)
(* first; then purchases for the underweight ones.                         *)

Action(kind, class, symbol, amount) ==
    [kind |-> kind, class |-> class, symbol |-> symbol, amount |-> amount]

LargestFirst(positions) ==
    SortSeq([i \in DOMAIN positions |-> i],
            LAMBDA i, j : \/ positions[i].value > positions[j].value
                          \/ (positions[i].value = positions[j].value /\ i < j))

SalesOf(mine, class, excess, fractional) ==
    LET Sell(done, i) ==
            LET requested == Lesser(mine[i].value, done.remaining)
                amount == Executable(requested, mine[i].price, fractional)
            IN IF done.remaining <= 0 THEN done
               ELSE [remaining |-> done.remaining - amount,
                     actions |-> Append(done.actions,
                        Action(IF Shares(requested, mine[i].price, fractional) = 0
                               THEN "REVIEW" ELSE "SELL", class, mine[i].symbol, amount))]
    IN FoldLeft(Sell, [remaining |-> excess, actions |-> <<>>], LargestFirst(mine)).actions
Sales(s, class) ==
    SalesOf(InClass(s.positions, class), class, Drift(s, class) \div 100, Fractional(s.profile))

PurchaseOf(s, class, symbol) ==
    Action("BUY", class, symbol,
           Executable(- (Drift(s, class) \div 100), CandidatePrice(s, symbol),
                      Fractional(s.profile)))
Purchase(s, class) == PurchaseOf(s, class, SelectCandidate(s, class))

\* A symbol is flagged when one of its positions is a quarter of the total.
Flagged(s, p) ==
    s.total > 0 /\ \E held \in Range(s.positions) :
                      held.symbol = p.symbol /\ 100 * held.value >= 25 * s.total
FlaggedPositions(s) == SelectSeq(s.positions, LAMBDA p : Flagged(s, p))

\* Without targets: what a position of a flagged symbol has above 20 percent is shown for
\* review.
ReviewOf(s, p) ==
    Action("REVIEW", p.class, p.symbol,
           Executable(Positive(p.value - s.total \div 5), p.price, FALSE))
ReviewsOf(s, flagged) == [i \in DOMAIN flagged |-> ReviewOf(s, flagged[i])]
ConcentrationReviews(s) == ReviewsOf(s, FlaggedPositions(s))

\* The classes with a value or a target, in order.
ClassesOf(s) ==
    SelectSeq(ClassOrder, LAMBDA c : c \in DOMAIN s.current \cup s.classes)

RebalanceActions(s) ==
    IF s.total <= 0 THEN <<>>
    ELSE IF ~ HasTargets(s) THEN ConcentrationReviews(s)
    ELSE FoldLeft(LAMBDA done, c : IF Overweight(s, c) THEN done \o Sales(s, c) ELSE done,
                  <<>>, ClassesOf(s))
         \o FoldLeft(LAMBDA done, c :
                        IF Underweight(s, c) THEN Append(done, Purchase(s, c)) ELSE done,
                     <<>>, ClassesOf(s))

-----------------------------------------------------------------------------
(* Scenarios.  A projection gives every class its value afterwards.        *)

Adding(projected, class, amount) ==
    [c \in DOMAIN projected \cup {class} |->
        ValueIn(projected, c) + (IF c = class THEN amount ELSE 0)]

\* The deficits of the targets once new money came in, in target order; their weights when
\* no class has one.
ShortOf(s, newTotal) ==
    [i \in DOMAIN s.targets |->
        [class |-> s.targets[i].class,
         amount |-> Positive(s.targets[i].percent * newTotal
                               - 100 * ValueIn(s.current, s.targets[i].class)) \div 100]]
Weights(s) ==
    [i \in DOMAIN s.targets |-> [class |-> s.targets[i].class, amount |-> s.targets[i].percent]]
Deficits(s, newTotal) ==
    SelectSeq(IF TotalOf(ShortOf(s, newTotal)) > 0 THEN ShortOf(s, newTotal) ELSE Weights(s),
              LAMBDA d : d.amount > 0)

\* Mutant: what the rounding leaves over is not given to the last one.
RoundedDown(amount, parts, all) ==
    [i \in DOMAIN parts |->
        [class |-> parts[i].class, amount |-> (amount * parts[i].amount) \div all]]

\* Each deficit its share; the last one what is left.
SharedOf(amount, parts, all) ==
    LET Part(i) == (amount * parts[i].amount) \div all
        rest == amount - TotalOf([i \in 1..(Len(parts) - 1) |-> [amount |-> Part(i)]])
    IN [i \in DOMAIN parts |->
          [class |-> parts[i].class, amount |-> IF i = Len(parts) THEN rest ELSE Part(i)]]
Shared(amount, parts) == SharedOf(amount, parts, TotalOf(parts))

MonthlyContribution(profile) == IF profile = NoValue THEN 0 ELSE profile.contribution

\* The saved contribution, or the money that dilutes the largest drift, or the position
\* furthest above 20 percent.
Contribution(s) ==
    LET drifted == {c \in s.classes : TargetWeight(s, c) > 0 /\ Overweight(s, c)}
        flagged == {p \in Range(FlaggedPositions(s)) : 5 * p.value > s.total}
    IN IF MonthlyContribution(s.profile) > 0 THEN MonthlyContribution(s.profile)
       ELSE IF s.total = 0 THEN 0
       ELSE Max({0} \cup IF HasTargets(s)
            THEN {(100 * s.current[c]) \div TargetWeight(s, c) - s.total : c \in drifted}
            ELSE {5 * p.value - s.total : p \in flagged})

Invested(s, new) ==
    [total |-> s.total + new,
     projected |->
        IF new <= 0 THEN s.current
        ELSE IF ~ HasTargets(s) THEN Adding(s.current, "unallocated contribution", new)
        ELSE FoldLeft(LAMBDA p, part : Adding(p, part.class, part.amount), s.current,
                      Shared(new, Deficits(s, s.total + new)))]
ContributionScenario(s) == Invested(s, Contribution(s))

\* A sale takes at most what the class is projected to hold, and that is what it brings in.
Sell(sold, sale) ==
    LET amount == Lesser(sale.amount, ValueIn(sold.projected, sale.class))
    IN [projected |-> Adding(sold.projected, sale.class, - amount),
        proceeds |-> sold.proceeds + amount]
Sold(s, sells) == FoldLeft(Sell, [projected |-> s.current, proceeds |-> 0], sells)

\* The sales pay for the purchases, each its share of what is available; the rest is cash.
Settled(after, rest) == IF rest > 0 THEN Adding(after, "cash", rest) ELSE after
Traded(s, sold, buys, spent) ==
    LET Given(p, a) == Adding(p, a.class, a.amount)
    IN [total |-> s.total,
        projected |-> Settled(FoldLeft(Given, sold.projected,
                                       IF spent = 0 THEN <<>> ELSE Shared(spent, buys)),
                              sold.proceeds - spent)]
Reallocated(s, sold, buys) == Traded(s, sold, buys, Lesser(sold.proceeds, TotalOf(buys)))
SellAndReallocate(s, sells, buys) == Reallocated(s, Sold(s, sells), buys)

\* Without targets only the position furthest above 20 percent is sold, for illustration.
FurthestFirst(flagged) ==
    SelectSeq(flagged, LAMBDA p : \A o \in Range(flagged) : o.value <= p.value)
Illustrated(s, sale) ==
    LET amount == Lesser(sale.amount, s.current[sale.class])
    IN Adding(Adding(s.current, sale.class, - amount), "reallocation proceeds", amount)
IllustrativeSale(s, flagged) ==
    [total |-> s.total,
     projected |-> IF flagged = <<>> THEN s.current
                   ELSE Illustrated(s, ReviewOf(s, Head(FurthestFirst(flagged))))]

OfKind(actions, kind) == SelectSeq(actions, LAMBDA a : a.kind = kind)
Scenarios(s, actions) ==
    <<[total |-> s.total, projected |-> s.current],
      ContributionScenario(s),
      IF HasTargets(s)
      THEN SellAndReallocate(s, OfKind(actions, "SELL"), OfKind(actions, "BUY"))
      ELSE IllustrativeSale(s, FlaggedPositions(s))>>

-----------------------------------------------------------------------------
(* Coverage gaps and the monthly plan.                                     *)

CoverageGaps(s) ==
    LET symbols == {p.symbol : p \in Range(s.positions)}
        abroad == "international equity"
    IN IF s.total <= 0 THEN {}
       ELSE {c \in s.classes : Underweight(s, c)}
            \cup (IF ValueIn(s.current, "equity") > 0
                     /\ symbols \cap {"VTI", "VOO", "IVV", "SPY"} = {}
                  THEN {"diversified u.s. equity core"} ELSE {})
            \cup (IF /\ s.profile # NoValue /\ s.profile.growthHorizon
                     /\ ValueIn(s.current, abroad) = 0
                     /\ symbols \cap {"VXUS", "IXUS", "VEA", "VWO"} = {}
                     /\ abroad \notin s.classes
                  THEN {"international equity review"} ELSE {})

\* Whole dollars by largest remainder, equal remainders by class.
WholeDollarsOf(dollars, deficits, all) ==
    LET Whole(d) == (dollars * d.amount) \div all
        Fraction(d) == (dollars * d.amount) % all
        Before(d, e) == \/ Fraction(d) > Fraction(e)
                        \/ /\ Fraction(d) = Fraction(e)
                           /\ Place(ClassOrder, d.class) < Place(ClassOrder, e.class)
        left == dollars - TotalOf([i \in DOMAIN deficits |-> [amount |-> Whole(deficits[i])]])
        Ahead(d) == Cardinality({i \in DOMAIN deficits : Before(deficits[i], d)})
    IN [i \in DOMAIN deficits |->
          [class |-> deficits[i].class,
           amount |-> Whole(deficits[i]) + (IF Ahead(deficits[i]) < left THEN 1 ELSE 0)]]
WholeDollars(monthly, deficits) ==
    WholeDollarsOf((monthly + 50) \div 100, deficits, TotalOf(deficits))

SatelliteBudget(profile) == Lesser(profile.contribution, profile.satellite)

DcaSuggestions(s) ==
    LET monthly == s.profile.contribution - SatelliteBudget(s.profile)
    IN IF s.total <= 0 \/ ~ HasTargets(s) \/ monthly <= 0 THEN <<>>
       ELSE SelectSeq(WholeDollars(monthly, Deficits(s, s.total + monthly)),
                      LAMBDA d : d.amount > 0)

\* _sector_dca_allocations: round() takes half a dollar to the even one.
SectorDca(profile, suitable) ==
    LET budget == SatelliteBudget(profile)
        dollars == IF budget % 100 = 50 THEN 2 * Rounded(budget, 200)
                   ELSE (budget + 50) \div 100
    IN IF dollars <= 0 THEN <<>>
       ELSE [i \in 1..suitable |->
               [amount |-> dollars \div suitable
                             + (IF i <= dollars % suitable THEN 1 ELSE 0)]]

-----------------------------------------------------------------------------

TargetsAreWhole(s) == TotalOf(Weights(s)) = 100

\* No scenario makes or loses money: the projected classes of each add up to its total
\* (_contribution_scenario, _sell_and_reallocate_scenario), whatever is rounded to shares.
ScenariosConserveMoney(scenarios) ==
    \A i \in DOMAIN scenarios :
        /\ ValueOfAll(scenarios[i].projected) = scenarios[i].total
        /\ \A c \in DOMAIN scenarios[i].projected : scenarios[i].projected[c] >= 0

\* With targets that add up to the whole, no trade and no contribution carries a class past
\* its target, to the cents that shares are rounded by: what was overweight is not sold below
\* it, and what was underweight is not bought above it.
NoTradeOvershoots(s, scenarios) ==
    HasTargets(s) /\ TargetsAreWhole(s) =>
        LET slack == 100 * (Len(s.positions) + Len(ClassOrder)) IN
        \A i \in {2, 3} : \A c \in DOMAIN scenarios[i].projected \ {"cash"} :
            LET after == scenarios[i].projected[c]
                goal == TargetWeight(s, c) * scenarios[i].total IN
            /\ after < ValueIn(s.current, c) => 100 * after >= goal - slack
            /\ after > ValueIn(s.current, c) => 100 * after <= goal + slack

\* The plan of a month spends what is saved for it: every whole dollar of the core part has a
\* class, every dollar of the satellite part a fund, and the two roundings together stray at
\* most a dollar from the contribution.
MonthlyPlanAddsUp(s, core, sector) ==
    core > 0 =>
        /\ core = (s.profile.contribution - SatelliteBudget(s.profile) + 50) \div 100
        /\ s.suitable > 0 =>
              /\ 100 * (core + sector) <= s.profile.contribution + 100
              /\ 100 * (core + sector) >= s.profile.contribution - 100

\* The advice of one summary agrees with itself: a policy gap is shown exactly for the classes
\* a purchase is proposed for, and no class is both sold and bought.
AdviceAgrees(s, actions) ==
    HasTargets(s) =>
        LET Classes(kinds) == {a.class : a \in {b \in Range(actions) : b.kind \in kinds}} IN
        /\ Classes({"BUY"}) = CoverageGaps(s) \cap s.classes
        /\ Classes({"BUY"}) \cap Classes({"SELL", "REVIEW"}) = {}

\* The promises of one summary, from its trades and its scenarios.
SummaryKeeps(s, actions, scenarios) ==
    /\ ScenariosConserveMoney(scenarios)
    /\ NoTradeOvershoots(s, scenarios)
    /\ s.profile # NoValue =>
          MonthlyPlanAddsUp(s, TotalOf(DcaSuggestions(s)), TotalOf(SectorDca(s.profile, s.suitable)))
    /\ AdviceAgrees(s, actions)
SummaryOf(s, actions) == SummaryKeeps(s, actions, Scenarios(s, actions))
SoundSituation(s) == SummaryOf(s, RebalanceActions(s))
SoundSummary(q) == SoundSituation(Situation(q))
=============================================================================
