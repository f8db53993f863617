------------------------ MODULE RetirementPlanning ------------------------
(***************************************************************************)
(* calculate_retirement_funding_plan (portfolio/retirement_planning.py).   *)
(*                                                                         *)
(* The code computes with real powers.  Here a month multiplies an invested*)
(* amount by the integer Growth and prices by the integer Inflation, a     *)
(* year has MonthsPerYear months, and every amount at retirement is        *)
(* multiplied by Growth to the number of withdrawals, so that the present  *)
(* values of the code are exact integers.  Rates are percents.             *)
(***************************************************************************)
EXTENDS Integers, Sequences

CONSTANTS
    Blank,          \* an input left empty
    MonthsPerYear   \* 12 in the code

AccountTypes == {"traditional_401k", "traditional_ira", "roth", "taxable_brokerage", "mixed"}

NonNegative(x) == IF x < 0 THEN 0 ELSE x
Given(x, default) == IF x = Blank THEN default ELSE x

\* The sum of f[a..b].
SumOver(f, a, b) ==
    LET upTo[n \in (a - 1)..b] == IF n < a THEN 0 ELSE upTo[n - 1] + f[n]
    IN IF b < a THEN 0 ELSE upTo[b]

TaxableShare(p) ==
    CASE p.account \in {"traditional_401k", "traditional_ira"} -> 100
      [] p.account \in {"roth", "taxable_brokerage"} -> 0
      [] p.account = "mixed" -> IF p.share = Blank THEN Blank
                                ELSE IF p.share > 100 THEN 100 ELSE NonNegative(p.share)
      [] OTHER -> Blank

Spending(p) == IF p.spending # Blank THEN p.spending ELSE p.essentials
Savings(p, uploaded) == NonNegative(Given(p.savings, NonNegative(uploaded)))

MissingRequired(p) ==
    \/ Blank \in {p.age, p.retire}
    \/ p.retire <= p.age
    \/ p.until <= p.retire
    \/ Spending(p) = Blank
    \/ Spending(p) <= 0
    \/ p.account = Blank
    \/ p.account = "mixed" /\ p.share = Blank

AfterTaxIncome(p) ==
    IF p.incomeTaxable THEN (p.income * (100 - Given(p.tax, 0))) \div 100 ELSE p.income
AfterTaxGap(p) == NonNegative(Spending(p) - AfterTaxIncome(p))
WithdrawalTax(p) == (Given(p.tax, 0) * Given(TaxableShare(p), 0)) \div 100
GrossWithdrawal(p) == (AfterTaxGap(p) * 100) \div (100 - WithdrawalTax(p))

AccumulationMonths(p) == (p.retire - p.age) * MonthsPerYear
WithdrawalMonths(p) == (p.until - p.retire) * MonthsPerYear

\* _annuity_present_value of the withdrawals in today's prices, and its value in the
\* prices at retirement.  A withdrawal is made at the end of its month.
TargetAtRetirement(p) ==
    LET n == WithdrawalMonths(p)
        a == AccumulationMonths(p)
    IN SumOver([k \in 1..n |-> GrossWithdrawal(p) * p.inflation^(a + k) * p.growth^(n - k)], 1, n)

ProjectedSavings(p, uploaded) ==
    Savings(p, uploaded) * p.growth^(AccumulationMonths(p) + WithdrawalMonths(p))

\* A deposit may be raised with inflation, once a year.
DepositScale(p, month) ==
    IF p.adjust THEN p.inflation^(MonthsPerYear * (month \div MonthsPerYear)) ELSE 1

\* _monthly_contribution_future_value_factor: deposits at the start of a month
DepositFactor(p) ==
    LET a == AccumulationMonths(p)
    IN p.growth^WithdrawalMonths(p)
         * SumOver([m \in 0..(a - 1) |-> DepositScale(p, m) * p.growth^(a - m)], 0, a - 1)

RemainingTarget(p, uploaded) == NonNegative(TargetAtRetirement(p) - ProjectedSavings(p, uploaded))

\* planned_monthly against required_monthly, the remaining target over the factor
RetirementStatus(p, uploaded) ==
    IF MissingRequired(p) THEN "inputs_required"
    ELSE IF AfterTaxGap(p) = 0 THEN "income_covers_spending"
    ELSE IF RemainingTarget(p, uploaded) = 0 THEN "already_funded"
    ELSE IF p.planned * DepositFactor(p) >= RemainingTarget(p, uploaded) THEN "on_track"
    ELSE "funding_gap"

-----------------------------------------------------------------------------

\* The account month by month: deposits at the start of each working month, growth, then a
\* withdrawal at the end of each month of retirement, its price risen since today.
Balance(p, uploaded) ==
    LET a == AccumulationMonths(p)
        after[m \in 0..(a + WithdrawalMonths(p))] ==
            IF m = 0 THEN Savings(p, uploaded)
            ELSE IF m <= a
            THEN (after[m - 1] + p.planned * DepositScale(p, m - 1)) * p.growth
            ELSE after[m - 1] * p.growth - GrossWithdrawal(p) * p.inflation^m
    IN after[a + WithdrawalMonths(p)]

\* The verdict is what the account would show if it were kept month by month: with the
\* planned deposits it lasts to the planning age exactly when the plan is not called a funding
\* gap (calculate_retirement_funding_plan, which uses closed formulas with deposits at the
\* start and withdrawals at the end of a month).
SoundRetirementPlan(p, uploaded) ==
    LET verdict == RetirementStatus(p, uploaded) IN
    verdict # "inputs_required" =>
        (verdict # "funding_gap" <=> Balance(p, uploaded) >= 0)
=============================================================================
