------------------------ MODULE AllocationGuidance ------------------------
(***************************************************************************)
(* guide_profile_allocation (portfolio/guidance.py) and the check of a     *)
(* saved target allocation (ProfileRequest in api/profile.py).  Weights    *)
(* are basis points: 100 is one percentage point, 10000 the whole.         *)
(***************************************************************************)
EXTENDS Integers

Whole == 10000
Point == 100

Clamp(x, low, high) == IF x < low THEN low ELSE IF x > high THEN high ELSE x
ByName(table, name, default) == IF name \in DOMAIN table THEN table[name] ELSE default

\* round(x, 1) of percentages: to a tenth of a point, ties to the even digit.
Tenths(x) ==
    LET down == x \div 10
        rest == x % 10
    IN 10 * (IF rest > 5 \/ (rest = 5 /\ down % 2 = 1) THEN down + 1 ELSE down)

RiskEquity == [conservative |-> 40, moderate |-> 60, aggressive |-> 80]
RiskGold == [conservative |-> 500, moderate |-> 750, aggressive |-> 1000]
HorizonPoints == [under3 |-> -25, medium |-> -5, long |-> 10]
StabilityPoints == [low |-> -10, high |-> 5]
LiquidityPoints == [medical |-> -10, high |-> -5]
StagePoints == [student |-> -5, family |-> -5, caregiver |-> -10, college |-> -10,
                pre_retirement |-> -15, retired |-> -20]

UnboundedEquity(p) ==
    Point * (ByName(RiskEquity, p.risk, 55)
             + ByName(HorizonPoints, p.horizon, 0)
             + ByName(StabilityPoints, p.stability, 0)
             + ByName(LiquidityPoints, p.liquidity, 0)
             + ByName(StagePoints, p.stage, 0)
             + (IF p.income = "none" THEN -10 ELSE 0))
    + p.pack.equity

Gold(p) == Clamp(ByName(RiskGold, p.risk, 500) + p.pack.gold, 250, 1250)

GuidedEquity(p) ==
    LET equity == Clamp(UnboundedEquity(p), 1500, 8500)
        ceiling == 9000 - Gold(p) - p.pack.alternatives
    IN IF equity > ceiling THEN ceiling ELSE equity

\* The domestic part is what the rounded international part leaves of the equity.
GuidedAllocation(p) ==
    LET equity == GuidedEquity(p)
        abroad == Tenths((equity * p.pack.share) \div 100)
    IN [equity |-> Tenths(equity - abroad),
        international |-> abroad,
        bond |-> Tenths(Whole - equity - Gold(p) - p.pack.alternatives),
        gold |-> Tenths(Gold(p)),
        alternatives |-> Tenths(p.pack.alternatives)]

AllocationSum(a) == a.equity + a.international + a.bond + a.gold + a.alternatives

\* validate_target_allocation: weights between 0 and 1 that add up to 1 within a thousandth.
\* A sum off by exactly a thousandth is beyond it in floating point.
AllocationAccepted(a) ==
    /\ \A class \in DOMAIN a : a[class] \in 0..Whole
    /\ AllocationSum(a) - Whole < 10 /\ Whole - AllocationSum(a) < 10

\* A number of basis points between two bounds that is a whole number of tenths of a point.
Tenth(x, low, high) == x \in Int /\ low <= x /\ x <= high /\ x % 10 = 0

\* The limits of StyleAllocationPolicy, for points given to a tenth (finer ones pass the limits,
\* and the validator refuses what is built from them).
PackAccepted(pack) ==
    /\ Tenth(pack.equity, -1000, 1000)
    /\ pack.share \in Int /\ 15 <= pack.share /\ pack.share <= 40
    /\ Tenth(pack.gold, -250, 250)
    /\ Tenth(pack.alternatives, 0, 500)

-----------------------------------------------------------------------------

\* The allocation Argus proposes is one that saving the profile accepts, whatever the profile
\* and for every style pack whose points are given to a tenth: the separately rounded weights
\* add up to the whole.
SoundGuidance(p) == AllocationAccepted(GuidedAllocation(p))
=============================================================================
