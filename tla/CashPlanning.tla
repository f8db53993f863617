--------------------------- MODULE CashPlanning ---------------------------
(***************************************************************************)
(* calculate_cash_plan (portfolio/cash_planning.py): the cash goals of a   *)
(* profile, the order in which current savings fund them, and the monthly  *)
(* saving the rest takes.  Amounts are whole dollars, the code's rounding  *)
(* to cents is left out.  A goal is identified by its sort_order, which is *)
(* unique for the at most eight goals a profile may have.                  *)
(***************************************************************************)
EXTENDS Integers, FiniteSets, Sequences, Functions

CONSTANTS
    Unset           \* a profile field without a value

ASSUME UnsetAssumption == Unset \notin Int

PriorityOrder == [urgent |-> 10, important |-> 30, flexible |-> 60]

AtLeast0(x) == IF Unset = x THEN 0 ELSE IF x < 0 THEN 0 ELSE x
AtLeast1(x) == IF x < 1 THEN 1 ELSE x
Least(a, b) == IF a < b THEN a ELSE b
CeilDiv(a, b) == (a + b - 1) \div b

Spec(order, target, months, priority) ==
    [order |-> order, target |-> target, months |-> months, priority |-> priority]

BuildMonths(p) == IF p.build = 0 THEN 12 ELSE AtLeast1(p.build)

\* An amount entered for the emergency reserve is taken before expenses times months.
EmergencyGoal(p) ==
    LET direct == AtLeast0(p.reserve)
        derived == AtLeast0(p.essentials) * AtLeast0(p.months) IN
    IF direct > 0 THEN {Spec(0, direct, BuildMonths(p), "urgent")}
    ELSE IF derived > 0 THEN {Spec(0, derived, BuildMonths(p), "urgent")} ELSE {}

KnownPriority(g) == IF g.priority \in DOMAIN PriorityOrder THEN g.priority ELSE "important"
Usable(g) == g.known /\ AtLeast0(g.target) > 0 /\ g.months # Unset

PlannedGoals(p) ==
    {Spec(PriorityOrder[KnownPriority(p.goals[i])] + i - 1, p.goals[i].target,
          AtLeast1(p.goals[i].months), KnownPriority(p.goals[i])) :
        i \in {j \in DOMAIN p.goals : Usable(p.goals[j])}}

\* The field that preceded the list of goals; a list, usable or not, replaces it.
NearTermGoal(p) ==
    IF p.goals = <<>> /\ p.nearName # Unset /\ AtLeast0(p.nearAmount) > 0 /\ p.nearMonths # Unset
    THEN {Spec(30, p.nearAmount, AtLeast1(p.nearMonths), "important")} ELSE {}

\* Months to January of the target year.
EducationGoal(p, today) ==
    IF p.education /\ AtLeast0(p.tuition) > 0 /\ p.year # Unset
    THEN {Spec(50, p.tuition, AtLeast1((p.year - today.year) * 12 - today.month + 1), "important")}
    ELSE {}

GoalSpecs(p, today) ==
    EmergencyGoal(p) \cup PlannedGoals(p) \cup NearTermGoal(p) \cup EducationGoal(p, today)

\* Savings fund the goals in their order, each as far as they last.
Funded(g, specs, savings) ==
    LET ahead == SumFunctionOnSet([h \in specs |-> h.target],
                                  {h \in specs : h.order < g.order})
    IN Least(g.target, AtLeast0(savings - ahead))

Goal(g, specs, savings) ==
    LET allocated == Funded(g, specs, savings)
        gap == g.target - allocated IN
    [order |-> g.order, target |-> g.target, months |-> g.months, priority |-> g.priority,
     allocated |-> allocated, gap |-> gap, monthly |-> CeilDiv(gap, g.months),
     funding |-> IF gap = 0 THEN "funded" ELSE IF allocated > 0 THEN "partially_funded"
                 ELSE "not_funded"]

CashPlan(p, today) ==
    LET specs == GoalSpecs(p, today)
        goals == {Goal(g, specs, AtLeast0(p.savings)) : g \in specs}
        required == SumFunction([g \in goals |-> g.monthly])
        invested == AtLeast0(p.contribution)
        known == p.income # Unset /\ p.spending # Unset
        capacity == AtLeast0(AtLeast0(p.income) - AtLeast0(p.spending) - invested)
    IN [status |-> IF goals = {} THEN "inputs_required" ELSE "ready",
        goals |-> goals,
        required |-> required,
        capacity |-> IF known THEN capacity ELSE Unset,
        shortfall |-> IF known THEN AtLeast0(required - capacity) ELSE Unset,
        feasibility |-> IF ~ known THEN "inputs_required"
                        ELSE IF required > capacity THEN "shortfall" ELSE "feasible"]

\* What is asked: at most eight goals, and amounts that are numbers where they are given.
Amount(x) == x = Unset \/ x \in Int
CashAskable(p, today) ==
    /\ p.goals \in Seq({p.goals[i] : i \in DOMAIN p.goals}) /\ Len(p.goals) <= 8
    /\ \A i \in DOMAIN p.goals : Amount(p.goals[i].target) /\ Amount(p.goals[i].months)
    /\ Amount(p.reserve) /\ Amount(p.essentials) /\ Amount(p.months) /\ p.build \in Int
    /\ Amount(p.nearAmount) /\ Amount(p.nearMonths) /\ Amount(p.tuition) /\ Amount(p.year)
    /\ Amount(p.savings) /\ Amount(p.contribution) /\ Amount(p.income) /\ Amount(p.spending)
    /\ today.year \in Int /\ today.month \in Int

-----------------------------------------------------------------------------

\* What a goal has after some months of saving what the plan asks for it.
SavedFor(g, month) == Least(g.target, g.allocated + month * g.monthly)

\* The savings go to the goals in the order of their priority: while a goal is short, none of
\* a later priority is funded, none is lost, and what is handed out is what there was.  A plan called
\* feasible can be kept: paying every goal what it asks for each month meets each deadline
\* out of the monthly capacity (calculate_cash_plan).
SoundCashPlan(p, today) ==
    LET plan == CashPlan(p, today)
        Rank(g) == PriorityOrder[g.priority] IN
    /\ \A g, h \in plan.goals :
          Rank(g) < Rank(h) /\ g.gap > 0 => h.allocated = 0
    /\ SumFunction([g \in plan.goals |-> g.allocated])
          = Least(AtLeast0(p.savings), SumFunction([g \in plan.goals |-> g.target]))
    /\ \A g \in plan.goals : SavedFor(g, g.months) = g.target
    /\ plan.feasibility = "feasible" =>
          \A month \in 1..24 :
              SumFunction([g \in plan.goals |-> SavedFor(g, month) - SavedFor(g, month - 1)])
                  <= plan.capacity
=============================================================================
