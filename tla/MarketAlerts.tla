--------------------------- MODULE MarketAlerts ---------------------------
(***************************************************************************)
(* Market review previews: the four requests of api/alerts.py, the policy  *)
(* of portfolio/alerts.py and the settings and previews that               *)
(* repositories/alerts.py keeps.                                           *)
(*                                                                         *)
(* A request is one transaction of PostgreSQL at READ COMMITTED, a step    *)
(* per statement.  Time is counted in ticks.  A tick passes only while no  *)
(* request is being served: a request lasts seconds, the windows of the    *)
(* policy last a day and a week.                                           *)
(***************************************************************************)
EXTENDS Integers, FiniteSets, Sequences

CONSTANTS
    Calls,          \* ids of the requests, and of the rows they insert
    Nobody,         \* no row, no answer
    Choices,        \* the settings a request may ask for
    Scenes,         \* what an evaluation may find: a sequence of positions
    RepeatWindow,   \* 24 hours
    FeedbackWindow, \* 7 days
    MaxTime,        \* bound: ticks
    MaxErrors       \* bound: transactions that fail

Sensitivities == {"conservative", "standard", "active"}

ASSUME MarketAlertsAssumption ==
    /\ Choices \subseteq [enabled : BOOLEAN, sensitivity : Sensitivities]
    /\ IsFiniteSet(Calls) /\ Nobody \notin Calls
    /\ RepeatWindow \in Nat \ {0} /\ FeedbackWindow \in Nat /\ RepeatWindow < FeedbackWindow
    /\ MaxTime \in Nat /\ MaxErrors \in Nat

VARIABLES
    policies,       \* committed rows of market_alert_settings, by id
    previews,       \* committed rows of market_alert_snapshots
    now,
    session,        \* date of the last completed market session
    call,           \* where each request is
    ask,            \* what it asks for
    started,        \* the order in which the requests began
    order,          \* the order in which settings rows were inserted
    policy,         \* the settings row it works with, as it was read
    todo,           \* decisions an evaluation has yet to store
    added,          \* rows it has stored and not committed
    status,         \* what it was answered: 200, 500, or 409 for one that was refused
    alongside,          \* history: the requests that ran at a time with it
    lastPut,        \* history: the settings change that committed last
    errors          \* bound: transactions that failed

alertsVars == <<policies, previews, now, session, call, ask, started, order, policy,
                todo, added, status, alongside, lastPut, errors>>
clock == <<now, session>>
work == <<todo, added>>

DefaultPolicy == [enabled |-> TRUE, sensitivity |-> "standard", version |-> 1]
Suppressing == {"noise", "incorrect"}

-----------------------------------------------------------------------------
(* The policy of evaluate_market_alerts.  A position is reduced to the      *)
(* facts it looks at: how its class stands to its target, its drawdown and *)
(* its share in percent, its trend, and whether its volume is elevated.    *)

DrawdownLimit == [conservative |-> -12, standard |-> -8, active |-> -5]
Threshold == [conservative |-> 5, standard |-> 4, active |-> 3]

Points(condition, n) == IF condition THEN n ELSE 0

BuyScore(p, s) ==
    Points(p.tilt = "under", 2) + Points(p.drawdown <= DrawdownLimit[s], 1)
        + Points(p.trend = "recovered", 1) + Points(p.elevated, 1)

ReduceScore(p) ==
    Points(p.tilt = "over", 2) + Points(p.share >= 25, 2)
        + Points(p.trend = "deteriorating", 1) + Points(p.drawdown <= -15, 1)

Buys(p, s) == BuyScore(p, s) >= Threshold[s] /\ (p.tilt = "under" \/ p.trend = "recovered")
Reduces(p, s) == ReduceScore(p) >= Threshold[s] /\ (p.tilt = "over" \/ p.share >= 25)

Decision(p, s, direction) ==
    [symbol |-> p.symbol, direction |-> direction, content |-> <<p, s>>]

DecisionsOn(p, s) ==
    IF p.data # "usable" THEN <<>>       \* too few sessions, no date, too old
    ELSE (IF Buys(p, s) THEN <<Decision(p, s, "buy")>> ELSE <<>>)
         \o (IF Reduces(p, s) THEN <<Decision(p, s, "reduce")>> ELSE <<>>)

Decisions(scene, s) ==
    LET upTo[n \in 0..Len(scene)] ==
            IF n = 0 THEN <<>> ELSE upTo[n - 1] \o DecisionsOn(scene[n], s)
    IN upTo[Len(scene)]

-----------------------------------------------------------------------------

AlertsInit ==
    /\ policies = <<>>
    /\ previews = {}
    /\ now = 0
    /\ session = 0
    /\ call = [r \in Calls |-> "new"]
    /\ ask = [r \in Calls |-> [kind |-> "none"]]
    /\ started = [r \in Calls |-> 0]
    /\ order = [r \in Calls |-> 0]
    /\ policy = [r \in Calls |-> [row |-> Nobody]]
    /\ todo = [r \in Calls |-> <<>>]
    /\ added = [r \in Calls |-> {}]
    /\ status = [r \in Calls |-> 0]
    /\ alongside = [r \in Calls |-> {}]
    /\ lastPut = Nobody
    /\ errors = 0

Serving == {r \in Calls : call[r] \notin {"new", "done", "collided"}}
Asks(r) == ask[r].kind

LatestRow(rows) == CHOOSE i \in rows : \A j \in rows : order[j] <= order[i]

\* settings(): the newest committed row, or a default one, inserted here.
ReadPolicy(r) ==
    IF DOMAIN policies = {}
    THEN /\ order' = [order EXCEPT ![r] = Cardinality({q \in Calls : order[q] > 0}) + 1]
         /\ policy' = [policy EXCEPT ![r] = [row |-> r, was |-> DefaultPolicy]]
    ELSE LET i == LatestRow(DOMAIN policies) IN
         /\ policy' = [policy EXCEPT ![r] = [row |-> i, was |-> policies[i]]]
         /\ UNCHANGED order

Arrive(r, request, step) ==
    /\ call[r] = "new"
    /\ ask' = [ask EXCEPT ![r] = request]
    /\ call' = [call EXCEPT ![r] = step]
    /\ started' = [started EXCEPT ![r] = Cardinality({q \in Calls : started[q] > 0}) + 1]
    /\ alongside' = [q \in Calls |-> IF q = r THEN Serving
                                 ELSE IF q \in Serving THEN alongside[q] \cup {r} ELSE alongside[q]]
    /\ UNCHANGED <<policies, previews, clock, added, status, lastPut, errors>>

Move(r, step) ==
    /\ call' = [call EXCEPT ![r] = step]
    /\ UNCHANGED <<clock, ask, started, order, alongside>>

\* list_alerts reads the settings, which may insert them, and the previews.
ListAlerts(r) ==
    /\ Arrive(r, [kind |-> "list"], "commit")
    /\ ReadPolicy(r)
    /\ UNCHANGED todo

\* update_alert_settings
PutSettings(r, choice) ==
    /\ Arrive(r, [kind |-> "put", choice |-> choice], "write")
    /\ ReadPolicy(r)
    /\ UNCHANGED todo

WritesRow(q, i) == call[q] = "commit" /\ Asks(q) = "put" /\ policy[q].row = i

WriteSettings(r) ==
    /\ call[r] = "write"
    /\ \A q \in Calls \ {r} : ~ WritesRow(q, policy[r].row)
    /\ Move(r, "commit")
    /\ UNCHANGED <<policies, previews, policy, work, status, lastPut, errors>>

\* evaluate_alerts up to the history it reads.  A paused policy, a missing gateway, an
\* empty portfolio or an unavailable gateway (503) end it; the rollback takes an inserted
\* default row with it.
BeginEvaluation(r) ==
    /\ Arrive(r, [kind |-> "evaluate", at |-> now, asOf |-> session], "fetch")
    /\ ReadPolicy(r)
    /\ UNCHANGED todo

RefuseEvaluation(r) ==
    /\ call[r] = "fetch"
    /\ status' = [status EXCEPT ![r] = 409]
    /\ Move(r, "done")
    /\ UNCHANGED <<policies, previews, policy, work, lastPut, errors>>

Evaluate(r, scene) ==
    /\ call[r] = "fetch"
    /\ policy[r].was.enabled
    /\ todo' = [todo EXCEPT ![r] = Decisions(scene, policy[r].was.sensitivity)]
    /\ Move(r, "check")
    /\ UNCHANGED <<policies, previews, policy, added, status, lastPut, errors>>

SameKind(d, a) == a.symbol = d.symbol /\ a.direction = d.direction

\* Feedback counts from the moment it was given, committed or not before this request.
SuppressedByFeedback(d) ==
    \E a \in previews : SameKind(d, a) /\ a.feedback \in Suppressing
                        /\ a.feedbackAt >= now - FeedbackWindow

\* Mutant: the day of the 24-hour check ends a moment early.
SeenEarlier(r, d) ==
    \E a \in previews \cup added[r] : SameKind(d, a) /\ a.at > now - RepeatWindow

SeenLately(r, d) ==
    \E a \in previews \cup added[r] : SameKind(d, a) /\ a.at >= now - RepeatWindow

\* The two queries of add_decision.
CheckDecision(r) ==
    /\ call[r] = "check"
    /\ IF todo[r] = <<>> THEN Move(r, "commit") /\ UNCHANGED todo
       ELSE IF SuppressedByFeedback(Head(todo[r])) \/ SeenLately(r, Head(todo[r]))
       THEN todo' = [todo EXCEPT ![r] = Tail(@)] /\ Move(r, "check")
       ELSE Move(r, "insert") /\ UNCHANGED todo
    /\ UNCHANGED <<policies, previews, policy, added, status, lastPut, errors>>

\* deduplication_key: symbol, direction, policy version, session and content.
Key(a) == <<a.symbol, a.direction, a.version, a.asOf, a.content>>

Preview(r, d) ==
    [id |-> <<r, Len(todo[r])>>, by |-> r, symbol |-> d.symbol, direction |-> d.direction,
     version |-> policy[r].was.version, asOf |-> ask[r].asOf, content |-> d.content, at |-> ask[r].at,
     feedback |-> "none", feedbackAt |-> 0, feedbackBy |-> Nobody]

KeyTaken(r) == \E a \in previews : Key(a) = Key(Preview(r, Head(todo[r])))
KeyPending(r) ==
    \E q \in Serving \ {r} : \E a \in added[q] : Key(a) = Key(Preview(r, Head(todo[r])))

InsertPreview(r) ==
    /\ call[r] = "insert"
    /\ ~ KeyPending(r) /\ ~ KeyTaken(r)
    /\ added' = [added EXCEPT ![r] = @ \cup {Preview(r, Head(todo[r]))}]
    /\ todo' = [todo EXCEPT ![r] = Tail(@)]
    /\ Move(r, "check")
    /\ UNCHANGED <<policies, previews, policy, status, lastPut, errors>>

\* The unique key is taken: the whole evaluation is rolled back.
InsertCollides(r) ==
    /\ call[r] = "insert"
    /\ ~ KeyPending(r) /\ KeyTaken(r)
    /\ added' = [added EXCEPT ![r] = {}]
    /\ status' = [status EXCEPT ![r] = 500]
    /\ Move(r, "collided")
    /\ UNCHANGED <<policies, previews, policy, todo, lastPut, errors>>

\* submit_feedback
GiveFeedback(r, a, value) ==
    /\ Arrive(r, [kind |-> "feedback", on |-> a.id, value |-> value, at |-> now], "commit")
    /\ UNCHANGED <<order, policy, todo>>

\* Mutant: the sensitivity is written only together with the switch.
WrittenTogether(was, choice, row) ==
    IF was.enabled = choice.enabled THEN row
    ELSE [enabled |-> choice.enabled, sensitivity |-> choice.sensitivity,
          version |-> was.version + 1]

\* The columns an UPDATE of the settings writes: those that differ from what was read.
Written(was, choice, row) ==
    LET changed == was.enabled # choice.enabled \/ was.sensitivity # choice.sensitivity IN
    [enabled |-> IF was.enabled # choice.enabled THEN choice.enabled ELSE row.enabled,
     sensitivity |-> IF was.sensitivity # choice.sensitivity THEN choice.sensitivity
                     ELSE row.sensitivity,
     version |-> IF changed THEN was.version + 1 ELSE row.version]

OwnRow(r) == policy[r].row = r

CommitCall(r) ==
    LET i == policy[r].row IN
    /\ call[r] = "commit"
    /\ policies' = [j \in DOMAIN policies \cup (IF OwnRow(r) THEN {r} ELSE {}) |->
            LET row == IF j = r THEN policy[r].was ELSE policies[j]
            IN IF j = i /\ Asks(r) = "put" THEN Written(policy[r].was, ask[r].choice, row) ELSE row]
    /\ previews' = IF Asks(r) # "feedback" THEN previews \cup added[r]
                   ELSE {IF a.id = ask[r].on
                         THEN [a EXCEPT !.feedback = ask[r].value, !.feedbackAt = ask[r].at,
                                        !.feedbackBy = r]
                         ELSE a : a \in previews}
    /\ added' = [added EXCEPT ![r] = {}]
    /\ lastPut' = IF Asks(r) = "put" THEN r ELSE lastPut
    /\ status' = [status EXCEPT ![r] = 200]
    /\ Move(r, "done")
    /\ UNCHANGED <<policy, todo, errors>>

\* Any statement or the commit may fail; the session is rolled back.
FailCall(r) ==
    /\ r \in Serving
    /\ errors < MaxErrors
    /\ errors' = errors + 1
    /\ added' = [added EXCEPT ![r] = {}]
    /\ status' = [status EXCEPT ![r] = 500]
    /\ Move(r, "done")
    /\ UNCHANGED <<policies, previews, policy, todo, lastPut>>

\* Time passes; the market may have completed a session, or not (a weekend).
Tick ==
    /\ Serving = {}
    /\ now < MaxTime
    /\ now' = now + 1
    /\ session' \in {session, session + 1}
    /\ UNCHANGED <<policies, previews, call, ask, started, order, policy, work, status,
                   alongside, lastPut, errors>>

AlertsNext ==
    \/ Tick
    \/ \E r \in Calls :
        \/ ListAlerts(r)
        \/ \E choice \in Choices : PutSettings(r, choice)
        \/ WriteSettings(r)
        \/ BeginEvaluation(r)
        \/ RefuseEvaluation(r)
        \/ \E scene \in Scenes : Evaluate(r, scene)
        \/ CheckDecision(r)
        \/ InsertPreview(r)
        \/ InsertCollides(r)
        \/ \E a \in previews, value \in {"useful", "noise"} : GiveFeedback(r, a, value)
        \/ CommitCall(r)
        \/ FailCall(r)

AlertsSpec == AlertsInit /\ [][AlertsNext]_alertsVars

-----------------------------------------------------------------------------

\* Types of the alert variables.
AlertsTypeOK ==
    /\ DOMAIN policies \subseteq Calls
    /\ \A i \in DOMAIN policies : policies[i].version \in 1..(Cardinality(Calls) + 1)
    /\ \A a \in previews : a.by \in Calls /\ a.at \in 0..now /\ a.asOf \in 0..session
    /\ alongside \in [Calls -> SUBSET Calls]
    /\ lastPut \in Calls \cup {Nobody}
    /\ now \in 0..MaxTime /\ errors \in 0..MaxErrors

TouchesSettings(r) == Asks(r) = "put" \/ order[r] > 0

\* The last settings change that ran beside no other one, and beside no request that found
\* no settings and inserted the defaults, is what the next request reads.
LastSettingsStand ==
    lastPut # Nobody /\ ~ (\E q \in alongside[lastPut] : TouchesSettings(q)) =>
        LET row == policies[LatestRow(DOMAIN policies)] IN
        /\ row.enabled = ask[lastPut].choice.enabled
        /\ row.sensitivity = ask[lastPut].choice.sensitivity

\* Two previews of one symbol and direction within a day come from evaluations that ran at
\* once, and differ in what they say or in the policy they followed (add_decision).
PreviewNotRepeated ==
    \A a, b \in previews :
        a # b /\ SameKind(a, b) /\ a.at <= b.at /\ b.at <= a.at + RepeatWindow =>
            a.by \in alongside[b.by] /\ Key(a) # Key(b)

Before(q, r) == started[q] < started[r] /\ q \notin alongside[r]

\* Feedback that calls a preview noise or incorrect, given before an evaluation began, keeps
\* the evaluation from repeating it for a week (the promise of feedback's action texts).
FeedbackRespected ==
    \A a, b \in previews :
        b.feedback \in Suppressing /\ SameKind(a, b) /\ Before(b.feedbackBy, a.by) =>
            a.at > b.feedbackAt + FeedbackWindow

\* An evaluation fails on the unique key only when it repeats a stored preview word for word:
\* one older than a day (no session has completed since), or one of a racing evaluation.
CollisionIsRepeat ==
    \A r \in Calls : call[r] = "collided" =>
        \E a \in previews :
            /\ Key(a) = Key(Preview(r, Head(todo[r])))
            /\ a.by \in alongside[r] \/ a.at < ask[r].at - RepeatWindow

\* What the user may rely on of the previews: none is repeated, none comes back within a week
\* of being called noise, and an evaluation fails only on a repetition.
PreviewsAreJustified == PreviewNotRepeated /\ FeedbackRespected /\ CollisionIsRepeat

-----------------------------------------------------------------------------
(* The inductive invariant: what the promises above rest on.                *)

Stages == {"new", "write", "fetch", "check", "insert", "commit", "done", "collided"}

\* A stored or pending preview is a record of these fields.
IsPreview(a) ==
    a = [id |-> a.id, by |-> a.by, symbol |-> a.symbol, direction |-> a.direction,
         version |-> a.version, asOf |-> a.asOf, content |-> a.content, at |-> a.at,
         feedback |-> a.feedback, feedbackAt |-> a.feedbackAt, feedbackBy |-> a.feedbackBy]

\* The variables are of their types; dates are those of the clock.
CallsAreTyped ==
    /\ call \in [Calls -> Stages]
    /\ started \in [Calls -> Nat] /\ order \in [Calls -> Nat]
    /\ alongside \in [Calls -> SUBSET Calls]
    /\ DOMAIN ask = Calls /\ DOMAIN policy = Calls /\ DOMAIN todo = Calls /\ DOMAIN added = Calls
    /\ now \in 0 .. MaxTime /\ session \in Nat /\ errors \in 0 .. MaxErrors

\* What a request is by the step it is at; a request under way began today.
CallsFollow ==
    \A r \in Calls :
        /\ call[r] = "new" <=> Asks(r) = "none"
        /\ call[r] = "new" => order[r] = 0 /\ policy[r].row = Nobody
        /\ call[r] = "write" => Asks(r) = "put"
        /\ call[r] \in {"fetch", "check", "insert", "collided"} => Asks(r) = "evaluate"
        /\ Asks(r) = "put" => ask[r].choice \in Choices
        /\ Asks(r) \in {"evaluate", "feedback"} => ask[r].at \in Nat
        /\ call[r] \in {"write", "fetch", "check", "insert", "commit"}
              /\ Asks(r) \in {"evaluate", "feedback"} => ask[r].at = now
        /\ call[r] \in {"fetch", "check", "insert", "commit"}
              /\ Asks(r) = "evaluate" => ask[r].asOf = session

Arrived == {q \in Calls : started[q] > 0}

\* A request that began has its place in the order of the beginnings.
StartsFollow ==
    \A r \in Calls : /\ started[r] > 0 <=> call[r] # "new"
                     /\ started[r] <= Cardinality(Arrived)
                     /\ call[r] = "new" => alongside[r] = {}

\* Requests know of each other, all that are under way do.
KnownMutually == \A r, q \in Calls : q \in alongside[r] => r \in alongside[q]
ServedTogether == \A r, q \in Serving : r # q => q \in alongside[r]

\* What runs now and did not run beside a request that ended, began after it.
LaterStarts ==
    \A r \in Serving, q \in Calls \ Serving :
        call[q] # "new" /\ r \notin alongside[q] => started[q] < started[r]

TimesFollow == StartsFollow /\ KnownMutually /\ ServedTogether /\ LaterStarts

\* Stored rows are those of requests that are done, pending ones those of an evaluation.
StoredAreTyped ==
    \A a \in previews :
        /\ IsPreview(a) /\ a.by \in Calls /\ call[a.by] = "done"
        /\ a.at \in 0 .. now /\ a.asOf \in 0 .. session
        /\ a.feedback \in Suppressing =>
              a.feedbackAt \in Nat /\ a.feedbackBy \in Calls /\ call[a.feedbackBy] = "done"

AddedAreTyped ==
    \A r \in Calls : \A a \in added[r] :
        /\ call[r] \in {"check", "insert", "commit"} /\ Asks(r) = "evaluate"
        /\ IsPreview(a) /\ a.by = r /\ a.at = now /\ a.asOf = session /\ a.feedback = "none"

\* No two rows, stored or pending, have one key, and an evaluation adds a symbol and a
\* direction once.
StoredKeysDiffer == \A a, b \in previews : Key(a) = Key(b) => a = b
AddedAreNotStored == \A r \in Calls : \A a \in added[r] : \A b \in previews : Key(a) # Key(b)
AddedKeysDiffer ==
    \A r, q \in Calls : r # q => \A a \in added[r] : \A b \in added[q] : Key(a) # Key(b)
AddedOnce == \A r \in Calls : \A a, b \in added[r] : SameKind(a, b) => a = b

\* What is stored of a decision that passed its checks was stored since, or is too old.
FreshFor(r, d) ==
    /\ \A a \in previews : SameKind(d, a) /\ a.at >= now - RepeatWindow => a.by \in alongside[r]
    /\ \A b \in previews :
          SameKind(d, b) /\ b.feedback \in Suppressing /\ Before(b.feedbackBy, r) =>
              now > b.feedbackAt + FeedbackWindow

AddedAreFresh ==
    \A r \in Calls :
        /\ \A a \in added[r] : FreshFor(r, a)
        /\ call[r] = "insert" => FreshFor(r, Head(todo[r]))
        /\ call[r] = "insert" => \A a \in added[r] : ~ SameKind(Head(todo[r]), a)

\* No version is higher than the requests that are done allow.
Done == {q \in Calls : call[q] = "done"}

VersionsFollow ==
    /\ \A i \in DOMAIN policies : policies[i].version \in 1 .. (Cardinality(Done) + 1)
    /\ \A r \in Calls : policy[r].row # Nobody =>
          policy[r].was.version \in 1 .. (Cardinality(Done) + 1)

Alone(r) == \A q \in alongside[r] : ~ TouchesSettings(q)

\* Stored settings are rows of requests that are done; the last change left some.
SettingsFollow ==
    /\ \A i \in DOMAIN policies : i \in Calls /\ call[i] = "done"
    /\ lastPut # Nobody =>
          /\ lastPut \in Calls /\ call[lastPut] = "done" /\ Asks(lastPut) = "put"
          /\ DOMAIN policies # {}

\* The row a request works with is its own, or one that is stored.  A row of its own that a
\* settings change did not see is one that it ran beside.
RowsFollow ==
    \A r \in Calls :
        /\ OwnRow(r) => order[r] > 0
        /\ OwnRow(r) /\ r \in Serving /\ lastPut # Nobody => r \in alongside[lastPut]
        /\ policy[r].row # Nobody /\ ~ OwnRow(r) => policy[r].row \in DOMAIN policies
        /\ Asks(r) = "put" => policy[r].row # Nobody

\* A settings change that runs alone works with what the next request would read.
ReadIsCurrent ==
    \A r \in Serving : Asks(r) = "put" /\ Alone(r) =>
        IF OwnRow(r) THEN DOMAIN policies = {}
        ELSE /\ policy[r].row = LatestRow(DOMAIN policies)
             /\ policies[policy[r].row].enabled = policy[r].was.enabled
             /\ policies[policy[r].row].sensitivity = policy[r].was.sensitivity

AlertsInvariant ==
    /\ CallsAreTyped /\ CallsFollow /\ TimesFollow
    /\ StoredAreTyped /\ AddedAreTyped
    /\ StoredKeysDiffer /\ AddedAreNotStored /\ AddedKeysDiffer /\ AddedOnce
    /\ AddedAreFresh
    /\ VersionsFollow /\ SettingsFollow /\ RowsFollow /\ ReadIsCurrent
    /\ LastSettingsStand /\ PreviewsAreJustified
=============================================================================
