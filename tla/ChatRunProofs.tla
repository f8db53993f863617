--------------------------- MODULE ChatRunProofs ---------------------------
(***************************************************************************)
(* Proofs about ChatRun: the invariant IInv is inductive, and the          *)
(* properties of the run follow from it for every value of the constants.  *)
(***************************************************************************)
EXTENDS ChatRun, TLAPS

\* The initial state satisfies the invariant.
LEMMA InitIInv == Init => IInv
<1> SUFFICES ASSUME Init PROVE IInv
  OBVIOUS
<1> USE ChatRunAssumption DEF ChatRunAssumption, Init
<1>1. TypeOK
  <2>1. NoCalls \in Calls
    BY DEF NoCalls, Calls
  <2>2. iteration \in 0 .. limit /\ attempt \in 0 .. MaxAttempts
    OBVIOUS
  <2> QED BY <2>1, <2>2 DEF TypeOK
<1>2. LoopInv /\ SentInv
  BY DEF LoopInv, SentInv, NoCalls
<1>3. EndInv /\ AnnouncedInv /\ StoredInv
  BY DEF EndInv, AnnouncedInv, StoredInv
<1>4. OnlyLastCallOverruns /\ StoredRunIsTruthful /\ EventMatchesStoredRun /\ StoredRunIsBilled
  BY DEF OnlyLastCallOverruns, StoredRunIsTruthful, EventMatchesStoredRun, StoredRunIsBilled
<1> QED BY <1>1, <1>2, <1>3, <1>4 DEF IInv

\* A response costs a natural number of tokens.
LEMMA ResponseTokens == ASSUME NEW r \in Responses PROVE r.tokens \in Nat
<1>1. r.tokens \in CallTokens \/ r.tokens = 0
  BY DEF Responses
<1>2. CallTokens \subseteq Nat
  BY ChatRunAssumption DEF ChatRunAssumption
<1>3. CASE r.tokens \in CallTokens
  BY <1>2, <1>3
<1>4. CASE r.tokens = 0
  BY <1>4
<1> QED BY <1>1, <1>3, <1>4

\* Every model call recorded keeps the totals of the calls natural numbers.
LEMMA RecordTyped ==
    ASSUME TypeOK, response \in Responses, Record
    PROVE  /\ calls' \in Calls
           /\ calls'.tokens = calls.tokens + response.tokens
           /\ calls'.cloud = calls.cloud + (IF response.where = "cloud" THEN 1 ELSE 0)
<1>1. response.tokens \in Nat
  BY ResponseTokens
<1>2. calls.count \in Nat /\ calls.tokens \in Nat /\ calls.cloud \in Nat
  BY DEF TypeOK, Calls
<1>3. (IF response.where = "cloud" THEN 1 ELSE 0) \in Nat
  OBVIOUS
<1> DEFINE cloud == calls.cloud + (IF response.where = "cloud" THEN 1 ELSE 0)
<1>4. cloud \in Nat /\ calls.count + 1 \in Nat /\ calls.tokens + response.tokens \in Nat
  BY <1>1, <1>2, <1>3
<1>5. calls' = [count |-> calls.count + 1, tokens |-> calls.tokens + response.tokens,
                cloud |-> cloud]
  BY DEF Record
<1> HIDE DEF cloud
<1>6. calls' \in Calls /\ calls'.tokens = calls.tokens + response.tokens /\ calls'.cloud = cloud
  BY <1>4, <1>5 DEF Calls
<1> QED BY <1>6 DEF cloud

\* A run is closed with a status and totals of the right types.
LEMMA CloseRunTyped ==
    ASSUME NEW status \in Statuses, NEW error \in Errors, NEW accepted \in SUBSET Evidence,
           used' \in Nat, CloseRun(status, error, accepted)
    PROVE  /\ run' \in Runs
           /\ pc' = "publish"
           /\ run'.status = status /\ run'.error = error
           /\ run'.tokens = used' /\ run'.accepted = accepted
  BY DEF CloseRun, Runs

\* Every step keeps the variables in their types.
LEMMA TypeStep == IInv /\ [Next]_vars => TypeOK'
<1> SUFFICES ASSUME IInv, [Next]_vars PROVE TypeOK'
  OBVIOUS
<1> USE ChatRunAssumption DEF ChatRunAssumption, request, loop, retrieval, database, outside
<1>0. TypeOK /\ LoopInv /\ EndInv /\ AnnouncedInv
  BY DEF IInv
<1>1. CASE RouteFails
  <2>1. run' \in Runs
    BY <1>1 DEF RouteFails, Runs, Statuses, Errors
  <2> QED BY <1>0, <1>1, <2>1 DEF TypeOK, RouteFails
<1>2. CASE StartRun
  <2>1. run' \in Runs
    BY <1>2 DEF StartRun, Runs, Statuses, Errors
  <2>2. iteration' \in 0 .. limit'
    BY <1>0, <1>2 DEF StartRun, TypeOK
  <2> QED BY <1>0, <1>2, <2>1, <2>2 DEF TypeOK, StartRun
<1>3. CASE Generate
  <2>1. response' \in Responses
    BY <1>3 DEF Generate, Possible
  <2>2. paid' \in Nat
    BY <1>0, <1>3 DEF Generate, TypeOK
  <2> QED BY <1>0, <1>3, <2>1, <2>2 DEF TypeOK, Generate, Texts
<1>4. CASE UnreadableAnswer
  BY <1>0, <1>4 DEF TypeOK, UnreadableAnswer, Disturb, Texts
<1>5. CASE BudgetStops
  <2>1. response \in Responses /\ run \in Runs
    BY <1>0, <1>5 DEF LoopInv, BudgetStops
  <2>2. calls' \in Calls
    BY <1>0, <1>5, <2>1, RecordTyped DEF BudgetStops
  <2>3. run' \in Runs /\ pc' = "publish"
    <3>1. run.accepted \in SUBSET Evidence
      BY <2>1 DEF Runs
    <3>2. CloseRun("budget_exceeded", "budget", run.accepted) /\ used' \in Nat
      BY <1>0, <1>5 DEF BudgetStops, TypeOK
    <3> QED BY <3>1, <3>2, CloseRunTyped DEF Statuses, Errors
  <2> QED BY <1>0, <1>5, <2>2, <2>3 DEF TypeOK, BudgetStops
<1>6. CASE ProviderFails
  <2>1. response \in Responses /\ run \in Runs
    BY <1>0, <1>6 DEF LoopInv, ProviderFails
  <2>2. calls' \in Calls
    BY <1>0, <1>6, <2>1, RecordTyped DEF ProviderFails
  <2>3. used' \in Nat
    BY <1>0, <1>6, <2>1, ResponseTokens DEF ProviderFails, Charge, TypeOK
  <2>4. run' \in Runs /\ pc' = "publish"
    <3>1. run.accepted \in SUBSET Evidence
      BY <2>1 DEF Runs
    <3>2. CloseRun("failed", "provider", run.accepted) /\ used' \in Nat
      BY <1>0, <1>6, <2>3 DEF ProviderFails, TypeOK
    <3> QED BY <3>1, <3>2, CloseRunTyped DEF Statuses, Errors
  <2> QED BY <1>0, <1>6, <2>2, <2>3, <2>4 DEF TypeOK, ProviderFails
<1>7. CASE CallTool
  <2>1. response \in Responses
    BY <1>0, <1>7 DEF LoopInv, CallTool
  <2>2. calls' \in Calls
    BY <1>0, <1>7, <2>1, RecordTyped DEF CallTool
  <2>3. used' \in Nat
    BY <1>0, <1>7, <2>1, ResponseTokens DEF CallTool, Charge, TypeOK
  <2> QED BY <1>0, <1>7, <2>2, <2>3 DEF TypeOK, CallTool
<1>8. CASE Complete
  <2>1. response \in Responses /\ Accepted \in SUBSET Evidence
    BY <1>0, <1>8 DEF LoopInv, Complete, Accepted, TypeOK
  <2>2. calls' \in Calls
    BY <1>0, <1>8, <2>1, RecordTyped DEF Complete
  <2>3. used' \in Nat
    BY <1>0, <1>8, <2>1, ResponseTokens DEF Complete, Charge, TypeOK
  <2>4. run' \in Runs /\ pc' = "publish"
    <3>1. Accepted \in SUBSET Evidence
      BY <2>1
    <3>2. CloseRun("complete", "none", Accepted) /\ used' \in Nat
      BY <1>0, <1>8, <2>3 DEF Complete, TypeOK
    <3> QED BY <3>1, <3>2, CloseRunTyped DEF Statuses, Errors
  <2> QED BY <1>0, <1>8, <2>2, <2>3, <2>4 DEF TypeOK, Complete
<1>9. CASE HandlerReturns
  <2>1. run \in Runs /\ found' \subseteq Evidence
    BY <1>0, <1>9 DEF LoopInv, HandlerReturns
  <2>2. run' \in Runs /\ pc' \in {"generate", "publish"} /\ iteration' \in 0 .. limit'
    <3>1. CASE iteration < limit
      <4>1. run' = [run EXCEPT !.accepted = found']
        BY <1>0, <1>9, <3>1 DEF HandlerReturns, TypeOK
      <4> QED BY <1>0, <1>9, <2>1, <3>1, <4>1 DEF HandlerReturns, TypeOK, Runs
    <3>2. CASE iteration = limit
      <4>1. CloseRun("failed", "max_iterations", found')
        BY <1>0, <1>9, <3>2 DEF HandlerReturns, TypeOK
      <4>2. used' \in Nat
        BY <1>0, <1>9 DEF HandlerReturns, TypeOK
      <4>3. run' \in Runs /\ pc' = "publish"
        BY <2>1, <4>1, <4>2, CloseRunTyped DEF Statuses, Errors
      <4> QED BY <1>0, <1>9, <3>2, <4>3 DEF HandlerReturns, TypeOK
    <3> QED BY <1>0, <1>9, <3>1, <3>2 DEF HandlerReturns, TypeOK
  <2> QED BY <1>0, <1>9, <2>1, <2>2 DEF TypeOK, HandlerReturns, Texts
<1>10. CASE HandlerRefuses
  <2>1. run' \in Runs /\ pc' = "publish"
    BY <1>0, <1>10, CloseRunTyped
       DEF HandlerRefuses, ToolFails, LoopInv, TypeOK, Runs, Statuses, Errors
  <2> QED BY <1>0, <1>10, <2>1 DEF TypeOK, HandlerRefuses, ToolFails, MayEmbed, Texts
<1>11. ASSUME pc = "await", used' = used, Retry, UNCHANGED request
       PROVE  run' \in Runs /\ pc' \in {"await", "publish"} /\ attempt' \in 0 .. MaxAttempts
              /\ iteration' \in 0 .. limit'
  <2>1. CASE attempt < MaxAttempts /\ attempt' = attempt + 1 /\ UNCHANGED <<pc, iteration, run>>
    <3>1. attempt \in 0 .. MaxAttempts /\ iteration \in 0 .. limit
      BY <1>0 DEF TypeOK
    <3>2. run \in Runs
      BY <1>0, <1>11 DEF LoopInv
    <3> QED BY <1>11, <2>1, <3>1, <3>2
  <2>2. CASE attempt = MaxAttempts /\ ToolFails
    <3>1. run \in Runs /\ attempt \in 0 .. MaxAttempts /\ iteration \in 0 .. limit /\ used \in Nat
      BY <1>0, <1>11 DEF LoopInv, TypeOK
    <3>2. run.accepted \in SUBSET Evidence
      BY <3>1 DEF Runs
    <3>3. CloseRun("failed", "tool", run.accepted)
      BY <2>2 DEF ToolFails
    <3>4. run' \in Runs /\ pc' = "publish"
      BY <1>11, <3>1, <3>2, <3>3, CloseRunTyped DEF Statuses, Errors
    <3> QED BY <1>11, <2>2, <3>1, <3>4 DEF ToolFails
  <2> QED BY <1>11, <2>1, <2>2 DEF Retry
<1>12. CASE HandlerRaises
  BY <1>0, <1>11, <1>12 DEF TypeOK, HandlerRaises, MayEmbed, Texts
<1>13. CASE HandlerTimesOut
  <2>1. attempt \in 1 .. MaxAttempts
    BY <1>0, <1>13 DEF TypeOK, LoopInv, HandlerTimesOut
  <2>2. stale' \subseteq 1 .. MaxAttempts
    BY <1>0, <1>13, <2>1 DEF TypeOK, HandlerTimesOut
  <2> QED BY <1>0, <1>11, <1>13, <2>2 DEF TypeOK, HandlerTimesOut, MayEmbed, Texts
<1>14. CASE \E a \in stale : StaleHandlerEnds(a)
  BY <1>0, <1>14 DEF TypeOK, StaleHandlerEnds, MayEmbed, Texts
<1>15. CASE Publish
  <2>1. event' \in Events \cup {None}
    BY <1>0, <1>15 DEF Publish, Announcement, EndInv, Events, AnswerGenerated, Runs
  <2> QED BY <1>0, <1>15, <2>1 DEF TypeOK, Publish
<1>16. CASE PublishRefused
  BY <1>0, <1>16 DEF TypeOK, PublishRefused, Disturb
<1>17. CASE Commit
  <2>1. calls.cloud \in Nat
    BY <1>0 DEF TypeOK, Calls
  <2> QED BY <1>0, <1>17, <2>1 DEF TypeOK, Commit
<1>18. CASE RequestRaises
  BY <1>0, <1>18 DEF TypeOK, RequestRaises, Disturb
<1>19. CASE Crash
  BY <1>0, <1>19 DEF TypeOK, Crash, Disturb
<1>20. CASE Purge
  BY <1>0, <1>20 DEF TypeOK, Purge
<1>21. CASE UNCHANGED vars
  BY <1>0, <1>21 DEF TypeOK, vars
<1>22. CASE EmbedPassages \/ EmbeddingFails
  BY <1>0, <1>22 DEF TypeOK, EmbedPassages, EmbeddingFails, MayEmbed, Texts
<1> QED BY <1>1, <1>2, <1>3, <1>4, <1>5, <1>6, <1>7, <1>8, <1>9, <1>10, <1>12, <1>13, <1>14, <1>15, <1>16, <1>17, <1>18, <1>19, <1>20, <1>21, <1>22 DEF Next

-----------------------------------------------------------------------------
\* Nothing but the commit puts a run in the database, and once one is there
\* nothing it is compared with changes.
LEMMA StoredStep ==
    ASSUME IInv, [Next]_vars, stored' # None
    PROVE  Commit \/ (/\ pc = "done" /\ pc' = "done" /\ UNCHANGED <<stored, ledger, paid, run, calls>>
                      /\ UNCHANGED <<response, found, event>>)
<1> USE DEF request, loop, retrieval, database, outside
<1>1. pc # "done" => stored = None
  BY DEF IInv, StoredInv
<1>2. CASE \E a \in stale : StaleHandlerEnds(a)
  BY <1>1, <1>2 DEF StaleHandlerEnds
<1>3. CASE UNCHANGED vars
  BY <1>1, <1>3 DEF vars
<1>4. CASE Purge
  BY <1>4 DEF Purge
<1>5. CASE EmbedPassages \/ EmbeddingFails \/ RouteFails \/ StartRun \/ Generate
           \/ UnreadableAnswer \/ CallTool
  BY <1>1, <1>5 DEF EmbedPassages, EmbeddingFails, RouteFails, StartRun, Generate,
                    UnreadableAnswer, CallTool
<1>6. CASE BudgetStops \/ ProviderFails \/ Complete
  BY <1>1, <1>6 DEF BudgetStops, ProviderFails, Complete
<1>7. CASE HandlerReturns \/ HandlerRefuses \/ HandlerRaises \/ HandlerTimesOut
  BY <1>1, <1>7 DEF HandlerReturns, HandlerRefuses, HandlerRaises, HandlerTimesOut
<1>8. CASE Publish \/ PublishRefused \/ RequestRaises \/ Crash
  BY <1>1, <1>8 DEF Publish, PublishRefused, RequestRaises, Crash
<1> QED BY <1>2, <1>3, <1>4, <1>5, <1>6, <1>7, <1>8 DEF Next

\* An answer that is not a failure is in the usage ledger if it was paid for.
LEMMA RecordBills ==
    ASSUME TypeOK, response \in Responses, Record, calls.cloud = 0,
           paid = IF Answered(response) THEN 1 ELSE 0
    PROVE  /\ calls'.cloud \in Nat
           /\ paid <= calls'.cloud
           /\ response.kind # "failure" => (paid > 0 <=> calls'.cloud > 0)
           /\ response.where = "local" => calls'.cloud = 0 /\ paid = 0
<1>1. calls'.cloud = IF response.where = "cloud" THEN 1 ELSE 0
  BY RecordTyped
<1>2. CASE response.where = "cloud"
  BY <1>1, <1>2 DEF Answered
<1>3. CASE response.where # "cloud"
  BY <1>1, <1>3 DEF Answered
<1> QED BY <1>2, <1>3

\* The loop part of the invariant holds after every step.
LEMMA LoopStep == IInv /\ [Next]_vars => LoopInv'
<1> SUFFICES ASSUME IInv, [Next]_vars PROVE LoopInv'
  OBVIOUS
<1> USE ChatRunAssumption DEF ChatRunAssumption, request, loop, retrieval, database, outside
<1>0. TypeOK /\ LoopInv /\ AnnouncedInv /\ StoredInv /\ TypeOK'
  BY TypeStep DEF IInv
<1>1. CASE RouteFails
  BY <1>1 DEF RouteFails, LoopInv
<1>2. CASE StartRun
  <2>1. run' \in Runs
    BY <1>2 DEF StartRun, Runs, Statuses, Errors
  <2> QED BY <1>0, <1>2, <2>1 DEF StartRun, LoopInv
<1>3. CASE Generate
  <2>1. response' \in Responses /\ paid = 0 /\ paid' = IF Answered(response') THEN 1 ELSE 0
    BY <1>0, <1>3 DEF Generate, Possible, LoopInv
  <2>2. /\ response'.kind = "plan" => response'.where = "local"
        /\ response'.kind = "grounded" => found # {}
        /\ response'.kind = "failure" => response'.tokens = 0
    BY <1>3 DEF Generate, Possible
  <2> QED BY <1>0, <1>3, <2>1, <2>2 DEF Generate, LoopInv, Answered
<1>4. CASE UnreadableAnswer \/ RequestRaises \/ Crash
  BY <1>4 DEF UnreadableAnswer, RequestRaises, Crash, LoopInv
<1>5. CASE BudgetStops \/ ProviderFails \/ Complete
  BY <1>5 DEF BudgetStops, ProviderFails, Complete, CloseRun, LoopInv
<1>6. CASE CallTool
  <2>1. response \in Responses /\ response.where = "local"
        /\ calls.cloud = 0 /\ calls.tokens = used /\ event = None /\ run \in Runs
        /\ paid = IF Answered(response) THEN 1 ELSE 0
    BY <1>0, <1>6 DEF CallTool, LoopInv
  <2>2. calls'.cloud = 0 /\ paid = 0 /\ calls'.tokens = calls.tokens + response.tokens
    BY <1>0, <1>6, <2>1, RecordBills, RecordTyped DEF CallTool
  <2> QED BY <1>6, <2>1, <2>2 DEF CallTool, Charge, LoopInv
<1>7. CASE HandlerReturns
  <2>1. CASE pc' = "publish"
    BY <2>1 DEF LoopInv
  <2>2. CASE pc' = "generate"
    <3>1. run' \in Runs
      BY <1>0, <1>7, <2>2 DEF HandlerReturns, CloseRun, LoopInv, TypeOK, Runs
    <3> QED BY <1>0, <1>7, <2>2, <3>1 DEF HandlerReturns, LoopInv
  <2> QED BY <1>7, <2>1, <2>2 DEF HandlerReturns, CloseRun
<1>8. CASE HandlerRefuses
  BY <1>8 DEF HandlerRefuses, ToolFails, CloseRun, LoopInv
<1>9. CASE HandlerRaises \/ HandlerTimesOut
  <2>1. CASE ToolFails
    BY <2>1 DEF ToolFails, CloseRun, LoopInv
  <2>2. CASE attempt' = attempt + 1 /\ UNCHANGED <<pc, iteration, run>>
    BY <1>0, <1>9, <2>2 DEF HandlerRaises, HandlerTimesOut, LoopInv, TypeOK
  <2> QED BY <1>9, <2>1, <2>2 DEF HandlerRaises, HandlerTimesOut, Retry
<1>10. CASE \E a \in stale : StaleHandlerEnds(a)
  BY <1>0, <1>10 DEF StaleHandlerEnds, LoopInv, Answered
<1>11. CASE Publish \/ PublishRefused \/ Commit
  BY <1>11 DEF Publish, PublishRefused, Commit, LoopInv
<1>12. CASE Purge
  BY <1>0, <1>12 DEF Purge, StoredInv, LoopInv
<1>13. CASE UNCHANGED vars
  BY <1>0, <1>13 DEF vars, LoopInv, Answered
<1>14. CASE EmbedPassages \/ EmbeddingFails
  BY <1>0, <1>14 DEF EmbedPassages, EmbeddingFails, LoopInv
<1> QED BY <1>1, <1>2, <1>3, <1>4, <1>5, <1>6, <1>7, <1>8, <1>9, <1>10, <1>11, <1>12, <1>13, <1>14 DEF Next

\* What was sent to the provider, and what of it was recorded, agree after every step.
LEMMA SentStep == IInv /\ [Next]_vars => SentInv'
<1> SUFFICES ASSUME IInv, [Next]_vars PROVE SentInv'
  OBVIOUS
<1> USE DEF request, loop, retrieval, database, outside
<1>0. TypeOK /\ LoopInv /\ SentInv /\ StoredInv
  BY DEF IInv
<1>1. CASE EmbedPassages \/ EmbeddingFails
  BY <1>0, <1>1 DEF EmbedPassages, EmbeddingFails, MayEmbed, SentInv
<1>2. CASE RouteFails \/ StartRun
  BY <1>0, <1>2 DEF RouteFails, StartRun, LoopInv, SentInv
<1>3. CASE Generate \/ UnreadableAnswer
  BY <1>0, <1>3 DEF Generate, UnreadableAnswer, SentInv
<1>4. CASE BudgetStops \/ ProviderFails \/ CallTool \/ Complete
  <2>1. /\ pc = "generated" /\ response \in Responses /\ calls.cloud = 0 /\ Record
        /\ response.kind = "plan" => response.where = "local"
    BY <1>0, <1>4 DEF BudgetStops, ProviderFails, CallTool, Complete, LoopInv
  <2>2. calls'.cloud > 0 <=> response.where = "cloud"
    BY <1>0, <2>1, RecordTyped
  <2>3. UNCHANGED <<sent, semantic>> /\ pc' \in {"publish", "await"}
        /\ (pc' = "await" => response.kind = "plan")
    BY <1>4 DEF BudgetStops, ProviderFails, CallTool, Complete, CloseRun
  <2> QED BY <1>0, <2>1, <2>2, <2>3 DEF SentInv
<1>5. CASE HandlerReturns \/ HandlerRefuses \/ HandlerRaises \/ HandlerTimesOut
  <2>1. /\ pc = "await" /\ pc' \in {"await", "generate", "publish"} /\ calls' = calls
        /\ semantic' = semantic /\ MayEmbed("query")
    BY <1>5 DEF HandlerReturns, HandlerRefuses, HandlerRaises, HandlerTimesOut, Retry,
                ToolFails, CloseRun, MayEmbed
  <2>2. calls.cloud = 0 /\ "answer" \notin sent
    BY <1>0, <2>1 DEF LoopInv, SentInv
  <2> QED BY <1>0, <2>1, <2>2 DEF SentInv, MayEmbed
<1>6. CASE \E a \in stale : StaleHandlerEnds(a)
  BY <1>0, <1>6 DEF StaleHandlerEnds, MayEmbed, SentInv
<1>7. CASE Publish \/ PublishRefused \/ Commit \/ RequestRaises \/ Crash
  BY <1>0, <1>7 DEF Publish, PublishRefused, Commit, RequestRaises, Crash, SentInv
<1>8. CASE Purge
  BY <1>0, <1>8 DEF Purge, SentInv
<1>9. CASE UNCHANGED vars
  BY <1>0, <1>9 DEF vars, SentInv
<1> QED BY <1>1, <1>2, <1>3, <1>4, <1>5, <1>6, <1>7, <1>8, <1>9 DEF Next

\* Every way the loop closes a run leaves a run with that status and error.
LEMMA Closes ==
    ASSUME TypeOK, TypeOK', LoopInv, pc \in {"generated", "await"},
           NEW status \in Statuses, NEW error \in Errors,
           NEW accepted \in {run.accepted, Accepted, found'},
           CloseRun(status, error, accepted)
    PROVE  /\ run' \in Runs
           /\ run'.status = status /\ run'.error = error
           /\ run'.tokens = used' /\ run'.accepted = accepted
<1>1. run \in Runs /\ used' \in Nat
  BY DEF LoopInv, TypeOK
<1>2. run.accepted \in SUBSET Evidence
  BY <1>1 DEF Runs
<1>3. Accepted \in SUBSET Evidence /\ found' \in SUBSET Evidence
  BY DEF TypeOK, Accepted
<1>4. accepted \in SUBSET Evidence
  BY <1>2, <1>3
<1> QED BY <1>1, <1>4, CloseRunTyped

\* What a run that has ended says of itself stays true until it is committed.
LEMMA EndStep == IInv /\ [Next]_vars => EndInv'
<1> SUFFICES ASSUME IInv, [Next]_vars PROVE EndInv'
  OBVIOUS
<1> USE ChatRunAssumption DEF ChatRunAssumption, request, loop, retrieval, database, outside
<1>0. TypeOK /\ LoopInv /\ EndInv /\ StoredInv /\ OnlyLastCallOverruns /\ TypeOK'
  BY TypeStep DEF IInv
<1>1. CASE RouteFails
  <2>1. calls'.cloud = 0 /\ paid' = 0 /\ run'.status = "routing_failed" /\ run'.error = "routing"
        /\ run' \in Runs
    BY <1>0, <1>1 DEF RouteFails, LoopInv, Runs, Statuses, Errors
  <2> QED BY <2>1 DEF EndInv
<1>2. CASE EmbedPassages \/ EmbeddingFails \/ StartRun \/ Generate \/ CallTool
  BY <1>2 DEF EmbedPassages, EmbeddingFails, StartRun, Generate, CallTool, EndInv
<1>3. CASE UnreadableAnswer \/ RequestRaises \/ Crash \/ Commit
  BY <1>3 DEF UnreadableAnswer, RequestRaises, Crash, Commit, EndInv
<1>4. ASSUME BudgetStops \/ ProviderFails \/ Complete
      PROVE  /\ response \in Responses /\ response' = response /\ found' = found
             /\ paid' <= calls'.cloud /\ calls'.cloud \in Nat
             /\ response.kind # "failure" => (paid' > 0 <=> calls'.cloud > 0)
             /\ response.kind = "grounded" => found # {}
  <2>1. /\ response \in Responses /\ calls.cloud = 0 /\ Record
        /\ paid = IF Answered(response) THEN 1 ELSE 0
        /\ response.kind = "grounded" => found # {}
    BY <1>0, <1>4 DEF BudgetStops, ProviderFails, Complete, LoopInv
  <2>2. response' = response /\ found' = found /\ paid' = paid
    BY <1>4 DEF BudgetStops, ProviderFails, Complete
  <2> QED BY <1>0, <2>1, <2>2, RecordBills
<1>5. CASE BudgetStops
  <2>1. response.kind # "failure"
    <3>1. response.kind = "failure" => response.tokens = 0
      BY <1>0, <1>5 DEF BudgetStops, LoopInv
    <3>2. used <= MaxTokens /\ used \in Nat
      BY <1>0 DEF OnlyLastCallOverruns, TypeOK
    <3> QED BY <1>5, <3>1, <3>2 DEF BudgetStops, Affordable
  <2>2. run' \in Runs /\ run'.status = "budget_exceeded" /\ run'.error = "budget"
    BY <1>0, <1>5, Closes DEF BudgetStops, Statuses, Errors
  <2> QED BY <1>4, <1>5, <2>1, <2>2 DEF EndInv
<1>6. CASE ProviderFails
  <2>1. run' \in Runs /\ run'.status = "failed" /\ run'.error = "provider"
    BY <1>0, <1>6, Closes DEF ProviderFails, Statuses, Errors
  <2> QED BY <1>4, <1>6, <2>1 DEF EndInv
<1>7. CASE Complete
  <2>1. run' \in Runs /\ run'.status = "complete" /\ run'.error = "none" /\ run'.accepted = Accepted
    BY <1>0, <1>7, Closes DEF Complete, Statuses, Errors
  <2>2. response.kind \in {"grounded", "refusal"} /\ Accepted' = Accepted
    BY <1>7 DEF Complete, Accepted
  <2> QED BY <1>4, <1>7, <2>1, <2>2 DEF EndInv
<1>8. ASSUME pc = "await", pc' = "publish", paid' = paid, calls' = calls,
             run' \in Runs, run'.status = "failed", run'.error \in {"tool", "max_iterations"}
      PROVE  EndInv'
  <2>1. paid' = 0 /\ calls'.cloud = 0
    BY <1>0, <1>8 DEF LoopInv
  <2> QED BY <1>8, <2>1 DEF EndInv
<1>9. CASE HandlerReturns
  <2>1. CASE iteration < limit
    BY <1>0, <1>9, <2>1 DEF HandlerReturns, TypeOK, EndInv
  <2>2. CASE iteration = limit
    <3>1. pc = "await" /\ CloseRun("failed", "max_iterations", found') /\ paid' = paid /\ calls' = calls
      BY <1>0, <1>9, <2>2 DEF HandlerReturns, TypeOK
    <3>2. run' \in Runs /\ run'.status = "failed" /\ run'.error = "max_iterations"
      BY <1>0, <3>1, Closes DEF Statuses, Errors
    <3> QED BY <1>8, <3>1, <3>2 DEF CloseRun
  <2> QED BY <1>9, <2>1, <2>2 DEF HandlerReturns
<1>10. CASE HandlerRefuses
  <2>1. pc = "await" /\ CloseRun("failed", "tool", run.accepted) /\ paid' = paid /\ calls' = calls
    BY <1>10 DEF HandlerRefuses, ToolFails
  <2>2. run' \in Runs /\ run'.status = "failed" /\ run'.error = "tool"
    BY <1>0, <2>1, Closes DEF Statuses, Errors
  <2> QED BY <1>8, <2>1, <2>2 DEF CloseRun
<1>11. CASE HandlerRaises \/ HandlerTimesOut
  <2>1. CASE ToolFails
    <3>1. pc = "await" /\ CloseRun("failed", "tool", run.accepted) /\ paid' = paid /\ calls' = calls
      BY <1>11, <2>1 DEF HandlerRaises, HandlerTimesOut, ToolFails
    <3>2. run' \in Runs /\ run'.status = "failed" /\ run'.error = "tool"
      BY <1>0, <3>1, Closes DEF Statuses, Errors
    <3> QED BY <1>8, <3>1, <3>2 DEF CloseRun
  <2>2. CASE UNCHANGED <<pc, iteration, run>>
    BY <1>11, <2>2 DEF HandlerRaises, HandlerTimesOut, EndInv
  <2> QED BY <1>11, <2>1, <2>2 DEF HandlerRaises, HandlerTimesOut, Retry
<1>12. CASE (\E a \in stale : StaleHandlerEnds(a)) \/ Publish \/ PublishRefused \/ UNCHANGED vars
  <2>1. UNCHANGED <<run, paid, calls, response, found>>
        /\ (pc' \in {"publish", "commit"} => pc \in {"publish", "commit"})
    BY <1>12 DEF StaleHandlerEnds, Publish, PublishRefused, vars
  <2> QED BY <1>0, <2>1 DEF EndInv, Accepted
<1>13. CASE Purge
  BY <1>0, <1>13 DEF Purge, StoredInv, EndInv
<1> QED BY <1>1, <1>2, <1>3, <1>5, <1>6, <1>7, <1>9, <1>10, <1>11, <1>12, <1>13 DEF Next

\* Nothing was spent that the budget did not allow, after every step as well.
LEMMA OverrunStep == IInv /\ [Next]_vars => OnlyLastCallOverruns'
<1> SUFFICES ASSUME IInv, [Next]_vars PROVE OnlyLastCallOverruns'
  OBVIOUS
<1> USE ChatRunAssumption DEF ChatRunAssumption, request, loop, retrieval, database, outside
<1>0. TypeOK /\ LoopInv /\ EndInv /\ StoredInv /\ OnlyLastCallOverruns /\ TypeOK'
  BY TypeStep DEF IInv
<1>1. CASE RouteFails
  BY <1>0, <1>1 DEF RouteFails, LoopInv, OnlyLastCallOverruns
<1>2. CASE EmbedPassages \/ EmbeddingFails \/ StartRun \/ Generate
  BY <1>0, <1>2 DEF EmbedPassages, EmbeddingFails, StartRun, Generate, OnlyLastCallOverruns
<1>3. CASE UnreadableAnswer \/ RequestRaises \/ Crash \/ Commit
  BY <1>0, <1>3 DEF UnreadableAnswer, RequestRaises, Crash, Commit, OnlyLastCallOverruns
<1>4. ASSUME BudgetStops \/ ProviderFails \/ CallTool \/ Complete
      PROVE  calls'.tokens = used + response.tokens /\ response' = response
  <2>1. response \in Responses /\ calls.tokens = used /\ Record
    BY <1>0, <1>4 DEF BudgetStops, ProviderFails, CallTool, Complete, LoopInv
  <2> QED BY <1>0, <1>4, <2>1, RecordTyped
          DEF BudgetStops, ProviderFails, CallTool, Complete
<1>5. CASE BudgetStops
  BY <1>0, <1>4, <1>5 DEF BudgetStops, CloseRun, OnlyLastCallOverruns
<1>6. CASE ProviderFails
  <2>1. used' = used + response.tokens /\ used' <= MaxTokens
    BY <1>6 DEF ProviderFails, Charge, Affordable
  <2>2. run'.tokens = used' /\ run'.error = "provider" /\ used' \in Nat
    BY <1>0, <1>6 DEF ProviderFails, CloseRun, TypeOK
  <2> QED BY <1>4, <1>6, <2>1, <2>2 DEF OnlyLastCallOverruns
<1>7. CASE Complete
  <2>1. used' = used + response.tokens /\ used' <= MaxTokens
    BY <1>7 DEF Complete, Charge, Affordable
  <2>2. run'.tokens = used' /\ run'.error = "none" /\ used' \in Nat
    BY <1>0, <1>7 DEF Complete, CloseRun, TypeOK
  <2> QED BY <1>4, <1>7, <2>1, <2>2 DEF OnlyLastCallOverruns
<1>8. CASE CallTool
  BY <1>0, <1>8 DEF CallTool, Charge, Affordable, OnlyLastCallOverruns
<1>9. ASSUME pc = "await", pc' = "publish", used' = used, calls' = calls,
             run'.tokens = used', run'.error \in {"tool", "max_iterations"}
      PROVE  OnlyLastCallOverruns'
  <2>1. calls'.tokens = used' /\ used' \in Nat /\ used' <= MaxTokens
    BY <1>0, <1>9 DEF LoopInv, OnlyLastCallOverruns, TypeOK
  <2> QED BY <1>9, <2>1 DEF OnlyLastCallOverruns
<1>10. CASE HandlerReturns
  <2>1. CASE iteration < limit
    BY <1>0, <1>10, <2>1 DEF HandlerReturns, TypeOK, OnlyLastCallOverruns
  <2>2. CASE iteration = limit
    BY <1>0, <1>9, <1>10, <2>2 DEF HandlerReturns, CloseRun, TypeOK
  <2> QED BY <1>10, <2>1, <2>2 DEF HandlerReturns
<1>11. CASE HandlerRefuses
  BY <1>9, <1>11 DEF HandlerRefuses, ToolFails, CloseRun
<1>12. CASE HandlerRaises \/ HandlerTimesOut
  <2>1. CASE ToolFails
    BY <1>9, <1>12, <2>1 DEF HandlerRaises, HandlerTimesOut, ToolFails, CloseRun
  <2>2. CASE UNCHANGED <<pc, iteration, run>>
    BY <1>0, <1>12, <2>2 DEF HandlerRaises, HandlerTimesOut, OnlyLastCallOverruns
  <2> QED BY <1>12, <2>1, <2>2 DEF HandlerRaises, HandlerTimesOut, Retry
<1>13. CASE (\E a \in stale : StaleHandlerEnds(a)) \/ Publish \/ PublishRefused \/ UNCHANGED vars
  <2>1. UNCHANGED <<run, used, calls, response>>
        /\ (pc' \in {"publish", "commit"} => pc \in {"publish", "commit"})
    BY <1>13 DEF StaleHandlerEnds, Publish, PublishRefused, vars
  <2> QED BY <1>0, <2>1 DEF OnlyLastCallOverruns
<1>14. CASE Purge
  BY <1>0, <1>14 DEF Purge, StoredInv, OnlyLastCallOverruns
<1> QED BY <1>1, <1>2, <1>3, <1>5, <1>6, <1>7, <1>8, <1>10, <1>11, <1>12, <1>13, <1>14 DEF Next

\* The event handed over stays the one that announces the run.
LEMMA AnnouncedStep == IInv /\ [Next]_vars => AnnouncedInv'
<1> SUFFICES ASSUME IInv, [Next]_vars PROVE AnnouncedInv'
  OBVIOUS
<1> USE DEF request, loop, retrieval, database, outside
<1>0. TypeOK /\ LoopInv /\ AnnouncedInv /\ StoredInv
  BY DEF IInv
<1>1. CASE EmbedPassages \/ EmbeddingFails \/ RouteFails \/ StartRun \/ Generate \/ CallTool
  BY <1>0, <1>1 DEF EmbedPassages, EmbeddingFails, RouteFails, StartRun, Generate, CallTool,
                    LoopInv, AnnouncedInv
<1>2. CASE BudgetStops \/ ProviderFails \/ Complete
  <2>1. pc' = "publish" /\ event' = event /\ pc = "generated"
    BY <1>2 DEF BudgetStops, ProviderFails, Complete, CloseRun
  <2> QED BY <1>0, <2>1 DEF LoopInv, AnnouncedInv
<1>3. CASE UnreadableAnswer \/ RequestRaises \/ Crash \/ Commit
  BY <1>3 DEF UnreadableAnswer, RequestRaises, Crash, Commit, AnnouncedInv
<1>4. CASE HandlerReturns \/ HandlerRefuses \/ HandlerRaises \/ HandlerTimesOut
  <2>1. pc = "await" /\ event' = event /\ pc' \in {"await", "generate", "publish"}
    BY <1>4 DEF HandlerReturns, HandlerRefuses, HandlerRaises, HandlerTimesOut, Retry,
                ToolFails, CloseRun
  <2> QED BY <1>0, <2>1 DEF LoopInv, AnnouncedInv
<1>5. CASE Publish
  <2>1. UNCHANGED <<provider, run, calls>> /\ pc' = "commit" /\ event' = Announcement
    BY <1>5 DEF Publish
  <2>2. Announcement' = Announcement
    BY <2>1 DEF Announcement, AnswerGenerated, Outcome, Sources
  <2> QED BY <2>1, <2>2 DEF AnnouncedInv
<1>6. CASE PublishRefused
  BY <1>0, <1>6 DEF PublishRefused, AnnouncedInv
<1>7. CASE (\E a \in stale : StaleHandlerEnds(a)) \/ UNCHANGED vars
  <2>1. UNCHANGED <<pc, event, provider, run, calls>>
    BY <1>7 DEF StaleHandlerEnds, vars
  <2>2. Announcement' = Announcement
    BY <2>1 DEF Announcement, AnswerGenerated, Outcome, Sources
  <2> QED BY <1>0, <2>1, <2>2 DEF AnnouncedInv
<1>8. CASE Purge
  BY <1>0, <1>8 DEF Purge, StoredInv, AnnouncedInv
<1> QED BY <1>1, <1>2, <1>3, <1>4, <1>5, <1>6, <1>7, <1>8 DEF Next

\* Before the commit the database holds nothing of the request, and afterwards
\* it holds the run.
LEMMA StoredInvStep == IInv /\ [Next]_vars => StoredInv'
<1> SUFFICES ASSUME IInv, [Next]_vars PROVE StoredInv'
  OBVIOUS
<1> USE DEF request, loop, retrieval, database, outside
<1>1. StoredInv
  BY DEF IInv
<1>2. stored' # None => stored' = run'
  BY <1>1, StoredStep DEF StoredInv, Commit
<1>3. pc' # "done" => stored' = None /\ ledger' = 0
  <2>1. CASE EmbedPassages \/ EmbeddingFails \/ RouteFails \/ StartRun \/ Generate \/ CallTool
    BY <1>1, <2>1 DEF EmbedPassages, EmbeddingFails, RouteFails, StartRun, Generate, CallTool,
                      StoredInv
  <2>2. CASE BudgetStops \/ ProviderFails \/ Complete
    BY <1>1, <2>2 DEF BudgetStops, ProviderFails, Complete, StoredInv
  <2>3. CASE UnreadableAnswer \/ RequestRaises \/ Crash \/ Commit
    BY <2>3 DEF UnreadableAnswer, RequestRaises, Crash, Commit
  <2>4. CASE HandlerReturns \/ HandlerRefuses \/ HandlerRaises \/ HandlerTimesOut
    BY <1>1, <2>4 DEF HandlerReturns, HandlerRefuses, HandlerRaises, HandlerTimesOut, StoredInv
  <2>5. CASE Publish \/ PublishRefused
    BY <1>1, <2>5 DEF Publish, PublishRefused, StoredInv
  <2>6. CASE (\E a \in stale : StaleHandlerEnds(a)) \/ UNCHANGED vars
    BY <1>1, <2>6 DEF StaleHandlerEnds, vars, StoredInv
  <2>7. CASE Purge
    BY <1>1, <2>7 DEF Purge, StoredInv
  <2> QED BY <2>1, <2>2, <2>3, <2>4, <2>5, <2>6, <2>7 DEF Next
<1> QED BY <1>2, <1>3 DEF StoredInv

\* What the commit puts in the database is true of the run and of its event,
\* and its cloud calls are in the ledger.
LEMMA CommitStep ==
    ASSUME IInv, Commit
    PROVE  StoredRunIsTruthful' /\ EventMatchesStoredRun' /\ StoredRunIsBilled'
<1> USE DEF request, loop, retrieval, database, outside
<1>0. /\ pc = "commit" /\ stored' = run /\ ledger' = ledger + calls.cloud
      /\ UNCHANGED <<provider, run, calls, response, found, used, event, paid>>
  BY DEF Commit
<1>1. TypeOK /\ EndInv /\ AnnouncedInv /\ StoredInv /\ OnlyLastCallOverruns
  BY DEF IInv
<1>2. /\ run \in Runs /\ run.status # "running" /\ run.tokens = used /\ used <= MaxTokens
      /\ run.status = "complete" <=> run.error = "none"
      /\ run.error = "provider" => run.status = "failed"
  BY <1>0, <1>1 DEF EndInv, OnlyLastCallOverruns
<1>3. StoredRunIsTruthful'
  <2>1. Sources' = Sources
    BY <1>0 DEF Sources
  <2>2. run.status = "complete" =>
          /\ Sources = run.accepted
          /\ run.accepted = IF response.kind = "grounded" THEN found ELSE {}
    BY <1>0, <1>1 DEF Sources, EndInv, Accepted
  <2> QED BY <1>0, <1>2, <2>1, <2>2 DEF StoredRunIsTruthful
<1>4. EventMatchesStoredRun'
  <2>1. event = Announcement \/ (event = None /\ run.status # "complete")
    BY <1>0, <1>1 DEF AnnouncedInv
  <2>2. CASE run.status = "complete"
    <3>1. Announcement = [type |-> "completed", tokens |-> run.tokens,
                          generated |-> AnswerGenerated]
      BY <2>2 DEF Announcement
    <3>2. AnswerGenerated <=> run.accepted # {}
      BY <2>2 DEF AnswerGenerated, Outcome, Sources
    <3>3. AnswerGenerated \in BOOLEAN /\ run.tokens \in Nat
      BY <1>2 DEF AnswerGenerated, Runs
    <3>4. Announcement \in Events
      BY <3>1, <3>3 DEF Events
    <3>5. event # None
      BY <2>1, <2>2, <3>4, NoneAssumption
    <3>6. event.type = "completed" /\ event.tokens = run.tokens
          /\ event.generated = AnswerGenerated
      BY <2>1, <2>2, <3>1
    <3> QED BY <1>0, <1>2, <2>2, <3>2, <3>5, <3>6 DEF EventMatchesStoredRun
  <2>3. CASE run.status # "complete" /\ run.error = "provider" /\ event = Announcement
    <3>1. event.type = "failed" /\ event.tokens = run.tokens /\ event.generated = FALSE
      BY <2>3 DEF Announcement
    <3> QED BY <1>0, <2>3, <3>1 DEF EventMatchesStoredRun
  <2>4. CASE run.status # "complete" /\ (run.error # "provider" \/ event # Announcement)
    <3>1. event = None
      BY <2>1, <2>4 DEF Announcement
    <3> QED BY <1>0, <2>4, <3>1 DEF EventMatchesStoredRun
  <2> QED BY <2>2, <2>3, <2>4
<1>5. StoredRunIsBilled'
  <2>1. ledger = 0 /\ paid <= calls.cloud /\ calls.cloud \in Nat
    BY <1>0, <1>1 DEF StoredInv, EndInv, TypeOK, Calls
  <2> QED BY <1>0, <2>1 DEF StoredRunIsBilled
<1> QED BY <1>3, <1>4, <1>5

\* What is said of a run in the database stays true after every step.
LEMMA DatabaseStep ==
    IInv /\ [Next]_vars =>
        StoredRunIsTruthful' /\ EventMatchesStoredRun' /\ StoredRunIsBilled'
<1> SUFFICES ASSUME IInv, [Next]_vars
             PROVE  StoredRunIsTruthful' /\ EventMatchesStoredRun' /\ StoredRunIsBilled'
  OBVIOUS
<1>1. CASE stored' = None
  BY <1>1 DEF StoredRunIsTruthful, EventMatchesStoredRun, StoredRunIsBilled
<1>2. CASE Commit
  BY <1>2, CommitStep
<1>3. CASE UNCHANGED <<stored, ledger, paid, run, calls, response, found, event>>
  <2>1. StoredRunIsTruthful /\ EventMatchesStoredRun /\ StoredRunIsBilled
    BY DEF IInv
  <2> QED BY <1>3, <2>1
          DEF StoredRunIsTruthful, EventMatchesStoredRun, StoredRunIsBilled, Sources
<1> QED BY <1>1, <1>2, <1>3, StoredStep

-----------------------------------------------------------------------------
\* The invariant is inductive: it holds of every reachable state.
THEOREM InvariantHolds == Spec => []IInv
<1>1. IInv /\ [Next]_vars => IInv'
  BY TypeStep, LoopStep, SentStep, EndStep, AnnouncedStep, StoredInvStep, OverrunStep, DatabaseStep
     DEF IInv
<1> QED BY InitIInv, <1>1, PTL DEF Spec

\* Every variable of the request keeps its type, whatever the budget, the
\* number of iterations and attempts and the evidence.
THEOREM TypeCorrect == Spec => []TypeOK
<1>1. IInv => TypeOK
  BY DEF IInv
<1> QED BY InvariantHolds, <1>1, PTL

\* The budget is never overspent, and the totals of a finished run leave out at
\* most its last call, the one that broke the budget.
THEOREM BudgetIsKept == Spec => []OnlyLastCallOverruns
<1>1. IInv => OnlyLastCallOverruns
  BY DEF IInv
<1> QED BY InvariantHolds, <1>1, PTL

\* What the user is told of the answer model agrees with what it was asked and paid, and with
\* what else left the machine: nothing, unless a Google model brought its embedding API.
THEOREM CostIsTrue == Spec => []CostIsToldRightly
<1>1. IInv => CostIsToldRightly
  <2> DEFINE billedOutcome == Outcome \in {"cloud_completed", "cloud_declined_unsupported"}
  <2> SUFFICES ASSUME IInv, pc \in {"publish", "commit"}, Outcome # "cloud_provider_failed"
               PROVE  IF billedOutcome THEN paid > 0 /\ "answer" \in sent
                      ELSE paid = 0
                           /\ sent \subseteq (IF semantic THEN {"passages", "query"} ELSE {})
    BY DEF CostIsToldRightly
  <2>1. run.status # "failed"
    BY DEF Outcome
  <2>2. (paid > 0 <=> calls.cloud > 0) /\ paid \in Nat
    BY <2>1 DEF IInv, EndInv, TypeOK
  <2>3. calls.cloud > 0 <=> billedOutcome
    BY <2>1 DEF Outcome
  <2>4. "answer" \in sent <=> calls.cloud > 0
    BY DEF IInv, SentInv
  <2>5. sent \subseteq {"passages", "query", "answer"} /\ (~semantic => sent \subseteq {"answer"})
    BY DEF IInv, TypeOK, Texts, SentInv
  <2> HIDE DEF billedOutcome
  <2> QED BY <2>2, <2>3, <2>4, <2>5
<1> QED BY InvariantHolds, <1>1, PTL

\* A run in the database has ended within its budget, and its links are
\* accepted exactly when an answer was given.
THEOREM StoredIsTrue == Spec => []StoredRunIsTruthful
<1>1. IInv => StoredRunIsTruthful
  BY DEF IInv
<1> QED BY InvariantHolds, <1>1, PTL

\* A run in the database and the event handed to the producer agree.
THEOREM EventIsTrue == Spec => []EventMatchesStoredRun
<1>1. IInv => EventMatchesStoredRun
  BY DEF IInv
<1> QED BY InvariantHolds, <1>1, PTL

\* Every answer the provider was paid for is in the ledger once the run is in
\* the database.
THEOREM StoredIsBilled == Spec => []StoredRunIsBilled
<1>1. IInv => StoredRunIsBilled
  BY DEF IInv
<1> QED BY InvariantHolds, <1>1, PTL

\* No step takes anything from the usage ledger, the deletion of the run
\* included.
THEOREM LedgerIsKept == Spec => LedgerOnlyGrows
<1>1. IInv /\ [Next]_vars => [ledger' >= ledger]_vars
  <2> SUFFICES ASSUME IInv, [Next]_vars PROVE ledger' >= ledger \/ UNCHANGED vars
    OBVIOUS
  <2> USE DEF request, loop, retrieval, database, outside
  <2>1. ledger \in Nat /\ calls.cloud \in Nat
    BY DEF IInv, TypeOK, Calls
  <2>2. CASE Commit
    BY <2>1, <2>2 DEF Commit
  <2>3. CASE EmbedPassages \/ EmbeddingFails \/ RouteFails \/ StartRun \/ Generate
             \/ UnreadableAnswer \/ CallTool
    BY <2>1, <2>3 DEF EmbedPassages, EmbeddingFails, RouteFails, StartRun, Generate,
                      UnreadableAnswer, CallTool
  <2>4. CASE BudgetStops \/ ProviderFails \/ Complete
    BY <2>1, <2>4 DEF BudgetStops, ProviderFails, Complete
  <2>5. CASE HandlerReturns \/ HandlerRefuses \/ HandlerRaises \/ HandlerTimesOut
    BY <2>1, <2>5 DEF HandlerReturns, HandlerRefuses, HandlerRaises, HandlerTimesOut
  <2>6. CASE Publish \/ PublishRefused \/ RequestRaises \/ Crash \/ Purge
    BY <2>1, <2>6 DEF Publish, PublishRefused, RequestRaises, Crash, Purge
  <2>7. CASE (\E a \in stale : StaleHandlerEnds(a)) \/ UNCHANGED vars
    BY <2>1, <2>7 DEF StaleHandlerEnds, vars
  <2> QED BY <2>2, <2>3, <2>4, <2>5, <2>6, <2>7 DEF Next
<1> QED BY InvariantHolds, <1>1, PTL DEF LedgerOnlyGrows, Spec

-----------------------------------------------------------------------------
(* ChatRun implements BilledRun.                                            *)

\* The row of a run that has not ended says so.
RunningInv ==
    /\ pc \in {"start", "route"} => run = None
    /\ pc \in {"generate", "generated", "await"} => run.status = "running"

\* Each step either ends the run or leaves it running, if the loop goes on at all.
THEOREM RunningHolds == Spec => []RunningInv
<1>1. Init => RunningInv
  BY DEF Init, RunningInv
<1>2. IInv /\ RunningInv /\ [Next]_vars => RunningInv'
  <2> SUFFICES ASSUME IInv, RunningInv, [Next]_vars PROVE RunningInv'
    OBVIOUS
  <2> USE DEF RunningInv
  <2>0. pc \in {"generate", "generated", "await"} => run \in Runs
    BY DEF IInv, LoopInv
  <2>1. CASE EmbedPassages \/ EmbeddingFails \/ RouteFails \/ StartRun \/ Generate
             \/ UnreadableAnswer
    BY <2>1 DEF EmbedPassages, EmbeddingFails, RouteFails, StartRun, Generate, UnreadableAnswer
  <2>2. CASE BudgetStops \/ ProviderFails \/ CallTool \/ Complete
    BY <2>2 DEF BudgetStops, ProviderFails, CallTool, Complete, CloseRun
  <2>3. CASE HandlerReturns
    <3>1. run \in Runs /\ run.status = "running" /\ pc = "await"
      BY <2>0, <2>3 DEF HandlerReturns
    <3>2. CASE pc' = "generate"
      <4>1. run' = [run EXCEPT !.accepted = found']
        BY <2>3, <3>2 DEF HandlerReturns, CloseRun
      <4>2. run'.status = run.status
        BY <3>1, <4>1 DEF Runs
      <4>3. QED
        BY <3>1, <3>2, <4>2
    <3>3. CASE pc' = "publish"
      BY <3>3
    <3>4. QED
      BY <2>3, <3>2, <3>3 DEF HandlerReturns, CloseRun
  <2>4. CASE HandlerRefuses \/ HandlerRaises \/ HandlerTimesOut
    BY <2>4 DEF HandlerRefuses, HandlerRaises, HandlerTimesOut, Retry, ToolFails, CloseRun
  <2>5. CASE Publish \/ PublishRefused \/ Commit \/ RequestRaises \/ Crash \/ Purge
    BY <2>5 DEF Publish, PublishRefused, Commit, RequestRaises, Crash, Purge
  <2>6. CASE (\E a \in stale : StaleHandlerEnds(a)) \/ UNCHANGED vars
    BY <2>6 DEF StaleHandlerEnds, vars
  <2>7. QED
    BY <2>1, <2>2, <2>3, <2>4, <2>5, <2>6 DEF Next
<1>3. QED
  BY <1>1, <1>2, InvariantHolds, PTL DEF Spec

\* A run is closed as the abstract run ends: its row says how.
LEMMA EndsAbstractly ==
    ASSUME IInv, IInv', RunningInv, pc \in {"start", "route", "generate", "generated", "await"},
           pc' = "publish", UNCHANGED <<event, stored, ledger, paid>>
    PROVE  Billed!End
<1>1. run = None \/ run.status = "running"
  BY DEF RunningInv
<1>2. run' \in Runs /\ run'.status # "running"
  BY DEF IInv, EndInv
<1>3. run' # None
  BY <1>2, NoneAssumption
<1>4. QED
  BY <1>1, <1>2, <1>3 DEF Billed!End, Billed!CallAtMost

\* While the loop goes on, nothing is seen of it.
LEMMA GoesOnAbstractly ==
    ASSUME RunningInv, RunningInv', pc \in {"start", "route", "generate", "generated", "await"},
           pc' \in {"route", "generate", "generated", "await"},
           UNCHANGED <<event, stored, ledger, paid>>
    PROVE  UNCHANGED Billed!vars
BY DEF RunningInv, Billed!vars

\* A request that raises, or is cut short, has stored nothing.
LEMMA StopsAbstractly ==
    ASSUME pc # "done", pc' = "done", UNCHANGED <<run, event, stored, ledger, paid>>
    PROVE  Billed!Stop
BY DEF Billed!Stop, Billed!CallAtMost

\* The announcement is the abstract one: early, and of the run that has ended.
LEMMA AnnouncesAbstractly ==
    ASSUME IInv, Publish
    PROVE  Billed!Announce \/ UNCHANGED Billed!vars
<1>1. /\ event = None /\ stored = None /\ run \in Runs /\ run.status # "running"
      /\ pc = "publish" /\ pc' = "commit" /\ event' = Announcement
      /\ UNCHANGED <<run, stored, ledger, paid>>
  BY DEF IInv, AnnouncedInv, StoredInv, EndInv, Publish, database, outside
<1>2. run # None
  BY <1>1, NoneAssumption
<1>3. CASE Announcement = None
  BY <1>1, <1>3 DEF Billed!vars
<1>4. CASE Announcement # None
  <2>1. Announcement.type = (IF run.status = "complete" THEN "completed" ELSE "failed")
        /\ Announcement.tokens = run.tokens
    BY <1>4 DEF Announcement
  <2>2. Billed!EventOf(Summary(run)) =
            [type |-> Announcement.type, totals |-> Announcement.tokens]
    BY <2>1 DEF Billed!EventOf, Summary
  <2>3. Billed!EventOf(Summary(run)).type \in {"completed", "failed"}
    BY DEF Billed!EventOf
  <2>4. QED
    BY <1>1, <1>2, <1>4, <2>2, <2>3 DEF Billed!Announce
<1>5. QED
  BY <1>3, <1>4

\* The commit of the request's session is the abstract one.
LEMMA StoresAbstractly == ASSUME IInv, Commit PROVE Billed!Store
<1>1. /\ stored = None /\ ledger = 0 /\ run \in Runs /\ run.status # "running"
      /\ pc = "commit" /\ pc' = "done" /\ stored' = run /\ ledger' = ledger + calls.cloud
      /\ UNCHANGED <<run, event, paid>>
  BY DEF IInv, StoredInv, EndInv, Commit, outside
<1>2. run # None
  BY <1>1, NoneAssumption
<1>3. ledger' >= paid
  BY <1>1 DEF IInv, TypeOK, Calls, EndInv
<1>4. Summary(run).complete => event # None
  <2>1. SUFFICES ASSUME run.status = "complete" PROVE event # None
    BY DEF Summary
  <2>2. event = Announcement
    BY <1>1, <2>1 DEF IInv, AnnouncedInv
  <2>3. Announcement \in Events
    <3>1. run.tokens \in Nat
      BY <1>1 DEF Runs
    <3>2. AnswerGenerated \in BOOLEAN
      BY DEF AnswerGenerated
    <3>3. QED
      BY <2>1, <3>1, <3>2 DEF Announcement, Events
  <2>4. QED
    BY <2>2, <2>3, NoneAssumption
<1>5. QED
  BY <1>1, <1>2, <1>3, <1>4 DEF Billed!Store

\* A question asked over indexed sources keeps what every research request promises: the run
\* and its ledger rows are committed together and once, no call follows the end of the run,
\* and the one event tells of it (query_chat, get_db_session).
THEOREM KeepsPromises == Spec => PromisesOfBilledRun
<1>1. Init => Billed!Init
  BY DEF Init, Billed!Init
<1>2. IInv /\ IInv' /\ RunningInv /\ RunningInv' /\ [Next]_vars => [Billed!Next]_(Billed!vars)
  <2> SUFFICES ASSUME IInv, IInv', RunningInv, RunningInv', [Next]_vars
               PROVE  Billed!Next \/ UNCHANGED Billed!vars
    OBVIOUS
  <2> USE DEF request, loop, retrieval, database, outside
  <2>1. CASE RouteFails
    <3>1. Billed!End
      BY <2>1, EndsAbstractly DEF RouteFails
    <3>2. QED
      BY <3>1 DEF Billed!Next
  <2>2. CASE StartRun
    <3>1. UNCHANGED Billed!vars
      BY <2>2, GoesOnAbstractly DEF StartRun
    <3>2. QED
      BY <3>1
  <2>3. CASE Generate
    <3>1. pc = "generate" /\ pc' = "generated" /\ paid' \in {paid, paid + 1}
          /\ UNCHANGED <<run, event, stored, ledger>> /\ run.status = "running"
      BY <2>3 DEF Generate, RunningInv
    <3>2. Billed!Call
      BY <3>1 DEF Billed!Call, Billed!CallAtMost
    <3>3. QED
      BY <3>2 DEF Billed!Next
  <2>4. CASE UnreadableAnswer
    <3>1. pc = "generate" /\ pc' = "done" /\ paid' = paid + 1
          /\ UNCHANGED <<run, event, stored, ledger>> /\ run.status = "running"
      BY <2>4 DEF UnreadableAnswer, RunningInv
    <3>2. Billed!Stop
      BY <3>1 DEF Billed!Stop, Billed!CallAtMost
    <3>3. QED
      BY <3>2 DEF Billed!Next
  <2>5. CASE BudgetStops \/ ProviderFails \/ Complete
    <3>1. Billed!End
      BY <2>5, EndsAbstractly DEF BudgetStops, ProviderFails, Complete, CloseRun
    <3>2. QED
      BY <3>1 DEF Billed!Next
  <2>6. CASE CallTool
    <3>1. UNCHANGED Billed!vars
      BY <2>6, GoesOnAbstractly DEF CallTool
    <3>2. QED
      BY <3>1
  <2>7. CASE HandlerReturns \/ HandlerRefuses \/ HandlerRaises \/ HandlerTimesOut
    <3>1. /\ pc = "await" /\ pc' \in {"await", "generate", "publish"}
          /\ UNCHANGED <<event, stored, ledger, paid>>
      BY <2>7 DEF HandlerReturns, HandlerRefuses, HandlerRaises, HandlerTimesOut, Retry,
                  ToolFails, CloseRun
    <3>2. CASE pc' = "publish"
      <4>1. Billed!End
        BY <3>1, <3>2, EndsAbstractly
      <4>2. QED
        BY <4>1 DEF Billed!Next
    <3>3. CASE pc' # "publish"
      <4>1. UNCHANGED Billed!vars
        BY <3>1, <3>3, GoesOnAbstractly
      <4>2. QED
        BY <4>1
    <3>4. QED
      BY <3>2, <3>3
  <2>8. CASE Publish
    <3>1. Billed!Announce \/ UNCHANGED Billed!vars
      BY <2>8, AnnouncesAbstractly
    <3>2. QED
      BY <3>1 DEF Billed!Next
  <2>9. CASE PublishRefused \/ RequestRaises \/ Crash
    <3>1. pc # "done" /\ UNCHANGED <<run, event, stored, ledger, paid>>
      BY <2>9 DEF PublishRefused, RequestRaises, Crash
    <3>2. CASE pc' = "done"
      <4>1. Billed!Stop
        BY <3>1, <3>2, StopsAbstractly
      <4>2. QED
        BY <4>1 DEF Billed!Next
    <3>3. CASE pc' # "done"
      BY <3>1, <3>3 DEF Billed!vars
    <3>4. QED
      BY <3>2, <3>3
  <2>10. CASE Commit
    <3>1. Billed!Store
      BY <2>10, StoresAbstractly
    <3>2. QED
      BY <3>1 DEF Billed!Next
  <2>11. CASE Purge
    <3>1. pc = "done"
      BY <2>11 DEF Purge, IInv, StoredInv
    <3>2. Billed!Purge
      BY <2>11, <3>1 DEF Purge, Billed!Purge
    <3>3. QED
      BY <3>2 DEF Billed!Next
  <2>12. CASE (\E a \in stale : StaleHandlerEnds(a)) \/ UNCHANGED vars
    BY <2>12 DEF StaleHandlerEnds, vars, Billed!vars
  <2>13. CASE EmbedPassages
    BY <2>13, GoesOnAbstractly DEF EmbedPassages
  <2>14. CASE EmbeddingFails
    <3>1. Billed!Stop
      BY <2>14, StopsAbstractly DEF EmbeddingFails
    <3>2. QED
      BY <3>1 DEF Billed!Next
  <2>15. QED
    BY <2>1, <2>2, <2>3, <2>4, <2>5, <2>6, <2>7, <2>8, <2>9, <2>10, <2>11, <2>12, <2>13, <2>14
    DEF Next
<1>3. QED
  BY <1>1, <1>2, InvariantHolds, RunningHolds, PTL DEF Spec, PromisesOfBilledRun, Billed!Spec
=============================================================================
