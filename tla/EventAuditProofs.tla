------------------------- MODULE EventAuditProofs -------------------------
(***************************************************************************)
(* Theorems about EventAudit, for any partitions, messages, retry limit,   *)
(* retention and number of disturbances: the invariant IInv and what       *)
(* follows from it, the ranks of the projection, and that the consumer     *)
(* implements AuditDelivery.                                               *)
(***************************************************************************)
EXTENDS EventAuditRefinement, FiniteSetTheorems, FunctionTheorems, TLAPS

-----------------------------------------------------------------------------
(* The projection.                                                         *)

\* A row stays a row when its counters change.
LEMMA RowTouched ==
    ASSUME NEW row \in Rows, NEW d \in Nat, NEW a \in Nat
    PROVE  [row EXCEPT !.duplicates = d, !.attempts = a, !.rank = 0] \in Rows
BY DEF Rows

\* record followed by prune keeps the table well typed.
LEMMA ProjectedTyped ==
    ASSUME TypeOK, NEW id \in RowIds, NEW status \in {"processed", "dlq"},
           NEW digest \in Digests, NEW tries \in Nat, NEW keep \in Keeps
    PROVE  LET t == Projected(id, status, digest, tries, keep) IN
           DOMAIN t \subseteq RowIds /\ \A k \in DOMAIN t : t[k] \in Rows
<1> DEFINE r == Recorded(id, status, digest, tries)
           t == Projected(id, status, digest, tries, keep)
<1>1. \A k \in DOMAIN audit : audit[k] \in Rows
  BY DEF TypeOK
<1>2. DOMAIN r = DOMAIN audit \cup {id}
  BY DEF Recorded
<1>3. ASSUME NEW k \in DOMAIN r PROVE r[k] \in Rows
  <2>1. CASE k # id
    <3>1. k \in DOMAIN audit /\ audit[k] \in Rows
      BY <1>1, <1>2, <2>1
    <3>2. r[k] = [audit[k] EXCEPT !.rank =
             IF id \in DOMAIN audit /\ audit[id].rank < @ THEN @ ELSE @ + 1]
      BY <1>2, <2>1 DEF Recorded
    <3> QED BY <3>1, <3>2 DEF Rows
  <2>2. CASE k = id /\ id \in DOMAIN audit
    <3>1. audit[id] \in Rows
      BY <1>1, <2>2
    <3>2. r[k] = [audit[id] EXCEPT !.duplicates = @ + 1,
                                   !.attempts = Larger(@, tries), !.rank = 0]
      BY <1>2, <2>2 DEF Recorded
    <3> DEFINE d == audit[id].duplicates + 1
               a == Larger(audit[id].attempts, tries)
    <3>3. d \in Nat /\ a \in Nat
      BY <3>1 DEF Rows, Larger
    <3>4. r[k] = [audit[id] EXCEPT !.duplicates = d, !.attempts = a, !.rank = 0]
      BY <3>2
    <3> HIDE DEF r, d, a
    <3>5. [audit[id] EXCEPT !.duplicates = d, !.attempts = a, !.rank = 0] \in Rows
      BY <3>1, <3>3, RowTouched
    <3> QED BY <3>4, <3>5
  <2>3. CASE k = id /\ id \notin DOMAIN audit
    <3>1. r[k] = [status |-> status, digest |-> digest, attempts |-> tries,
                  duplicates |-> 0, rank |-> 0]
      BY <1>2, <2>3 DEF Recorded
    <3> QED BY <3>1 DEF Rows
  <2> QED BY <2>1, <2>2, <2>3
<1>4. t = [k \in {j \in DOMAIN r : r[j].rank < keep} |-> r[k]]
  BY DEF Projected, Pruned
<1>5. DOMAIN t \subseteq DOMAIN r /\ \A k \in DOMAIN t : t[k] = r[k]
  BY <1>4
<1>6. DOMAIN audit \subseteq RowIds
  BY DEF TypeOK
<1> HIDE DEF r, t
<1>7. DOMAIN t \subseteq RowIds /\ \A k \in DOMAIN t : t[k] \in Rows
  BY <1>2, <1>3, <1>5, <1>6
<1> QED BY <1>7 DEF t

\* What record and prune leave of the rows: the row written is there, with the
\* digest and status it already had if it was known, and every other row that
\* stays says what it said.
LEMMA ProjectedRows ==
    ASSUME TypeOK, NEW id \in RowIds, NEW status \in {"processed", "dlq"},
           NEW digest \in Digests, NEW tries \in Nat, NEW keep \in Keeps
    PROVE  LET t == Projected(id, status, digest, tries, keep) IN
           /\ id \in DOMAIN t
           /\ DOMAIN t \subseteq DOMAIN audit \cup {id}
           /\ id \notin DOMAIN audit =>
                t[id].status = status /\ t[id].digest = digest
           /\ \A k \in DOMAIN t \cap DOMAIN audit :
                /\ t[k].status = audit[k].status
                /\ t[k].digest = audit[k].digest
                /\ t[k].duplicates >= audit[k].duplicates
                /\ t[k].attempts >= audit[k].attempts
<1> DEFINE r == Recorded(id, status, digest, tries)
           t == Projected(id, status, digest, tries, keep)
<1>1. \A k \in DOMAIN audit : audit[k] \in Rows
  BY DEF TypeOK
<1>2. DOMAIN r = DOMAIN audit \cup {id}
  BY DEF Recorded
<1>3. r[id].rank = 0
  <2>1. CASE id \in DOMAIN audit
    <3>1. audit[id] \in Rows
      BY <1>1, <2>1
    <3>2. r[id] = [audit[id] EXCEPT !.duplicates = @ + 1,
                                    !.attempts = Larger(@, tries), !.rank = 0]
      BY <1>2, <2>1 DEF Recorded
    <3> QED BY <3>1, <3>2 DEF Rows
  <2>2. CASE id \notin DOMAIN audit
    BY <1>2, <2>2 DEF Recorded
  <2> QED BY <2>1, <2>2
<1>4. id \notin DOMAIN audit => r[id].status = status /\ r[id].digest = digest
  BY <1>2 DEF Recorded
<1>5. ASSUME NEW k \in DOMAIN audit
      PROVE  /\ r[k].status = audit[k].status
             /\ r[k].digest = audit[k].digest
             /\ r[k].duplicates >= audit[k].duplicates
             /\ r[k].attempts >= audit[k].attempts
  <2>1. audit[k] \in Rows
    BY <1>1
  <2>2. CASE k # id
    <3>1. r[k] = [audit[k] EXCEPT !.rank =
             IF id \in DOMAIN audit /\ audit[id].rank < @ THEN @ ELSE @ + 1]
      BY <1>2, <2>2 DEF Recorded
    <3> QED BY <2>1, <3>1 DEF Rows
  <2>3. CASE k = id
    <3>1. r[k] = [audit[id] EXCEPT !.duplicates = @ + 1,
                                   !.attempts = Larger(@, tries), !.rank = 0]
      BY <1>2, <2>3 DEF Recorded
    <3> QED BY <2>1, <2>3, <3>1 DEF Rows, Larger
  <2> QED BY <2>2, <2>3
<1>6. t = [k \in {j \in DOMAIN r : r[j].rank < keep} |-> r[k]]
  BY DEF Projected, Pruned
<1>7. 0 < keep
  BY EventAuditAssumption DEF Keeps
<1>8. /\ id \in DOMAIN t
      /\ DOMAIN t \subseteq DOMAIN r
      /\ \A k \in DOMAIN t : t[k] = r[k]
  BY <1>2, <1>3, <1>6, <1>7
<1> HIDE DEF r, t
<1>9. /\ id \in DOMAIN t
      /\ DOMAIN t \subseteq DOMAIN audit \cup {id}
      /\ id \notin DOMAIN audit => t[id].status = status /\ t[id].digest = digest
      /\ \A k \in DOMAIN t \cap DOMAIN audit :
            /\ t[k].status = audit[k].status
            /\ t[k].digest = audit[k].digest
            /\ t[k].duplicates >= audit[k].duplicates
            /\ t[k].attempts >= audit[k].attempts
  BY <1>2, <1>4, <1>5, <1>8
<1> QED BY <1>9 DEF t

-----------------------------------------------------------------------------
(* The inductive invariant.                                                *)

\* The message in hand exists, and so do its row ids and summaries.
LEMMA MessageInHand ==
    ASSUME TypeOK, CursorInv, pc \in Busy
    PROVE  /\ cur \in Source
           /\ cur.part \in Partitions /\ cur.offset \in Nat
           /\ cur.offset < Len(log[cur.part])
           /\ MessageAt(cur) \in Messages
<1>1. cur \in Source
  BY DEF TypeOK, CursorInv
<1>2. cur.part \in Partitions /\ cur.offset \in Nat
  BY <1>1 DEF Source
<1>3. cur.offset + 1 \in 1 .. Len(log[cur.part])
  BY <1>2 DEF TypeOK, CursorInv
<1>4. log[cur.part] \in Seq(Messages)
  BY <1>2 DEF TypeOK
<1>5. MessageAt(cur) \in Messages
  BY <1>3, <1>4 DEF MessageAt
<1> QED BY <1>1, <1>2, <1>3, <1>4, <1>5

\* The names a row is filed under are names of rows.
LEMMA NamesTyped ==
    ASSUME NEW m \in Messages
    PROVE  /\ EventRow(m) \in RowIds /\ DlqRow(m) \in RowIds /\ ConflictRow(m) \in RowIds
           /\ Summary(m) \in Digests /\ SafeSummary(m) \in Digests
<1>1. m.id \in EventIds
  BY DEF EventIds
<1>2. EventRow(m) \in RowIds /\ ConflictRow(m) \in RowIds
  BY <1>1 DEF RowIds, EventRow, ConflictRow
<1>3. DlqRow(m) \in RowIds
  BY <1>2 DEF RowIds, DlqRow
<1>4. m.content \in {k.content : k \in Messages}
  OBVIOUS
<1>5. Summary(m) \in Digests /\ SafeSummary(m) \in Digests
  BY <1>4 DEF Digests, Summary, SafeSummary
<1> QED BY <1>2, <1>3, <1>5

\* Both transactions of the consumer keep the projection well typed.
LEMMA TransactionsTyped ==
    ASSUME TypeOK, CursorInv, pc \in Busy, NEW keep \in Keeps
    PROVE  /\ LET m == MessageAt(cur)
                  t == Projected(EventRow(m), "processed", Summary(m), attempt, keep)
              IN DOMAIN t \subseteq RowIds /\ \A k \in DOMAIN t : t[k] \in Rows
           /\ LET t == DlqProjected(keep)
              IN DOMAIN t \subseteq RowIds /\ \A k \in DOMAIN t : t[k] \in Rows
<1> DEFINE m == MessageAt(cur)
<1>1. m \in Messages
  BY MessageInHand
<1>2. attempt \in Nat
  BY DEF TypeOK
<1> HIDE DEF m
<1>3. LET t == Projected(EventRow(m), "processed", Summary(m), attempt, keep)
      IN DOMAIN t \subseteq RowIds /\ \A k \in DOMAIN t : t[k] \in Rows
  BY <1>1, <1>2, NamesTyped, ProjectedTyped
<1> DEFINE id == IF Conflicts(DlqRow(m), SafeSummary(m)) THEN ConflictRow(m) ELSE DlqRow(m)
<1>4. id \in RowIds
  BY <1>1, NamesTyped
<1> HIDE DEF id
<1>5. LET t == Projected(id, "dlq", SafeSummary(m), attempt, keep)
      IN DOMAIN t \subseteq RowIds /\ \A k \in DOMAIN t : t[k] \in Rows
  BY <1>1, <1>2, <1>4, NamesTyped, ProjectedTyped
<1> QED BY <1>3, <1>5 DEF m, id, DlqProjected

\* The histories stay sets of offsets.
LEMMA HistoryTyped ==
    ASSUME TypeOK, CursorInv, pc \in Busy
    PROVE  /\ Settle => settled' \in [Partitions -> SUBSET Nat]
           /\ GiveUp => abandoned' \in [Partitions -> SUBSET Nat]
<1>1. cur.part \in Partitions /\ {cur.offset} \subseteq Nat
  BY MessageInHand
<1>2. settled \in [Partitions -> SUBSET Nat] /\ abandoned \in [Partitions -> SUBSET Nat]
  BY DEF TypeOK
<1>3. settled[cur.part] \cup {cur.offset} \in SUBSET Nat
  BY <1>1, <1>2
<1>4. abandoned[cur.part] \cup {cur.offset} \in SUBSET Nat
  BY <1>1, <1>2
<1> QED BY <1>2, <1>3, <1>4 DEF Settle, GiveUp

\* The initial state satisfies the invariant.
LEMMA InitIInv == Init => IInv
<1> SUFFICES ASSUME Init PROVE IInv
  OBVIOUS
<1> USE DEF Init
<1>1. TypeOK
  BY EventAuditAssumption DEF TypeOK
<1>2. CursorInv
  BY DEF CursorInv, Busy
<1>3. ProgressInv
  BY DEF ProgressInv, NothingSkipped
<1>4. IsolationInv
  BY DEF IsolationInv, Delivered
<1>5. ConflictRowsInv /\ CommitFollowsOutcome /\ RowsTraceToMessages
  BY DEF ConflictRowsInv, CommitFollowsOutcome, RowsTraceToMessages
<1> QED BY <1>1, <1>2, <1>3, <1>4, <1>5 DEF IInv

\* Every step keeps the variables in their types.
LEMMA TypeStep == IInv /\ [Next]_vars => TypeOK'
<1> SUFFICES ASSUME IInv, [Next]_vars PROVE TypeOK'
  OBVIOUS
<1> USE EventAuditAssumption DEF brokerVars, clientVars, historyVars, Busy
<1>0. TypeOK /\ CursorInv
  BY DEF IInv
<1>1. CASE \E p \in Partitions, m \in Messages : Publish(p, m)
  <2> PICK p \in Partitions, m \in Messages : Publish(p, m)
    BY <1>1
  <2>1. log' \in [Partitions -> Seq(Messages)]
    BY <1>0 DEF TypeOK, Publish
  <2> QED BY <1>0, <2>1 DEF TypeOK, Publish
<1>2. CASE Heartbeat
  BY <1>0, <1>2 DEF TypeOK, Heartbeat
<1>3. CASE PollNothing
  BY <1>0, <1>3 DEF TypeOK, PollNothing
<1>4. CASE \E p \in Partitions : PollMessage(p)
  BY <1>0, <1>4 DEF TypeOK, PollMessage, Source
<1>5. CASE \E keep \in Keeps : HandleCommits(keep)
  <2> PICK keep \in Keeps : HandleCommits(keep)
    BY <1>5
  <2>1. DOMAIN audit' \subseteq RowIds /\ \A k \in DOMAIN audit' : audit'[k] \in Rows
    BY <1>0, TransactionsTyped DEF HandleCommits
  <2>2. settled' \in [Partitions -> SUBSET Nat]
    BY <1>0, HistoryTyped DEF HandleCommits
  <2> QED BY <1>0, <2>1, <2>2 DEF TypeOK, HandleCommits
<1>6. CASE HandleRaises
  <2>1. attempt' \in 0 .. MaxAttempts /\ pc' \in {"handle", "isolate"} /\ faults' \in Nat
    BY <1>0, <1>6 DEF HandleRaises, NextAttempt, Disturb, TypeOK
  <2> QED BY <1>0, <1>6, <2>1 DEF TypeOK, HandleRaises
<1>7. CASE \E keep \in Keeps : HandleAnswerLost(keep)
  <2> PICK keep \in Keeps : HandleAnswerLost(keep)
    BY <1>7
  <2>1. attempt' \in 0 .. MaxAttempts /\ pc' \in {"handle", "isolate"} /\ faults' \in Nat
    BY <1>0 DEF HandleAnswerLost, NextAttempt, Disturb, TypeOK
  <2>2. DOMAIN audit' \subseteq RowIds /\ \A k \in DOMAIN audit' : audit'[k] \in Rows
    BY <1>0, TransactionsTyped DEF HandleAnswerLost
  <2>3. settled' \in [Partitions -> SUBSET Nat]
    BY <1>0, HistoryTyped DEF HandleAnswerLost
  <2> QED BY <1>0, <2>1, <2>2, <2>3 DEF TypeOK, HandleAnswerLost
<1>8. CASE ProduceDlq
  <2>1. outbox' \subseteq Source
    BY <1>0, <1>8, MessageInHand DEF TypeOK, ProduceDlq
  <2> QED BY <1>0, <1>8, <2>1 DEF TypeOK, ProduceDlq
<1>9. CASE \E s \in outbox : BrokerStoresDlq(s)
  BY <1>0, <1>9 DEF TypeOK, BrokerStoresDlq
<1>10. CASE FlushDone
  BY <1>0, <1>10 DEF TypeOK, FlushDone
<1>11. CASE DlqDeliveryFails
  <2>1. abandoned' \in [Partitions -> SUBSET Nat]
    BY <1>0, <1>11, HistoryTyped DEF DlqDeliveryFails
  <2> QED BY <1>0, <1>11, <2>1 DEF TypeOK, DlqDeliveryFails, Return, Disturb
<1>12. CASE \E keep \in Keeps : RecordDlq(keep)
  <2> PICK keep \in Keeps : RecordDlq(keep)
    BY <1>12
  <2>1. DOMAIN audit' \subseteq RowIds /\ \A k \in DOMAIN audit' : audit'[k] \in Rows
    BY <1>0, TransactionsTyped DEF RecordDlq
  <2>2. settled' \in [Partitions -> SUBSET Nat]
    BY <1>0, HistoryTyped DEF RecordDlq
  <2> QED BY <1>0, <2>1, <2>2 DEF TypeOK, RecordDlq
<1>13. CASE \E keep \in Keeps : RecordDlqFails(keep)
  <2> PICK keep \in Keeps : RecordDlqFails(keep)
    BY <1>13
  <2>1. DOMAIN audit' \subseteq RowIds /\ \A k \in DOMAIN audit' : audit'[k] \in Rows
    BY <1>0, TransactionsTyped DEF RecordDlqFails, TypeOK
  <2>2. settled' \in [Partitions -> SUBSET Nat] /\ abandoned' \in [Partitions -> SUBSET Nat]
    BY <1>0, HistoryTyped DEF RecordDlqFails, TypeOK
  <2> QED BY <1>0, <2>1, <2>2 DEF TypeOK, RecordDlqFails, Return, Disturb
<1>14. CASE CommitOffset
  <2>1. committed' \in [Partitions -> Nat]
    BY <1>0, <1>14, MessageInHand DEF TypeOK, CommitOffset
  <2> QED BY <1>0, <1>14, <2>1 DEF TypeOK, CommitOffset, Return
<1>15. CASE CommitFails
  BY <1>0, <1>15 DEF TypeOK, CommitFails, Disturb, Return
<1>16. CASE Stop
  BY <1>0, <1>16 DEF TypeOK, Stop, Disturb, Exit
<1>17. CASE Crash
  BY <1>0, <1>17 DEF TypeOK, Crash, Disturb, Exit
<1>18. CASE Restart
  BY <1>0, <1>18 DEF TypeOK, Restart
<1>19. CASE Rebalance
  BY <1>0, <1>19 DEF TypeOK, Rebalance, Disturb
<1>20. CASE UNCHANGED vars
  BY <1>0, <1>20 DEF TypeOK, vars
<1>21. CASE \E s \in outbox : DlqMessageLost(s)
  BY <1>0, <1>21 DEF TypeOK, DlqMessageLost, Disturb
<1> QED BY <1>1, <1>2, <1>3, <1>4, <1>5, <1>6, <1>7, <1>8, <1>9, <1>10, <1>11, <1>12, <1>13, <1>14, <1>15, <1>16, <1>17, <1>18, <1>19, <1>20, <1>21 DEF Next

\* The log only grows: what was published stays where it is.
LEMMA LogGrows ==
    ASSUME IInv, [Next]_vars, NEW p \in Partitions
    PROVE  /\ Len(log[p]) <= Len(log'[p])
           /\ \A i \in 1 .. Len(log[p]) : log'[p][i] = log[p][i]
<1>1. log[p] \in Seq(Messages) /\ log \in [Partitions -> Seq(Messages)]
  BY DEF IInv, TypeOK
<1>2. CASE \E q \in Partitions, m \in Messages : Publish(q, m)
  <2> PICK q \in Partitions, m \in Messages : Publish(q, m)
    BY <1>2
  <2>1. log' = [log EXCEPT ![q] = Append(log[q], m)]
    BY DEF Publish
  <2>2. CASE q = p
    <3>1. log'[p] = Append(log[p], m)
      BY <1>1, <2>1, <2>2
    <3> QED BY <1>1, <3>1
  <2>3. CASE q # p
    <3>1. log'[p] = log[p]
      BY <1>1, <2>1, <2>3
    <3> QED BY <1>1, <3>1
  <2> QED BY <2>2, <2>3
<1>3. CASE UNCHANGED log
  BY <1>1, <1>3
<1>4. (\E q \in Partitions, m \in Messages : Publish(q, m)) \/ UNCHANGED log
  BY DEF Next, vars, brokerVars, Heartbeat, PollNothing, PollMessage, HandleCommits,
         HandleRaises, HandleAnswerLost, ProduceDlq, BrokerStoresDlq, DlqMessageLost,
         FlushDone, DlqDeliveryFails, RecordDlq, RecordDlqFails, CommitOffset, CommitFails, Stop,
         Crash, Restart, Rebalance
<1> QED BY <1>2, <1>3, <1>4

\* Every step keeps the client's position and the message in hand together.
LEMMA CursorStep == IInv /\ [Next]_vars => CursorInv'
<1> SUFFICES ASSUME IInv, [Next]_vars PROVE CursorInv'
  OBVIOUS
<1> USE EventAuditAssumption DEF brokerVars, clientVars, historyVars, Busy
<1>0. TypeOK /\ CursorInv /\ ProgressInv /\ TypeOK'
  BY TypeStep DEF IInv
<1>L. \A p \in Partitions : Len(log[p]) <= Len(log'[p]) /\ Len(log[p]) \in Nat /\ Len(log'[p]) \in Nat
  BY <1>0, LogGrows DEF TypeOK
<1>1. CASE \E p \in Partitions, m \in Messages : Publish(p, m)
  <2> PICK p \in Partitions, m \in Messages : Publish(p, m)
    BY <1>1
  <2>1. UNCHANGED <<committed, position, pc, cur>>
    BY DEF Publish
  <2> QED BY <1>0, <1>L, <2>1 DEF CursorInv, TypeOK
<1>2. CASE Heartbeat
  BY <1>0, <1>L, <1>2, MessageInHand DEF CursorInv, TypeOK, Heartbeat, Source
<1>3. CASE PollNothing
  BY <1>0, <1>L, <1>3, MessageInHand DEF CursorInv, TypeOK, PollNothing, Source
<1>4. CASE \E p \in Partitions : PollMessage(p)
  BY <1>0, <1>L, <1>4, MessageInHand DEF CursorInv, TypeOK, PollMessage, Source
<1>5. CASE \E keep \in Keeps : HandleCommits(keep)
  BY <1>0, <1>L, <1>5, MessageInHand DEF CursorInv, TypeOK, HandleCommits, Source
<1>6. CASE HandleRaises
  BY <1>0, <1>L, <1>6, MessageInHand DEF CursorInv, TypeOK, HandleRaises, NextAttempt, Disturb, Source
<1>7. CASE \E keep \in Keeps : HandleAnswerLost(keep)
  BY <1>0, <1>L, <1>7, MessageInHand DEF CursorInv, TypeOK, HandleAnswerLost, NextAttempt, Disturb, Source
<1>8. CASE ProduceDlq
  BY <1>0, <1>L, <1>8, MessageInHand DEF CursorInv, TypeOK, ProduceDlq, Source
<1>9. CASE \E s \in outbox : BrokerStoresDlq(s)
  BY <1>0, <1>L, <1>9, MessageInHand DEF CursorInv, TypeOK, BrokerStoresDlq, Source
<1>10. CASE FlushDone
  BY <1>0, <1>L, <1>10, MessageInHand DEF CursorInv, TypeOK, FlushDone, Source
<1>11. CASE DlqDeliveryFails
  BY <1>0, <1>L, <1>11, MessageInHand DEF CursorInv, TypeOK, DlqDeliveryFails, Disturb, GiveUp, Return, Source
<1>12. CASE \E keep \in Keeps : RecordDlq(keep)
  BY <1>0, <1>L, <1>12, MessageInHand DEF CursorInv, TypeOK, RecordDlq, Source
<1>13. CASE \E keep \in Keeps : RecordDlqFails(keep)
  BY <1>0, <1>L, <1>13, MessageInHand DEF CursorInv, TypeOK, RecordDlqFails, Disturb, GiveUp, Return, Source
<1>14. CASE CommitOffset
  BY <1>0, <1>L, <1>14, MessageInHand DEF CursorInv, TypeOK, CommitOffset, Return, Source
<1>15. CASE CommitFails
  BY <1>0, <1>L, <1>15, MessageInHand DEF CursorInv, TypeOK, CommitFails, Disturb, Return, Source
<1>16. CASE Stop
  BY <1>0, <1>L, <1>16, MessageInHand DEF CursorInv, TypeOK, Stop, Disturb, Exit, Source
<1>17. CASE Crash
  BY <1>0, <1>L, <1>17, MessageInHand DEF CursorInv, TypeOK, Crash, Disturb, Exit, Source
<1>18. CASE Restart
  BY <1>0, <1>L, <1>18, MessageInHand DEF CursorInv, TypeOK, Restart, Source
<1>19. CASE Rebalance
  BY <1>0, <1>L, <1>19, MessageInHand DEF CursorInv, TypeOK, Rebalance, Disturb, Source
<1>20. CASE UNCHANGED vars
  BY <1>0, <1>20 DEF CursorInv, vars
<1>21. CASE \E s \in outbox : DlqMessageLost(s)
  BY <1>0, <1>L, <1>21, MessageInHand DEF CursorInv, TypeOK, DlqMessageLost, Disturb, Source
<1> QED BY <1>1, <1>2, <1>3, <1>4, <1>5, <1>6, <1>7, <1>8, <1>9, <1>10, <1>11, <1>12, <1>13, <1>14, <1>15, <1>16, <1>17, <1>18, <1>19, <1>20, <1>21 DEF Next

\* Once the message in hand is accounted for, everything fetched is.
LEMMA FetchedAccounted ==
    ASSUME TypeOK, CursorInv, ProgressInv, pc \in Busy,
           \A p \in Partitions : Accounted(p) \subseteq settled'[p] \cup abandoned'[p],
           cur.offset \in settled'[cur.part] \cup abandoned'[cur.part]
    PROVE  \A p \in Partitions : \A o \in 0 .. position[p] - 1 : o \in settled'[p] \cup abandoned'[p]
<1> SUFFICES ASSUME NEW p \in Partitions, NEW o \in 0 .. position[p] - 1
             PROVE  o \in settled'[p] \cup abandoned'[p]
  OBVIOUS
<1>1. o \in Accounted(p) \/ cur = [part |-> p, offset |-> o]
  BY DEF ProgressInv, Busy
<1>2. CASE o \in Accounted(p)
  BY <1>2
<1>3. CASE cur = [part |-> p, offset |-> o]
  <2>1. cur.part = p /\ cur.offset = o
    BY <1>3
  <2> QED BY <2>1
<1> QED BY <1>1, <1>2, <1>3

\* Settling or giving up a message accounts for it and forgets no other.
LEMMA HistoryGrows ==
    ASSUME TypeOK, CursorInv, pc \in Busy,
           (Settle /\ UNCHANGED abandoned) \/ (GiveUp /\ UNCHANGED settled)
    PROVE  /\ \A p \in Partitions : Accounted(p) \subseteq settled'[p] \cup abandoned'[p]
           /\ cur.offset \in settled'[cur.part] \cup abandoned'[cur.part]
<1>1. cur.part \in Partitions
  BY MessageInHand
<1>2. settled \in [Partitions -> SUBSET Nat] /\ abandoned \in [Partitions -> SUBSET Nat]
  BY DEF TypeOK
<1>3. CASE Settle /\ UNCHANGED abandoned
  BY <1>1, <1>2, <1>3 DEF Settle, Accounted
<1>4. CASE GiveUp /\ UNCHANGED settled
  BY <1>1, <1>2, <1>4 DEF GiveUp, Accounted
<1> QED BY <1>3, <1>4

\* Every step keeps what a live client fetched accounted for, but the message in hand.
LEMMA ProgressStep == IInv /\ [Next]_vars => ProgressInv'
<1> SUFFICES ASSUME IInv, [Next]_vars PROVE ProgressInv'
  OBVIOUS
<1> USE EventAuditAssumption DEF brokerVars, clientVars, historyVars, Busy
<1>0. TypeOK /\ CursorInv /\ ProgressInv /\ TypeOK'
  BY TypeStep DEF IInv
<1>1. CASE \E p \in Partitions, m \in Messages : Publish(p, m)
  BY <1>0, <1>1, MessageInHand DEF ProgressInv, NothingSkipped, Accounted, CursorInv, TypeOK, Publish, Settle, Source
<1>2. CASE Heartbeat
  BY <1>0, <1>2, MessageInHand DEF ProgressInv, NothingSkipped, Accounted, CursorInv, TypeOK, Heartbeat, Settle, Source
<1>3. CASE PollNothing
  BY <1>0, <1>3, MessageInHand DEF ProgressInv, NothingSkipped, Accounted, CursorInv, TypeOK, PollNothing, Settle, Source
<1>4. CASE \E p \in Partitions : PollMessage(p)
  BY <1>0, <1>4, MessageInHand DEF ProgressInv, NothingSkipped, Accounted, CursorInv, TypeOK, PollMessage, Settle, Source
<1>5. CASE \E keep \in Keeps : HandleCommits(keep)
  BY <1>0, <1>5, MessageInHand DEF ProgressInv, NothingSkipped, Accounted, CursorInv, TypeOK, HandleCommits, Settle, Source
<1>6. CASE HandleRaises
  BY <1>0, <1>6, MessageInHand DEF ProgressInv, NothingSkipped, Accounted, CursorInv, TypeOK, HandleRaises, NextAttempt, Disturb, Settle, Source
<1>7. CASE \E keep \in Keeps : HandleAnswerLost(keep)
  BY <1>0, <1>7, MessageInHand DEF ProgressInv, NothingSkipped, Accounted, CursorInv, TypeOK, HandleAnswerLost, NextAttempt, Disturb, Settle, Source
<1>8. CASE ProduceDlq
  BY <1>0, <1>8, MessageInHand DEF ProgressInv, NothingSkipped, Accounted, CursorInv, TypeOK, ProduceDlq, Settle, Source
<1>9. CASE \E s \in outbox : BrokerStoresDlq(s)
  BY <1>0, <1>9, MessageInHand DEF ProgressInv, NothingSkipped, Accounted, CursorInv, TypeOK, BrokerStoresDlq, Settle, Source
<1>10. CASE FlushDone
  BY <1>0, <1>10, MessageInHand DEF ProgressInv, NothingSkipped, Accounted, CursorInv, TypeOK, FlushDone, Settle, Source
<1>11. CASE DlqDeliveryFails
  <2>1. /\ \A p \in Partitions : Accounted(p) \subseteq settled'[p] \cup abandoned'[p]
        /\ cur.offset \in settled'[cur.part] \cup abandoned'[cur.part]
    BY <1>0, <1>11, HistoryGrows DEF DlqDeliveryFails
  <2>2. \A p \in Partitions : \A o \in 0 .. position[p] - 1 : o \in settled'[p] \cup abandoned'[p]
    BY <1>0, <1>11, <2>1, FetchedAccounted DEF DlqDeliveryFails
  <2>3. NothingSkipped'
    BY <1>0, <1>11, <2>1 DEF DlqDeliveryFails, NothingSkipped, Accounted, ProgressInv
  <2> QED BY <1>0, <1>11, <2>2, <2>3 DEF ProgressInv, Accounted, TypeOK, DlqDeliveryFails, Return
<1>12. CASE \E keep \in Keeps : RecordDlq(keep)
  BY <1>0, <1>12, MessageInHand DEF ProgressInv, NothingSkipped, Accounted, CursorInv, TypeOK, RecordDlq, Settle, Source
<1>13. CASE \E keep \in Keeps : RecordDlqFails(keep)
  <2>1. /\ \A p \in Partitions : Accounted(p) \subseteq settled'[p] \cup abandoned'[p]
        /\ cur.offset \in settled'[cur.part] \cup abandoned'[cur.part]
    BY <1>0, <1>13, HistoryGrows DEF RecordDlqFails
  <2>2. \A p \in Partitions : \A o \in 0 .. position[p] - 1 : o \in settled'[p] \cup abandoned'[p]
    BY <1>0, <1>13, <2>1, FetchedAccounted DEF RecordDlqFails
  <2>3. NothingSkipped'
    BY <1>0, <1>13, <2>1 DEF RecordDlqFails, NothingSkipped, Accounted, ProgressInv
  <2> QED BY <1>0, <1>13, <2>2, <2>3 DEF ProgressInv, Accounted, TypeOK, RecordDlqFails, Return
<1>14. CASE CommitOffset
  <2>1. /\ \A p \in Partitions : Accounted(p) \subseteq settled'[p] \cup abandoned'[p]
        /\ cur.offset \in settled'[cur.part] \cup abandoned'[cur.part]
    BY <1>0, <1>14 DEF CommitOffset, ProgressInv, Accounted
  <2>2. \A p \in Partitions : \A o \in 0 .. position[p] - 1 : o \in settled'[p] \cup abandoned'[p]
    BY <1>0, <1>14, <2>1, FetchedAccounted DEF CommitOffset
  <2>3. \A p \in Partitions : committed'[p] <= position[p]
    BY <1>0, <1>14, MessageInHand DEF CommitOffset, ProgressInv, CursorInv, TypeOK
  <2>4. NothingSkipped'
    BY <1>0, <2>2, <2>3 DEF NothingSkipped, Accounted, TypeOK
  <2> QED BY <1>0, <1>14, <2>2, <2>3, <2>4 DEF ProgressInv, Accounted, TypeOK, CommitOffset, Return
<1>15. CASE CommitFails
  <2>1. /\ \A p \in Partitions : Accounted(p) \subseteq settled'[p] \cup abandoned'[p]
        /\ cur.offset \in settled'[cur.part] \cup abandoned'[cur.part]
    BY <1>0, <1>15 DEF CommitFails, ProgressInv, Accounted
  <2>2. \A p \in Partitions : \A o \in 0 .. position[p] - 1 : o \in settled'[p] \cup abandoned'[p]
    BY <1>0, <1>15, <2>1, FetchedAccounted DEF CommitFails
  <2>3. NothingSkipped'
    BY <1>0, <1>15, <2>1 DEF CommitFails, NothingSkipped, Accounted, ProgressInv
  <2> QED BY <1>0, <1>15, <2>2, <2>3 DEF ProgressInv, Accounted, TypeOK, CommitFails, Return
<1>16. CASE Stop
  BY <1>0, <1>16, MessageInHand DEF ProgressInv, NothingSkipped, Accounted, CursorInv, TypeOK, Stop, Disturb, Exit, Settle, Source
<1>17. CASE Crash
  BY <1>0, <1>17, MessageInHand DEF ProgressInv, NothingSkipped, Accounted, CursorInv, TypeOK, Crash, Disturb, Exit, Settle, Source
<1>18. CASE Restart
  BY <1>0, <1>18, MessageInHand DEF ProgressInv, NothingSkipped, Accounted, CursorInv, TypeOK, Restart, Settle, Source
<1>19. CASE Rebalance
  BY <1>0, <1>19, MessageInHand DEF ProgressInv, NothingSkipped, Accounted, CursorInv, TypeOK, Rebalance, Disturb, Settle, Source
<1>20. CASE UNCHANGED vars
  BY <1>0, <1>20 DEF ProgressInv, NothingSkipped, Accounted, vars
<1>21. CASE \E s \in outbox : DlqMessageLost(s)
  BY <1>0, <1>21, MessageInHand DEF ProgressInv, NothingSkipped, Accounted, CursorInv, TypeOK, DlqMessageLost, Disturb, Source
<1> QED BY <1>1, <1>2, <1>3, <1>4, <1>5, <1>6, <1>7, <1>8, <1>9, <1>10, <1>11, <1>12, <1>13, <1>14, <1>15, <1>16, <1>17, <1>18, <1>19, <1>20, <1>21 DEF Next

\* A published message stays where it is.
LEMMA MessagesStay ==
    ASSUME IInv, [Next]_vars, NEW s \in Source, s.offset < Len(log[s.part])
    PROVE  s.offset < Len(log'[s.part]) /\ log'[s.part][s.offset + 1] = MessageAt(s)
<1>1. s.part \in Partitions /\ s.offset \in Nat
  BY DEF Source
<1>2. log[s.part] \in Seq(Messages) /\ log'[s.part] \in Seq(Messages)
  BY <1>1, TypeStep DEF IInv, TypeOK
<1>3. s.offset + 1 \in 1 .. Len(log[s.part])
  BY <1>1, <1>2
<1> QED BY <1>1, <1>2, <1>3, LogGrows DEF MessageAt

\* So does the message in hand, while run_once keeps it.
LEMMA SameMessage ==
    ASSUME IInv, [Next]_vars, pc \in Busy, cur' = cur
    PROVE  MessageAt(cur)' = MessageAt(cur)
<1>1. cur \in Source /\ cur.offset < Len(log[cur.part])
  BY MessageInHand DEF IInv
<1>2. log'[cur.part][cur.offset + 1] = MessageAt(cur)
  BY <1>1, MessagesStay
<1> QED BY <1>2 DEF MessageAt

\* Whatever is on its way to the dead-letter topic stays a published message.
LEMMA IsolationStep == IInv /\ [Next]_vars => IsolationInv'
<1> SUFFICES ASSUME IInv, [Next]_vars PROVE IsolationInv'
  OBVIOUS
<1> USE DEF brokerVars, clientVars, historyVars
<1>0. TypeOK /\ CursorInv /\ IsolationInv /\ TypeOK'
  BY TypeStep DEF IInv
<1>B. outbox \subseteq Source /\ Delivered \subseteq Source
  BY <1>0 DEF TypeOK, Delivered
<1>1. \A s \in outbox \cup Delivered : s.offset < Len(log'[s.part])
  BY <1>0, <1>B, MessagesStay DEF IsolationInv
<1>2. pc \in Busy => cur \in Source /\ cur.offset < Len(log'[cur.part])
  BY <1>0, MessageInHand, MessagesStay
<1>3. \A s \in (outbox \cup Delivered)' : s.offset < Len(log'[s.part])
  <2>1. \/ (outbox \cup Delivered)' \subseteq outbox \cup Delivered
        \/ /\ pc \in Busy
           /\ (outbox \cup Delivered)' \subseteq outbox \cup Delivered \cup {cur}
    BY DEF Next, vars, Delivered, Busy, Publish, Heartbeat, PollNothing, PollMessage,
           HandleCommits, HandleRaises, HandleAnswerLost, ProduceDlq, BrokerStoresDlq,
           DlqMessageLost, FlushDone, DlqDeliveryFails, RecordDlq, RecordDlqFails,
           CommitOffset, CommitFails, Stop, Crash, Restart, Rebalance, Exit
  <2> QED BY <1>1, <1>2, <2>1
<1>4. pc' = "handle" => MessageAt(cur)'.form = "event"
  <2>1. CASE \E p \in Partitions : PollMessage(p)
    <3> PICK p \in Partitions : PollMessage(p)
      BY <2>1
    <3>1. log' = log /\ cur' = [part |-> p, offset |-> position[p]]
      BY DEF PollMessage
    <3>2. pc' = "handle" => log[p][position[p] + 1].form = "event"
      BY DEF PollMessage
    <3>3. cur'.part = p /\ cur'.offset = position[p]
      BY <3>1
    <3> QED BY <3>1, <3>2, <3>3 DEF MessageAt
  <2>2. CASE ~\E p \in Partitions : PollMessage(p)
    <3>1. pc' = "handle" => pc = "handle" /\ cur' = cur
      BY <2>2 DEF Next, vars, Publish, Heartbeat, PollNothing,
           HandleCommits, HandleRaises, HandleAnswerLost, ProduceDlq, BrokerStoresDlq,
           DlqMessageLost, FlushDone, DlqDeliveryFails, RecordDlq, RecordDlqFails,
           CommitOffset, CommitFails, Stop, Crash, Restart, Rebalance, Exit, Return
    <3> QED BY <1>0, <3>1, SameMessage DEF IsolationInv, Busy
  <2> QED BY <2>1, <2>2
<1>5. /\ pc' = "flush" => cur' \in (outbox \cup Delivered)'
      /\ pc' = "record_dlq" => cur' \in Delivered'
  BY <1>0 DEF IsolationInv, Next, vars, Delivered, Publish, Heartbeat, PollNothing,
       PollMessage, HandleCommits, HandleRaises, HandleAnswerLost, NextAttempt, ProduceDlq,
       BrokerStoresDlq, DlqMessageLost, FlushDone, DlqDeliveryFails, RecordDlq,
       RecordDlqFails, CommitOffset, CommitFails, Stop, Crash, Restart, Rebalance,
       Exit, Return
<1> QED BY <1>3, <1>4, <1>5 DEF IsolationInv

\* What record_dlq leaves: the row of the message, under its own id or under the
\* conflict's, and nothing else changes what it says.
LEMMA DlqRowWritten ==
    ASSUME TypeOK, CursorInv, ConflictRowsInv, pc \in Busy, NEW keep \in Keeps
    PROVE  LET m == MessageAt(cur)
               t == DlqProjected(keep)
           IN \E id \in {DlqRow(m), ConflictRow(m)} :
                /\ id \in DOMAIN t
                /\ t[id].digest = SafeSummary(m)
                /\ DOMAIN t \subseteq DOMAIN audit \cup {id}
                /\ id \notin DOMAIN audit => t[id].status = "dlq"
                /\ \A k \in DOMAIN t \cap DOMAIN audit :
                      /\ t[k].status = audit[k].status
                      /\ t[k].digest = audit[k].digest
                      /\ t[k].duplicates >= audit[k].duplicates
                      /\ t[k].attempts >= audit[k].attempts
<1> DEFINE m == MessageAt(cur)
           id == IF Conflicts(DlqRow(m), SafeSummary(m)) THEN ConflictRow(m) ELSE DlqRow(m)
           t == Projected(id, "dlq", SafeSummary(m), attempt, keep)
<1>1. m \in Messages /\ attempt \in Nat
  BY MessageInHand DEF TypeOK
<1>2. t = DlqProjected(keep)
  BY DEF DlqProjected
<1> HIDE DEF m
<1>3. id \in RowIds /\ SafeSummary(m) \in Digests
  BY <1>1, NamesTyped
<1>4. id \in DOMAIN audit => audit[id].digest = SafeSummary(m)
  BY <1>1 DEF Conflicts, ConflictRowsInv
<1>5. id \in {DlqRow(m), ConflictRow(m)}
  OBVIOUS
<1> HIDE DEF id
<1>6. /\ id \in DOMAIN t
      /\ DOMAIN t \subseteq DOMAIN audit \cup {id}
      /\ id \notin DOMAIN audit => t[id].status = "dlq" /\ t[id].digest = SafeSummary(m)
      /\ \A k \in DOMAIN t \cap DOMAIN audit :
            /\ t[k].status = audit[k].status
            /\ t[k].digest = audit[k].digest
            /\ t[k].duplicates >= audit[k].duplicates
            /\ t[k].attempts >= audit[k].attempts
  BY <1>1, <1>3, ProjectedRows
<1> HIDE DEF t
<1>7. t[id].digest = SafeSummary(m)
  BY <1>4, <1>6
<1> QED BY <1>2, <1>5, <1>6, <1>7 DEF m

\* What handle leaves, when it does not conflict.
LEMMA EventRowWritten ==
    ASSUME TypeOK, CursorInv, pc \in Busy, NEW keep \in Keeps,
           ~Conflicts(EventRow(MessageAt(cur)), Summary(MessageAt(cur)))
    PROVE  LET m == MessageAt(cur)
               id == EventRow(m)
               t == Projected(id, "processed", Summary(m), attempt, keep)
           IN /\ id \in DOMAIN t
              /\ t[id].digest = Summary(m)
              /\ DOMAIN t \subseteq DOMAIN audit \cup {id}
              /\ id \notin DOMAIN audit => t[id].status = "processed"
              /\ \A k \in DOMAIN t \cap DOMAIN audit :
                    /\ t[k].status = audit[k].status
                    /\ t[k].digest = audit[k].digest
                    /\ t[k].duplicates >= audit[k].duplicates
                    /\ t[k].attempts >= audit[k].attempts
<1> DEFINE m == MessageAt(cur)
           id == EventRow(m)
           t == Projected(id, "processed", Summary(m), attempt, keep)
<1>1. m \in Messages /\ attempt \in Nat
  BY MessageInHand DEF TypeOK
<1>2. id \in DOMAIN audit => audit[id].digest = Summary(m)
  BY DEF Conflicts
<1> HIDE DEF m
<1>3. id \in RowIds /\ Summary(m) \in Digests
  BY <1>1, NamesTyped
<1> HIDE DEF id
<1>4. /\ id \in DOMAIN t
      /\ DOMAIN t \subseteq DOMAIN audit \cup {id}
      /\ id \notin DOMAIN audit => t[id].status = "processed" /\ t[id].digest = Summary(m)
      /\ \A k \in DOMAIN t \cap DOMAIN audit :
            /\ t[k].status = audit[k].status
            /\ t[k].digest = audit[k].digest
            /\ t[k].duplicates >= audit[k].duplicates
            /\ t[k].attempts >= audit[k].attempts
  BY <1>1, <1>3, ProjectedRows
<1> HIDE DEF t
<1>5. t[id].digest = Summary(m)
  BY <1>2, <1>4
<1> QED BY <1>4, <1>5 DEF m, id, t

\* Only the two transactions of the consumer write the projection.
LEMMA AuditSteps ==
    ASSUME [Next]_vars
    PROVE  \/ audit' = audit
           \/ /\ pc = "handle" /\ log' = log /\ cur' = cur
              /\ ~Conflicts(EventRow(MessageAt(cur)), Summary(MessageAt(cur)))
              /\ \E keep \in Keeps :
                    audit' = Projected(EventRow(MessageAt(cur)), "processed",
                                       Summary(MessageAt(cur)), attempt, keep)
           \/ /\ pc = "record_dlq" /\ log' = log /\ Delivered' = Delivered
              /\ \E keep \in Keeps : audit' = DlqProjected(keep)
BY DEF Next, vars, brokerVars, clientVars, historyVars, Delivered, Publish, Heartbeat,
       PollNothing, PollMessage, HandleCommits, HandleRaises, HandleAnswerLost, ProduceDlq,
       BrokerStoresDlq, DlqMessageLost, FlushDone, DlqDeliveryFails, RecordDlq,
       RecordDlqFails, CommitOffset, CommitFails, Stop, Crash, Restart, Rebalance

\* A conflict row keeps the summary of the message it is named after.
LEMMA ConflictRowsStep == IInv /\ [Next]_vars => ConflictRowsInv'
<1> SUFFICES ASSUME IInv, [Next]_vars, NEW m \in Messages, ConflictRow(m) \in DOMAIN audit'
             PROVE  audit'[ConflictRow(m)].digest = SafeSummary(m)
  BY DEF ConflictRowsInv
<1>0. TypeOK /\ CursorInv /\ ConflictRowsInv
  BY DEF IInv
<1> DEFINE n == MessageAt(cur)
<1>1. CASE audit' = audit
  BY <1>0, <1>1 DEF ConflictRowsInv
<1>2. CASE /\ pc = "handle" /\ ~Conflicts(EventRow(n), Summary(n))
           /\ \E keep \in Keeps :
                 audit' = Projected(EventRow(n), "processed", Summary(n), attempt, keep)
  <2>1. /\ DOMAIN audit' \subseteq DOMAIN audit \cup {EventRow(n)}
        /\ \A k \in DOMAIN audit' \cap DOMAIN audit : audit'[k].digest = audit[k].digest
    BY <1>0, <1>2, EventRowWritten DEF Busy
  <2>2. ConflictRow(m) # EventRow(n)
    BY DEF ConflictRow, EventRow
  <2> QED BY <1>0, <2>1, <2>2 DEF ConflictRowsInv
<1>3. CASE pc = "record_dlq" /\ \E keep \in Keeps : audit' = DlqProjected(keep)
  <2>1. PICK id \in {DlqRow(n), ConflictRow(n)} :
            /\ audit'[id].digest = SafeSummary(n)
            /\ DOMAIN audit' \subseteq DOMAIN audit \cup {id}
            /\ \A k \in DOMAIN audit' \cap DOMAIN audit : audit'[k].digest = audit[k].digest
    BY <1>0, <1>3, DlqRowWritten DEF Busy
  <2>2. ConflictRow(m) = id => m = n
    BY DEF ConflictRow, DlqRow, EventRow
  <2> QED BY <1>0, <2>1, <2>2 DEF ConflictRowsInv
<1> QED BY <1>1, <1>2, <1>3, AuditSteps

\* Every step that reaches the commit has the outcome of its message on disk.
LEMMA CommitStep == IInv /\ [Next]_vars => CommitFollowsOutcome'
<1> SUFFICES ASSUME IInv, [Next]_vars, pc' = "commit"
             PROVE  CommitFollowsOutcome'
  BY DEF CommitFollowsOutcome
<1>0. TypeOK /\ CursorInv /\ IsolationInv /\ ConflictRowsInv /\ CommitFollowsOutcome
  BY DEF IInv
<1> DEFINE n == MessageAt(cur)
<1>1. /\ cur' = cur /\ Delivered \subseteq Delivered'
      /\ \/ pc = "commit" /\ audit' = audit
         \/ \E keep \in Keeps : HandleCommits(keep)
         \/ \E keep \in Keeps : RecordDlq(keep)
  BY DEF Next, vars, brokerVars, clientVars, historyVars, Delivered, Publish, Heartbeat,
       PollNothing, PollMessage, HandleCommits, HandleRaises, HandleAnswerLost, NextAttempt,
       ProduceDlq, BrokerStoresDlq, DlqMessageLost, FlushDone, DlqDeliveryFails, RecordDlq,
       RecordDlqFails, CommitOffset, CommitFails, Stop, Crash, Restart, Rebalance,
       Return, Exit
<1>2. pc \in Busy
  BY <1>1 DEF HandleCommits, RecordDlq, Busy
<1>3. MessageAt(cur)' = n
  BY <1>1, <1>2, SameMessage
<1> SUFFICES \/ EventRow(n) \in DOMAIN audit' /\ audit'[EventRow(n)].digest = Summary(n)
             \/ /\ cur \in Delivered
                /\ \E id \in {DlqRow(n), ConflictRow(n)} \cap DOMAIN audit' :
                      audit'[id].digest = SafeSummary(n)
  BY <1>1, <1>3 DEF CommitFollowsOutcome
<1>4. CASE pc = "commit" /\ audit' = audit
  BY <1>0, <1>4 DEF CommitFollowsOutcome
<1>5. CASE \E keep \in Keeps : HandleCommits(keep)
  BY <1>0, <1>2, <1>5, EventRowWritten DEF HandleCommits
<1>6. CASE \E keep \in Keeps : RecordDlq(keep)
  <2>1. cur \in Delivered
    BY <1>0, <1>6 DEF RecordDlq, IsolationInv
  <2>2. PICK id \in {DlqRow(n), ConflictRow(n)} :
            id \in DOMAIN audit' /\ audit'[id].digest = SafeSummary(n)
    BY <1>0, <1>2, <1>6, DlqRowWritten DEF RecordDlq
  <2> QED BY <2>1, <2>2
<1> QED BY <1>1, <1>4, <1>5, <1>6

\* A row keeps its origin while the log and the dead-letter history grow.
LEMMA OriginStays ==
    ASSUME IInv, [Next]_vars, NEW id \in DOMAIN audit,
           id \in DOMAIN audit',
           audit'[id].status = audit[id].status, audit'[id].digest = audit[id].digest
    PROVE  \/ /\ audit'[id].status = "processed"
              /\ \E p \in Partitions : \E i \in DOMAIN log'[p] :
                   /\ log'[p][i].form = "event"
                   /\ EventRow(log'[p][i]) = id
                   /\ Summary(log'[p][i]) = audit'[id].digest
           \/ /\ audit'[id].status = "dlq"
              /\ \E s \in Delivered' : SafeSummary(log'[s.part][s.offset + 1]) = audit'[id].digest
<1>0. TypeOK /\ IsolationInv /\ RowsTraceToMessages /\ TypeOK'
  BY TypeStep DEF IInv
<1>1. CASE audit[id].status = "processed"
  <2>1. PICK p \in Partitions : \E i \in DOMAIN log[p] :
            /\ log[p][i].form = "event"
            /\ EventRow(log[p][i]) = id
            /\ Summary(log[p][i]) = audit[id].digest
    BY <1>0, <1>1 DEF RowsTraceToMessages
  <2>2. PICK i \in DOMAIN log[p] :
            /\ log[p][i].form = "event"
            /\ EventRow(log[p][i]) = id
            /\ Summary(log[p][i]) = audit[id].digest
    BY <2>1
  <2>3. log[p] \in Seq(Messages) /\ log'[p] \in Seq(Messages)
    BY <1>0 DEF TypeOK
  <2>4. i \in DOMAIN log'[p] /\ log'[p][i] = log[p][i]
    BY <2>2, <2>3, LogGrows
  <2> QED BY <1>1, <2>2, <2>4
<1>2. CASE audit[id].status = "dlq"
  <2>1. PICK s \in Delivered : SafeSummary(MessageAt(s)) = audit[id].digest
    BY <1>0, <1>2 DEF RowsTraceToMessages
  <2>2. s \in Source /\ s.offset < Len(log[s.part])
    BY <1>0, <2>1 DEF TypeOK, Delivered, IsolationInv
  <2>3. log'[s.part][s.offset + 1] = MessageAt(s)
    BY <2>2, MessagesStay
  <2>4. s \in Delivered'
    BY <2>1 DEF Delivered, Next, vars, brokerVars, clientVars, historyVars, Publish,
         Heartbeat, PollNothing, PollMessage, HandleCommits, HandleRaises, HandleAnswerLost,
         ProduceDlq, BrokerStoresDlq, DlqMessageLost, FlushDone, DlqDeliveryFails,
         RecordDlq, RecordDlqFails, CommitOffset, CommitFails, Stop, Crash, Restart,
         Rebalance
  <2> QED BY <1>2, <2>1, <2>3, <2>4
<1> QED BY <1>0, <1>1, <1>2 DEF RowsTraceToMessages

\* Every row a step writes is about a published message.
LEMMA RowsStep == IInv /\ [Next]_vars => RowsTraceToMessages'
<1> SUFFICES ASSUME IInv, [Next]_vars, NEW id \in DOMAIN audit'
             PROVE  \/ /\ audit'[id].status = "processed"
                       /\ \E p \in Partitions : \E i \in DOMAIN log'[p] :
                            /\ log'[p][i].form = "event"
                            /\ EventRow(log'[p][i]) = id
                            /\ Summary(log'[p][i]) = audit'[id].digest
                    \/ /\ audit'[id].status = "dlq"
                       /\ \E s \in Delivered' :
                            SafeSummary(log'[s.part][s.offset + 1]) = audit'[id].digest
  BY DEF RowsTraceToMessages, MessageAt
<1>0. TypeOK /\ CursorInv /\ IsolationInv /\ ConflictRowsInv /\ TypeOK'
  BY TypeStep DEF IInv
<1> DEFINE n == MessageAt(cur)
<1>1. CASE audit' = audit
  BY <1>1, OriginStays
<1>2. CASE /\ pc = "handle" /\ log' = log
           /\ ~Conflicts(EventRow(n), Summary(n))
           /\ \E keep \in Keeps :
                 audit' = Projected(EventRow(n), "processed", Summary(n), attempt, keep)
  <2>1. /\ audit'[EventRow(n)].digest = Summary(n)
        /\ DOMAIN audit' \subseteq DOMAIN audit \cup {EventRow(n)}
        /\ EventRow(n) \notin DOMAIN audit => audit'[EventRow(n)].status = "processed"
        /\ \A k \in DOMAIN audit' \cap DOMAIN audit :
              audit'[k].status = audit[k].status /\ audit'[k].digest = audit[k].digest
    BY <1>0, <1>2, EventRowWritten DEF Busy
  <2>2. CASE id \in DOMAIN audit
    BY <2>1, <2>2, OriginStays
  <2>3. CASE id \notin DOMAIN audit
    <3>1. id = EventRow(n) /\ audit'[id].status = "processed" /\ audit'[id].digest = Summary(n)
      BY <2>1, <2>3
    <3>2. cur.part \in Partitions /\ cur.offset \in Nat /\ cur.offset < Len(log[cur.part])
      BY <1>0, <1>2, MessageInHand DEF Busy
    <3>3. log[cur.part] \in Seq(Messages)
      BY <1>0, <3>2 DEF TypeOK
    <3>4. cur.offset + 1 \in DOMAIN log[cur.part]
      BY <3>2, <3>3
    <3>5. n.form = "event" /\ log'[cur.part][cur.offset + 1] = n
      BY <1>0, <1>2 DEF IsolationInv, MessageAt
    <3> QED BY <1>2, <3>1, <3>2, <3>4, <3>5
  <2> QED BY <2>2, <2>3
<1>3. CASE /\ pc = "record_dlq" /\ log' = log /\ Delivered' = Delivered
           /\ \E keep \in Keeps : audit' = DlqProjected(keep)
  <2>1. PICK k \in {DlqRow(n), ConflictRow(n)} :
            /\ audit'[k].digest = SafeSummary(n)
            /\ DOMAIN audit' \subseteq DOMAIN audit \cup {k}
            /\ k \notin DOMAIN audit => audit'[k].status = "dlq"
            /\ \A j \in DOMAIN audit' \cap DOMAIN audit :
                  audit'[j].status = audit[j].status /\ audit'[j].digest = audit[j].digest
    BY <1>0, <1>3, DlqRowWritten DEF Busy
  <2>2. CASE id \in DOMAIN audit
    BY <2>1, <2>2, OriginStays
  <2>3. CASE id \notin DOMAIN audit
    <3>1. audit'[id].status = "dlq" /\ audit'[id].digest = SafeSummary(n)
      BY <2>1, <2>3
    <3>2. cur \in Delivered' /\ log'[cur.part][cur.offset + 1] = n
      BY <1>0, <1>3 DEF IsolationInv, MessageAt
    <3> QED BY <3>1, <3>2
  <2> QED BY <2>2, <2>3
<1> QED BY <1>1, <1>2, <1>3, AuditSteps

-----------------------------------------------------------------------------
(* Retention.                                                              *)

\* record puts the row it writes first and moves the rows that were before it by one.
LEMMA RecordedRanked ==
    ASSUME TypeOK, NEW n \in Nat, Ranked(audit, n), NEW id, NEW status, NEW digest, NEW tries
    PROVE  Ranked(Recorded(id, status, digest, tries),
                  IF id \in DOMAIN audit THEN n ELSE n + 1)
<1> DEFINE r == Recorded(id, status, digest, tries)
           size == IF id \in DOMAIN audit THEN n ELSE n + 1
<1>1. \A k \in DOMAIN audit : audit[k] \in Rows /\ audit[k].rank \in 0 .. n - 1
  BY DEF TypeOK, Ranked
<1>2. \A x \in 0 .. n - 1 : \E k \in DOMAIN audit : audit[k].rank = x
  BY DEF Ranked
<1>3. DOMAIN r = DOMAIN audit \cup {id}
  BY DEF Recorded
<1>4. r[id].rank = 0
  <2>1. CASE id \in DOMAIN audit
    <3>1. audit[id] \in Rows
      BY <1>1, <2>1
    <3>2. r[id] = [audit[id] EXCEPT !.duplicates = @ + 1,
                                    !.attempts = Larger(@, tries), !.rank = 0]
      BY <1>3, <2>1 DEF Recorded
    <3> QED BY <3>1, <3>2 DEF Rows
  <2>2. CASE id \notin DOMAIN audit
    BY <1>3, <2>2 DEF Recorded
  <2> QED BY <2>1, <2>2
<1>5. ASSUME NEW k \in DOMAIN audit, k # id
      PROVE  r[k].rank = IF id \in DOMAIN audit /\ audit[id].rank < audit[k].rank
                         THEN audit[k].rank ELSE audit[k].rank + 1
  <2>1. audit[k] \in Rows
    BY <1>1
  <2>2. r[k] = [audit[k] EXCEPT !.rank =
           IF id \in DOMAIN audit /\ audit[id].rank < @ THEN @ ELSE @ + 1]
    BY <1>5 DEF Recorded
  <2> QED BY <2>1, <2>2 DEF Rows
<1> HIDE DEF r
<1>6. ASSUME id \notin DOMAIN audit PROVE Ranked(r, n + 1)
  <2>1. \A k \in DOMAIN audit : r[k].rank = audit[k].rank + 1
    BY <1>5, <1>6
  <2>2. \A k \in DOMAIN r : r[k].rank \in 0 .. n
    BY <1>1, <1>3, <1>4, <2>1
  <2>3. ASSUME NEW x \in 0 .. n PROVE \E k \in DOMAIN r : r[k].rank = x
    <3>1. CASE x = 0
      BY <1>3, <1>4, <3>1
    <3>2. CASE x # 0
      <4>1. PICK k \in DOMAIN audit : audit[k].rank = x - 1
        BY <1>2, <3>2
      <4> QED BY <1>3, <2>1, <4>1
    <3> QED BY <3>1, <3>2
  <2>4. \A i, j \in DOMAIN r : r[i].rank = r[j].rank => i = j
    BY <1>1, <1>3, <1>4, <2>1 DEF Ranked
  <2> QED BY <2>2, <2>3, <2>4 DEF Ranked
<1>7. ASSUME id \in DOMAIN audit PROVE Ranked(r, n)
  <2> DEFINE was == audit[id].rank
  <2>1. was \in 0 .. n - 1
    BY <1>1, <1>7
  <2>2. \A k \in DOMAIN audit : k # id => audit[k].rank # was
    BY <1>7 DEF Ranked
  <2>3. \A k \in DOMAIN audit : k # id =>
          r[k].rank = IF was < audit[k].rank THEN audit[k].rank ELSE audit[k].rank + 1
    BY <1>5, <1>7
  <2> HIDE DEF was
  <2>4. \A k \in DOMAIN audit : k # id => r[k].rank \in 1 .. n - 1
    BY <1>1, <2>1, <2>2, <2>3
  <2>5. ASSUME NEW x \in 0 .. n - 1 PROVE \E k \in DOMAIN r : r[k].rank = x
    <3>1. CASE x = 0
      BY <1>3, <1>4, <3>1
    <3>2. CASE x # 0 /\ x <= was
      <4>1. PICK k \in DOMAIN audit : audit[k].rank = x - 1
        BY <1>2, <3>2
      <4>2. k # id
        BY <2>1, <3>2, <4>1 DEF was
      <4>3. ~ (was < audit[k].rank) /\ audit[k].rank + 1 = x
        BY <2>1, <3>2, <4>1
      <4> QED BY <1>3, <2>3, <4>2, <4>3
    <3>3. CASE was < x
      <4>1. PICK k \in DOMAIN audit : audit[k].rank = x
        BY <1>2
      <4>2. k # id
        BY <2>1, <3>3, <4>1 DEF was
      <4> QED BY <1>3, <2>3, <3>3, <4>1, <4>2
    <3> QED BY <2>1, <3>1, <3>2, <3>3
  <2>6. \A i, j \in DOMAIN r : r[i].rank = r[j].rank => i = j
    <3>1. \A i, j \in DOMAIN audit : i # id /\ j # id /\ r[i].rank = r[j].rank
                                       => audit[i].rank = audit[j].rank
      BY <1>1, <2>1, <2>2, <2>3
    <3> QED BY <1>3, <1>4, <2>4, <3>1 DEF Ranked
  <2>7. \A k \in DOMAIN r : r[k].rank \in 0 .. n - 1
    <3>1. 0 \in 0 .. n - 1
      BY <2>1
    <3> QED BY <1>3, <1>4, <2>4, <3>1
  <2> QED BY <2>5, <2>6, <2>7 DEF Ranked
<1> QED BY <1>6, <1>7 DEF r

\* prune keeps the first rows of a table.
LEMMA PrunedRanked ==
    ASSUME NEW table, NEW n \in Nat, Ranked(table, n), NEW keep \in Nat
    PROVE  Ranked(Pruned(table, keep), IF n < keep THEN n ELSE keep)
<1> DEFINE t == Pruned(table, keep)
           size == IF n < keep THEN n ELSE keep
<1>1. \A k \in DOMAIN table : table[k].rank \in 0 .. n - 1
  BY DEF Ranked
<1>2. \A x \in 0 .. n - 1 : \E k \in DOMAIN table : table[k].rank = x
  BY DEF Ranked
<1>3. DOMAIN t = {j \in DOMAIN table : table[j].rank < keep} /\ \A k \in DOMAIN t : t[k] = table[k]
  BY DEF Pruned
<1> HIDE DEF t
<1>4. \A k \in DOMAIN t : t[k].rank \in 0 .. size - 1
  BY <1>1, <1>3
<1>5. ASSUME NEW x \in 0 .. size - 1 PROVE \E k \in DOMAIN t : t[k].rank = x
  <2>1. PICK k \in DOMAIN table : table[k].rank = x
    BY <1>2
  <2> QED BY <1>3, <2>1
<1>6. \A i, j \in DOMAIN t : t[i].rank = t[j].rank => i = j
  BY <1>3 DEF Ranked
<1> QED BY <1>4, <1>5, <1>6 DEF Ranked, t

\* So every transaction of the consumer leaves the table numbered from its newest row on.
LEMMA ProjectedRanked ==
    ASSUME TypeOK, RankedInv, NEW id, NEW status, NEW digest, NEW tries, NEW keep \in Keeps
    PROVE  \E n \in 0 .. Retention : Ranked(Projected(id, status, digest, tries, keep), n)
<1>1. PICK n \in 0 .. Retention : Ranked(audit, n)
  BY DEF RankedInv
<1>2. keep \in Nat /\ keep <= Retention /\ Retention \in Nat
  BY EventAuditAssumption DEF Keeps
<1> DEFINE size == IF id \in DOMAIN audit THEN n ELSE n + 1
           left == IF size < keep THEN size ELSE keep
<1>3. n \in Nat /\ size \in Nat /\ left \in 0 .. Retention
  BY <1>2
<1>4. Ranked(Recorded(id, status, digest, tries), size)
  BY <1>1, <1>3, RecordedRanked
<1> HIDE DEF size
<1>5. Ranked(Projected(id, status, digest, tries, keep), left)
  BY <1>2, <1>3, <1>4, PrunedRanked DEF Projected
<1> QED BY <1>3, <1>5

LEMMA RankedStep == TypeOK /\ RankedInv /\ [Next]_vars => RankedInv'
<1> SUFFICES ASSUME TypeOK, RankedInv, [Next]_vars PROVE RankedInv'
  OBVIOUS
<1>1. CASE audit' = audit
  BY <1>1 DEF RankedInv, Ranked
<1>2. CASE \E keep \in Keeps :
             audit' = Projected(EventRow(MessageAt(cur)), "processed",
                                Summary(MessageAt(cur)), attempt, keep)
  BY <1>2, ProjectedRanked DEF RankedInv, Ranked
<1>3. CASE \E keep \in Keeps : audit' = DlqProjected(keep)
  BY <1>3, ProjectedRanked DEF RankedInv, Ranked, DlqProjected
<1> QED BY <1>1, <1>2, <1>3, AuditSteps

-----------------------------------------------------------------------------
(* The theorems.                                                           *)

\* The inductive invariant holds of every behaviour of the consumer.
THEOREM IInvariant == Spec => []IInv
<1>1. Init => IInv
  BY InitIInv
<1>2. IInv /\ [Next]_vars => IInv'
  <2> SUFFICES ASSUME IInv, [Next]_vars PROVE IInv'
    OBVIOUS
  <2>1. TypeOK' /\ CursorInv' /\ ProgressInv' /\ IsolationInv'
    BY TypeStep, CursorStep, ProgressStep, IsolationStep
  <2>2. ConflictRowsInv' /\ CommitFollowsOutcome' /\ RowsTraceToMessages'
    BY ConflictRowsStep, CommitStep, RowsStep
  <2> QED BY <2>1, <2>2 DEF IInv
<1> QED BY <1>1, <1>2, PTL DEF Spec

\* Every variable of the consumer, its database and its broker keeps its type.
THEOREM TypeCorrect == Spec => []TypeOK
<1>1. IInv => TypeOK
  BY DEF IInv
<1> QED BY <1>1, IInvariant, PTL

\* main() never lets the group pass over a message run_once has not dealt with.
THEOREM NothingIsSkipped == Spec => []NothingSkipped
<1>1. IInv => NothingSkipped
  BY DEF IInv, ProgressInv
<1> QED BY <1>1, IInvariant, PTL

\* The offset of a message is committed only when its outcome is durable.
THEOREM OutcomeBeforeCommit == Spec => []CommitFollowsOutcome
<1>1. IInv => CommitFollowsOutcome
  BY DEF IInv
<1> QED BY <1>1, IInvariant, PTL

\* The projection invents nothing: each row is about a published message.
THEOREM RowsHaveOrigin == Spec => []RowsTraceToMessages
<1>1. IInv => RowsTraceToMessages
  BY DEF IInv
<1> QED BY <1>1, IInvariant, PTL

\* A row never changes what it says about its event.
THEOREM FirstOutcomeIsFinal == Spec => FirstOutcomeSticks
<1> DEFINE Sticks == \A id \in DOMAIN audit \cap DOMAIN audit' :
                        /\ audit'[id].status = audit[id].status
                        /\ audit'[id].digest = audit[id].digest
                        /\ audit'[id].duplicates >= audit[id].duplicates
                        /\ audit'[id].attempts >= audit[id].attempts
<1>1. IInv /\ [Next]_vars => Sticks
  <2> SUFFICES ASSUME IInv, [Next]_vars PROVE Sticks
    OBVIOUS
  <2>0. TypeOK /\ CursorInv /\ ConflictRowsInv
    BY DEF IInv
  <2>1. CASE audit' = audit
    BY <2>0, <2>1 DEF TypeOK, Rows
  <2>2. CASE /\ pc = "handle"
             /\ ~Conflicts(EventRow(MessageAt(cur)), Summary(MessageAt(cur)))
             /\ \E keep \in Keeps :
                   audit' = Projected(EventRow(MessageAt(cur)), "processed",
                                      Summary(MessageAt(cur)), attempt, keep)
    BY <2>0, <2>2, EventRowWritten DEF Busy
  <2>3. CASE pc = "record_dlq" /\ \E keep \in Keeps : audit' = DlqProjected(keep)
    BY <2>0, <2>3, DlqRowWritten DEF Busy
  <2> QED BY <2>1, <2>2, <2>3, AuditSteps
<1> HIDE DEF Sticks
<1>2. Spec => [][Sticks]_vars
  BY <1>1, IInvariant, PTL DEF Spec
<1> QED BY <1>2 DEF FirstOutcomeSticks, Sticks

\* The group's committed offsets only move forward.
THEOREM CommittedMonotonic == Spec => CommittedNeverRegresses
<1> DEFINE Forward == \A p \in Partitions : committed'[p] >= committed[p]
<1>1. IInv /\ [Next]_vars => Forward
  <2> SUFFICES ASSUME IInv, [Next]_vars, NEW p \in Partitions
               PROVE  committed'[p] >= committed[p]
    OBVIOUS
  <2>0. TypeOK /\ CursorInv /\ ProgressInv
    BY DEF IInv
  <2>1. CASE CommitOffset
    <3>1. pc = "commit" /\ committed' = [committed EXCEPT ![cur.part] = cur.offset + 1]
      BY <2>1 DEF CommitOffset
    <3>2. cur.offset + 1 = position[cur.part] /\ cur.part \in Partitions
      BY <2>0, <3>1, MessageInHand DEF CursorInv, Busy
    <3>3. committed[cur.part] <= position[cur.part]
      BY <2>0, <3>1, <3>2 DEF ProgressInv
    <3> QED BY <2>0, <3>1, <3>2, <3>3 DEF TypeOK
  <2>2. CASE committed' = committed
    BY <2>0, <2>2 DEF TypeOK
  <2>3. CommitOffset \/ committed' = committed
    BY DEF Next, vars, brokerVars, Publish, Heartbeat, PollNothing, PollMessage,
         HandleCommits, HandleRaises, HandleAnswerLost, ProduceDlq, BrokerStoresDlq,
         DlqMessageLost, FlushDone, DlqDeliveryFails, RecordDlq, RecordDlqFails,
         CommitFails, Stop, Crash, Restart, Rebalance
  <2> QED BY <2>1, <2>2, <2>3
<1> HIDE DEF Forward
<1>2. Spec => [][Forward]_vars
  BY <1>1, IInvariant, PTL DEF Spec
<1> QED BY <1>2 DEF CommittedNeverRegresses, Forward

\* The projection holds the rows written last, numbered without a gap, and never more of
\* them than its retention (EventAuditRepository.record and prune).
THEOREM NewestAreKept == Spec => []RetentionKeepsNewest
<1>1. Init => RankedInv
  <2> SUFFICES ASSUME Init PROVE Ranked(audit, 0) /\ 0 \in 0 .. Retention
    BY DEF RankedInv
  <2> QED BY EventAuditAssumption DEF Init, Ranked
<1>2. TypeOK /\ RankedInv /\ [Next]_vars => RankedInv'
  BY RankedStep
<1>3. RankedInv => RetentionKeepsNewest
  <2> SUFFICES ASSUME RankedInv PROVE RetentionKeepsNewest
    OBVIOUS
  <2>1. PICK n \in 0 .. Retention : Ranked(audit, n)
    BY DEF RankedInv
  <2> DEFINE rank == [id \in DOMAIN audit |-> audit[id].rank]
  <2>2. rank \in Bijection(DOMAIN audit, 0 .. n - 1)
    BY <2>1 DEF Ranked, Bijection, Injection, Surjection, IsInjective
  <2>3. IsFiniteSet(0 .. n - 1) /\ Cardinality(0 .. n - 1) = n
    <3>1. 0 \in Int /\ n - 1 \in Int /\ n \in Nat
      BY EventAuditAssumption
    <3>2. /\ IsFiniteSet(0 .. n - 1)
          /\ Cardinality(0 .. n - 1) = IF 0 > n - 1 THEN 0 ELSE n - 1 - 0 + 1
      BY <3>1, FS_Interval
    <3> QED BY <3>1, <3>2
  <2>4. Cardinality(DOMAIN audit) = n
    <3> HIDE DEF rank
    <3>1. ExistsBijection(0 .. n - 1, DOMAIN audit)
      BY <2>2, Fun_ExistsBijSymmetric DEF ExistsBijection
    <3> QED BY <2>3, <3>1, FS_Bijection
  <2> QED BY <2>1, <2>4, EventAuditAssumption DEF Ranked, RetentionKeepsNewest
<1> QED BY <1>1, <1>2, <1>3, TypeCorrect, PTL DEF Spec

-----------------------------------------------------------------------------
(* The consumer implements AuditDelivery.                                  *)

Published == [p \in Partitions |-> Len(log[p])]

\* An outcome, or a decision to give up, is one step of the abstract pipeline.
LEMMA HistoryStep ==
    ASSUME IInv, pc \in Busy, log' = log, committed' = committed,
           (Settle /\ UNCHANGED abandoned) \/ (GiveUp /\ UNCHANGED settled)
    PROVE  Delivery!Next
<1>1. cur.part \in Partitions /\ cur.offset \in 0 .. Published[cur.part] - 1
  <2>1. /\ cur.part \in Partitions /\ cur.offset \in Nat
        /\ cur.offset < Len(log[cur.part])
    BY MessageInHand DEF IInv
  <2>2. Len(log[cur.part]) \in Nat
    BY <2>1 DEF IInv, TypeOK
  <2> QED BY <2>1, <2>2 DEF Published
<1>2. CASE Settle /\ UNCHANGED abandoned
  <2>1. Delivery!Settle(cur.part, cur.offset)
    BY <1>2 DEF Delivery!Settle, Settle
  <2> QED BY <1>1, <2>1 DEF Delivery!Next, Published
<1>3. CASE GiveUp /\ UNCHANGED settled
  <2>1. Delivery!GiveUp(cur.part, cur.offset)
    BY <1>3 DEF Delivery!GiveUp, GiveUp
  <2> QED BY <1>1, <2>1 DEF Delivery!Next, Published
<1> QED BY <1>2, <1>3

\* Committing moves the abstract position over messages all dealt with.
LEMMA CommitIsCommit ==
    ASSUME IInv, CommitOffset
    PROVE  Delivery!Next
<1> DEFINE p == cur.part
           n == cur.offset + 1
<1>0. TypeOK /\ CursorInv /\ ProgressInv /\ pc = "commit" /\ pc \in Busy
  BY DEF IInv, CommitOffset, Busy
<1>1. /\ p \in Partitions /\ cur.offset \in Nat /\ n \in Nat /\ n = position[p]
      /\ position[p] \in Nat /\ committed[p] \in Nat /\ Len(log[p]) \in Nat
      /\ position[p] <= Len(log[p])
  BY <1>0, MessageInHand DEF CursorInv, TypeOK
<1>2. n \in 1 .. Published[p]
  BY <1>1 DEF Published
<1>3. committed[p] <= n
  BY <1>0, <1>1 DEF ProgressInv
<1>4. 0 .. n - 1 \subseteq settled[p] \cup abandoned[p]
  <2> SUFFICES ASSUME NEW o \in 0 .. n - 1 PROVE o \in settled[p] \cup abandoned[p]
    OBVIOUS
  <2>1. \A q \in Partitions : Accounted(q) \subseteq settled'[q] \cup abandoned'[q]
    BY DEF CommitOffset, historyVars, Accounted
  <2>2. cur.offset \in settled'[cur.part] \cup abandoned'[cur.part]
    BY <1>0 DEF CommitOffset, historyVars, Accounted, ProgressInv
  <2>3. o \in settled'[p] \cup abandoned'[p]
    BY <1>0, <1>1, <2>1, <2>2, FetchedAccounted
  <2> QED BY <2>3 DEF CommitOffset, historyVars
<1>5. /\ committed' = [committed EXCEPT ![p] = n]
      /\ UNCHANGED <<log, settled, abandoned>>
  BY DEF CommitOffset, historyVars
<1> HIDE DEF n
<1>6. Delivery!Commit(p, n)
  BY <1>1, <1>2, <1>3, <1>4, <1>5 DEF Delivery!Commit, Published
<1> QED BY <1>1, <1>2, <1>6 DEF Delivery!Next, Published

\* A message that enters a topic is one more published message.
LEMMA PublishIsPublish ==
    ASSUME TypeOK, NEW p \in Partitions, NEW m \in Messages, Publish(p, m)
    PROVE  Delivery!Next
<1>1. log[p] \in Seq(Messages) /\ log \in [Partitions -> Seq(Messages)]
  BY DEF TypeOK
<1>2. log' = [log EXCEPT ![p] = Append(log[p], m)]
  BY DEF Publish
<1>3. Len(log'[p]) = Len(log[p]) + 1
  BY <1>1, <1>2
<1>4. \A q \in Partitions : q # p => log'[q] = log[q]
  BY <1>1, <1>2
<1>5. Published' = [Published EXCEPT ![p] = Len(log[p]) + 1]
  BY <1>3, <1>4 DEF Published
<1>6. Published[p] = Len(log[p])
  BY DEF Published
<1>7. UNCHANGED <<settled, abandoned, committed>>
  BY DEF Publish, historyVars
<1>8. Delivery!Publish(p)
  BY <1>5, <1>6, <1>7 DEF Delivery!Publish, Published
<1> QED BY <1>8 DEF Delivery!Next

\* The consumer with its database and its broker implements the abstract
\* delivery pipeline.
THEOREM Implements == Spec => DeliverySpec
<1>1. Init => Delivery!Init
  BY DEF Init, Delivery!Init
<1>2. IInv /\ [Next]_vars => [Delivery!Next]_(Delivery!vars)
  <2> SUFFICES ASSUME IInv, [Next]_vars
               PROVE  Delivery!Next \/ UNCHANGED Delivery!vars
    OBVIOUS
  <2>1. CASE \E p \in Partitions, m \in Messages : Publish(p, m)
    BY <2>1, PublishIsPublish DEF IInv
  <2>2. CASE \E keep \in Keeps : HandleCommits(keep)
    BY <2>2, HistoryStep DEF HandleCommits, brokerVars, Busy
  <2>3. CASE \E keep \in Keeps : HandleAnswerLost(keep)
    BY <2>3, HistoryStep DEF HandleAnswerLost, brokerVars, Busy
  <2>4. CASE DlqDeliveryFails
    BY <2>4, HistoryStep DEF DlqDeliveryFails, brokerVars, Busy
  <2>5. CASE \E keep \in Keeps : RecordDlq(keep)
    BY <2>5, HistoryStep DEF RecordDlq, brokerVars, Busy
  <2>6. CASE \E keep \in Keeps : RecordDlqFails(keep)
    BY <2>6, HistoryStep DEF RecordDlqFails, brokerVars, Busy
  <2>7. CASE CommitOffset
    BY <2>7, CommitIsCommit
  <2>8. CASE UNCHANGED <<log, settled, abandoned, committed>>
    BY <2>8 DEF Delivery!vars
  <2> QED
    BY <2>1, <2>2, <2>3, <2>4, <2>5, <2>6, <2>7, <2>8
       DEF Next, vars, brokerVars, historyVars, Heartbeat, PollNothing, PollMessage,
           HandleRaises, ProduceDlq, BrokerStoresDlq, DlqMessageLost, FlushDone,
           CommitFails, Stop, Crash, Restart, Rebalance
<1> QED BY <1>1, <1>2, IInvariant, PTL DEF Spec, DeliverySpec, Delivery!Spec
=============================================================================
