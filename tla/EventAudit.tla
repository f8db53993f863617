---------------------------- MODULE EventAudit ----------------------------
(***************************************************************************)
(* The Kafka audit/metrics consumer (event_consumer.py) with the audit     *)
(* projection it maintains (repositories/events.py).                       *)
(*                                                                         *)
(* One process runs main(): it loops over run_once, which writes a         *)
(* heartbeat, polls one message, validates it, hands it to the projection  *)
(* (a bounded number of attempts), isolates it in the dead-letter topic    *)
(* when that fails, and then commits its offset.  Every exception that     *)
(* leaves run_once is logged by main(), which simply polls again: the      *)
(* client is not rewound.  The process may crash between any two steps.    *)
(*                                                                         *)
(* A message is a record [form, id, content]: "event" passes the whole     *)
(* contract, "badPayload" is an envelope whose payload is refused, and     *)
(* "garbage" is not an envelope at all.  The raw SHA-256 is the message    *)
(* itself.  Offsets start at 0, as in Kafka.                               *)
(***************************************************************************)
EXTENDS Integers, Sequences, FiniteSets

CONSTANTS
    Partitions,     \* partitions of the two audit topics
    Messages,       \* messages the producers may publish
    None,           \* no message is being processed / no hash in a summary
    MaxAttempts,    \* ARGUS_KAFKA_CONSUMER_MAX_ATTEMPTS
    Retention,      \* ARGUS_KAFKA_AUDIT_RETENTION_COUNT
    MaxLog,         \* bound: messages published per partition
    MaxFaults       \* bound: failures, crashes, stops and reassignments

Source == [part : Partitions, offset : Nat]

ASSUME EventAuditAssumption ==
    /\ MaxAttempts \in Nat \ {0}
    /\ Retention \in Nat \ {0}
    /\ MaxLog \in Nat
    /\ MaxFaults \in Nat
    /\ None \notin Source
    /\ None \notin Messages

VARIABLES
    log,            \* the broker: one message sequence per partition
    committed,      \* the broker: next offset to read, per partition
    dlqTopic,       \* the broker: sources of the messages in <topic>.dlq
    audit,          \* the database: event_audit_records, keyed by event_id
    heartbeat,      \* the database: status of the heartbeat row
    pc,             \* where the process is in run_once
    position,       \* the client: next offset it will fetch, per partition
    cur,            \* source of the message run_once is processing
    attempt,        \* attempts made for it
    outbox,         \* DLQ messages in the producer's buffer
    settled,        \* history: offsets whose outcome reached the projection
    abandoned,      \* history: offsets run_once raised for without an outcome
    refused,        \* history: sources whose DLQ message never reached the topic
    faults          \* bound: disturbances so far

vars == <<log, committed, dlqTopic, audit, heartbeat, pc, position, cur,
          attempt, outbox, settled, abandoned, refused, faults>>

brokerVars == <<log, committed, dlqTopic>>
clientVars == <<position, outbox>>
historyVars == <<settled, abandoned, refused>>

-----------------------------------------------------------------------------
(* The projection.  rank orders the rows by (updated_at, id): rank 0 is the *)
(* row written last.                                                        *)

EventIds == {m.id : m \in Messages}
RowIds == ({"event"} \X EventIds) \cup ({"invalid", "conflict"} \X Messages)
Digests == [content : {m.content : m \in Messages}, sha : Messages \cup {None}]
Rows == [status : {"processed", "dlq"}, digest : Digests,
         attempts : Nat, duplicates : Nat, rank : Nat]

\* What the projection stores of a valid event, and of an isolated message:
\* the latter's payload_summary holds raw_sha256 as well.
Summary(m) == [content |-> m.content, sha |-> None]
SafeSummary(m) == [content |-> m.content, sha |-> m]

EventRow(m) == <<"event", m.id>>
DlqRow(m) == IF m.form = "garbage" THEN <<"invalid", m>> ELSE EventRow(m)
ConflictRow(m) == <<"conflict", m>>

\* Mutant: the hash in the summary is not compared.
ConflictsByContent(id, digest) ==
    id \in DOMAIN audit /\ audit[id].digest.content # digest.content
Conflicts(id, digest) == id \in DOMAIN audit /\ audit[id].digest # digest

Larger(a, b) == IF a < b THEN b ELSE a

\* Mutant: a duplicate overwrites attempt_count instead of keeping the largest.
RecordedOverwriting(id, status, digest, tries) ==
    [k \in DOMAIN audit \cup {id} |->
        IF k # id
        THEN [audit[k] EXCEPT !.rank =
                 IF id \in DOMAIN audit /\ audit[id].rank < @ THEN @ ELSE @ + 1]
        ELSE IF id \in DOMAIN audit
        THEN [audit[id] EXCEPT !.duplicates = @ + 1, !.attempts = tries, !.rank = 0]
        ELSE [status |-> status, digest |-> digest, attempts |-> tries,
              duplicates |-> 0, rank |-> 0]]

\* EventAuditRepository.record: a known event_id counts a duplicate and keeps
\* its row; a new one gets a row.  Either way the row becomes the newest.
Recorded(id, status, digest, tries) ==
    [k \in DOMAIN audit \cup {id} |->
        IF k # id
        THEN [audit[k] EXCEPT !.rank =
                 IF id \in DOMAIN audit /\ audit[id].rank < @ THEN @ ELSE @ + 1]
        ELSE IF id \in DOMAIN audit
        THEN [audit[id] EXCEPT !.duplicates = @ + 1,
                               !.attempts = Larger(@, tries),
                               !.rank = 0]
        ELSE [status |-> status, digest |-> digest, attempts |-> tries,
              duplicates |-> 0, rank |-> 0]]

\* Mutant: one row too many stays.
PrunedOneShort(table, keep) ==
    [k \in {j \in DOMAIN table : table[j].rank <= keep} |-> table[k]]

\* EventAuditRepository.prune: only the newest rows stay.  The age limit may
\* leave fewer than Retention of them, never dropping the row just written.
Pruned(table, keep) == [k \in {j \in DOMAIN table : table[j].rank < keep} |-> table[k]]

\* One database transaction: record, then prune.
Projected(id, status, digest, tries, keep) ==
    Pruned(Recorded(id, status, digest, tries), keep)

-----------------------------------------------------------------------------
Busy == {"handle", "isolate", "flush", "record_dlq", "commit"}

MessageAt(s) == log[s.part][s.offset + 1]

Disturb == faults < MaxFaults /\ faults' = faults + 1

\* run_once is over, normally or by an exception that main() swallows.
Return ==
    /\ pc' = "idle"
    /\ cur' = None
    /\ attempt' = 0

Settle == settled' = [settled EXCEPT ![cur.part] = @ \cup {cur.offset}]
GiveUp == abandoned' = [abandoned EXCEPT ![cur.part] = @ \cup {cur.offset}]

Init ==
    /\ log = [p \in Partitions |-> <<>>]
    /\ committed = [p \in Partitions |-> 0]
    /\ dlqTopic = {}
    /\ audit = <<>>
    /\ heartbeat = "absent"
    /\ pc = "idle"
    /\ position = [p \in Partitions |-> 0]
    /\ cur = None
    /\ attempt = 0
    /\ outbox = {}
    /\ settled = [p \in Partitions |-> {}]
    /\ abandoned = [p \in Partitions |-> {}]
    /\ refused = {}
    /\ faults = 0

\* A producer's message reaches the broker.
Publish(p, m) ==
    /\ Len(log[p]) < MaxLog
    /\ log' = [log EXCEPT ![p] = Append(@, m)]
    /\ UNCHANGED <<committed, dlqTopic, audit, heartbeat, pc, cur, attempt,
                   clientVars, historyVars, faults>>

\* run_once starts with its own transaction; one that fails changes nothing.
Heartbeat ==
    /\ pc = "idle"
    /\ heartbeat' = "running"
    /\ pc' = "poll"
    /\ UNCHANGED <<brokerVars, audit, cur, attempt, clientVars, historyVars, faults>>

\* poll() timed out, or returned an error: a retriable one is reported as
\* "waiting", another as "error"; that write may itself fail.
PollNothing ==
    /\ pc = "poll"
    /\ heartbeat' \in {heartbeat, "waiting", "error"}
    /\ pc' = "idle"
    /\ UNCHANGED <<brokerVars, audit, cur, attempt, clientVars, historyVars, faults>>

\* poll() returned the next message of p.  The contract decides whether the
\* projection sees it or it goes straight to the dead-letter topic.
PollMessage(p) ==
    /\ pc = "poll"
    /\ position[p] < Len(log[p])
    /\ position' = [position EXCEPT ![p] = @ + 1]
    /\ cur' = [part |-> p, offset |-> position[p]]
    /\ attempt' = 1
    /\ pc' = IF log[p][position[p] + 1].form = "event" THEN "handle" ELSE "isolate"
    /\ UNCHANGED <<brokerVars, audit, heartbeat, outbox, historyVars, faults>>

\* Mutants: one attempt too many; attempts are not counted.
NextAttemptLate ==
    \/ /\ attempt <= MaxAttempts
       /\ attempt' = attempt + 1
       /\ pc' = "handle"
    \/ /\ attempt > MaxAttempts
       /\ attempt' = attempt
       /\ pc' = "isolate"
NextAttemptForever == attempt' = attempt /\ pc' = "handle"

NextAttempt ==
    \/ /\ attempt < MaxAttempts
       /\ attempt' = attempt + 1
       /\ pc' = "handle"
    \/ /\ attempt >= MaxAttempts
       /\ attempt' = attempt
       /\ pc' = "isolate"

\* AuditMetricsHandler.handle commits its transaction and returns.
HandleCommits(keep) ==
    /\ pc = "handle"
    /\ LET m == MessageAt(cur) IN
        /\ ~Conflicts(EventRow(m), Summary(m))
        /\ audit' = Projected(EventRow(m), "processed", Summary(m), attempt, keep)
    /\ Settle
    /\ pc' = "commit"
    /\ UNCHANGED <<brokerVars, heartbeat, cur, attempt, clientVars, abandoned,
                   refused, faults>>

\* handle raises and its transaction is rolled back: the event_id is stored
\* with other content, or the database fails.
HandleRaises ==
    /\ pc = "handle"
    /\ \/ /\ Conflicts(EventRow(MessageAt(cur)), Summary(MessageAt(cur)))
          /\ faults' = faults
       \/ Disturb
    /\ NextAttempt
    /\ UNCHANGED <<brokerVars, audit, heartbeat, cur, clientVars, historyVars>>

\* handle raises although the database committed: the answer was lost.
HandleAnswerLost(keep) ==
    /\ pc = "handle"
    /\ Disturb
    /\ LET m == MessageAt(cur) IN
        /\ ~Conflicts(EventRow(m), Summary(m))
        /\ audit' = Projected(EventRow(m), "processed", Summary(m), attempt, keep)
    /\ Settle
    /\ NextAttempt
    /\ UNCHANGED <<brokerVars, heartbeat, cur, clientVars, abandoned, refused>>

\* Mutant: the row is written without waiting for the delivery.
ProduceDlqNoFlush ==
    /\ pc = "isolate"
    /\ outbox' = outbox \cup {cur}
    /\ pc' = "record_dlq"
    /\ UNCHANGED <<brokerVars, audit, heartbeat, position, cur, attempt,
                   historyVars, faults>>

\* _send_to_dlq, up to flush(): the message is in the producer's buffer.
ProduceDlq ==
    /\ pc = "isolate"
    /\ outbox' = outbox \cup {cur}
    /\ pc' = "flush"
    /\ UNCHANGED <<brokerVars, audit, heartbeat, position, cur, attempt,
                   historyVars, faults>>

\* The broker stores a buffered DLQ message, whatever the process is doing.
BrokerStoresDlq(s) ==
    /\ s \in outbox
    /\ outbox' = outbox \ {s}
    /\ dlqTopic' = dlqTopic \cup {s}
    /\ UNCHANGED <<log, committed, audit, heartbeat, pc, position, cur, attempt,
                   historyVars, faults>>

\* Delivery of a buffered DLQ message fails for good (refused by the broker, or
\* expired): it leaves the buffer all the same, and produce() was given no
\* callback that would notice.
DlqMessageLost(s) ==
    /\ s \in outbox
    /\ Disturb
    /\ outbox' = outbox \ {s}
    /\ refused' = refused \cup {s}
    /\ UNCHANGED <<brokerVars, audit, heartbeat, pc, position, cur, attempt,
                   settled, abandoned>>

\* flush(10) returned 0: nothing is left in the buffer.
FlushDone ==
    /\ pc = "flush"
    /\ outbox = {}
    /\ pc' = "record_dlq"
    /\ UNCHANGED <<brokerVars, audit, heartbeat, cur, attempt, clientVars,
                   historyVars, faults>>

\* produce() refused the message, or flush(10) left messages in the buffer:
\* RuntimeError("kafka_dlq_delivery_timeout") leaves run_once.
DlqDeliveryFails ==
    /\ \/ pc = "isolate"
       \/ pc = "flush" /\ outbox # {}
    /\ Disturb
    /\ GiveUp
    /\ Return
    /\ UNCHANGED <<brokerVars, audit, heartbeat, clientVars, settled, refused>>

\* AuditMetricsHandler.record_dlq: the row of the event_id, or one of its own
\* when that event_id is stored with another summary.
DlqProjected(keep) ==
    LET m == MessageAt(cur)
        id == IF Conflicts(DlqRow(m), SafeSummary(m)) THEN ConflictRow(m) ELSE DlqRow(m)
    IN Projected(id, "dlq", SafeSummary(m), attempt, keep)

RecordDlq(keep) ==
    /\ pc = "record_dlq"
    /\ audit' = DlqProjected(keep)
    /\ Settle
    /\ pc' = "commit"
    /\ UNCHANGED <<brokerVars, heartbeat, cur, attempt, clientVars, abandoned,
                   refused, faults>>

\* record_dlq raises: its transaction was rolled back, or its answer was lost.
RecordDlqFails(keep) ==
    /\ pc = "record_dlq"
    /\ Disturb
    /\ \/ GiveUp /\ UNCHANGED <<audit, settled>>
       \/ Settle /\ audit' = DlqProjected(keep) /\ UNCHANGED abandoned
    /\ Return
    /\ UNCHANGED <<brokerVars, heartbeat, clientVars, refused>>

CommitOffset ==
    /\ pc = "commit"
    /\ committed' = [committed EXCEPT ![cur.part] = cur.offset + 1]
    /\ Return
    /\ UNCHANGED <<log, dlqTopic, audit, heartbeat, clientVars, historyVars, faults>>

CommitFails ==
    /\ pc = "commit"
    /\ Disturb
    /\ Return
    /\ UNCHANGED <<brokerVars, audit, heartbeat, clientVars, historyVars>>

\* The process is gone, and with it the client's positions and buffer.
Exit ==
    /\ pc' = "down"
    /\ cur' = None
    /\ attempt' = 0
    /\ outbox' = {}
    /\ position' = [p \in Partitions |-> 0]

\* SIGTERM is looked at between two iterations only; close() reports "stopped"
\* unless that write fails.
Stop ==
    /\ pc = "idle"
    /\ Disturb
    /\ heartbeat' \in {heartbeat, "stopped"}
    /\ Exit
    /\ UNCHANGED <<brokerVars, audit, historyVars>>

Crash ==
    /\ pc # "down"
    /\ Disturb
    /\ Exit
    /\ UNCHANGED <<brokerVars, audit, heartbeat, historyVars>>

\* Mutant: a new process starts at the end of the log.
RestartLatest ==
    /\ pc = "down"
    /\ pc' = "idle"
    /\ position' = [p \in Partitions |-> Len(log[p])]
    /\ UNCHANGED <<brokerVars, audit, heartbeat, cur, attempt, outbox,
                   historyVars, faults>>

\* A new process resumes from the group's committed offsets ("earliest" when
\* there are none).
Restart ==
    /\ pc = "down"
    /\ pc' = "idle"
    /\ position' = committed
    /\ UNCHANGED <<brokerVars, audit, heartbeat, cur, attempt, outbox,
                   historyVars, faults>>

\* The group is rebalanced inside poll(): the partitions come back at their
\* committed offsets.
Rebalance ==
    /\ pc = "poll"
    /\ Disturb
    /\ position' = committed
    /\ UNCHANGED <<brokerVars, audit, heartbeat, pc, cur, attempt, outbox, historyVars>>

Keeps == 1 .. Retention

Next ==
    \/ \E p \in Partitions, m \in Messages : Publish(p, m)
    \/ Heartbeat
    \/ PollNothing
    \/ \E p \in Partitions : PollMessage(p)
    \/ \E keep \in Keeps : HandleCommits(keep)
    \/ HandleRaises
    \/ \E keep \in Keeps : HandleAnswerLost(keep)
    \/ ProduceDlq
    \/ \E s \in outbox : BrokerStoresDlq(s)
    \/ \E s \in outbox : DlqMessageLost(s)
    \/ FlushDone
    \/ DlqDeliveryFails
    \/ \E keep \in Keeps : RecordDlq(keep)
    \/ \E keep \in Keeps : RecordDlqFails(keep)
    \/ CommitOffset
    \/ CommitFails
    \/ Stop
    \/ Crash
    \/ Restart
    \/ Rebalance

Spec == Init /\ [][Next]_vars

\* The process keeps running (its container is restarted), the broker stores
\* what is buffered, and it does not keep answering poll() with nothing while
\* messages wait.  No fairness is assumed of producers or of disturbances.
Fairness ==
    /\ WF_vars(Heartbeat)
    /\ \A p \in Partitions : SF_vars(PollMessage(p))
    /\ WF_vars(\E keep \in Keeps : HandleCommits(keep))
    /\ WF_vars(HandleRaises)
    /\ WF_vars(ProduceDlq)
    /\ WF_vars(\E s \in outbox : BrokerStoresDlq(s))
    /\ WF_vars(FlushDone)
    /\ WF_vars(\E keep \in Keeps : RecordDlq(keep))
    /\ WF_vars(CommitOffset)
    /\ WF_vars(Restart)

FairSpec == Spec /\ Fairness

-----------------------------------------------------------------------------
TypeOK ==
    /\ log \in [Partitions -> Seq(Messages)]
    /\ committed \in [Partitions -> Nat]
    /\ dlqTopic \subseteq Source
    /\ DOMAIN audit \subseteq RowIds
    /\ \A id \in DOMAIN audit : audit[id] \in Rows
    /\ heartbeat \in {"absent", "running", "waiting", "error", "stopped"}
    /\ pc \in {"down", "idle", "poll"} \cup Busy
    /\ position \in [Partitions -> Nat]
    /\ cur \in Source \cup {None}
    /\ attempt \in 0 .. MaxAttempts
    /\ outbox \subseteq Source
    /\ settled \in [Partitions -> SUBSET Nat]
    /\ abandoned \in [Partitions -> SUBSET Nat]
    /\ refused \subseteq Source
    /\ faults \in Nat

Accounted(p) == settled[p] \cup abandoned[p]

\* No message is passed over unseen: every offset below the committed one was
\* either given an outcome or run_once raised while processing it, whatever
\* crashes, lost commits and rebalances came in between.
NothingSkipped ==
    \A p \in Partitions : \A o \in 0 .. committed[p] - 1 : o \in Accounted(p)

\* Dead-letter messages that left the producer's buffer.
Delivered == dlqTopic \cup refused

\* When run_once is about to commit a message, its own outcome is durable: a row
\* of the projection says so (retention included) and, for an isolated message,
\* the dead-letter message was produced and is no longer waiting.
CommitFollowsOutcome ==
    pc = "commit" =>
        LET m == MessageAt(cur) IN
        \/ /\ EventRow(m) \in DOMAIN audit
           /\ audit[EventRow(m)].digest = Summary(m)
        \/ /\ cur \in Delivered
           /\ \E id \in {DlqRow(m), ConflictRow(m)} \cap DOMAIN audit :
                audit[id].digest = SafeSummary(m)

\* Every row of the projection is about a message that exists: a processed row
\* about a valid published event with that content, a dlq row about a message
\* whose dead-letter copy left the buffer before the row was written.
RowsTraceToMessages ==
    \A id \in DOMAIN audit :
        \/ /\ audit[id].status = "processed"
           /\ \E p \in Partitions : \E i \in DOMAIN log[p] :
                /\ log[p][i].form = "event"
                /\ EventRow(log[p][i]) = id
                /\ Summary(log[p][i]) = audit[id].digest
        \/ /\ audit[id].status = "dlq"
           /\ \E s \in Delivered : SafeSummary(MessageAt(s)) = audit[id].digest

\* The projection never outgrows its retention bound, and what it keeps are
\* exactly the rows written last.
RetentionKeepsNewest ==
    /\ Cardinality(DOMAIN audit) <= Retention
    /\ {audit[id].rank : id \in DOMAIN audit} = 0 .. (Cardinality(DOMAIN audit) - 1)

\* The first outcome of an event_id is final while its row exists: replays,
\* conflicting reuses and late isolations never change what it says.
FirstOutcomeSticks ==
    [][\A id \in DOMAIN audit \cap DOMAIN audit' :
          /\ audit'[id].status = audit[id].status
          /\ audit'[id].digest = audit[id].digest
          /\ audit'[id].duplicates >= audit[id].duplicates
          /\ audit'[id].attempts >= audit[id].attempts]_vars

\* The group never moves backwards, so a restart replays at most what was not
\* committed.
CommittedNeverRegresses ==
    [][\A p \in Partitions : committed'[p] >= committed[p]]_vars

\* Every published message is eventually given an outcome, or run_once has
\* raised for it: nothing waits for ever once disturbances stop.
EveryMessageAccounted ==
    \A p \in Partitions : \A o \in 0 .. MaxLog - 1 :
        (o < Len(log[p])) ~> (o \in Accounted(p))

\* What the documentation says of commits (INTERVIEW_QA.md): an offset is
\* committed only after its event is processed, recognised as a duplicate or
\* safely isolated.
CommittedOnlyAfterOutcome ==
    \A p \in Partitions : \A o \in 0 .. committed[p] - 1 : o \in settled[p]

-----------------------------------------------------------------------------
(* The inductive invariant the proofs use.                                  *)

\* The cursors stay inside the log, and a message is being processed exactly
\* while run_once is past its poll.
CursorInv ==
    /\ \A p \in Partitions : committed[p] <= Len(log[p]) /\ position[p] <= Len(log[p])
    /\ cur # None <=> pc \in Busy
    /\ pc \in Busy => cur.offset + 1 = position[cur.part]

\* What a live client has fetched is dealt with, but for the message in hand.
ProgressInv ==
    /\ NothingSkipped
    /\ pc # "down" =>
        \A p \in Partitions :
            /\ committed[p] <= position[p]
            /\ \A o \in 0 .. position[p] - 1 :
                o \in Accounted(p) \/ cur = [part |-> p, offset |-> o]
    /\ pc = "commit" => cur.offset \in Accounted(cur.part)

\* A message on its way to the dead-letter topic is in the producer's buffer or
\* has left it, and what is there was published.
IsolationInv ==
    /\ \A s \in outbox \cup Delivered : s.offset < Len(log[s.part])
    /\ pc = "handle" => MessageAt(cur).form = "event"
    /\ pc = "flush" => cur \in outbox \cup Delivered
    /\ pc = "record_dlq" => cur \in Delivered

\* A row made for a conflict holds the summary of the message it is named after.
ConflictRowsInv ==
    \A m \in Messages : ConflictRow(m) \in DOMAIN audit =>
        audit[ConflictRow(m)].digest = SafeSummary(m)

\* The ranks of a table number its rows from the newest on.
Ranked(table, n) ==
    /\ {table[id].rank : id \in DOMAIN table} = 0 .. n - 1
    /\ \A i, j \in DOMAIN table : table[i].rank = table[j].rank => i = j

RankedInv == \E n \in 0 .. Retention : Ranked(audit, n)

IInv == /\ TypeOK /\ CursorInv /\ ProgressInv /\ IsolationInv /\ ConflictRowsInv
        /\ CommitFollowsOutcome /\ RowsTraceToMessages
=============================================================================
