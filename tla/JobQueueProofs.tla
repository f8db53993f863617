--------------------------- MODULE JobQueueProofs ---------------------------
(***************************************************************************)
(* Proofs about JobQueue, for any jobs, workers and number of failures: an *)
(* accepted job is never out of sight, and a final status is the outcome   *)
(* the job really had.  Both rest on a job being in one place at a time:   *)
(* the list holds it once, or one worker does, or neither.                 *)
(***************************************************************************)
EXTENDS JobQueue, SequenceTheorems, TLAPS

Before == {"popped", "marked", "processing"}
After == {"processed", "recorded"}

\* A worker between BRPOP and its next iteration holds a job, and no other does.
HandInv == \A w \in Workers : wjob[w] # None <=> wpc[w] \in Before \cup After

\* A job is held by one worker.
HolderInv ==
    \A v, w \in Workers : wjob[v] = wjob[w] /\ wjob[v] # None => v = w

\* The list holds a job once.
ListInv == \A i, k \in 1..Len(queue) : queue[i] = queue[k] => i = k

\* What waits in the list is in no worker's hand.
PlaceInv == \A i \in 1..Len(queue), w \in Workers : queue[i] # wjob[w]

\* A job nobody pushed yet is nowhere.
NewInv ==
    \A j \in Jobs : api[j] = "new" =>
        /\ \A i \in 1..Len(queue) : queue[i] # j
        /\ \A w \in Workers : wjob[w] # j
        /\ outcome[j] = "none"

\* A job has no outcome while it waits and until its worker has processed it.
OutcomeInv ==
    /\ \A i \in 1..Len(queue) : outcome[queue[i]] = "none"
    /\ \A w \in Workers : wpc[w] \in Before => outcome[wjob[w]] = "none"
    /\ \A w \in Workers : wpc[w] \in After => outcome[wjob[w]] # "none"

\* What was pushed waits, is in a hand, was lost, or has ended.
Tracked(j) ==
    \/ \E i \in 1..Len(queue) : queue[i] = j
    \/ \E w \in Workers : wjob[w] = j
    \/ j \in lost
    \/ outcome[j] # "none"

TrackedInv ==
    \A j \in Jobs : api[j] \in {"pushed", "stored", "accepted"} => Tracked(j)

IInv ==
    /\ TypeOK /\ HandInv /\ HolderInv /\ ListInv /\ PlaceInv /\ NewInv
    /\ OutcomeInv /\ TrackedInv /\ FinalStatusIsTrue

-----------------------------------------------------------------------------
(* The list                                                                 *)

\* LPUSH puts the job before all others.
LEMMA Pushed ==
    ASSUME NEW q \in Seq(Jobs), NEW j \in Jobs
    PROVE  /\ <<j>> \o q \in Seq(Jobs)
           /\ Len(<<j>> \o q) = Len(q) + 1
           /\ (<<j>> \o q)[1] = j
           /\ \A i \in 1..Len(q) : (<<j>> \o q)[i + 1] = q[i]
           /\ \A i \in 2..(Len(q) + 1) : (<<j>> \o q)[i] = q[i - 1]
  OBVIOUS

\* BRPOP takes the last job and leaves the others where they were.
LEMMA Popped ==
    ASSUME NEW q \in Seq(Jobs), q # <<>>
    PROVE  /\ Len(q) \in Nat \ {0}
           /\ q[Len(q)] \in Jobs
           /\ SubSeq(q, 1, Len(q) - 1) \in Seq(Jobs)
           /\ Len(SubSeq(q, 1, Len(q) - 1)) = Len(q) - 1
           /\ \A i \in 1..(Len(q) - 1) : SubSeq(q, 1, Len(q) - 1)[i] = q[i]
  <1>1. Len(q) \in Nat \ {0} /\ q[Len(q)] \in Jobs
    OBVIOUS
  <1>2. Len(q) - 1 \in Nat /\ Len(q) - 1 \in Int
    BY <1>1
  <1>3. \A i \in 1..(Len(q) - 1) : q[i] \in Jobs
    BY <1>1
  <1>. DEFINE n == Len(q) - 1
  <1>4. n \in Nat /\ \A i \in 1..n : q[i] \in Jobs
    BY <1>2, <1>3
  <1>. HIDE DEF n
  <1>5. /\ SubSeq(q, 1, n) \in Seq(Jobs)
        /\ Len(SubSeq(q, 1, n)) = IF 1 <= n THEN n - 1 + 1 ELSE 0
        /\ \A i \in 1..(n - 1 + 1) : SubSeq(q, 1, n)[i] = q[1 + i - 1]
    BY <1>4, SubSeqProperties
  <1>6. Len(SubSeq(q, 1, n)) = n /\ \A i \in 1..n : SubSeq(q, 1, n)[i] = q[i]
    BY <1>4, <1>5
  <1>. QED
    BY <1>1, <1>5, <1>6 DEF n

-----------------------------------------------------------------------------
(* The invariant, action by action                                          *)

LEMMA IInvInit == Init => IInv
  BY JobQueueAssumption
  DEF Init, IInv, TypeOK, HandInv, HolderInv, ListInv, PlaceInv, NewInv, OutcomeInv,
      TrackedInv, Tracked, FinalStatusIsTrue, Statuses, Before, After

\* A step of the API, or of Redis, that touches neither the list nor a worker: it writes a
\* status that is not final, and a request it moves on was pushed or is given up.
Aside(j) ==
    /\ UNCHANGED <<queue, workers>>
    /\ status' \in {status, [status EXCEPT ![j] = "queued"], [status EXCEPT ![j] = "absent"]}
    /\ ttl' \in [Jobs -> BOOLEAN]
    /\ faults' \in Nat
    /\ \/ api' = api
       \/ api[j] = "pushed" /\ api' = [api EXCEPT ![j] = "stored"]
       \/ api[j] = "stored" /\ api' = [api EXCEPT ![j] = "accepted"]
       \/ api' = [api EXCEPT ![j] = "error"]

LEMMA AsideSteps ==
    ASSUME TypeOK, NEW j \in Jobs,
           StoreQueued(j) \/ Accept(j) \/ CreateFails(j) \/ ExpireKey(j)
    PROVE  Aside(j)
  <1>1. CASE StoreQueued(j)
    BY <1>1 DEF StoreQueued, Aside, TypeOK, HSet, workers
  <1>2. CASE Accept(j)
    BY <1>2 DEF Accept, Aside, TypeOK, Expiring, workers
  <1>3. CASE CreateFails(j)
    <2>1. faults' \in Nat /\ api' = [api EXCEPT ![j] = "error"] /\ UNCHANGED <<queue, workers>>
      BY <1>3 DEF CreateFails, Disturb, TypeOK
    <2>2. status' = status /\ ttl' \in [Jobs -> BOOLEAN]
      BY <1>3 DEF CreateFails, Expiring, TypeOK
    <2>. QED
      BY <2>1, <2>2 DEF Aside
  <1>4. CASE ExpireKey(j)
    BY <1>4 DEF ExpireKey, Aside, TypeOK, workers
  <1>. QED
    BY <1>1, <1>2, <1>3, <1>4

LEMMA IInvAside ==
    ASSUME IInv, NEW j \in Jobs, Aside(j)
    PROVE  IInv'
  <1>. USE DEF IInv, Aside, workers
  <1>1. TypeOK'
    BY DEF TypeOK, Statuses
  <1>2. HandInv'
    BY DEF HandInv
  <1>3. HolderInv'
    BY DEF HolderInv
  <1>4. ListInv'
    BY DEF ListInv
  <1>5. PlaceInv'
    BY DEF PlaceInv
  <1>6. NewInv'
    BY DEF NewInv, TypeOK
  <1>7. OutcomeInv'
    BY DEF OutcomeInv
  <1>8. TrackedInv'
    BY DEF TrackedInv, Tracked, TypeOK
  <1>9. FinalStatusIsTrue'
    BY DEF FinalStatusIsTrue, TypeOK
  <1>. QED
    BY <1>1, <1>2, <1>3, <1>4, <1>5, <1>6, <1>7, <1>8, <1>9

\* A job is pushed once, so the list holds it once.
LEMMA IInvPush ==
    ASSUME IInv, NEW j \in Jobs, Push(j)
    PROVE  IInv'
  <1>. USE DEF IInv, Push, workers
  <1>a. /\ queue' \in Seq(Jobs) /\ Len(queue') = Len(queue) + 1 /\ Len(queue) \in Nat
        /\ queue'[1] = j
        /\ \A i \in 1..Len(queue) : queue'[i + 1] = queue[i]
        /\ \A i \in 2..(Len(queue) + 1) : queue'[i] = queue[i - 1]
    BY Pushed DEF TypeOK
  <1>1. TypeOK'
    BY <1>a DEF TypeOK, Statuses
  <1>2. HandInv'
    BY DEF HandInv
  <1>3. HolderInv'
    BY DEF HolderInv
  <1>4. ListInv'
    <2>. SUFFICES ASSUME NEW i \in 1..Len(queue'), NEW k \in 1..Len(queue'), queue'[i] = queue'[k]
                  PROVE  i = k
      BY DEF ListInv
    <2>1. \A m \in 2..(Len(queue) + 1) : m - 1 \in 1..Len(queue) /\ queue'[m] # j
      BY <1>a DEF NewInv
    <2>2. i = 1 \/ i \in 2..(Len(queue) + 1)
      BY <1>a
    <2>3. k = 1 \/ k \in 2..(Len(queue) + 1)
      BY <1>a
    <2>4. CASE i = 1 /\ k # 1
      BY <2>1, <2>3, <2>4, <1>a
    <2>5. CASE i # 1 /\ k = 1
      BY <2>1, <2>2, <2>5, <1>a
    <2>6. CASE i # 1 /\ k # 1
      <3>1. queue[i - 1] = queue[k - 1] /\ i - 1 \in 1..Len(queue) /\ k - 1 \in 1..Len(queue)
        BY <2>1, <2>2, <2>3, <2>6, <1>a
      <3>2. i - 1 = k - 1
        BY <3>1 DEF ListInv
      <3>. QED
        BY <3>2
    <2>7. CASE i = 1 /\ k = 1
      BY <2>7
    <2>. QED
      BY <2>4, <2>5, <2>6, <2>7
  <1>5. PlaceInv'
    <2>. SUFFICES ASSUME NEW i \in 1..Len(queue'), NEW w \in Workers
                  PROVE  queue'[i] # wjob[w]
      BY DEF PlaceInv
    <2>1. CASE i = 1
      BY <2>1, <1>a DEF NewInv
    <2>2. CASE i # 1
      <3>1. i \in 2..(Len(queue) + 1) /\ i - 1 \in 1..Len(queue)
        BY <2>2, <1>a
      <3>. QED
        BY <3>1, <1>a DEF PlaceInv
    <2>. QED
      BY <2>1, <2>2
  <1>6. NewInv'
    <2>. SUFFICES ASSUME NEW k \in Jobs, api'[k] = "new"
                  PROVE  /\ \A i \in 1..Len(queue') : queue'[i] # k
                         /\ \A w \in Workers : wjob'[w] # k
                         /\ outcome'[k] = "none"
      BY DEF NewInv
    <2>1. k # j /\ api[k] = "new"
      BY DEF TypeOK
    <2>. QED
      BY <2>1, <1>a DEF NewInv
  <1>7. OutcomeInv'
    <2>1. outcome[j] = "none"
      BY DEF NewInv
    <2>2. \A i \in 1..Len(queue') : outcome'[queue'[i]] = "none"
      BY <2>1, <1>a DEF OutcomeInv
    <2>. QED
      BY <2>2 DEF OutcomeInv
  <1>8. TrackedInv'
    <2>. SUFFICES ASSUME NEW k \in Jobs, api'[k] \in {"pushed", "stored", "accepted"}
                  PROVE  Tracked(k)'
      BY DEF TrackedInv
    <2>1. CASE k = j
      BY <2>1, <1>a DEF Tracked
    <2>2. CASE k # j
      <3>1. Tracked(k)
        BY <2>2 DEF TrackedInv, TypeOK
      <3>2. (\E i \in 1..Len(queue) : queue[i] = k) => \E i \in 1..Len(queue') : queue'[i] = k
        <4>. SUFFICES ASSUME NEW i \in 1..Len(queue), queue[i] = k
                      PROVE  \E m \in 1..Len(queue') : queue'[m] = k
          OBVIOUS
        <4>1. i + 1 \in 1..Len(queue') /\ queue'[i + 1] = k
          BY <1>a
        <4>. QED
          BY <4>1
      <3>. QED
        BY <3>1, <3>2 DEF Tracked
    <2>. QED
      BY <2>1, <2>2
  <1>9. FinalStatusIsTrue'
    BY DEF FinalStatusIsTrue
  <1>. QED
    BY <1>1, <1>2, <1>3, <1>4, <1>5, <1>6, <1>7, <1>8, <1>9

\* BRPOP: the last job leaves the list.
Popping ==
    /\ queue # <<>>
    /\ queue' = SubSeq(queue, 1, Len(queue) - 1)

LEMMA PoppedQueue ==
    ASSUME IInv, Popping
    PROVE  /\ Len(queue) \in Nat \ {0}
           /\ queue[Len(queue)] \in Jobs
           /\ Len(queue) \in 1..Len(queue)
           /\ queue' \in Seq(Jobs)
           /\ Len(queue') = Len(queue) - 1
           /\ \A i \in 1..Len(queue') : /\ i \in 1..Len(queue) /\ queue'[i] = queue[i]
                                        /\ queue'[i] # queue[Len(queue)]
           /\ \A i \in 1..Len(queue) : i # Len(queue) => i \in 1..Len(queue')
  <1>1. /\ Len(queue) \in Nat \ {0}
        /\ queue[Len(queue)] \in Jobs
        /\ queue' \in Seq(Jobs)
        /\ Len(queue') = Len(queue) - 1
        /\ \A i \in 1..(Len(queue) - 1) : queue'[i] = queue[i]
    BY Popped DEF IInv, TypeOK, Popping
  <1>2. Len(queue) \in 1..Len(queue)
    BY <1>1
  <1>3. ASSUME NEW i \in 1..Len(queue')
        PROVE  i \in 1..Len(queue) /\ queue'[i] = queue[i] /\ i # Len(queue)
    BY <1>1
  <1>4. \A i \in 1..Len(queue') : queue'[i] # queue[Len(queue)]
    BY <1>2, <1>3 DEF IInv, ListInv
  <1>5. \A i \in 1..Len(queue) : i # Len(queue) => i \in 1..Len(queue')
    BY <1>1
  <1>. QED
    BY <1>1, <1>2, <1>3, <1>4, <1>5

\* The job that left the list is in one hand, and nowhere else.
LEMMA IInvDequeue ==
    ASSUME IInv, NEW w \in Workers, Dequeue(w)
    PROVE  IInv'
  <1>. USE DEF IInv, Dequeue
  <1>. DEFINE j == queue[Len(queue)]
  <1>a. /\ Len(queue) \in 1..Len(queue) /\ j \in Jobs /\ queue' \in Seq(Jobs)
        /\ \A i \in 1..Len(queue') : i \in 1..Len(queue) /\ queue'[i] = queue[i] /\ queue'[i] # j
        /\ \A i \in 1..Len(queue) : i # Len(queue) => i \in 1..Len(queue')
    BY PoppedQueue DEF Popping
  <1>b. j # None /\ wjob' = [wjob EXCEPT ![w] = j]
    BY <1>a, JobQueueAssumption
  <1>. HIDE DEF j
  <1>1. TypeOK'
    BY <1>a, <1>b DEF TypeOK
  <1>2. HandInv'
    BY <1>a, <1>b DEF HandInv, TypeOK, Before, After
  <1>3. HolderInv'
    <2>1. \A v \in Workers : wjob[v] # j
      BY <1>a DEF PlaceInv, j
    <2>. QED
      BY <2>1, <1>a, <1>b DEF HolderInv, TypeOK
  <1>4. ListInv'
    BY <1>a DEF ListInv
  <1>5. PlaceInv'
    BY <1>a, <1>b DEF PlaceInv, TypeOK
  <1>6. NewInv'
    <2>1. api[j] # "new"
      BY <1>a DEF NewInv, j
    <2>. QED
      BY <2>1, <1>a, <1>b DEF NewInv, TypeOK
  <1>7. OutcomeInv'
    <2>1. outcome[j] = "none"
      BY <1>a DEF OutcomeInv, j
    <2>. QED
      BY <2>1, <1>a, <1>b DEF OutcomeInv, TypeOK, Before, After
  <1>8. TrackedInv'
    <2>. SUFFICES ASSUME NEW k \in Jobs, api[k] \in {"pushed", "stored", "accepted"}
                  PROVE  Tracked(k)'
      BY DEF TrackedInv
    <2>1. Tracked(k)
      BY DEF TrackedInv
    <2>2. k = j => \E v \in Workers : wjob'[v] = k
      BY <1>b DEF TypeOK
    <2>3. ASSUME NEW i \in 1..Len(queue), queue[i] = k, k # j
          PROVE  \E m \in 1..Len(queue') : queue'[m] = k
      BY <2>3, <1>a DEF j
    <2>4. ASSUME NEW v \in Workers, wjob[v] = k
          PROVE  wjob'[v] = k
      <3>1. v # w
        BY <2>4, JobQueueAssumption DEF HandInv, Before, After
      <3>. QED
        BY <3>1, <2>4, <1>b DEF TypeOK
    <2>. QED
      BY <2>1, <2>2, <2>3, <2>4 DEF Tracked
  <1>9. FinalStatusIsTrue'
    BY DEF FinalStatusIsTrue
  <1>. QED
    BY <1>1, <1>2, <1>3, <1>4, <1>5, <1>6, <1>7, <1>8, <1>9

\* The job that left the list was lost on the way.
LEMMA IInvAnswerLost ==
    ASSUME IInv, NEW w \in Workers, DequeueAnswerLost(w)
    PROVE  IInv'
  <1>. USE DEF IInv, DequeueAnswerLost
  <1>. DEFINE j == queue[Len(queue)]
  <1>a. /\ Len(queue) \in 1..Len(queue) /\ j \in Jobs /\ queue' \in Seq(Jobs)
        /\ \A i \in 1..Len(queue') : i \in 1..Len(queue) /\ queue'[i] = queue[i] /\ queue'[i] # j
        /\ \A i \in 1..Len(queue) : i # Len(queue) => i \in 1..Len(queue')
    BY PoppedQueue DEF Popping
  <1>b. lost' = lost \cup {j} /\ faults' = faults + 1
    BY DEF Disturb
  <1>. HIDE DEF j
  <1>1. TypeOK'
    BY <1>a, <1>b DEF TypeOK
  <1>2. HandInv'
    BY DEF HandInv, TypeOK, Before, After
  <1>3. HolderInv'
    BY DEF HolderInv
  <1>4. ListInv'
    BY <1>a DEF ListInv
  <1>5. PlaceInv'
    BY <1>a DEF PlaceInv
  <1>6. NewInv'
    BY <1>a DEF NewInv
  <1>7. OutcomeInv'
    BY <1>a DEF OutcomeInv, TypeOK, Before, After
  <1>8. TrackedInv'
    <2>. SUFFICES ASSUME NEW k \in Jobs, api[k] \in {"pushed", "stored", "accepted"}
                  PROVE  Tracked(k)'
      BY DEF TrackedInv
    <2>1. Tracked(k)
      BY DEF TrackedInv
    <2>2. ASSUME NEW i \in 1..Len(queue), queue[i] = k, k # j
          PROVE  \E m \in 1..Len(queue') : queue'[m] = k
      BY <2>2, <1>a DEF j
    <2>. QED
      BY <2>1, <2>2, <1>b DEF Tracked
  <1>9. FinalStatusIsTrue'
    BY DEF FinalStatusIsTrue
  <1>. QED
    BY <1>1, <1>2, <1>3, <1>4, <1>5, <1>6, <1>7, <1>8, <1>9

\* A worker writes a status of the job in its hand, or its expiry, and goes on with it.  Only
\* what is done after _process may be a final status, and then it is the outcome.
Onward(w) ==
    /\ \/ wpc[w] \in Before /\ wpc'[w] \in Before
       \/ wpc[w] \in After /\ wpc'[w] \in After
    /\ \E next \in Before \cup After : wpc' = [wpc EXCEPT ![w] = next]
    /\ \/ status' = status
       \/ status' = [status EXCEPT ![wjob[w]] = "running"]
       \/ wpc[w] = "processed" /\ status' = [status EXCEPT ![wjob[w]] = outcome[wjob[w]]]
    /\ ttl' \in [Jobs -> BOOLEAN]
    /\ UNCHANGED <<queue, api, wjob, outcome, lost, faults>>

LEMMA OnwardSteps ==
    ASSUME IInv, NEW w \in Workers, MarkRunning(w) \/ StartProcess(w) \/ RecordOutcome(w)
    PROVE  Onward(w)
  <1>. USE DEF IInv
  <1>1. CASE MarkRunning(w)
    <2>1. /\ wpc[w] \in Before /\ wpc'[w] \in Before
          /\ \E next \in Before \cup After : wpc' = [wpc EXCEPT ![w] = next]
      BY <1>1 DEF MarkRunning, TypeOK, Before, After
    <2>. QED
      BY <2>1, <1>1 DEF MarkRunning, Onward, TypeOK, HSet
  <1>2. CASE StartProcess(w)
    <2>1. /\ wpc[w] \in Before /\ wpc'[w] \in Before
          /\ \E next \in Before \cup After : wpc' = [wpc EXCEPT ![w] = next]
      BY <1>2 DEF StartProcess, TypeOK, Before, After
    <2>2. ttl' \in [Jobs -> BOOLEAN] /\ status' = status
      BY <1>2 DEF StartProcess, Expiring, TypeOK
    <2>. QED
      BY <2>1, <2>2, <1>2 DEF StartProcess, Onward
  <1>3. CASE RecordOutcome(w)
    BY <1>3 DEF RecordOutcome, Onward, TypeOK, HSet, Before, After
  <1>. QED
    BY <1>1, <1>2, <1>3

LEMMA IInvOnward ==
    ASSUME IInv, NEW w \in Workers, Onward(w)
    PROVE  IInv'
  <1>. USE DEF IInv, Onward
  <1>a. wjob[w] \in Jobs
    BY DEF HandInv, TypeOK
  <1>b. wpc[w] = "processed" => outcome[wjob[w]] \in {"complete", "failed"}
    BY <1>a DEF OutcomeInv, TypeOK, After
  <1>1. TypeOK'
    BY <1>a, <1>b DEF TypeOK, Statuses, Before, After
  <1>2. HandInv'
    BY DEF HandInv, TypeOK
  <1>3. HolderInv'
    BY DEF HolderInv
  <1>4. ListInv'
    BY DEF ListInv
  <1>5. PlaceInv'
    BY DEF PlaceInv
  <1>6. NewInv'
    BY DEF NewInv
  <1>7. OutcomeInv'
    BY DEF OutcomeInv, TypeOK, Before, After
  <1>8. TrackedInv'
    BY DEF TrackedInv, Tracked
  <1>9. FinalStatusIsTrue'
    BY <1>a, <1>b DEF FinalStatusIsTrue, TypeOK
  <1>. QED
    BY <1>1, <1>2, <1>3, <1>4, <1>5, <1>6, <1>7, <1>8, <1>9

\* Only the holder of a job sets its outcome, once, and before any final status.
LEMMA IInvProcess ==
    ASSUME IInv, NEW w \in Workers, Process(w)
    PROVE  IInv'
  <1>. USE DEF IInv, Process
  <1>a. wjob[w] \in Jobs /\ outcome[wjob[w]] = "none"
    BY DEF HandInv, OutcomeInv, TypeOK, Before
  <1>b. PICK o \in {"complete", "failed"} : outcome' = [outcome EXCEPT ![wjob[w]] = o]
    OBVIOUS
  <1>c. \A v \in Workers : v # w => wjob[v] # wjob[w]
    BY <1>a, JobQueueAssumption DEF HolderInv
  <1>1. TypeOK'
    BY <1>b DEF TypeOK, redis
  <1>2. HandInv'
    BY DEF HandInv, TypeOK, Before, After
  <1>3. HolderInv'
    BY DEF HolderInv
  <1>4. ListInv'
    BY DEF ListInv, redis
  <1>5. PlaceInv'
    BY DEF PlaceInv, redis
  <1>6. NewInv'
    <2>1. api[wjob[w]] # "new"
      BY <1>a DEF NewInv
    <2>. QED
      BY <2>1, <1>a, <1>b DEF NewInv, TypeOK, redis
  <1>7. OutcomeInv'
    <2>1. \A i \in 1..Len(queue) : queue[i] # wjob[w] /\ queue[i] \in Jobs
      BY DEF PlaceInv, TypeOK
    <2>2. \A i \in 1..Len(queue') : outcome'[queue'[i]] = "none"
      BY <2>1, <1>b DEF OutcomeInv, TypeOK, redis
    <2>3. outcome'[wjob[w]] # "none"
      BY <1>a, <1>b DEF TypeOK
    <2>4. \A v \in Workers : wjob[v] # wjob[w] /\ wpc[v] \in Before \cup After
                             => outcome'[wjob[v]] = outcome[wjob[v]]
      BY <1>b DEF TypeOK, HandInv
    <2>. QED
      BY <2>2, <2>3, <2>4, <1>c DEF OutcomeInv, TypeOK, Before, After
  <1>8. TrackedInv'
    BY <1>a, <1>b DEF TrackedInv, Tracked, TypeOK, redis
  <1>9. FinalStatusIsTrue'
    BY <1>a, <1>b DEF FinalStatusIsTrue, TypeOK, redis
  <1>. QED
    BY <1>1, <1>2, <1>3, <1>4, <1>5, <1>6, <1>7, <1>8, <1>9

\* The job leaves the hand with its outcome known.
LEMMA IInvFinish ==
    ASSUME IInv, NEW w \in Workers, Finish(w)
    PROVE  IInv'
  <1>. USE DEF IInv, Finish
  <1>a. wjob[w] \in Jobs /\ outcome[wjob[w]] # "none"
    BY DEF HandInv, OutcomeInv, TypeOK, After
  <1>1. TypeOK'
    BY <1>a DEF TypeOK, Expiring
  <1>2. HandInv'
    BY DEF HandInv, TypeOK, Before, After
  <1>3. HolderInv'
    BY DEF HolderInv, TypeOK
  <1>4. ListInv'
    BY DEF ListInv
  <1>5. PlaceInv'
    BY JobQueueAssumption DEF PlaceInv, TypeOK
  <1>6. NewInv'
    BY JobQueueAssumption DEF NewInv, TypeOK
  <1>7. OutcomeInv'
    BY DEF OutcomeInv, TypeOK, Before, After
  <1>8. TrackedInv'
    BY <1>a DEF TrackedInv, Tracked, TypeOK
  <1>9. FinalStatusIsTrue'
    BY DEF FinalStatusIsTrue, Expiring
  <1>. QED
    BY <1>1, <1>2, <1>3, <1>4, <1>5, <1>6, <1>7, <1>8, <1>9

\* The job leaves the hand and is lost.
LEMMA IInvDies ==
    ASSUME IInv, NEW w \in Workers, WorkerDies(w)
    PROVE  IInv'
  <1>. USE DEF IInv, WorkerDies
  <1>1. TypeOK'
    BY DEF TypeOK, redis, Disturb
  <1>2. HandInv'
    BY DEF HandInv, TypeOK, Before, After
  <1>3. HolderInv'
    BY DEF HolderInv, TypeOK
  <1>4. ListInv'
    BY DEF ListInv, redis
  <1>5. PlaceInv'
    BY JobQueueAssumption DEF PlaceInv, TypeOK, redis
  <1>6. NewInv'
    BY JobQueueAssumption DEF NewInv, TypeOK, redis
  <1>7. OutcomeInv'
    BY DEF OutcomeInv, TypeOK, Before, After, redis
  <1>8. TrackedInv'
    BY JobQueueAssumption DEF TrackedInv, Tracked, TypeOK, redis
  <1>9. FinalStatusIsTrue'
    BY DEF FinalStatusIsTrue, redis
  <1>. QED
    BY <1>1, <1>2, <1>3, <1>4, <1>5, <1>6, <1>7, <1>8, <1>9

LEMMA IInvStarts ==
    ASSUME IInv, NEW w \in Workers, WorkerStarts(w)
    PROVE  IInv'
  <1>. USE DEF IInv, WorkerStarts
  <1>1. TypeOK'
    BY DEF TypeOK, redis
  <1>2. HandInv'
    BY DEF HandInv, TypeOK, Before, After
  <1>3. HolderInv'
    BY DEF HolderInv
  <1>4. ListInv'
    BY DEF ListInv, redis
  <1>5. PlaceInv'
    BY DEF PlaceInv, redis
  <1>6. NewInv'
    BY DEF NewInv, redis
  <1>7. OutcomeInv'
    BY DEF OutcomeInv, TypeOK, Before, After, redis
  <1>8. TrackedInv'
    BY DEF TrackedInv, Tracked, redis
  <1>9. FinalStatusIsTrue'
    BY DEF FinalStatusIsTrue, redis
  <1>. QED
    BY <1>1, <1>2, <1>3, <1>4, <1>5, <1>6, <1>7, <1>8, <1>9

LEMMA IInvNext == IInv /\ [Next]_vars => IInv'
  <1>. SUFFICES ASSUME IInv, [Next]_vars PROVE IInv'
    OBVIOUS
  <1>1. CASE UNCHANGED vars
    BY <1>1 DEF vars, IInv, TypeOK, HandInv, HolderInv, ListInv, PlaceInv, NewInv,
                OutcomeInv, TrackedInv, Tracked, FinalStatusIsTrue
  <1>2. ASSUME NEW j \in Jobs, Push(j) PROVE IInv'
    BY <1>2, IInvPush
  <1>3. ASSUME NEW j \in Jobs, StoreQueued(j) \/ Accept(j) \/ CreateFails(j) \/ ExpireKey(j)
        PROVE  IInv'
    BY <1>3, AsideSteps, IInvAside DEF IInv
  <1>4. ASSUME NEW w \in Workers, Dequeue(w) PROVE IInv'
    BY <1>4, IInvDequeue
  <1>5. ASSUME NEW w \in Workers, DequeueAnswerLost(w) PROVE IInv'
    BY <1>5, IInvAnswerLost
  <1>6. ASSUME NEW w \in Workers, MarkRunning(w) \/ StartProcess(w) \/ RecordOutcome(w)
        PROVE  IInv'
    BY <1>6, OnwardSteps, IInvOnward
  <1>7. ASSUME NEW w \in Workers, Process(w) PROVE IInv'
    BY <1>7, IInvProcess
  <1>8. ASSUME NEW w \in Workers, Finish(w) PROVE IInv'
    BY <1>8, IInvFinish
  <1>9. ASSUME NEW w \in Workers, WorkerDies(w) \/ WorkerStarts(w) PROVE IInv'
    BY <1>9, IInvDies, IInvStarts
  <1>. QED
    BY <1>1, <1>2, <1>3, <1>4, <1>5, <1>6, <1>7, <1>8, <1>9 DEF Next

-----------------------------------------------------------------------------
\* The invariant of the job queue.
THEOREM QueueInvariant == Spec => []IInv
  BY IInvInit, IInvNext, PTL DEF Spec

\* The state keeps its types: a worker never reports a status the readers do not know.
THEOREM QueueTypeCorrect == Spec => []TypeOK
  <1>1. IInv => TypeOK
    BY DEF IInv
  <1>. QED
    BY <1>1, QueueInvariant, PTL

\* A job whose request was answered 202 waits, is being run, has ended or was lost by a
\* failure, whatever workers and requests do meanwhile.
THEOREM AcceptedStaysTracked == Spec => []AcceptedIsTracked
  <1>1. IInv => AcceptedIsTracked
    <2>. SUFFICES ASSUME IInv, NEW j \in Jobs, api[j] = "accepted"
                  PROVE  j \in InQueue \cup InHand \cup lost \/ outcome[j] # "none"
      BY DEF AcceptedIsTracked
    <2>1. Tracked(j)
      BY DEF IInv, TrackedInv
    <2>2. DOMAIN queue = 1..Len(queue)
      BY DEF IInv, TypeOK
    <2>3. j # None
      BY JobQueueAssumption
    <2>. QED
      BY <2>1, <2>2, <2>3 DEF Tracked, InQueue, InHand
  <1>. QED
    BY <1>1, QueueInvariant, PTL

\* What set_status reported as complete or failed is how _process ended, though the API, an
\* expiry and other workers write the same hashes.
THEOREM FinalStatusAlwaysTrue == Spec => []FinalStatusIsTrue
  <1>1. IInv => FinalStatusIsTrue
    BY DEF IInv
  <1>. QED
    BY <1>1, QueueInvariant, PTL

=============================================================================
