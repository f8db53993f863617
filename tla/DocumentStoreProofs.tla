------------------------- MODULE DocumentStoreProofs -------------------------
(***************************************************************************)
(* Theorems about DocumentStore, for any number of requests, documents and *)
(* disturbances: the store's four promises.                                *)
(***************************************************************************)
EXTENDS DocumentStore, FiniteSetTheorems, WellFoundedInduction, TLAPS

-----------------------------------------------------------------------------
(* The inductive invariant.                                                 *)

Handling == {"lookup", "extract", "insert", "put", "publish"}
Ended == {"returned", "commit", "done"}

\* A request is where its kind can be, and an upload has the event loop from the last byte of
\* its body to its return.
PlaceOf(r) ==
    /\ pc[r] \in {"streaming", "put", "publish"} => kind[r] = "upload"
    /\ pc[r] \in {"lookup", "extract", "insert"} => kind[r] \in {"upload", "ingest"}
    /\ pc[r] \in {"remove_artifact", "remove_file", "purge", "delete_row"} =>
          kind[r] \in {"delete", "clear"}
    /\ pc[r] = "clear_root" => kind[r] = "clear"
    /\ pc[r] \in {"embed", "retrieve", "link"} => kind[r] = "ask"
    /\ loop = r <=> kind[r] = "upload" /\ pc[r] \in Handling

PlaceInv ==
    /\ kind \in [Requests -> {"upload", "ingest", "delete", "clear", "ask"}]
    /\ content \in [Docs -> Contents]
    /\ \A r \in Requests : PlaceOf(r)

\* What a request has changed and not committed, by its kind and place.
WriteOf(r) ==
    /\ pc[r] \in {"new", "streaming", "lookup", "extract", "insert", "done"} =>
          writes[r] = NoWrites
    /\ writes[r].insert \subseteq {r}
    /\ writes[r].insert # {} => kind[r] \in {"upload", "ingest"}
    /\ writes[r].delete # {} \/ writes[r].purge # {} => r \in Deletions
    /\ writes[r].embed # {} => kind[r] = "ask"
    /\ pc[r] \in {"put", "publish"} => writes[r].insert = {r}
    /\ r \in Deletions => writes[r].delete \cup todo[r] \subseteq seen[r]
    /\ pc[r] = "clear_root" => writes[r].delete = seen[r]

WriteInv == \A r \in Requests : WriteOf(r)

\* What a request answers, by what it did.
ReplyOf(r) ==
    /\ pc[r] \in Ended <=> reply[r] # "none"
    /\ pc[r] = "new" => seen[r] = {} /\ before[r] = {}
    /\ reply[r] \in {"created", "existing"} => kind[r] \in {"upload", "ingest"}
    /\ reply[r] = "created" => seen[r] = {r}
    /\ reply[r] = "deleted" => r \in Deletions
    /\ reply[r] = "answered" => kind[r] = "ask"
    /\ pc[r] \in {"put", "publish"} => seen[r] = {r}
    /\ writes[r].insert # {} => reply[r] \in {"none", "created", "raised"}
    /\ pc[r] \in {"returned", "commit"} =>
          /\ reply[r] = "created" => writes[r].insert = {r}
          /\ reply[r] = "deleted" => writes[r].delete = seen[r]

ReplyInv == \A r \in Requests : ReplyOf(r)

\* What is stored, or was when someone read it, is of a request that has ended.
SettledDocument(d) == d = Old \/ pc[d] = "done"
SettledRun(a) == a \in Requests /\ kind[a] = "ask" /\ pc[a] = "done"

HistoryInv ==
    /\ \A d \in docs : SettledDocument(d)
    /\ \A r \in Deletions : \A d \in seen[r] : SettledDocument(d)
    /\ \A a \in runs : SettledRun(a)
    /\ \A r \in Requests : \A a \in before[r] : SettledRun(a)

\* Who inserts a content is the only one to have it.
InsertInv ==
    \A r \in Requests : writes[r].insert # {} =>
        /\ \A e \in docs : content[e] # content[r]
        /\ \A s \in Requests \ {r} : writes[s].insert # {} => content[s] # content[r]

\* Who embeds a document keeps others from deleting it.
EmbedInv ==
    \A r \in Requests :
        /\ writes[r].embed \subseteq docs
        /\ \A s \in Requests : writes[r].embed \cap writes[s].delete = {}

\* A document that was stored and can only have been deleted since.
Was(d) == d \in docs \/ \E s \in Deletions : d \in seen[s]

AnswerInv ==
    /\ \A r \in Requests :
        /\ reply[r] = "existing" => seen[r] # {} /\ \A d \in seen[r] : Was(d)
        /\ pc[r] = "done" /\ reply[r] = "created" => Was(r)
        /\ pc[r] = "done" /\ reply[r] = "deleted" => seen[r] \cap docs = {}
    /\ \A e \in events : e \in Requests /\ kind[e] = "upload" /\ reply[e] \in {"created", "raised"}

\* A deletion has marked the runs it found at its beginning that used what it has deleted.
PurgeInv ==
    \A r \in Deletions : \A a \in before[r] \cap runs : \A d \in seen[a] :
        d \in writes[r].delete \/ (pc[r] = "delete_row" /\ d \in todo[r]) => a \in writes[r].purge

\* The file, and the artifact, of a document, or who removed it.
FileKept(d) ==
    d \in files \/ \E r \in Deletions : d \in seen[r] \/ (kind[r] = "clear" /\ pc[r] # "new")
ArtifactKept(d) ==
    content[d] \in artifacts \/ \E r \in Deletions : \E e \in seen[r] : content[e] = content[d]

SourceInv ==
    \A r \in Requests :
        (pc[r] = "publish" \/ (kind[r] = "upload" /\ reply[r] = "created" /\ pc[r] # "done")) =>
            FileKept(r) /\ ArtifactKept(r)

\* Files are of uploads; a deletion removes the file first, a refusal removes it too.
FileInv ==
    /\ \A f \in files : Managed(f) /\ (f \in docs \/ Excused(f))
    /\ \A r \in Deletions :
        /\ writes[r].delete \cap files = {}
        /\ pc[r] \in {"purge", "delete_row"} => todo[r] \cap files = {}
    /\ \A r \in Requests : kind[r] = "upload" /\ reply[r] \in {"existing", "rejected"} =>
          r \notin files

\* An artifact has an owner: a stored upload, or one that has inserted its document or raised.
Owner(d) ==
    \/ d \in docs /\ Managed(d)
    \/ d \in Requests /\ kind[d] = "upload" /\ (writes[d].insert # {} \/ reply[d] = "raised")

\* Of what is deleted and still stored the artifact is gone.
ArtifactInv ==
    /\ \A c \in artifacts : \E d \in Docs : content[d] = c /\ Owner(d)
    /\ \A r \in Deletions : \A d \in (writes[r].delete \cup todo[r]) \cap docs :
          Managed(d) => content[d] \notin artifacts

\* The parts, and the two promises that are inductive beside them.
IInv ==
    /\ TypeOK /\ PlaceInv /\ WriteInv /\ ReplyInv /\ HistoryInv /\ InsertInv /\ EmbedInv
    /\ AnswerInv /\ PurgeInv /\ SourceInv /\ FileInv /\ ArtifactInv
    /\ StoredSourceIsComplete /\ PurgedHistoryIsGone
-----------------------------------------------------------------------------
(* What a step of one request changes.                                      *)

Moves(r) == Step(r) \/ RequestRaises(r) \/ CommitFails(r)

\* Nothing that another request has is changed.
LEMMA OthersStay ==
    ASSUME TypeOK, NEW r \in Requests, Moves(r), NEW s \in Requests, s # r
    PROVE  /\ pc'[s] = pc[s] /\ writes'[s] = writes[s] /\ seen'[s] = seen[s]
           /\ todo'[s] = todo[s] /\ reply'[s] = reply[s] /\ before'[s] = before[s]
<1> USE DEF TypeOK, Goto, Return, StatementFails, Discarded
<1>1. CASE StartStream(r) \/ StreamRejected(r) \/ StreamEnds(r) \/ StartIngest(r)
  BY <1>1 DEF StartStream, StreamRejected, StreamEnds, StartIngest
<1>2. CASE LookupHash(r) \/ IngestRejected(r) \/ Extract(r)
  BY <1>2 DEF LookupHash, IngestRejected, Extract
<1>3. CASE Insert(r) \/ PutArtifact(r) \/ Publish(r)
  BY <1>3 DEF Insert, PutArtifact, Publish
<1>4. CASE FindDocument(r) \/ ListDocuments(r) \/ RemoveArtifact(r) \/ RemoveFile(r)
  BY <1>4 DEF FindDocument, ListDocuments, RemoveArtifact, RemoveFile
<1>5. CASE Purge(r) \/ DeleteRow(r) \/ ClearRoot(r)
  BY <1>5 DEF Purge, DeleteRow, ClearRoot
<1>6. CASE StartAsk(r) \/ Embed(r) \/ Retrieve(r) \/ Link(r)
  BY <1>6 DEF StartAsk, Embed, Retrieve, Link
<1>7. CASE Dispatch(r) \/ EndSession(r) \/ DeadlockDetected(r) \/ RequestRaises(r) \/ CommitFails(r)
  BY <1>7 DEF Dispatch, EndSession, DeadlockDetected, RequestRaises, CommitFails
<1>8. QED
  BY <1>1, <1>2, <1>3, <1>4, <1>5, <1>6, <1>7 DEF Moves, Step

LEMMA GivenStays == ASSUME Next PROVE kind' = kind /\ content' = content
BY DEF Next, Step, RequestRaises, CommitFails, Crash, given,
       StartStream, StreamRejected, StreamEnds, StartIngest, LookupHash, IngestRejected, Extract,
       Insert, PutArtifact, Publish, FindDocument, ListDocuments, RemoveArtifact, RemoveFile,
       Purge, DeleteRow, ClearRoot, StartAsk, Embed, Retrieve, Link, Dispatch, EndSession,
       DeadlockDetected

\* Only the end of a session changes what is committed.
LEMMA OnlyCommits ==
    ASSUME NEW r \in Requests, Moves(r), ~EndSession(r)
    PROVE  docs' = docs /\ embedded' = embedded /\ runs' = runs
BY DEF Moves, Step, RequestRaises, CommitFails, database,
       StartStream, StreamRejected, StreamEnds, StartIngest, LookupHash, IngestRejected, Extract,
       Insert, PutArtifact, Publish, FindDocument, ListDocuments, RemoveArtifact, RemoveFile,
       Purge, DeleteRow, ClearRoot, StartAsk, Embed, Retrieve, Link, Dispatch, DeadlockDetected

\* Who is in a circle of waiting transactions waits.
LEMMA DeadlockedWait ==
    ASSUME NEW r \in Requests, DeadlockDetected(r)
    PROVE  pc[r] \in {"insert", "delete_row", "embed", "link"}
<1>1. Blockers(r) # {}
  BY DEF DeadlockDetected, InDeadlock
<1>2. QED
  BY <1>1 DEF Blockers

LEMMA Goes ==
    ASSUME TypeOK, NEW r \in Requests, NEW place, Goto(r, place)
    PROVE  pc'[r] = place
BY DEF TypeOK, Goto

LEMMA Returns ==
    ASSUME TypeOK, NEW r \in Requests, NEW answer, Return(r, answer)
    PROVE  pc'[r] = "returned" /\ reply'[r] = answer /\ loop' = (IF loop = r THEN None ELSE loop)
BY DEF TypeOK, Goto, Return

-----------------------------------------------------------------------------
(* Places, writes and answers.                                              *)

\* The event loop is taken or left by the request that moves.
LEMMA LoopOfOthersStays ==
    ASSUME TypeOK, PlaceInv, NEW r \in Requests, Moves(r)
    PROVE  loop' = loop \/ (loop = None /\ loop' = r) \/ (loop = r /\ loop' = None)
<1> USE Returns
<1>1. CASE StartStream(r) \/ StreamRejected(r) \/ StreamEnds(r) \/ StartIngest(r)
  BY <1>1 DEF StartStream, StreamRejected, StreamEnds, StartIngest
<1>2. CASE LookupHash(r) \/ IngestRejected(r) \/ Extract(r) \/ Insert(r)
  BY <1>2 DEF LookupHash, IngestRejected, Extract, Insert, StatementFails
<1>3. CASE PutArtifact(r) \/ Publish(r) \/ FindDocument(r) \/ ListDocuments(r)
  BY <1>3 DEF PutArtifact, Publish, FindDocument, ListDocuments
<1>4. CASE RemoveArtifact(r) \/ RemoveFile(r) \/ Purge(r) \/ DeleteRow(r)
  BY <1>4 DEF RemoveArtifact, RemoveFile, Purge, DeleteRow
<1>5. CASE ClearRoot(r) \/ StartAsk(r) \/ Embed(r) \/ Retrieve(r)
  BY <1>5 DEF ClearRoot, StartAsk, Embed, Retrieve, StatementFails
<1>6. CASE Link(r) \/ Dispatch(r) \/ EndSession(r) \/ DeadlockDetected(r)
  BY <1>6 DEF Link, Dispatch, EndSession, DeadlockDetected, StatementFails
<1>7. CASE RequestRaises(r) \/ CommitFails(r)
  BY <1>7 DEF RequestRaises, CommitFails
<1>8. QED
  BY <1>1, <1>2, <1>3, <1>4, <1>5, <1>6, <1>7 DEF Moves, Step

LEMMA PlacesKept ==
    ASSUME TypeOK, PlaceInv, NEW r \in Requests, Moves(r)
    PROVE  PlaceInv'
<1>1. kind' = kind /\ content' = content
  BY GivenStays DEF Moves, Next
<1>2. ASSUME NEW s \in Requests, s # r PROVE PlaceOf(s)'
  BY <1>1, <1>2, OthersStay, LoopOfOthersStays, DocumentStoreAssumption DEF PlaceInv, PlaceOf
<1>3. PlaceOf(r)'
  <2>0. kind[r] \in {"upload", "ingest", "delete", "clear", "ask"} /\ PlaceOf(r)
    BY DEF PlaceInv
  <2> USE <1>1, <2>0, DocumentStoreAssumption, DeadlockedWait, Goes, Returns DEF PlaceOf, Handling
  <2>1. CASE StartStream(r) \/ StreamRejected(r)
    BY <2>1 DEF StartStream, StreamRejected
  <2>2. CASE StreamEnds(r) \/ StartIngest(r)
    BY <2>2 DEF StreamEnds, StartIngest
  <2>3. CASE LookupHash(r) \/ IngestRejected(r)
    BY <2>3 DEF LookupHash, IngestRejected
  <2>4. CASE Extract(r) \/ Insert(r)
    BY <2>4 DEF Extract, Insert, StatementFails
  <2>5. CASE PutArtifact(r) \/ Publish(r)
    BY <2>5 DEF PutArtifact, Publish
  <2>6. CASE FindDocument(r) \/ ListDocuments(r)
    BY <2>6 DEF FindDocument, ListDocuments
  <2>7. CASE RemoveArtifact(r) \/ RemoveFile(r)
    BY <2>7 DEF RemoveArtifact, RemoveFile
  <2>8. CASE Purge(r) \/ DeleteRow(r)
    BY <2>8 DEF Purge, DeleteRow
  <2>9. CASE ClearRoot(r) \/ StartAsk(r)
    BY <2>9 DEF ClearRoot, StartAsk
  <2>10. CASE Embed(r) \/ Retrieve(r)
    BY <2>10 DEF Embed, Retrieve, StatementFails
  <2>11. CASE Link(r) \/ Dispatch(r)
    BY <2>11 DEF Link, Dispatch, StatementFails
  <2>12. CASE EndSession(r) \/ DeadlockDetected(r)
    BY <2>12 DEF EndSession, DeadlockDetected, StatementFails
  <2>13. CASE RequestRaises(r) \/ CommitFails(r)
    BY <2>13 DEF RequestRaises, CommitFails
  <2>14. QED
    BY <2>1, <2>2, <2>3, <2>4, <2>5, <2>6, <2>7, <2>8, <2>9, <2>10, <2>11, <2>12,
       <2>13 DEF Moves, Step
<1>4. QED
  BY <1>1, <1>2, <1>3 DEF PlaceInv

LEMMA WritesKept ==
    ASSUME TypeOK, PlaceInv, WriteInv, ReplyInv, NEW r \in Requests, Moves(r)
    PROVE  WriteInv'
<1>1. kind' = kind /\ Deletions' = Deletions
  BY GivenStays DEF Moves, Next, Deletions
<1>2. ASSUME NEW s \in Requests, s # r PROVE WriteOf(s)'
  BY <1>1, <1>2, OthersStay DEF WriteInv, WriteOf
<1>3. WriteOf(r)'
  <2>0. /\ PlaceOf(r) /\ WriteOf(r) /\ ReplyOf(r) /\ writes[r] \in Writes
        /\ r \in Deletions <=> kind[r] \in {"delete", "clear"}
    BY DEF PlaceInv, WriteInv, ReplyInv, TypeOK, Deletions
  <2>00. DOMAIN writes = Requests /\ DOMAIN seen = Requests /\ DOMAIN todo = Requests
    BY DEF TypeOK
  <2> USE <1>1, <2>0, <2>00, DeadlockedWait, Goes, Returns DEF PlaceOf, WriteOf, ReplyOf,
            Writes, NoWrites
  <2>1. CASE StartStream(r)
    BY <2>1 DEF StartStream
  <2>2. CASE StreamRejected(r)
    BY <2>2 DEF StreamRejected
  <2>3. CASE StreamEnds(r)
    BY <2>3 DEF StreamEnds
  <2>4. CASE StartIngest(r)
    BY <2>4 DEF StartIngest
  <2>5. CASE LookupHash(r)
    BY <2>5 DEF LookupHash
  <2>6. CASE IngestRejected(r)
    BY <2>6 DEF IngestRejected
  <2>7. CASE Extract(r)
    BY <2>7 DEF Extract
  <2>8. CASE Insert(r)
    BY <2>8 DEF Insert, StatementFails
  <2>9. CASE PutArtifact(r)
    BY <2>9 DEF PutArtifact
  <2>10. CASE Publish(r)
    BY <2>10 DEF Publish
  <2>11. CASE FindDocument(r)
    BY <2>11 DEF FindDocument
  <2>12. CASE ListDocuments(r)
    BY <2>12 DEF ListDocuments
  <2>13. CASE RemoveArtifact(r)
    BY <2>13 DEF RemoveArtifact
  <2>14. CASE RemoveFile(r)
    BY <2>14 DEF RemoveFile
  <2>15. CASE Purge(r)
    BY <2>15 DEF Purge
  <2>16. CASE DeleteRow(r)
    BY <2>16 DEF DeleteRow
  <2>17. CASE ClearRoot(r)
    BY <2>17 DEF ClearRoot
  <2>18. CASE StartAsk(r)
    BY <2>18 DEF StartAsk
  <2>19. CASE Embed(r)
    BY <2>19 DEF Embed, StatementFails
  <2>20. CASE Retrieve(r)
    BY <2>20 DEF Retrieve
  <2>21. CASE Link(r)
    BY <2>21 DEF Link, StatementFails
  <2>22. CASE Dispatch(r)
    BY <2>22 DEF Dispatch
  <2>23. CASE EndSession(r)
    BY <2>23 DEF EndSession
  <2>24. CASE DeadlockDetected(r)
    BY <2>24 DEF DeadlockDetected, StatementFails
  <2>25. CASE RequestRaises(r)
    BY <2>25 DEF RequestRaises
  <2>26. CASE CommitFails(r)
    BY <2>26 DEF CommitFails
  <2>27. QED
    BY <2>1, <2>2, <2>3, <2>4, <2>5, <2>6, <2>7, <2>8, <2>9, <2>10, <2>11, <2>12, <2>13,
       <2>14, <2>15, <2>16, <2>17, <2>18, <2>19, <2>20, <2>21, <2>22, <2>23, <2>24, <2>25,
       <2>26 DEF Moves, Step
<1>4. QED
  BY <1>2, <1>3 DEF WriteInv

LEMMA RepliesKept ==
    ASSUME TypeOK, PlaceInv, WriteInv, ReplyInv, NEW r \in Requests, Moves(r)
    PROVE  ReplyInv'
<1>1. kind' = kind /\ Deletions' = Deletions
  BY GivenStays DEF Moves, Next, Deletions
<1>2. ASSUME NEW s \in Requests, s # r PROVE ReplyOf(s)'
  BY <1>1, <1>2, OthersStay DEF ReplyInv, ReplyOf
<1>3. ReplyOf(r)'
  <2>0. /\ PlaceOf(r) /\ WriteOf(r) /\ ReplyOf(r) /\ writes[r] \in Writes
        /\ r \in Deletions <=> kind[r] \in {"delete", "clear"}
    BY DEF PlaceInv, WriteInv, ReplyInv, TypeOK, Deletions
  <2>00. DOMAIN writes = Requests /\ DOMAIN seen = Requests /\ DOMAIN reply = Requests
    BY DEF TypeOK
  <2> USE <1>1, <2>0, <2>00, DeadlockedWait, Goes, Returns DEF PlaceOf, WriteOf, ReplyOf,
            Writes, NoWrites, Ended
  <2>1. CASE StartStream(r)
    BY <2>1 DEF StartStream
  <2>2. CASE StreamRejected(r)
    BY <2>2 DEF StreamRejected
  <2>3. CASE StreamEnds(r)
    BY <2>3 DEF StreamEnds
  <2>4. CASE StartIngest(r)
    BY <2>4 DEF StartIngest
  <2>5. CASE LookupHash(r)
    BY <2>5 DEF LookupHash
  <2>6. CASE IngestRejected(r)
    BY <2>6 DEF IngestRejected
  <2>7. CASE Extract(r)
    BY <2>7 DEF Extract
  <2>8. CASE Insert(r)
    BY <2>8 DEF Insert, StatementFails
  <2>9. CASE PutArtifact(r)
    BY <2>9 DEF PutArtifact
  <2>10. CASE Publish(r)
    BY <2>10 DEF Publish
  <2>11. CASE FindDocument(r)
    BY <2>11 DEF FindDocument
  <2>12. CASE ListDocuments(r)
    BY <2>12 DEF ListDocuments
  <2>13. CASE RemoveArtifact(r)
    BY <2>13 DEF RemoveArtifact
  <2>14. CASE RemoveFile(r)
    BY <2>14 DEF RemoveFile
  <2>15. CASE Purge(r)
    BY <2>15 DEF Purge
  <2>16. CASE DeleteRow(r)
    BY <2>16 DEF DeleteRow
  <2>17. CASE ClearRoot(r)
    BY <2>17 DEF ClearRoot
  <2>18. CASE StartAsk(r)
    BY <2>18 DEF StartAsk
  <2>19. CASE Embed(r)
    BY <2>19 DEF Embed, StatementFails
  <2>20. CASE Retrieve(r)
    BY <2>20 DEF Retrieve
  <2>21. CASE Link(r)
    BY <2>21 DEF Link, StatementFails
  <2>22. CASE Dispatch(r)
    BY <2>22 DEF Dispatch
  <2>23. CASE EndSession(r)
    BY <2>23 DEF EndSession
  <2>24. CASE DeadlockDetected(r)
    BY <2>24 DEF DeadlockDetected, StatementFails
  <2>25. CASE RequestRaises(r)
    BY <2>25 DEF RequestRaises
  <2>26. CASE CommitFails(r)
    BY <2>26 DEF CommitFails
  <2>27. QED
    BY <2>1, <2>2, <2>3, <2>4, <2>5, <2>6, <2>7, <2>8, <2>9, <2>10, <2>11, <2>12, <2>13,
       <2>14, <2>15, <2>16, <2>17, <2>18, <2>19, <2>20, <2>21, <2>22, <2>23, <2>24, <2>25,
       <2>26 DEF Moves, Step
<1>4. QED
  BY <1>2, <1>3 DEF ReplyInv

-----------------------------------------------------------------------------
(* What the request that moves may change.                                  *)

\* A request that is done does not move, and only the end of its session makes it so.
LEMMA CourseOf ==
    ASSUME TypeOK, NEW r \in Requests, Moves(r)
    PROVE  /\ pc[r] # "done" /\ pc'[r] # "new"
           /\ pc'[r] = "done" => pc[r] = "commit"
           /\ pc'[r] = "commit" => pc[r] = "returned"
           /\ pc[r] \in {"returned", "commit"} => pc'[r] \in {"commit", "done"}
<1> USE DeadlockedWait, Goes, Returns
<1>1. CASE StartStream(r) \/ StreamRejected(r) \/ StreamEnds(r) \/ StartIngest(r)
  BY <1>1 DEF StartStream, StreamRejected, StreamEnds, StartIngest
<1>2. CASE LookupHash(r) \/ IngestRejected(r) \/ Extract(r) \/ Insert(r)
  BY <1>2 DEF LookupHash, IngestRejected, Extract, Insert, StatementFails
<1>3. CASE PutArtifact(r) \/ Publish(r) \/ FindDocument(r) \/ ListDocuments(r)
  BY <1>3 DEF PutArtifact, Publish, FindDocument, ListDocuments
<1>4. CASE RemoveArtifact(r) \/ RemoveFile(r) \/ Purge(r) \/ DeleteRow(r)
  BY <1>4 DEF RemoveArtifact, RemoveFile, Purge, DeleteRow
<1>5. CASE ClearRoot(r) \/ StartAsk(r) \/ Embed(r) \/ Retrieve(r)
  BY <1>5 DEF ClearRoot, StartAsk, Embed, Retrieve, StatementFails
<1>6. CASE Link(r) \/ Dispatch(r) \/ EndSession(r) \/ DeadlockDetected(r)
  BY <1>6 DEF Link, Dispatch, EndSession, DeadlockDetected, StatementFails
<1>7. CASE RequestRaises(r) \/ CommitFails(r)
  BY <1>7 DEF RequestRaises, CommitFails
<1>8. QED
  BY <1>1, <1>2, <1>3, <1>4, <1>5, <1>6, <1>7 DEF Moves, Step

\* An answer stays, unless the commit fails.
LEMMA AnswerStays ==
    ASSUME TypeOK, NEW r \in Requests, Moves(r), pc[r] \in Ended
    PROVE  reply'[r] = reply[r] \/ (CommitFails(r) /\ reply'[r] = "raised")
<1> USE DeadlockedWait DEF Ended, TypeOK
<1>1. CASE StartStream(r) \/ StreamRejected(r) \/ StreamEnds(r) \/ StartIngest(r)
  BY <1>1 DEF StartStream, StreamRejected, StreamEnds, StartIngest
<1>2. CASE LookupHash(r) \/ IngestRejected(r) \/ Extract(r) \/ Insert(r)
  BY <1>2 DEF LookupHash, IngestRejected, Extract, Insert, StatementFails
<1>3. CASE PutArtifact(r) \/ Publish(r) \/ FindDocument(r) \/ ListDocuments(r)
  BY <1>3 DEF PutArtifact, Publish, FindDocument, ListDocuments
<1>4. CASE RemoveArtifact(r) \/ RemoveFile(r) \/ Purge(r) \/ DeleteRow(r)
  BY <1>4 DEF RemoveArtifact, RemoveFile, Purge, DeleteRow
<1>5. CASE ClearRoot(r) \/ StartAsk(r) \/ Embed(r) \/ Retrieve(r)
  BY <1>5 DEF ClearRoot, StartAsk, Embed, Retrieve, StatementFails
<1>6. CASE Link(r) \/ Dispatch(r) \/ EndSession(r) \/ DeadlockDetected(r)
  BY <1>6 DEF Link, Dispatch, EndSession, DeadlockDetected, StatementFails
<1>7. CASE RequestRaises(r) \/ CommitFails(r)
  BY <1>7 DEF RequestRaises, CommitFails
<1>8. QED
  BY <1>1, <1>2, <1>3, <1>4, <1>5, <1>6, <1>7 DEF Moves, Step

\* What a deletion is to delete is read once, and so is what an answer rests on.
LEMMA SeenOf ==
    ASSUME TypeOK, PlaceInv, ReplyInv, NEW r \in Requests, Moves(r)
    PROVE  /\ pc[r] \in Ended => seen'[r] = seen[r]
           /\ r \in Deletions =>
                 \/ seen'[r] = seen[r]
                 \/ pc[r] = "new" /\ seen[r] = {} /\ seen'[r] \subseteq docs
           /\ before'[r] = before[r] \/ (pc[r] = "new" /\ before'[r] = runs)
<1>0. /\ PlaceOf(r) /\ ReplyOf(r) /\ (r \in Deletions <=> kind[r] \in {"delete", "clear"})
      /\ DOMAIN seen = Requests /\ DOMAIN before = Requests
  BY DEF PlaceInv, ReplyInv, TypeOK, Deletions
<1> USE <1>0, DeadlockedWait DEF PlaceOf, ReplyOf, Ended
<1>1. CASE StartStream(r) \/ StreamRejected(r)
  BY <1>1 DEF StartStream, StreamRejected
<1>2. CASE StreamEnds(r) \/ StartIngest(r)
  BY <1>2 DEF StreamEnds, StartIngest
<1>3. CASE LookupHash(r) \/ IngestRejected(r)
  BY <1>3 DEF LookupHash, IngestRejected
<1>4. CASE Extract(r) \/ Insert(r)
  BY <1>4 DEF Extract, Insert, StatementFails
<1>5. CASE PutArtifact(r) \/ Publish(r)
  BY <1>5 DEF PutArtifact, Publish
<1>6. CASE FindDocument(r) \/ ListDocuments(r)
  BY <1>6 DEF FindDocument, ListDocuments
<1>7. CASE RemoveArtifact(r) \/ RemoveFile(r)
  BY <1>7 DEF RemoveArtifact, RemoveFile
<1>8. CASE Purge(r) \/ DeleteRow(r)
  BY <1>8 DEF Purge, DeleteRow
<1>9. CASE ClearRoot(r) \/ StartAsk(r)
  BY <1>9 DEF ClearRoot, StartAsk
<1>10. CASE Embed(r) \/ Retrieve(r)
  BY <1>10 DEF Embed, Retrieve, StatementFails
<1>11. CASE Link(r) \/ Dispatch(r)
  BY <1>11 DEF Link, Dispatch, StatementFails
<1>12. CASE EndSession(r) \/ DeadlockDetected(r)
  BY <1>12 DEF EndSession, DeadlockDetected, StatementFails
<1>13. CASE RequestRaises(r) \/ CommitFails(r)
  BY <1>13 DEF RequestRaises, CommitFails
<1>14. QED
  BY <1>1, <1>2, <1>3, <1>4, <1>5, <1>6, <1>7, <1>8, <1>9, <1>10, <1>11, <1>12,
     <1>13 DEF Moves, Step

\* Transactions grow by a statement and end.
LEMMA WritesOf ==
    ASSUME TypeOK, NEW r \in Requests, Moves(r)
    PROVE  \/ Insert(r) \/ Purge(r) \/ DeleteRow(r) \/ Embed(r) \/ Link(r)
           \/ writes'[r] = writes[r] \/ writes'[r] = NoWrites
<1>0. DOMAIN writes = Requests
  BY DEF TypeOK
<1> USE <1>0
<1>1. CASE StartStream(r) \/ StreamRejected(r) \/ StreamEnds(r) \/ StartIngest(r)
  BY <1>1 DEF StartStream, StreamRejected, StreamEnds, StartIngest
<1>2. CASE LookupHash(r) \/ IngestRejected(r) \/ Extract(r) \/ Insert(r)
  BY <1>2 DEF LookupHash, IngestRejected, Extract, Insert, StatementFails
<1>3. CASE PutArtifact(r) \/ Publish(r) \/ FindDocument(r) \/ ListDocuments(r)
  BY <1>3 DEF PutArtifact, Publish, FindDocument, ListDocuments
<1>4. CASE RemoveArtifact(r) \/ RemoveFile(r) \/ Purge(r) \/ DeleteRow(r)
  BY <1>4 DEF RemoveArtifact, RemoveFile, Purge, DeleteRow
<1>5. CASE ClearRoot(r) \/ StartAsk(r) \/ Embed(r) \/ Retrieve(r)
  BY <1>5 DEF ClearRoot, StartAsk, Embed, Retrieve, StatementFails
<1>6. CASE Link(r) \/ Dispatch(r) \/ EndSession(r) \/ DeadlockDetected(r)
  BY <1>6 DEF Link, Dispatch, EndSession, DeadlockDetected, StatementFails
<1>7. CASE RequestRaises(r) \/ CommitFails(r)
  BY <1>7 DEF RequestRaises, CommitFails
<1>8. QED
  BY <1>1, <1>2, <1>3, <1>4, <1>5, <1>6, <1>7 DEF Moves, Step

LEMMA TodoOf ==
    ASSUME TypeOK, NEW r \in Requests, Moves(r)
    PROVE  RemoveArtifact(r) \/ StartAsk(r) \/ todo' = todo
<1>1. CASE StartStream(r) \/ StreamRejected(r) \/ StreamEnds(r) \/ StartIngest(r)
  BY <1>1 DEF StartStream, StreamRejected, StreamEnds, StartIngest
<1>2. CASE LookupHash(r) \/ IngestRejected(r) \/ Extract(r) \/ Insert(r)
  BY <1>2 DEF LookupHash, IngestRejected, Extract, Insert, StatementFails
<1>3. CASE PutArtifact(r) \/ Publish(r) \/ FindDocument(r) \/ ListDocuments(r)
  BY <1>3 DEF PutArtifact, Publish, FindDocument, ListDocuments
<1>4. CASE RemoveArtifact(r) \/ RemoveFile(r) \/ Purge(r) \/ DeleteRow(r)
  BY <1>4 DEF RemoveArtifact, RemoveFile, Purge, DeleteRow
<1>5. CASE ClearRoot(r) \/ StartAsk(r) \/ Embed(r) \/ Retrieve(r)
  BY <1>5 DEF ClearRoot, StartAsk, Embed, Retrieve, StatementFails
<1>6. CASE Link(r) \/ Dispatch(r) \/ EndSession(r) \/ DeadlockDetected(r)
  BY <1>6 DEF Link, Dispatch, EndSession, DeadlockDetected, StatementFails
<1>7. CASE RequestRaises(r) \/ CommitFails(r)
  BY <1>7 DEF RequestRaises, CommitFails
<1>8. QED
  BY <1>1, <1>2, <1>3, <1>4, <1>5, <1>6, <1>7 DEF Moves, Step

\* A file comes with the body of an upload; its own upload or a deletion removes it.
LEMMA FilesOf ==
    ASSUME TypeOK, PlaceInv, NEW r \in Requests, Moves(r), NEW f
    PROVE  /\ f \in files' \ files => f = r /\ StartStream(r)
           /\ f \in files \ files' =>
                 \/ f = r /\ pc[r] \in {"streaming", "lookup", "extract"}
                 \/ r \in Deletions /\ f \in todo[r]
                 \/ kind[r] = "clear" /\ pc[r] # "new"
<1>0. PlaceOf(r) /\ (r \in Deletions <=> kind[r] \in {"delete", "clear"})
  BY DEF PlaceInv, Deletions
<1> USE <1>0 DEF PlaceOf, storage, Discarded
<1>1. CASE StartStream(r) \/ StreamRejected(r)
  BY <1>1 DEF StartStream, StreamRejected
<1>2. CASE StreamEnds(r) \/ StartIngest(r)
  BY <1>2 DEF StreamEnds, StartIngest
<1>3. CASE LookupHash(r) \/ IngestRejected(r)
  BY <1>3 DEF LookupHash, IngestRejected
<1>4. CASE Extract(r) \/ Insert(r)
  BY <1>4 DEF Extract, Insert, StatementFails
<1>5. CASE PutArtifact(r) \/ Publish(r)
  BY <1>5 DEF PutArtifact, Publish
<1>6. CASE FindDocument(r) \/ ListDocuments(r)
  BY <1>6 DEF FindDocument, ListDocuments
<1>7. CASE RemoveArtifact(r) \/ RemoveFile(r)
  BY <1>7 DEF RemoveArtifact, RemoveFile
<1>8. CASE Purge(r) \/ DeleteRow(r)
  BY <1>8 DEF Purge, DeleteRow
<1>9. CASE ClearRoot(r) \/ StartAsk(r)
  BY <1>9 DEF ClearRoot, StartAsk
<1>10. CASE Embed(r) \/ Retrieve(r)
  BY <1>10 DEF Embed, Retrieve, StatementFails
<1>11. CASE Link(r) \/ Dispatch(r)
  BY <1>11 DEF Link, Dispatch, StatementFails
<1>12. CASE EndSession(r) \/ DeadlockDetected(r)
  BY <1>12 DEF EndSession, DeadlockDetected, StatementFails
<1>13. CASE RequestRaises(r) \/ CommitFails(r)
  BY <1>13 DEF RequestRaises, CommitFails
<1>14. QED
  BY <1>1, <1>2, <1>3, <1>4, <1>5, <1>6, <1>7, <1>8, <1>9, <1>10, <1>11, <1>12,
     <1>13 DEF Moves, Step

\* An artifact is put by an upload, and removed by a deletion of a document of its content.
LEMMA ArtifactsOf ==
    ASSUME TypeOK, PlaceInv, NEW r \in Requests, Moves(r), NEW c
    PROVE  /\ c \in artifacts' \ artifacts => c = content[r] /\ PutArtifact(r)
           /\ c \in artifacts \ artifacts' => r \in Deletions /\ \E d \in seen[r] : content[d] = c
<1>0. PlaceOf(r) /\ (r \in Deletions <=> kind[r] \in {"delete", "clear"})
  BY DEF PlaceInv, Deletions
<1> USE <1>0 DEF PlaceOf, storage, Discarded
<1>1. CASE StartStream(r) \/ StreamRejected(r)
  BY <1>1 DEF StartStream, StreamRejected
<1>2. CASE StreamEnds(r) \/ StartIngest(r)
  BY <1>2 DEF StreamEnds, StartIngest
<1>3. CASE LookupHash(r) \/ IngestRejected(r)
  BY <1>3 DEF LookupHash, IngestRejected
<1>4. CASE Extract(r) \/ Insert(r)
  BY <1>4 DEF Extract, Insert, StatementFails
<1>5. CASE PutArtifact(r) \/ Publish(r)
  BY <1>5 DEF PutArtifact, Publish
<1>6. CASE FindDocument(r) \/ ListDocuments(r)
  BY <1>6 DEF FindDocument, ListDocuments
<1>7. CASE RemoveArtifact(r) \/ RemoveFile(r)
  BY <1>7 DEF RemoveArtifact, RemoveFile
<1>8. CASE Purge(r) \/ DeleteRow(r)
  BY <1>8 DEF Purge, DeleteRow
<1>9. CASE ClearRoot(r) \/ StartAsk(r)
  BY <1>9 DEF ClearRoot, StartAsk
<1>10. CASE Embed(r) \/ Retrieve(r)
  BY <1>10 DEF Embed, Retrieve, StatementFails
<1>11. CASE Link(r) \/ Dispatch(r)
  BY <1>11 DEF Link, Dispatch, StatementFails
<1>12. CASE EndSession(r) \/ DeadlockDetected(r)
  BY <1>12 DEF EndSession, DeadlockDetected, StatementFails
<1>13. CASE RequestRaises(r) \/ CommitFails(r)
  BY <1>13 DEF RequestRaises, CommitFails
<1>14. QED
  BY <1>1, <1>2, <1>3, <1>4, <1>5, <1>6, <1>7, <1>8, <1>9, <1>10, <1>11, <1>12,
     <1>13 DEF Moves, Step

LEMMA EventsOf ==
    ASSUME NEW r \in Requests, Moves(r)
    PROVE  Publish(r) \/ events' = events
<1>1. CASE StartStream(r) \/ StreamRejected(r) \/ StreamEnds(r) \/ StartIngest(r)
  BY <1>1 DEF StartStream, StreamRejected, StreamEnds, StartIngest
<1>2. CASE LookupHash(r) \/ IngestRejected(r) \/ Extract(r) \/ Insert(r)
  BY <1>2 DEF LookupHash, IngestRejected, Extract, Insert, StatementFails
<1>3. CASE PutArtifact(r) \/ Publish(r) \/ FindDocument(r) \/ ListDocuments(r)
  BY <1>3 DEF PutArtifact, Publish, FindDocument, ListDocuments
<1>4. CASE RemoveArtifact(r) \/ RemoveFile(r) \/ Purge(r) \/ DeleteRow(r)
  BY <1>4 DEF RemoveArtifact, RemoveFile, Purge, DeleteRow
<1>5. CASE ClearRoot(r) \/ StartAsk(r) \/ Embed(r) \/ Retrieve(r)
  BY <1>5 DEF ClearRoot, StartAsk, Embed, Retrieve, StatementFails
<1>6. CASE Link(r) \/ Dispatch(r) \/ EndSession(r) \/ DeadlockDetected(r)
  BY <1>6 DEF Link, Dispatch, EndSession, DeadlockDetected, StatementFails
<1>7. CASE RequestRaises(r) \/ CommitFails(r)
  BY <1>7 DEF RequestRaises, CommitFails
<1>8. QED
  BY <1>1, <1>2, <1>3, <1>4, <1>5, <1>6, <1>7 DEF Moves, Step

\* Only the look-up of the content finds an existing document.
LEMMA Existing ==
    ASSUME TypeOK, NEW r \in Requests, Moves(r), pc[r] \notin Ended,
           reply[r] # "existing", reply'[r] = "existing"
    PROVE  LookupHash(r)
<1> USE Returns DEF Ended
<1>1. CASE StartStream(r) \/ StreamRejected(r) \/ StreamEnds(r) \/ StartIngest(r)
  BY <1>1 DEF StartStream, StreamRejected, StreamEnds, StartIngest
<1>2. CASE LookupHash(r) \/ IngestRejected(r) \/ Extract(r) \/ Insert(r)
  BY <1>2 DEF LookupHash, IngestRejected, Extract, Insert, StatementFails
<1>3. CASE PutArtifact(r) \/ Publish(r) \/ FindDocument(r) \/ ListDocuments(r)
  BY <1>3 DEF PutArtifact, Publish, FindDocument, ListDocuments
<1>4. CASE RemoveArtifact(r) \/ RemoveFile(r) \/ Purge(r) \/ DeleteRow(r)
  BY <1>4 DEF RemoveArtifact, RemoveFile, Purge, DeleteRow
<1>5. CASE ClearRoot(r) \/ StartAsk(r) \/ Embed(r) \/ Retrieve(r)
  BY <1>5 DEF ClearRoot, StartAsk, Embed, Retrieve, StatementFails
<1>6. CASE Link(r) \/ Dispatch(r) \/ EndSession(r) \/ DeadlockDetected(r)
  BY <1>6 DEF Link, Dispatch, EndSession, DeadlockDetected, StatementFails
<1>7. CASE RequestRaises(r) \/ CommitFails(r)
  BY <1>7 DEF RequestRaises, CommitFails
<1>8. QED
  BY <1>1, <1>2, <1>3, <1>4, <1>5, <1>6, <1>7 DEF Moves, Step

\* A session that ends with another answer than an error commits.
LEMMA EndsWell ==
    ASSUME TypeOK, NEW r \in Requests, Moves(r), pc[r] = "commit", pc'[r] = "done",
           reply'[r] # "raised"
    PROVE  EndSession(r) /\ reply'[r] = reply[r]
<1>0. DOMAIN reply = Requests
  BY DEF TypeOK
<1> USE <1>0, DeadlockedWait
<1>1. CASE StartStream(r) \/ StreamRejected(r) \/ StreamEnds(r) \/ StartIngest(r)
  BY <1>1 DEF StartStream, StreamRejected, StreamEnds, StartIngest
<1>2. CASE LookupHash(r) \/ IngestRejected(r) \/ Extract(r) \/ Insert(r)
  BY <1>2 DEF LookupHash, IngestRejected, Extract, Insert, StatementFails
<1>3. CASE PutArtifact(r) \/ Publish(r) \/ FindDocument(r) \/ ListDocuments(r)
  BY <1>3 DEF PutArtifact, Publish, FindDocument, ListDocuments
<1>4. CASE RemoveArtifact(r) \/ RemoveFile(r) \/ Purge(r) \/ DeleteRow(r)
  BY <1>4 DEF RemoveArtifact, RemoveFile, Purge, DeleteRow
<1>5. CASE ClearRoot(r) \/ StartAsk(r) \/ Embed(r) \/ Retrieve(r)
  BY <1>5 DEF ClearRoot, StartAsk, Embed, Retrieve, StatementFails
<1>6. CASE Link(r) \/ Dispatch(r) \/ EndSession(r) \/ DeadlockDetected(r)
  BY <1>6 DEF Link, Dispatch, EndSession, DeadlockDetected, StatementFails
<1>7. CASE RequestRaises(r) \/ CommitFails(r)
  BY <1>7 DEF RequestRaises, CommitFails
<1>8. QED
  BY <1>1, <1>2, <1>3, <1>4, <1>5, <1>6, <1>7 DEF Moves, Step

\* A deletion of rows is preceded by the purge of the runs that use them.
LEMMA FromNew ==
    ASSUME TypeOK, NEW r \in Requests, Moves(r), pc[r] = "new"
    PROVE  pc'[r] # "delete_row"
<1> USE Goes, Returns, DeadlockedWait
<1>1. CASE StartStream(r) \/ StreamRejected(r) \/ StreamEnds(r) \/ StartIngest(r)
  BY <1>1 DEF StartStream, StreamRejected, StreamEnds, StartIngest
<1>2. CASE LookupHash(r) \/ IngestRejected(r) \/ Extract(r) \/ Insert(r)
  BY <1>2 DEF LookupHash, IngestRejected, Extract, Insert, StatementFails
<1>3. CASE PutArtifact(r) \/ Publish(r) \/ FindDocument(r) \/ ListDocuments(r)
  BY <1>3 DEF PutArtifact, Publish, FindDocument, ListDocuments
<1>4. CASE RemoveArtifact(r) \/ RemoveFile(r) \/ Purge(r) \/ DeleteRow(r)
  BY <1>4 DEF RemoveArtifact, RemoveFile, Purge, DeleteRow
<1>5. CASE ClearRoot(r) \/ StartAsk(r) \/ Embed(r) \/ Retrieve(r)
  BY <1>5 DEF ClearRoot, StartAsk, Embed, Retrieve, StatementFails
<1>6. CASE Link(r) \/ Dispatch(r) \/ EndSession(r) \/ DeadlockDetected(r)
  BY <1>6 DEF Link, Dispatch, EndSession, DeadlockDetected, StatementFails
<1>7. CASE RequestRaises(r) \/ CommitFails(r)
  BY <1>7 DEF RequestRaises, CommitFails
<1>8. QED
  BY <1>1, <1>2, <1>3, <1>4, <1>5, <1>6, <1>7 DEF Moves, Step

LEMMA FromPurge ==
    ASSUME TypeOK, NEW r \in Requests, Moves(r), pc'[r] = "delete_row"
    PROVE  Purge(r)
<1> USE Goes, Returns, DeadlockedWait
<1>1. CASE StartStream(r) \/ StreamRejected(r) \/ StreamEnds(r) \/ StartIngest(r)
  BY <1>1 DEF StartStream, StreamRejected, StreamEnds, StartIngest
<1>2. CASE LookupHash(r) \/ IngestRejected(r) \/ Extract(r) \/ Insert(r)
  BY <1>2 DEF LookupHash, IngestRejected, Extract, Insert, StatementFails
<1>3. CASE PutArtifact(r) \/ Publish(r) \/ FindDocument(r) \/ ListDocuments(r)
  BY <1>3 DEF PutArtifact, Publish, FindDocument, ListDocuments
<1>4. CASE RemoveArtifact(r) \/ RemoveFile(r) \/ Purge(r) \/ DeleteRow(r)
  BY <1>4 DEF RemoveArtifact, RemoveFile, Purge, DeleteRow
<1>5. CASE ClearRoot(r) \/ StartAsk(r) \/ Embed(r) \/ Retrieve(r)
  BY <1>5 DEF ClearRoot, StartAsk, Embed, Retrieve, StatementFails
<1>6. CASE Link(r) \/ Dispatch(r) \/ EndSession(r) \/ DeadlockDetected(r)
  BY <1>6 DEF Link, Dispatch, EndSession, DeadlockDetected, StatementFails
<1>7. CASE RequestRaises(r) \/ CommitFails(r)
  BY <1>7 DEF RequestRaises, CommitFails
<1>8. QED
  BY <1>1, <1>2, <1>3, <1>4, <1>5, <1>6, <1>7 DEF Moves, Step

\* Where an upload comes from that publishes, or answers "created".
LEMMA ToPublish ==
    ASSUME TypeOK, NEW r \in Requests, Moves(r), pc'[r] = "publish"
    PROVE  \/ pc[r] = "publish"
           \/ PutArtifact(r) /\ r \in files /\ content[r] \in artifacts' /\ files' = files
<1> USE Goes, Returns, DeadlockedWait
<1>1. CASE StartStream(r) \/ StreamRejected(r) \/ StreamEnds(r) \/ StartIngest(r)
  BY <1>1 DEF StartStream, StreamRejected, StreamEnds, StartIngest
<1>2. CASE LookupHash(r) \/ IngestRejected(r) \/ Extract(r) \/ Insert(r)
  BY <1>2 DEF LookupHash, IngestRejected, Extract, Insert, StatementFails
<1>3. CASE PutArtifact(r) \/ Publish(r) \/ FindDocument(r) \/ ListDocuments(r)
  BY <1>3 DEF PutArtifact, Publish, FindDocument, ListDocuments
<1>4. CASE RemoveArtifact(r) \/ RemoveFile(r) \/ Purge(r) \/ DeleteRow(r)
  BY <1>4 DEF RemoveArtifact, RemoveFile, Purge, DeleteRow
<1>5. CASE ClearRoot(r) \/ StartAsk(r) \/ Embed(r) \/ Retrieve(r)
  BY <1>5 DEF ClearRoot, StartAsk, Embed, Retrieve, StatementFails
<1>6. CASE Link(r) \/ Dispatch(r) \/ EndSession(r) \/ DeadlockDetected(r)
  BY <1>6 DEF Link, Dispatch, EndSession, DeadlockDetected, StatementFails
<1>7. CASE RequestRaises(r) \/ CommitFails(r)
  BY <1>7 DEF RequestRaises, CommitFails
<1>8. QED
  BY <1>1, <1>2, <1>3, <1>4, <1>5, <1>6, <1>7 DEF Moves, Step

LEMMA Created ==
    ASSUME TypeOK, NEW r \in Requests, Moves(r), pc[r] \notin Ended, reply[r] = "none",
           reply'[r] = "created"
    PROVE  Publish(r) \/ (Insert(r) /\ kind[r] # "upload")
<1> USE Goes, Returns, DeadlockedWait DEF Ended
<1>1. CASE StartStream(r) \/ StreamRejected(r) \/ StreamEnds(r) \/ StartIngest(r)
  BY <1>1 DEF StartStream, StreamRejected, StreamEnds, StartIngest
<1>2. CASE LookupHash(r) \/ IngestRejected(r) \/ Extract(r) \/ Insert(r)
  BY <1>2 DEF LookupHash, IngestRejected, Extract, Insert, StatementFails
<1>3. CASE PutArtifact(r) \/ Publish(r) \/ FindDocument(r) \/ ListDocuments(r)
  BY <1>3 DEF PutArtifact, Publish, FindDocument, ListDocuments
<1>4. CASE RemoveArtifact(r) \/ RemoveFile(r) \/ Purge(r) \/ DeleteRow(r)
  BY <1>4 DEF RemoveArtifact, RemoveFile, Purge, DeleteRow
<1>5. CASE ClearRoot(r) \/ StartAsk(r) \/ Embed(r) \/ Retrieve(r)
  BY <1>5 DEF ClearRoot, StartAsk, Embed, Retrieve, StatementFails
<1>6. CASE Link(r) \/ Dispatch(r) \/ EndSession(r) \/ DeadlockDetected(r)
  BY <1>6 DEF Link, Dispatch, EndSession, DeadlockDetected, StatementFails
<1>7. CASE RequestRaises(r) \/ CommitFails(r)
  BY <1>7 DEF RequestRaises, CommitFails
<1>8. QED
  BY <1>1, <1>2, <1>3, <1>4, <1>5, <1>6, <1>7 DEF Moves, Step

\* An upload that is refused, or finds its content there, has removed its file.
LEMMA Refused ==
    ASSUME TypeOK, PlaceInv, NEW r \in Requests, Moves(r), kind[r] = "upload", pc[r] \notin Ended,
           reply[r] \notin {"existing", "rejected"}, reply'[r] \in {"existing", "rejected"}
    PROVE  r \notin files'
<1>0. PlaceOf(r)
  BY DEF PlaceInv
<1> USE <1>0, Goes, Returns, DeadlockedWait DEF Ended, PlaceOf
<1>1. CASE StartStream(r) \/ StreamRejected(r) \/ StreamEnds(r) \/ StartIngest(r)
  BY <1>1 DEF StartStream, StreamRejected, StreamEnds, StartIngest
<1>2. CASE LookupHash(r) \/ IngestRejected(r) \/ Extract(r) \/ Insert(r)
  BY <1>2 DEF LookupHash, IngestRejected, Extract, Insert, Discarded, StatementFails
<1>3. CASE PutArtifact(r) \/ Publish(r) \/ FindDocument(r) \/ ListDocuments(r)
  BY <1>3 DEF PutArtifact, Publish, FindDocument, ListDocuments
<1>4. CASE RemoveArtifact(r) \/ RemoveFile(r) \/ Purge(r) \/ DeleteRow(r)
  BY <1>4 DEF RemoveArtifact, RemoveFile, Purge, DeleteRow
<1>5. CASE ClearRoot(r) \/ StartAsk(r) \/ Embed(r) \/ Retrieve(r)
  BY <1>5 DEF ClearRoot, StartAsk, Embed, Retrieve, StatementFails
<1>6. CASE Link(r) \/ Dispatch(r) \/ EndSession(r) \/ DeadlockDetected(r)
  BY <1>6 DEF Link, Dispatch, EndSession, DeadlockDetected, StatementFails
<1>7. CASE RequestRaises(r) \/ CommitFails(r)
  BY <1>7 DEF RequestRaises, CommitFails
<1>8. QED
  BY <1>1, <1>2, <1>3, <1>4, <1>5, <1>6, <1>7 DEF Moves, Step

LEMMA ToPurge ==
    ASSUME TypeOK, NEW r \in Requests, Moves(r), pc'[r] = "purge"
    PROVE  RemoveArtifact(r) \/ RemoveFile(r)
<1> USE Goes, Returns, DeadlockedWait
<1>1. CASE StartStream(r) \/ StreamRejected(r) \/ StreamEnds(r) \/ StartIngest(r)
  BY <1>1 DEF StartStream, StreamRejected, StreamEnds, StartIngest
<1>2. CASE LookupHash(r) \/ IngestRejected(r) \/ Extract(r) \/ Insert(r)
  BY <1>2 DEF LookupHash, IngestRejected, Extract, Insert, StatementFails
<1>3. CASE PutArtifact(r) \/ Publish(r) \/ FindDocument(r) \/ ListDocuments(r)
  BY <1>3 DEF PutArtifact, Publish, FindDocument, ListDocuments
<1>4. CASE RemoveArtifact(r) \/ RemoveFile(r) \/ Purge(r) \/ DeleteRow(r)
  BY <1>4 DEF RemoveArtifact, RemoveFile, Purge, DeleteRow
<1>5. CASE ClearRoot(r) \/ StartAsk(r) \/ Embed(r) \/ Retrieve(r)
  BY <1>5 DEF ClearRoot, StartAsk, Embed, Retrieve, StatementFails
<1>6. CASE Link(r) \/ Dispatch(r) \/ EndSession(r) \/ DeadlockDetected(r)
  BY <1>6 DEF Link, Dispatch, EndSession, DeadlockDetected, StatementFails
<1>7. CASE RequestRaises(r) \/ CommitFails(r)
  BY <1>7 DEF RequestRaises, CommitFails
<1>8. QED
  BY <1>1, <1>2, <1>3, <1>4, <1>5, <1>6, <1>7 DEF Moves, Step

\* What deletes, inserts and embeds.
LEMMA DeletesOnly ==
    ASSUME TypeOK, NEW r \in Requests, Moves(r)
    PROVE  writes'[r].delete \subseteq writes[r].delete \/ DeleteRow(r)
<1>1. CASE Insert(r) \/ Purge(r)
  BY <1>1 DEF Insert, Purge, StatementFails, NoWrites, TypeOK, Writes
<1>2. CASE Embed(r) \/ Link(r)
  BY <1>2 DEF Embed, Link, StatementFails, NoWrites, TypeOK, Writes
<1>3. CASE writes'[r] = writes[r] \/ writes'[r] = NoWrites
  BY <1>3 DEF NoWrites
<1>4. QED
  BY <1>1, <1>2, <1>3, WritesOf

LEMMA InsertsOnly ==
    ASSUME TypeOK, NEW r \in Requests, Moves(r)
    PROVE  writes'[r].insert \subseteq writes[r].insert \/ Insert(r)
<1>1. CASE DeleteRow(r)
  BY <1>1 DEF DeleteRow, TypeOK, Writes
<1>2. CASE Purge(r)
  BY <1>2 DEF Purge, TypeOK, Writes
<1>3. CASE Embed(r)
  BY <1>3 DEF Embed, StatementFails, NoWrites, TypeOK, Writes
<1>4. CASE Link(r)
  BY <1>4 DEF Link, StatementFails, NoWrites, TypeOK, Writes
<1>5. CASE writes'[r] = writes[r] \/ writes'[r] = NoWrites
  BY <1>5 DEF NoWrites
<1>6. QED
  BY <1>1, <1>2, <1>3, <1>4, <1>5, WritesOf

LEMMA EmbedsOnly ==
    ASSUME TypeOK, NEW r \in Requests, Moves(r)
    PROVE  writes'[r].embed \subseteq writes[r].embed \/ Embed(r)
<1>1. CASE Insert(r) \/ Link(r)
  BY <1>1 DEF Insert, Link, StatementFails, NoWrites, TypeOK, Writes
<1>2. CASE Purge(r) \/ DeleteRow(r)
  BY <1>2 DEF Purge, DeleteRow, TypeOK, Writes
<1>3. CASE writes'[r] = writes[r] \/ writes'[r] = NoWrites
  BY <1>3 DEF NoWrites
<1>4. QED
  BY <1>1, <1>2, <1>3, WritesOf

\* An insertion that is open no more was committed, or its request raised.
LEMMA InsertLeaves ==
    ASSUME TypeOK, WriteInv, NEW r \in Requests, Moves(r), kind[r] = "upload",
           writes[r].insert # {}, writes'[r].insert = {}, reply'[r] # "raised"
    PROVE  EndSession(r)
<1>0. DOMAIN writes = Requests /\ DOMAIN reply = Requests /\ writes[r] \in Writes /\ WriteOf(r)
  BY DEF TypeOK, WriteInv
<1> USE <1>0, Returns DEF Writes, WriteOf
<1>1. CASE StartStream(r) \/ StreamRejected(r)
  BY <1>1 DEF StartStream, StreamRejected
<1>2. CASE StreamEnds(r) \/ StartIngest(r)
  BY <1>2 DEF StreamEnds, StartIngest
<1>3. CASE LookupHash(r) \/ IngestRejected(r)
  BY <1>3 DEF LookupHash, IngestRejected
<1>4. CASE Extract(r) \/ Insert(r)
  BY <1>4 DEF Extract, Insert, StatementFails
<1>5. CASE PutArtifact(r) \/ Publish(r)
  BY <1>5 DEF PutArtifact, Publish
<1>6. CASE FindDocument(r) \/ ListDocuments(r)
  BY <1>6 DEF FindDocument, ListDocuments
<1>7. CASE RemoveArtifact(r) \/ RemoveFile(r)
  BY <1>7 DEF RemoveArtifact, RemoveFile
<1>8. CASE Purge(r) \/ DeleteRow(r)
  BY <1>8 DEF Purge, DeleteRow
<1>9. CASE ClearRoot(r) \/ StartAsk(r)
  BY <1>9 DEF ClearRoot, StartAsk
<1>10. CASE Embed(r) \/ Retrieve(r)
  BY <1>10 DEF Embed, Retrieve, StatementFails
<1>11. CASE Link(r) \/ Dispatch(r)
  BY <1>11 DEF Link, Dispatch, StatementFails
<1>12. CASE EndSession(r) \/ DeadlockDetected(r)
  BY <1>12 DEF EndSession, DeadlockDetected, StatementFails
<1>13. CASE RequestRaises(r) \/ CommitFails(r)
  BY <1>13 DEF RequestRaises, CommitFails
<1>14. QED
  BY <1>1, <1>2, <1>3, <1>4, <1>5, <1>6, <1>7, <1>8, <1>9, <1>10, <1>11, <1>12,
     <1>13 DEF Moves, Step

\* What is stored is what was inserted and not deleted: only the end of a session adds to it
\* and takes from it.
LEMMA DocsOf ==
    ASSUME TypeOK, WriteInv, ReplyInv, NEW r \in Requests, Moves(r), NEW d
    PROVE  /\ d \in docs' \ docs =>
                 d = r /\ EndSession(r) /\ writes[r].insert = {r} /\ reply[r] = "created"
           /\ d \in docs \ docs' => EndSession(r) /\ r \in Deletions /\ d \in writes[r].delete
           /\ d \in writes[r].delete /\ EndSession(r) /\ ~RollsBack(r) => d \notin docs'
<1>0. WriteOf(r) /\ ReplyOf(r)
  BY DEF WriteInv, ReplyInv
<1>1. CASE EndSession(r)
  BY <1>0, <1>1 DEF EndSession, RollsBack, database, WriteOf, ReplyOf, Ended
<1>2. CASE ~EndSession(r)
  BY <1>2, OnlyCommits
<1>3. QED
  BY <1>1, <1>2

LEMMA RunsOf ==
    ASSUME TypeOK, WriteInv, NEW r \in Requests, Moves(r), NEW a
    PROVE  /\ a \in runs' \ runs => a = r /\ EndSession(r) /\ kind[r] = "ask"
           /\ a \in writes[r].purge /\ EndSession(r) /\ ~RollsBack(r) => a \notin runs'
<1>1. CASE EndSession(r)
  BY <1>1 DEF EndSession, RollsBack, database
<1>2. CASE ~EndSession(r)
  BY <1>2, OnlyCommits
<1>3. QED
  BY <1>1, <1>2

LEMMA DeletionsStay == ASSUME Next PROVE Deletions' = Deletions
BY GivenStays DEF Deletions

\* What a deletion is to delete does not become less.
LEMMA SeenGrows ==
    ASSUME TypeOK, PlaceInv, ReplyInv, NEW r \in Requests, Moves(r), NEW s \in Deletions
    PROVE  seen[s] \subseteq seen'[s]
BY SeenOf, OthersStay DEF Deletions

LEMMA SettledStays ==
    ASSUME TypeOK, NEW r \in Requests, Moves(r), NEW d \in Docs, SettledDocument(d)
    PROVE  SettledDocument(d)' /\ d # r
BY CourseOf, OthersStay, DocumentStoreAssumption DEF SettledDocument, Docs

-----------------------------------------------------------------------------
(* The parts of the invariant, under a step of one request.                 *)

LEMMA HistoryKept ==
    ASSUME IInv, NEW r \in Requests, Moves(r)
    PROVE  HistoryInv'
<1>0. TypeOK /\ PlaceInv /\ WriteInv /\ ReplyInv /\ HistoryInv
  BY DEF IInv
<1>1. kind' = kind /\ Deletions' = Deletions
  BY GivenStays, DeletionsStay DEF Moves, Next
<1>2. EndSession(r) => pc'[r] = "done"
  BY <1>0, Goes DEF EndSession
<1>3. /\ docs \subseteq Docs /\ runs \subseteq Requests
      /\ \A s \in Requests : seen[s] \subseteq Docs /\ before[s] \subseteq Requests
  BY <1>0 DEF TypeOK
<1>4. \A d \in docs' : SettledDocument(d)'
  BY <1>0, <1>2, <1>3, DocsOf, SettledStays DEF HistoryInv, SettledDocument
<1>5. ASSUME NEW s \in Deletions, NEW d \in seen'[s] PROVE SettledDocument(d)'
  <2>1. d \in seen[s] \/ d \in docs
    BY <1>0, OthersStay, SeenOf DEF Deletions
  <2>2. QED
    BY <1>0, <1>3, <2>1, SettledStays DEF HistoryInv, Deletions
<1>6. ASSUME NEW a, SettledRun(a) PROVE SettledRun(a)'
  BY <1>0, <1>1, <1>6, CourseOf, OthersStay DEF SettledRun
<1>7. \A a \in runs' : SettledRun(a)'
  BY <1>0, <1>1, <1>2, <1>6, RunsOf DEF HistoryInv, SettledRun
<1>8. ASSUME NEW s \in Requests, NEW a \in before'[s] PROVE SettledRun(a)'
  <2>1. a \in before[s] \/ a \in runs
    BY <1>0, OthersStay, SeenOf
  <2>2. QED
    BY <1>0, <1>6, <2>1 DEF HistoryInv
<1>9. QED
  BY <1>1, <1>4, <1>5, <1>7, <1>8 DEF HistoryInv

\* The only one to have its content.
Alone(r) ==
    /\ \A e \in docs : content[e] # content[r]
    /\ \A s \in Requests \ {r} : writes[s].insert # {} => content[s] # content[r]

LEMMA InsertsKept ==
    ASSUME IInv, NEW r \in Requests, Moves(r)
    PROVE  InsertInv'
<1>0. TypeOK /\ WriteInv /\ ReplyInv /\ InsertInv
  BY DEF IInv
<1>1. content' = content
  BY GivenStays DEF Moves, Next
<1>2. ASSUME writes'[r].insert # {} PROVE writes[r].insert # {} \/ (Insert(r) /\ Alone(r))
  <2>1. CASE Insert(r)
    <3>1. Blockers(r) = {} /\ pc[r] = "insert"
      BY <2>1 DEF Insert
    <3>2. ASSUME NEW s \in Requests, s # r, writes[s].insert # {} PROVE content[s] # content[r]
      <4>1. writes[s].insert = {s}
        BY <1>0, <3>2 DEF WriteInv, WriteOf
      <4>2. QED
        BY <3>1, <3>2, <4>1 DEF Blockers, Having, SameContent, Docs
    <3>3. docs \cap SameContent(r) = {}
      BY <1>0, <1>2, <2>1 DEF Insert, StatementFails, NoWrites, TypeOK
    <3>4. QED
      BY <1>0, <2>1, <3>2, <3>3 DEF Alone, SameContent, TypeOK
  <2>2. QED
    BY <1>0, <1>2, <2>1, InsertsOnly
<1>3. SUFFICES ASSUME NEW s \in Requests, writes'[s].insert # {} PROVE Alone(s)'
  BY DEF InsertInv, Alone
<1>4. CASE Insert(r) /\ Alone(r)
  <2>1. docs' = docs
    BY <1>4, OnlyCommits DEF Insert, EndSession
  <2>2. QED
    BY <1>0, <1>1, <1>3, <1>4, <2>1, OthersStay DEF Alone, InsertInv
<1>5. CASE writes'[r].insert # {} => writes[r].insert # {}
  <2>1. \A t \in Requests : writes'[t].insert # {} => writes[t].insert # {}
    BY <1>0, <1>5, OthersStay
  <2>2. ASSUME NEW e \in docs' PROVE content[e] # content[s]
    <3>1. CASE e \in docs
      BY <1>3, <2>1, <3>1, <1>0 DEF InsertInv
    <3>2. CASE e \notin docs
      <4>1. e = r /\ writes[r].insert # {} /\ writes'[r] = NoWrites
        <5>1. EndSession(r) /\ e = r /\ writes[r].insert = {r}
          BY <1>0, <3>2, DocsOf
        <5>2. QED
          BY <1>0, <5>1 DEF EndSession, TypeOK
      <4>2. s # r
        BY <1>3, <4>1 DEF NoWrites
      <4>3. QED
        BY <1>0, <1>3, <2>1, <4>1, <4>2 DEF InsertInv
    <3>3. QED
      BY <3>1, <3>2
  <2>3. QED
    BY <1>0, <1>1, <1>3, <2>1, <2>2 DEF Alone, InsertInv
<1>6. QED
  BY <1>2, <1>4, <1>5

LEMMA EmbedsKept ==
    ASSUME IInv, NEW r \in Requests, Moves(r)
    PROVE  EmbedInv'
<1>0. TypeOK /\ WriteInv /\ ReplyInv /\ EmbedInv /\ WriteInv'
  BY WritesKept DEF IInv
<1>1. kind' = kind /\ Deletions' = Deletions
  BY GivenStays, DeletionsStay DEF Moves, Next
<1>2. writes'[r].embed \subseteq writes[r].embed \/ Embed(r)
  BY <1>0, EmbedsOnly
<1>3. writes'[r].delete \subseteq writes[r].delete \/ DeleteRow(r)
  BY <1>0, DeletesOnly
<1>4. ASSUME NEW s \in Requests, NEW d \in writes[s].embed PROVE d \in docs'
  <2>1. d \in docs /\ \A t \in Requests : d \notin writes[t].delete
    BY <1>0 DEF EmbedInv
  <2>2. QED
    BY <1>0, <2>1, DocsOf
<1>5. CASE Embed(r)
  <2>1. /\ Blockers(r) = {} /\ pc[r] = "embed" /\ docs' = docs
        /\ writes'[r].embed \subseteq todo[r] \cap docs \/ writes'[r].embed = {}
        /\ writes'[r].delete \subseteq writes[r].delete
    BY <1>0, <1>5 DEF Embed, StatementFails, NoWrites, TypeOK, Writes, database
  <2>2. ASSUME NEW s \in Requests PROVE writes'[r].embed \cap writes'[s].delete = {}
    <3>1. CASE s = r
      BY <1>0, <3>1 DEF WriteInv, WriteOf, Deletions
    <3>2. CASE s # r
      BY <1>0, <2>1, <3>2, OthersStay DEF Blockers, Having
    <3>3. QED
      BY <3>1, <3>2
  <2>3. ASSUME NEW s \in Requests, NEW t \in Requests, s # r
        PROVE writes'[s].embed \cap writes'[t].delete = {}
    BY <1>0, <2>1, <2>3, OthersStay DEF EmbedInv
  <2>4. QED
    BY <1>0, <2>1, <2>2, <2>3, OthersStay DEF EmbedInv
<1>6. CASE DeleteRow(r)
  <2>1. /\ Blockers(r) = {} /\ pc[r] = "delete_row" /\ docs' = docs
        /\ writes'[r].delete \subseteq writes[r].delete \cup todo[r]
        /\ writes'[r].embed = writes[r].embed
    BY <1>0, <1>6 DEF DeleteRow, TypeOK, Writes, database
  <2>2. ASSUME NEW s \in Requests PROVE writes'[s].embed \cap writes'[r].delete = {}
    <3>1. CASE s = r
      BY <1>0, <3>1 DEF WriteInv, WriteOf, Deletions
    <3>2. CASE s # r
      BY <1>0, <2>1, <3>2, OthersStay DEF Blockers, Having, EmbedInv
    <3>3. QED
      BY <3>1, <3>2
  <2>3. QED
    BY <1>0, <2>1, <2>2, OthersStay DEF EmbedInv
<1>7. CASE ~Embed(r) /\ ~DeleteRow(r)
  BY <1>0, <1>2, <1>3, <1>4, <1>7, OthersStay DEF EmbedInv
<1>8. QED
  BY <1>5, <1>6, <1>7

\* Who was stored, was.
LEMMA WasStays ==
    ASSUME IInv, NEW r \in Requests, Moves(r), NEW d, Was(d)
    PROVE  Was(d)'
<1>0. TypeOK /\ PlaceInv /\ WriteInv /\ ReplyInv
  BY DEF IInv
<1>1. Deletions' = Deletions
  BY DeletionsStay DEF Moves, Next
<1>2. CASE d \in docs \ docs'
  <2>1. r \in Deletions /\ d \in seen[r]
    BY <1>0, <1>2, DocsOf DEF WriteInv, WriteOf
  <2>2. QED
    BY <1>0, <1>1, <2>1, SeenGrows DEF Was
<1>3. CASE d \notin docs \ docs'
  BY <1>0, <1>1, <1>3, SeenGrows DEF Was
<1>4. QED
  BY <1>2, <1>3

LEMMA AnswersKept ==
    ASSUME IInv, NEW r \in Requests, Moves(r)
    PROVE  AnswerInv'
<1>0. TypeOK /\ PlaceInv /\ WriteInv /\ ReplyInv /\ HistoryInv /\ AnswerInv /\ ReplyInv'
  BY RepliesKept DEF IInv
<1>1. kind' = kind /\ Deletions' = Deletions
  BY GivenStays, DeletionsStay DEF Moves, Next
<1>2. ASSUME NEW s \in Requests, reply'[s] = "existing"
      PROVE  seen'[s] # {} /\ \A d \in seen'[s] : Was(d)'
  <2>1. CASE reply[s] = "existing"
    <3>1. seen'[s] = seen[s]
      BY <1>0, <2>1, OthersStay, SeenOf DEF ReplyInv, ReplyOf
    <3>2. QED
      BY <1>0, <2>1, <3>1, WasStays DEF AnswerInv
  <2>2. CASE reply[s] # "existing"
    <3>1. s = r
      BY <1>0, <1>2, <2>2, OthersStay
    <3>2. LookupHash(r)
      <4>1. pc[r] \notin Ended
        BY <1>0, <1>2, <2>2, <3>1, AnswerStays
      <4>2. QED
        BY <1>0, <1>2, <2>2, <3>1, <4>1, Existing
    <3>3. seen'[r] # {} /\ seen'[r] \subseteq docs /\ docs' = docs
      BY <1>0, <1>2, <3>1, <2>2, <3>2 DEF LookupHash, Visible, TypeOK, database
    <3>4. QED
      BY <3>1, <3>3 DEF Was
  <2>3. QED
    BY <2>1, <2>2
<1>3. ASSUME NEW s \in Requests, pc'[s] = "done", reply'[s] = "created" PROVE Was(s)'
  <2>1. CASE pc[s] = "done"
    <3>1. s # r
      BY <1>0, <2>1, CourseOf
    <3>2. QED
      BY <1>0, <1>3, <2>1, <3>1, OthersStay, WasStays DEF AnswerInv
  <2>2. CASE pc[s] # "done"
    <3>1. s = r /\ pc[r] = "commit"
      BY <1>0, <1>3, <2>2, OthersStay, CourseOf
    <3>2. EndSession(r) /\ reply[r] = "created"
      BY <1>0, <1>3, <3>1, EndsWell
    <3>3. r \notin Deletions /\ writes[r].insert = {r} /\ writes[r].delete = {}
      BY <1>0, <3>1, <3>2 DEF WriteInv, WriteOf, ReplyInv, ReplyOf, Deletions
    <3>4. r \in docs'
      BY <3>2, <3>3 DEF EndSession, RollsBack
    <3>5. QED
      BY <3>1, <3>4 DEF Was
  <2>3. QED
    BY <2>1, <2>2
<1>4. ASSUME NEW s \in Requests, pc'[s] = "done", reply'[s] = "deleted"
      PROVE  seen'[s] \cap docs' = {}
  <2>0. s \in Deletions
    BY <1>0, <1>1, <1>4 DEF ReplyInv, ReplyOf
  <2>1. CASE pc[s] = "done"
    <3>1. s # r
      BY <1>0, <2>1, CourseOf
    <3>2. seen'[s] = seen[s] /\ seen[s] \cap docs = {}
      BY <1>0, <1>4, <2>1, <3>1, OthersStay DEF AnswerInv
    <3>3. \A d \in seen[s] : d # r
      BY <1>0, <2>0, SettledStays DEF HistoryInv, TypeOK, Deletions
    <3>4. QED
      BY <1>0, <3>2, <3>3, DocsOf
  <2>2. CASE pc[s] # "done"
    <3>1. s = r /\ pc[r] = "commit"
      BY <1>0, <1>4, <2>2, OthersStay, CourseOf
    <3>2. EndSession(r) /\ reply[r] = "deleted"
      BY <1>0, <1>4, <3>1, EndsWell
    <3>3. writes[r].delete = seen[r] /\ seen'[r] = seen[r]
      BY <1>0, <3>1, <3>2, SeenOf DEF ReplyInv, ReplyOf, Ended
    <3>4. ~RollsBack(r)
      BY <3>2 DEF RollsBack
    <3>5. QED
      BY <1>0, <3>1, <3>2, <3>3, <3>4, DocsOf
  <2>3. QED
    BY <2>1, <2>2
<1>5. ASSUME NEW e \in events'
      PROVE  e \in Requests /\ kind[e] = "upload" /\ reply'[e] \in {"created", "raised"}
  <2>1. CASE Publish(r) /\ e = r
    BY <1>0, <2>1, Returns DEF Publish, PlaceInv, PlaceOf
  <2>2. CASE e \in events
    <3>1. e \in Requests /\ kind[e] = "upload" /\ reply[e] \in {"created", "raised"}
      BY <1>0, <2>2 DEF AnswerInv
    <3>2. pc[e] \in Ended
      BY <1>0, <3>1 DEF ReplyInv, ReplyOf
    <3>3. QED
      BY <1>0, <3>1, <3>2, OthersStay, AnswerStays
  <2>3. QED
    BY <2>1, <2>2, EventsOf DEF Publish
<1>6. QED
  BY <1>1, <1>2, <1>3, <1>4, <1>5 DEF AnswerInv

LEMMA PurgesKept ==
    ASSUME IInv, NEW r \in Requests, Moves(r)
    PROVE  PurgeInv'
<1>0. TypeOK /\ PlaceInv /\ WriteInv /\ ReplyInv /\ HistoryInv /\ PurgeInv
  BY DEF IInv
<1>1. Deletions' = Deletions
  BY DeletionsStay DEF Moves, Next
<1>2. SUFFICES ASSUME NEW s \in Deletions, NEW a \in before'[s], a \in runs', NEW d \in seen'[a],
                      d \in writes'[s].delete \/ (pc'[s] = "delete_row" /\ d \in todo'[s])
               PROVE  a \in writes'[s].purge
  BY <1>1 DEF PurgeInv
<1>3. pc'[s] # "new" /\ s \in Requests /\ WriteOf(s) /\ ReplyOf(s)
  BY <1>0, <1>2, CourseOf, OthersStay DEF Deletions, WriteInv, WriteOf, ReplyInv, ReplyOf,
     NoWrites
<1>4. CASE pc[s] = "new"
  <2>1. s = r
    BY <1>0, <1>3, <1>4, OthersStay
  <2>2. writes[r] = NoWrites /\ ~Insert(r) /\ ~Purge(r) /\ ~DeleteRow(r) /\ ~Embed(r) /\ ~Link(r)
    BY <1>3, <1>4, <2>1 DEF WriteOf, Insert, Purge, DeleteRow, Embed, Link
  <2>3. writes'[r] = NoWrites
    BY <1>0, <2>2, WritesOf
  <2>4. pc'[r] # "delete_row"
    BY <1>0, <1>4, <2>1, FromNew
  <2>5. QED
    BY <1>2, <2>1, <2>3, <2>4 DEF NoWrites
<1>5. CASE pc[s] # "new"
  <2>1. a \in before[s] /\ seen'[a] = seen[a] /\ a \in runs /\ a # r
    <3>1. a \in before[s]
      BY <1>0, <1>2, <1>3, <1>5, OthersStay, SeenOf
    <3>2. SettledRun(a)
      BY <1>0, <1>3, <3>1 DEF HistoryInv
    <3>3. a # r
      BY <1>0, <3>2, CourseOf DEF SettledRun
    <3>4. QED
      BY <1>0, <1>2, <3>1, <3>2, <3>3, OthersStay, RunsOf DEF SettledRun
  <2>2. CASE s # r
    BY <1>0, <1>2, <1>3, <2>1, <2>2, OthersStay DEF PurgeInv
  <2>3. CASE s = r /\ Purge(r)
    <3>1. /\ writes'[r].purge = writes[r].purge \cup RunsUsing(todo[r])
          /\ writes'[r].delete = writes[r].delete /\ todo'[r] = todo[r]
      BY <1>0, <2>3 DEF Purge, TypeOK, Writes
    <3>2. CASE d \in todo[r]
      BY <1>2, <2>1, <2>3, <3>1, <3>2 DEF RunsUsing
    <3>3. CASE d \in writes[r].delete
      BY <1>0, <1>2, <2>1, <2>3, <3>1, <3>3 DEF PurgeInv
    <3>4. QED
      BY <1>2, <2>3, <3>1, <3>2, <3>3
  <2>4. CASE s = r /\ DeleteRow(r)
    <3>1. /\ writes'[r].purge = writes[r].purge /\ pc[r] = "delete_row" /\ todo'[r] = todo[r]
          /\ writes'[r].delete = writes[r].delete \cup todo[r]
      BY <1>0, <2>4 DEF DeleteRow, TypeOK, Writes
    <3>2. QED
      BY <1>0, <1>2, <2>1, <2>4, <3>1 DEF PurgeInv
  <2>5. CASE s = r /\ ~Purge(r) /\ ~DeleteRow(r)
    <3>1. pc'[r] # "delete_row"
      BY <1>0, <2>5, FromPurge
    <3>2. writes'[r] = writes[r] \/ writes'[r] = NoWrites
      BY <1>0, <1>2, <1>3, <2>5, WritesOf DEF PlaceInv, PlaceOf, Deletions, Insert, Embed, Link
    <3>3. QED
      BY <1>0, <1>2, <2>1, <2>5, <3>1, <3>2 DEF PurgeInv, NoWrites
  <2>6. QED
    BY <2>2, <2>3, <2>4, <2>5
<1>6. QED
  BY <1>4, <1>5

LEMMA PurgedStaysGone ==
    ASSUME IInv, NEW r \in Requests, Moves(r)
    PROVE  PurgedHistoryIsGone'
<1>0. TypeOK /\ PlaceInv /\ WriteInv /\ ReplyInv /\ HistoryInv /\ PurgeInv /\ PurgedHistoryIsGone
  BY DEF IInv
<1>1. SUFFICES ASSUME NEW s \in Requests, pc'[s] = "done", reply'[s] = "deleted",
                      NEW a \in before'[s], seen'[a] \cap seen'[s] # {}
               PROVE  a \notin runs'
  BY DEF PurgedHistoryIsGone
<1>2. pc[s] # "new" /\ before'[s] = before[s] /\ seen'[s] = seen[s] /\ pc[s] \in Ended
  <2>1. pc[s] # "new" /\ pc[s] \in Ended
    BY <1>0, <1>1, CourseOf, OthersStay DEF Ended
  <2>2. QED
    BY <1>0, <2>1, OthersStay, SeenOf
<1>3. SettledRun(a) /\ a # r /\ seen'[a] = seen[a]
  BY <1>0, <1>1, <1>2, CourseOf, OthersStay DEF HistoryInv, SettledRun
<1>4. CASE pc[s] = "done"
  <2>1. s # r
    BY <1>0, <1>4, CourseOf
  <2>2. reply[s] = "deleted"
    BY <1>0, <1>1, <2>1, OthersStay
  <2>3. a \notin runs
    BY <1>0, <1>1, <1>2, <1>3, <1>4, <2>2 DEF PurgedHistoryIsGone
  <2>4. QED
    BY <1>0, <1>3, <2>3, RunsOf
<1>5. CASE pc[s] # "done"
  <2>1. s = r /\ pc[r] = "commit"
    BY <1>0, <1>1, <1>5, CourseOf, OthersStay
  <2>2. EndSession(r) /\ reply[r] = "deleted"
    BY <1>0, <1>1, <2>1, EndsWell
  <2>3. r \in Deletions /\ writes[r].delete = seen[r] /\ ~RollsBack(r)
    BY <1>0, <2>1, <2>2 DEF ReplyInv, ReplyOf, RollsBack
  <2>4. a \in runs => a \in writes[r].purge
    BY <1>0, <1>1, <1>2, <1>3, <2>1, <2>3 DEF PurgeInv
  <2>5. QED
    BY <1>0, <1>3, <2>2, <2>3, <2>4, RunsOf
<1>6. QED
  BY <1>4, <1>5

\* A document keeps its file, or who removed it; only its own upload, before it inserts the
\* document, takes the file away and leaves no trace.
LEMMA FileKeptStays ==
    ASSUME IInv, NEW r \in Requests, Moves(r), NEW d, FileKept(d),
           d = r => pc[r] \notin {"streaming", "lookup", "extract"}
    PROVE  FileKept(d)'
<1>0. TypeOK /\ PlaceInv /\ WriteInv /\ ReplyInv
  BY DEF IInv
<1>1. kind' = kind /\ Deletions' = Deletions
  BY GivenStays, DeletionsStay DEF Moves, Next
<1>2. CASE d \in files
  <2>1. CASE d \in files'
    BY <2>1 DEF FileKept
  <2>2. CASE r \in Deletions /\ d \in todo[r]
    BY <1>0, <1>1, <2>2, SeenGrows DEF FileKept, WriteInv, WriteOf
  <2>3. CASE kind[r] = "clear" /\ pc[r] # "new"
    <3>1. r \in Deletions' /\ kind'[r] = "clear" /\ pc'[r] # "new"
      BY <1>0, <1>1, <2>3, CourseOf DEF Deletions
    <3>2. QED
      BY <3>1 DEF FileKept
  <2>4. QED
    BY <1>0, <1>2, <2>1, <2>2, <2>3, FilesOf
<1>3. CASE \E s \in Deletions : d \in seen[s]
  BY <1>0, <1>1, <1>3, SeenGrows DEF FileKept
<1>4. CASE \E s \in Deletions : kind[s] = "clear" /\ pc[s] # "new"
  <2>1. PICK s \in Deletions : kind[s] = "clear" /\ pc[s] # "new"
    BY <1>4
  <2>2. pc'[s] # "new"
    BY <1>0, <2>1, CourseOf, OthersStay DEF Deletions
  <2>3. QED
    BY <1>1, <2>1, <2>2 DEF FileKept
<1>5. QED
  BY <1>2, <1>3, <1>4 DEF FileKept

\* Its artifact goes only with a deletion of a document of the same content.
LEMMA ArtifactKeptStays ==
    ASSUME IInv, NEW r \in Requests, Moves(r), NEW d, ArtifactKept(d)
    PROVE  ArtifactKept(d)'
<1>0. TypeOK /\ PlaceInv /\ WriteInv /\ ReplyInv
  BY DEF IInv
<1>1. content' = content /\ Deletions' = Deletions
  BY GivenStays, DeletionsStay DEF Moves, Next
<1>2. CASE \E s \in Deletions : \E e \in seen[s] : content[e] = content[d]
  BY <1>0, <1>1, <1>2, SeenGrows DEF ArtifactKept
<1>3. CASE content[d] \in artifacts \ artifacts'
  <2>1. r \in Deletions /\ \E e \in seen[r] : content[e] = content[d]
    BY <1>0, <1>3, ArtifactsOf
  <2>2. QED
    BY <1>2, <2>1
<1>4. CASE content[d] \in artifacts'
  BY <1>1, <1>4 DEF ArtifactKept
<1>5. QED
  BY <1>2, <1>3, <1>4 DEF ArtifactKept

\* An upload that has put its artifact, and no other, publishes or answers "created".
Putting(r) == pc[r] = "publish" \/ (kind[r] = "upload" /\ reply[r] = "created" /\ pc[r] # "done")

LEMMA SourcesKept ==
    ASSUME IInv, NEW r \in Requests, Moves(r)
    PROVE  SourceInv'
<1>0. TypeOK /\ PlaceInv /\ WriteInv /\ ReplyInv /\ SourceInv
  BY DEF IInv
<1>1. kind' = kind /\ content' = content /\ Deletions' = Deletions
  BY GivenStays, DeletionsStay DEF Moves, Next
<1>2. SUFFICES ASSUME NEW s \in Requests, Putting(s)' PROVE FileKept(s)' /\ ArtifactKept(s)'
  BY DEF SourceInv, Putting
<1>3. CASE Putting(s)
  <2>1. FileKept(s) /\ ArtifactKept(s)
    BY <1>0, <1>3 DEF SourceInv, Putting
  <2>2. pc[s] \notin {"streaming", "lookup", "extract"}
    BY <1>0, <1>3 DEF Putting, ReplyInv, ReplyOf, Ended
  <2>3. QED
    BY <2>1, <2>2, FileKeptStays, ArtifactKeptStays
<1>4. CASE ~Putting(s)
  <2>1. s = r
    BY <1>0, <1>1, <1>2, <1>4, OthersStay DEF Putting
  <2>2. PutArtifact(r) /\ r \in files
    <3>1. CASE pc'[r] = "publish"
      BY <1>0, <1>4, <2>1, <3>1, ToPublish DEF Putting
    <3>2. CASE kind[r] = "upload" /\ reply'[r] = "created" /\ pc'[r] # "done"
      <4>1. pc[r] \notin Ended
        BY <1>0, <1>4, <2>1, <3>2, AnswerStays, CourseOf DEF Putting, Ended
      <4>2. Publish(r) \/ (Insert(r) /\ kind[r] # "upload")
        BY <1>0, <3>2, <4>1, Created DEF ReplyInv, ReplyOf
      <4>3. QED
        BY <1>4, <2>1, <3>2, <4>2 DEF Publish, Putting
    <3>3. QED
      BY <1>1, <1>2, <2>1, <3>1, <3>2 DEF Putting
  <2>3. r \in files' /\ content[r] \in artifacts'
    BY <1>0, <2>2, Returns, ToPublish DEF PutArtifact
  <2>4. QED
    BY <1>1, <2>1, <2>3 DEF FileKept, ArtifactKept
<1>5. QED
  BY <1>3, <1>4

LEMMA StoredSourceKept ==
    ASSUME IInv, NEW r \in Requests, Moves(r)
    PROVE  StoredSourceIsComplete'
<1>0. TypeOK /\ PlaceInv /\ WriteInv /\ ReplyInv /\ HistoryInv /\ SourceInv /\ StoredSourceIsComplete
  BY DEF IInv
<1>1. kind' = kind
  BY GivenStays DEF Moves, Next
<1>2. SUFFICES ASSUME NEW d \in docs', Managed(d)' PROVE FileKept(d)' /\ ArtifactKept(d)'
  BY DEF StoredSourceIsComplete, FileKept, ArtifactKept
<1>3. Managed(d)
  BY <1>1, <1>2 DEF Managed
<1>4. CASE d \in docs
  <2>1. FileKept(d) /\ ArtifactKept(d)
    BY <1>0, <1>3, <1>4 DEF StoredSourceIsComplete, FileKept, ArtifactKept
  <2>2. d # r
    BY <1>0, <1>4, SettledStays DEF HistoryInv, TypeOK
  <2>3. QED
    BY <2>1, <2>2, FileKeptStays, ArtifactKeptStays
<1>5. CASE d \notin docs
  <2>1. d = r /\ EndSession(r) /\ reply[r] = "created"
    BY <1>0, <1>5, DocsOf
  <2>2. pc[r] = "commit" /\ kind[r] = "upload"
    BY <1>3, <2>1, DocumentStoreAssumption DEF EndSession, Managed
  <2>3. FileKept(r) /\ ArtifactKept(r)
    BY <1>0, <2>1, <2>2 DEF SourceInv
  <2>4. QED
    BY <2>1, <2>2, <2>3, FileKeptStays, ArtifactKeptStays
<1>6. QED
  BY <1>4, <1>5

LEMMA FilesKept ==
    ASSUME IInv, NEW r \in Requests, Moves(r)
    PROVE  FileInv'
<1>0. /\ TypeOK /\ PlaceInv /\ WriteInv /\ ReplyInv /\ HistoryInv /\ FileInv
      /\ WriteInv' /\ ReplyInv'
  BY WritesKept, RepliesKept DEF IInv
<1>1. kind' = kind /\ Deletions' = Deletions
  BY GivenStays, DeletionsStay DEF Moves, Next
<1>2. \A f \in files' : f \in files \/ (f = r /\ StartStream(r))
  BY <1>0, FilesOf
<1>3. ASSUME StartStream(r) PROVE kind[r] = "upload" /\ pc'[r] = "streaming" /\ reply'[r] = "none"
  BY <1>0, <1>3, Goes DEF StartStream, ReplyInv, ReplyOf, Ended
<1>4. ASSUME NEW s \in Requests, kind[s] = "upload", reply'[s] \in {"existing", "rejected"}
      PROVE  s \notin files'
  <2>1. CASE reply[s] \in {"existing", "rejected"}
    <3>1. s \notin files
      BY <1>0, <1>4, <2>1 DEF FileInv
    <3>2. QED
      BY <1>2, <1>3, <1>4, <3>1
  <2>2. CASE reply[s] \notin {"existing", "rejected"}
    <3>1. s = r
      BY <1>0, <1>4, <2>2, OthersStay
    <3>2. pc[r] \notin Ended
      BY <1>0, <1>4, <2>2, <3>1, AnswerStays
    <3>3. QED
      BY <1>0, <1>4, <2>2, <3>1, <3>2, Refused
  <2>3. QED
    BY <2>1, <2>2
<1>5. ASSUME NEW f \in files' PROVE Managed(f)' /\ (f \in docs' \/ Excused(f)')
  <2>1. CASE f = r /\ StartStream(r)
    BY <1>1, <1>3, <2>1 DEF Managed, Excused
  <2>2. CASE f \in files
    <3>1. Managed(f)
      BY <1>0, <2>2 DEF FileInv
    <3>2. CASE f \in docs
      <4>1. f \notin writes[r].delete \/ r \notin Deletions
        BY <1>0, <2>2 DEF FileInv
      <4>2. QED
        BY <1>0, <1>1, <3>1, <3>2, <4>1, DocsOf DEF Managed
    <3>3. CASE f \notin docs
      <4>1. Excused(f) /\ f \in Requests /\ kind[f] = "upload"
        BY <1>0, <2>2, <3>3 DEF FileInv, Excused
      <4>2. CASE pc'[f] # "done" \/ reply'[f] = "raised"
        BY <1>1, <3>1, <4>1, <4>2 DEF Excused, Managed
      <4>3. CASE pc'[f] = "done" /\ reply'[f] # "raised"
        <5>1. f = r /\ pc[r] = "commit"
          BY <1>0, <4>1, <4>3, OthersStay, CourseOf DEF Excused
        <5>2. EndSession(r) /\ reply[r] = reply'[r]
          BY <1>0, <4>3, <5>1, EndsWell
        <5>3. reply[r] \in {"created", "existing", "rejected"}
          BY <1>0, <1>1, <4>1, <4>3, <5>1, <5>2 DEF ReplyInv, ReplyOf, Ended, Deletions, TypeOK
        <5>4. reply[r] = "created"
          BY <1>0, <2>2, <4>1, <5>1, <5>3 DEF FileInv
        <5>5. writes[r].insert = {r} /\ writes[r].delete = {}
          BY <1>0, <4>1, <5>1, <5>4 DEF ReplyInv, ReplyOf, WriteInv, WriteOf, Deletions
        <5>6. r \in docs'
          BY <5>2, <5>4, <5>5 DEF EndSession, RollsBack
        <5>7. QED
          BY <1>1, <3>1, <5>1, <5>6 DEF Managed
      <4>4. QED
        BY <4>2, <4>3
    <3>4. QED
      BY <3>2, <3>3
  <2>3. QED
    BY <1>2, <2>1, <2>2
<1>6. ASSUME NEW s \in Deletions, NEW f \in files',
             f \in writes'[s].delete \/ (pc'[s] \in {"purge", "delete_row"} /\ f \in todo'[s])
      PROVE  FALSE
  <2>1. f \in seen'[s]
    BY <1>0, <1>1, <1>6 DEF WriteInv, WriteOf, Deletions
  <2>2. f \in files
    <3>1. CASE f = r /\ StartStream(r)
      <4>1. s # r /\ seen'[s] = seen[s]
        BY <1>0, <3>1, OthersStay DEF StartStream, Deletions
      <4>2. QED
        BY <1>0, <2>1, <3>1, <4>1, SettledStays DEF HistoryInv, TypeOK, Deletions
    <3>2. QED
      BY <1>2, <3>1
  <2>3. f \notin writes[s].delete /\ (pc[s] \in {"purge", "delete_row"} => f \notin todo[s])
    BY <1>0, <2>2 DEF FileInv
  <2>4. s = r
    BY <1>0, <1>6, <2>3, OthersStay DEF Deletions
  <2>5. CASE RemoveArtifact(r)
    <3>1. PICK d \in seen[r] : todo'[r] = {d} /\ (Managed(d) => pc'[r] = "remove_file")
      BY <1>0, <2>5, Goes DEF RemoveArtifact, TypeOK
    <3>2. writes'[r] = writes[r]
      BY <2>5 DEF RemoveArtifact
    <3>3. f = d /\ pc'[r] # "remove_file"
      BY <1>6, <2>3, <2>4, <3>1, <3>2
    <3>4. QED
      BY <1>0, <2>2, <3>1, <3>3 DEF FileInv
  <2>6. CASE RemoveFile(r)
    BY <1>6, <2>3, <2>4, <2>6 DEF RemoveFile
  <2>7. CASE DeleteRow(r)
    <3>1. /\ writes'[r].delete = writes[r].delete \cup todo[r] /\ todo' = todo
          /\ pc[r] = "delete_row" /\ pc'[r] \notin {"purge", "delete_row"}
      BY <1>0, <2>7, Goes, Returns DEF DeleteRow, TypeOK, Writes
    <3>2. QED
      BY <1>6, <2>3, <2>4, <3>1
  <2>8. CASE ~RemoveArtifact(r) /\ ~RemoveFile(r) /\ ~DeleteRow(r)
    <3>1. todo' = todo
      BY <1>0, <1>6, <2>4, <2>8, TodoOf DEF StartAsk, Deletions
    <3>2. writes'[r].delete \subseteq writes[r].delete
      BY <1>0, <2>8, DeletesOnly
    <3>3. pc'[r] \in {"purge", "delete_row"} => Purge(r)
      BY <1>0, <2>8, FromPurge, ToPurge
    <3>4. QED
      BY <1>6, <2>3, <2>4, <3>1, <3>2, <3>3 DEF Purge
  <2>9. QED
    BY <2>5, <2>6, <2>7, <2>8
<1>7. QED
  BY <1>1, <1>4, <1>5, <1>6 DEF FileInv

\* An artifact has its owner until it is removed itself.
LEMMA OwnerStays ==
    ASSUME IInv, NEW r \in Requests, Moves(r), NEW d \in Docs, Owner(d),
           d \in docs => d \in docs'
    PROVE  Owner(d)'
<1>0. TypeOK /\ PlaceInv /\ WriteInv /\ ReplyInv
  BY DEF IInv
<1>1. kind' = kind
  BY GivenStays DEF Moves, Next
<1>2. CASE d \in docs /\ Managed(d)
  BY <1>1, <1>2 DEF Owner, Managed
<1>3. CASE d \in Requests /\ kind[d] = "upload" /\ d # r
  BY <1>0, <1>1, <1>2, <1>3, OthersStay DEF Owner
<1>4. CASE d = r /\ kind[r] = "upload" /\ reply[r] = "raised"
  <2>1. reply'[r] = "raised"
    BY <1>0, <1>4, AnswerStays DEF ReplyInv, ReplyOf
  <2>2. QED
    BY <1>1, <1>4, <2>1 DEF Owner
<1>5. CASE d = r /\ kind[r] = "upload" /\ writes[r].insert # {}
  <2>1. CASE writes'[r].insert # {} \/ reply'[r] = "raised"
    BY <1>1, <1>5, <2>1 DEF Owner
  <2>2. CASE writes'[r].insert = {} /\ reply'[r] # "raised"
    <3>1. EndSession(r) /\ writes[r].insert = {r} /\ writes[r].delete = {}
      BY <1>0, <1>5, <2>2, InsertLeaves DEF WriteInv, WriteOf, Deletions
    <3>2. pc[r] = "commit" /\ pc'[r] = "done"
      BY <1>0, <3>1, Goes DEF EndSession
    <3>3. reply[r] = reply'[r] /\ reply[r] = "created"
      BY <1>0, <1>5, <2>2, <3>2, EndsWell DEF ReplyInv, ReplyOf, Ended
    <3>4. r \in docs'
      BY <3>1, <3>3 DEF EndSession, RollsBack
    <3>5. QED
      BY <1>1, <1>5, <3>4 DEF Owner, Managed
  <2>3. QED
    BY <2>1, <2>2
<1>6. QED
  BY <1>2, <1>3, <1>4, <1>5 DEF Owner

LEMMA ArtifactsKept ==
    ASSUME IInv, NEW r \in Requests, Moves(r)
    PROVE  ArtifactInv'
<1>0. /\ TypeOK /\ PlaceInv /\ WriteInv /\ ReplyInv /\ HistoryInv /\ InsertInv /\ ArtifactInv
      /\ WriteInv'
  BY WritesKept DEF IInv
<1>1. kind' = kind /\ content' = content /\ Deletions' = Deletions
  BY GivenStays, DeletionsStay DEF Moves, Next
<1>2. ASSUME PutArtifact(r)
      PROVE  /\ pc[r] = "put" /\ kind[r] = "upload" /\ writes[r].insert = {r} /\ writes' = writes
             /\ docs' = docs /\ todo' = todo
  BY <1>0, <1>2 DEF PutArtifact, PlaceInv, PlaceOf, WriteInv, WriteOf, database
<1>3. ASSUME NEW c \in artifacts' PROVE \E d \in Docs : content[d] = c /\ Owner(d)'
  <2>1. CASE c \in artifacts
    <3>1. PICK d \in Docs : content[d] = c /\ Owner(d)
      BY <1>0, <2>1 DEF ArtifactInv
    <3>2. CASE d \in docs \ docs'
      <4>1. r \in Deletions /\ d \in writes[r].delete /\ EndSession(r)
        BY <1>0, <3>2, DocsOf
      <4>2. Managed(d)
        BY <3>1 DEF Owner, Managed
      <4>3. QED
        BY <1>0, <2>1, <3>1, <3>2, <4>1, <4>2 DEF ArtifactInv
    <3>3. CASE d \notin docs \ docs'
      BY <3>1, <3>3, OwnerStays
    <3>4. QED
      BY <3>2, <3>3
  <2>2. CASE c \notin artifacts
    <3>1. c = content[r] /\ PutArtifact(r)
      BY <1>0, <2>2, ArtifactsOf
    <3>2. Owner(r)'
      BY <1>1, <1>2, <3>1 DEF Owner
    <3>3. QED
      BY <3>1, <3>2 DEF Docs
  <2>3. QED
    BY <2>1, <2>2
<1>4. ASSUME NEW s \in Deletions, NEW d \in (writes'[s].delete \cup todo'[s]) \cap docs', Managed(d)
      PROVE  content[d] \notin artifacts'
  <2>1. d \in seen'[s]
    BY <1>0, <1>1 DEF WriteInv, WriteOf, Deletions
  <2>2. d \in docs
    <3>1. SUFFICES ASSUME d \notin docs PROVE FALSE
      OBVIOUS
    <3>2. d = r /\ EndSession(r) /\ writes[r].insert = {r}
      BY <1>0, <3>1, DocsOf
    <3>3. s # r
      BY <1>0, <3>2 DEF WriteInv, WriteOf, Deletions
    <3>4. d \in seen[s]
      BY <1>0, <2>1, <3>3, OthersStay DEF Deletions
    <3>5. QED
      BY <1>0, <3>2, <3>4, SettledStays DEF HistoryInv, TypeOK, Deletions
  <2>3. content[d] \in artifacts' => content[d] \in artifacts
    <3>1. SUFFICES ASSUME content[d] \in artifacts' \ artifacts PROVE FALSE
      OBVIOUS
    <3>2. content[d] = content[r] /\ PutArtifact(r)
      BY <1>0, <3>1, ArtifactsOf
    <3>3. QED
      BY <1>0, <1>2, <2>2, <3>2 DEF InsertInv
  <2>4. CASE d \in writes[s].delete \cup todo[s]
    BY <1>0, <1>4, <2>2, <2>3, <2>4 DEF ArtifactInv
  <2>5. CASE d \notin writes[s].delete \cup todo[s]
    <3>1. s = r
      BY <1>0, <2>5, OthersStay DEF Deletions
    <3>2. d \in todo'[r] /\ d \notin todo[r]
      BY <1>0, <2>5, <3>1, DeletesOnly DEF DeleteRow, TypeOK, Writes
    <3>3. RemoveArtifact(r)
      BY <1>0, <3>1, <3>2, TodoOf DEF StartAsk, Deletions
    <3>4. QED
      BY <1>0, <1>4, <3>2, <3>3 DEF RemoveArtifact, TypeOK
  <2>6. QED
    BY <2>4, <2>5
<1>5. QED
  BY <1>1, <1>3, <1>4 DEF ArtifactInv, Managed

LEMMA TypeKept ==
    ASSUME IInv, NEW r \in Requests, Moves(r)
    PROVE  TypeOK'
<1>0. TypeOK /\ PlaceInv /\ WriteInv /\ ReplyInv /\ InsertInv /\ EmbedInv
  BY DEF IInv
<1>1. kind' = kind /\ content' = content
  BY GivenStays DEF Moves, Next
<1>2. docs' \subseteq Docs
  BY <1>0, DocsOf DEF TypeOK, Docs
<1>3. embedded' \subseteq docs'
  <2>1. CASE EndSession(r)
    <3>1. writes[r].embed \subseteq docs
      BY <1>0 DEF EmbedInv
    <3>2. QED
      BY <1>0, <2>1, <3>1 DEF EndSession, TypeOK, database
  <2>2. CASE ~EndSession(r)
    BY <1>0, <2>2, OnlyCommits DEF TypeOK
  <2>3. QED
    BY <2>1, <2>2
<1>4. \A d, e \in docs' : content[d] = content[e] => d = e
  <2>1. ASSUME NEW d \in docs', NEW e \in docs', d \notin docs
        PROVE content[d] = content[e] => d = e
    <3>1. d = r /\ writes[r].insert = {r}
      BY <1>0, <2>1, DocsOf
    <3>2. e \in docs => content[e] # content[r]
      BY <1>0, <3>1 DEF InsertInv
    <3>3. e \notin docs => e = r
      BY <1>0, DocsOf
    <3>4. QED
      BY <3>1, <3>2, <3>3
  <2>2. QED
    BY <1>0, <2>1 DEF TypeOK
<1>5. files' \subseteq Docs /\ events' \subseteq Requests
  BY <1>0, FilesOf, EventsOf DEF TypeOK, Docs, Publish
<1>6. artifacts' \subseteq Contents
  BY <1>0, ArtifactsOf DEF TypeOK, PlaceInv, Docs
<1>7. runs' \subseteq Requests
  BY <1>0, RunsOf DEF TypeOK
<1>8. /\ writes' \in [Requests -> Writes]
      /\ seen' \in [Requests -> SUBSET Docs] /\ todo' \in [Requests -> SUBSET Docs]
      /\ before' \in [Requests -> SUBSET Requests]
  <2>1. docs \subseteq Docs /\ runs \subseteq Requests /\ r \in Docs /\ NoWrites \in Writes
    BY <1>0 DEF TypeOK, Docs, NoWrites, Writes
  <2>2. /\ writes \in [Requests -> Writes] /\ before \in [Requests -> SUBSET Requests]
        /\ seen \in [Requests -> SUBSET Docs] /\ todo \in [Requests -> SUBSET Docs]
    BY <1>0 DEF TypeOK
  <2> USE <2>1, <2>2 DEF Writes
  <2>3. QED
    <3>1. CASE StartStream(r)
      BY <3>1 DEF StartStream
    <3>2. CASE StreamRejected(r)
      BY <3>2 DEF StreamRejected
    <3>3. CASE StreamEnds(r)
      BY <3>3 DEF StreamEnds
    <3>4. CASE StartIngest(r)
      BY <3>4 DEF StartIngest
    <3>5. CASE LookupHash(r)
      BY <3>5 DEF LookupHash, Visible
    <3>6. CASE IngestRejected(r)
      BY <3>6 DEF IngestRejected
    <3>7. CASE Extract(r)
      BY <3>7 DEF Extract
    <3>8. CASE Insert(r)
      <4>1. todo' = todo /\ before' = before
        BY <3>8 DEF Insert
      <4>2. CASE writes' = [writes EXCEPT ![r] = NoWrites] /\ seen' = seen
        BY <4>1, <4>2
      <4>3. CASE writes' = [writes EXCEPT ![r].insert = {r}] /\ seen' = [seen EXCEPT ![r] = {r}]
        BY <4>1, <4>3
      <4>4. QED
        BY <3>8, <4>2, <4>3 DEF Insert, StatementFails
    <3>9. CASE PutArtifact(r)
      BY <3>9 DEF PutArtifact
    <3>10. CASE Publish(r)
      BY <3>10 DEF Publish
    <3>11. CASE FindDocument(r)
      <4>1. writes' = writes /\ todo' = todo
        BY <3>11 DEF FindDocument
      <4>2. CASE seen' = seen /\ before' = before
        BY <4>1, <4>2
      <4>3. CASE /\ \E d \in docs : seen' = [seen EXCEPT ![r] = {d}]
                 /\ before' = [before EXCEPT ![r] = runs]
        BY <4>1, <4>3
      <4>4. QED
        BY <3>11, <4>2, <4>3 DEF FindDocument
    <3>12. CASE ListDocuments(r)
      BY <3>12 DEF ListDocuments
    <3>13. CASE RemoveArtifact(r)
      BY <3>13 DEF RemoveArtifact
    <3>14. CASE RemoveFile(r)
      BY <3>14 DEF RemoveFile
    <3>15. CASE Purge(r)
      BY <3>15 DEF Purge, RunsUsing
    <3>16. CASE DeleteRow(r)
      BY <3>16 DEF DeleteRow
    <3>17. CASE ClearRoot(r)
      BY <3>17 DEF ClearRoot
    <3>18. CASE StartAsk(r)
      BY <3>18 DEF StartAsk
    <3>19. CASE Embed(r)
      <4>1. seen' = seen /\ todo' = todo /\ before' = before
        BY <3>19 DEF Embed
      <4>2. CASE writes' = [writes EXCEPT ![r] = NoWrites]
        BY <4>1, <4>2
      <4>3. CASE writes' = [writes EXCEPT ![r].embed = todo[r]]
        BY <4>1, <4>3
      <4>4. QED
        BY <3>19, <4>2, <4>3 DEF Embed, StatementFails
    <3>20. CASE Retrieve(r)
      BY <3>20 DEF Retrieve
    <3>21. CASE Link(r)
      <4>1. seen' = seen /\ todo' = todo /\ before' = before
        BY <3>21 DEF Link
      <4>2. CASE writes' = [writes EXCEPT ![r] = NoWrites]
        BY <4>1, <4>2
      <4>3. CASE writes' = [writes EXCEPT ![r].link = seen[r] \cap docs]
        BY <4>1, <4>3
      <4>4. QED
        BY <3>21, <4>2, <4>3 DEF Link, StatementFails
    <3>22. CASE Dispatch(r)
      BY <3>22 DEF Dispatch
    <3>23. CASE EndSession(r)
      BY <3>23 DEF EndSession
    <3>24. CASE DeadlockDetected(r)
      BY <3>24 DEF DeadlockDetected, StatementFails
    <3>25. CASE RequestRaises(r)
      BY <3>25 DEF RequestRaises
    <3>26. CASE CommitFails(r)
      BY <3>26 DEF CommitFails
    <3>27. QED
      BY <3>1, <3>2, <3>3, <3>4, <3>5, <3>6, <3>7, <3>8, <3>9, <3>10, <3>11, <3>12, <3>13,
         <3>14, <3>15, <3>16, <3>17, <3>18, <3>19, <3>20, <3>21, <3>22, <3>23, <3>24, <3>25,
         <3>26 DEF Moves, Step
<1>9. /\ pc' \in [Requests -> {"new", "streaming", "lookup", "extract", "insert", "put", "publish",
                               "remove_artifact", "remove_file", "purge", "delete_row",
                               "clear_root", "embed", "retrieve", "link", "returned", "commit",
                               "done"}]
      /\ reply' \in [Requests -> {"none", "rejected", "raised", "existing", "created", "deleted",
                                  "answered"}]
  <2> USE <1>0 DEF TypeOK, Goto, Return, StatementFails
  <2>1. CASE StartStream(r) \/ StreamRejected(r)
    BY <2>1 DEF StartStream, StreamRejected
  <2>2. CASE StreamEnds(r) \/ StartIngest(r)
    BY <2>2 DEF StreamEnds, StartIngest
  <2>3. CASE LookupHash(r) \/ IngestRejected(r)
    BY <2>3 DEF LookupHash, IngestRejected
  <2>4. CASE Extract(r) \/ Insert(r)
    BY <2>4 DEF Extract, Insert, StatementFails
  <2>5. CASE PutArtifact(r) \/ Publish(r)
    BY <2>5 DEF PutArtifact, Publish
  <2>6. CASE FindDocument(r) \/ ListDocuments(r)
    BY <2>6 DEF FindDocument, ListDocuments
  <2>7. CASE RemoveArtifact(r) \/ RemoveFile(r)
    BY <2>7 DEF RemoveArtifact, RemoveFile
  <2>8. CASE Purge(r) \/ DeleteRow(r)
    BY <2>8 DEF Purge, DeleteRow
  <2>9. CASE ClearRoot(r) \/ StartAsk(r)
    BY <2>9 DEF ClearRoot, StartAsk
  <2>10. CASE Embed(r) \/ Retrieve(r)
    BY <2>10 DEF Embed, Retrieve, StatementFails
  <2>11. CASE Link(r) \/ Dispatch(r)
    BY <2>11 DEF Link, Dispatch, StatementFails
  <2>12. CASE EndSession(r) \/ DeadlockDetected(r)
    BY <2>12 DEF EndSession, DeadlockDetected, StatementFails
  <2>13. CASE RequestRaises(r) \/ CommitFails(r)
    BY <2>13 DEF RequestRaises, CommitFails
  <2>14. QED
    BY <2>1, <2>2, <2>3, <2>4, <2>5, <2>6, <2>7, <2>8, <2>9, <2>10, <2>11, <2>12,
       <2>13 DEF Moves, Step
<1>10. loop' \in Requests \cup {None} /\ (loop' # None => kind[loop'] = "upload")
  <2>1. \A s \in Requests : loop' = s => kind'[s] = "upload"
    BY <1>0, PlacesKept DEF PlaceInv, PlaceOf
  <2>2. QED
    BY <1>0, <1>1, <2>1, LoopOfOthersStays DEF TypeOK
<1>11. faults' \in 0 .. MaxFaults
  <2> USE <1>0, DocumentStoreAssumption DEF TypeOK, Disturb
  <2>1. CASE StartStream(r) \/ StreamRejected(r) \/ StreamEnds(r) \/ StartIngest(r)
    BY <2>1 DEF StartStream, StreamRejected, StreamEnds, StartIngest
  <2>2. CASE LookupHash(r) \/ IngestRejected(r) \/ Extract(r) \/ Insert(r)
    BY <2>2 DEF LookupHash, IngestRejected, Extract, Insert, StatementFails
  <2>3. CASE PutArtifact(r) \/ Publish(r) \/ FindDocument(r) \/ ListDocuments(r)
    BY <2>3 DEF PutArtifact, Publish, FindDocument, ListDocuments
  <2>4. CASE RemoveArtifact(r) \/ RemoveFile(r) \/ Purge(r) \/ DeleteRow(r)
    BY <2>4 DEF RemoveArtifact, RemoveFile, Purge, DeleteRow
  <2>5. CASE ClearRoot(r) \/ StartAsk(r) \/ Embed(r) \/ Retrieve(r)
    BY <2>5 DEF ClearRoot, StartAsk, Embed, Retrieve, StatementFails
  <2>6. CASE Link(r) \/ Dispatch(r) \/ EndSession(r) \/ DeadlockDetected(r)
    BY <2>6 DEF Link, Dispatch, EndSession, DeadlockDetected, StatementFails
  <2>7. CASE RequestRaises(r) \/ CommitFails(r)
    BY <2>7 DEF RequestRaises, CommitFails
  <2>8. QED
    BY <2>1, <2>2, <2>3, <2>4, <2>5, <2>6, <2>7 DEF Moves, Step
<1>12. QED
  BY <1>1, <1>2, <1>3, <1>4, <1>5, <1>6, <1>7, <1>8, <1>9, <1>10, <1>11 DEF TypeOK

LEMMA StepKeeps == ASSUME IInv, NEW r \in Requests, Moves(r) PROVE IInv'
<1>1. TypeOK /\ PlaceInv /\ WriteInv /\ ReplyInv
  BY DEF IInv
<1>2. TypeOK' /\ PlaceInv' /\ WriteInv' /\ ReplyInv'
  BY <1>1, TypeKept, PlacesKept, WritesKept, RepliesKept
<1>3. HistoryInv' /\ InsertInv' /\ EmbedInv' /\ AnswerInv' /\ PurgeInv'
  BY HistoryKept, InsertsKept, EmbedsKept, AnswersKept, PurgesKept
<1>4. SourceInv' /\ FileInv' /\ ArtifactInv' /\ StoredSourceIsComplete' /\ PurgedHistoryIsGone'
  BY SourcesKept, FilesKept, ArtifactsKept, StoredSourceKept, PurgedStaysGone
<1>5. QED
  BY <1>2, <1>3, <1>4 DEF IInv

-----------------------------------------------------------------------------
(* A crash, the beginning, and the theorems.                                *)

LEMMA CrashKeeps == ASSUME IInv, Crash PROVE IInv'
<1>0. /\ TypeOK /\ PlaceInv /\ WriteInv /\ ReplyInv /\ HistoryInv /\ InsertInv /\ EmbedInv
      /\ AnswerInv /\ PurgeInv /\ SourceInv /\ FileInv /\ ArtifactInv
      /\ StoredSourceIsComplete /\ PurgedHistoryIsGone
  BY DEF IInv
<1>1. \A s \in Requests :
        /\ pc[s] \in {"new", "done"} => pc'[s] = pc[s] /\ reply'[s] = reply[s]
        /\ pc[s] \notin {"new", "done"} => pc'[s] = "done" /\ reply'[s] = "raised"
        /\ writes'[s] = NoWrites
  BY DEF Crash
<1>2. /\ kind' = kind /\ content' = content /\ docs' = docs /\ embedded' = embedded
      /\ runs' = runs /\ files' = files /\ artifacts' = artifacts /\ events' = events
      /\ seen' = seen /\ todo' = todo /\ before' = before /\ loop' = None
  BY DEF Crash, given, database, storage
<1>3. Deletions' = Deletions /\ Docs' = Docs
  BY <1>2 DEF Deletions
<1>4. NoWrites \in Writes
  BY DEF NoWrites, Writes
<1>5. /\ NoWrites.insert = {} /\ NoWrites.delete = {} /\ NoWrites.embed = {}
      /\ NoWrites.purge = {}
  BY DEF NoWrites
<1>6. TypeOK'
  <2>1. writes' \in [Requests -> Writes]
    BY <1>4 DEF Crash
  <2>2. /\ pc' \in [Requests -> {"new", "streaming", "lookup", "extract", "insert", "put",
                                 "publish", "remove_artifact", "remove_file", "purge",
                                 "delete_row", "clear_root", "embed", "retrieve", "link",
                                 "returned", "commit", "done"}]
        /\ reply' \in [Requests -> {"none", "rejected", "raised", "existing", "created",
                                    "deleted", "answered"}]
    BY <1>0 DEF TypeOK, Crash
  <2>3. faults' \in 0 .. MaxFaults
    BY <1>0, DocumentStoreAssumption DEF TypeOK, Crash, Disturb
  <2>4. QED
    BY <1>0, <1>2, <2>1, <2>2, <2>3 DEF TypeOK
<1>7. PlaceInv'
  BY <1>0, <1>1, <1>2, DocumentStoreAssumption DEF PlaceInv, PlaceOf, Handling
<1>8. WriteInv'
  <2>1. SUFFICES ASSUME NEW s \in Requests PROVE WriteOf(s)'
    BY DEF WriteInv
  <2>2. pc'[s] \in {"new", "done"} /\ WriteOf(s)
    BY <1>0, <1>1 DEF WriteInv
  <2>3. QED
    BY <1>1, <1>2, <1>3, <1>5, <2>2 DEF WriteOf
<1>9. ReplyInv'
  <2>1. SUFFICES ASSUME NEW s \in Requests PROVE ReplyOf(s)'
    BY DEF ReplyInv
  <2>2. ReplyOf(s)
    BY <1>0 DEF ReplyInv
  <2>3. QED
    BY <1>1, <1>2, <1>3, <1>5, <2>2 DEF ReplyOf, Ended
<1>10. HistoryInv'
  <2>1. \A d \in Docs : SettledDocument(d) => SettledDocument(d)'
    BY <1>1, DocumentStoreAssumption DEF SettledDocument, Docs
  <2>2. \A a \in Requests : SettledRun(a) => SettledRun(a)'
    BY <1>1, <1>2 DEF SettledRun
  <2>3. QED
    BY <1>0, <1>2, <1>3, <2>1, <2>2 DEF HistoryInv, TypeOK, Deletions
<1>11. InsertInv' /\ EmbedInv'
  BY <1>1, <1>5 DEF InsertInv, EmbedInv
<1>12. AnswerInv'
  <2>1. \A s \in Requests : reply'[s] # "raised" => pc'[s] = pc[s] /\ reply'[s] = reply[s]
    BY <1>1
  <2>2. \A d : Was(d) => Was(d)'
    BY <1>2, <1>3 DEF Was
  <2>3. \A s \in Requests : reply[s] # "none" => reply'[s] \in {reply[s], "raised"}
    BY <1>1
  <2>4. QED
    BY <1>0, <1>2, <2>1, <2>2, <2>3 DEF AnswerInv
<1>13. PurgeInv'
  <2>1. \A s \in Deletions : writes'[s].delete = {} /\ pc'[s] # "delete_row"
    BY <1>1, <1>5 DEF Deletions
  <2>2. QED
    BY <1>3, <2>1 DEF PurgeInv
<1>14. \A s \in Requests : pc[s] # "new" => pc'[s] # "new"
  BY <1>1
<1>15. SourceInv'
  <2>1. \A s \in Requests : pc'[s] # "publish" /\ (reply'[s] = "created" => pc'[s] = "done")
    BY <1>0, <1>1 DEF ReplyInv, ReplyOf, Ended
  <2>2. QED
    BY <2>1 DEF SourceInv
<1>16. StoredSourceIsComplete'
  BY <1>0, <1>2, <1>3, <1>14 DEF StoredSourceIsComplete, Managed, Deletions
<1>17. PurgedHistoryIsGone'
  BY <1>0, <1>1, <1>2 DEF PurgedHistoryIsGone
<1>18. \A f : Excused(f) => Excused(f)'
  BY <1>1, <1>2 DEF Excused
<1>19. FileInv'
  <2>1. \A f \in files : Managed(f)' /\ (f \in docs \/ Excused(f)')
    BY <1>0, <1>2, <1>18 DEF FileInv, Managed
  <2>2. \A s \in Deletions : writes'[s].delete = {} /\ pc'[s] \notin {"purge", "delete_row"}
    BY <1>1, <1>5 DEF Deletions
  <2>3. \A s \in Requests : reply'[s] \in {"existing", "rejected"} => reply'[s] = reply[s]
    BY <1>1
  <2>4. QED
    BY <1>0, <1>2, <1>3, <2>1, <2>2, <2>3 DEF FileInv
<1>20. ArtifactInv'
  <2>1. \A d \in Docs : Owner(d) => Owner(d)'
    <3>1. SUFFICES ASSUME NEW d \in Docs, Owner(d) PROVE Owner(d)'
      OBVIOUS
    <3>2. CASE d \in docs /\ Managed(d)
      BY <1>2, <3>2 DEF Owner, Managed
    <3>3. CASE d \in Requests /\ kind[d] = "upload" /\ (writes[d].insert # {} \/ reply[d] = "raised")
      <4>1. pc[d] \notin {"new", "done"} \/ reply[d] = "raised"
        BY <1>0, <1>5, <3>3 DEF WriteInv, WriteOf
      <4>2. reply'[d] = "raised"
        BY <1>1, <3>3, <4>1
      <4>3. QED
        BY <1>2, <3>3, <4>2 DEF Owner
    <3>4. QED
      BY <3>1, <3>2, <3>3 DEF Owner
  <2>2. \A c \in artifacts : \E d \in Docs : content[d] = c /\ Owner(d)'
    BY <1>0, <2>1 DEF ArtifactInv
  <2>3. \A s \in Deletions : writes'[s].delete \subseteq {}
    BY <1>1, <1>5 DEF Deletions
  <2>4. \A s \in Deletions : \A d \in todo[s] \cap docs : Managed(d) => content[d] \notin artifacts
    BY <1>0 DEF ArtifactInv
  <2>5. \A d : Managed(d)' => Managed(d)
    BY <1>2 DEF Managed
  <2>6. QED
    BY <1>2, <1>3, <2>2, <2>3, <2>4, <2>5 DEF ArtifactInv
<1>21. QED
  BY <1>6, <1>7, <1>8, <1>9, <1>10, <1>11, <1>12, <1>13, <1>15, <1>16, <1>17, <1>19,
     <1>20 DEF IInv

LEMMA Starts == Init => IInv
<1> SUFFICES ASSUME Init PROVE IInv
  OBVIOUS
<1>1. /\ kind \in [Requests -> {"upload", "ingest", "delete", "clear", "ask"}]
      /\ content \in [Docs -> Contents] /\ docs \in {{}, {Old}} /\ embedded \subseteq docs
      /\ files = docs /\ artifacts = {content[d] : d \in docs} /\ runs = {} /\ events = {}
      /\ loop = None /\ faults = 0
      /\ \A s \in Requests : /\ writes[s] = NoWrites /\ pc[s] = "new" /\ seen[s] = {}
                             /\ todo[s] = {} /\ reply[s] = "none" /\ before[s] = {}
  BY DEF Init
<1>2. /\ NoWrites.insert = {} /\ NoWrites.delete = {} /\ NoWrites.embed = {}
      /\ NoWrites.purge = {} /\ NoWrites \in Writes
  BY DEF NoWrites, Writes
<1>3. TypeOK
  <2>1. writes \in [Requests -> Writes]
    BY <1>2 DEF Init
  <2>2. /\ docs \subseteq Docs /\ artifacts \subseteq Contents
        /\ \A d, e \in docs : content[d] = content[e] => d = e
    BY <1>1 DEF Docs
  <2>3. QED
    BY <2>1, <2>2, DocumentStoreAssumption DEF Init, TypeOK
<1>4. PlaceInv
  BY <1>1, DocumentStoreAssumption DEF PlaceInv, PlaceOf, Handling
<1>5. WriteInv /\ ReplyInv
  BY <1>1, <1>2 DEF WriteInv, WriteOf, ReplyInv, ReplyOf, Ended
<1>6. HistoryInv
  BY <1>1 DEF HistoryInv, SettledDocument, Deletions
<1>7. InsertInv /\ EmbedInv
  BY <1>1, <1>2 DEF InsertInv, EmbedInv
<1>8. AnswerInv /\ PurgeInv /\ SourceInv /\ PurgedHistoryIsGone
  BY <1>1 DEF AnswerInv, PurgeInv, SourceInv, PurgedHistoryIsGone, Deletions
<1>9. FileInv
  BY <1>1, <1>2 DEF FileInv, Managed, Deletions
<1>10. ArtifactInv
  BY <1>1, <1>2 DEF ArtifactInv, Owner, Managed, Docs, Deletions
<1>11. StoredSourceIsComplete
  BY <1>1 DEF StoredSourceIsComplete
<1>12. QED
  BY <1>3, <1>4, <1>5, <1>6, <1>7, <1>8, <1>9, <1>10, <1>11 DEF IInv

LEMMA Stutters == ASSUME IInv, UNCHANGED vars PROVE IInv'
<1>0. /\ TypeOK /\ PlaceInv /\ WriteInv /\ ReplyInv /\ HistoryInv /\ InsertInv /\ EmbedInv
      /\ AnswerInv /\ PurgeInv /\ SourceInv /\ FileInv /\ ArtifactInv
      /\ StoredSourceIsComplete /\ PurgedHistoryIsGone
  BY DEF IInv
<1> USE <1>0 DEF vars
<1>1. TypeOK' /\ InsertInv' /\ EmbedInv' /\ PurgedHistoryIsGone'
  BY DEF TypeOK, InsertInv, EmbedInv, PurgedHistoryIsGone
<1>2. PlaceInv' /\ WriteInv' /\ ReplyInv'
  BY DEF PlaceInv, PlaceOf, WriteInv, WriteOf, ReplyInv, ReplyOf, Deletions
<1>3. HistoryInv' /\ AnswerInv' /\ PurgeInv'
  BY DEF HistoryInv, SettledDocument, SettledRun, AnswerInv, Was, PurgeInv, Deletions
<1>4. SourceInv' /\ FileInv' /\ ArtifactInv' /\ StoredSourceIsComplete'
  BY DEF SourceInv, FileKept, ArtifactKept, FileInv, ArtifactInv, StoredSourceIsComplete,
     Deletions,
         Managed, Excused, Owner
<1>5. QED
  BY <1>1, <1>2, <1>3, <1>4 DEF IInv

\* The parts of the invariant hold together, whatever the requests, their order and the
\* crashes.
THEOREM InvariantHolds == Spec => []IInv
<1>1. IInv /\ [Next]_vars => IInv'
  <2>1. ASSUME IInv, Next PROVE IInv'
    BY <2>1, StepKeeps, CrashKeeps DEF Next, Moves
  <2>2. QED
    BY <2>1, Stutters
<1>2. QED
  BY Starts, <1>1, PTL DEF Spec

\* What the tables, the store and the requests hold is of its type, and two stored documents
\* never have the same content.
THEOREM TypeCorrect == Spec => []TypeOK
<1>1. IInv => TypeOK
  BY DEF IInv
<1>2. QED
  BY InvariantHolds, <1>1, PTL

\* No upload that was refused, or found its content there, and no deletion leaves a file or
\* an artifact behind (_remove_managed_upload, delete_document).
THEOREM NothingIsLeftBehind == Spec => []NothingLeftBehind
<1>1. IInv => NothingLeftBehind
  <2>1. SUFFICES ASSUME IInv PROVE NothingLeftBehind
    OBVIOUS
  <2>2. WriteInv /\ FileInv /\ ArtifactInv
    BY <2>1 DEF IInv
  <2>3. ASSUME NEW d, Owner(d) PROVE d \in docs \/ Excused(d)
    <3>1. d \in Requests /\ pc[d] = "done" => writes[d].insert = {}
      BY <2>2 DEF WriteInv, WriteOf, NoWrites
    <3>2. QED
      BY <2>3, <3>1 DEF Owner, Excused
  <2>4. QED
    BY <2>2, <2>3 DEF FileInv, ArtifactInv, NothingLeftBehind
<1>2. QED
  BY InvariantHolds, <1>1, PTL

\* An uploaded document has its file and its artifact as long as nobody deletes it, an
\* earlier document of its content, or everything (ingest_path, put_file, delete_document).
THEOREM StoredSourceStaysComplete == Spec => []StoredSourceIsComplete
<1>1. IInv => StoredSourceIsComplete
  BY DEF IInv
<1>2. QED
  BY InvariantHolds, <1>1, PTL

\* A document that a reply or an event names was stored, and a deletion that answers
\* "deleted" has deleted what it read.
THEOREM RepliesStayTrue == Spec => []RepliesAreTrue
<1>1. IInv => RepliesAreTrue
  <2>1. SUFFICES ASSUME IInv PROVE RepliesAreTrue
    OBVIOUS
  <2>2. ReplyInv /\ AnswerInv
    BY <2>1 DEF IInv
  <2>3. ASSUME NEW e \in events PROVE Was(e) \/ Excused(e)
    BY <2>2 DEF AnswerInv, Excused
  <2>4. ASSUME NEW s \in Requests, pc[s] = "done", reply[s] \in {"created", "existing"}
        PROVE  seen[s] # {} /\ \A d \in seen[s] : Was(d)
    BY <2>2, <2>4 DEF AnswerInv, ReplyInv, ReplyOf
  <2>5. ASSUME NEW s \in Requests, pc[s] = "done", reply[s] = "deleted"
        PROVE  seen[s] \cap docs = {}
    BY <2>2, <2>5 DEF AnswerInv
  <2>6. QED
    BY <2>3, <2>4, <2>5 DEF RepliesAreTrue, Was
<1>2. QED
  BY InvariantHolds, <1>1, PTL

\* A run that was stored when a deletion began, and used what that deleted, is not in the
\* history when the deletion has answered "deleted" (purge_runs_for_document).
THEOREM PurgedHistoryStaysGone == Spec => []PurgedHistoryIsGone
<1>1. IInv => PurgedHistoryIsGone
  BY DEF IInv
<1>2. QED
  BY InvariantHolds, <1>1, PTL

-----------------------------------------------------------------------------
(* Who waits for whom.                                                      *)

\* A request begins when nobody has the event loop.
LEMMA BeginsWithLoop ==
    ASSUME NEW r \in Requests, Moves(r), pc[r] = "new"
    PROVE  loop = None
<1> USE DeadlockedWait
<1>1. CASE StartStream(r) \/ StreamRejected(r) \/ StreamEnds(r) \/ StartIngest(r)
  BY <1>1 DEF StartStream, StreamRejected, StreamEnds, StartIngest
<1>2. CASE LookupHash(r) \/ IngestRejected(r) \/ Extract(r) \/ Insert(r)
  BY <1>2 DEF LookupHash, IngestRejected, Extract, Insert, StatementFails
<1>3. CASE PutArtifact(r) \/ Publish(r) \/ FindDocument(r) \/ ListDocuments(r)
  BY <1>3 DEF PutArtifact, Publish, FindDocument, ListDocuments
<1>4. CASE RemoveArtifact(r) \/ RemoveFile(r) \/ Purge(r) \/ DeleteRow(r)
  BY <1>4 DEF RemoveArtifact, RemoveFile, Purge, DeleteRow
<1>5. CASE ClearRoot(r) \/ StartAsk(r) \/ Embed(r) \/ Retrieve(r)
  BY <1>5 DEF ClearRoot, StartAsk, Embed, Retrieve, StatementFails
<1>6. CASE Link(r) \/ Dispatch(r) \/ EndSession(r) \/ DeadlockDetected(r)
  BY <1>6 DEF Link, Dispatch, EndSession, DeadlockDetected, StatementFails
<1>7. CASE RequestRaises(r) \/ CommitFails(r)
  BY <1>7 DEF RequestRaises, CommitFails
<1>8. QED
  BY <1>1, <1>2, <1>3, <1>4, <1>5, <1>6, <1>7 DEF Moves, Step

\* An upload or a local path comes to its text past the look for its content.
LEMMA ToExtract ==
    ASSUME TypeOK, NEW r \in Requests, Moves(r), pc'[r] \in {"extract", "insert"}
    PROVE  \/ pc[r] \in {"extract", "insert"} /\ loop' = loop /\ docs' = docs
           \/ \A d \in docs' : content[d] # content[r]
<1> USE Goes, Returns, DeadlockedWait
<1>1. CASE StartStream(r) \/ StreamRejected(r) \/ StreamEnds(r) \/ StartIngest(r)
  BY <1>1 DEF StartStream, StreamRejected, StreamEnds, StartIngest
<1>2. CASE LookupHash(r) \/ IngestRejected(r) \/ Extract(r) \/ Insert(r)
  BY <1>2 DEF LookupHash, IngestRejected, Extract, Insert, Visible, database, StatementFails
<1>3. CASE PutArtifact(r) \/ Publish(r) \/ FindDocument(r) \/ ListDocuments(r)
  BY <1>3 DEF PutArtifact, Publish, FindDocument, ListDocuments
<1>4. CASE RemoveArtifact(r) \/ RemoveFile(r) \/ Purge(r) \/ DeleteRow(r)
  BY <1>4 DEF RemoveArtifact, RemoveFile, Purge, DeleteRow
<1>5. CASE ClearRoot(r) \/ StartAsk(r) \/ Embed(r) \/ Retrieve(r)
  BY <1>5 DEF ClearRoot, StartAsk, Embed, Retrieve, StatementFails
<1>6. CASE Link(r) \/ Dispatch(r) \/ EndSession(r) \/ DeadlockDetected(r)
  BY <1>6 DEF Link, Dispatch, EndSession, DeadlockDetected, StatementFails
<1>7. CASE RequestRaises(r) \/ CommitFails(r)
  BY <1>7 DEF RequestRaises, CommitFails
<1>8. QED
  BY <1>1, <1>2, <1>3, <1>4, <1>5, <1>6, <1>7 DEF Moves, Step

\* While an upload that found no document of its content has the event loop, no deletion has
\* such a document: it would have begun before, and the look would have found it.
LookedInv ==
    \A r \in Requests : loop = r /\ pc[r] \in {"extract", "insert"} =>
        \A s \in Deletions : \A d \in seen[s] \cap docs : content[d] # content[r]

LEMMA LookedStays ==
    ASSUME IInv, LookedInv, NEW m \in Requests, Moves(m)
    PROVE  LookedInv'
<1>0. TypeOK /\ PlaceInv /\ WriteInv /\ ReplyInv /\ HistoryInv
  BY DEF IInv
<1>1. kind' = kind /\ content' = content /\ Deletions' = Deletions
  BY GivenStays, DeletionsStay DEF Moves, Next
<1>2. SUFFICES ASSUME NEW r \in Requests, loop' = r, pc'[r] \in {"extract", "insert"},
                      NEW s \in Deletions, NEW d \in seen'[s] \cap docs'
               PROVE  content[d] # content[r]
  BY <1>1 DEF LookedInv
<1>3. s \in Requests
  BY DEF Deletions
<1>4. CASE loop = r /\ pc[r] \in {"extract", "insert"}
  <2>1. loop # None
    BY <1>4, DocumentStoreAssumption
  <2>2. d \in seen[s]
    <3>1. CASE s = m
      BY <1>0, <1>3, <2>1, <3>1, SeenOf, BeginsWithLoop
    <3>2. CASE s # m
      BY <1>0, <1>3, <3>2, OthersStay
    <3>3. QED
      BY <3>1, <3>2
  <2>3. d \in docs
    <3>1. ASSUME d \notin docs PROVE FALSE
      <4>1. d = m /\ EndSession(m)
        BY <1>0, <3>1, DocsOf
      <4>2. d = Old \/ pc[d] = "done"
        BY <1>0, <2>2 DEF HistoryInv, SettledDocument
      <4>3. QED
        BY <4>1, <4>2, DocumentStoreAssumption DEF EndSession
    <3>2. QED
      BY <3>1
  <2>4. QED
    BY <1>4, <2>2, <2>3 DEF LookedInv
<1>5. CASE ~(loop = r /\ pc[r] \in {"extract", "insert"})
  <2>1. CASE r = m
    BY <1>0, <1>2, <1>5, <2>1, ToExtract
  <2>2. CASE r # m
    <3>1. pc'[r] = pc[r]
      BY <1>0, <2>2, OthersStay
    <3>2. loop = r
      BY <1>0, <1>2, <2>2, LoopOfOthersStays, DocumentStoreAssumption
    <3>3. QED
      BY <1>2, <1>5, <3>1, <3>2
  <2>3. QED
    BY <2>1, <2>2
<1>6. QED
  BY <1>4, <1>5

\* What the wait for the event loop rests on, beside the invariant.
THEOREM LookedHolds == Spec => []LookedInv
<1>1. Init => LookedInv
  BY DocumentStoreAssumption DEF Init, LookedInv
<1>2. IInv /\ LookedInv /\ [Next]_vars => LookedInv'
  <2>1. ASSUME IInv, LookedInv, Next PROVE LookedInv'
    <3>1. CASE Crash
      BY <3>1, DocumentStoreAssumption DEF Crash, LookedInv
    <3>2. CASE \E r \in Requests : Moves(r)
      BY <2>1, <3>2, LookedStays
    <3>3. QED
      BY <2>1, <3>1, <3>2 DEF Next, Moves
  <2>2. ASSUME LookedInv, UNCHANGED vars PROVE LookedInv'
    BY <2>2 DEF vars, LookedInv, Deletions
  <2>3. QED
    BY <2>1, <2>2
<1>3. QED
  BY <1>1, <1>2, InvariantHolds, PTL DEF Spec

\* In a set of requests of which each waits for one in it, some wait in a circle: each waits
\* for one in it and holds up one in it.
LEMMA Circle ==
    ASSUME NEW U \in SUBSET Requests, U # {}, \A r \in U : Blockers(r) \cap U # {}
    PROVE  \E r \in U : InDeadlock(r)
<1> DEFINE Closed(S) == S # {} /\ \A s \in S : Blockers(s) \cap S # {}
           Candidates == {S \in SUBSET U : Closed(S)}
           Order == StrictSubsetOrdering(Requests)
<1>1. IsWellFoundedOn(Order, SUBSET Requests)
  BY DocumentStoreAssumption, FS_FiniteSubsetsOfFinite, FS_StrictSubsetOrderingWellFounded
<1>2. Candidates \subseteq SUBSET Requests /\ U \in Candidates
  OBVIOUS
<1>3. PICK S \in Candidates : \A T \in Candidates : <<T, S>> \notin Order
  <2> HIDE DEF Candidates, Order
  <2>1. QED
    BY <1>1, <1>2, WFMin
<1>4. DEFINE T == {s \in S : \E t \in S : s \in Blockers(t)}
<1>5. \A s \in S : Blockers(s) \cap T # {}
  BY <1>3
<1>6. T \in Candidates
  BY <1>3, <1>5
<1>7. T = S
  BY <1>2, <1>3, <1>6 DEF StrictSubsetOrdering
<1>8. PICK r \in S : TRUE
  BY <1>3
<1>9. InDeadlock(r)
  <2>1. S \in SUBSET Requests /\ \A s \in S : Blockers(s) \cap S # {}
    BY <1>2, <1>3
  <2>2. \A s \in S : \E t \in S : s \in Blockers(t)
    BY <1>7
  <2> HIDE DEF T
  <2>3. QED
    BY <1>8, <2>1, <2>2 DEF InDeadlock
<1>10. QED
  BY <1>3, <1>8, <1>9

\* Who holds up a request has a transaction open.
LEMMA BlockersAreOpen ==
    ASSUME WriteInv, NEW r \in Requests, NEW s \in Blockers(r)
    PROVE  s \in Requests \ {r} /\ pc[s] # "done"
<1>1. s \in Requests \ {r} /\ writes[s] # NoWrites
  BY DEF Blockers, Having, NoWrites
<1>2. QED
  BY <1>1 DEF WriteInv, WriteOf

\* Nobody waits for ever, whatever the number of requests, but an upload that has the event
\* loop and one that has inserted the same content: Blockers are PostgreSQL's row and unique
\* key locks, and their circles are found (upload_document, get_db_session).
THEOREM OnlySameContentSticks == Spec => []StuckOnlyOnSameContent
<1>1. IInv /\ LookedInv => StuckOnlyOnSameContent
  <2>1. SUFFICES ASSUME IInv, LookedInv, \E r \in Requests : pc[r] # "done",
                        \A r \in Requests : Waits(r)
                 PROVE  /\ loop # None /\ pc[loop] = "insert"
                        /\ \E s \in Requests \ {loop} :
                              content[s] = content[loop] /\ writes[s].insert = {s}
    BY DEF StuckOnlyOnSameContent
  <2>2. TypeOK /\ PlaceInv /\ WriteInv
    BY <2>1 DEF IInv
  <2>3. loop # None
    <3>1. SUFFICES ASSUME loop = None PROVE FALSE
      OBVIOUS
    <3>2. DEFINE U == {r \in Requests : pc[r] # "done"}
    <3>3. ASSUME NEW r \in U PROVE Blockers(r) \cap U # {} /\ ~InDeadlock(r)
      <4>1. Blockers(r) # {} /\ ~InDeadlock(r)
        BY <2>1, <3>1 DEF Waits
      <4>2. QED
        BY <2>2, <4>1, BlockersAreOpen
    <3>4. U # {} /\ U \subseteq Requests
      BY <2>1
    <3>5. QED
      <4> HIDE DEF U
      <4>1. QED
        BY <3>3, <3>4, Circle
  <2>4. loop \in Requests /\ pc[loop] \in Handling
    BY <2>2, <2>3 DEF TypeOK, PlaceInv, PlaceOf
  <2>5. pc[loop] = "insert" /\ Blockers(loop) # {}
    BY <2>1, <2>4 DEF Waits, Handling
  <2>6. PICK s \in Blockers(loop) : TRUE
    BY <2>5
  <2>7. s \in Requests \ {loop} /\ WriteOf(s)
    BY <2>2, <2>4, BlockersAreOpen DEF WriteInv
  <2>8. \A d \in writes[s].delete \cap docs : content[d] # content[loop]
    <3>1. ASSUME NEW d \in writes[s].delete \cap docs PROVE content[d] # content[loop]
      <4>1. s \in Deletions /\ d \in seen[s]
        BY <2>7, <3>1 DEF WriteOf
      <4>2. QED
        BY <2>1, <2>4, <2>5, <3>1, <4>1 DEF LookedInv
    <3>2. QED
      BY <3>1
  <2>9. writes[s].insert \cap SameContent(loop) # {}
    BY <2>5, <2>6, <2>8 DEF Blockers, Having, SameContent
  <2>10. writes[s].insert = {s} /\ content[s] = content[loop]
    BY <2>7, <2>9 DEF WriteOf, SameContent
  <2>11. QED
    BY <2>3, <2>5, <2>7, <2>10
<1>2. QED
  BY InvariantHolds, LookedHolds, <1>1, PTL
=============================================================================
