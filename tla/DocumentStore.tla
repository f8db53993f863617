--------------------------- MODULE DocumentStore ---------------------------
(***************************************************************************)
(* Documents while several requests work on them: uploads, ingestion of a  *)
(* local path, deletion of one document and of all (api/documents.py,      *)
(* ingestion/local_files.py, cloud/artifacts.py), the purge of research    *)
(* history (repositories/research_history.py), and questions that embed,   *)
(* retrieve and cite documents (embeddings/service.py,                     *)
(* repositories/runs.py).                                                  *)
(*                                                                         *)
(* One API process.  upload_document is a coroutine without an await once  *)
(* the body is received: until it returns it has the event loop, which     *)
(* every other request needs to begin and to have its session committed.   *)
(* The other handlers are threads.                                         *)
(*                                                                         *)
(* A request's transaction is in `writes` until it ends; reads see what is *)
(* committed (PostgreSQL, READ COMMITTED), writes wait for conflicting     *)
(* transactions.  A document bears the name of the request that made it.   *)
(***************************************************************************)
EXTENDS Naturals, FiniteSets

CONSTANTS
    Requests,       \* API requests
    Old,            \* a document uploaded before
    Contents,       \* what documents may contain (with the file name)
    None,
    MaxFaults       \* bound: exceptions and crashes

ASSUME DocumentStoreAssumption ==
    /\ Old \notin Requests /\ None \notin Requests
    /\ IsFiniteSet(Requests) /\ MaxFaults \in Nat

VARIABLES
    kind,           \* what each request asks for
    content,        \* content_hash and file name of each document
    docs,           \* documents rows that are committed
    embedded,       \* documents whose chunks have embeddings
    runs,           \* stored research runs, by the request that made them
    files,          \* data/uploads/<uuid>/<name>, by the request it came with
    artifacts,      \* raw/<hash>/<name> in the artifact store
    events,         \* document.ingested.v1 events
    writes,         \* uncommitted changes of each request
    pc,             \* where each request is
    seen,           \* documents its answer rests on, or it is to delete
    todo,           \* documents to embed, or the one in hand to delete
    reply,          \* its answer
    loop,           \* the upload that has the event loop
    before,         \* history: runs stored when a deletion began
    faults          \* bound: disturbances so far

vars == <<kind, content, docs, embedded, runs, files, artifacts, events, writes, pc, seen, todo,
          reply, loop, before, faults>>

given == <<kind, content>>
database == <<docs, embedded, runs>>
storage == <<files, artifacts>>

Docs == Requests \cup {Old}
NoWrites == [insert |-> {}, delete |-> {}, embed |-> {}, link |-> {}, purge |-> {}]

Init ==
    /\ kind \in [Requests -> {"upload", "ingest", "delete", "clear", "ask"}]
    /\ content \in [Docs -> Contents]
    /\ \A r \in Requests : kind[r] \in {"delete", "clear", "ask"} => content[r] = content[Old]
    /\ docs \in {{}, {Old}}
    /\ embedded \in SUBSET docs
    /\ files = docs
    /\ artifacts = {content[d] : d \in docs}
    /\ runs = {} /\ events = {}
    /\ writes = [r \in Requests |-> NoWrites]
    /\ pc = [r \in Requests |-> "new"]
    /\ seen = [r \in Requests |-> {}]
    /\ todo = [r \in Requests |-> {}]
    /\ reply = [r \in Requests |-> "none"]
    /\ loop = None
    /\ before = [r \in Requests |-> {}]
    /\ faults = 0

Disturb == faults < MaxFaults /\ faults' = faults + 1

\* Documents that came with an upload.
Managed(d) == d = Old \/ kind[d] = "upload"

Goto(r, place) == pc' = [pc EXCEPT ![r] = place]

\* The handler returns or raises; its session is still open.
Return(r, answer) ==
    /\ Goto(r, "returned")
    /\ reply' = [reply EXCEPT ![r] = answer]
    /\ loop' = IF loop = r THEN None ELSE loop

\* A statement failed: the transaction is rolled back there and then.
StatementFails(r) == Return(r, "raised") /\ writes' = [writes EXCEPT ![r] = NoWrites]

\* Mutant: content_hash is not unique.
OwnContent(r) == {r}
\* Mutant: documents are inserted one at a time.
AnyContent(r) == Docs
SameContent(r) == {d \in Docs : content[d] = content[r]}

\* Requests whose open transaction did `what` to a document in D.
Having(what, D) == {s \in Requests : writes[s][what] \cap D # {}}

\* The transactions that the next statement of r waits for.  A row that was deleted
\* for good holds up nobody.
Blockers(r) ==
    LET deleting(D) == Having("delete", D \cap docs)
    IN  {s \in Requests \ {r} :
            \/ pc[r] = "insert" /\ s \in Having("insert", SameContent(r)) \cup deleting(SameContent(r))
            \/ pc[r] = "delete_row" /\ s \in Having("embed", todo[r]) \cup Having("link", todo[r])
                                                \cup deleting(todo[r])
            \/ pc[r] = "embed" /\ s \in Having("embed", todo[r]) \cup deleting(todo[r])
            \/ pc[r] = "link" /\ s \in deleting(seen[r])}

\* Some transactions wait for one another in a circle, that of r among them.
InDeadlock(r) ==
    \E S \in SUBSET Requests :
        /\ r \in S
        /\ \A s \in S : Blockers(s) \cap S # {} /\ \E t \in S : s \in Blockers(t)

-----------------------------------------------------------------------------
(* upload_document and ingest_document                                      *)

\* _stream_uploaded_file opens the file; the body comes piece by piece.
StartStream(r) ==
    /\ kind[r] = "upload" /\ pc[r] = "new" /\ loop = None
    /\ files' = files \cup {r}
    /\ Goto(r, "streaming")
    /\ UNCHANGED <<given, database, artifacts, events, writes, seen, todo, reply, loop, before, faults>>

\* Too large, or empty: the file is removed.
StreamRejected(r) ==
    /\ pc[r] = "streaming" /\ loop = None
    /\ files' = files \ {r}
    /\ Return(r, "rejected")
    /\ UNCHANGED <<given, database, artifacts, events, writes, seen, todo, before, faults>>

StreamEnds(r) ==
    /\ pc[r] = "streaming" /\ loop = None
    /\ loop' = r
    /\ Goto(r, "lookup")
    /\ UNCHANGED <<given, database, storage, events, writes, seen, todo, reply, before, faults>>

StartIngest(r) ==
    /\ kind[r] = "ingest" /\ pc[r] = "new" /\ loop = None
    /\ Goto(r, "lookup")
    /\ UNCHANGED <<given, database, storage, events, writes, seen, todo, reply, loop, before, faults>>

\* The upload is there, or the file at the path is.
FilePresent(r) == kind[r] = "ingest" \/ r \in files

\* Mutant: open transactions are seen.
VisibleAndOpen == docs \cup UNION {writes[s].insert : s \in Requests}
\* What get_document_by_hash sees.
Visible == docs

\* Mutant: the copy of a document that is there is kept.
KeptUpload(r) == UNCHANGED storage
\* Mutant: the artifact goes with it, which is the stored document's.
DiscardedWithArtifact(r) == files' = files \ {r} /\ artifacts' = artifacts \ {content[r]}
\* _remove_managed_upload.
Discarded(r) == files' = files \ {r} /\ artifacts' = artifacts

\* ingest_path: the content is looked up; a copy of it is discarded.
LookupHash(r) ==
    /\ pc[r] = "lookup" /\ FilePresent(r)
    /\ LET same == {d \in Visible : content[d] = content[r]}
       IN  IF same = {}
           THEN /\ Goto(r, "extract")
                /\ UNCHANGED <<storage, seen, reply, loop>>
           ELSE /\ seen' = [seen EXCEPT ![r] = same]
                /\ Discarded(r)
                /\ Return(r, "existing")
    /\ UNCHANGED <<given, database, events, writes, todo, before, faults>>

\* A missing file, a type or a text that cannot be read, a limit that is passed:
\* an HTTPException, and upload_document removes what it stored.
IngestRejected(r) ==
    /\ pc[r] \in {"lookup", "extract"}
    /\ Discarded(r)
    /\ Return(r, "rejected")
    /\ UNCHANGED <<given, database, events, writes, seen, todo, before, faults>>

\* The bounded child process extracts the text.
Extract(r) ==
    /\ pc[r] = "extract" /\ FilePresent(r)
    /\ Goto(r, "insert")
    /\ UNCHANGED <<given, database, storage, events, writes, seen, todo, reply, loop, before, faults>>

\* _persist_extraction: the document with its evidence and chunks.  content_hash is
\* unique: the insertion waits for one of the same content and for its deletion, and
\* is an IntegrityError, which nothing handles, if the content is there.
Insert(r) ==
    /\ pc[r] = "insert"
    /\ Blockers(r) = {}
    /\ IF docs \cap SameContent(r) # {}
       THEN StatementFails(r) /\ seen' = seen
       ELSE /\ writes' = [writes EXCEPT ![r].insert = {r}]
            /\ seen' = [seen EXCEPT ![r] = {r}]
            /\ IF kind[r] = "upload" THEN Goto(r, "put") /\ UNCHANGED <<reply, loop>>
                                     ELSE Return(r, "created")
    /\ UNCHANGED <<given, database, storage, events, todo, before, faults>>

\* Mutant: an upload whose file was removed is waited for.
PutWhenThere(r) ==
    /\ pc[r] = "put" /\ r \in files
    /\ artifacts' = artifacts \cup {content[r]}
    /\ Goto(r, "publish")
    /\ UNCHANGED <<given, database, files, events, writes, seen, todo, reply, loop, before, faults>>

\* put_file copies the upload, if it is still there, before the commit.
PutArtifact(r) ==
    /\ pc[r] = "put"
    /\ IF r \in files
       THEN /\ artifacts' = artifacts \cup {content[r]}
            /\ Goto(r, "publish")
            /\ UNCHANGED <<reply, loop>>
       ELSE Return(r, "raised") /\ artifacts' = artifacts
    /\ UNCHANGED <<given, database, files, events, writes, seen, todo, before, faults>>

\* The event, too, precedes the commit.
Publish(r) ==
    /\ pc[r] = "publish"
    /\ events' = events \cup {r}
    /\ Return(r, "created")
    /\ UNCHANGED <<given, database, storage, writes, seen, todo, before, faults>>

-----------------------------------------------------------------------------
(* delete_document and delete_all_documents                                 *)

FindDocument(r) ==
    /\ kind[r] = "delete" /\ pc[r] = "new" /\ loop = None
    /\ \/ /\ \E d \in docs : seen' = [seen EXCEPT ![r] = {d}]
          /\ before' = [before EXCEPT ![r] = runs]
          /\ Goto(r, "remove_artifact")
          /\ UNCHANGED <<reply, loop>>
       \/ /\ Return(r, "rejected")
          /\ UNCHANGED <<seen, before>>
    /\ UNCHANGED <<given, database, storage, events, writes, todo, faults>>

ListDocuments(r) ==
    /\ kind[r] = "clear" /\ pc[r] = "new" /\ loop = None
    /\ seen' = [seen EXCEPT ![r] = docs]
    /\ before' = [before EXCEPT ![r] = runs]
    /\ Goto(r, IF docs = {} THEN "clear_root" ELSE "remove_artifact")
    /\ UNCHANGED <<given, database, storage, events, writes, todo, reply, loop, faults>>

\* One document is taken in hand (in which order makes no difference).  Its artifact
\* and its file are deleted at once, and for good.
RemoveArtifact(r) ==
    /\ pc[r] = "remove_artifact"
    /\ \E d \in seen[r] \ writes[r].delete :
        /\ todo' = [todo EXCEPT ![r] = {d}]
        /\ IF Managed(d)
           THEN artifacts' = artifacts \ {content[d]} /\ Goto(r, "remove_file")
           ELSE artifacts' = artifacts /\ Goto(r, "purge")
    /\ UNCHANGED <<given, database, files, events, writes, seen, reply, loop, before, faults>>

RemoveFile(r) ==
    /\ pc[r] = "remove_file"
    /\ files' = files \ todo[r]
    /\ Goto(r, "purge")
    /\ UNCHANGED <<given, database, artifacts, events, writes, seen, todo, reply, loop, before, faults>>

\* Mutant: the runs are looked for when the rows they refer to are gone.
NoRuns(D) == {}
\* The stored runs that cite or searched a document of D, by its chunks, evidence
\* items, claims, tool calls and reports.
RunsUsing(D) == {a \in runs : D \cap seen[a] # {}}

Purge(r) ==
    /\ pc[r] = "purge"
    /\ writes' = [writes EXCEPT ![r].purge = @ \cup RunsUsing(todo[r])]
    /\ Goto(r, "delete_row")
    /\ UNCHANGED <<given, database, storage, events, seen, todo, reply, loop, before, faults>>

\* The row, its evidence items and its chunks: the statement waits for those who
\* delete the document and for those whose rows refer to its chunks.
DeleteRow(r) ==
    /\ pc[r] = "delete_row"
    /\ Blockers(r) = {}
    /\ writes' = [writes EXCEPT ![r].delete = @ \cup todo[r]]
    /\ IF seen[r] # writes[r].delete \cup todo[r]
       THEN Goto(r, "remove_artifact") /\ UNCHANGED <<reply, loop>>
       ELSE IF kind[r] = "clear" THEN Goto(r, "clear_root") /\ UNCHANGED <<reply, loop>>
       ELSE Return(r, "deleted")
    /\ UNCHANGED <<given, database, storage, events, seen, todo, before, faults>>

\* _clear_managed_upload_root: whatever is there, uploads under way included.
ClearRoot(r) ==
    /\ pc[r] = "clear_root"
    /\ files' = {}
    /\ Return(r, "deleted")
    /\ UNCHANGED <<given, database, artifacts, events, writes, seen, todo, before, faults>>

-----------------------------------------------------------------------------
(* query_chat, as far as documents go                                       *)

\* No document: a 422.  Otherwise the documents that have no embeddings are listed.
StartAsk(r) ==
    /\ kind[r] = "ask" /\ pc[r] = "new" /\ loop = None
    /\ IF docs = {} THEN Return(r, "rejected") /\ UNCHANGED todo
       ELSE /\ todo' = [todo EXCEPT ![r] = docs \ embedded]
            /\ Goto(r, "embed")
            /\ UNCHANGED <<reply, loop>>
    /\ UNCHANGED <<given, database, storage, events, writes, seen, before, faults>>

\* embed_document_chunks: the rows are unique too, and need the chunks to be there.
Embed(r) ==
    /\ pc[r] = "embed"
    /\ Blockers(r) = {}
    /\ IF todo[r] \subseteq docs \ embedded
       THEN /\ writes' = [writes EXCEPT ![r].embed = todo[r]]
            /\ Goto(r, "retrieve")
            /\ UNCHANGED <<reply, loop>>
       ELSE StatementFails(r)
    /\ UNCHANGED <<given, database, storage, events, seen, todo, before, faults>>

Retrieve(r) ==
    /\ pc[r] = "retrieve"
    /\ \E used \in SUBSET docs : seen' = [seen EXCEPT ![r] = used]
    /\ Goto(r, "link")
    /\ UNCHANGED <<given, database, storage, events, writes, todo, reply, loop, before, faults>>

\* record_search_trace: a chunk that is gone is left out if the session looks it up
\* again, and an IntegrityError if it still has it.
Link(r) ==
    /\ pc[r] = "link"
    /\ Blockers(r) = {}
    /\ \/ /\ writes' = [writes EXCEPT ![r].link = seen[r] \cap docs]
          /\ Return(r, "answered")
       \/ /\ seen[r] \cap docs # seen[r]
          /\ StatementFails(r)
    /\ UNCHANGED <<given, database, storage, events, seen, todo, before, faults>>

-----------------------------------------------------------------------------
(* get_db_session                                                           *)

\* The event loop hands the end of the session to a thread.
Dispatch(r) ==
    /\ pc[r] = "returned" /\ loop = None
    /\ Goto(r, "commit")
    /\ UNCHANGED <<given, database, storage, events, writes, seen, todo, reply, loop, before, faults>>

\* PostgreSQL finds the circle and fails the statement of one of them.
DeadlockDetected(r) ==
    /\ InDeadlock(r)
    /\ StatementFails(r)
    /\ UNCHANGED <<given, database, storage, events, seen, todo, before, faults>>

\* What the handler raised, an HTTPException as well, rolls the session back.
RollsBack(r) == reply[r] \in {"rejected", "raised"}

EndSession(r) ==
    /\ pc[r] = "commit"
    /\ IF RollsBack(r) THEN UNCHANGED database
       ELSE /\ docs' = (docs \cup writes[r].insert) \ writes[r].delete
            /\ embedded' = (embedded \cup writes[r].embed) \ writes[r].delete
            /\ runs' = (runs \cup (IF kind[r] = "ask" THEN {r} ELSE {})) \ writes[r].purge
    /\ writes' = [writes EXCEPT ![r] = NoWrites]
    /\ Goto(r, "done")
    /\ UNCHANGED <<given, storage, events, seen, todo, reply, loop, before, faults>>

\* Any other exception: a client that is gone, a disk, a broker, a database.
RequestRaises(r) ==
    /\ pc[r] \notin {"new", "returned", "commit", "done"}
    /\ pc[r] = "streaming" => loop = None
    /\ Disturb
    /\ Return(r, "raised")
    /\ UNCHANGED <<given, database, storage, events, writes, seen, todo, before>>

\* The dependency commits before the answer is sent (FastAPI up to 0.117; later it is sent first).
CommitFails(r) ==
    /\ pc[r] = "commit"
    /\ Disturb
    /\ reply' = [reply EXCEPT ![r] = "raised"]
    /\ writes' = [writes EXCEPT ![r] = NoWrites]
    /\ Goto(r, "done")
    /\ UNCHANGED <<given, database, storage, events, seen, todo, loop, before>>

\* The process is gone, and every transaction with it.
Crash ==
    /\ Disturb
    /\ LET hit == {r \in Requests : pc[r] \notin {"new", "done"}}
       IN  /\ hit # {}
           /\ pc' = [r \in Requests |-> IF r \in hit THEN "done" ELSE pc[r]]
           /\ reply' = [r \in Requests |-> IF r \in hit THEN "raised" ELSE reply[r]]
    /\ writes' = [r \in Requests |-> NoWrites]
    /\ loop' = None
    /\ UNCHANGED <<given, database, storage, events, seen, todo, before>>

Step(r) ==
    \/ StartStream(r) \/ StreamRejected(r) \/ StreamEnds(r) \/ StartIngest(r)
    \/ LookupHash(r) \/ IngestRejected(r) \/ Extract(r) \/ Insert(r)
    \/ PutArtifact(r) \/ Publish(r)
    \/ FindDocument(r) \/ ListDocuments(r) \/ RemoveArtifact(r) \/ RemoveFile(r)
    \/ Purge(r) \/ DeleteRow(r) \/ ClearRoot(r)
    \/ StartAsk(r) \/ Embed(r) \/ Retrieve(r) \/ Link(r)
    \/ Dispatch(r) \/ EndSession(r) \/ DeadlockDetected(r)

Next ==
    \/ \E r \in Requests : Step(r) \/ RequestRaises(r) \/ CommitFails(r)
    \/ Crash

Spec == Init /\ [][Next]_vars

-----------------------------------------------------------------------------
Writes == [insert : SUBSET Docs, delete : SUBSET Docs, embed : SUBSET Docs,
           link : SUBSET Docs, purge : SUBSET Requests]

TypeOK ==
    /\ docs \subseteq Docs /\ embedded \subseteq docs /\ files \subseteq Docs
    /\ \A d, e \in docs : content[d] = content[e] => d = e
    /\ runs \subseteq Requests /\ events \subseteq Requests /\ artifacts \subseteq Contents
    /\ writes \in [Requests -> Writes]
    /\ pc \in [Requests -> {"new", "streaming", "lookup", "extract", "insert", "put", "publish",
                            "remove_artifact", "remove_file", "purge", "delete_row", "clear_root",
                            "embed", "retrieve", "link", "returned", "commit", "done"}]
    /\ seen \in [Requests -> SUBSET Docs] /\ todo \in [Requests -> SUBSET Docs]
    /\ reply \in [Requests -> {"none", "rejected", "raised", "existing", "created", "deleted",
                               "answered"}]
    /\ loop \in Requests \cup {None} /\ (loop # None => kind[loop] = "upload")
    /\ before \in [Requests -> SUBSET Requests]
    /\ faults \in 0 .. MaxFaults

Deletions == {r \in Requests : kind[r] \in {"delete", "clear"}}

\* An upload that is under way, or that ended in an exception nobody handled.
Excused(r) == r \in Requests /\ kind[r] = "upload" /\ (pc[r] # "done" \/ reply[r] = "raised")

\* partial_data_removed, as an error reply says, and copies: a file or an artifact
\* that no stored document has comes from an upload under way or one that raised.
NothingLeftBehind ==
    /\ \A f \in files : f \in docs \/ Excused(f)
    /\ \A c \in artifacts : \E d \in Docs : content[d] = c /\ (d \in docs \/ Excused(d))

\* An uploaded document has its file and its artifact until someone deletes it, an
\* earlier document of the same content, or everything.
StoredSourceIsComplete ==
    \A d \in docs : Managed(d) =>
        /\ d \in files \/ \E r \in Deletions : d \in seen[r] \/ (kind[r] = "clear" /\ pc[r] # "new")
        /\ content[d] \in artifacts \/ \E r \in Deletions : \E e \in seen[r] : content[e] = content[d]

\* A reply that names a document is right, and so is an event, unless its request is
\* under way or raised: the document was stored and can only have been deleted since.
\* What a deletion that succeeded read is stored no more.
RepliesAreTrue ==
    LET was(d) == d \in docs \/ \E s \in Deletions : d \in seen[s]
    IN  /\ \A r \in Requests : pc[r] = "done" =>
            /\ reply[r] \in {"created", "existing"} => seen[r] # {} /\ \A d \in seen[r] : was(d)
            /\ reply[r] = "deleted" => seen[r] \cap docs = {}
        /\ \A e \in events : was(e) \/ Excused(e)

\* "Also removes the historical Runs that used it" (ARCHITECTURE.md): a run that
\* was in the history when the deletion began is not there when it has succeeded.
PurgedHistoryIsGone ==
    \A r \in Requests : pc[r] = "done" /\ reply[r] = "deleted" =>
        \A a \in before[r] : seen[a] \cap seen[r] # {} => a \notin runs

\* Who has nothing to do but wait: for the event loop, or for transactions, if they do
\* not wait for one another in a circle.
Waits(r) ==
    \/ pc[r] = "done"
    \/ pc[r] \in {"new", "streaming", "returned"} /\ loop # None
    \/ pc[r] \in {"insert", "delete_row", "embed", "link"} /\ Blockers(r) # {} /\ ~InDeadlock(r)

\* Nobody else is held up, whatever others removed meanwhile, and those who wait are.
OnlyWaitersAreHeldUp == \A r \in Requests : Waits(r) <=> ~ENABLED Step(r)

\* Requests wait for each other and for the event loop; nobody waits for ever, with one
\* exception: an upload has the event loop and waits, at the unique content_hash, for a
\* transaction of the same content whose commit needs that loop.
StuckOnlyOnSameContent ==
    (\E r \in Requests : pc[r] # "done") /\ (\A r \in Requests : Waits(r)) =>
        /\ loop # None /\ pc[loop] = "insert"
        /\ \E s \in Requests \ {loop} : content[s] = content[loop] /\ writes[s].insert = {s}

\* "Re-ingesting the same file is idempotent or creates a clearly versioned row"
\* (DEV_TASKS.md): who brings what another request stores gets no error that nobody
\* handles, as long as nothing fails.
ReingestIsIdempotent ==
    \A r, s \in Requests :
        reply[s] = "created" /\ kind[r] \in {"upload", "ingest"} /\ content[r] = content[s]
            => reply[r] # "raised"

=============================================================================
