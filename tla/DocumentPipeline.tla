-------------------------- MODULE DocumentPipeline --------------------------
(***************************************************************************)
(* The background processing of an uploaded document: the Celery tasks of  *)
(* backend/app/tasks/document_tasks.py, run by the prefork workers of one  *)
(* worker host, together with what they share with the API process: the    *)
(* MySQL rows of documents and chunks, the MinIO objects, the              *)
(* Elasticsearch and Milvus indexes, the RabbitMQ queues and the one       *)
(* temporary file every download of the host is written to.                *)
(*                                                                         *)
(* A step is what happens between two points where another process, a      *)
(* crash or an answer of a service can intervene: a database transaction,  *)
(* a call to MinIO, Elasticsearch, Milvus or the broker, a read of the     *)
(* shared temporary file.                                                  *)
(*                                                                         *)
(* An operator introduced by "Mutant:" is no part of the model: it is what *)
(* the action after it would be with a plausible bug, and breaks one of    *)
(* the properties at the end.                                              *)
(***************************************************************************)
EXTENDS Naturals

CONSTANTS
  Docs,          \* document rows; Docs also names their stored objects
  Workers,       \* prefork worker processes of the host
  None,          \* "no value"
  Unparsable,    \* the objects the parser rejects (empty, corrupt, encrypted)
  NumChunks,     \* NumChunks[d]: text chunks the chunker cuts from object d
  UploadParts,   \* UploadParts[d]: chunk_count the upload stored in the row
  Deletable,     \* documents whose owner may delete them
  Faults,        \* which kinds of failure the environment may produce
  MaxFaults,     \* bound on the number of failures in a behaviour
  MaxReprocess   \* bound on the number of reprocess requests

FaultKinds == {"publish", "minio", "es", "db", "softlimit", "childlost",
               "workerdown", "milvus", "delete"}

VARIABLES
  \* MySQL
  status,      \* status[d]: doc_status of row d, "gone" when there is no row
  chunkCount,  \* chunkCount[d]: chunk_count of row d
  chunks,      \* committed document_chunks, one record per batch of rows
  \* MinIO, Elasticsearch, Milvus
  objects,     \* documents whose object is stored
  es,          \* batches indexed in Elasticsearch
  vectors,     \* batches inserted in Milvus
  copies,      \* copies[d]: how many times vectors of d were inserted
  \* RabbitMQ
  docQueue,    \* ready process_document messages
  vecQueue,    \* ready vectorize_chunks messages
  sent,        \* process_document messages published so far
  \* the worker host
  tmp,         \* content of the temporary file: a document's object or None
  late,        \* late[w]: timed-out downloads whose thread still runs in w
  job,         \* job[w]: what worker w is doing
  nextGen,     \* next chunk id (auto-increment, consumed even on rollback)
  \* the API process
  due,         \* documents committed by complete_upload, task not yet sent
  deleting,    \* delete requests between the MinIO and the database step
  reprocessed, \* reprocess requests so far
  faults,      \* failures so far
  struck       \* what they hit: a kind, or the call a soft limit interrupted

mysql  == <<status, chunkCount, chunks>>
stores == <<objects, es, vectors, copies>>
broker == <<docQueue, vecQueue, sent>>
host   == <<tmp, late>>
api    == <<due, deleting, reprocessed>>
fault  == <<faults, struck>>
vars   == <<mysql, stores, broker, host, job, nextGen, api, fault>>

Status == {"uploading", "processing", "ready", "failed"}

(***************************************************************************)
(* The chunk rows one run of process_document adds: they are inserted in   *)
(* one flush and committed or rolled back together.  gen stands for their  *)
(* ids, doc is their document_id, src the object their text came from.     *)
(* The row of index 0 is in every batch, so the unique constraint on       *)
(* (document_id, chunk_index) makes two batches of one document collide.   *)
(***************************************************************************)
Batch == [gen: Nat, doc: Docs, src: Docs]

Message == [doc: Docs, n: Nat]

ASSUME PipelineAssumption ==
  /\ None \notin Docs \cup Batch \cup Message
  /\ Unparsable \subseteq Docs
  /\ Deletable \subseteq Docs
  /\ NumChunks \in [Docs -> Nat \ {0}]
  /\ UploadParts \in [Docs -> Nat]
  /\ Faults \subseteq FaultKinds
  /\ MaxFaults \in Nat
  /\ MaxReprocess \in Nat

(***************************************************************************)
(* A worker's local state: where it is in the task, the message it has not *)
(* acknowledged, the doc_status its session loaded, whether temp_path is   *)
(* set, the object the text in memory came from, the flushed but           *)
(* uncommitted rows, and the chunk ids it holds for vectorization.         *)
(***************************************************************************)
PC == {"idle", "fetched", "marked", "downloaded", "parsed", "flushed",
       "indexed", "committed", "failing", "ending", "embedding", "stored"}

Job == [pc: PC, msg: Message \cup {None}, seen: Status \cup {None},
        temp: BOOLEAN, src: Docs \cup {None}, pend: Batch \cup {None},
        ids: Batch \cup {None}]

IdleJob == [pc |-> "idle", msg |-> None, seen |-> None, temp |-> FALSE,
            src |-> None, pend |-> None, ids |-> None]

Init ==
  /\ status = [d \in Docs |-> "uploading"]
  /\ chunkCount = UploadParts
  /\ chunks = {}
  /\ objects = Docs
  /\ es = {}
  /\ vectors = {}
  /\ copies = [d \in Docs |-> 0]
  /\ docQueue = {}
  /\ vecQueue = {}
  /\ sent = 0
  /\ tmp = None
  /\ late = [w \in Workers |-> {}]
  /\ job = [w \in Workers |-> IdleJob]
  /\ nextGen = 0
  /\ due = Docs
  /\ deleting = {}
  /\ reprocessed = 0
  /\ faults = 0
  /\ struck = {}

-----------------------------------------------------------------------------
(* Helpers.                                                                *)

Exists(d) == status[d] # "gone"

HasRows(d) == \E b \in chunks : b.doc = d

(* Uncommitted chunk rows hold InnoDB locks until the commit or rollback:  *)
(* a shared lock on the parent documents row (foreign key) and the unique  *)
(* index entries.  Updates and deletes of that row by others wait.         *)
Holds(w, d) == job[w].pend # None /\ job[w].msg.doc = d

Locked(d) == \E w \in Workers : Holds(w, d)

Strike(kind) ==
  /\ faults < MaxFaults
  /\ faults' = faults + 1
  /\ struck' = struck \cup {kind}

Fail(kind) == kind \in Faults /\ Strike(kind)

(* A worker's call to a service ends in an error: the service fails, or    *)
(* the soft time limit is raised while the call waits.  Neither says       *)
(* whether the service did what it was asked.                              *)
Broken(kind) == Faults \cap {kind, "softlimit"} # {} /\ Strike(kind)

Goto(w, to) == job' = [job EXCEPT ![w].pc = to]

Publish(d) ==
  /\ docQueue' = docQueue \cup {[doc |-> d, n |-> sent]}
  /\ sent' = sent + 1
  /\ UNCHANGED vecQueue

-----------------------------------------------------------------------------
(* The API process.                                                        *)

(* api_complete_upload, after complete_upload committed the row.           *)
PublishTask(d) ==
  /\ d \in due
  /\ due' = due \ {d}
  /\ Publish(d)
  /\ UNCHANGED <<mysql, stores, host, job, nextGen, deleting, reprocessed, fault>>

(* The broker refuses the message, or the API dies before delay().         *)
PublishFails(d) ==
  /\ d \in due
  /\ Fail("publish")
  /\ due' = due \ {d}
  /\ UNCHANGED <<mysql, stores, broker, host, job, nextGen, deleting, reprocessed>>

(* api_reprocess_document: any status will do, READY and PROCESSING too.   *)
Reprocess(d) ==
  /\ Exists(d)
  /\ reprocessed < MaxReprocess
  /\ reprocessed' = reprocessed + 1
  /\ Publish(d)
  /\ UNCHANGED <<mysql, stores, host, job, nextGen, due, deleting, fault>>

(* delete_document up to and including the MinIO call.                     *)
DeleteObject(d) ==
  /\ d \in Deletable \ deleting
  /\ Exists(d)
  /\ objects' = objects \ {d}
  /\ deleting' = deleting \cup {d}
  /\ UNCHANGED <<mysql, es, vectors, copies, broker, host, job, nextGen, due,
                 reprocessed, fault>>

(* Mutant: the delete does not wait for the rows a worker is inserting.    *)
DeleteRowsUnlocked(d) ==
  /\ d \in deleting
  /\ chunks' = {b \in chunks : b.doc # d}
  /\ status' = [status EXCEPT ![d] = "gone"]
  /\ deleting' = deleting \ {d}
  /\ UNCHANGED <<chunkCount, stores, broker, host, job, nextGen, due,
                 reprocessed, fault>>

(* Mutant: only the document row is deleted.                               *)
DeleteRowsNotChunks(d) ==
  /\ d \in deleting
  /\ ~Locked(d)
  /\ status' = [status EXCEPT ![d] = "gone"]
  /\ deleting' = deleting \ {d}
  /\ UNCHANGED <<chunkCount, chunks, stores, broker, host, job, nextGen, due,
                 reprocessed, fault>>

(* delete_document's transaction: chunk rows, then the document row.       *)
(* Neither Elasticsearch nor Milvus is told.                               *)
DeleteRows(d) ==
  /\ d \in deleting
  /\ ~Locked(d)
  /\ chunks' = {b \in chunks : b.doc # d}
  /\ status' = [status EXCEPT ![d] = "gone"]
  /\ deleting' = deleting \ {d}
  /\ UNCHANGED <<chunkCount, stores, broker, host, job, nextGen, due,
                 reprocessed, fault>>

(* The request dies, or its transaction fails, after the object is gone.   *)
DeleteAborts(d) ==
  /\ d \in deleting
  /\ Fail("delete")
  /\ deleting' = deleting \ {d}
  /\ UNCHANGED <<mysql, stores, broker, host, job, nextGen, due, reprocessed>>

-----------------------------------------------------------------------------
(* process_document.                                                       *)

(* Step 1: take a message and read the row.  A missing or READY document   *)
(* is skipped.                                                             *)
Fetch(w) ==
  /\ job[w].pc = "idle"
  /\ \E m \in docQueue :
       /\ docQueue' = docQueue \ {m}
       /\ job' = [job EXCEPT ![w] =
            IF status[m.doc] \in {"gone", "ready"}
            THEN [IdleJob EXCEPT !.pc = "ending", !.msg = m]
            ELSE [IdleJob EXCEPT !.pc = "fetched", !.msg = m,
                                 !.seen = status[m.doc]]]
  /\ UNCHANGED <<mysql, stores, vecQueue, sent, host, nextGen, api, fault>>

(* Step 2: set PROCESSING and commit.  The session emits an UPDATE only if *)
(* the value it loaded differs, and never looks at the row again: a row    *)
(* that another worker made READY meanwhile goes back to PROCESSING, and a *)
(* row that is gone raises StaleDataError, after which the session is      *)
(* unusable and FAILED cannot be written either.                           *)
MarkProcessing(w) ==
  LET d == job[w].msg.doc IN
  /\ job[w].pc = "fetched"
  /\ \/ /\ job[w].seen = "processing"
        /\ Goto(w, "marked")
        /\ UNCHANGED status
     \/ /\ job[w].seen # "processing"
        /\ Exists(d)
        /\ ~Locked(d)
        /\ status' = [status EXCEPT ![d] = "processing"]
        /\ job' = [job EXCEPT ![w].pc = "marked", ![w].seen = "processing"]
     \/ /\ job[w].seen # "processing"
        /\ ~Exists(d)
        /\ Goto(w, "ending")
        /\ UNCHANGED status
  /\ UNCHANGED <<chunkCount, chunks, stores, broker, host, nextGen, api, fault>>

(* Step 3: the object is written to the temporary file of the host, the    *)
(* same path for every document since every object is named "final".       *)
Download(w) ==
  LET d == job[w].msg.doc IN
  /\ job[w].pc = "marked"
  /\ \/ /\ d \in objects
        /\ tmp' = d
        /\ job' = [job EXCEPT ![w].pc = "downloaded", ![w].temp = TRUE]
     \/ /\ d \notin objects
        /\ Goto(w, "failing")
        /\ UNCHANGED tmp
  /\ UNCHANGED <<mysql, stores, broker, late, nextGen, api, fault>>

(* The 30 s timeout of _run_to_thread raises StorageError while the thread *)
(* goes on and writes the file later.                                      *)
DownloadTimesOut(w) ==
  /\ job[w].pc = "marked"
  /\ job[w].msg.doc \in objects
  /\ Fail("minio")
  /\ late' = [late EXCEPT ![w] = @ \cup {job[w].msg.doc}]
  /\ Goto(w, "failing")
  /\ UNCHANGED <<mysql, stores, broker, tmp, nextGen, api>>

LateDownload(w) ==
  /\ \E d \in late[w] :
       /\ tmp' = d
       /\ late' = [late EXCEPT ![w] = @ \ {d}]
  /\ UNCHANGED <<mysql, stores, broker, job, nextGen, api, fault>>

(* Parse whatever the temporary file holds now.  Another document's bytes  *)
(* are read with this document's file type: either outcome is possible.    *)
Parse(w) ==
  /\ job[w].pc = "downloaded"
  /\ \/ /\ tmp # None
        /\ tmp \in Unparsable => tmp # job[w].msg.doc
        /\ job' = [job EXCEPT ![w].pc = "parsed", ![w].src = tmp]
     \/ /\ tmp = None \/ tmp \in Unparsable \/ tmp # job[w].msg.doc
        /\ Goto(w, "failing")
  /\ UNCHANGED <<mysql, stores, broker, host, nextGen, api, fault>>

(* Mutant: no unique constraint on (document_id, chunk_index).             *)
FlushNotUnique(w) ==
  LET d == job[w].msg.doc IN
  /\ job[w].pc = "parsed"
  /\ ~Locked(d)
  /\ Exists(d)
  /\ nextGen' = nextGen + 1
  /\ job' = [job EXCEPT ![w].pc = "flushed",
       ![w].pend = [gen |-> nextGen, doc |-> d, src |-> job[w].src]]
  /\ UNCHANGED <<mysql, stores, broker, host, api, fault>>

(* db.flush() of the chunk rows.  It waits for rows another worker has     *)
(* flushed; a missing parent row or rows already there raise               *)
(* IntegrityError, after which the session is unusable (see above).        *)
Flush(w) ==
  LET d == job[w].msg.doc IN
  /\ job[w].pc = "parsed"
  /\ ~Locked(d)
  /\ nextGen' = nextGen + 1
  /\ \/ /\ Exists(d)
        /\ ~HasRows(d)
        /\ job' = [job EXCEPT ![w].pc = "flushed",
             ![w].pend = [gen |-> nextGen, doc |-> d, src |-> job[w].src]]
     \/ /\ ~Exists(d) \/ HasRows(d)
        /\ Goto(w, "ending")
  /\ UNCHANGED <<mysql, stores, broker, host, api, fault>>

(* Bulk-index the flushed rows, before they are committed.                 *)
IndexES(w) ==
  /\ job[w].pc = "flushed"
  /\ es' = es \cup {job[w].pend}
  /\ Goto(w, "indexed")
  /\ UNCHANGED <<mysql, objects, vectors, copies, broker, host, nextGen, api, fault>>

(* An indexing failure is logged and forgotten, a soft limit raised within *)
(* bulk_index_chunks included.                                             *)
IndexESFails(w) ==
  /\ job[w].pc = "flushed"
  /\ Broken("es")
  /\ Goto(w, "indexed")
  /\ UNCHANGED <<mysql, stores, broker, host, nextGen, api>>

(* Mutant: chunk_count is forgotten.                                       *)
CommitReadyNoCount(w) ==
  LET b == job[w].pend IN
  /\ job[w].pc = "indexed"
  /\ chunks' = chunks \cup {b}
  /\ status' = [status EXCEPT ![b.doc] = "ready"]
  /\ job' = [job EXCEPT ![w].pc = "committed", ![w].pend = None, ![w].ids = b]
  /\ UNCHANGED <<chunkCount, stores, broker, host, nextGen, api, fault>>

(* Mutant: READY may be committed before the rows are indexed.             *)
CommitReadyUnindexed(w) ==
  LET b == job[w].pend IN
  /\ job[w].pc \in {"flushed", "indexed"}
  /\ chunks' = chunks \cup {b}
  /\ status' = [status EXCEPT ![b.doc] = "ready"]
  /\ chunkCount' = [chunkCount EXCEPT ![b.doc] = NumChunks[b.src]]
  /\ job' = [job EXCEPT ![w].pc = "committed", ![w].pend = None, ![w].ids = b]
  /\ UNCHANGED <<stores, broker, host, nextGen, api, fault>>

(* Step 8: chunk_count, READY and the chunk rows in one commit.            *)
CommitReady(w) ==
  LET b == job[w].pend IN
  /\ job[w].pc = "indexed"
  /\ chunks' = chunks \cup {b}
  /\ status' = [status EXCEPT ![b.doc] = "ready"]
  /\ chunkCount' = [chunkCount EXCEPT ![b.doc] = NumChunks[b.src]]
  /\ job' = [job EXCEPT ![w].pc = "committed", ![w].pend = None, ![w].ids = b]
  /\ UNCHANGED <<stores, broker, host, nextGen, api, fault>>

(* Mutant: the chained call is missing.                                    *)
DispatchDropped(w) ==
  /\ job[w].pc = "committed"
  /\ job' = [job EXCEPT ![w].pc = "ending", ![w].ids = None]
  /\ UNCHANGED <<mysql, stores, broker, host, nextGen, api, fault>>

(* Step 9: queue vectorize_chunks with the chunk ids.                      *)
Dispatch(w) ==
  /\ job[w].pc = "committed"
  /\ vecQueue' = vecQueue \cup {job[w].ids}
  /\ job' = [job EXCEPT ![w].pc = "ending", ![w].ids = None]
  /\ UNCHANGED <<mysql, stores, docQueue, sent, host, nextGen, api, fault>>

(* The chained call raises, its message sent or not.                       *)
DispatchFails(w) ==
  /\ job[w].pc = "committed"
  /\ Broken("publish")
  /\ vecQueue' \in {vecQueue, vecQueue \cup {job[w].ids}}
  /\ job' = [job EXCEPT ![w].pc = "failing", ![w].ids = None]
  /\ UNCHANGED <<mysql, stores, docQueue, sent, host, nextGen, api>>

(* Mutant: the failure is swallowed, FAILED is not written.                *)
HandleFailureSilent(w) ==
  /\ job[w].pc = "failing"
  /\ job' = [job EXCEPT ![w].pc = "ending", ![w].pend = None]
  /\ UNCHANGED <<mysql, stores, broker, host, nextGen, api, fault>>

(* Mutant: the clause cleans up the document's chunk rows.                 *)
HandleFailurePurging(w) ==
  LET d == job[w].msg.doc IN
  /\ job[w].pc = "failing"
  /\ ~Locked(d)
  /\ Exists(d)
  /\ status' = [status EXCEPT ![d] = "failed"]
  /\ chunks' = {b \in chunks : b.doc # d}
  /\ job' = [job EXCEPT ![w].pc = "ending", ![w].pend = None]
  /\ UNCHANGED <<chunkCount, stores, broker, host, nextGen, api, fault>>

(* Mutant: the clause commits what the task has, even if that is nothing.  *)
HandleFailureBlind(w) ==
  LET d == job[w].msg.doc IN
  /\ job[w].pc = "failing"
  /\ status' = [status EXCEPT ![d] = "failed"]
  /\ chunks' = chunks \cup {job[w].pend}
  /\ job' = [job EXCEPT ![w].pc = "ending", ![w].pend = None]
  /\ UNCHANGED <<chunkCount, stores, broker, host, nextGen, api, fault>>

(* The except clause: FAILED is committed in the same session, together    *)
(* with whatever that session had flushed.                                 *)
HandleFailure(w) ==
  LET d == job[w].msg.doc
      b == job[w].pend IN
  /\ job[w].pc = "failing"
  /\ \A v \in Workers \ {w} : ~Holds(v, d)
  /\ IF Exists(d)
     THEN /\ status' = [status EXCEPT ![d] = "failed"]
          /\ chunks' = IF b = None THEN chunks ELSE chunks \cup {b}
     ELSE UNCHANGED <<status, chunks>>
  /\ job' = [job EXCEPT ![w].pc = "ending", ![w].pend = None]
  /\ UNCHANGED <<chunkCount, stores, broker, host, nextGen, api, fault>>

(* SoftTimeLimitExceeded is raised between the calls of the try block or   *)
(* while the event loop waits: the except clause runs.  A download under   *)
(* way goes on in its thread.  (Within a database call, the indexing or    *)
(* the chained call it is one of the broken calls above and below.)        *)
SoftLimit(w) ==
  LET d == job[w].msg.doc IN
  /\ job[w].pc \in {"fetched", "marked", "downloaded", "parsed", "flushed",
                    "indexed", "committed"}
  /\ Fail("softlimit")
  /\ \/ UNCHANGED late
     \/ /\ job[w].pc = "marked"
        /\ d \in objects
        /\ late' = [late EXCEPT ![w] = @ \cup {d}]
  /\ job' = [job EXCEPT ![w].pc = "failing", ![w].ids = None]
  /\ UNCHANGED <<mysql, stores, broker, tmp, nextGen, api>>

(* Raised outside the try blocks, in the logging of the except clause or   *)
(* in the finally clause, it leaves the task: the session's transaction is *)
(* rolled back and autoretry_for publishes the task again, unless the      *)
(* retries are used up or the broker refuses: counted as "publish".        *)
SoftLimitEscapes(w) ==
  /\ job[w].pc \in {"failing", "ending"}
  /\ \/ /\ Fail("softlimit")
        /\ Publish(job[w].msg.doc)
     \/ /\ "softlimit" \in Faults
        /\ Strike("publish")
        /\ UNCHANGED broker
  /\ tmp' \in IF job[w].temp THEN {tmp, None} ELSE {tmp}
  /\ job' = [job EXCEPT ![w] = IdleJob]
  /\ UNCHANGED <<mysql, stores, late, nextGen, api>>

(* A flush or commit raises (connection, lock wait timeout, deadlock, soft *)
(* limit): the transaction is rolled back and, the session being unusable, *)
(* the except clause cannot write FAILED.                                  *)
DbError(w) ==
  /\ job[w].pc \in {"fetched", "parsed", "indexed", "failing"}
  /\ Broken("db")
  /\ job' = [job EXCEPT ![w].pc = "ending", ![w].pend = None]
  /\ UNCHANGED <<mysql, stores, broker, host, nextGen, api>>

(* A commit raises although MySQL carried it out: PROCESSING stands with   *)
(* nobody processing, or READY without the chained call.                   *)
CommitUnanswered(w) ==
  LET d == job[w].msg.doc
      b == job[w].pend IN
  /\ Broken("db")
  /\ \/ /\ job[w].pc = "fetched"
        /\ Exists(d)
        /\ ~Locked(d)
        /\ status' = [status EXCEPT ![d] = "processing"]
        /\ UNCHANGED <<chunks, chunkCount>>
     \/ /\ job[w].pc = "indexed"
        /\ chunks' = chunks \cup {b}
        /\ status' = [status EXCEPT ![d] = "ready"]
        /\ chunkCount' = [chunkCount EXCEPT ![d] = NumChunks[b.src]]
  /\ job' = [job EXCEPT ![w].pc = "ending", ![w].pend = None]
  /\ UNCHANGED <<stores, broker, host, nextGen, api>>

(* The finally clause removes the temporary file, whoever wrote it last;   *)
(* the message is acknowledged once the task has returned.                 *)
Finish(w) ==
  /\ job[w].pc = "ending"
  /\ tmp' = IF job[w].temp THEN None ELSE tmp
  /\ job' = [job EXCEPT ![w] = IdleJob]
  /\ UNCHANGED <<mysql, stores, broker, late, nextGen, api, fault>>

-----------------------------------------------------------------------------
(* vectorize_chunks.                                                       *)

(* Take a message and read its chunk rows; no rows, nothing to do.         *)
FetchVectorize(w) ==
  /\ job[w].pc = "idle"
  /\ \E b \in vecQueue :
       /\ vecQueue' = vecQueue \ {b}
       /\ IF b \in chunks
          THEN job' = [job EXCEPT ![w] =
                         [IdleJob EXCEPT !.pc = "embedding", !.ids = b]]
          ELSE UNCHANGED job
  /\ UNCHANGED <<mysql, stores, docQueue, sent, host, nextGen, api, fault>>

(* Embed the texts read above and insert (not upsert) the vectors.         *)
StoreVectors(w) ==
  LET b == job[w].ids IN
  /\ job[w].pc = "embedding"
  /\ vectors' = vectors \cup {b}
  /\ copies' = [copies EXCEPT ![b.doc] = @ + 1]
  /\ Goto(w, "stored")
  /\ UNCHANGED <<mysql, objects, es, broker, host, nextGen, api, fault>>

(* A failure of the embedding service or of Milvus, or the soft limit, is  *)
(* logged: no retry.                                                       *)
VectorizeFails(w) ==
  /\ job[w].pc = "embedding"
  /\ Broken("milvus")
  /\ Goto(w, "stored")
  /\ UNCHANGED <<mysql, stores, broker, host, nextGen, api>>

AckVectorize(w) ==
  /\ job[w].pc = "stored"
  /\ job' = [job EXCEPT ![w] = IdleJob]
  /\ UNCHANGED <<mysql, stores, broker, host, nextGen, api, fault>>

-----------------------------------------------------------------------------
(* Crashes.                                                                *)

(* A child is killed (out of memory, hard time limit).  Its transaction is *)
(* rolled back; with acks_late but without reject_on_worker_lost the       *)
(* parent acknowledges the message: it is lost.                            *)
ChildLost(w) ==
  /\ job[w].pc # "idle"
  /\ Fail("childlost")
  /\ job' = [job EXCEPT ![w] = IdleJob]
  /\ late' = [late EXCEPT ![w] = {}]
  /\ UNCHANGED <<mysql, stores, broker, tmp, nextGen, api>>

(* The whole worker host dies: RabbitMQ requeues every unacknowledged      *)
(* message.  A restarted container keeps /tmp, a recreated one does not.   *)
WorkerDown ==
  /\ \E w \in Workers : job[w].pc # "idle"
  /\ Fail("workerdown")
  /\ docQueue' = docQueue \cup ({job[w].msg : w \in Workers} \ {None})
  /\ vecQueue' = vecQueue \cup
       {job[w].ids : w \in {v \in Workers : job[v].pc \in {"embedding", "stored"}}}
  /\ job' = [w \in Workers |-> IdleJob]
  /\ late' = [w \in Workers |-> {}]
  /\ tmp' \in {tmp, None}
  /\ UNCHANGED <<mysql, stores, sent, nextGen, api>>

-----------------------------------------------------------------------------

ApiStep(d) == \/ PublishTask(d) \/ PublishFails(d) \/ Reprocess(d)
              \/ DeleteObject(d) \/ DeleteRows(d) \/ DeleteAborts(d)

ProcessStep(w) == \/ Fetch(w) \/ MarkProcessing(w) \/ Download(w)
                  \/ Parse(w) \/ Flush(w) \/ IndexES(w) \/ CommitReady(w)
                  \/ Dispatch(w) \/ HandleFailure(w) \/ Finish(w)

VectorizeStep(w) == FetchVectorize(w) \/ StoreVectors(w) \/ AckVectorize(w)

FaultStep(w) == \/ DownloadTimesOut(w) \/ IndexESFails(w) \/ DispatchFails(w)
                \/ SoftLimit(w) \/ SoftLimitEscapes(w) \/ DbError(w)
                \/ CommitUnanswered(w) \/ VectorizeFails(w) \/ ChildLost(w)

Next ==
  \/ \E d \in Docs : ApiStep(d)
  \/ \E w \in Workers : \/ ProcessStep(w)
                        \/ VectorizeStep(w)
                        \/ LateDownload(w)
                        \/ FaultStep(w)
  \/ WorkerDown

Spec == Init /\ [][Next]_vars

(***************************************************************************)
(* Fairness: a worker process that can take its next step takes it (the    *)
(* long calls have timeouts), the API request that committed the row goes  *)
(* on to send the task, and a delete that reached its transaction gets its *)
(* lock (InnoDB grants locks in order).  Faults are never fair.            *)
(***************************************************************************)
FairSpec ==
  /\ Spec
  /\ \A w \in Workers : WF_vars(ProcessStep(w) \/ VectorizeStep(w))
  /\ \A d \in Docs : WF_vars(PublishTask(d)) /\ WF_vars(DeleteRows(d))

-----------------------------------------------------------------------------
(* What the pipeline promises.                                             *)

InFlight(d) == \/ \E m \in docQueue : m.doc = d
               \/ \E w \in Workers : job[w].msg # None /\ job[w].msg.doc = d

(* Every variable has the shape the declarations above describe.           *)
TypeOK ==
  /\ status \in [Docs -> Status \cup {"gone"}]
  /\ chunkCount \in [Docs -> Nat]
  /\ chunks \subseteq Batch
  /\ objects \subseteq Docs
  /\ es \subseteq Batch
  /\ vectors \subseteq Batch
  /\ copies \in [Docs -> Nat]
  /\ docQueue \subseteq Message
  /\ vecQueue \subseteq Batch
  /\ sent \in Nat
  /\ tmp \in Docs \cup {None}
  /\ late \in [Workers -> SUBSET Docs]
  /\ job \in [Workers -> Job]
  /\ nextGen \in Nat
  /\ due \subseteq Docs
  /\ deleting \subseteq Docs
  /\ reprocessed \in 0..MaxReprocess
  /\ faults \in 0..MaxFaults
  /\ struck \subseteq FaultKinds

(* A READY document has its chunk rows, and chunk_count counts them,       *)
(* however many deliveries of it run at once and whatever fails: the list  *)
(* and the chunk viewer (document_service.py) rely on it.                  *)
ReadyIsComplete ==
  \A d \in Docs : status[d] = "ready" =>
    \E b \in chunks : b.doc = d /\ chunkCount[d] = NumChunks[b.src]

(* Redelivered, duplicated and reprocessed tasks never leave two sets of   *)
(* chunk rows for one document.                                            *)
OneBatchPerDoc ==
  \A b1, b2 \in chunks : b1.doc = b2.doc => b1 = b2

(* No chunk row outlives its document, although a delete may run while a   *)
(* worker is inserting that document's rows.                               *)
NoOrphanRows == \A b \in chunks : Exists(b.doc)

(* As long as a document exists, the vectors Milvus has for it are those   *)
(* of its current chunk rows, so that a vector hit can be shown.           *)
VectorsMatchRows ==
  \A b \in vectors : Exists(b.doc) => b \in chunks

(* A READY document can be found by full text unless a call to             *)
(* Elasticsearch failed or was interrupted by the soft limit, whatever     *)
(* else fails: its rows are committed with READY or not at all.            *)
ReadyIsIndexed ==
  "es" \notin struck =>
    \A d \in Docs : status[d] = "ready" => \E b \in chunks \cap es : b.doc = d

(* Vectors are inserted, not upserted: only a redelivery after a failure   *)
(* may insert those of a document twice.                                   *)
CopiesBounded == \A d \in Docs : copies[d] <= 1 + faults

(* Unless a call to the database fails or is interrupted, a child is       *)
(* killed or a task cannot be published again, a document left in          *)
(* PROCESSING with no delivery of its task has been processed: its rows    *)
(* are there, a second delivery merely overwrote READY and then collided   *)
(* with them.                                                              *)
AbandonedHasRows ==
  struck \cap {"db", "childlost", "publish"} = {} =>
    \A d \in Docs : status[d] = "processing" /\ ~InFlight(d) => HasRows(d)

(* What the catalogue of documents shows to the rest of the system only    *)
(* changes as DocumentCatalog allows.                                      *)
Catalog == INSTANCE DocumentCatalog
CatalogSpec == Catalog!Spec


(* As long as nothing has failed, a document that became READY gets its    *)
(* vectors, unless it is deleted first.                                    *)
EventuallyVectorized ==
  \A d \in Docs : status[d] = "ready" ~>
    (faults > 0 \/ status[d] = "gone" \/ \E b \in vectors : b.doc = d)

-----------------------------------------------------------------------------
(* What the code's comments say of it, and it does not do.                 *)

(* storage_service.download_file: "Download an object from MinIO to a      *)
(* temporary local file", returning "the absolute path to the downloaded   *)
(* file": the text of a document's chunks comes from its own object.       *)
ChunksFromOwnObject == \A b \in chunks : b.src = b.doc

(* celery_app: "task_acks_late=True,  # Re-deliver on worker crash": a     *)
(* document being processed always has a delivery, queued or running.      *)
ProcessingHasDelivery ==
  \A d \in Docs : status[d] = "processing" => InFlight(d)

(* The same comment, and step 6 of process_document's docstring            *)
(* ("Chain-call vectorize_chunks_task"): a worker crash does not keep a    *)
(* READY document from getting its vectors.  A crash between the READY     *)
(* commit and the chained call does: the redelivered task finds the        *)
(* document READY and skips it.                                            *)
VectorizedDespiteCrash ==
  \A d \in Docs : status[d] = "ready" ~>
    (status[d] = "gone" \/ \E b \in vectors : b.doc = d)

=============================================================================
