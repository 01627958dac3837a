--------------------------- MODULE UploadSession ----------------------------
(***************************************************************************)
(* Chunked uploads: init_upload, upload_chunk and complete_upload of       *)
(* backend/app/services/document_service.py with their endpoints in        *)
(* backend/app/api/v1/documents.py, over the three Redis keys of a session *)
(* and its MinIO multipart upload.                                         *)
(*                                                                         *)
(* A request is a coroutine of the API process: every await on Redis,      *)
(* MinIO or MySQL is a step, and other requests run between two of them.   *)
(* Requests that are refused before they change anything (unknown session, *)
(* someone else's session, duplicate file) do not appear as steps.  The    *)
(* bytes of a part are a function of its number, so an ETag adds nothing   *)
(* to a part number.                                                       *)
(*                                                                         *)
(* An operator introduced by "Mutant:" is no part of the model: it is what *)
(* the action after it would be with a plausible bug.                      *)
(***************************************************************************)
EXTENDS Naturals

CONSTANTS
  Uploads,    \* upload ids (uuid4), each used once
  Requests,   \* concurrent API requests
  None,       \* "no value"
  FileSize,   \* FileSize[u]: size the client declared at init
  ChunkSize,  \* CHUNK_SIZE
  Md5,        \* Md5[u]: <<user, md5>> of the file, None if the md5 is empty
  Faults,     \* kinds of failed call the environment may produce
  MaxFaults,  \* bound on their number
  MaxCrashes  \* bound on the number of crashes of the API process

FaultKinds == {"timeout", "redis", "db", "publish"}

ASSUME UploadAssumption ==
  /\ None \notin Uploads
  /\ FileSize \in [Uploads -> Nat]
  /\ ChunkSize \in Nat \ {0}
  /\ Faults \subseteq FaultKinds
  /\ MaxFaults \in Nat
  /\ MaxCrashes \in Nat

VARIABLES
  \* Redis
  sessions,  \* uploads whose upload:{id} hash exists
  chunks,    \* chunks[u]: the set upload:{id}:chunks, {} when the key is absent
  parts,     \* parts[u]: part numbers in the hash upload:{id}:parts, likewise
  timed,     \* pairs <<u, key>>: the key has a TTL
  \* MinIO
  multipart, \* multipart[u]: "none", "open" or "done"
  stored,    \* stored[u]: parts MinIO received
  object,    \* object[u]: parts the object was assembled from, {} when none
  \* MySQL, RabbitMQ
  docs,      \* uploads with a document row
  submitted, \* documents whose process_document task was sent
  \* the API process
  rq,        \* rq[r]: where request r is
  faults,    \* failed calls so far
  crashes,   \* crashes so far
  cut        \* history, pairs <<u, duty>>: what requests cut short left undone

redis == <<sessions, chunks, parts, timed>>
minio == <<multipart, stored, object>>
rest  == <<docs, submitted>>
count == <<faults, crashes, cut>>
vars  == <<redis, minio, rest, rq, count>>

(* math.ceil(file_size / CHUNK_SIZE)                                       *)
Expected(u) == (FileSize[u] + ChunkSize - 1) \div ChunkSize

(* Nothing checks the chunk number of a client: one part too many stands   *)
(* for all of them.                                                        *)
PartNos(u) == 1..(Expected(u) + 1)

Keys == {"session", "chunks", "parts"}

(* The Redis calls of a request that make a key, or renew the TTLs after.  *)
Arming == {"arm", "hset", "refresh", "refreshChunks", "refreshParts"}

PC == Arming \cup {"idle", "register", "upload", "sadd", "verify", "collect",
                  "assemble", "insert", "cleanup", "submit"}

Duties == {"keys", "task"}

IdleRq == [pc |-> "idle", u |-> None, part |-> 0, list |-> {}]

Init ==
  /\ sessions = {}
  /\ chunks = [u \in Uploads |-> {}]
  /\ parts = [u \in Uploads |-> {}]
  /\ timed = {}
  /\ multipart = [u \in Uploads |-> "none"]
  /\ stored = [u \in Uploads |-> {}]
  /\ object = [u \in Uploads |-> {}]
  /\ docs = {}
  /\ submitted = {}
  /\ rq = [r \in Requests |-> IdleRq]
  /\ faults = 0
  /\ crashes = 0
  /\ cut = {}

-----------------------------------------------------------------------------

Present(u) == {k \in Keys : \/ k = "session" /\ u \in sessions
                            \/ k = "chunks" /\ chunks[u] # {}
                            \/ k = "parts" /\ parts[u] # {}}

Fail(kind) ==
  /\ kind \in Faults
  /\ faults < MaxFaults
  /\ faults' = faults + 1
  /\ UNCHANGED crashes

Goto(r, to) == rq' = [rq EXCEPT ![r].pc = to]

Return(r) == rq' = [rq EXCEPT ![r] = IdleRq]

(* What a request still has to do for what it has done: set the TTL of the *)
(* keys it wrote, hand the document it committed to the pipeline.          *)
Owes(q) == (IF q.pc \in Arming THEN {<<q.u, "keys">>} ELSE {})
           \cup (IF q.pc \in {"cleanup", "submit"} THEN {<<q.u, "task">>} ELSE {})

(* An exception ends request r.                                            *)
CutShort(r) ==
  /\ cut' = cut \cup Owes(rq[r])
  /\ Return(r)

SetTTL(u, k) == timed' = timed \cup ({u} \X (Present(u) \cap {k}))

SameFile(u, v) == Md5[u] # None /\ Md5[u] = Md5[v]

-----------------------------------------------------------------------------
(* init_upload.                                                            *)

(* Deduplicate against the documents committed so far, then open the       *)
(* multipart upload.                                                       *)
InitUpload(r, u) ==
  /\ rq[r].pc = "idle"
  /\ multipart[u] = "none"
  /\ ~\E v \in docs : SameFile(u, v)
  /\ multipart' = [multipart EXCEPT ![u] = "open"]
  /\ rq' = [rq EXCEPT ![r] = [IdleRq EXCEPT !.pc = "register", !.u = u]]
  /\ UNCHANGED <<redis, stored, object, rest, count>>

(* hset of the session hash, which has no TTL yet.                         *)
Register(r) ==
  /\ rq[r].pc = "register"
  /\ sessions' = sessions \cup {rq[r].u}
  /\ Goto(r, "arm")
  /\ UNCHANGED <<chunks, parts, timed, minio, rest, count>>

(* expire of the session hash.                                             *)
Arm(r) ==
  /\ rq[r].pc = "arm"
  /\ SetTTL(rq[r].u, "session")
  /\ Return(r)
  /\ UNCHANGED <<sessions, chunks, parts, minio, rest, count>>

-----------------------------------------------------------------------------
(* upload_chunk.                                                           *)

StartChunk(r, u) ==
  /\ rq[r].pc = "idle"
  /\ u \in sessions
  /\ \E p \in PartNos(u) :
       rq' = [rq EXCEPT ![r] = [IdleRq EXCEPT !.pc = "upload", !.u = u, !.part = p]]
  /\ UNCHANGED <<redis, minio, rest, count>>

(* The part reaches MinIO, unless the multipart upload is over.            *)
UploadPart(r) ==
  LET u == rq[r].u IN
  /\ rq[r].pc = "upload"
  /\ \/ /\ multipart[u] = "open"
        /\ stored' = [stored EXCEPT ![u] = @ \cup {rq[r].part}]
        /\ Goto(r, "sadd")
     \/ /\ multipart[u] # "open"
        /\ Return(r)
        /\ UNCHANGED stored
  /\ UNCHANGED <<redis, multipart, object, rest, count>>

(* MinIO has the part but answered too late: the request fails.            *)
UploadPartTimesOut(r) ==
  LET u == rq[r].u IN
  /\ rq[r].pc = "upload"
  /\ multipart[u] = "open"
  /\ Fail("timeout")
  /\ stored' = [stored EXCEPT ![u] = @ \cup {rq[r].part}]
  /\ CutShort(r)
  /\ UNCHANGED <<redis, multipart, object, rest>>

(* sadd to the chunks set; the key it may create has no TTL.               *)
RecordChunk(r) ==
  /\ rq[r].pc = "sadd"
  /\ chunks' = [chunks EXCEPT ![rq[r].u] = @ \cup {rq[r].part}]
  /\ Goto(r, "hset")
  /\ UNCHANGED <<sessions, parts, timed, minio, rest, count>>

(* hset of the ETag in the parts hash, likewise.                           *)
RecordPart(r) ==
  /\ rq[r].pc = "hset"
  /\ parts' = [parts EXCEPT ![rq[r].u] = @ \cup {rq[r].part}]
  /\ Goto(r, "refresh")
  /\ UNCHANGED <<sessions, chunks, timed, minio, rest, count>>

(* Mutant: only the session hash is given a TTL.                           *)
RefreshTTLSession(r) ==
  /\ rq[r].pc = "refresh"
  /\ SetTTL(rq[r].u, "session")
  /\ Return(r)
  /\ UNCHANGED <<sessions, chunks, parts, minio, rest, count>>

(* expire of the three keys, one after the other.                          *)
RefreshTTL(r) ==
  LET u == rq[r].u IN
  /\ \/ rq[r].pc = "refresh" /\ SetTTL(u, "session") /\ Goto(r, "refreshChunks")
     \/ rq[r].pc = "refreshChunks" /\ SetTTL(u, "chunks") /\ Goto(r, "refreshParts")
     \/ rq[r].pc = "refreshParts" /\ SetTTL(u, "parts") /\ Return(r)
  /\ UNCHANGED <<sessions, chunks, parts, minio, rest, count>>

-----------------------------------------------------------------------------
(* complete_upload.                                                        *)

StartComplete(r, u) ==
  /\ rq[r].pc = "idle"
  /\ u \in sessions
  /\ rq' = [rq EXCEPT ![r] = [IdleRq EXCEPT !.pc = "verify", !.u = u]]
  /\ UNCHANGED <<redis, minio, rest, count>>

(* Mutant: one recorded chunk is enough.                                   *)
VerifyChunksAny(r) ==
  /\ rq[r].pc = "verify"
  /\ IF chunks[rq[r].u] # {} THEN Goto(r, "collect") ELSE Return(r)
  /\ UNCHANGED <<redis, minio, rest, count>>

(* Mutant: chunks beyond the expected ones are not noticed.                *)
VerifyChunksLoose(r) ==
  LET u == rq[r].u IN
  /\ rq[r].pc = "verify"
  /\ IF 1..Expected(u) \subseteq chunks[u] THEN Goto(r, "collect") ELSE Return(r)
  /\ UNCHANGED <<redis, minio, rest, count>>

(* smembers: the recorded chunks must be exactly the expected ones.        *)
VerifyChunks(r) ==
  LET u == rq[r].u IN
  /\ rq[r].pc = "verify"
  /\ IF chunks[u] = 1..Expected(u) THEN Goto(r, "collect") ELSE Return(r)
  /\ UNCHANGED <<redis, minio, rest, count>>

(* hgetall of the parts hash: the list MinIO will be given.                *)
CollectParts(r) ==
  /\ rq[r].pc = "collect"
  /\ rq' = [rq EXCEPT ![r].pc = "assemble", ![r].list = parts[rq[r].u]]
  /\ UNCHANGED <<redis, minio, rest, count>>

(* MinIO assembles the parts of the list and closes the multipart upload.  *)
(* It refuses an empty list and an upload that is not open.                *)
CanAssemble(r) == multipart[rq[r].u] = "open" /\ rq[r].list # {}

Assembled(r) ==
  /\ multipart' = [multipart EXCEPT ![rq[r].u] = "done"]
  /\ object' = [object EXCEPT ![rq[r].u] = rq[r].list]
  /\ UNCHANGED stored

CompleteMultipart(r) ==
  /\ rq[r].pc = "assemble"
  /\ \/ /\ CanAssemble(r)
        /\ Assembled(r)
        /\ Goto(r, "insert")
     \/ /\ ~CanAssemble(r)
        /\ Return(r)
        /\ UNCHANGED minio
  /\ UNCHANGED <<redis, rest, count>>

(* MinIO assembles the object but answers after the timeout.               *)
CompleteTimesOut(r) ==
  /\ rq[r].pc = "assemble"
  /\ CanAssemble(r)
  /\ Fail("timeout")
  /\ Assembled(r)
  /\ CutShort(r)
  /\ UNCHANGED <<redis, rest>>

(* Mutant: no unique constraint uk_md5_user.                               *)
InsertDocumentUnchecked(r) ==
  /\ rq[r].pc = "insert"
  /\ docs' = docs \cup {rq[r].u}
  /\ Goto(r, "cleanup")
  /\ UNCHANGED <<redis, minio, submitted, count>>

(* Insert and commit the row; uk_md5_user may refuse it.                   *)
InsertDocument(r) ==
  LET u == rq[r].u IN
  /\ rq[r].pc = "insert"
  /\ IF \E v \in docs : SameFile(u, v)
     THEN /\ Return(r)
          /\ UNCHANGED docs
     ELSE /\ docs' = docs \cup {u}
          /\ Goto(r, "cleanup")
  /\ UNCHANGED <<redis, minio, submitted, count>>

(* Mutant: the endpoint returns before the task is sent.                   *)
DeleteKeysReturns(r) ==
  LET u == rq[r].u IN
  /\ rq[r].pc = "cleanup"
  /\ sessions' = sessions \ {u}
  /\ chunks' = [chunks EXCEPT ![u] = {}]
  /\ parts' = [parts EXCEPT ![u] = {}]
  /\ timed' = timed \ ({u} \X Keys)
  /\ Return(r)
  /\ UNCHANGED <<minio, rest, count>>

(* Mutant: the upload is looked up again after its keys are gone.          *)
DeleteKeysForgets(r) ==
  LET u == rq[r].u IN
  /\ rq[r].pc = "cleanup"
  /\ sessions' = sessions \ {u}
  /\ chunks' = [chunks EXCEPT ![u] = {}]
  /\ parts' = [parts EXCEPT ![u] = {}]
  /\ timed' = timed \ ({u} \X Keys)
  /\ rq' = [rq EXCEPT ![r] = [IdleRq EXCEPT !.pc = "submit"]]
  /\ UNCHANGED <<minio, rest, count>>

(* Delete the three Redis keys, atomically.                                *)
DeleteKeys(r) ==
  LET u == rq[r].u IN
  /\ rq[r].pc = "cleanup"
  /\ sessions' = sessions \ {u}
  /\ chunks' = [chunks EXCEPT ![u] = {}]
  /\ parts' = [parts EXCEPT ![u] = {}]
  /\ timed' = timed \ ({u} \X Keys)
  /\ Goto(r, "submit")
  /\ UNCHANGED <<minio, rest, count>>

(* api_complete_upload: process_document_task.delay.                       *)
Submit(r) ==
  /\ rq[r].pc = "submit"
  /\ submitted' = submitted \cup {rq[r].u}
  /\ Return(r)
  /\ UNCHANGED <<redis, minio, docs, count>>

(* The broker refuses: the client gets an error, the row stays UPLOADING.  *)
SubmitFails(r) ==
  /\ rq[r].pc = "submit"
  /\ Fail("publish")
  /\ CutShort(r)
  /\ UNCHANGED <<redis, minio, rest>>

-----------------------------------------------------------------------------
(* Failures of Redis and MySQL.  A call that takes effect and then fails   *)
(* leaves what a failure of the request's next call leaves.                *)

(* A Redis call raises: nothing catches it.                                *)
RedisFails(r) ==
  /\ rq[r].pc \in Arming \cup {"register", "sadd", "verify", "collect", "cleanup"}
  /\ Fail("redis")
  /\ CutShort(r)
  /\ UNCHANGED <<redis, minio, rest>>

(* The insert raises, or the refresh of the row just committed does.       *)
DbFails(r) ==
  /\ rq[r].pc \in {"insert", "cleanup"}
  /\ Fail("db")
  /\ CutShort(r)
  /\ UNCHANGED <<redis, minio, rest>>

-----------------------------------------------------------------------------
(* The environment.                                                        *)

(* The TTLs of a session's keys are set one after the other, session hash  *)
(* first and parts last, so they run out in this order, unless a request   *)
(* that set some of them was cut short.  (A TTL of a day does not run out  *)
(* between two calls of the request that renews it.)                       *)
Expire(u) ==
  \/ /\ <<u, "session">> \in timed
     /\ sessions' = sessions \ {u}
     /\ timed' = timed \ {<<u, "session">>}
     /\ UNCHANGED <<chunks, parts, minio, rest, rq, count>>
  \/ /\ <<u, "chunks">> \in timed
     /\ u \notin sessions \/ <<u, "keys">> \in cut
     /\ chunks' = [chunks EXCEPT ![u] = {}]
     /\ timed' = timed \ {<<u, "chunks">>}
     /\ UNCHANGED <<sessions, parts, minio, rest, rq, count>>
  \/ /\ <<u, "parts">> \in timed
     /\ (u \notin sessions /\ chunks[u] = {}) \/ <<u, "keys">> \in cut
     /\ parts' = [parts EXCEPT ![u] = {}]
     /\ timed' = timed \ {<<u, "parts">>}
     /\ UNCHANGED <<sessions, chunks, minio, rest, rq, count>>

(* The API process dies with every request in it.                          *)
Crash ==
  /\ \E r \in Requests : rq[r].pc # "idle"
  /\ crashes < MaxCrashes
  /\ crashes' = crashes + 1
  /\ cut' = cut \cup UNION {Owes(rq[r]) : r \in Requests}
  /\ rq' = [r \in Requests |-> IdleRq]
  /\ UNCHANGED <<redis, minio, rest, faults>>

-----------------------------------------------------------------------------

InitSteps(r) == (\E u \in Uploads : InitUpload(r, u)) \/ Register(r) \/ Arm(r)

ChunkSteps(r) == \/ UploadPart(r) \/ RecordChunk(r) \/ RecordPart(r)
                 \/ RefreshTTL(r)

CompleteSteps(r) == \/ VerifyChunks(r) \/ CollectParts(r)
                    \/ CompleteMultipart(r) \/ InsertDocument(r)
                    \/ DeleteKeys(r) \/ Submit(r)

FaultSteps(r) == \/ UploadPartTimesOut(r) \/ CompleteTimesOut(r) \/ SubmitFails(r)
                 \/ RedisFails(r) \/ DbFails(r)

Next ==
  \/ \E r \in Requests :
       \/ \E u \in Uploads : StartChunk(r, u) \/ StartComplete(r, u)
       \/ InitSteps(r) \/ ChunkSteps(r) \/ CompleteSteps(r) \/ FaultSteps(r)
  \/ \E u \in Uploads : Expire(u)
  \/ Crash

Spec == Init /\ [][Next]_vars

(* A request that has started goes on: every call in it has a timeout.     *)
FairSpec ==
  /\ Spec
  /\ \A r \in Requests :
       WF_vars(Register(r) \/ Arm(r) \/ ChunkSteps(r) \/ CompleteSteps(r))

-----------------------------------------------------------------------------
(* What an upload promises.                                                *)

RequestType ==
  [pc: PC, u: Uploads \cup {None}, part: Nat, list: SUBSET Nat]

(* Every variable has the shape the declarations above describe.           *)
TypeOK ==
  /\ sessions \subseteq Uploads
  /\ chunks \in [Uploads -> SUBSET Nat]
  /\ parts \in [Uploads -> SUBSET Nat]
  /\ timed \subseteq Uploads \X Keys
  /\ multipart \in [Uploads -> {"none", "open", "done"}]
  /\ stored \in [Uploads -> SUBSET Nat]
  /\ object \in [Uploads -> SUBSET Nat]
  /\ docs \subseteq Uploads
  /\ submitted \subseteq Uploads
  /\ rq \in [Requests -> RequestType]
  /\ faults \in 0..MaxFaults
  /\ crashes \in 0..MaxCrashes
  /\ cut \subseteq Uploads \X Duties

(* Concurrent and repeated requests, time-outs and crashes never make the  *)
(* upload do more than UploadContract: nothing is assembled before every   *)
(* expected part is in MinIO, an object is assembled once, and gets at     *)
(* most one document, only after it exists.                                *)
Contract == INSTANCE UploadContract
              WITH durable <- stored, Parts <- PartNos, Expected <- Expected
ContractSpec == Contract!Spec

(* Two sessions for the same file may both pass the check of init_upload;  *)
(* still only one of them gets a document.                                 *)
UniqueFile == \A u, v \in docs : SameFile(u, v) => u = v

(* A session nobody is working on leaves no Redis key that never expires,  *)
(* late chunks included.  Redis calls and the process may fail: only an    *)
(* upload one of whose requests ended between writing a key and setting    *)
(* its TTLs is left out, for nothing repairs its keys.                     *)
IdleKeysExpire ==
  \A u \in Uploads :
    <<u, "keys">> \notin cut /\ (\A r \in Requests : rq[r].u # u)
      => {u} \X Present(u) \subseteq timed

(* A client that sends one request at a time gets the whole file, nothing  *)
(* more and nothing less, whenever it gets a document.  An upload one of   *)
(* whose requests ended between sadd and the last expire is left out: its  *)
(* chunks set may name a part its parts hash does not.                     *)
DocumentIsWhole ==
  \A u \in docs : <<u, "keys">> \in cut \/ object[u] = 1..Expected(u)

(* A committed document row is handed to the pipeline, unless its request  *)
(* ended between the commit and the task: an error of the row's refresh,   *)
(* of the deletion of the keys or of the broker, or a crash.  Nothing else *)
(* (late MinIO answers, expired keys, failed requests of other sessions)   *)
(* leaves a row behind.                                                    *)
DocumentSubmitted ==
  \A u \in Uploads : u \in docs ~> u \in submitted \/ <<u, "task">> \in cut

-----------------------------------------------------------------------------
(* complete_upload's comment "Verify all chunks have been received": the   *)
(* chunks are verified in one key and the list sent to MinIO is read from  *)
(* another, which a concurrent upload_chunk fills one await later.         *)
VerifiedMeansAssembled == \A u \in Uploads :
  object[u] # {} => 1..Expected(u) \subseteq object[u]

=============================================================================
