------------------------ MODULE UploadSessionProofs ------------------------
(***************************************************************************)
(* Proofs about UploadSession for any uploads, requests, file sizes and    *)
(* bounds.                                                                 *)
(***************************************************************************)
EXTENDS UploadSession, TLAPS

(***************************************************************************)
(* What a request knows.  Between verification and assembly, and between   *)
(* assembly and the row, other requests run: all it may rely on is that    *)
(* MinIO never loses a part and that a multipart upload ends once.         *)
(***************************************************************************)
Knows(q) == q.pc # "idle" =>
  /\ q.u \in Uploads
  /\ q.pc = "upload" => q.part \in PartNos(q.u)
  /\ q.pc \in {"sadd", "hset"} => q.part \in stored[q.u]
  /\ q.pc \in {"collect", "assemble"} => 1..Expected(q.u) \subseteq stored[q.u]
  /\ q.pc = "assemble" => q.list \subseteq stored[q.u]
  /\ q.pc = "insert" =>
       object[q.u] # {} /\ multipart[q.u] = "done" /\ q.u \notin docs

RequestsKnow == \A r \in Requests : Knows(rq[r])

(* One request at most records the document of an upload.                  *)
OneInserts ==
  \A r, s \in Requests :
    rq[r].pc = "insert" /\ rq[s].pc = "insert" /\ rq[r].u = rq[s].u => r = s

(* Redis names only parts MinIO has; an object, and so a document, only    *)
(* exists once the multipart upload is over.                               *)
RecordsStored ==
  \A u \in Uploads :
    /\ chunks[u] \subseteq stored[u]
    /\ parts[u] \subseteq stored[u]
    /\ object[u] # {} => multipart[u] = "done"
    /\ u \in docs => object[u] # {}

UploadInv == TypeOK /\ RequestsKnow /\ OneInserts /\ RecordsStored

(* Initially nothing is stored and no request runs.                        *)
LEMMA UploadInit == Init => UploadInv
BY UploadAssumption
DEF Init, UploadInv, TypeOK, RequestsKnow, Knows, OneInserts, RecordsStored,
    IdleRq, RequestType, PC

(* A request that has ended is typed.                                      *)
LEMMA IdleIsTyped == IdleRq \in RequestType /\ IdleRq.pc = "idle"
BY DEF IdleRq, RequestType, PC

(* What a request owes is typed.                                           *)
LEMMA OwesTyped ==
  ASSUME NEW q, Knows(q)
  PROVE  Owes(q) \subseteq Uploads \X Duties
BY DEF Owes, Knows, Arming, Duties

(* Parts are numbers.                                                      *)
LEMMA PartIsNat == \A u \in Uploads : PartNos(u) \subseteq Nat
BY DEF PartNos

(* What changes when request r takes a step that ends no multipart upload, *)
(* assembles nothing and records no document.                              *)
LEMMA Steady ==
  ASSUME UploadInv, TypeOK', NEW r \in Requests,
         \A s \in Requests \ {r} : rq'[s] = rq[s],
         Knows(rq[r])', rq'[r].pc # "insert",
         UNCHANGED <<object, docs>>,
         \A u \in Uploads : multipart[u] = "done" => multipart'[u] = "done",
         \A u \in Uploads : /\ stored[u] \subseteq stored'[u]
                            /\ chunks'[u] \subseteq stored'[u]
                            /\ parts'[u] \subseteq stored'[u]
  PROVE  UploadInv'
<1>1. RecordsStored'
  BY DEF UploadInv, RecordsStored
<1>2. OneInserts'
  BY DEF UploadInv, OneInserts
<1>3. \A s \in Requests \ {r} : Knows(rq[s])'
  BY DEF UploadInv, RequestsKnow, Knows, Expected
<1>4. QED
  BY <1>1, <1>2, <1>3 DEF UploadInv, RequestsKnow

-----------------------------------------------------------------------------
(* The steps of init_upload.                                               *)
LEMMA InitSafe ==
  ASSUME UploadInv, NEW r \in Requests, InitSteps(r)
  PROVE  UploadInv'
<1> USE UploadAssumption DEF redis, minio, rest, count, UploadInv, TypeOK
<1> rq[r] \in RequestType /\ Knows(rq[r])
  BY DEF RequestsKnow
<1>1. CASE \E u \in Uploads : InitUpload(r, u)
  <2>1. PICK u \in Uploads : InitUpload(r, u)
    BY <1>1
  <2> DEFINE q == [IdleRq EXCEPT !.pc = "register", !.u = u]
  <2>2. q \in RequestType /\ rq' = [rq EXCEPT ![r] = q]
    BY <2>1 DEF InitUpload, IdleRq, RequestType, PC
  <2>3. TypeOK'
    BY <2>1, <2>2 DEF InitUpload
  <2>4. Knows(rq[r])' /\ rq'[r].pc # "insert"
    BY <2>2 DEF Knows, IdleRq
  <2>5. QED
    BY <2>1, <2>2, <2>3, <2>4, Steady DEF InitUpload, RecordsStored
<1>2. CASE Register(r)
  <2> DEFINE q == [rq[r] EXCEPT !.pc = "arm"]
  <2>1. q \in RequestType /\ rq' = [rq EXCEPT ![r] = q]
    BY <1>2 DEF Register, Goto, RequestType, PC, Arming
  <2>2. TypeOK'
    BY <1>2, <2>1 DEF Register, Knows
  <2>3. Knows(rq[r])' /\ rq'[r].pc # "insert"
    BY <1>2, <2>1 DEF Register, Knows
  <2>4. QED
    BY <1>2, <2>1, <2>2, <2>3, Steady DEF Register, RecordsStored
<1>3. CASE Arm(r)
  <2>1. rq' = [rq EXCEPT ![r] = IdleRq]
    BY <1>3 DEF Arm, Return
  <2>2. TypeOK'
    BY <1>3, <2>1, IdleIsTyped DEF Arm, Knows, SetTTL, Present
  <2>3. Knows(rq[r])' /\ rq'[r].pc # "insert"
    BY <2>1, IdleIsTyped DEF Knows
  <2>4. QED
    BY <1>3, <2>1, <2>2, <2>3, Steady DEF Arm, RecordsStored
<1>4. QED
  BY <1>1, <1>2, <1>3 DEF InitSteps

(* The steps of upload_chunk: MinIO has the part before Redis names it.    *)
LEMMA ChunkSafe ==
  ASSUME UploadInv, NEW r \in Requests,
         \/ \E u \in Uploads : StartChunk(r, u)
         \/ ChunkSteps(r)
         \/ UploadPartTimesOut(r)
  PROVE  UploadInv'
<1> USE UploadAssumption DEF redis, minio, rest, count, UploadInv, TypeOK
<1> rq[r] \in RequestType /\ Knows(rq[r])
  BY DEF RequestsKnow
<1>1. CASE \E u \in Uploads : StartChunk(r, u)
  <2>1. PICK u \in Uploads : StartChunk(r, u)
    BY <1>1
  <2>2. PICK p \in PartNos(u) :
          rq' = [rq EXCEPT ![r] = [IdleRq EXCEPT !.pc = "upload", !.u = u, !.part = p]]
    BY <2>1 DEF StartChunk
  <2>3. [IdleRq EXCEPT !.pc = "upload", !.u = u, !.part = p] \in RequestType
    BY PartIsNat DEF IdleRq, RequestType, PC
  <2>4. TypeOK'
    BY <2>1, <2>2, <2>3 DEF StartChunk
  <2>5. Knows(rq[r])' /\ rq'[r].pc # "insert"
    BY <2>2 DEF Knows, IdleRq, PartNos, Expected
  <2>6. QED
    BY <2>1, <2>2, <2>4, <2>5, Steady DEF StartChunk, RecordsStored
<1>2. CASE UploadPart(r) \/ UploadPartTimesOut(r)
  <2> DEFINE u == rq[r].u
             q == [rq[r] EXCEPT !.pc = "sadd"]
  <2>1. /\ u \in Uploads /\ rq[r].part \in Nat
        /\ q \in RequestType /\ IdleRq \in RequestType
    BY <1>2, IdleIsTyped DEF UploadPart, UploadPartTimesOut, Knows, RequestType, PC
  <2>2. \/ rq' = [rq EXCEPT ![r] = IdleRq]
        \/ rq' = [rq EXCEPT ![r] = q] /\ stored' = [stored EXCEPT ![u] = @ \cup {rq[r].part}]
    BY <1>2 DEF UploadPart, UploadPartTimesOut, Goto, Return, CutShort
  <2>3. stored' = stored \/ stored' = [stored EXCEPT ![u] = @ \cup {rq[r].part}]
    BY <1>2 DEF UploadPart, UploadPartTimesOut
  <2>4. /\ UNCHANGED <<redis, multipart, object, rest, crashes>>
        /\ faults' \in 0..MaxFaults /\ cut' \subseteq Uploads \X Duties
    BY <1>2, OwesTyped DEF UploadPart, UploadPartTimesOut, Fail, CutShort
  <2>5. TypeOK'
    BY <2>1, <2>2, <2>3, <2>4
  <2>6. Knows(rq[r])' /\ rq'[r].pc # "insert"
    <3>1. CASE rq' = [rq EXCEPT ![r] = IdleRq]
      BY <3>1, IdleIsTyped DEF Knows
    <3>2. CASE /\ rq' = [rq EXCEPT ![r] = q]
               /\ stored' = [stored EXCEPT ![u] = @ \cup {rq[r].part}]
      <4>1. rq[r].part \in stored'[u]
        BY <2>1, <3>2
      <4>2. rq'[r] = q /\ q.pc = "sadd" /\ q.u = u /\ q.part = rq[r].part
        BY <3>2 DEF RequestType
      <4>3. QED
        BY <2>1, <4>1, <4>2 DEF Knows
    <3>3. QED
      BY <2>2, <3>1, <3>2
  <2>7. \A v \in Uploads : stored[v] \subseteq stored'[v]
    BY <2>1, <2>3
  <2>8. \A s \in Requests \ {r} : rq'[s] = rq[s]
    BY <2>2
  <2>9. QED
    BY <2>4, <2>5, <2>6, <2>7, <2>8, Steady DEF RecordsStored
<1>3. CASE RecordChunk(r)
  <2> DEFINE q == [rq[r] EXCEPT !.pc = "hset"]
  <2>1. q \in RequestType /\ rq' = [rq EXCEPT ![r] = q]
    BY <1>3 DEF RecordChunk, Goto, RequestType, PC, Arming
  <2>2. TypeOK'
    BY <1>3, <2>1 DEF RecordChunk, RequestType
  <2>3. Knows(rq[r])' /\ rq'[r].pc # "insert"
    BY <1>3, <2>1 DEF RecordChunk, Knows
  <2>4. QED
    BY <1>3, <2>1, <2>2, <2>3, Steady DEF RecordChunk, RecordsStored, Knows
<1>4. CASE RecordPart(r)
  <2> DEFINE q == [rq[r] EXCEPT !.pc = "refresh"]
  <2>1. q \in RequestType /\ rq' = [rq EXCEPT ![r] = q]
    BY <1>4 DEF RecordPart, Goto, RequestType, PC, Arming
  <2>2. TypeOK'
    BY <1>4, <2>1 DEF RecordPart, RequestType
  <2>3. Knows(rq[r])' /\ rq'[r].pc # "insert"
    BY <1>4, <2>1 DEF RecordPart, Knows
  <2>4. QED
    BY <1>4, <2>1, <2>2, <2>3, Steady DEF RecordPart, RecordsStored, Knows
<1>5. CASE RefreshTTL(r)
  <2>1. PICK q \in RequestType :
          /\ rq' = [rq EXCEPT ![r] = q] /\ q.pc \in {"idle", "refreshChunks", "refreshParts"}
          /\ q.pc # "idle" => q.u \in Uploads
    <3>1. CASE rq[r].pc = "refreshParts"
      BY <1>5, <3>1, IdleIsTyped DEF RefreshTTL, Return
    <3>2. CASE rq[r].pc # "refreshParts"
      <4>1. PICK to \in {"refreshChunks", "refreshParts"} : Goto(r, to)
        BY <1>5, <3>2 DEF RefreshTTL
      <4>2. [rq[r] EXCEPT !.pc = to] \in RequestType /\ rq[r].u \in Uploads
        BY <1>5, <4>1 DEF RefreshTTL, Knows, RequestType, PC, Arming
      <4>3. QED
        BY <4>1, <4>2 DEF Goto, RequestType
    <3>3. QED
      BY <3>1, <3>2
  <2>2. timed' \subseteq Uploads \X Keys
    BY <1>5 DEF RefreshTTL, Knows, SetTTL, Present
  <2>3. TypeOK'
    BY <1>5, <2>1, <2>2 DEF RefreshTTL
  <2>4. Knows(rq[r])' /\ rq'[r].pc # "insert"
    BY <2>1 DEF Knows
  <2>5. QED
    BY <1>5, <2>1, <2>3, <2>4, Steady DEF RefreshTTL, RecordsStored
<1>6. QED
  BY <1>1, <1>2, <1>3, <1>4, <1>5 DEF ChunkSteps

(* The steps of complete_upload that touch Redis or the queue.             *)
LEMMA CompleteSafe ==
  ASSUME UploadInv, NEW r \in Requests,
         \/ \E u \in Uploads : StartComplete(r, u)
         \/ VerifyChunks(r) \/ CollectParts(r) \/ DeleteKeys(r)
         \/ Submit(r) \/ SubmitFails(r) \/ RedisFails(r) \/ DbFails(r)
  PROVE  UploadInv'
<1> USE UploadAssumption DEF redis, minio, rest, count, UploadInv, TypeOK
<1> rq[r] \in RequestType /\ Knows(rq[r])
  BY DEF RequestsKnow
<1>1. CASE \E u \in Uploads : StartComplete(r, u)
  <2>1. PICK u \in Uploads : StartComplete(r, u)
    BY <1>1
  <2> DEFINE q == [IdleRq EXCEPT !.pc = "verify", !.u = u]
  <2>2. q \in RequestType /\ rq' = [rq EXCEPT ![r] = q]
    BY <2>1 DEF StartComplete, IdleRq, RequestType, PC
  <2>3. TypeOK'
    <3>1. UNCHANGED <<redis, minio, rest, count>>
      BY <2>1 DEF StartComplete
    <3>2. rq' \in [Requests -> RequestType]
      BY <2>2
    <3>3. QED
      BY <3>1, <3>2
  <2>4. Knows(rq[r])' /\ rq'[r].pc # "insert"
    BY <2>2 DEF Knows, IdleRq
  <2>5. QED
    BY <2>1, <2>2, <2>3, <2>4, Steady DEF StartComplete, RecordsStored
<1>2. CASE VerifyChunks(r)
  <2> DEFINE q == [rq[r] EXCEPT !.pc = "collect"]
  <2>1. q \in RequestType /\ IdleRq \in RequestType
    BY IdleIsTyped DEF RequestType, PC
  <2>2. \/ rq' = [rq EXCEPT ![r] = IdleRq]
        \/ rq' = [rq EXCEPT ![r] = q] /\ chunks[rq[r].u] = 1..Expected(rq[r].u)
    BY <1>2 DEF VerifyChunks, Goto, Return
  <2>3. TypeOK'
    <3>1. rq' \in [Requests -> RequestType]
      BY <2>1, <2>2
    <3>2. QED
      BY <1>2, <3>1 DEF VerifyChunks
  <2>4. Knows(rq[r])' /\ rq'[r].pc # "insert"
    <3>1. CASE rq' = [rq EXCEPT ![r] = IdleRq]
      BY <3>1, IdleIsTyped DEF Knows
    <3>2. CASE /\ rq' = [rq EXCEPT ![r] = q]
               /\ chunks[rq[r].u] = 1..Expected(rq[r].u)
      <4>1. rq'[r] = q /\ q.pc = "collect" /\ q.u = rq[r].u /\ q.u \in Uploads
        BY <1>2, <3>2 DEF RequestType, Knows, VerifyChunks
      <4>2. 1..Expected(q.u) \subseteq stored'[q.u]
        BY <1>2, <3>2, <4>1 DEF RecordsStored, VerifyChunks
      <4>3. QED
        BY <4>1, <4>2 DEF Knows, Expected
    <3>3. QED
      BY <2>2, <3>1, <3>2
  <2>5. QED
    BY <1>2, <2>2, <2>3, <2>4, Steady DEF VerifyChunks, RecordsStored
<1>3. CASE CollectParts(r)
  <2> DEFINE q == [rq[r] EXCEPT !.pc = "assemble", !.list = parts[rq[r].u]]
  <2>1. rq[r].u \in Uploads
    BY <1>3 DEF CollectParts, Knows
  <2>2. q \in RequestType /\ rq' = [rq EXCEPT ![r] = q]
    BY <1>3, <2>1 DEF CollectParts, RequestType, PC
  <2>3. TypeOK'
    BY <1>3, <2>2 DEF CollectParts
  <2>4. Knows(rq[r])' /\ rq'[r].pc # "insert"
    <3>1. rq'[r] = q /\ q.pc = "assemble" /\ q.u = rq[r].u /\ q.list = parts[q.u]
      BY <2>2 DEF RequestType
    <3>2. 1..Expected(q.u) \subseteq stored'[q.u] /\ q.list \subseteq stored'[q.u]
      BY <1>3, <2>1, <3>1 DEF CollectParts, Knows, RecordsStored
    <3>3. QED
      BY <2>1, <3>1, <3>2 DEF Knows, Expected
  <2>5. QED
    BY <1>3, <2>2, <2>3, <2>4, Steady DEF CollectParts, RecordsStored
<1>4. CASE DeleteKeys(r)
  <2> DEFINE q == [rq[r] EXCEPT !.pc = "submit"]
  <2>1. q \in RequestType /\ rq' = [rq EXCEPT ![r] = q]
    BY <1>4 DEF DeleteKeys, Goto, RequestType, PC
  <2>2. TypeOK'
    BY <1>4, <2>1 DEF DeleteKeys
  <2>3. Knows(rq[r])' /\ rq'[r].pc # "insert"
    BY <1>4, <2>1 DEF DeleteKeys, Knows
  <2>4. \A u \in Uploads : /\ chunks'[u] \subseteq stored'[u]
                           /\ parts'[u] \subseteq stored'[u]
    BY <1>4 DEF DeleteKeys, RecordsStored
  <2>5. QED
    BY <1>4, <2>1, <2>2, <2>3, <2>4, Steady DEF DeleteKeys
<1>5. CASE Submit(r) \/ SubmitFails(r) \/ RedisFails(r) \/ DbFails(r)
  <2>1. rq' = [rq EXCEPT ![r] = IdleRq] /\ UNCHANGED <<redis, minio, docs, crashes>>
    BY <1>5 DEF Submit, SubmitFails, RedisFails, DbFails, CutShort, Return, Fail
  <2>2. submitted' \subseteq Uploads /\ faults' \in 0..MaxFaults
    BY <1>5 DEF Submit, SubmitFails, RedisFails, DbFails, Fail, Knows
  <2>3. cut' \subseteq Uploads \X Duties
    BY <1>5, OwesTyped DEF Submit, SubmitFails, RedisFails, DbFails, CutShort
  <2>4. TypeOK'
    BY <2>1, <2>2, <2>3, IdleIsTyped
  <2>5. Knows(rq[r])' /\ rq'[r].pc # "insert"
    BY <2>1, IdleIsTyped DEF Knows
  <2>6. QED
    BY <2>1, <2>4, <2>5, Steady DEF RecordsStored
<1>6. QED
  BY <1>1, <1>2, <1>3, <1>4, <1>5

(* The assembly: nobody else can be about to insert, since the multipart   *)
(* upload was open.                                                        *)
LEMMA AssembleSafe ==
  ASSUME UploadInv, NEW r \in Requests,
         CompleteMultipart(r) \/ CompleteTimesOut(r)
  PROVE  UploadInv'
<1> USE UploadAssumption DEF redis, minio, rest, count, UploadInv, TypeOK
<1> DEFINE u == rq[r].u
           q == [rq[r] EXCEPT !.pc = "insert"]
<1> rq[r] \in RequestType /\ Knows(rq[r])
  BY DEF RequestsKnow
<1>1. /\ u \in Uploads /\ rq[r].pc = "assemble" /\ rq[r].list \subseteq Nat
      /\ q \in RequestType /\ IdleRq \in RequestType /\ IdleRq.pc = "idle"
      /\ q.pc = "insert" /\ q.u = u
  BY IdleIsTyped DEF CompleteMultipart, CompleteTimesOut, Knows, RequestType, PC
<1>2. CASE UNCHANGED minio
  <2>1. rq' = [rq EXCEPT ![r] = IdleRq]
    BY <1>1, <1>2 DEF CompleteMultipart, CompleteTimesOut, CanAssemble, Assembled, Return, CutShort
  <2>2. /\ faults' \in 0..MaxFaults /\ UNCHANGED <<redis, rest, crashes>>
        /\ cut' \subseteq Uploads \X Duties
    BY OwesTyped DEF CompleteMultipart, CompleteTimesOut, Fail, CutShort
  <2>3. TypeOK'
    BY <1>1, <1>2, <2>1, <2>2
  <2>4. Knows(rq[r])' /\ rq'[r].pc # "insert"
    BY <1>1, <2>1 DEF Knows
  <2>5. QED
    BY <1>2, <2>1, <2>2, <2>3, <2>4, Steady DEF RecordsStored
<1>3. CASE CanAssemble(r) /\ Assembled(r)
  <2>1. rq' = [rq EXCEPT ![r] = IdleRq] \/ rq' = [rq EXCEPT ![r] = q]
    BY DEF CompleteMultipart, CompleteTimesOut, Goto, Return, CutShort
  <2>2. /\ faults' \in 0..MaxFaults /\ cut' \subseteq Uploads \X Duties
        /\ UNCHANGED <<redis, rest, crashes, stored>>
        /\ multipart' = [multipart EXCEPT ![u] = "done"]
        /\ object' = [object EXCEPT ![u] = rq[r].list]
        /\ multipart[u] = "open" /\ rq[r].list # {}
    BY <1>3, OwesTyped
    DEF CompleteMultipart, CompleteTimesOut, Fail, CutShort, CanAssemble, Assembled
  <2>3. TypeOK'
    BY <1>1, <2>1, <2>2
  <2>4. RecordsStored'
    BY <1>1, <2>2 DEF RecordsStored
  <2>5. u \notin docs
    BY <1>1, <2>2 DEF RecordsStored
  <2>6. \A s \in Requests \ {r} :
          /\ rq'[s] = rq[s] /\ Knows(rq[s])
          /\ rq[s].pc = "insert" => rq[s].u # u
    BY <2>1, <2>2 DEF RequestsKnow, Knows
  <2>7. \A s \in Requests \ {r} : Knows(rq[s])'
    BY <1>1, <2>2, <2>6 DEF Knows, Expected
  <2>8. Knows(rq[r])' /\ (rq'[r].pc = "insert" => rq'[r].u = u)
    <3>1. rq'[r] = IdleRq \/ rq'[r] = q
      BY <2>1
    <3>2. object'[u] # {} /\ multipart'[u] = "done" /\ u \notin docs'
      BY <1>1, <2>2, <2>5
    <3>3. QED
      BY <1>1, <3>1, <3>2 DEF Knows
  <2>9. OneInserts'
    BY <2>6, <2>8 DEF OneInserts
  <2>10. QED
    BY <2>3, <2>4, <2>7, <2>8, <2>9 DEF RequestsKnow
<1>4. QED
  BY <1>2, <1>3 DEF CompleteMultipart, CompleteTimesOut

(* The insert: one document per object, and per file of a user.            *)
LEMMA InsertSafe ==
  ASSUME UploadInv, NEW r \in Requests, InsertDocument(r)
  PROVE  UploadInv'
<1> USE UploadAssumption DEF redis, minio, rest, count, UploadInv, TypeOK
<1> DEFINE u == rq[r].u
           q == [rq[r] EXCEPT !.pc = "cleanup"]
<1> rq[r] \in RequestType /\ Knows(rq[r])
  BY DEF RequestsKnow
<1>1. /\ u \in Uploads /\ rq[r].pc = "insert" /\ object[u] # {}
      /\ q \in RequestType /\ IdleRq \in RequestType /\ IdleRq.pc = "idle"
      /\ q.pc = "cleanup" /\ q.u = u
  BY IdleIsTyped DEF InsertDocument, Knows, RequestType, PC
<1>2. /\ rq' = [rq EXCEPT ![r] = IdleRq] \/ rq' = [rq EXCEPT ![r] = q]
      /\ docs' = docs \/ docs' = docs \cup {u}
      /\ UNCHANGED <<redis, minio, submitted, count>>
  BY DEF InsertDocument, Goto, Return
<1>3. TypeOK'
  BY <1>1, <1>2
<1>4. RecordsStored'
  BY <1>1, <1>2 DEF RecordsStored
<1>5. \A s \in Requests \ {r} :
        /\ rq'[s] = rq[s] /\ Knows(rq[s])
        /\ rq[s].pc = "insert" => rq[s].u # u
  BY <1>1, <1>2 DEF RequestsKnow, OneInserts
<1>6. \A s \in Requests \ {r} : Knows(rq[s])'
  BY <1>2, <1>5 DEF Knows, Expected
<1>7. Knows(rq[r])' /\ rq'[r].pc # "insert"
  <2>1. rq'[r] = IdleRq \/ rq'[r] = q
    BY <1>2
  <2>2. QED
    BY <1>1, <2>1 DEF Knows
<1>8. OneInserts'
  BY <1>5, <1>7 DEF OneInserts
<1>9. QED
  BY <1>3, <1>4, <1>6, <1>7, <1>8 DEF RequestsKnow

(* Keys that expire and the death of the process take no part away.        *)
LEMMA EnvironmentSafe ==
  ASSUME UploadInv, (\E u \in Uploads : Expire(u)) \/ Crash
  PROVE  UploadInv'
<1> USE UploadAssumption DEF redis, minio, rest, count, UploadInv, TypeOK
<1>1. CASE Crash
  <2>1. rq' = [r \in Requests |-> IdleRq] /\ crashes' \in 0..MaxCrashes
    BY <1>1 DEF Crash
  <2>2. cut' \subseteq Uploads \X Duties
    BY <1>1, OwesTyped DEF Crash, RequestsKnow
  <2>2a. TypeOK'
    BY <1>1, <2>1, <2>2, IdleIsTyped DEF Crash
  <2>3. RequestsKnow' /\ OneInserts'
    BY <2>1, IdleIsTyped DEF RequestsKnow, Knows, OneInserts
  <2>4. QED
    BY <1>1, <2>2a, <2>3 DEF Crash, RecordsStored
<1>2. CASE \E u \in Uploads : Expire(u)
  <2>1. PICK u \in Uploads : Expire(u)
    BY <1>2
  <2>2. TypeOK'
    BY <2>1 DEF Expire
  <2>3. RecordsStored'
    BY <2>1 DEF Expire, RecordsStored
  <2>4. UNCHANGED <<rq, stored, object, multipart, docs>>
    BY <2>1 DEF Expire
  <2>5. RequestsKnow' /\ OneInserts'
    BY <2>4 DEF RequestsKnow, Knows, OneInserts, Expected, PartNos
  <2>6. QED
    BY <2>2, <2>3, <2>5
<1>3. QED
  BY <1>1, <1>2

(* The invariant is inductive.                                             *)
LEMMA UploadNext == UploadInv /\ [Next]_vars => UploadInv'
<1> SUFFICES ASSUME UploadInv, [Next]_vars PROVE UploadInv'
  OBVIOUS
<1>1. CASE UNCHANGED vars
  BY <1>1 DEF vars, redis, minio, rest, count, UploadInv, TypeOK, RequestsKnow,
              Knows, OneInserts, RecordsStored, Expected, PartNos
<1>2. CASE Next
  BY <1>2, InitSafe, ChunkSafe, CompleteSafe, AssembleSafe, InsertSafe,
     EnvironmentSafe DEF Next, ChunkSteps, CompleteSteps, FaultSteps
<1>3. QED
  BY <1>1, <1>2

(* The invariant holds for any number of uploads, requests, failures and   *)
(* crashes.                                                                *)
THEOREM UploadSafe == Spec => []UploadInv
BY UploadInit, UploadNext, PTL DEF Spec

(* Type correctness.                                                       *)
THEOREM UploadTypeCorrect == Spec => []TypeOK
<1>1. UploadInv => TypeOK
  BY DEF UploadInv
<1>2. QED
  BY <1>1, UploadSafe, PTL

-----------------------------------------------------------------------------
(* One file of a user becomes one document, however many sessions upload   *)
(* it at once: complete_upload's insert and uk_md5_user.                   *)
LEMMA UniqueNext == UniqueFile /\ [Next]_vars => UniqueFile'
<1> SUFFICES ASSUME UniqueFile, [Next]_vars PROVE UniqueFile'
  OBVIOUS
<1>1. CASE docs' = docs
  BY <1>1 DEF UniqueFile, SameFile
<1>2. CASE \E r \in Requests : InsertDocument(r)
  BY <1>2 DEF InsertDocument, UniqueFile, SameFile
<1>3. docs' = docs \/ \E r \in Requests : InsertDocument(r)
  BY DEF Next, vars, redis, minio, rest, InitSteps, ChunkSteps, CompleteSteps,
         FaultSteps, StartChunk, StartComplete, InitUpload, Register, Arm,
         UploadPart, RecordChunk, RecordPart, RefreshTTL, VerifyChunks,
         CollectParts, CompleteMultipart, DeleteKeys, Submit, UploadPartTimesOut,
         CompleteTimesOut, SubmitFails, RedisFails, DbFails, Expire, Crash
<1>4. QED
  BY <1>1, <1>2, <1>3

(* Two sessions for one file both pass the check of init_upload; still     *)
(* only one of them gets a document.                                       *)
THEOREM OneDocumentPerFile == Spec => []UniqueFile
<1>1. Init => UniqueFile
  BY DEF Init, UniqueFile
<1>2. QED
  BY <1>1, UniqueNext, PTL DEF Spec

-----------------------------------------------------------------------------
(***************************************************************************)
(* A key without a TTL has a request that is on its way to set it, unless  *)
(* such a request was cut short.                                           *)
(***************************************************************************)
Minder == [session |-> {"arm"},
           chunks  |-> {"hset", "refresh", "refreshChunks"},
           parts   |-> {"refresh", "refreshChunks", "refreshParts"}]

Minds(q, u, k) == q.u = u /\ q.pc \in Minder[k]

Minded(u, k) == <<u, k>> \in timed \/ \E r \in Requests : Minds(rq[r], u, k)

KeysMinded ==
  \A u \in Uploads : <<u, "keys">> \notin cut =>
    \A k \in Present(u) : Minded(u, k)

(* A request that minds a key owes its TTL.                                *)
LEMMA MindsOwes ==
  ASSUME NEW q, NEW u, NEW k \in Keys, Minds(q, u, k)
  PROVE  <<u, "keys">> \in Owes(q)
BY DEF Minds, Minder, Keys, Owes, Arming

(* A step that adds no key.                                                *)
LEMMA KeysUntouched ==
  ASSUME UploadInv, KeysMinded, NEW r \in Requests, UNCHANGED redis, cut \subseteq cut',
         \A u \in Uploads, k \in Keys : Minds(rq[r], u, k) => <<u, "keys">> \in cut',
         \A s \in Requests \ {r} : rq'[s] = rq[s]
  PROVE  KeysMinded'
<1>1. SUFFICES ASSUME NEW u \in Uploads, <<u, "keys">> \notin cut', NEW k \in Present(u)'
               PROVE  Minded(u, k)'
  BY DEF KeysMinded
<1>2. k \in Present(u) /\ k \in Keys /\ timed' = timed
  BY DEF Present, redis
<1>3. Minded(u, k)
  BY <1>1, <1>2 DEF KeysMinded
<1>4. CASE \E s \in Requests : Minds(rq[s], u, k)
  <2>1. PICK s \in Requests : Minds(rq[s], u, k)
    BY <1>4
  <2>2. s # r
    BY <1>1, <1>2, <2>1
  <2>3. QED
    BY <2>1, <2>2 DEF Minded, Minds
<1>5. QED
  BY <1>2, <1>3, <1>4 DEF Minded

(* A step of request r on the keys of the upload it works on, all of which *)
(* have a TTL or somebody who minds them afterwards.                       *)
LEMMA KeysTouched ==
  ASSUME UploadInv, KeysMinded, NEW r \in Requests, NEW v, v = rq[r].u, UNCHANGED cut,
         \A s \in Requests \ {r} : rq'[s] = rq[s],
         \A u \in Uploads \ {v} : Present(u)' \subseteq Present(u),
         \A u \in Uploads \ {v}, k \in Keys : <<u, k>> \in timed => <<u, k>> \in timed',
         \A k \in Present(v)' :
           \/ <<v, k>> \in timed'
           \/ Minds(rq'[r], v, k)
           \/ /\ k \in Present(v) /\ ~Minds(rq[r], v, k)
              /\ <<v, k>> \in timed => <<v, k>> \in timed'
  PROVE  KeysMinded'
<1>1. SUFFICES ASSUME NEW u \in Uploads, <<u, "keys">> \notin cut', NEW k \in Present(u)'
               PROVE  Minded(u, k)'
  BY DEF KeysMinded
<1>2. CASE <<u, k>> \in timed' \/ Minds(rq'[r], u, k)
  BY <1>2 DEF Minded, Minds
<1>3. CASE /\ k \in Present(u) /\ ~Minds(rq[r], u, k)
           /\ <<u, k>> \in timed => <<u, k>> \in timed'
  <2>1. Minded(u, k)
    BY <1>1, <1>3 DEF KeysMinded
  <2>2. CASE \E s \in Requests : Minds(rq[s], u, k)
    <3>1. PICK s \in Requests : Minds(rq[s], u, k)
      BY <2>2
    <3>2. rq'[s] = rq[s]
      BY <1>3, <3>1
    <3>3. QED
      BY <3>1, <3>2 DEF Minded, Minds
  <2>3. QED
    BY <1>3, <2>1, <2>2 DEF Minded
<1>4. CASE u # v
  <2>1. k \in Present(u) /\ k \in Keys /\ ~Minds(rq[r], u, k)
    BY <1>4 DEF Present, Minds
  <2>2. QED
    BY <1>3, <1>4, <2>1
<1>5. CASE u = v
  BY <1>1, <1>2, <1>3, <1>5
<1>6. QED
  BY <1>4, <1>5

(* The steps that add a key, set TTLs or drop keys.                        *)
LEMMA KeysRecorded ==
  ASSUME UploadInv, KeysMinded, NEW r \in Requests,
         \/ Register(r) \/ Arm(r) \/ RecordChunk(r) \/ RecordPart(r) \/ RefreshTTL(r)
         \/ DeleteKeys(r)
  PROVE  KeysMinded'
<1>v. PICK v \in Uploads : v = rq[r].u
  BY DEF UploadInv, RequestsKnow, Knows, Register, Arm, RecordChunk, RecordPart, RefreshTTL, DeleteKeys
<1>0. /\ rq \in [Requests -> RequestType] /\ rq[r] \in RequestType /\ Knows(rq[r])
      /\ v = rq[r].u /\ v \in Uploads /\ UNCHANGED cut
      /\ chunks \in [Uploads -> SUBSET Nat] /\ parts \in [Uploads -> SUBSET Nat]
  BY <1>v DEF UploadInv, TypeOK, RequestsKnow, Register, Arm, RecordChunk, RecordPart, RefreshTTL,
              DeleteKeys, count
<1>1. \A s \in Requests \ {r} : rq'[s] = rq[s]
  BY <1>0 DEF Register, Arm, RecordChunk, RecordPart, RefreshTTL, DeleteKeys, Goto, Return
<1>2. \A u \in Uploads \ {v} : Present(u)' \subseteq Present(u)
  BY <1>0 DEF Register, Arm, RecordChunk, RecordPart, RefreshTTL, DeleteKeys, Present
<1>3. \A u \in Uploads \ {v}, k \in Keys : <<u, k>> \in timed => <<u, k>> \in timed'
  BY <1>0 DEF Register, Arm, RecordChunk, RecordPart, RefreshTTL, DeleteKeys, SetTTL
<1>4. SUFFICES ASSUME NEW k \in Present(v)'
               PROVE  \/ <<v, k>> \in timed'
                      \/ Minds(rq'[r], v, k)
                      \/ /\ k \in Present(v) /\ ~Minds(rq[r], v, k)
                         /\ <<v, k>> \in timed => <<v, k>> \in timed'
  BY <1>0, <1>1, <1>2, <1>3, KeysTouched
<1>k. k \in Keys
  BY DEF Present
<1>5. CASE Register(r)
  <2>1. rq'[r].u = v /\ rq'[r].pc = "arm" /\ UNCHANGED <<chunks, parts, timed>>
    BY <1>0, <1>5 DEF Register, Goto, RequestType
  <2>2. CASE k = "session"
    BY <2>1, <2>2 DEF Minds, Minder
  <2>3. CASE k # "session"
    BY <1>5, <2>1, <2>3, <1>k DEF Present, Minds, Minder, Keys, Register
  <2>4. QED
    BY <2>2, <2>3
<1>6. CASE Arm(r)
  <2>1. UNCHANGED <<sessions, chunks, parts>> /\ SetTTL(v, "session") /\ rq[r].pc = "arm"
    BY <1>0, <1>6 DEF Arm
  <2>2. k \in Present(v)
    BY <2>1 DEF Present
  <2>3. k = "session" => <<v, k>> \in timed'
    BY <2>1, <2>2 DEF SetTTL
  <2>4. <<v, k>> \in timed => <<v, k>> \in timed'
    BY <2>1 DEF SetTTL
  <2>5. k # "session" => ~Minds(rq[r], v, k)
    BY <2>1, <1>k DEF Minds, Minder, Keys
  <2>6. QED
    BY <2>2, <2>3, <2>4, <2>5
<1>7. CASE RecordChunk(r)
  <2>1. /\ rq'[r].u = v /\ rq'[r].pc = "hset" /\ rq[r].pc = "sadd"
        /\ UNCHANGED <<sessions, parts, timed>>
    BY <1>0, <1>7 DEF RecordChunk, Goto, RequestType
  <2>2. CASE k = "chunks"
    BY <2>1, <2>2 DEF Minds, Minder
  <2>3. CASE k # "chunks"
    BY <2>1, <2>3, <1>k DEF Present, Minds, Minder, Keys
  <2>4. QED
    BY <2>2, <2>3
<1>8. CASE RecordPart(r)
  <2>1. /\ rq'[r].u = v /\ rq'[r].pc = "refresh" /\ rq[r].pc = "hset"
        /\ UNCHANGED <<sessions, chunks, timed>>
    BY <1>0, <1>8 DEF RecordPart, Goto, RequestType
  <2>2. CASE k \in {"chunks", "parts"}
    BY <2>1, <2>2 DEF Minds, Minder
  <2>3. CASE k = "session"
    BY <2>1, <2>3 DEF Present, Minds, Minder
  <2>4. QED
    BY <2>2, <2>3, <1>k DEF Keys
<1>9. CASE RefreshTTL(r)
  <2>1. UNCHANGED <<sessions, chunks, parts>>
    BY <1>9 DEF RefreshTTL
  <2>2. k \in Present(v) /\ (<<v, k>> \in timed => <<v, k>> \in timed')
    BY <1>0, <1>9, <2>1 DEF RefreshTTL, SetTTL, Present
  <2>3. CASE rq[r].pc = "refresh"
    <3>1. rq'[r].u = v /\ rq'[r].pc = "refreshChunks"
      BY <1>0, <1>9, <2>3 DEF RefreshTTL, Goto, RequestType
    <3>2. QED
      BY <2>2, <2>3, <3>1, <1>k DEF Minds, Minder, Keys
  <2>4. CASE rq[r].pc = "refreshChunks"
    <3>1. rq'[r].u = v /\ rq'[r].pc = "refreshParts" /\ SetTTL(v, "chunks")
      BY <1>0, <1>9, <2>4 DEF RefreshTTL, Goto, RequestType
    <3>2. k = "chunks" => <<v, k>> \in timed'
      BY <2>2, <3>1 DEF SetTTL
    <3>3. QED
      BY <2>2, <2>4, <3>1, <3>2, <1>k DEF Minds, Minder, Keys
  <2>5. CASE rq[r].pc = "refreshParts"
    <3>1. SetTTL(v, "parts")
      BY <1>0, <1>9, <2>5 DEF RefreshTTL
    <3>2. k = "parts" => <<v, k>> \in timed'
      BY <2>2, <3>1 DEF SetTTL
    <3>3. QED
      BY <2>2, <2>5, <3>2, <1>k DEF Minds, Minder, Keys
  <2>6. QED
    BY <1>9, <2>3, <2>4, <2>5 DEF RefreshTTL
<1>10. CASE DeleteKeys(r)
  BY <1>0, <1>10 DEF DeleteKeys, Present
<1>11. QED
  BY <1>5, <1>6, <1>7, <1>8, <1>9, <1>10

(* A key that expires had a TTL; a crash cuts short whoever minded a key.  *)
LEMMA KeysExpired ==
  ASSUME UploadInv, KeysMinded, (\E v \in Uploads : Expire(v)) \/ Crash
  PROVE  KeysMinded'
<1>1. SUFFICES ASSUME NEW u \in Uploads, <<u, "keys">> \notin cut', NEW k \in Present(u)'
               PROVE  Minded(u, k)'
  BY DEF KeysMinded
<1>2. CASE Crash
  <2>1. k \in Present(u) /\ k \in Keys /\ timed' = timed /\ cut \subseteq cut'
    BY <1>2 DEF Crash, Present, redis
  <2>2. Minded(u, k)
    BY <1>1, <2>1 DEF KeysMinded
  <2>3. \A s \in Requests : ~Minds(rq[s], u, k)
    BY <1>1, <1>2, <2>1, MindsOwes DEF Crash
  <2>4. QED
    BY <2>1, <2>2, <2>3 DEF Minded
<1>3. CASE \E v \in Uploads : Expire(v)
  <2>1. PICK v \in Uploads : Expire(v)
    BY <1>3
  <2>2. /\ chunks \in [Uploads -> SUBSET Nat] /\ parts \in [Uploads -> SUBSET Nat]
        /\ UNCHANGED <<rq, cut>> /\ k \in Present(u)
        /\ <<u, k>> \in timed => <<u, k>> \in timed'
    BY <2>1 DEF Expire, Present, UploadInv, TypeOK, count
  <2>3. QED
    BY <1>1, <2>2 DEF KeysMinded, Minded
<1>4. QED
  BY <1>2, <1>3

(* Every step keeps the keys minded.                                       *)
LEMMA KeysNext ==
  ASSUME UploadInv, KeysMinded, [Next]_vars
  PROVE  KeysMinded'
<1>1. CASE UNCHANGED vars
  <2>1. UNCHANGED <<sessions, chunks, parts, timed, rq, cut>>
    BY <1>1 DEF vars, redis, count
  <2>2. QED
    BY <2>1 DEF KeysMinded, Minded, Present
<1>2. ASSUME NEW r \in Requests,
             \/ \E u \in Uploads : StartChunk(r, u) \/ StartComplete(r, u) \/ InitUpload(r, u)
             \/ UploadPart(r) \/ VerifyChunks(r) \/ CollectParts(r) \/ CompleteMultipart(r)
             \/ InsertDocument(r) \/ Submit(r)
      PROVE  KeysMinded'
  <2>1. rq \in [Requests -> RequestType]
    BY DEF UploadInv, TypeOK
  <2>2. /\ UNCHANGED <<redis, cut>> /\ rq[r].pc \notin Arming
        /\ \A s \in Requests \ {r} : rq'[s] = rq[s]
    BY <1>2, <2>1 DEF StartChunk, StartComplete, InitUpload, UploadPart, VerifyChunks, CollectParts,
       CompleteMultipart, InsertDocument, Submit, Goto, Return, count, Arming
  <2>3. \A u \in Uploads, k \in Keys : ~Minds(rq[r], u, k)
    BY <2>2 DEF Minds, Minder, Keys, Arming
  <2>4. QED
    BY <2>2, <2>3, KeysUntouched
<1>3. ASSUME NEW r \in Requests, FaultSteps(r)
      PROVE  KeysMinded'
  <2>1. rq \in [Requests -> RequestType]
    BY DEF UploadInv, TypeOK
  <2>2. /\ UNCHANGED redis /\ cut' = cut \cup Owes(rq[r])
        /\ \A s \in Requests \ {r} : rq'[s] = rq[s]
    BY <1>3, <2>1 DEF FaultSteps, UploadPartTimesOut, CompleteTimesOut, SubmitFails, RedisFails,
       DbFails, CutShort, Return
  <2>3. QED
    BY <2>2, KeysUntouched, MindsOwes
<1>4. QED
  BY <1>1, <1>2, <1>3, KeysRecorded, KeysExpired
  DEF Next, InitSteps, ChunkSteps, CompleteSteps

(* An upload no request works on has no key that never expires, unless     *)
(* Redis or the process failed between a request's write of a key and the  *)
(* calls that set its TTL.                                                 *)
THEOREM IdleKeysAllExpire == Spec => []IdleKeysExpire
<1>1. Init => KeysMinded
  BY DEF Init, KeysMinded, Present
<1>2. UploadInv /\ KeysMinded /\ [Next]_vars => KeysMinded'
  BY KeysNext
<1>3. KeysMinded => IdleKeysExpire
  <2>1. SUFFICES ASSUME KeysMinded, NEW u \in Uploads, <<u, "keys">> \notin cut,
                        \A r \in Requests : rq[r].u # u, NEW k \in Present(u)
                 PROVE  <<u, k>> \in timed
    BY DEF IdleKeysExpire
  <2>2. QED
    BY <2>1 DEF KeysMinded, Minded, Minds
<1>4. QED
  BY <1>1, <1>2, <1>3, UploadSafe, PTL DEF Spec

-----------------------------------------------------------------------------
(***************************************************************************)
(* Requests that come one after the other, for files that are not empty    *)
(* (an empty file expects no chunk).  Unless a request was cut short       *)
(* between its writes, the parts hash holds what the chunks set says, but  *)
(* for the chunk being recorded, as long as there is a session; and a      *)
(* completion that found every chunk collects all of them, or none if the  *)
(* keys expired.                                                           *)
(***************************************************************************)
Serial ==
  /\ \A q, r \in Requests : q = r
  /\ \A u \in Uploads : FileSize[u] # 0

Whole(u) == 1..Expected(u)

Recorded(u) ==
  \A r \in Requests :
    chunks[u] = IF rq[r].pc = "hset" /\ rq[r].u = u THEN parts[u] \cup {rq[r].part}
                                                    ELSE parts[u]

Collects(q) ==
  /\ q.pc = "register" => stored[q.u] = {}
  /\ q.pc = "verify" => chunks[q.u] = {} \/ parts[q.u] = chunks[q.u]
  /\ q.pc = "collect" => parts[q.u] \in {{}, Whole(q.u)}
  /\ q.pc = "assemble" => q.list \in {{}, Whole(q.u)}

Kept(u) == <<u, "keys">> \notin cut

SerialInv ==
  /\ \A u \in Uploads : multipart[u] = "none" => stored[u] = {}
  /\ \A u \in Uploads : Kept(u) => /\ object[u] \in {{}, Whole(u)}
                                   /\ u \in sessions => Recorded(u)
  /\ \A r \in Requests : Kept(rq[r].u) => Collects(rq[r])

(* A file that is not empty has a first part.                              *)
LEMMA WholeIsSomething ==
  ASSUME Serial, NEW u \in Uploads
  PROVE  Whole(u) # {}
<1>1. FileSize[u] \in Nat \ {0} /\ ChunkSize \in Nat \ {0}
  BY UploadAssumption DEF Serial
<1>2. FileSize[u] + ChunkSize - 1 >= ChunkSize
  BY <1>1
<1>3. (FileSize[u] + ChunkSize - 1) \div ChunkSize >= 1
  BY <1>1, <1>2
<1>4. Expected(u) \in Nat /\ Expected(u) >= 1
  BY <1>1, <1>3 DEF Expected
<1>5. QED
  BY <1>4 DEF Whole

(* The steps of the only request there is.                                 *)
LEMMA SerialStep ==
  ASSUME Serial, UploadInv, UploadInv', SerialInv, NEW r \in Requests,
         \/ \E u \in Uploads : StartChunk(r, u) \/ StartComplete(r, u)
         \/ InitSteps(r) \/ ChunkSteps(r) \/ CompleteSteps(r) \/ FaultSteps(r)
  PROVE  SerialInv'
<1> DEFINE v == rq[r].u
<1>0. /\ rq \in [Requests -> RequestType] /\ rq[r] \in RequestType /\ Knows(rq[r])
      /\ chunks \in [Uploads -> SUBSET Nat] /\ parts \in [Uploads -> SUBSET Nat]
      /\ stored \in [Uploads -> SUBSET Nat] /\ object \in [Uploads -> SUBSET Nat]
      /\ multipart \in [Uploads -> {"none", "open", "done"}]
      /\ \A s \in Requests : s = r
      /\ \A u \in Uploads : chunks[u] \subseteq stored[u] /\ parts[u] \subseteq stored[u]
  BY DEF Serial, UploadInv, TypeOK, RequestsKnow, RecordsStored
<1>1. /\ \A u \in Uploads : multipart[u] = "none" => stored[u] = {}
      /\ \A u \in Uploads : Kept(u) => /\ object[u] \in {{}, Whole(u)}
                                       /\ u \in sessions => Recorded(u)
      /\ Kept(v) => Collects(rq[r])
      /\ \A u \in Uploads : Kept(u) /\ u \in sessions /\ (rq[r].pc # "hset" \/ rq[r].u # u)
                            => parts[u] = chunks[u]
  BY <1>0 DEF SerialInv, Recorded
<1>c. cut \subseteq cut' /\ \A u : Kept(u)' => Kept(u)
  <2>1. cut \subseteq cut'
    BY DEF StartChunk, StartComplete, InitSteps, ChunkSteps, CompleteSteps, FaultSteps, InitUpload,
       Register, Arm, UploadPart, RecordChunk, RecordPart, RefreshTTL, VerifyChunks, CollectParts,
       CompleteMultipart, InsertDocument, DeleteKeys, Submit, UploadPartTimesOut, CompleteTimesOut,
       SubmitFails, RedisFails, DbFails, CutShort, count
  <2>2. QED
    BY <2>1 DEF Kept
<1>r. \A u \in Uploads :
        Recorded(u)' <=> chunks'[u] = IF rq'[r].pc = "hset" /\ rq'[r].u = u
                                      THEN parts'[u] \cup {rq'[r].part} ELSE parts'[u]
  BY <1>0 DEF Recorded
<1>2. SUFFICES /\ \A u \in Uploads : multipart'[u] = "none" => stored'[u] = {}
               /\ \A u \in Uploads : Kept(u)' => /\ object'[u] \in {{}, Whole(u)}
                                                 /\ u \in sessions' => Recorded(u)'
               /\ Kept(rq[r].u)' => Collects(rq[r])'
  BY <1>0 DEF SerialInv, Whole, Expected
<1>3. CASE \E u \in Uploads : InitUpload(r, u)
  <2>1. PICK u \in Uploads : InitUpload(r, u)
    BY <1>3
  <2>2. /\ rq'[r].pc = "register" /\ rq'[r].u = u /\ multipart[u] = "none" /\ rq[r].pc = "idle"
        /\ multipart' = [multipart EXCEPT ![u] = "open"]
        /\ UNCHANGED <<sessions, chunks, parts, stored, object>>
    BY <1>0, <2>1 DEF InitUpload, IdleRq, redis
  <2>3. Kept(rq[r].u)' => Collects(rq[r])'
    BY <1>1, <1>c, <2>2 DEF Collects
  <2>4. \A w \in Uploads : Kept(w)' /\ w \in sessions' => Recorded(w)'
    BY <1>1, <1>c, <2>2, <1>r
  <2>5. QED
    BY <1>0, <1>1, <1>c, <2>2, <2>3, <2>4
<1>4. CASE Register(r)
  <2>1. /\ rq'[r].pc = "arm" /\ rq[r].pc = "register" /\ sessions' = sessions \cup {v}
        /\ v \in Uploads /\ (Kept(v) => stored[v] = {})
        /\ UNCHANGED <<chunks, parts, stored, object, multipart>>
    BY <1>0, <1>1, <1>c, <1>4 DEF Register, Goto, minio, Knows, Collects
  <2>2. Kept(rq[r].u)' => Collects(rq[r])'
    BY <2>1 DEF Collects
  <2>3. ASSUME NEW w \in Uploads, Kept(w)', w \in sessions' PROVE Recorded(w)'
    <3>1. CASE w \in sessions
      BY <1>1, <1>c, <2>1, <2>3, <3>1, <1>r
    <3>2. CASE w \notin sessions
      <4>1. w = v
        BY <2>1, <2>3, <3>2
      <4>2. chunks[w] = {} /\ parts[w] = {}
        BY <1>0, <1>c, <2>1, <2>3, <4>1
      <4>3. QED
        BY <2>1, <4>2, <1>r
    <3>3. QED
      BY <3>1, <3>2
  <2>4. QED
    BY <1>1, <1>c, <2>1, <2>2, <2>3
<1>5. CASE Arm(r) \/ Submit(r) \/ SubmitFails(r) \/ DbFails(r) \/ RefreshTTL(r)
           \/ (\E u \in Uploads : StartChunk(r, u)) \/ InsertDocument(r)
  <2>1. /\ rq'[r].pc \in {"idle", "upload", "cleanup", "refreshChunks", "refreshParts"}
        /\ rq[r].pc # "hset"
        /\ UNCHANGED <<sessions, chunks, parts, stored, object, multipart>>
    <3>1. CASE Arm(r) \/ Submit(r) \/ SubmitFails(r) \/ DbFails(r)
      BY <1>0, <3>1 DEF Arm, Submit, SubmitFails, DbFails, CutShort, Return, IdleRq, redis, minio
    <3>1r. CASE RefreshTTL(r)
      BY <1>0, <3>1r DEF RefreshTTL, Goto, Return, IdleRq, RequestType, minio
    <3>2. CASE \E u \in Uploads : StartChunk(r, u)
      BY <1>0, <3>2 DEF StartChunk, IdleRq, redis, minio
    <3>3. CASE InsertDocument(r)
      BY <1>0, <3>3 DEF InsertDocument, Return, Goto, IdleRq, RequestType, redis, minio
    <3>4. QED
      BY <1>5, <3>1, <3>1r, <3>2, <3>3
  <2>2. Kept(rq[r].u)' => Collects(rq[r])'
    BY <2>1 DEF Collects
  <2>3. \A w \in Uploads : Kept(w)' /\ w \in sessions' => Recorded(w)'
    BY <1>1, <1>c, <2>1, <1>r
  <2>4. QED
    BY <1>1, <1>c, <2>1, <2>2, <2>3
<1>6. CASE UploadPart(r) \/ UploadPartTimesOut(r)
  <2>1. /\ rq'[r].pc \in {"idle", "sadd"} /\ rq[r].pc = "upload"
        /\ UNCHANGED <<sessions, chunks, parts, object, multipart>>
        /\ \A u \in Uploads : multipart[u] = "none" => stored'[u] = stored[u]
    <3>1. CASE UploadPart(r)
      BY <1>0, <3>1 DEF UploadPart, Return, Goto, IdleRq, RequestType, Knows, redis
    <3>2. CASE UploadPartTimesOut(r)
      BY <1>0, <3>2 DEF UploadPartTimesOut, CutShort, Return, IdleRq, Knows, redis
    <3>3. QED
      BY <1>6, <3>1, <3>2
  <2>2. Kept(rq[r].u)' => Collects(rq[r])'
    BY <2>1 DEF Collects
  <2>3. \A w \in Uploads : Kept(w)' /\ w \in sessions' => Recorded(w)'
    BY <1>1, <1>c, <2>1, <1>r
  <2>4. QED
    BY <1>1, <1>c, <2>1, <2>2, <2>3
<1>7. CASE RecordChunk(r)
  <2>1. /\ rq'[r].pc = "hset" /\ rq'[r].u = v /\ rq'[r].part = rq[r].part /\ rq[r].pc = "sadd"
        /\ v \in Uploads /\ chunks' = [chunks EXCEPT ![v] = @ \cup {rq[r].part}]
        /\ UNCHANGED <<sessions, parts, stored, object, multipart>>
    BY <1>0, <1>7 DEF RecordChunk, Goto, minio, Knows, RequestType
  <2>2. Kept(rq[r].u)' => Collects(rq[r])'
    BY <2>1 DEF Collects
  <2>3. ASSUME NEW w \in Uploads, Kept(w)', w \in sessions' PROVE Recorded(w)'
    <3>1. parts[w] = chunks[w]
      BY <1>1, <1>c, <2>1, <2>3
    <3>2. CASE w = v
      <4>1. chunks'[w] = parts'[w] \cup {rq'[r].part}
        BY <1>0, <2>1, <3>1, <3>2
      <4>2. QED
        BY <2>1, <3>2, <4>1, <1>r
    <3>3. CASE w # v
      BY <1>0, <2>1, <3>1, <3>3, <1>r
    <3>4. QED
      BY <3>2, <3>3
  <2>4. QED
    BY <1>1, <1>c, <2>1, <2>2, <2>3
<1>8. CASE RecordPart(r)
  <2>1. /\ rq'[r].pc = "refresh" /\ rq[r].pc = "hset"
        /\ v \in Uploads /\ parts' = [parts EXCEPT ![v] = @ \cup {rq[r].part}]
        /\ UNCHANGED <<sessions, chunks, stored, object, multipart>>
    BY <1>0, <1>8 DEF RecordPart, Goto, minio, Knows, RequestType
  <2>2. Kept(rq[r].u)' => Collects(rq[r])'
    BY <2>1 DEF Collects
  <2>3. ASSUME NEW w \in Uploads, Kept(w)', w \in sessions' PROVE Recorded(w)'
    <3>1. Recorded(w)
      BY <1>1, <1>c, <2>1, <2>3
    <3>2. CASE w = v
      <4>1. chunks[w] = parts[w] \cup {rq[r].part}
        BY <2>1, <3>1, <3>2 DEF Recorded
      <4>2. chunks'[w] = parts'[w]
        BY <1>0, <2>1, <3>2, <4>1
      <4>3. QED
        BY <2>1, <4>2, <1>r
    <3>3. CASE w # v
      BY <1>0, <1>1, <1>c, <2>1, <2>3, <3>3, <1>r
    <3>4. QED
      BY <3>2, <3>3
  <2>4. QED
    BY <1>1, <1>c, <2>1, <2>2, <2>3
<1>9. CASE \E u \in Uploads : StartComplete(r, u)
  <2>1. PICK u \in Uploads : StartComplete(r, u)
    BY <1>9
  <2>2. /\ rq'[r].pc = "verify" /\ rq'[r].u = u /\ rq[r].pc = "idle" /\ u \in sessions
        /\ UNCHANGED <<sessions, chunks, parts, stored, object, multipart>>
    BY <1>0, <2>1 DEF StartComplete, IdleRq, redis, minio
  <2>3. Kept(rq[r].u)' => Collects(rq[r])'
    BY <1>1, <1>c, <2>2 DEF Collects
  <2>4. \A w \in Uploads : Kept(w)' /\ w \in sessions' => Recorded(w)'
    BY <1>1, <1>c, <2>2, <1>r
  <2>5. QED
    BY <1>1, <1>c, <2>2, <2>3, <2>4
<1>10. CASE VerifyChunks(r)
  <2>1. /\ rq[r].pc = "verify" /\ v \in Uploads
        /\ \/ rq'[r].pc = "idle"
           \/ rq'[r].pc = "collect" /\ rq'[r].u = v /\ chunks[v] = Whole(v)
        /\ UNCHANGED <<sessions, chunks, parts, stored, object, multipart>>
    BY <1>0, <1>10 DEF VerifyChunks, Goto, Return, IdleRq, redis, minio, Knows, RequestType, Whole
  <2>2. Kept(rq[r].u)' => Collects(rq[r])'
    <3>1. CASE rq'[r].pc = "idle"
      BY <3>1 DEF Collects
    <3>2. CASE rq'[r].pc = "collect" /\ rq'[r].u = v /\ chunks[v] = Whole(v)
      <4>1. Kept(v) => parts[v] = Whole(v)
        BY <1>1, <2>1, <3>2, WholeIsSomething DEF Collects
      <4>2. QED
        BY <1>c, <2>1, <3>2, <4>1 DEF Collects, Whole, Expected
    <3>3. QED
      BY <2>1, <3>1, <3>2
  <2>3. \A w \in Uploads : Kept(w)' /\ w \in sessions' => Recorded(w)'
    BY <1>1, <1>c, <2>1, <1>r
  <2>4. QED
    BY <1>1, <1>c, <2>1, <2>2, <2>3
<1>11. CASE CollectParts(r)
  <2>1. /\ rq[r].pc = "collect" /\ v \in Uploads
        /\ rq'[r].pc = "assemble" /\ rq'[r].u = v /\ rq'[r].list = parts[v]
        /\ UNCHANGED <<sessions, chunks, parts, stored, object, multipart>>
    BY <1>0, <1>11 DEF CollectParts, redis, minio, Knows, RequestType
  <2>2. Kept(rq[r].u)' => Collects(rq[r])'
    BY <1>1, <1>c, <2>1 DEF Collects, Whole, Expected
  <2>3. \A w \in Uploads : Kept(w)' /\ w \in sessions' => Recorded(w)'
    BY <1>1, <1>c, <2>1, <1>r
  <2>4. QED
    BY <1>1, <1>c, <2>1, <2>2, <2>3
<1>12. CASE CompleteMultipart(r) \/ CompleteTimesOut(r)
  <2>1. /\ rq[r].pc = "assemble" /\ v \in Uploads /\ rq'[r].pc \in {"idle", "insert"}
        /\ UNCHANGED <<sessions, chunks, parts, stored>>
        /\ \/ UNCHANGED <<object, multipart>>
           \/ /\ object' = [object EXCEPT ![v] = rq[r].list]
              /\ multipart' = [multipart EXCEPT ![v] = "done"]
    <3>1. CASE CompleteMultipart(r)
      BY <1>0, <3>1 DEF CompleteMultipart, Assembled, Goto, Return, IdleRq, RequestType, Knows,
         redis, minio
    <3>2. CASE CompleteTimesOut(r)
      BY <1>0, <3>2 DEF CompleteTimesOut, CutShort, Assembled, Return, IdleRq, Knows, redis, minio
    <3>3. QED
      BY <1>12, <3>1, <3>2
  <2>2. Kept(rq[r].u)' => Collects(rq[r])'
    BY <2>1 DEF Collects
  <2>3. \A w \in Uploads : Kept(w)' /\ w \in sessions' => Recorded(w)'
    BY <1>1, <1>c, <2>1, <1>r
  <2>4. Kept(v) => rq[r].list \in {{}, Whole(v)}
    BY <1>1, <2>1 DEF Collects
  <2>5. \A w \in Uploads : /\ Kept(w)' => object'[w] \in {{}, Whole(w)}
                           /\ multipart'[w] = "none" => stored'[w] = {}
    BY <1>0, <1>1, <1>c, <2>1, <2>4
  <2>6. QED
    BY <2>2, <2>3, <2>5
<1>13. CASE DeleteKeys(r)
  <2>1. /\ rq[r].pc = "cleanup" /\ v \in Uploads /\ rq'[r].pc = "submit"
        /\ sessions' = sessions \ {v} /\ UNCHANGED <<stored, object, multipart>>
        /\ \A w \in Uploads \ {v} : chunks'[w] = chunks[w] /\ parts'[w] = parts[w]
    BY <1>0, <1>13 DEF DeleteKeys, Goto, minio, Knows
  <2>2. Kept(rq[r].u)' => Collects(rq[r])'
    BY <2>1 DEF Collects
  <2>3. \A w \in Uploads : Kept(w)' /\ w \in sessions' => Recorded(w)'
    BY <1>1, <1>c, <2>1, <1>r
  <2>4. QED
    BY <1>1, <1>c, <2>1, <2>2, <2>3
<1>15. CASE RedisFails(r)
  <2>1. /\ rq'[r].pc = "idle" /\ rq[r].pc # "idle" /\ v \in Uploads
        /\ cut' = cut \cup Owes(rq[r])
        /\ UNCHANGED <<sessions, chunks, parts, stored, object, multipart>>
    BY <1>0, <1>15 DEF RedisFails, CutShort, Return, IdleRq, redis, minio, Knows, Arming
  <2>2. Kept(rq[r].u)' => Collects(rq[r])'
    BY <2>1 DEF Collects
  <2>3. ASSUME NEW w \in Uploads, Kept(w)', w \in sessions' PROVE Recorded(w)'
    <3>1. rq[r].pc # "hset" \/ v # w
      BY <2>1, <2>3 DEF Kept, Owes, Arming
    <3>2. parts[w] = chunks[w]
      BY <1>1, <1>c, <2>1, <2>3, <3>1
    <3>3. QED
      BY <2>1, <3>2, <1>r
  <2>4. QED
    BY <1>1, <1>c, <2>1, <2>2, <2>3
<1>14. QED
  BY <1>3, <1>4, <1>5, <1>6, <1>7, <1>8, <1>9, <1>10, <1>11, <1>12, <1>13, <1>15
  DEF InitSteps, ChunkSteps, CompleteSteps, FaultSteps

(* A key that expires takes nothing a completion counts on.                *)
LEMMA SerialExpire ==
  ASSUME UploadInv, SerialInv, NEW v \in Uploads, Expire(v)
  PROVE  SerialInv'
<1>0. /\ UNCHANGED <<rq, stored, object, multipart, cut>> /\ sessions' \subseteq sessions
      /\ chunks \in [Uploads -> SUBSET Nat] /\ parts \in [Uploads -> SUBSET Nat]
      /\ \A u \in Uploads : Kept(u) /\ u \in sessions' => chunks'[u] = chunks[u] /\ parts'[u] = parts[u]
      /\ \A u \in Uploads : chunks'[u] = chunks[u] \/ chunks'[u] = {}
      /\ \A u \in Uploads : Kept(u) => parts'[u] = parts[u] \/ (parts'[u] = {} /\ chunks'[u] = {})
  BY DEF Expire, minio, count, UploadInv, TypeOK, Kept
<1>1. ASSUME NEW u \in Uploads, Kept(u)', u \in sessions' PROVE Recorded(u)'
  <2>1. Recorded(u) /\ rq' = rq /\ chunks'[u] = chunks[u] /\ parts'[u] = parts[u]
    BY <1>0, <1>1 DEF SerialInv, Kept
  <2>2. QED
    BY <2>1 DEF Recorded
<1>2. ASSUME NEW r \in Requests, Kept(rq[r].u)' PROVE Collects(rq[r])'
  <2>1. Kept(rq[r].u) /\ Collects(rq[r]) /\ (rq[r].pc # "idle" => rq[r].u \in Uploads)
    BY <1>0, <1>2 DEF SerialInv, Kept, UploadInv, RequestsKnow, Knows
  <2>2. QED
    BY <1>0, <2>1 DEF Collects, Whole, Expected
<1>3. QED
  BY <1>0, <1>1, <1>2 DEF SerialInv, Whole, Expected, Kept

(* After a crash no request runs, so none collects anything.               *)
LEMMA SerialCrash ==
  ASSUME UploadInv, SerialInv, Crash
  PROVE  SerialInv'
<1>1. /\ UNCHANGED <<sessions, chunks, parts, stored, object, multipart>>
      /\ \A r \in Requests : rq'[r] = IdleRq
      /\ \A u : Kept(u)' => Kept(u)
      /\ cut' = cut \cup UNION {Owes(rq[r]) : r \in Requests}
  BY DEF Crash, redis, minio, Kept
<1>2. \A r \in Requests : Collects(rq[r])'
  BY <1>1, IdleIsTyped DEF Collects
<1>3. ASSUME NEW u \in Uploads, Kept(u)', u \in sessions' PROVE Recorded(u)'
  <2>1. Recorded(u)
    BY <1>1, <1>3 DEF SerialInv
  <2>2. \A r \in Requests : rq[r].u = u => rq[r].pc # "hset"
    BY <1>1, <1>3 DEF Kept, Owes, Arming
  <2>3. QED
    BY <1>1, <2>1, <2>2, IdleIsTyped DEF Recorded
<1>4. QED
  BY <1>1, <1>2, <1>3 DEF SerialInv, Whole, Expected

(* A client that sends one request at a time gets its whole file into the  *)
(* document, nothing more and nothing less, whatever answers come late and *)
(* whichever keys expire meanwhile, unless Redis or the process failed     *)
(* while one of the upload's requests was writing its keys.                *)
THEOREM SerialUploadsAreWhole == ASSUME Serial PROVE Spec => []DocumentIsWhole
<1>1. Init => SerialInv
  BY DEF Init, SerialInv, Collects, IdleRq, Recorded
<1>2. UploadInv /\ UploadInv' /\ SerialInv /\ [Next]_vars => SerialInv'
  <2> SUFFICES ASSUME UploadInv, UploadInv', SerialInv, [Next]_vars PROVE SerialInv'
    OBVIOUS
  <2>1. CASE UNCHANGED vars
    BY <2>1 DEF vars, redis, minio, count, SerialInv, Recorded, Collects, Whole, Expected, Kept
  <2>2. QED
    BY <2>1, SerialStep, SerialExpire, SerialCrash DEF Next
<1>3. UploadInv /\ SerialInv => DocumentIsWhole
  BY DEF UploadInv, TypeOK, RecordsStored, SerialInv, DocumentIsWhole, Whole, Kept
<1>4. QED
  BY <1>1, <1>2, <1>3, UploadSafe, PTL DEF Spec

-----------------------------------------------------------------------------
(* The refinement.                                                         *)

(* The initial states are the contract's.                                  *)
LEMMA ContractInit == Init => Contract!Init
BY DEF Init, Contract!Init

(* Steps the contract does not see.                                        *)
LEMMA HiddenStep ==
  ASSUME UNCHANGED <<stored, object, docs>>
  PROVE  UNCHANGED Contract!vars
BY DEF Contract!vars

(* A part that arrives, its answer in time or late, is a step of the       *)
(* contract.                                                               *)
LEMMA ReceiveStep ==
  ASSUME UploadInv, NEW r \in Requests, UploadPart(r) \/ UploadPartTimesOut(r)
  PROVE  [Contract!Next]_(Contract!vars)
<1> DEFINE u == rq[r].u
<1> rq[r] \in RequestType /\ Knows(rq[r])
  BY DEF UploadInv, RequestsKnow, TypeOK
<1>1. u \in Uploads /\ rq[r].part \in PartNos(u)
  BY DEF UploadPart, UploadPartTimesOut, Knows
<1>2. CASE UNCHANGED stored
  BY <1>2, HiddenStep DEF UploadPart, UploadPartTimesOut, minio, rest
<1>3. CASE stored' = [stored EXCEPT ![u] = @ \cup {rq[r].part}] /\ multipart[u] = "open"
  <2>1. object[u] = {}
    BY <1>1, <1>3 DEF UploadInv, RecordsStored
  <2>2. UNCHANGED <<object, docs>>
    BY DEF UploadPart, UploadPartTimesOut, minio, rest
  <2>3. Contract!Receive(u)
    BY <1>1, <1>3, <2>1, <2>2 DEF Contract!Receive
  <2>4. QED
    BY <1>1, <2>3 DEF Contract!Next
<1>4. QED
  BY <1>2, <1>3 DEF UploadPart, UploadPartTimesOut

(* So is an object being assembled.                                        *)
LEMMA AssembleStep ==
  ASSUME UploadInv, NEW r \in Requests,
         CompleteMultipart(r) \/ CompleteTimesOut(r)
  PROVE  [Contract!Next]_(Contract!vars)
<1> DEFINE u == rq[r].u
<1> rq[r] \in RequestType /\ Knows(rq[r])
  BY DEF UploadInv, RequestsKnow, TypeOK
<1>1. /\ u \in Uploads
      /\ 1..Expected(u) \subseteq stored[u]
      /\ rq[r].list \subseteq stored[u]
  BY DEF CompleteMultipart, CompleteTimesOut, Knows
<1>2. UNCHANGED docs
  BY DEF CompleteMultipart, CompleteTimesOut, rest
<1>3. CASE UNCHANGED minio
  BY <1>2, <1>3, HiddenStep DEF minio
<1>4. CASE CanAssemble(r) /\ Assembled(r)
  <2>1. object[u] = {}
    BY <1>1, <1>4 DEF UploadInv, RecordsStored, CanAssemble
  <2>2. rq[r].list \in (SUBSET stored[u]) \ {{}}
    BY <1>1, <1>4 DEF CanAssemble
  <2>3. Contract!Assemble(u)
    BY <1>1, <1>2, <1>4, <2>1, <2>2 DEF Contract!Assemble, Assembled
  <2>4. QED
    BY <1>1, <2>3 DEF Contract!Next
<1>5. QED
  BY <1>3, <1>4 DEF CompleteMultipart, CompleteTimesOut

(* So is a document being inserted.                                        *)
LEMMA DocumentStep ==
  ASSUME UploadInv, NEW r \in Requests, InsertDocument(r)
  PROVE  [Contract!Next]_(Contract!vars)
<1> DEFINE u == rq[r].u
<1>1. u \in Uploads /\ object[u] # {} /\ u \notin docs
  BY DEF InsertDocument, UploadInv, RequestsKnow, Knows
<1>2. UNCHANGED <<stored, object>>
  BY DEF InsertDocument, minio
<1>3. CASE UNCHANGED docs
  BY <1>2, <1>3, HiddenStep
<1>4. CASE docs' = docs \cup {u}
  BY <1>1, <1>2, <1>4 DEF Contract!Document, Contract!Next
<1>5. QED
  BY <1>3, <1>4 DEF InsertDocument

(* An upload never does more than its contract, whatever its requests,     *)
(* late answers, failures and crashes do: upload_chunk and complete_upload *)
(* assemble nothing before every expected part is stored, once, and record *)
(* one document for it at most.                                            *)
THEOREM ImplementsContract == Spec => ContractSpec
<1>1. UploadInv /\ [Next]_vars => [Contract!Next]_(Contract!vars)
  <2> SUFFICES ASSUME UploadInv, [Next]_vars
               PROVE  [Contract!Next]_(Contract!vars)
    OBVIOUS
  <2>1. \/ UNCHANGED <<stored, object, docs>>
        \/ \E r \in Requests : UploadPart(r) \/ UploadPartTimesOut(r)
        \/ \E r \in Requests : CompleteMultipart(r) \/ CompleteTimesOut(r)
        \/ \E r \in Requests : InsertDocument(r)
    BY DEF Next, vars, redis, minio, rest, InitSteps, ChunkSteps, CompleteSteps,
           FaultSteps, StartChunk, StartComplete, InitUpload, Register, Arm,
           RecordChunk, RecordPart, RefreshTTL, VerifyChunks, CollectParts,
           DeleteKeys, Submit, SubmitFails, RedisFails, DbFails, Expire, Crash
  <2>2. QED
    BY <2>1, HiddenStep, ReceiveStep, AssembleStep, DocumentStep
<1>2. QED
  BY <1>1, ContractInit, UploadSafe, PTL DEF Spec, ContractSpec, Contract!Spec

=============================================================================
