----------------------- MODULE DocumentPipelineProofs -----------------------
(***************************************************************************)
(* Proofs about DocumentPipeline for any set of documents and workers and  *)
(* any bounds.                                                             *)
(***************************************************************************)
EXTENDS DocumentPipeline, TLAPS

(* What the program counter says of the rest of a worker's state.          *)
Consistent(j) ==
  /\ j.pc \in {"fetched", "marked", "downloaded", "parsed", "flushed",
               "indexed", "committed", "failing", "ending"} => j.msg \in Message
  /\ j.pc = "parsed" => j.src \in Docs
  /\ j.pc \in {"flushed", "indexed"} => j.pend \in Batch
  /\ j.pc \in {"committed", "embedding", "stored"} => j.ids \in Batch
  /\ j.pend # None =>
       /\ j.pc \in {"flushed", "indexed", "failing"}
       /\ j.pend.doc = j.msg.doc

JobOK == \A w \in Workers : Consistent(job[w])

TypeInv == TypeOK /\ JobOK

(* A worker without a task is consistent.                                  *)
LEMMA IdleIsConsistent == IdleJob \in Job /\ Consistent(IdleJob)
BY DEF IdleJob, Job, PC, Consistent

(* A step of worker w keeps the workers well-formed if w's new state is.   *)
LEMMA JobUpdate ==
  ASSUME TypeInv, NEW w \in Workers, NEW j, j \in Job, Consistent(j),
         job' = [job EXCEPT ![w] = j]
  PROVE  job' \in [Workers -> Job] /\ JobOK'
BY DEF TypeInv, TypeOK, JobOK

(* The initial states are typed.                                           *)
LEMMA TypeInit == Init => TypeInv
BY PipelineAssumption, IdleIsConsistent DEF Init, TypeInv, TypeOK, JobOK, Status

(* Steps of the API keep the types.                                        *)
LEMMA ApiType ==
  ASSUME TypeInv, NEW d \in Docs, ApiStep(d)
  PROVE  TypeInv'
<1> USE PipelineAssumption DEF TypeInv, TypeOK, JobOK, mysql, stores, broker,
                               host, api, fault, Fail, Strike, FaultKinds, Publish
<1>1. CASE PublishTask(d) BY <1>1 DEF PublishTask, Message
<1>2. CASE PublishFails(d) BY <1>2 DEF PublishFails
<1>3. CASE Reprocess(d) BY <1>3 DEF Reprocess, Message
<1>4. CASE DeleteObject(d) BY <1>4 DEF DeleteObject
<1>5. CASE DeleteRows(d) BY <1>5 DEF DeleteRows
<1>6. CASE DeleteAborts(d) BY <1>6 DEF DeleteAborts
<1>7. QED BY <1>1, <1>2, <1>3, <1>4, <1>5, <1>6 DEF ApiStep

(* Steps of process_document keep the types, and each position what it     *)
(* implies.                                                                *)
LEMMA ProcessType ==
  ASSUME TypeInv, NEW w \in Workers, ProcessStep(w)
  PROVE  TypeInv'
<1> USE PipelineAssumption DEF mysql, stores, broker, host, api, fault, Goto
<1> job[w] \in Job /\ Consistent(job[w])
  BY DEF TypeInv, TypeOK, JobOK
<1>1. CASE Fetch(w)
  <2>1. PICK m \in docQueue :
          /\ docQueue' = docQueue \ {m}
          /\ job' = [job EXCEPT ![w] =
               IF status[m.doc] \in {"gone", "ready"}
               THEN [IdleJob EXCEPT !.pc = "ending", !.msg = m]
               ELSE [IdleJob EXCEPT !.pc = "fetched", !.msg = m,
                                    !.seen = status[m.doc]]]
    BY <1>1 DEF Fetch
  <2> DEFINE j == IF status[m.doc] \in {"gone", "ready"}
                  THEN [IdleJob EXCEPT !.pc = "ending", !.msg = m]
                  ELSE [IdleJob EXCEPT !.pc = "fetched", !.msg = m,
                                       !.seen = status[m.doc]]
  <2>2. m \in Message /\ status[m.doc] \in Status \cup {"gone"}
    BY <2>1 DEF TypeInv, TypeOK, Message
  <2>3. j \in Job /\ Consistent(j)
    BY <2>2 DEF Job, PC, IdleJob, Consistent
  <2>4. job' \in [Workers -> Job] /\ JobOK'
    BY <2>1, <2>3, JobUpdate
  <2>5. QED
    BY <1>1, <2>1, <2>4 DEF Fetch, TypeInv, TypeOK
<1>2. CASE MarkProcessing(w)
  <2> DEFINE marked == [job[w] EXCEPT !.pc = "marked"]
             claimed == [job[w] EXCEPT !.pc = "marked", !.seen = "processing"]
             ending == [job[w] EXCEPT !.pc = "ending"]
  <2>1. /\ marked \in Job /\ Consistent(marked)
        /\ claimed \in Job /\ Consistent(claimed)
        /\ ending \in Job /\ Consistent(ending)
    BY <1>2 DEF MarkProcessing, Job, PC, Status, Consistent
  <2>2. \/ job' = [job EXCEPT ![w] = marked]
        \/ job' = [job EXCEPT ![w] = claimed]
        \/ job' = [job EXCEPT ![w] = ending]
    BY <1>2 DEF MarkProcessing
  <2>3. job' \in [Workers -> Job] /\ JobOK'
    BY <2>1, <2>2, JobUpdate
  <2>4. status' \in [Docs -> Status \cup {"gone"}]
    BY <1>2 DEF MarkProcessing, TypeInv, TypeOK, Status
  <2>5. QED
    BY <1>2, <2>3, <2>4 DEF MarkProcessing, TypeInv, TypeOK
<1>3. CASE Download(w)
  <2> DEFINE fetched == [job[w] EXCEPT !.pc = "downloaded", !.temp = TRUE]
             failing == [job[w] EXCEPT !.pc = "failing"]
  <2>1. /\ fetched \in Job /\ Consistent(fetched)
        /\ failing \in Job /\ Consistent(failing)
    BY <1>3 DEF Download, Job, PC, Consistent
  <2>2. \/ job' = [job EXCEPT ![w] = fetched]
        \/ job' = [job EXCEPT ![w] = failing]
    BY <1>3 DEF Download
  <2>3. job' \in [Workers -> Job] /\ JobOK'
    BY <2>1, <2>2, JobUpdate
  <2>4. tmp' \in Docs \cup {None}
    BY <1>3 DEF Download, TypeInv, TypeOK
  <2>5. QED
    BY <1>3, <2>3, <2>4 DEF Download, TypeInv, TypeOK
<1>4. CASE Parse(w)
  <2> DEFINE parsed == [job[w] EXCEPT !.pc = "parsed", !.src = tmp]
             failing == [job[w] EXCEPT !.pc = "failing"]
  <2>1. /\ tmp # None => parsed \in Job /\ Consistent(parsed)
        /\ failing \in Job /\ Consistent(failing)
    BY <1>4 DEF Parse, TypeInv, TypeOK, Job, PC, Consistent
  <2>2. \/ tmp # None /\ job' = [job EXCEPT ![w] = parsed]
        \/ job' = [job EXCEPT ![w] = failing]
    BY <1>4 DEF Parse
  <2>3. job' \in [Workers -> Job] /\ JobOK'
    BY <2>1, <2>2, JobUpdate
  <2>4. QED
    BY <1>4, <2>3 DEF Parse, TypeInv, TypeOK
<1>5. CASE Flush(w)
  <2> DEFINE b == [gen |-> nextGen, doc |-> job[w].msg.doc, src |-> job[w].src]
             flushed == [job[w] EXCEPT !.pc = "flushed", !.pend = b]
             ending == [job[w] EXCEPT !.pc = "ending"]
  <2>1. b \in Batch
    BY <1>5 DEF Flush, Consistent, Batch, Message, TypeInv, TypeOK
  <2>2. /\ flushed \in Job /\ Consistent(flushed)
        /\ ending \in Job /\ Consistent(ending)
    BY <1>5, <2>1 DEF Flush, Job, PC, Consistent
  <2>3. \/ job' = [job EXCEPT ![w] = flushed]
        \/ job' = [job EXCEPT ![w] = ending]
    BY <1>5 DEF Flush
  <2>4. job' \in [Workers -> Job] /\ JobOK'
    BY <2>2, <2>3, JobUpdate
  <2>5. QED
    BY <1>5, <2>4 DEF Flush, TypeInv, TypeOK
<1>6. CASE IndexES(w)
  BY <1>6, SMTT(30) DEF IndexES, TypeInv, TypeOK, JobOK, Consistent, Job, PC
<1>7. CASE CommitReady(w)
  BY <1>7 DEF CommitReady, TypeInv, TypeOK, JobOK, Consistent, Job, PC, Batch, Status
<1>8. CASE Dispatch(w)
  BY <1>8 DEF Dispatch, TypeInv, TypeOK, JobOK, Consistent, Job, PC
<1>9. CASE HandleFailure(w)
  <2> DEFINE ending == [job[w] EXCEPT !.pc = "ending", !.pend = None]
  <2>1. ending \in Job /\ Consistent(ending)
    BY <1>9 DEF HandleFailure, Job, PC, Consistent
  <2>2. job' = [job EXCEPT ![w] = ending]
    BY <1>9 DEF HandleFailure
  <2>6. job' \in [Workers -> Job] /\ JobOK'
    BY <2>1, <2>2, JobUpdate
  <2>3. status' \in [Docs -> Status \cup {"gone"}]
    BY <1>9 DEF HandleFailure, TypeInv, TypeOK, Status
  <2>4. chunks' \subseteq Batch
    BY <1>9 DEF HandleFailure, TypeInv, TypeOK, Job
  <2>5. QED
    BY <1>9, <2>6, <2>3, <2>4 DEF HandleFailure, TypeInv, TypeOK
<1>10. CASE Finish(w)
  BY <1>10, IdleIsConsistent DEF Finish, TypeInv, TypeOK, JobOK
<1>11. QED
  BY <1>1, <1>2, <1>3, <1>4, <1>5, <1>6, <1>7, <1>8, <1>9, <1>10 DEF ProcessStep

(* So do vectorize_chunks, the late download and the faults of one worker. *)
LEMMA OtherType ==
  ASSUME TypeInv, NEW w \in Workers,
         VectorizeStep(w) \/ LateDownload(w) \/ FaultStep(w)
  PROVE  TypeInv'
<1> USE PipelineAssumption DEF mysql, stores, broker, host, api, fault, Goto,
                               Fail, Broken, Strike, FaultKinds
<1> job[w] \in Job /\ Consistent(job[w])
  BY DEF TypeInv, TypeOK, JobOK
<1>1. CASE FetchVectorize(w)
  <2>1. PICK b \in vecQueue :
          /\ vecQueue' = vecQueue \ {b}
          /\ \/ job' = [job EXCEPT ![w] =
                           [IdleJob EXCEPT !.pc = "embedding", !.ids = b]]
             \/ job' = job
    BY <1>1 DEF FetchVectorize
  <2> DEFINE j == [IdleJob EXCEPT !.pc = "embedding", !.ids = b]
  <2>2. j \in Job /\ Consistent(j)
    BY <2>1 DEF TypeInv, TypeOK, Job, PC, IdleJob, Consistent
  <2>3. job' \in [Workers -> Job] /\ JobOK'
    BY <2>1, <2>2, JobUpdate DEF TypeInv, TypeOK, JobOK
  <2>4. QED
    BY <1>1, <2>1, <2>3 DEF FetchVectorize, TypeInv, TypeOK
<1>2. CASE StoreVectors(w)
  <2> DEFINE stored == [job[w] EXCEPT !.pc = "stored"]
  <2>1. stored \in Job /\ Consistent(stored) /\ job[w].ids \in Batch
    BY <1>2 DEF StoreVectors, Job, PC, Consistent
  <2>2. job' = [job EXCEPT ![w] = stored]
    BY <1>2 DEF StoreVectors
  <2>3. job' \in [Workers -> Job] /\ JobOK'
    BY <2>1, <2>2, JobUpdate
  <2>4. vectors' \subseteq Batch /\ copies' \in [Docs -> Nat]
    BY <1>2, <2>1 DEF StoreVectors, TypeInv, TypeOK, Batch
  <2>5. QED
    BY <1>2, <2>3, <2>4 DEF StoreVectors, TypeInv, TypeOK
<1>3. CASE AckVectorize(w)
  BY <1>3, IdleIsConsistent DEF AckVectorize, TypeInv, TypeOK, JobOK
<1>4. CASE LateDownload(w)
  BY <1>4 DEF LateDownload, TypeInv, TypeOK, JobOK
<1>5. CASE DownloadTimesOut(w)
  <2> DEFINE failing == [job[w] EXCEPT !.pc = "failing"]
  <2>1. failing \in Job /\ Consistent(failing) /\ job[w].msg.doc \in Docs
    BY <1>5 DEF DownloadTimesOut, Job, PC, Consistent, Message
  <2>2. job' = [job EXCEPT ![w] = failing]
    BY <1>5 DEF DownloadTimesOut
  <2>3. job' \in [Workers -> Job] /\ JobOK'
    BY <2>1, <2>2, JobUpdate
  <2>4. late' \in [Workers -> SUBSET Docs]
    BY <1>5, <2>1 DEF DownloadTimesOut, TypeInv, TypeOK
  <2>5. QED
    BY <1>5, <2>3, <2>4 DEF DownloadTimesOut, TypeInv, TypeOK
<1>6. CASE IndexESFails(w)
  <2> DEFINE j == [job[w] EXCEPT !.pc = "indexed"]
  <2>1. j \in Job /\ Consistent(j)
    BY <1>6 DEF IndexESFails, Job, PC, Consistent
  <2>2. job' = [job EXCEPT ![w] = j]
    BY <1>6 DEF IndexESFails
  <2>3. job' \in [Workers -> Job] /\ JobOK'
    BY <2>1, <2>2, JobUpdate
  <2>4. QED
    BY <1>6, <2>3 DEF IndexESFails, TypeInv, TypeOK
<1>7. CASE DispatchFails(w)
  <2> DEFINE j == [job[w] EXCEPT !.pc = "failing", !.ids = None]
  <2>1. j \in Job /\ Consistent(j)
    BY <1>7 DEF DispatchFails, Job, PC, Consistent
  <2>2. job' = [job EXCEPT ![w] = j]
    BY <1>7 DEF DispatchFails
  <2>3. job' \in [Workers -> Job] /\ JobOK'
    BY <2>1, <2>2, JobUpdate
  <2>4. QED
    BY <1>7, <2>3 DEF DispatchFails, TypeInv, TypeOK, Consistent
<1>8. CASE SoftLimit(w)
  <2> DEFINE j == [job[w] EXCEPT !.pc = "failing", !.ids = None]
  <2>1. j \in Job /\ Consistent(j) /\ job[w].msg.doc \in Docs
    BY <1>8 DEF SoftLimit, Job, PC, Consistent, Message
  <2>2. job' = [job EXCEPT ![w] = j]
    BY <1>8 DEF SoftLimit
  <2>3. job' \in [Workers -> Job] /\ JobOK'
    BY <2>1, <2>2, JobUpdate
  <2>4. late' \in [Workers -> SUBSET Docs]
    BY <1>8, <2>1 DEF SoftLimit, TypeInv, TypeOK
  <2>5. QED
    BY <1>8, <2>3, <2>4 DEF SoftLimit, TypeInv, TypeOK
<1>9. CASE DbError(w)
  <2> DEFINE ending == [job[w] EXCEPT !.pc = "ending", !.pend = None]
  <2>1. ending \in Job /\ Consistent(ending)
    BY <1>9 DEF DbError, Job, PC, Consistent
  <2>2. job' = [job EXCEPT ![w] = ending]
    BY <1>9 DEF DbError
  <2>3. job' \in [Workers -> Job] /\ JobOK'
    BY <2>1, <2>2, JobUpdate
  <2>4. QED
    BY <1>9, <2>3 DEF DbError, TypeInv, TypeOK
<1>13. CASE SoftLimitEscapes(w)
  <2>1. job' \in [Workers -> Job] /\ JobOK'
    BY <1>13, IdleIsConsistent DEF SoftLimitEscapes, TypeInv, TypeOK, JobOK
  <2>2. job[w].msg.doc \in Docs
    BY <1>13 DEF SoftLimitEscapes, Consistent, Message
  <2>3. docQueue' \subseteq Message /\ sent' \in Nat /\ vecQueue' \subseteq Batch
    BY <1>13, <2>2 DEF SoftLimitEscapes, Publish, Message, TypeInv, TypeOK
  <2>4. tmp' \in Docs \cup {None}
    BY <1>13 DEF SoftLimitEscapes, TypeInv, TypeOK
  <2>5. faults' \in 0..MaxFaults /\ struck' \subseteq FaultKinds
    <3>1. \E k \in {"softlimit", "publish"} : Strike(k)
      BY <1>13 DEF SoftLimitEscapes
    <3>2. QED
      BY <3>1 DEF TypeInv, TypeOK
  <2>6. QED
    BY <1>13, <2>1, <2>3, <2>4, <2>5 DEF SoftLimitEscapes, TypeInv, TypeOK
<1>14. CASE CommitUnanswered(w)
  <2> DEFINE ending == [job[w] EXCEPT !.pc = "ending", !.pend = None]
  <2>1. ending \in Job /\ Consistent(ending) /\ job[w].msg.doc \in Docs
    BY <1>14 DEF CommitUnanswered, Job, PC, Consistent, Message
  <2>2. job' = [job EXCEPT ![w] = ending]
    BY <1>14 DEF CommitUnanswered
  <2>3. job' \in [Workers -> Job] /\ JobOK'
    BY <2>1, <2>2, JobUpdate
  <2>4. /\ status' \in [Docs -> Status \cup {"gone"}]
        /\ chunks' \subseteq Batch /\ chunkCount' \in [Docs -> Nat]
    BY <1>14 DEF CommitUnanswered, TypeInv, TypeOK, Status, Consistent, Batch
  <2>5. QED
    BY <1>14, <2>3, <2>4 DEF CommitUnanswered, TypeInv, TypeOK
<1>10. CASE VectorizeFails(w)
  <2> DEFINE j == [job[w] EXCEPT !.pc = "stored"]
  <2>1. j \in Job /\ Consistent(j)
    BY <1>10 DEF VectorizeFails, Job, PC, Consistent
  <2>2. job' = [job EXCEPT ![w] = j]
    BY <1>10 DEF VectorizeFails
  <2>3. job' \in [Workers -> Job] /\ JobOK'
    BY <2>1, <2>2, JobUpdate
  <2>4. QED
    BY <1>10, <2>3 DEF VectorizeFails, TypeInv, TypeOK
<1>11. CASE ChildLost(w)
  BY <1>11, IdleIsConsistent DEF ChildLost, TypeInv, TypeOK, JobOK
<1>12. QED
  BY <1>1, <1>2, <1>3, <1>4, <1>5, <1>6, <1>7, <1>8, <1>9, <1>10, <1>11, <1>13, <1>14
  DEF VectorizeStep, FaultStep

(* So does the loss of all workers.                                        *)
LEMMA CrashType == TypeInv /\ WorkerDown => TypeInv'
<1> SUFFICES ASSUME TypeInv, WorkerDown PROVE TypeInv'
  OBVIOUS
<1>1. docQueue' \subseteq Message
  BY DEF WorkerDown, TypeInv, TypeOK, Job
<1>2. vecQueue' \subseteq Batch
  BY DEF WorkerDown, TypeInv, TypeOK, JobOK, Consistent
<1>3. job' \in [Workers -> Job] /\ JobOK'
  BY IdleIsConsistent DEF WorkerDown, JobOK
<1>4. QED
  BY <1>1, <1>2, <1>3, PipelineAssumption
  DEF WorkerDown, TypeInv, TypeOK, mysql, stores, api, Fail, Strike, FaultKinds

(* The types, with what each position implies, are inductive.              *)
LEMMA TypeNext == TypeInv /\ [Next]_vars => TypeInv'
<1>1. TypeInv /\ UNCHANGED vars => TypeInv'
  BY DEF TypeInv, TypeOK, JobOK, vars, mysql, stores, broker, host, api, fault
<1>2. QED
  BY <1>1, ApiType, ProcessType, OtherType, CrashType DEF Next

(* Type correctness, for any documents, workers, faults and bounds.        *)
THEOREM TypeCorrect == Spec => []TypeOK
<1>1. Spec => []TypeInv
  BY TypeInit, TypeNext, PTL DEF Spec
<1>2. TypeInv => TypeOK
  BY DEF TypeInv
<1>3. QED
  BY <1>1, <1>2, PTL

-----------------------------------------------------------------------------
(***************************************************************************)
(* The inductive invariant behind the promises.  Uncommitted rows belong   *)
(* to a document that exists and has no rows yet, and no two workers hold  *)
(* rows of one document: this is what InnoDB's locks buy from the flush to *)
(* the commit, and why CommitReady and HandleFailure may add the rows      *)
(* without looking.  Every batch on its way to Milvus is committed unless  *)
(* its document is gone.                                                   *)
(***************************************************************************)
Settled(b) == Exists(b.doc) => b \in chunks

PendingOK ==
  \A w \in Workers : job[w].pend # None =>
    /\ Exists(job[w].pend.doc)
    /\ \A b \in chunks : b.doc # job[w].pend.doc
    /\ \A v \in Workers \ {w} :
         job[v].pend # None => job[v].pend.doc # job[w].pend.doc

VectorsOK ==
  /\ \A b \in vectors \cup vecQueue : Settled(b)
  /\ \A w \in Workers : job[w].ids # None => Settled(job[w].ids)

PipelineInv ==
  /\ TypeInv
  /\ PendingOK
  /\ OneBatchPerDoc
  /\ NoOrphanRows
  /\ ReadyIsComplete
  /\ VectorsOK

(* Initially there are no rows and no vectors.                             *)
LEMMA PipelineInit == Init => PipelineInv
BY TypeInit DEF Init, PipelineInv, PendingOK, OneBatchPerDoc, NoOrphanRows,
   ReadyIsComplete, VectorsOK, IdleJob

(***************************************************************************)
(* Most steps leave the rows and the vectors alone, and at most drop what  *)
(* a worker holds or move ids between the queue and the workers.           *)
(***************************************************************************)
Quiet ==
  /\ UNCHANGED <<status, chunkCount, chunks, vectors>>
  /\ \A b \in vecQueue' :
       b \in vecQueue \/ \E w \in Workers : job[w].ids # None /\ b = job[w].ids
  /\ \A w \in Workers :
       /\ job'[w].pend # None => job'[w].pend = job[w].pend
       /\ job'[w].ids # None => job'[w].ids = job[w].ids \/ job'[w].ids \in vecQueue

(* A step that touches neither rows nor vectors nor what a worker knows of *)
(* them.                                                                   *)
LEMMA QuietStep == PipelineInv /\ TypeInv' /\ Quiet => PipelineInv'
<1> SUFFICES ASSUME PipelineInv, TypeInv', Quiet PROVE PipelineInv'
  OBVIOUS
<1>1. PendingOK'
  BY DEF PipelineInv, PendingOK, Quiet, Exists
<1>2. VectorsOK'
  BY DEF PipelineInv, VectorsOK, Quiet, Exists, Settled
<1>3. (OneBatchPerDoc /\ NoOrphanRows /\ ReadyIsComplete)'
  BY DEF PipelineInv, OneBatchPerDoc, NoOrphanRows, ReadyIsComplete, Quiet, Exists
<1>4. QED
  BY <1>1, <1>2, <1>3 DEF PipelineInv

(* The API steps that are quiet.                                           *)
LEMMA QuietApi ==
  ASSUME NEW d \in Docs,
         PublishTask(d) \/ PublishFails(d) \/ Reprocess(d) \/ DeleteObject(d)
           \/ DeleteAborts(d)
  PROVE  Quiet
BY DEF PublishTask, PublishFails, Reprocess, DeleteObject, DeleteAborts, Quiet,
       Publish, Fail, mysql, stores, broker

(* The worker steps that are quiet.                                        *)
LEMMA QuietWorker ==
  ASSUME TypeInv, NEW w \in Workers,
         \/ Fetch(w) \/ Download(w) \/ Parse(w) \/ IndexES(w) \/ Dispatch(w)
         \/ Finish(w) \/ FetchVectorize(w) \/ AckVectorize(w)
         \/ LateDownload(w) \/ (FaultStep(w) /\ ~CommitUnanswered(w))
  PROVE  Quiet
<1> USE PipelineAssumption DEF mysql, stores, broker, host, Goto, Quiet
<1> job \in [Workers -> Job] /\ Consistent(job[w])
  BY DEF TypeInv, TypeOK, JobOK
<1>1. CASE Fetch(w)
  <2>1. PICK m \in docQueue : job' = [job EXCEPT ![w] =
            IF status[m.doc] \in {"gone", "ready"}
            THEN [IdleJob EXCEPT !.pc = "ending", !.msg = m]
            ELSE [IdleJob EXCEPT !.pc = "fetched", !.msg = m,
                                 !.seen = status[m.doc]]]
    BY <1>1 DEF Fetch
  <2>2. job'[w].pend = None /\ job'[w].ids = None
    BY <2>1 DEF IdleJob
  <2>3. \A v \in Workers \ {w} : job'[v] = job[v]
    BY <2>1
  <2>4. QED
    BY <1>1, <2>2, <2>3 DEF Fetch
<1>2. CASE Download(w) BY <1>2 DEF Download, Job
<1>3. CASE Parse(w) BY <1>3 DEF Parse, Job
<1>4. CASE IndexES(w) BY <1>4 DEF IndexES, Job
<1>5. CASE Dispatch(w) BY <1>5 DEF Dispatch, Job, Consistent
<1>6. CASE Finish(w) BY <1>6 DEF Finish, IdleJob
<1>7. CASE FetchVectorize(w)
  <2>1. PICK b \in vecQueue :
          /\ vecQueue' = vecQueue \ {b}
          /\ \/ job' = job
             \/ job' = [job EXCEPT ![w] =
                          [IdleJob EXCEPT !.pc = "embedding", !.ids = b]]
    BY <1>7 DEF FetchVectorize
  <2>2. CASE job' = job
    BY <1>7, <2>1, <2>2 DEF FetchVectorize
  <2>3. CASE job' = [job EXCEPT ![w] =
                       [IdleJob EXCEPT !.pc = "embedding", !.ids = b]]
    <3>1. job'[w].pend = None /\ job'[w].ids = b
      BY <2>3 DEF IdleJob
    <3>2. \A v \in Workers \ {w} : job'[v] = job[v]
      BY <2>3
    <3>3. QED
      BY <1>7, <2>1, <3>1, <3>2 DEF FetchVectorize
  <2>4. QED
    BY <2>1, <2>2, <2>3
<1>8. CASE AckVectorize(w) BY <1>8 DEF AckVectorize, IdleJob
<1>9. CASE LateDownload(w) BY <1>9 DEF LateDownload
<1>10. CASE DownloadTimesOut(w) BY <1>10 DEF DownloadTimesOut, Job
<1>11. CASE IndexESFails(w) BY <1>11 DEF IndexESFails, Job
<1>12. CASE DispatchFails(w) BY <1>12 DEF DispatchFails, Job, Consistent
<1>13. CASE SoftLimit(w) BY <1>13 DEF SoftLimit, Job
<1>14. CASE DbError(w) BY <1>14 DEF DbError, Job
<1>15. CASE VectorizeFails(w) BY <1>15 DEF VectorizeFails, Job
<1>16. CASE ChildLost(w) BY <1>16 DEF ChildLost, IdleJob
<1>17. CASE SoftLimitEscapes(w) BY <1>17 DEF SoftLimitEscapes, Publish, IdleJob
<1>18. QED
  BY <1>1, <1>2, <1>3, <1>4, <1>5, <1>6, <1>7, <1>8, <1>9, <1>10, <1>11,
     <1>12, <1>13, <1>14, <1>15, <1>16, <1>17 DEF FaultStep

(* Losing all workers is quiet.                                            *)
LEMMA QuietCrash == TypeInv /\ WorkerDown => Quiet
BY PipelineAssumption DEF WorkerDown, Quiet, TypeInv, TypeOK, JobOK, Consistent,
   IdleJob, mysql, stores, Job

(* The seven steps that change rows or vectors.                            *)
LEMMA MarkSafe ==
  ASSUME PipelineInv, TypeInv', NEW w \in Workers, MarkProcessing(w)
  PROVE  PipelineInv'
<1> DEFINE d == job[w].msg.doc
<1>1. CASE status' = status
  <2>1. Quiet
    BY <1>1 DEF MarkProcessing, Quiet, Goto, PipelineInv, TypeInv, TypeOK, Job,
                stores, broker
  <2>2. QED
    BY <2>1, QuietStep
<1>2. CASE status' = [status EXCEPT ![d] = "processing"] /\ Exists(d)
  <2>1. /\ UNCHANGED <<chunkCount, chunks, vectors, vecQueue>>
        /\ \A v \in Workers : job'[v].pend = job[v].pend /\ job'[v].ids = job[v].ids
    BY DEF MarkProcessing, Goto, PipelineInv, TypeInv, TypeOK, Job, stores, broker
  <2>2. status \in [Docs -> Status \cup {"gone"}]
    BY DEF PipelineInv, TypeInv, TypeOK
  <2>3. \A c : Exists(c)' <=> Exists(c)
    BY <1>2, <2>2 DEF Exists
  <2>4. PendingOK' /\ VectorsOK'
    BY <2>1, <2>3 DEF PipelineInv, PendingOK, VectorsOK, Settled
  <2>5. (OneBatchPerDoc /\ NoOrphanRows)'
    BY <2>1, <2>3 DEF PipelineInv, OneBatchPerDoc, NoOrphanRows
  <2>6. ReadyIsComplete'
    BY <1>2, <2>1, <2>2 DEF PipelineInv, ReadyIsComplete
  <2>7. QED
    BY <2>4, <2>5, <2>6 DEF PipelineInv
<1>3. QED
  BY <1>1, <1>2 DEF MarkProcessing

(* A flush: the document exists, and neither has rows nor is having them   *)
(* written.                                                                *)
LEMMA FlushSafe ==
  ASSUME PipelineInv, TypeInv', NEW w \in Workers, Flush(w)
  PROVE  PipelineInv'
<1> DEFINE d == job[w].msg.doc
<1> job \in [Workers -> Job] /\ JobOK
  BY DEF PipelineInv, TypeInv, TypeOK
<1>1. CASE job' = [job EXCEPT ![w].pc = "ending"]
  <2>1. Quiet
    BY <1>1 DEF Flush, Quiet, Job, mysql, stores, broker
  <2>2. QED
    BY <2>1, QuietStep
<1>2. CASE /\ Exists(d) /\ ~HasRows(d)
           /\ job' = [job EXCEPT ![w].pc = "flushed",
                ![w].pend = [gen |-> nextGen, doc |-> d, src |-> job[w].src]]
  <2>1. UNCHANGED <<status, chunkCount, chunks, vectors, vecQueue>>
    BY DEF Flush, mysql, stores, broker
  <2>2. /\ job'[w].pend.doc = d
        /\ job'[w].ids = job[w].ids
        /\ \A v \in Workers \ {w} : job'[v] = job[v]
    BY <1>2 DEF Job
  <2>3. \A v \in Workers \ {w} : job[v].pend # None => job[v].pend.doc # d
    BY DEF Flush, Locked, Holds, JobOK, Consistent
  <2>4. PendingOK'
    BY <1>2, <2>1, <2>2, <2>3 DEF PipelineInv, PendingOK, Exists, HasRows
  <2>5. VectorsOK'
    BY <2>1, <2>2 DEF PipelineInv, VectorsOK, Settled, Exists
  <2>6. (OneBatchPerDoc /\ NoOrphanRows /\ ReadyIsComplete)'
    BY <2>1 DEF PipelineInv, OneBatchPerDoc, NoOrphanRows, ReadyIsComplete, Exists
  <2>7. QED
    BY <2>4, <2>5, <2>6 DEF PipelineInv
<1>3. QED
  BY <1>1, <1>2 DEF Flush, Goto

(* What committing the rows a worker holds does to the rest.               *)
LEMMA CommitRows ==
  ASSUME PipelineInv, NEW w \in Workers, job[w].pend # None,
         NEW j, j.pend = None,
         j.ids = None \/ j.ids = job[w].ids \/ j.ids = job[w].pend,
         job' = [job EXCEPT ![w] = j],
         chunks' = chunks \cup {job[w].pend},
         NEW s \in Status, status' = [status EXCEPT ![job[w].pend.doc] = s],
         UNCHANGED <<vectors, vecQueue>>
  PROVE  PendingOK' /\ VectorsOK' /\ (OneBatchPerDoc /\ NoOrphanRows)'
<1> DEFINE p == job[w].pend
<1>1. /\ job \in [Workers -> Job]
      /\ status \in [Docs -> Status \cup {"gone"}]
      /\ p \in Batch /\ p.doc \in Docs
  BY DEF PipelineInv, TypeInv, TypeOK, Job, Batch
<1>2. Exists(p.doc) /\ \A c : Exists(c)' <=> Exists(c)
  BY <1>1 DEF PipelineInv, PendingOK, Exists, Status
<1>3. /\ \A b \in chunks : b.doc # p.doc
      /\ \A v \in Workers \ {w} : job[v].pend # None => job[v].pend.doc # p.doc
  BY DEF PipelineInv, PendingOK
<1>4. job'[w] = j /\ \A v \in Workers \ {w} : job'[v] = job[v]
  BY <1>1
<1>5. PendingOK'
  BY <1>2, <1>3, <1>4 DEF PipelineInv, PendingOK
<1>6. VectorsOK'
  BY <1>2, <1>4 DEF PipelineInv, VectorsOK, Settled
<1>7. (OneBatchPerDoc /\ NoOrphanRows)'
  BY <1>2, <1>3 DEF PipelineInv, OneBatchPerDoc, NoOrphanRows
<1>8. QED
  BY <1>5, <1>6, <1>7

(* The commit of rows, count and READY: the one batch of its document.     *)
LEMMA CommitSafe ==
  ASSUME PipelineInv, TypeInv', NEW w \in Workers, CommitReady(w)
  PROVE  PipelineInv'
<1> DEFINE p == job[w].pend
           j == [job[w] EXCEPT !.pc = "committed", !.pend = None, !.ids = p]
<1>1. /\ job[w] \in Job /\ p \in Batch /\ p.doc \in Docs /\ p # None
      /\ status \in [Docs -> Status \cup {"gone"}]
      /\ chunkCount \in [Docs -> Nat]
  BY PipelineAssumption
  DEF CommitReady, PipelineInv, TypeInv, TypeOK, JobOK, Consistent, Batch
<1>2. j.pend = None /\ j.ids = p
  BY <1>1 DEF Job
<1>3. job' = [job EXCEPT ![w] = j]
  BY DEF CommitReady
<1>4. UNCHANGED <<vectors, vecQueue>>
  BY DEF CommitReady, stores, broker
<1>5. PendingOK' /\ VectorsOK' /\ (OneBatchPerDoc /\ NoOrphanRows)'
  BY <1>1, <1>2, <1>3, <1>4, CommitRows DEF CommitReady, Status
<1>6. ReadyIsComplete'
  <2>1. SUFFICES ASSUME NEW d \in Docs, status'[d] = "ready"
                 PROVE  \E b \in chunks' :
                          b.doc = d /\ chunkCount'[d] = NumChunks[b.src]
    BY DEF ReadyIsComplete
  <2>2. CASE d = p.doc
    BY <1>1, <2>2 DEF CommitReady
  <2>3. CASE d # p.doc
    BY <1>1, <2>1, <2>3 DEF CommitReady, PipelineInv, ReadyIsComplete
  <2>4. QED
    BY <2>2, <2>3
<1>7. QED
  BY <1>5, <1>6 DEF PipelineInv

(* A commit that was carried out but not answered adds the same.           *)
LEMMA UnansweredSafe ==
  ASSUME PipelineInv, TypeInv', NEW w \in Workers, CommitUnanswered(w)
  PROVE  PipelineInv'
<1> DEFINE d == job[w].msg.doc
           p == job[w].pend
           j == [job[w] EXCEPT !.pc = "ending", !.pend = None]
<1>1. /\ job[w] \in Job /\ Consistent(job[w]) /\ job \in [Workers -> Job]
      /\ status \in [Docs -> Status \cup {"gone"}]
      /\ chunkCount \in [Docs -> Nat]
  BY DEF PipelineInv, TypeInv, TypeOK, JobOK
<1>2. /\ j.pend = None /\ j.ids = job[w].ids
      /\ job' = [job EXCEPT ![w] = j]
      /\ UNCHANGED <<vectors, vecQueue>>
  BY <1>1 DEF CommitUnanswered, Job, stores, broker
<1>3. CASE /\ job[w].pc = "fetched" /\ Exists(d)
           /\ status' = [status EXCEPT ![d] = "processing"]
           /\ UNCHANGED <<chunks, chunkCount>>
  <2>1. \A v \in Workers : /\ job'[v].pend # None => job'[v].pend = job[v].pend
                           /\ job'[v].ids = job[v].ids
    BY <1>1, <1>2
  <2>2. \A c : Exists(c)' <=> Exists(c)
    BY <1>1, <1>3 DEF Exists
  <2>3. PendingOK' /\ VectorsOK'
    BY <1>2, <1>3, <2>1, <2>2 DEF PipelineInv, PendingOK, VectorsOK, Settled
  <2>4. (OneBatchPerDoc /\ NoOrphanRows)'
    BY <1>3, <2>2 DEF PipelineInv, OneBatchPerDoc, NoOrphanRows
  <2>5. ReadyIsComplete'
    BY <1>1, <1>3 DEF PipelineInv, ReadyIsComplete
  <2>6. QED
    BY <2>3, <2>4, <2>5 DEF PipelineInv
<1>4. CASE /\ job[w].pc = "indexed"
           /\ chunks' = chunks \cup {p}
           /\ status' = [status EXCEPT ![d] = "ready"]
           /\ chunkCount' = [chunkCount EXCEPT ![d] = NumChunks[p.src]]
  <2>1. p \in Batch /\ p # None /\ p.doc = d /\ d \in Docs
    BY <1>1, <1>4, PipelineAssumption DEF Consistent, Batch
  <2>2. PendingOK' /\ VectorsOK' /\ (OneBatchPerDoc /\ NoOrphanRows)'
    BY <1>2, <1>4, <2>1, CommitRows DEF Status
  <2>3. ReadyIsComplete'
    <3>1. SUFFICES ASSUME NEW c \in Docs, status'[c] = "ready"
                   PROVE  \E b \in chunks' :
                            b.doc = c /\ chunkCount'[c] = NumChunks[b.src]
      BY DEF ReadyIsComplete
    <3>2. CASE c = d
      BY <1>1, <1>4, <2>1, <3>2
    <3>3. CASE c # d
      BY <1>1, <1>4, <3>1, <3>3 DEF PipelineInv, ReadyIsComplete
    <3>4. QED
      BY <3>2, <3>3
  <2>4. QED
    BY <2>2, <2>3 DEF PipelineInv
<1>5. QED
  BY <1>3, <1>4 DEF CommitUnanswered

(* The except clause: it commits FAILED with what was flushed, or rolls    *)
(* back.                                                                   *)
LEMMA FailureSafe ==
  ASSUME PipelineInv, TypeInv', NEW w \in Workers, HandleFailure(w)
  PROVE  PipelineInv'
<1> DEFINE p == job[w].pend
           d == job[w].msg.doc
           j == [job[w] EXCEPT !.pc = "ending", !.pend = None]
<1>1. /\ job \in [Workers -> Job] /\ job[w] \in Job
      /\ p # None => p.doc = d
      /\ d \in Docs
      /\ status \in [Docs -> Status \cup {"gone"}]
  BY DEF HandleFailure, PipelineInv, TypeInv, TypeOK, JobOK, Consistent, Message
<1>2. /\ j.pend = None /\ j.ids = job[w].ids
      /\ job' = [job EXCEPT ![w] = j]
  BY <1>1 DEF HandleFailure, Job
<1>3. UNCHANGED <<chunkCount, vectors, vecQueue>>
  BY DEF HandleFailure, stores, broker
<1>4. CASE ~Exists(d)
  <2>1. Quiet
    BY <1>1, <1>2, <1>3, <1>4 DEF HandleFailure, Quiet
  <2>2. QED
    BY <2>1, QuietStep
<1>5. CASE Exists(d)
  <2>1. PendingOK' /\ VectorsOK' /\ (OneBatchPerDoc /\ NoOrphanRows)'
    <3>1. CASE p # None
      <4>1. /\ chunks' = chunks \cup {p}
            /\ status' = [status EXCEPT ![p.doc] = "failed"]
        BY <1>1, <1>5, <3>1 DEF HandleFailure
      <4>2. QED
        BY <1>2, <1>3, <3>1, <4>1, CommitRows DEF Status
    <3>2. CASE p = None
      <4>1. chunks' = chunks
        BY <1>5, <3>2 DEF HandleFailure
      <4>2. \A c : Exists(c)' <=> Exists(c)
        <5>1. status' = [status EXCEPT ![d] = "failed"]
          BY <1>5 DEF HandleFailure
        <5>2. QED
          BY <1>1, <1>5, <5>1 DEF Exists
      <4>3. \A v \in Workers : /\ job'[v].pend = job[v].pend
                              /\ job'[v].ids = job[v].ids
        BY <1>1, <1>2, <3>2
      <4>4. PendingOK' /\ VectorsOK'
        BY <1>3, <4>1, <4>2, <4>3
        DEF PipelineInv, PendingOK, VectorsOK, Settled
      <4>5. (OneBatchPerDoc /\ NoOrphanRows)'
        BY <4>1, <4>2 DEF PipelineInv, OneBatchPerDoc, NoOrphanRows
      <4>6. QED
        BY <4>4, <4>5
    <3>3. QED
      BY <3>1, <3>2
  <2>2. ReadyIsComplete'
    <3>1. /\ status' = [status EXCEPT ![d] = "failed"]
          /\ chunks \subseteq chunks'
      BY <1>5 DEF HandleFailure
    <3>2. QED
      BY <1>1, <1>3, <3>1 DEF PipelineInv, ReadyIsComplete
  <2>3. QED
    BY <2>1, <2>2 DEF PipelineInv
<1>6. QED
  BY <1>4, <1>5

(* A document is deleted with its rows, while no worker holds flushed rows *)
(* of it.                                                                  *)
LEMMA DeleteSafe ==
  ASSUME PipelineInv, TypeInv', NEW d \in Docs, DeleteRows(d)
  PROVE  PipelineInv'
<1>1. /\ status \in [Docs -> Status \cup {"gone"}]
      /\ status' = [status EXCEPT ![d] = "gone"]
      /\ chunks' = {b \in chunks : b.doc # d}
      /\ UNCHANGED <<job, chunkCount, vectors, vecQueue>>
  BY DEF DeleteRows, PipelineInv, TypeInv, TypeOK, stores, broker
<1>2. \A c : Exists(c)' => Exists(c) /\ c # d
  BY <1>1 DEF Exists
<1>3. /\ \A w \in Workers : job[w].pend # None => job[w].pend.doc # d
      /\ \A c : c # d => status'[c] = status[c]
  BY <1>1 DEF DeleteRows, Locked, Holds, PipelineInv, TypeInv, JobOK, Consistent
<1>4. PendingOK'
  BY <1>1, <1>3 DEF PipelineInv, PendingOK, Exists
<1>5. VectorsOK'
  BY <1>1, <1>2 DEF PipelineInv, VectorsOK, Settled
<1>6. (OneBatchPerDoc /\ NoOrphanRows)'
  BY <1>1, <1>3 DEF PipelineInv, OneBatchPerDoc, NoOrphanRows, Exists
<1>7. ReadyIsComplete'
  BY <1>1, <1>3 DEF PipelineInv, ReadyIsComplete
<1>8. QED
  BY <1>4, <1>5, <1>6, <1>7 DEF PipelineInv

(* Vectors are stored for the ids that were read with the rows.            *)
LEMMA StoreSafe ==
  ASSUME PipelineInv, TypeInv', NEW w \in Workers, StoreVectors(w)
  PROVE  PipelineInv'
<1>1. /\ job[w].ids # None
      /\ vectors' = vectors \cup {job[w].ids}
      /\ UNCHANGED <<status, chunkCount, chunks, vecQueue>>
      /\ \A v \in Workers : job'[v].pend = job[v].pend /\ job'[v].ids = job[v].ids
  BY PipelineAssumption
  DEF StoreVectors, Goto, PipelineInv, TypeInv, TypeOK, JobOK, Consistent, Job,
      mysql, broker
<1>2. PendingOK' /\ VectorsOK'
  BY <1>1 DEF PipelineInv, PendingOK, VectorsOK, Settled, Exists
<1>3. (OneBatchPerDoc /\ NoOrphanRows /\ ReadyIsComplete)'
  BY <1>1 DEF PipelineInv, OneBatchPerDoc, NoOrphanRows, ReadyIsComplete, Exists
<1>4. QED
  BY <1>2, <1>3 DEF PipelineInv

(* The invariant is inductive.                                             *)
LEMMA PipelineNext == PipelineInv /\ [Next]_vars => PipelineInv'
<1> SUFFICES ASSUME PipelineInv, [Next]_vars PROVE PipelineInv'
  OBVIOUS
<1>1. TypeInv /\ TypeInv'
  BY TypeNext DEF PipelineInv
<1>2. CASE UNCHANGED vars
  <2>1. Quiet
    BY <1>2 DEF vars, mysql, stores, broker, Quiet
  <2>2. QED
    BY <1>1, <2>1, QuietStep
<1>3. ASSUME NEW d \in Docs, ApiStep(d) PROVE PipelineInv'
  BY <1>1, <1>3, QuietApi, QuietStep, DeleteSafe DEF ApiStep
<1>4. ASSUME NEW w \in Workers,
             ProcessStep(w) \/ VectorizeStep(w) \/ LateDownload(w) \/ FaultStep(w)
      PROVE  PipelineInv'
  BY <1>1, <1>4, QuietWorker, QuietStep, MarkSafe, FlushSafe, CommitSafe,
     FailureSafe, StoreSafe, UnansweredSafe DEF ProcessStep, VectorizeStep
<1>5. CASE WorkerDown
  BY <1>1, <1>5, QuietCrash, QuietStep
<1>6. QED
  BY <1>2, <1>3, <1>4, <1>5 DEF Next

(* The invariant holds in every reachable state.                           *)
THEOREM PipelineSafe == Spec => []PipelineInv
BY PipelineInit, PipelineNext, PTL DEF Spec

(* A READY document has exactly the chunk rows its chunk_count says.       *)
THEOREM ReadyComplete == Spec => []ReadyIsComplete
<1>1. PipelineInv => ReadyIsComplete
  BY DEF PipelineInv
<1>2. QED
  BY <1>1, PipelineSafe, PTL

(* A document never has two sets of chunk rows.                            *)
THEOREM RowsAreUnique == Spec => []OneBatchPerDoc
<1>1. PipelineInv => OneBatchPerDoc
  BY DEF PipelineInv
<1>2. QED
  BY <1>1, PipelineSafe, PTL

(* Chunk rows never outlive their document.                                *)
THEOREM RowsHaveDocument == Spec => []NoOrphanRows
<1>1. PipelineInv => NoOrphanRows
  BY DEF PipelineInv
<1>2. QED
  BY <1>1, PipelineSafe, PTL

(* The vectors of an existing document are those of its rows.              *)
THEOREM VectorsConsistent == Spec => []VectorsMatchRows
<1>1. PipelineInv => VectorsMatchRows
  BY DEF PipelineInv, VectorsOK, VectorsMatchRows, Settled
<1>2. QED
  BY <1>1, PipelineSafe, PTL

-----------------------------------------------------------------------------
(***************************************************************************)
(* What becomes of a document's task.  At most one message or worker       *)
(* carries the ids of a document's rows, so that Milvus gets its vectors   *)
(* once, and once more only for a failure that has been counted; while a   *)
(* document is owed its rows, a delivery of its task is queued or running; *)
(* rows are indexed before they become READY.                              *)
(***************************************************************************)
Carries(j, d) == j.ids # None /\ j.ids.doc = d

OneCarrier ==
  /\ \A a, b \in vecQueue : a.doc = b.doc => a = b
  /\ \A b \in vecQueue, w \in Workers : ~Carries(job[w], b.doc)
  /\ \A v, w \in Workers, d \in Docs : Carries(job[v], d) /\ Carries(job[w], d) => v = w

(* Vectors of d may still be inserted, without another failure.            *)
Due(d) ==
  \/ \E b \in vecQueue : b.doc = d
  \/ \E w \in Workers : Carries(job[w], d) /\ job[w].pc # "stored"
  \/ Exists(d) /\ ~HasRows(d)

CopiesOK ==
  \A d \in Docs : copies[d] <= 1 + faults /\ (Due(d) => copies[d] <= faults)

(* What a worker's position says, the batches indexed being E and the      *)
(* failures so far having hit S.                                           *)
Fits(j, E, S) ==
  /\ j.pc \in {"idle", "embedding", "stored"} => j.msg = None
  /\ j.pc = "committed" => j.ids.doc = j.msg.doc
  /\ "es" \notin S /\ j.pc = "indexed" => j.pend \in E

Owed(d) == status[d] = "processing" /\ ~HasRows(d)

Awaited(d) ==
  \/ \E m \in docQueue : m.doc = d
  \/ \E w \in Workers : job[w].msg # None /\ job[w].msg.doc = d /\ job[w].pc # "ending"

(* So far no call to the database or the broker has failed and no child    *)
(* has been killed.                                                        *)
Reliable == struck \cap {"db", "childlost", "publish"} = {}

DeliveryInv ==
  /\ \A w \in Workers : Fits(job[w], es, struck)
  /\ ReadyIsIndexed
  /\ OneCarrier
  /\ CopiesOK
  /\ Reliable => \A d \in Docs : Owed(d) => Awaited(d)

(* No document waits for worker w once the step is taken.                  *)
Released(w) ==
  \/ job[w].msg = None \/ job[w].pc = "ending"
  \/ ~Owed(job[w].msg.doc)
  \/ \E m \in docQueue' : m.doc = job[w].msg.doc
  \/ ~Reliable'

(* The invariant holds of the initial state.                               *)
LEMMA DeliveryInit == Init => DeliveryInv
BY DEF Init, DeliveryInv, Fits, IdleJob, ReadyIsIndexed, OneCarrier, Carries, CopiesOK,
       Owed, Reliable

(* An idle worker has nothing.                                             *)
LEMMA IdleFits ==
  IdleJob.msg = None /\ IdleJob.ids = None /\ \A E, S : Fits(IdleJob, E, S)
BY DEF IdleJob, Fits

(* A step that only changes what worker w does: it keeps its message, or   *)
(* no one waits for it, and keeps the ids it carries, or drops them.       *)
LEMMA WorkerMoves ==
  ASSUME PipelineInv, DeliveryInv, TypeInv', NEW w \in Workers,
         NEW j, j \in Job, Fits(j, es', struck'), job' = [job EXCEPT ![w] = j],
         UNCHANGED <<status, chunks, vecQueue, copies>>, docQueue \subseteq docQueue',
         es \subseteq es', faults <= faults', struck \subseteq struck',
         (j.msg = job[w].msg /\ j.pc # "ending") \/ Released(w),
         j.ids = None \/ (j.ids = job[w].ids /\ (job[w].pc = "stored" => j.pc = "stored"))
  PROVE  DeliveryInv'
<1>0. /\ job \in [Workers -> Job] /\ copies \in [Docs -> Nat] /\ faults \in Nat /\ faults' \in Nat
      /\ job'[w] = j /\ \A v \in Workers \ {w} : job'[v] = job[v]
  BY DEF PipelineInv, TypeInv, TypeOK
<1>1. \A v \in Workers : Fits(job'[v], es', struck')
  BY <1>0 DEF DeliveryInv, Fits
<1>2. ReadyIsIndexed'
  BY <1>0 DEF DeliveryInv, ReadyIsIndexed
<1>3. \A v \in Workers, d \in Docs : Carries(job'[v], d) => Carries(job[v], d)
  BY <1>0 DEF Carries
<1>4. OneCarrier'
  <2>1. \A b \in vecQueue, v \in Workers : ~Carries(job'[v], b.doc)
    BY <1>0 DEF DeliveryInv, OneCarrier, Carries
  <2>2. QED
    BY <1>3, <2>1 DEF DeliveryInv, OneCarrier
<1>5. CopiesOK'
  <2>1. ASSUME NEW d \in Docs, Due(d)' PROVE Due(d)
    <3>1. CASE \E v \in Workers : Carries(job'[v], d) /\ job'[v].pc # "stored"
      <4>1. \E v \in Workers : Carries(job[v], d) /\ job[v].pc # "stored"
        BY <1>0, <3>1 DEF Carries
      <4>2. QED
        BY <4>1 DEF Due
    <3>2. CASE ~\E v \in Workers : Carries(job'[v], d) /\ job'[v].pc # "stored"
      BY <2>1, <3>2 DEF Due, Exists, HasRows
    <3>3. QED
      BY <3>1, <3>2
  <2>2. ASSUME NEW d \in Docs
        PROVE  copies'[d] <= 1 + faults' /\ (Due(d)' => copies'[d] <= faults')
    BY <1>0, <2>1 DEF DeliveryInv, CopiesOK
  <2>3. QED
    BY <2>2 DEF CopiesOK
<1>6. ASSUME Reliable', NEW d \in Docs, Owed(d)' PROVE Awaited(d)'
  <2>1. Owed(d) /\ Awaited(d)
    BY <1>6 DEF DeliveryInv, Owed, HasRows, Reliable
  <2>2. CASE \E m \in docQueue : m.doc = d
    BY <2>2 DEF Awaited
  <2>3. ASSUME NEW v \in Workers, job[v].msg # None, job[v].msg.doc = d, job[v].pc # "ending"
        PROVE  Awaited(d)'
    <3>1. CASE job'[v].msg # None /\ job'[v].msg.doc = d /\ job'[v].pc # "ending"
      BY <3>1 DEF Awaited
    <3>2. CASE v = w /\ \E m \in docQueue' : m.doc = d
      BY <3>2 DEF Awaited
    <3>3. QED
      BY <1>0, <1>6, <2>1, <2>3, <3>1, <3>2 DEF Released
  <2>4. QED
    BY <2>1, <2>2, <2>3 DEF Awaited
<1>7. QED
  BY <1>1, <1>2, <1>4, <1>5, <1>6 DEF DeliveryInv

(* The API changes no worker; a delete leaves nothing owed.                *)
LEMMA ApiDelivers ==
  ASSUME PipelineInv, DeliveryInv, TypeInv',
         \/ \E d \in Docs : ApiStep(d)
         \/ \E w \in Workers : LateDownload(w)
         \/ UNCHANGED vars
  PROVE  DeliveryInv'
<1>0. /\ status \in [Docs -> Status \cup {"gone"}] /\ copies \in [Docs -> Nat] /\ faults \in Nat
  BY DEF PipelineInv, TypeInv, TypeOK
<1>1. /\ UNCHANGED <<es, copies, vecQueue, job>> /\ docQueue \subseteq docQueue'
      /\ faults' \in {faults, faults + 1} /\ struck \subseteq struck'
      /\ \/ UNCHANGED <<status, chunks>>
         \/ \E d \in Docs : /\ status' = [status EXCEPT ![d] = "gone"]
                            /\ chunks' = {b \in chunks : b.doc # d}
  BY DEF ApiStep, PublishTask, PublishFails, Reprocess, DeleteObject, DeleteRows, DeleteAborts,
         LateDownload, Publish, Fail, Strike, vars, mysql, stores, broker, host, api, fault
<1>2. \A d \in Docs : \/ status'[d] = "gone"
                      \/ /\ status'[d] = status[d]
                         /\ \A b : b.doc = d => (b \in chunks' <=> b \in chunks)
  BY <1>0, <1>1
<1>3. \A d \in Docs : Exists(d)' => Exists(d) /\ (HasRows(d)' <=> HasRows(d))
  BY <1>2 DEF Exists, HasRows
<1>4. ReadyIsIndexed'
  BY <1>1, <1>2 DEF DeliveryInv, ReadyIsIndexed
<1>5. OneCarrier' /\ \A w \in Workers : Fits(job[w], es, struck)'
  BY <1>1 DEF DeliveryInv, OneCarrier, Fits, Carries
<1>6. CopiesOK'
  <2>1. \A d \in Docs : Due(d)' => Due(d)
    BY <1>1, <1>3 DEF Due
  <2>2. ASSUME NEW d \in Docs
        PROVE  copies'[d] <= 1 + faults' /\ (Due(d)' => copies'[d] <= faults')
    BY <1>0, <1>1, <2>1 DEF DeliveryInv, CopiesOK
  <2>3. QED
    BY <2>2 DEF CopiesOK
<1>7. ASSUME Reliable, NEW d \in Docs, Owed(d)' PROVE Awaited(d)'
  <2>1. Owed(d)
    BY <1>2, <1>3, <1>7 DEF Owed, Exists
  <2>2. Awaited(d)
    BY <1>7, <2>1 DEF DeliveryInv
  <2>3. QED
    BY <1>1, <2>2 DEF Awaited
<1>8. Reliable' => Reliable
  BY <1>1 DEF Reliable
<1>9. QED
  BY <1>4, <1>5, <1>6, <1>7, <1>8 DEF DeliveryInv

(* The steps of a task between its message and its commit, and those that  *)
(* end it.                                                                 *)
LEMMA TaskDelivers ==
  ASSUME PipelineInv, DeliveryInv, TypeInv', NEW w \in Workers,
         \/ Download(w) \/ Parse(w) \/ Flush(w) \/ IndexES(w) \/ Finish(w) \/ AckVectorize(w)
         \/ DownloadTimesOut(w) \/ IndexESFails(w) \/ SoftLimit(w) \/ SoftLimitEscapes(w)
         \/ (DispatchFails(w) /\ UNCHANGED vecQueue)
         \/ DbError(w) \/ VectorizeFails(w) \/ ChildLost(w)
  PROVE  DeliveryInv'
<1>0. /\ job \in [Workers -> Job] /\ job[w] \in Job /\ Consistent(job[w]) /\ Fits(job[w], es, struck)
      /\ faults \in Nat /\ job' \in [Workers -> Job] /\ job'[w] \in Job
  BY DEF PipelineInv, TypeInv, TypeOK, JobOK, DeliveryInv
<1>1. /\ UNCHANGED <<status, chunks, vecQueue, copies>> /\ docQueue \subseteq docQueue'
      /\ es \subseteq es' /\ faults <= faults' /\ struck \subseteq struck'
  BY <1>0 DEF Download, Parse, Flush, IndexES, Finish, AckVectorize, DownloadTimesOut,
     IndexESFails, DispatchFails, SoftLimit, SoftLimitEscapes, Publish, DbError,
     VectorizeFails, ChildLost, Fail, Broken, Strike, mysql, stores, broker, host, api, fault
<1>2. PICK j : j = job'[w]
  OBVIOUS
<1>3. job' = [job EXCEPT ![w] = j]
  BY <1>0, <1>2 DEF Download, Parse, Flush, IndexES, Finish, AckVectorize, DownloadTimesOut,
     IndexESFails, DispatchFails, SoftLimit, SoftLimitEscapes, DbError, VectorizeFails,
     ChildLost, Goto
<1>4. SUFFICES /\ Fits(j, es', struck')
               /\ (j.msg = job[w].msg /\ j.pc # "ending") \/ Released(w)
               /\ j.ids = None \/ (j.ids = job[w].ids /\ (job[w].pc = "stored" => j.pc = "stored"))
  BY <1>0, <1>1, <1>2, <1>3, WorkerMoves
<1>5. CASE Download(w)
  BY <1>0, <1>2, <1>5 DEF Download, Goto, Job, Fits
<1>6. CASE Parse(w)
  BY <1>0, <1>2, <1>6 DEF Parse, Goto, Job, Fits
<1>7. CASE Flush(w)
  <2>1. CASE /\ ~Exists(job[w].msg.doc) \/ HasRows(job[w].msg.doc)
             /\ Goto(w, "ending")
    <3>1. Released(w)
      BY <2>1 DEF Released, Owed, Exists
    <3>2. QED
      BY <1>0, <1>2, <1>7, <2>1, <3>1 DEF Flush, Goto, Job, Fits
  <2>2. CASE job' = [job EXCEPT ![w].pc = "flushed",
             ![w].pend = [gen |-> nextGen, doc |-> job[w].msg.doc, src |-> job[w].src]]
    BY <1>0, <1>2, <1>7, <2>2 DEF Flush, Job, Fits
  <2>3. QED
    BY <1>7, <2>1, <2>2 DEF Flush
<1>8. CASE IndexES(w)
  BY <1>0, <1>2, <1>8 DEF IndexES, Goto, Job, Fits
<1>9. CASE Finish(w)
  BY <1>0, <1>2, <1>9, IdleFits DEF Finish, Released
<1>10. CASE AckVectorize(w)
  <2>1. Released(w) /\ j = IdleJob
    BY <1>0, <1>2, <1>10 DEF AckVectorize, Released, Fits
  <2>2. QED
    BY <2>1, IdleFits
<1>11. CASE DownloadTimesOut(w)
  BY <1>0, <1>2, <1>11 DEF DownloadTimesOut, Goto, Job, Fits
<1>12. CASE IndexESFails(w)
  BY <1>0, <1>2, <1>12 DEF IndexESFails, Broken, Strike, Goto, Job, Fits
<1>13. CASE DispatchFails(w)
  BY <1>0, <1>2, <1>13 DEF DispatchFails, Job, Fits
<1>14. CASE SoftLimit(w)
  BY <1>0, <1>2, <1>14 DEF SoftLimit, Job, Fits
<1>15. CASE DbError(w)
  <2>1. Released(w)
    BY <1>15 DEF DbError, Broken, Strike, Released, Reliable
  <2>2. QED
    BY <1>0, <1>2, <1>15, <2>1 DEF DbError, Job, Fits
<1>16. CASE VectorizeFails(w)
  BY <1>0, <1>2, <1>16 DEF VectorizeFails, Goto, Job, Fits
<1>17. CASE ChildLost(w)
  <2>1. Released(w)
    BY <1>17 DEF ChildLost, Fail, Strike, Released, Reliable
  <2>2. QED
    BY <1>0, <1>2, <1>17, <2>1, IdleFits DEF ChildLost
<1>18. CASE SoftLimitEscapes(w)
  <2>1. Released(w)
    <3>1. CASE Publish(job[w].msg.doc)
      <4>1. \E m \in docQueue' : m.doc = job[w].msg.doc
        <5>1. [doc |-> job[w].msg.doc, n |-> sent] \in docQueue'
          BY <3>1 DEF Publish
        <5>2. QED
          BY <5>1
      <4>2. QED
        BY <4>1 DEF Released
    <3>2. CASE Strike("publish")
      BY <3>2 DEF Strike, Released, Reliable
    <3>3. QED
      BY <1>18, <3>1, <3>2 DEF SoftLimitEscapes
  <2>2. QED
    BY <1>0, <1>2, <1>18, <2>1, IdleFits DEF SoftLimitEscapes
<1>19. QED
  BY <1>18, <1>5, <1>6, <1>7, <1>8, <1>9, <1>10, <1>11, <1>12, <1>13, <1>14, <1>15, <1>16, <1>17

(* Taking a message: a delivery becomes the worker's.                      *)
LEMMA FetchDelivers ==
  ASSUME PipelineInv, DeliveryInv, TypeInv', NEW w \in Workers, Fetch(w)
  PROVE  DeliveryInv'
<1>0. /\ job \in [Workers -> Job] /\ Fits(job[w], es, struck) /\ job[w].pc = "idle"
      /\ UNCHANGED <<status, chunks, es, vecQueue, copies, faults, struck>>
      /\ docQueue \subseteq Message
  BY DEF PipelineInv, TypeInv, TypeOK, DeliveryInv, Fetch, mysql, stores, fault
<1>1. PICK m \in docQueue :
        /\ docQueue' = docQueue \ {m}
        /\ job' = [job EXCEPT ![w] =
             IF status[m.doc] \in {"gone", "ready"}
             THEN [IdleJob EXCEPT !.pc = "ending", !.msg = m]
             ELSE [IdleJob EXCEPT !.pc = "fetched", !.msg = m, !.seen = status[m.doc]]]
  BY DEF Fetch
<1>2. /\ job'[w].msg = m /\ job'[w].ids = None /\ job'[w].pc \in {"ending", "fetched"}
      /\ job'[w].pc = "ending" => status[m.doc] \in {"gone", "ready"}
      /\ \A v \in Workers \ {w} : job'[v] = job[v]
  BY <1>0, <1>1 DEF IdleJob
<1>3. \A v \in Workers : Fits(job'[v], es, struck)
  BY <1>0, <1>2 DEF DeliveryInv, Fits
<1>4. \A v \in Workers : \A d : Carries(job'[v], d) => Carries(job[v], d) /\ job'[v] = job[v]
  BY <1>2 DEF Carries
<1>5. OneCarrier'
  BY <1>0, <1>4 DEF DeliveryInv, OneCarrier
<1>6. CopiesOK'
  <2>1. \A d \in Docs : Due(d)' => Due(d)
    BY <1>0, <1>4 DEF Due, Exists, HasRows
  <2>2. QED
    BY <1>0, <2>1 DEF DeliveryInv, CopiesOK
<1>7. ASSUME Reliable, NEW d \in Docs, Owed(d)' PROVE Awaited(d)'
  <2>1. Owed(d) /\ Awaited(d)
    BY <1>0, <1>7 DEF DeliveryInv, Owed, HasRows
  <2>2. CASE m.doc = d
    <3>1. job'[w].pc # "ending" /\ m # None
      BY <1>0, <1>1, <1>2, <2>1, <2>2, PipelineAssumption DEF Owed
    <3>2. QED
      BY <1>2, <2>2, <3>1 DEF Awaited
  <2>3. CASE m.doc # d
    BY <1>0, <1>1, <1>2, <2>1, <2>3 DEF Awaited, Fits
  <2>4. QED
    BY <2>2, <2>3
<1>8. ReadyIsIndexed'
  BY <1>0 DEF DeliveryInv, ReadyIsIndexed
<1>9. QED
  BY <1>0, <1>3, <1>5, <1>6, <1>7, <1>8 DEF DeliveryInv, Reliable

(* A document is only owed what the worker that marks it delivers.         *)
LEMMA MarkDelivers ==
  ASSUME PipelineInv, DeliveryInv, TypeInv', NEW w \in Workers, MarkProcessing(w)
  PROVE  DeliveryInv'
<1> DEFINE d == job[w].msg.doc
<1>0. /\ job \in [Workers -> Job] /\ job[w] \in Job /\ Consistent(job[w]) /\ Fits(job[w], es, struck)
      /\ UNCHANGED <<chunks, es, copies, docQueue, vecQueue, faults, struck>> /\ job[w].pc = "fetched"
      /\ job' \in [Workers -> Job] /\ job'[w] \in Job /\ faults \in Nat
      /\ status \in [Docs -> Status \cup {"gone"}]
  BY DEF PipelineInv, TypeInv, TypeOK, JobOK, DeliveryInv, MarkProcessing, stores, broker, fault
<1>1. PICK j : j = job'[w]
  OBVIOUS
<1>2. /\ job' = [job EXCEPT ![w] = j] /\ j.msg = job[w].msg /\ j.ids = job[w].ids
      /\ j.pc \in {"marked", "ending"}
  BY <1>0, <1>1 DEF MarkProcessing, Goto, Job
<1>3. Fits(j, es, struck)
  BY <1>2 DEF Fits
<1>4. CASE UNCHANGED status /\ (j.pc = "ending" => ~Exists(d))
  <2>1. j.pc # "ending" \/ Released(w)
    BY <1>4 DEF Released, Owed, Exists
  <2>2. es \subseteq es' /\ faults <= faults' /\ Fits(j, es', struck')
    BY <1>0, <1>3
  <2>3. j \in Job /\ (j.ids = None \/ (j.ids = job[w].ids /\ (job[w].pc = "stored" => j.pc = "stored")))
    BY <1>0, <1>1, <1>2
  <2>4. QED
    BY <1>0, <1>2, <1>4, <2>1, <2>2, <2>3, WorkerMoves
<1>5. CASE status' = [status EXCEPT ![d] = "processing"] /\ Exists(d) /\ j.pc = "marked"
  <2>1. /\ job'[w] = j /\ \A v \in Workers \ {w} : job'[v] = job[v]
        /\ \A v \in Workers : Fits(job'[v], es, struck)
    BY <1>0, <1>2, <1>3 DEF DeliveryInv
  <2>2. \A c \in Docs : /\ Exists(c)' <=> Exists(c)
                        /\ HasRows(c)' <=> HasRows(c)
                        /\ status'[c] = status[c] \/ (c = d /\ status'[c] = "processing")
    BY <1>0, <1>5 DEF Exists, HasRows
  <2>3. \A v \in Workers : \A c : /\ Carries(job'[v], c) <=> Carries(job[v], c)
                                  /\ Carries(job[v], c) /\ job[v].pc = "stored" => job'[v].pc = "stored"
    BY <1>0, <1>2, <2>1 DEF Carries
  <2>4. OneCarrier'
    BY <1>0, <2>3 DEF DeliveryInv, OneCarrier
  <2>5. CopiesOK'
    <3>1. \A c \in Docs : Due(c)' => Due(c)
      BY <1>0, <2>2, <2>3 DEF Due
    <3>2. QED
      BY <1>0, <3>1 DEF DeliveryInv, CopiesOK
  <2>6. ASSUME Reliable, NEW c \in Docs, Owed(c)' PROVE Awaited(c)'
    <3>1. CASE c = d
      <4>1. job'[w].msg # None /\ job'[w].msg.doc = d /\ job'[w].pc # "ending"
        BY <1>0, <1>2, <1>5, <2>1, PipelineAssumption DEF Consistent
      <4>2. QED
        BY <3>1, <4>1 DEF Awaited
    <3>2. CASE c # d
      <4>1. Owed(c) /\ Awaited(c)
        BY <2>2, <2>6, <3>2 DEF DeliveryInv, Owed
      <4>2. QED
        BY <1>0, <1>2, <2>1, <3>2, <4>1 DEF Awaited
    <3>3. QED
      BY <3>1, <3>2
  <2>7. ReadyIsIndexed'
    BY <1>0, <2>2 DEF DeliveryInv, ReadyIsIndexed
  <2>8. QED
    BY <1>0, <2>1, <2>4, <2>5, <2>6, <2>7 DEF DeliveryInv, Reliable
<1>6. j.pc = (IF job[w].seen # "processing" /\ ~Exists(d) THEN "ending" ELSE "marked")
  BY <1>0, <1>1 DEF MarkProcessing, Goto, Job
<1>7. QED
  BY <1>4, <1>5, <1>6 DEF MarkProcessing

(* The commit of READY: the rows a document was owed, indexed, and their   *)
(* ids carried by nobody else, because there were no rows before.          *)
LEMMA CommitDelivers ==
  ASSUME PipelineInv, DeliveryInv, TypeInv', NEW w \in Workers, CommitReady(w)
  PROVE  DeliveryInv'
<1> DEFINE p == job[w].pend
           j == [job[w] EXCEPT !.pc = "committed", !.pend = None, !.ids = p]
<1>0. /\ job \in [Workers -> Job] /\ job[w] \in Job /\ Consistent(job[w]) /\ Fits(job[w], es, struck)
      /\ UNCHANGED <<es, copies, docQueue, vecQueue, faults, struck>> /\ job[w].pc = "indexed"
      /\ faults \in Nat /\ status \in [Docs -> Status \cup {"gone"}]
      /\ chunks' = chunks \cup {p} /\ status' = [status EXCEPT ![p.doc] = "ready"]
      /\ job' = [job EXCEPT ![w] = j]
  <2>1. /\ job \in [Workers -> Job] /\ job[w] \in Job /\ Consistent(job[w]) /\ Fits(job[w], es, struck)
        /\ faults \in Nat /\ status \in [Docs -> Status \cup {"gone"}]
    BY DEF PipelineInv, TypeInv, TypeOK, JobOK, DeliveryInv
  <2>2. QED
    BY <2>1 DEF CommitReady, stores, broker, fault
<1>1. /\ p \in Batch /\ p # None /\ p.doc \in Docs /\ p.doc = job[w].msg.doc
      /\ j.pc = "committed" /\ j.ids = p /\ j.msg = job[w].msg
  BY <1>0, PipelineAssumption DEF Consistent, Batch, Job
<1>2. /\ Exists(p.doc) /\ ~HasRows(p.doc)
      /\ \A b \in vecQueue : b.doc # p.doc
      /\ \A v \in Workers : ~Carries(job[v], p.doc)
  BY <1>1 DEF PipelineInv, PendingOK, VectorsOK, Settled, HasRows, Carries
<1>3. job'[w] = j /\ \A v \in Workers \ {w} : job'[v] = job[v]
  BY <1>0
<1> HIDE DEF j
<1>4. \A v \in Workers : Fits(job'[v], es, struck)
  BY <1>0, <1>1, <1>3 DEF DeliveryInv, Fits
<1>5. \A c \in Docs : /\ Exists(c)' => Exists(c)
                      /\ HasRows(c) => HasRows(c)'
                      /\ c # p.doc => status'[c] = status[c]
  BY <1>0, <1>1, <1>2 DEF Exists, HasRows
<1>6. OneCarrier'
  <2>1. \A v \in Workers : \A c : Carries(job'[v], c) => Carries(job[v], c) \/ (v = w /\ c = p.doc)
    BY <1>1, <1>3 DEF Carries
  <2>2. QED
    BY <1>0, <1>2, <2>1 DEF DeliveryInv, OneCarrier
<1>7. CopiesOK'
  <2>1. Due(p.doc)
    BY <1>2 DEF Due
  <2>2. \A c \in Docs : c # p.doc /\ Due(c)' => Due(c)
    BY <1>0, <1>1, <1>3, <1>5 DEF Due, Carries
  <2>3. QED
    BY <1>0, <2>1, <2>2 DEF DeliveryInv, CopiesOK
<1>8. ASSUME Reliable, NEW c \in Docs, Owed(c)' PROVE Awaited(c)'
  <2>1. c # p.doc /\ Owed(c) /\ Awaited(c)
    BY <1>0, <1>1, <1>5, <1>8 DEF DeliveryInv, Owed
  <2>2. QED
    BY <1>0, <1>1, <1>3, <2>1 DEF Awaited
<1>9. ReadyIsIndexed'
  <2>1. ASSUME "es" \notin struck, NEW c \in Docs, status'[c] = "ready"
        PROVE  \E b \in chunks' \cap es' : b.doc = c
    <3>1. CASE c = p.doc
      BY <1>0, <2>1, <3>1 DEF Fits
    <3>2. CASE c # p.doc
      BY <1>0, <1>5, <2>1, <3>2 DEF DeliveryInv, ReadyIsIndexed
    <3>3. QED
      BY <3>1, <3>2
  <2>2. QED
    BY <1>0, <2>1 DEF ReadyIsIndexed
<1>10. QED
  BY <1>0, <1>4, <1>6, <1>7, <1>8, <1>9 DEF DeliveryInv, Reliable

(* A failed document is owed nothing.                                      *)
LEMMA FailureDelivers ==
  ASSUME PipelineInv, DeliveryInv, TypeInv', NEW w \in Workers, HandleFailure(w)
  PROVE  DeliveryInv'
<1> DEFINE d == job[w].msg.doc
           j == [job[w] EXCEPT !.pc = "ending", !.pend = None]
<1>0. /\ job \in [Workers -> Job] /\ job[w] \in Job /\ Consistent(job[w]) /\ Fits(job[w], es, struck)
      /\ UNCHANGED <<es, copies, docQueue, vecQueue, faults, struck>> /\ job[w].pc = "failing"
      /\ faults \in Nat /\ status \in [Docs -> Status \cup {"gone"}]
      /\ job' = [job EXCEPT ![w] = j]
  <2>1. /\ job \in [Workers -> Job] /\ job[w] \in Job /\ Consistent(job[w]) /\ Fits(job[w], es, struck)
        /\ faults \in Nat /\ status \in [Docs -> Status \cup {"gone"}]
    BY DEF PipelineInv, TypeInv, TypeOK, JobOK, DeliveryInv
  <2>2. QED
    BY <2>1 DEF HandleFailure, stores, broker, fault
<1>1. j.pc = "ending" /\ j.ids = job[w].ids /\ j.msg = job[w].msg /\ d \in Docs
  BY <1>0 DEF Job, Consistent, Message
<1>2. job'[w] = j /\ \A v \in Workers \ {w} : job'[v] = job[v]
  BY <1>0
<1> HIDE DEF j
<1>3. /\ \A c \in Docs : c # d => status'[c] = status[c]
      /\ status'[d] # "processing" /\ chunks \subseteq chunks'
      /\ \A c \in Docs : status'[c] = "ready" => status[c] = "ready"
      /\ \A c \in Docs : Exists(c)' => Exists(c)
  BY <1>0, <1>1 DEF HandleFailure, Exists
<1>4. \A v \in Workers : Fits(job'[v], es, struck)
  BY <1>0, <1>1, <1>2 DEF DeliveryInv, Fits
<1>5. \A v \in Workers : \A c : /\ Carries(job'[v], c) <=> Carries(job[v], c)
                                /\ job[v].pc = "stored" => job'[v].pc = "stored"
  BY <1>0, <1>1, <1>2 DEF Carries
<1>6. OneCarrier'
  BY <1>0, <1>5 DEF DeliveryInv, OneCarrier
<1>7. CopiesOK'
  <2>1. \A c \in Docs : Due(c)' => Due(c)
    BY <1>0, <1>3, <1>5 DEF Due, HasRows
  <2>2. QED
    BY <1>0, <2>1 DEF DeliveryInv, CopiesOK
<1>8. ASSUME Reliable, NEW c \in Docs, Owed(c)' PROVE Awaited(c)'
  <2>1. c # d /\ Owed(c) /\ Awaited(c)
    BY <1>3, <1>8 DEF DeliveryInv, Owed, HasRows
  <2>2. QED
    BY <1>0, <1>1, <1>2, <2>1 DEF Awaited
<1>9. ReadyIsIndexed'
  BY <1>0, <1>3 DEF DeliveryInv, ReadyIsIndexed
<1>10. QED
  BY <1>0, <1>4, <1>6, <1>7, <1>8, <1>9 DEF DeliveryInv, Reliable

(* The ids pass from one carrier to the next, or to Milvus.                *)
LEMMA VectorsDeliver ==
  ASSUME PipelineInv, DeliveryInv, TypeInv', NEW w \in Workers,
         \/ Dispatch(w) \/ FetchVectorize(w) \/ StoreVectors(w)
         \/ (DispatchFails(w) /\ vecQueue' # vecQueue)
  PROVE  DeliveryInv'
<1>0. /\ job \in [Workers -> Job] /\ job[w] \in Job /\ Consistent(job[w]) /\ Fits(job[w], es, struck)
      /\ UNCHANGED <<status, chunks, es, docQueue>>
      /\ faults <= faults' /\ faults' \in Nat /\ struck \subseteq struck'
      /\ faults \in Nat /\ copies \in [Docs -> Nat]
      /\ vecQueue \subseteq Batch
  <2>1. /\ job \in [Workers -> Job] /\ job[w] \in Job /\ Consistent(job[w]) /\ Fits(job[w], es, struck)
        /\ faults \in Nat /\ copies \in [Docs -> Nat] /\ vecQueue \subseteq Batch
        /\ faults' \in Nat
    BY DEF PipelineInv, TypeInv, TypeOK, JobOK, DeliveryInv
  <2>2. /\ UNCHANGED <<status, chunks, es, docQueue>>
        /\ faults <= faults' /\ struck \subseteq struck'
    <3>1. CASE DispatchFails(w)
      BY <2>1, <3>1 DEF DispatchFails, Broken, Strike, mysql, stores
    <3>2. CASE Dispatch(w) \/ FetchVectorize(w) \/ StoreVectors(w)
      <4>1. UNCHANGED <<status, chunks, es, docQueue, faults, struck>>
        BY <3>2 DEF Dispatch, FetchVectorize, StoreVectors, mysql, stores, broker, fault
      <4>2. QED
        BY <2>1, <4>1
    <3>3. QED
      BY <3>1, <3>2
  <2>3. QED
    BY <2>1, <2>2
<1>1. ReadyIsIndexed' /\ (Reliable' => Reliable)
  BY <1>0 DEF DeliveryInv, ReadyIsIndexed, Reliable
<1>2. \A c \in Docs : (Exists(c)' <=> Exists(c)) /\ (HasRows(c)' <=> HasRows(c))
  BY <1>0 DEF Exists, HasRows
<1>3. CASE Dispatch(w) \/ (DispatchFails(w) /\ vecQueue' # vecQueue)
  <2> DEFINE b == job[w].ids
  <2>0. PICK j : /\ \E to \in {"ending", "failing"} : j = [job[w] EXCEPT !.pc = to, !.ids = None]
                 /\ job' = [job EXCEPT ![w] = j]
    BY <1>3 DEF Dispatch, DispatchFails
  <2>1. /\ job[w].pc = "committed" /\ b \in Batch /\ b # None /\ b.doc = job[w].msg.doc
        /\ b.doc \in Docs /\ vecQueue' = vecQueue \cup {b}
        /\ UNCHANGED copies
    BY <1>0, <1>3, PipelineAssumption
    DEF Dispatch, DispatchFails, Consistent, Fits, Batch, stores
  <2>2. j.pc \in {"ending", "failing"} /\ j.ids = None /\ j.msg = job[w].msg
    BY <1>0, <2>0 DEF Job
  <2>3. job'[w] = j /\ \A v \in Workers \ {w} : job'[v] = job[v]
    BY <1>0, <2>0
  <2>4. \A v \in Workers : Fits(job'[v], es', struck')
    BY <1>0, <2>2, <2>3 DEF DeliveryInv, Fits
  <2>5. \A v \in Workers : \A c : Carries(job'[v], c) => v # w /\ Carries(job[v], c) /\ job'[v] = job[v]
    BY <2>2, <2>3 DEF Carries
  <2>6. Carries(job[w], b.doc)
    BY <2>1 DEF Carries
  <2>7. OneCarrier'
    BY <1>0, <2>1, <2>5, <2>6 DEF DeliveryInv, OneCarrier
  <2>8. CopiesOK'
    <3>1. Due(b.doc)
      BY <2>1, <2>6 DEF Due
    <3>2. \A c \in Docs : c # b.doc /\ Due(c)' => Due(c)
      BY <1>2, <2>1, <2>5 DEF Due
    <3>3. QED
      BY <1>0, <2>1, <3>1, <3>2 DEF DeliveryInv, CopiesOK
  <2>9. ASSUME Reliable, NEW c \in Docs, Owed(c)' PROVE Awaited(c)'
    <3>1. Owed(c) /\ Awaited(c)
      BY <1>0, <1>2, <2>9 DEF DeliveryInv, Owed
    <3>2. c # job[w].msg.doc
      <4>1. Exists(b.doc) => HasRows(b.doc)
        BY <2>1 DEF PipelineInv, VectorsOK, Settled, HasRows
      <4>2. QED
        BY <2>1, <3>1, <4>1 DEF Owed, Exists
    <3>3. QED
      BY <1>0, <2>2, <2>3, <3>1, <3>2 DEF Awaited
  <2>10. QED
    BY <1>0, <1>1, <2>4, <2>7, <2>8, <2>9 DEF DeliveryInv
<1>4. CASE FetchVectorize(w)
  <2>1. PICK b \in vecQueue :
          /\ vecQueue' = vecQueue \ {b}
          /\ \/ job' = [job EXCEPT ![w] = [IdleJob EXCEPT !.pc = "embedding", !.ids = b]]
             \/ job' = job
    BY <1>4 DEF FetchVectorize
  <2>2. b.doc \in Docs /\ job[w].msg = None /\ UNCHANGED copies
    BY <1>0, <1>4 DEF FetchVectorize, Fits, Batch, stores
  <2>3. \A v \in Workers :
          \/ job'[v] = job[v]
          \/ /\ v = w /\ job'[v].pc = "embedding" /\ job'[v].msg = None /\ job'[v].ids = b
    BY <1>0, <2>1 DEF IdleJob
  <2>4. \A v \in Workers : Fits(job'[v], es', struck')
    BY <1>0, <2>3 DEF DeliveryInv, Fits
  <2>5. \A v \in Workers : \A c : Carries(job'[v], c) =>
          \/ Carries(job[v], c) /\ job'[v] = job[v]
          \/ v = w /\ c = b.doc
    BY <2>3 DEF Carries
  <2>6. OneCarrier'
    BY <1>0, <2>1, <2>5 DEF DeliveryInv, OneCarrier
  <2>7. CopiesOK'
    <3>1. Due(b.doc)
      BY DEF Due
    <3>2. \A c \in Docs : c # b.doc /\ Due(c)' => Due(c)
      BY <1>2, <2>1, <2>5 DEF Due
    <3>3. QED
      BY <1>0, <2>2, <3>1, <3>2 DEF DeliveryInv, CopiesOK
  <2>8. ASSUME Reliable, NEW c \in Docs, Owed(c)' PROVE Awaited(c)'
    <3>1. Awaited(c)
      BY <1>0, <1>2, <2>8 DEF DeliveryInv, Owed
    <3>2. QED
      BY <1>0, <2>2, <2>3, <3>1 DEF Awaited
  <2>9. QED
    BY <1>0, <1>1, <2>4, <2>6, <2>7, <2>8 DEF DeliveryInv
<1>5. CASE StoreVectors(w)
  <2> DEFINE b == job[w].ids
             j == [job[w] EXCEPT !.pc = "stored"]
  <2>1. /\ job[w].pc = "embedding" /\ b \in Batch /\ b # None /\ b.doc \in Docs
        /\ job' = [job EXCEPT ![w] = j] /\ UNCHANGED vecQueue
        /\ copies' = [copies EXCEPT ![b.doc] = @ + 1]
    BY <1>0, <1>5, PipelineAssumption DEF StoreVectors, Goto, Consistent, Batch, broker
  <2>2. j.pc = "stored" /\ j.ids = b /\ j.msg = job[w].msg
    BY <1>0 DEF Job
  <2>3. job'[w] = j /\ \A v \in Workers \ {w} : job'[v] = job[v]
    BY <1>0, <2>1
  <2> HIDE DEF j
  <2>4. \A v \in Workers : Fits(job'[v], es', struck')
    BY <1>0, <2>1, <2>2, <2>3 DEF DeliveryInv, Fits
  <2>5. \A v \in Workers : \A c : Carries(job'[v], c) <=> Carries(job[v], c)
    BY <2>2, <2>3 DEF Carries
  <2>6. Carries(job[w], b.doc)
    BY <2>1 DEF Carries
  <2>7. OneCarrier'
    BY <2>1, <2>5 DEF DeliveryInv, OneCarrier
  <2>8. CopiesOK'
    <3>1. Due(b.doc)
      BY <2>1, <2>6 DEF Due
    <3>2. ASSUME NEW c \in Docs, c = b.doc PROVE ~Due(c)'
      <4>1. \A a \in vecQueue : a.doc # b.doc
        BY <2>6 DEF DeliveryInv, OneCarrier
      <4>2. \A v \in Workers : Carries(job'[v], b.doc) => v = w
        BY <2>1, <2>5, <2>6 DEF DeliveryInv, OneCarrier
      <4>3. Exists(b.doc) => HasRows(b.doc)
        BY <2>1 DEF PipelineInv, VectorsOK, Settled, HasRows
      <4>4. QED
        BY <1>2, <2>1, <2>2, <2>3, <3>2, <4>1, <4>2, <4>3 DEF Due
    <3>3. \A c \in Docs : c # b.doc /\ Due(c)' => Due(c)
      BY <1>2, <2>1, <2>2, <2>3, <2>5 DEF Due, Carries
    <3>4. copies[b.doc] <= faults
      BY <2>1, <3>1 DEF DeliveryInv, CopiesOK
    <3>5. ASSUME NEW c \in Docs
          PROVE  copies'[c] <= 1 + faults' /\ (Due(c)' => copies'[c] <= faults')
      <4>1. CASE c = b.doc
        <5>1. copies'[c] = copies[c] + 1 /\ copies[c] \in Nat /\ copies[c] <= faults
          BY <1>0, <2>1, <3>4, <4>1
        <5>2. ~Due(c)'
          BY <3>2, <4>1
        <5>3. QED
          BY <1>0, <5>1, <5>2
      <4>2. CASE c # b.doc
        BY <1>0, <2>1, <3>3, <4>2 DEF DeliveryInv, CopiesOK
      <4>3. QED
        BY <4>1, <4>2
    <3>6. QED
      BY <3>5 DEF CopiesOK
  <2>9. ASSUME Reliable, NEW c \in Docs, Owed(c)' PROVE Awaited(c)'
    <3>1. Awaited(c)
      BY <1>0, <1>2, <2>9 DEF DeliveryInv, Owed
    <3>2. QED
      BY <1>0, <2>1, <2>2, <2>3, <3>1 DEF Awaited
  <2>10. QED
    BY <1>0, <1>1, <2>4, <2>7, <2>8, <2>9 DEF DeliveryInv
<1>6. QED
  BY <1>3, <1>4, <1>5

(* A commit that is carried out and not answered: nothing is promised any  *)
(* more about deliveries, and the rows, if they are committed, are indexed *)
(* and carried by nobody.                                                  *)
LEMMA UnansweredDelivers ==
  ASSUME PipelineInv, DeliveryInv, TypeInv', NEW w \in Workers, CommitUnanswered(w)
  PROVE  DeliveryInv'
<1> DEFINE d == job[w].msg.doc
           p == job[w].pend
           j == [job[w] EXCEPT !.pc = "ending", !.pend = None]
<1>0. /\ job \in [Workers -> Job] /\ job[w] \in Job /\ Consistent(job[w]) /\ Fits(job[w], es, struck)
      /\ UNCHANGED <<es, copies, docQueue, vecQueue>>
      /\ faults \in Nat /\ faults' = faults + 1 /\ struck' = struck \cup {"db"}
      /\ status \in [Docs -> Status \cup {"gone"}] /\ copies \in [Docs -> Nat]
      /\ job' = [job EXCEPT ![w] = j]
  <2>1. /\ job \in [Workers -> Job] /\ job[w] \in Job /\ Consistent(job[w]) /\ Fits(job[w], es, struck)
        /\ faults \in Nat /\ status \in [Docs -> Status \cup {"gone"}] /\ copies \in [Docs -> Nat]
    BY DEF PipelineInv, TypeInv, TypeOK, JobOK, DeliveryInv
  <2>2. QED
    BY <2>1 DEF CommitUnanswered, Broken, Strike, stores, broker
<1>1. j.pc = "ending" /\ j.ids = job[w].ids /\ j.msg = job[w].msg
  BY <1>0 DEF Job
<1>2. job'[w] = j /\ \A v \in Workers \ {w} : job'[v] = job[v]
  BY <1>0
<1> HIDE DEF j
<1>3. /\ \A c \in Docs : Exists(c)' => Exists(c)
      /\ chunks \subseteq chunks'
      /\ \A c \in Docs : status'[c] = "ready" =>
           \/ status[c] = "ready"
           \/ job[w].pc = "indexed" /\ p.doc = c /\ p \in chunks'
  <2>1. CASE /\ job[w].pc = "fetched" /\ Exists(d)
             /\ status' = [status EXCEPT ![d] = "processing"]
             /\ UNCHANGED <<chunks, chunkCount>>
    BY <1>0, <2>1 DEF Exists
  <2>2. CASE /\ job[w].pc = "indexed"
             /\ chunks' = chunks \cup {p}
             /\ status' = [status EXCEPT ![d] = "ready"]
    <3>1. p \in Batch /\ p # None /\ p.doc = d /\ d \in Docs
      BY <1>0, <2>2, PipelineAssumption DEF Consistent, Batch
    <3>2. Exists(d)
      BY <3>1 DEF PipelineInv, PendingOK
    <3>3. QED
      BY <1>0, <2>2, <3>1, <3>2 DEF Exists
  <2>3. QED
    BY <2>1, <2>2 DEF CommitUnanswered
<1>4. \A v \in Workers : Fits(job'[v], es', struck')
  BY <1>0, <1>1, <1>2 DEF DeliveryInv, Fits
<1>5. \A v \in Workers : \A c : /\ Carries(job'[v], c) <=> Carries(job[v], c)
                                /\ job[v].pc = "stored" => job'[v].pc = "stored"
  BY <1>0, <1>1, <1>2 DEF Carries, CommitUnanswered
<1>6. OneCarrier'
  BY <1>0, <1>5 DEF DeliveryInv, OneCarrier
<1>7. CopiesOK'
  <2>1. \A c \in Docs : Due(c)' => Due(c)
    BY <1>0, <1>3, <1>5 DEF Due, HasRows
  <2>2. QED
    BY <1>0, <2>1 DEF DeliveryInv, CopiesOK
<1>8. ~Reliable'
  BY <1>0 DEF Reliable
<1>9. ReadyIsIndexed'
  <2>1. ASSUME "es" \notin struck', NEW c \in Docs, status'[c] = "ready"
        PROVE  \E b \in chunks' \cap es' : b.doc = c
    BY <1>0, <1>3, <2>1 DEF DeliveryInv, ReadyIsIndexed, Fits
  <2>2. QED
    BY <2>1 DEF ReadyIsIndexed
<1>10. QED
  BY <1>4, <1>6, <1>7, <1>8, <1>9 DEF DeliveryInv

(* A crash of the host puts every delivery and every carried id back.      *)
LEMMA CrashDelivers ==
  ASSUME PipelineInv, DeliveryInv, TypeInv', WorkerDown
  PROVE  DeliveryInv'
<1>0. /\ UNCHANGED <<status, chunks, es, copies>> /\ faults' = faults + 1 /\ faults \in Nat
      /\ struck \subseteq struck'
      /\ copies \in [Docs -> Nat]
      /\ docQueue' = docQueue \cup ({job[w].msg : w \in Workers} \ {None})
      /\ vecQueue' = vecQueue \cup
           {job[w].ids : w \in {v \in Workers : job[v].pc \in {"embedding", "stored"}}}
      /\ job' = [w \in Workers |-> IdleJob]
      /\ \A w \in Workers : Consistent(job[w])
  BY DEF WorkerDown, Fail, Strike, mysql, stores, PipelineInv, TypeInv, TypeOK, JobOK
<1>1. \A w \in Workers : job'[w] = IdleJob
  BY <1>0
<1>2. \A w \in Workers : \A c : ~Carries(job'[w], c)
  BY <1>1, IdleFits DEF Carries
<1>3. \A w \in Workers : Fits(job'[w], es', struck')
  BY <1>1, IdleFits
<1>4. \A w \in Workers : job[w].pc \in {"embedding", "stored"} => Carries(job[w], job[w].ids.doc)
                                                              /\ job[w].ids \in Batch
  BY <1>0, PipelineAssumption DEF Consistent, Carries
<1>5. OneCarrier'
  <2>1. ASSUME NEW a \in vecQueue', NEW b \in vecQueue', a.doc = b.doc PROVE a = b
    <3>1. CASE a \in vecQueue /\ b \in vecQueue
      BY <2>1, <3>1 DEF DeliveryInv, OneCarrier
    <3>2. CASE a \notin vecQueue
      <4>1. PICK w \in Workers : job[w].pc \in {"embedding", "stored"} /\ a = job[w].ids
        BY <1>0, <3>2
      <4>2. Carries(job[w], b.doc) /\ b.doc \in Docs
        BY <1>4, <2>1, <4>1 DEF Batch
      <4>3. PICK v \in Workers : job[v].pc \in {"embedding", "stored"} /\ b = job[v].ids
        BY <1>0, <4>2 DEF DeliveryInv, OneCarrier
      <4>4. QED
        BY <1>4, <4>1, <4>2, <4>3 DEF DeliveryInv, OneCarrier
    <3>3. CASE b \notin vecQueue
      <4>1. PICK w \in Workers : job[w].pc \in {"embedding", "stored"} /\ b = job[w].ids
        BY <1>0, <3>3
      <4>2. Carries(job[w], a.doc) /\ a.doc \in Docs
        BY <1>4, <2>1, <4>1 DEF Batch
      <4>3. PICK v \in Workers : job[v].pc \in {"embedding", "stored"} /\ a = job[v].ids
        BY <1>0, <4>2 DEF DeliveryInv, OneCarrier
      <4>4. QED
        BY <1>4, <4>1, <4>2, <4>3 DEF DeliveryInv, OneCarrier
    <3>4. QED
      BY <3>1, <3>2, <3>3
  <2>2. QED
    BY <1>2, <2>1 DEF OneCarrier
<1>6. CopiesOK'
  BY <1>0 DEF DeliveryInv, CopiesOK
<1>7. ASSUME Reliable, NEW d \in Docs, Owed(d)' PROVE Awaited(d)'
  <2>1. Awaited(d)
    BY <1>0, <1>7 DEF DeliveryInv, Owed, HasRows
  <2>2. QED
    BY <1>0, <2>1 DEF Awaited
<1>8. ReadyIsIndexed' /\ (Reliable' => Reliable)
  BY <1>0 DEF DeliveryInv, ReadyIsIndexed, Reliable
<1>9. QED
  BY <1>3, <1>5, <1>6, <1>7, <1>8 DEF DeliveryInv

(* Both invariants hold in every reachable state.                          *)
THEOREM DeliverySafe == Spec => [](PipelineInv /\ DeliveryInv)
<1>1. PipelineInv /\ DeliveryInv /\ [Next]_vars => DeliveryInv'
  <2> SUFFICES ASSUME PipelineInv, DeliveryInv, [Next]_vars PROVE DeliveryInv'
    OBVIOUS
  <2>1. TypeInv'
    BY TypeNext DEF PipelineInv
  <2>2. CASE (\E d \in Docs : ApiStep(d)) \/ UNCHANGED vars
    BY <2>1, <2>2, ApiDelivers
  <2>3. ASSUME NEW w \in Workers, ProcessStep(w) PROVE DeliveryInv'
    BY <2>1, <2>3, FetchDelivers, MarkDelivers, TaskDelivers, CommitDelivers, VectorsDeliver,
       FailureDelivers DEF ProcessStep
  <2>4. ASSUME NEW w \in Workers, VectorizeStep(w) \/ LateDownload(w) \/ FaultStep(w)
        PROVE  DeliveryInv'
    BY <2>1, <2>4, ApiDelivers, TaskDelivers, VectorsDeliver, UnansweredDelivers
    DEF VectorizeStep, FaultStep
  <2>5. CASE WorkerDown
    BY <2>1, <2>5, CrashDelivers
  <2>6. QED
    BY <2>2, <2>3, <2>4, <2>5 DEF Next
<1>2. QED
  BY <1>1, DeliveryInit, PipelineSafe, PTL DEF Spec

(* Milvus holds the vectors of a document once, and once more at most for  *)
(* every failure there has been.                                           *)
THEOREM CopiesAreBounded == Spec => []CopiesBounded
<1>1. DeliveryInv => CopiesBounded
  BY DEF DeliveryInv, CopiesOK, CopiesBounded
<1>2. QED
  BY <1>1, DeliverySafe, PTL

(* A READY document can be found by full text unless a call to             *)
(* Elasticsearch failed or was interrupted by the soft limit.              *)
THEOREM ReadyAreIndexed == Spec => []ReadyIsIndexed
<1>1. DeliveryInv => ReadyIsIndexed
  BY DEF DeliveryInv
<1>2. QED
  BY <1>1, DeliverySafe, PTL

(* While no call to the database or the broker fails or is interrupted and *)
(* no child is killed, a document in PROCESSING has its rows or a delivery *)
(* of its task, soft limits elsewhere included.                            *)
THEOREM ProcessingIsDelivered == Spec => []AbandonedHasRows
<1>1. DeliveryInv => AbandonedHasRows
  BY DEF DeliveryInv, AbandonedHasRows, Reliable, Owed, Awaited, InFlight
<1>2. QED
  BY <1>1, DeliverySafe, PTL

-----------------------------------------------------------------------------
(***************************************************************************)
(* DocumentPipeline implements DocumentCatalog: the steps of the workers,  *)
(* the broker, the failures and the API are stutters or steps of the       *)
(* catalogue.                                                              *)
(***************************************************************************)
LEMMA CatalogInit == Init => Catalog!Init
BY DEF Init, Catalog!Init

(* The catalogue does not see a quiet step.                                *)
LEMMA QuietIsStutter == Quiet => UNCHANGED Catalog!vars
BY DEF Quiet, Catalog!vars

(* Every other step is a step of the catalogue, or does not change what it *)
(* shows.                                                                  *)
LEMMA CatalogStep ==
  ASSUME PipelineInv, Next PROVE Catalog!Next \/ UNCHANGED Catalog!vars
<1> /\ TypeInv
    /\ job \in [Workers -> Job]
    /\ status \in [Docs -> Status \cup {"gone"}]
  BY DEF PipelineInv, TypeInv, TypeOK
<1>1. ASSUME NEW d \in Docs, ApiStep(d)
      PROVE  Catalog!Next \/ UNCHANGED Catalog!vars
  <2>1. CASE DeleteRows(d)
    <3>1. CASE Exists(d)
      <4>1. Catalog!Delete(d)
        BY <2>1, <3>1 DEF DeleteRows, Catalog!Delete, Catalog!Exists, Exists, stores
      <4>2. QED
        BY <4>1 DEF Catalog!Next
    <3>2. CASE ~Exists(d)
      <4>1. status' = status /\ chunks' = chunks
        BY <2>1, <3>2 DEF DeleteRows, Exists, PipelineInv, NoOrphanRows
      <4>2. QED
        BY <2>1, <4>1 DEF DeleteRows, Catalog!vars, stores
    <3>3. QED
      BY <3>1, <3>2
  <2>2. CASE ~DeleteRows(d)
    BY <1>1, <2>2, QuietApi, QuietIsStutter DEF ApiStep
  <2>3. QED
    BY <2>1, <2>2
<1>2. ASSUME NEW w \in Workers, MarkProcessing(w)
      PROVE  Catalog!Next \/ UNCHANGED Catalog!vars
  <2> DEFINE d == job[w].msg.doc
  <2>1. d \in Docs
    BY <1>2 DEF MarkProcessing, TypeInv, JobOK, Consistent, Message
  <2>2. Catalog!SetStatus(d) \/ UNCHANGED Catalog!vars
    BY <1>2 DEF MarkProcessing, Catalog!SetStatus, Catalog!Exists, Exists,
                Catalog!vars, stores
  <2>3. QED
    BY <2>1, <2>2 DEF Catalog!Next
<1>3. ASSUME NEW w \in Workers, CommitReady(w)
      PROVE  Catalog!Next
  <2> DEFINE p == job[w].pend
  <2>1. p \in Batch /\ p # None /\ p.doc \in Docs
    BY <1>3, PipelineAssumption
    DEF CommitReady, TypeInv, JobOK, Consistent, Batch
  <2>2. Catalog!Exists(p.doc) /\ Catalog!Empty(p.doc)
    BY <2>1 DEF PipelineInv, PendingOK, Catalog!Exists, Catalog!Empty, Exists
  <2>3. Catalog!Complete(p.doc)
    BY <1>3, <2>1, <2>2
    DEF CommitReady, Catalog!Complete, Catalog!Adds, Catalog!Batch, Batch, stores
  <2>4. QED
    BY <2>1, <2>3 DEF Catalog!Next
<1>4. ASSUME NEW w \in Workers, HandleFailure(w)
      PROVE  Catalog!Next \/ UNCHANGED Catalog!vars
  <2> DEFINE p == job[w].pend
             d == job[w].msg.doc
  <2>1. /\ d \in Docs
        /\ p # None => p \in Batch /\ p.doc = d
    BY <1>4 DEF HandleFailure, TypeInv, JobOK, Consistent, Message, Job
  <2>2. CASE ~Exists(d)
    BY <1>4, <2>2 DEF HandleFailure, Catalog!vars, stores
  <2>3. CASE Exists(d) /\ p = None
    <3>1. Catalog!SetStatus(d)
      BY <1>4, <2>3 DEF HandleFailure, Catalog!SetStatus, Catalog!Exists, Exists, stores
    <3>2. QED
      BY <2>1, <3>1 DEF Catalog!Next
  <2>4. CASE Exists(d) /\ p # None
    <3>1. Catalog!Exists(d) /\ Catalog!Empty(d)
      BY <2>1, <2>4 DEF PipelineInv, PendingOK, Catalog!Exists, Catalog!Empty, Exists
    <3>2. Catalog!Salvage(d)
      BY <1>4, <2>1, <2>4, <3>1
      DEF HandleFailure, Catalog!Salvage, Catalog!Adds, Catalog!Batch, Batch, stores
    <3>3. QED
      BY <2>1, <3>2 DEF Catalog!Next
  <2>5. QED
    BY <2>2, <2>3, <2>4
<1>5. ASSUME NEW w \in Workers, StoreVectors(w)
      PROVE  Catalog!Next
  <2> DEFINE b == job[w].ids
  <2>1. b # None /\ Settled(b)
    BY <1>5, PipelineAssumption
    DEF StoreVectors, PipelineInv, VectorsOK, TypeInv, JobOK, Consistent
  <2>2. Catalog!Embed(b) /\ b \in vectors'
    BY <1>5, <2>1
    DEF StoreVectors, Catalog!Embed, Catalog!Exists, Exists, Settled, mysql
  <2>3. QED
    BY <2>2 DEF Catalog!Next
<1>9. ASSUME NEW w \in Workers, CommitUnanswered(w)
      PROVE  Catalog!Next
  <2> DEFINE p == job[w].pend
             d == job[w].msg.doc
  <2>1. d \in Docs
    BY <1>9 DEF CommitUnanswered, TypeInv, JobOK, Consistent, Message
  <2>2. CASE job[w].pc = "fetched"
    <3>1. Catalog!SetStatus(d)
      BY <1>9, <2>2 DEF CommitUnanswered, Catalog!SetStatus, Catalog!Exists, Exists, stores
    <3>2. QED
      BY <2>1, <3>1 DEF Catalog!Next
  <2>3. CASE job[w].pc = "indexed"
    <3>1. p \in Batch /\ p # None /\ p.doc = d
      BY <2>3, PipelineAssumption DEF TypeInv, JobOK, Consistent
    <3>2. Catalog!Exists(d) /\ Catalog!Empty(d)
      BY <3>1 DEF PipelineInv, PendingOK, Catalog!Exists, Catalog!Empty, Exists
    <3>3. Catalog!Complete(d)
      BY <1>9, <2>3, <3>1, <3>2
      DEF CommitUnanswered, Catalog!Complete, Catalog!Adds, Catalog!Batch, Batch, stores
    <3>4. QED
      BY <2>1, <3>3 DEF Catalog!Next
  <2>4. QED
    BY <1>9, <2>2, <2>3 DEF CommitUnanswered
<1>6. ASSUME NEW w \in Workers, Flush(w)
      PROVE  UNCHANGED Catalog!vars
  BY <1>6 DEF Flush, mysql, stores, Catalog!vars
<1>7. CASE WorkerDown
  BY <1>7, QuietCrash, QuietIsStutter
<1>8. QED
  BY <1>1, <1>2, <1>3, <1>4, <1>5, <1>6, <1>7, <1>9, QuietWorker, QuietIsStutter
  DEF Next, ProcessStep, VectorizeStep

(* The pipeline implements the catalogue, whatever is redelivered, crashes *)
(* or fails.                                                               *)
THEOREM ImplementsCatalog == Spec => CatalogSpec
<1>1. PipelineInv /\ [Next]_vars => [Catalog!Next]_(Catalog!vars)
  <2>1. UNCHANGED vars => UNCHANGED Catalog!vars
    BY DEF vars, mysql, stores, Catalog!vars
  <2>2. QED
    BY <2>1, CatalogStep
<1>2. QED
  BY <1>1, CatalogInit, PipelineSafe, PTL DEF Spec, CatalogSpec, Catalog!Spec

=============================================================================
