-------------------------- MODULE DocumentCatalog ---------------------------
(***************************************************************************)
(* What the processing of documents promises to everything that reads its  *)
(* results (lists, chunk viewer, search): the status, the chunk count and  *)
(* the chunk rows of each document, and the vectors made from those rows.  *)
(* Workers, queues, retries and failures are not visible here.             *)
(***************************************************************************)
EXTENDS Naturals

CONSTANTS Docs, NumChunks, UploadParts

VARIABLES status, chunkCount, chunks, vectors

vars == <<status, chunkCount, chunks, vectors>>

(* A batch of chunk rows: the document they belong to, the stored object   *)
(* their text came from, and a number that tells batches apart.            *)
Batch == [gen: Nat, doc: Docs, src: Docs]

(* The step adds batch b of document d to the rows.                        *)
Adds(b, d) == b \in Batch /\ b.doc = d /\ chunks' = chunks \cup {b}

Exists(d) == status[d] # "gone"

Empty(d) == \A b \in chunks : b.doc # d

Init ==
  /\ status = [d \in Docs |-> "uploading"]
  /\ chunkCount = UploadParts
  /\ chunks = {}
  /\ vectors = {}

(* Processing starts or fails: nothing but the status changes.             *)
SetStatus(d) ==
  /\ Exists(d)
  /\ \E s \in {"processing", "failed"} : status' = [status EXCEPT ![d] = s]
  /\ UNCHANGED <<chunkCount, chunks, vectors>>

(* A document without chunks gets all of them, their number and READY in   *)
(* one step.                                                               *)
Complete(d) ==
  /\ Exists(d)
  /\ Empty(d)
  /\ \E b \in chunks' :
       /\ Adds(b, d)
       /\ chunkCount' = [chunkCount EXCEPT ![d] = NumChunks[b.src]]
  /\ status' = [status EXCEPT ![d] = "ready"]
  /\ UNCHANGED vectors

(* Processing was interrupted between the rows and READY: the document has *)
(* failed, yet its rows are kept.                                          *)
Salvage(d) ==
  /\ Exists(d)
  /\ Empty(d)
  /\ \E b \in chunks' : Adds(b, d)
  /\ status' = [status EXCEPT ![d] = "failed"]
  /\ UNCHANGED <<chunkCount, vectors>>

(* Vectors are added for the rows a document has now, or for a document    *)
(* that was deleted meanwhile.                                             *)
Embed(b) ==
  /\ b \in chunks \/ ~Exists(b.doc)
  /\ vectors' = vectors \cup {b}
  /\ UNCHANGED <<status, chunkCount, chunks>>

(* A document goes together with its rows, and never comes back.           *)
Delete(d) ==
  /\ Exists(d)
  /\ status' = [status EXCEPT ![d] = "gone"]
  /\ chunks' = {b \in chunks : b.doc # d}
  /\ UNCHANGED <<chunkCount, vectors>>

Next ==
  \/ \E d \in Docs : SetStatus(d) \/ Complete(d) \/ Salvage(d) \/ Delete(d)
  \/ \E b \in vectors' : Embed(b)

Spec == Init /\ [][Next]_vars

=============================================================================
