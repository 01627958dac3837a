--------------------------- MODULE UploadContract ---------------------------
(***************************************************************************)
(* What a chunked upload promises, without requests, Redis or crashes:     *)
(* parts become durable one at a time; once every expected part is durable *)
(* the object may be assembled, once, from durable parts; after that one   *)
(* document, and no second one, is recorded for it.                        *)
(***************************************************************************)
EXTENDS Naturals

CONSTANTS Uploads, Parts(_), Expected(_)

VARIABLES
  durable,  \* durable[u]: parts the storage holds for upload u
  object,   \* object[u]: parts the object of u was assembled from, {} if none
  docs      \* uploads with a document row

vars == <<durable, object, docs>>

Init ==
  /\ durable = [u \in Uploads |-> {}]
  /\ object = [u \in Uploads |-> {}]
  /\ docs = {}

Receive(u) ==
  /\ object[u] = {}
  /\ \E p \in Parts(u) : durable' = [durable EXCEPT ![u] = @ \cup {p}]
  /\ UNCHANGED <<object, docs>>

Assemble(u) ==
  /\ object[u] = {}
  /\ 1..Expected(u) \subseteq durable[u]
  /\ \E S \in (SUBSET durable[u]) \ {{}} : object' = [object EXCEPT ![u] = S]
  /\ UNCHANGED <<durable, docs>>

Document(u) ==
  /\ object[u] # {}
  /\ u \notin docs
  /\ docs' = docs \cup {u}
  /\ UNCHANGED <<durable, object>>

Next == \E u \in Uploads : Receive(u) \/ Assemble(u) \/ Document(u)

Spec == Init /\ [][Next]_vars

=============================================================================
