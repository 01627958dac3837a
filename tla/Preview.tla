------------------------------ MODULE Preview ------------------------------
(***************************************************************************)
(* The preview of documents, api_preview_document of                       *)
(* backend/app/api/v1/documents.py: a request checks the row, asks MinIO   *)
(* for the object's size, leaves a task behind that logs the access in     *)
(* Redis, and streams the object or a byte range of it, while owners       *)
(* change the visibility of documents and delete them.                     *)
(*                                                                         *)
(* A document's object never changes, it is only removed: what is streamed *)
(* is an interval of its bytes, numbered from 0.                           *)
(*                                                                         *)
(* An operator introduced by "Mutant:" is no part of the model.            *)
(***************************************************************************)
EXTENDS Integers, Sequences, FiniteSets, SequencesExt

CONSTANTS
  Documents, Readers, Previews, \* documents, users, requests
  OwnerOf,  \* OwnerOf[d]: the user who owns document d
  Size,     \* bytes of an object
  RangesOf, \* RangesOf[p]: the Range headers request p may carry
  NoRange,  \* no Range header, or one that is not "bytes=N-" or "bytes=N-M"
  MaxLog    \* accesses kept per document (100)

Open == -1 \* the end of a range "bytes=N-"
Ranges == [from : Nat, to : Nat \cup {Open}] \cup {NoRange}

ASSUME PreviewAssumption ==
  /\ OwnerOf \in [Documents -> Readers]
  /\ Size \in Nat \ {0} /\ MaxLog \in Nat \ {0}
  /\ IsFiniteSet(Previews)
  /\ \A p \in Previews : RangesOf[p] \subseteq Ranges

VARIABLES
  row,      \* row[d]: "private", "public" or "gone"
  object,   \* documents whose object MinIO holds
  preview,  \* preview[p]: where request p is, and its response
  logger,   \* logger[p]: the task that logs p's access
  log,      \* log[d]: the Redis list access_log:{d}
  accesses  \* accesses[d]: all that was ever pushed to it

previewVars == <<row, object, preview, logger, log, accesses>>
storage == <<row, object>>
logs == <<log, accesses>>

NoReply == [status |-> 0, range |-> NoRange, first |-> 0, declared |-> 0, sent |-> 0]

PreviewInit ==
  /\ row \in [Documents -> {"private", "public"}] /\ object = Documents
  /\ preview = [p \in Previews |-> [pc |-> "idle", doc |-> "none", reply |-> NoReply]]
  /\ logger = [p \in Previews |-> "none"]
  /\ log = [d \in Documents |-> <<>>] /\ accesses = log

Reply(p, r) == preview' = [preview EXCEPT ![p].pc = "replied", ![p].reply = r]
Refuse(p, status) == Reply(p, [NoReply EXCEPT !.status = status])

(* The row is read and the permission checked: the owner's, or anyone's if   *)
(* the document is public.  A copy the browser has already is not sent.      *)
Check(p) ==
  /\ preview[p].pc = "idle"
  /\ \E u \in Readers, d \in Documents, cached \in BOOLEAN :
       LET status == IF row[d] = "gone" THEN 404
                     ELSE IF OwnerOf[d] # u /\ row[d] # "public" THEN 403
                     ELSE IF cached THEN 304 ELSE 200
       IN preview' = [preview EXCEPT ![p] =
            [pc |-> IF status = 200 THEN "stat" ELSE "replied", doc |-> d,
             reply |-> [NoReply EXCEPT !.status = IF status = 200 THEN 0 ELSE status]]]
  /\ UNCHANGED <<storage, logger, logs>>

(* The size of the object is read, and the logging task started; or MinIO    *)
(* fails or no longer has the object.                                        *)
Stat(p) ==
  /\ preview[p].pc = "stat"
  /\ \/ /\ preview[p].doc \in object
        /\ preview' = [preview EXCEPT ![p].pc = "open"]
        /\ logger' = [logger EXCEPT ![p] = "push"]
     \/ Refuse(p, 500) /\ UNCHANGED logger
  /\ UNCHANGED <<storage, logs>>

\* Mutant: a range may end after the last byte.
LastBytePastEnd(range) == IF range.to = Open THEN Size - 1 ELSE range.to

\* The last byte of a range: the one asked for, if the object reaches it.
LastByte(range) ==
  IF range.to = Open \/ range.to > Size - 1 THEN Size - 1 ELSE range.to

\* MinIO sends what there is of length bytes from first on, and the rest of the
\* object if length is 0; a first byte past the end is an error, and for a
\* negative length the header it gets is invalid: an error, or ignored.
Sent(first, length) ==
  IF length < 0 THEN {Size} ELSE
  IF first >= Size THEN {} ELSE
  {IF length = 0 \/ first + length > Size THEN Size - first ELSE length}

(* The object is opened and its stream returned: all of it, or the range.    *)
Stream(p) ==
  /\ preview[p].pc = "open"
  /\ \/ Refuse(p, 500)
     \/ /\ preview[p].doc \in object
        /\ \E range \in RangesOf[p] :
             IF range = NoRange
               THEN Reply(p, [status |-> 200, range |-> range, first |-> 0,
                              declared |-> Size, sent |-> Size])
               ELSE LET length == LastByte(range) - range.from + 1 IN
                    \E sent \in Sent(range.from, length) :
                      Reply(p, [status |-> 206, range |-> range, first |-> range.from,
                                declared |-> length, sent |-> sent])
  /\ UNCHANGED <<storage, logger, logs>>

(* The logging task: the access is pushed, then the list is trimmed.  Redis  *)
(* may fail or the process die before either.                                *)
Push(p) ==
  /\ logger[p] = "push"
  /\ LET d == preview[p].doc IN
     /\ log' = [log EXCEPT ![d] = Append(@, p)]
     /\ accesses' = [accesses EXCEPT ![d] = Append(@, p)]
  /\ logger' = [logger EXCEPT ![p] = "trim"]
  /\ UNCHANGED <<storage, preview>>

\* Mutant: the oldest accesses are kept.
TrimNewest(p) ==
  /\ logger[p] = "trim"
  /\ log' = [log EXCEPT ![preview[p].doc] = SubSeq(@, 1, IF Len(@) < MaxLog THEN Len(@) ELSE MaxLog)]
  /\ logger' = [logger EXCEPT ![p] = "done"]
  /\ UNCHANGED <<storage, preview, accesses>>

Trim(p) ==
  /\ logger[p] = "trim"
  /\ log' = [log EXCEPT ![preview[p].doc] =
               SubSeq(@, IF Len(@) > MaxLog THEN Len(@) - MaxLog + 1 ELSE 1, Len(@))]
  /\ logger' = [logger EXCEPT ![p] = "done"]
  /\ UNCHANGED <<storage, preview, accesses>>

LoggerFails(p) ==
  /\ \/ logger[p] = "push" /\ logger' = [logger EXCEPT ![p] = "done"]
     \/ logger[p] = "trim" /\ logger' = [logger EXCEPT ![p] = "untrimmed"]
  /\ UNCHANGED <<storage, preview, logs>>

(* The owner or an administrator shows or hides a document.                 *)
SetVisibility(d) ==
  /\ row[d] # "gone"
  /\ \E v \in {"private", "public"} : v # row[d] /\ row' = [row EXCEPT ![d] = v]
  /\ UNCHANGED <<object, preview, logger, logs>>

(* A document is deleted: first its object, then its row.                   *)
RemoveObject(d) ==
  /\ row[d] # "gone" /\ d \in object /\ object' = object \ {d}
  /\ UNCHANGED <<row, preview, logger, logs>>
RemoveRow(d) ==
  /\ row[d] # "gone" /\ d \notin object /\ row' = [row EXCEPT ![d] = "gone"]
  /\ UNCHANGED <<object, preview, logger, logs>>

PreviewNext ==
  \/ \E p \in Previews : Check(p) \/ Stat(p) \/ Stream(p) \/ Push(p) \/ Trim(p) \/ LoggerFails(p)
  \/ \E d \in Documents : SetVisibility(d) \/ RemoveObject(d) \/ RemoveRow(d)

PreviewSpec == PreviewInit /\ [][PreviewNext]_previewVars

-----------------------------------------------------------------------------
Satisfiable(range) ==
  range.from < Size /\ (range.to = Open \/ range.from <= range.to)

\* A preview sends exactly the bytes its headers announce: all of the object,
\* or of a range with a byte in it those the object has, from the first byte
\* asked for to the last one asked for or there is (documents.py 573-596).  A
\* range without such a byte is excluded: see the README.
PreviewIsExact ==
  \A p \in Previews :
    LET r == preview[p].reply
        asked == r.range IN
    /\ r.status = 200 => r.declared = Size /\ r.sent = Size
    /\ r.status = 206 /\ Satisfiable(asked) =>
         /\ r.declared = r.sent /\ r.sent > 0 /\ r.first = asked.from
         /\ r.first + r.sent <= Size
         /\ r.first + r.sent < Size => r.first + r.sent - 1 = asked.to

\* The access log of a document is the newest of its accesses, however the
\* pushes and trims of requests interleave: none of the newest MaxLog is lost,
\* and it is longer only by the accesses whose own trim has not run
\* (_log_access: "At most 100 entries are kept per document").
NewestAccessesKept ==
  \A d \in Documents :
    LET untrimmed == {p \in Previews : preview[p].doc = d /\ logger[p] \in {"trim", "untrimmed"}} IN
    /\ IsSuffix(log[d], accesses[d])
    /\ Len(log[d]) >= MaxLog \/ log[d] = accesses[d]
    /\ Len(log[d]) <= MaxLog + Cardinality(untrimmed)
=============================================================================
