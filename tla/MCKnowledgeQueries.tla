------------------------- MODULE MCKnowledgeQueries -------------------------
(* Small instances of Retrieval, Chunker, ChatStream and Preview for TLC.   *)
(* The four share no state: one behaviour explores one of them, the other   *)
(* three stay as they began.                                                *)
EXTENDS Retrieval, Chunker, ChatStream, Preview

CONSTANTS c1, c2, c3, c4, d1, d2, file, owner, other, p1, p2, p3

VARIABLE part

MCDocOf == (c1 :> d1) @@ (c2 :> d1) @@ (c3 :> d1) @@ (c4 :> d2)
\* Blank, short (one opens a section), too long, indented.
MCLines ==
  LET L(lead, body, opens) == [lead |-> lead, body |-> body, trail |-> 0, opens |-> opens] IN
  {L(1, 0, FALSE), L(0, 1, FALSE), L(0, 1, TRUE), L(0, 4, FALSE), L(2, 1, TRUE)}
\* Three lines of any kind, or four of which none is too long alone.
MCTexts == BoundedSeq(MCLines, 3)
           \cup {t \in BoundedSeq({l \in MCLines : l.lead + l.body = 1}, 4) : Len(t) = 4}
MCOwnerOf == file :> owner
\* One request with any range of an object of three bytes, two without.
MCRangesOf ==
  (p1 :> [from : 0..3, to : -1..3] \cup {NoRange}) @@ (p2 :> {NoRange}) @@ (p3 :> {NoRange})

vars == <<part, retrievalVars, chunkerVars, streamVars, previewVars>>

Init ==
  /\ part \in {"retrieval", "chunker", "stream", "preview"}
  /\ RetrievalInit /\ ChunkerInit /\ StreamInit /\ PreviewInit

Next ==
  \/ part = "retrieval" /\ RetrievalNext
     /\ UNCHANGED <<part, chunkerVars, streamVars, previewVars>>
  \/ part = "chunker" /\ ChunkDocument
     /\ UNCHANGED <<part, retrievalVars, streamVars, previewVars>>
  \/ part = "stream" /\ StreamNext
     /\ UNCHANGED <<part, retrievalVars, chunkerVars, previewVars>>
  \/ part = "preview" /\ PreviewNext
     /\ UNCHANGED <<part, retrievalVars, chunkerVars, streamVars>>

Spec == Init /\ [][Next]_vars
=============================================================================
