------------------------ MODULE MCDocumentPipeline --------------------------
(* Small instances of DocumentPipeline for TLC.                            *)
EXTENDS DocumentPipeline, TLC

CONSTANTS d1, d2

(* d2's object has more chunks than d1's.                                  *)
MCNumChunks == [d \in Docs |-> IF d = d1 THEN 2 ELSE 3]

MCUploadParts == [d \in Docs |-> 1]

(* Workers are interchangeable; only runs without liveness use this.       *)
WorkerSymmetry == Permutations(Workers)

=============================================================================
