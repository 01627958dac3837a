-------------------------- MODULE MCUploadSession ---------------------------
(* Small instances of UploadSession for TLC.                               *)
EXTENDS UploadSession, TLC

(* With a chunk size of 2: two parts, the last one not full.               *)
MCFileSize == [u \in Uploads |-> 3]

MCNoMd5 == [u \in Uploads |-> None]
MCSameMd5 == [u \in Uploads |-> <<"user", "md5">>]

RequestSymmetry == Permutations(Requests)

=============================================================================
