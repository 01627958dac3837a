--------------------------- MODULE MCConversation ---------------------------
(* A small instance of Conversation for TLC.                               *)
EXTENDS Conversation, TLC

CONSTANTS u1, u2, r1, r2, r3

(* A question to the plain endpoint; a streamed question, or the deletion, *)
(* of the same or of another user; and a third request of any kind.        *)
MCUsersOf == (r1 :> {u1}) @@ (r2 :> {u1, u2}) @@ (r3 :> {u1})
MCKindsOf == (r1 :> {"ask"}) @@ (r2 :> {"stream", "purge"}) @@ (r3 :> Kinds)
=============================================================================
