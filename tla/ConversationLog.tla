--------------------------- MODULE ConversationLog ---------------------------
(***************************************************************************)
(* What the chat API promises about a stored conversation: a session is    *)
(* opened once, question and answer are appended together as one turn, a   *)
(* turn is stored in one session at most and never changes or moves, and   *)
(* the only way a turn disappears is with its whole session.               *)
(***************************************************************************)
EXTENDS Naturals, Sequences

CONSTANTS Turns,   \* the questions asked
          Ids      \* the keys of conversation_sessions

VARIABLES phase,   \* phase[s] \in {"unborn", "open", "closed"}
          turns    \* turns[s]: the turns of session s, oldest first

logVars == <<phase, turns>>

Stored == UNION {{turns[s][i] : i \in DOMAIN turns[s]} : s \in Ids}

Init ==
  /\ phase = [s \in Ids |-> "unborn"]
  /\ turns = [s \in Ids |-> <<>>]

\* A session is opened empty, or with its first turn in the same commit.
Open(s) ==
  /\ phase[s] = "unborn"
  /\ phase' = [phase EXCEPT ![s] = "open"]
  /\ \/ UNCHANGED turns
     \/ \E t \in Turns \ Stored : turns' = [turns EXCEPT ![s] = <<t>>]

AppendTurn(s) ==
  /\ phase[s] = "open"
  /\ \E t \in Turns \ Stored : turns' = [turns EXCEPT ![s] = Append(@, t)]
  /\ UNCHANGED phase

\* Sessions are deleted with everything in them: one by its owner, or all
\* those of a user.  An id whose creation is rolled back is closed unopened.
Close(S) ==
  /\ phase' = [s \in Ids |-> IF s \in S THEN "closed" ELSE phase[s]]
  /\ turns' = [s \in Ids |-> IF s \in S THEN <<>> ELSE turns[s]]

Next ==
  \/ \E s \in Ids : Open(s) \/ AppendTurn(s)
  \/ \E S \in (SUBSET Ids) : Close(S)

Spec == Init /\ [][Next]_logVars
=============================================================================
