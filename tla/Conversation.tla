---------------------------- MODULE Conversation ----------------------------
(***************************************************************************)
(* Chat: answer_question and answer_question_stream of                     *)
(* backend/app/services/rag_service.py behind the endpoints of             *)
(* backend/app/api/v1/chat.py, and the session operations of that file,    *)
(* over the tables conversation_sessions and conversation_messages.        *)
(*                                                                         *)
(* A request holds one MySQL transaction.  Its read view (REPEATABLE READ) *)
(* is taken when the current user is loaded, so every later SELECT of the  *)
(* request sees the tables as they were at Begin, while foreign keys and   *)
(* bulk DELETEs look at the current rows.  The calls to the LLM, to the    *)
(* search engines and to the reranker change nothing here: only what they  *)
(* come back with is chosen.  A message bears the second of its INSERT: the *)
(* two of a turn, and those of turns that are stored about the same time,  *)
(* may bear the same one or not.  A history is ordered by that second      *)
(* alone, so it is the set of the messages that were fetched.              *)
(*                                                                         *)
(* An operator introduced by "Mutant:" is no part of the model: it is what *)
(* the action after it would be with a plausible bug.                      *)
(***************************************************************************)
EXTENDS Naturals, Sequences, FiniteSets

CONSTANTS
  Users,       \* owners of sessions
  Requests,    \* API requests; a request also names the turn it writes
  UsersOf,     \* UsersOf[r]: who may send request r
  KindsOf,     \* KindsOf[r]: the operations request r may be
  MaxSessions, \* bound on the keys conversation_sessions hands out
  MaxHistory,  \* messages of history given to the model (6 in the code)
  MaxFailures  \* bound on database errors and crashes of the API process

Kinds == {"ask", "stream", "create", "delete", "rename", "purge"}

ASSUME ConversationAssumption ==
  /\ IsFiniteSet(Requests)
  /\ UsersOf \in [Requests -> SUBSET Users]
  /\ KindsOf \in [Requests -> SUBSET Kinds]
  /\ MaxSessions \in Nat /\ MaxSessions >= Cardinality(Requests)
  /\ MaxHistory \in Nat
  /\ MaxFailures \in Nat

VARIABLES
  session, \* session[s]: state and owner of row s
  log,     \* log[s]: the committed messages of session s, oldest first
  alive,   \* users that have a row
  job,     \* job[r]: where request r is
  failures \* database errors and crashes so far

vars == <<session, log, alive, job, failures>>
db == <<session, log, alive>>

Ids == 1..MaxSessions
\* "pending": inserted and flushed, not committed; "gone": deleted or rolled back.
Phases == {"free", "pending", "live", "gone"}
\* What a client was shown of an answer, and what a message may hold: all of
\* it, the tokens that came before an error, or a sentence of the program's
\* own (a failed call, no document found).
Contents == {"none", "full", "partial", "notice"}
Message == [role : {"user", "assistant"}, turn : Requests, content : Contents, at : Nat]

Idle == [pc |-> "idle", kind |-> "none", user |-> "none", sid |-> 0, seen |-> {},
         hist |-> {}, context |-> FALSE, told |-> 0, shown |-> "none", reply |-> "none"]

Init ==
  /\ session = [s \in Ids |-> [phase |-> "free", owner |-> "none"]]
  /\ log = [s \in Ids |-> <<>>]
  /\ alive = Users
  /\ job = [r \in Requests |-> Idle]
  /\ failures = 0

Live(s) == session[s].phase = "live"
NewId == CHOOSE s \in Ids :
           session[s].phase = "free" /\ \A t \in 1..(s - 1) : session[t].phase # "free"

\* The session a request asks for, if its read view has it for this user;
\* otherwise the code goes on as if none had been named.
Owned(j) == j.sid \in j.seen /\ session[j.sid].owner = j.user

\* What a query for MaxHistory messages of a session may fetch, the greatest
\* key first: which of several with the same key is not said.
Fetched(s, key) ==
  LET all == DOMAIN log[s] IN
  {{log[s][i] : i \in I} : I \in {J \in SUBSET all :
     /\ Cardinality(J) = IF Len(log[s]) < MaxHistory THEN Len(log[s]) ELSE MaxHistory
     /\ \A i \in J, k \in all \ J : ~(key[k] > key[i])}}

\* Mutant: the order is not reversed.
RecentOldest(s) ==
  Fetched(s, [i \in DOMAIN log[s] |-> log[s][Len(log[s])].at - log[s][i].at])

\* The newest MaxHistory messages of a session, by created_at.
Recent(s) == Fetched(s, [i \in DOMAIN log[s] |-> log[s][i].at])

To(r, pc) == job' = [job EXCEPT ![r].pc = pc]
\* The end of a request: what it had read is gone with it.
Ended(j, reply) ==
  [j EXCEPT !.pc = "ended", !.reply = reply, !.sid = 0, !.seen = {}, !.hist = {}]
End(r, reply) == job' = [job EXCEPT ![r] = Ended(@, reply)]
EndWith(r, reply, s) == job' = [job EXCEPT ![r] = [Ended(@, reply) EXCEPT !.told = s]]
Fault == failures < MaxFailures /\ failures' = failures + 1

FirstStep(k) == CASE k = "ask" -> "answering"   [] k = "stream" -> "announcing"
                  [] k = "create" -> "creating" [] k = "delete" -> "deleting"
                  [] k = "rename" -> "renaming" [] k = "purge" -> "purging"

\* The session a request of each kind may name: one a client can know of.
Sids(k) == LET known == {s \in Ids : session[s].phase # "free"} IN
  CASE k \in {"ask", "stream"} -> known \cup {0}
    [] k \in {"delete", "rename"} -> known
    [] k \in {"create", "purge"} -> {0}

-----------------------------------------------------------------------------
(* The request arrives: the user is loaded, which opens the read view, and  *)
(* the history or the row the request is about is read from it.             *)
Begin(r) ==
  /\ job[r].pc = "idle"
  /\ \E u \in UsersOf[r] \cap alive, k \in KindsOf[r] : \E s \in Sids(k) :
       LET seen == {t \in Ids : Live(t)}
           mine == s \in seen /\ session[s].owner = u
           refused == k \in {"delete", "rename"} /\ ~mine
       IN \E hist \in IF mine /\ k \in {"ask", "stream"} THEN Recent(s) ELSE {{}} :
            job' = [job EXCEPT ![r] = [Idle EXCEPT
               !.pc = IF refused THEN "ended" ELSE FirstStep(k),
               !.kind = k, !.user = u, !.sid = s, !.seen = seen, !.hist = hist,
               !.reply = IF refused THEN "error" ELSE "none"]]
  /\ UNCHANGED <<db, failures>>

(* Intent, rewriting, retrieval, reranking and the LLM call of the plain     *)
(* endpoint.  A failed intent call counts as a retrieval, and no document    *)
(* found or a failed final call is answered with a sentence that says so.    *)
Answer(r) ==
  /\ job[r].pc = "answering"
  /\ \E shown \in {"full", "notice"} :
       job' = [job EXCEPT ![r].shown = shown, ![r].pc = "persisting"]
  /\ UNCHANGED <<db, failures>>

\* The seconds in which the next message of a session may be stored.
Seconds(s) == LET n == Len(log[s]) IN
  IF n = 0 THEN {0} ELSE {log[s][n].at, log[s][n].at + 1}

\* The turn request r stores, with the seconds its two INSERTs may fall in.
Exchanges(r, s) ==
  {<<[role |-> "user", turn |-> r, content |-> "full", at |-> t],
     [role |-> "assistant", turn |-> r, content |-> job[r].shown, at |-> t + d]>> :
       t \in Seconds(s), d \in 0..1}

Stores(r, s) == \E turn \in Exchanges(r, s) : log' = [log EXCEPT ![s] = @ \o turn]

Opened(s, u) == [session EXCEPT ![s] = [phase |-> "live", owner |-> u]]

\* What the foreign keys accept: a message for a row that still exists, a
\* session for a user that still exists.
Target(j) == IF Owned(j) THEN j.sid ELSE NewId
Accepted(j) == IF Owned(j) THEN Live(j.sid) ELSE j.user \in alive

\* Mutant: the user's message is committed on its own, before the model's.
PersistAskSplit(r) ==
  LET j == job[r] s == Target(j) IN
  /\ j.pc = "persisting" /\ j.kind = "ask"
  /\ Accepted(j)
  /\ session' = Opened(s, j.user)
  /\ \/ /\ Stores(r, s)
        /\ EndWith(r, "ok", s)
        /\ UNCHANGED failures
     \/ /\ Fault /\ End(r, "error")
        /\ \E turn \in Exchanges(r, s) : log' = [log EXCEPT ![s] = Append(@, turn[1])]
  /\ UNCHANGED alive

\* Mutant: the commit at the end is forgotten.
PersistAskNoCommit(r) ==
  LET j == job[r] IN
  /\ j.pc = "persisting" /\ j.kind = "ask"
  /\ EndWith(r, "ok", Target(j))
  /\ UNCHANGED <<db, failures>>

\* Mutant: after a failed commit the whole exchange is stored again.
PersistAskRetries(r) ==
  LET j == job[r] s == Target(j) IN
  /\ j.pc = "persisting" /\ j.kind = "ask"
  /\ \/ /\ Accepted(j)
        /\ session' = Opened(s, j.user)
        /\ Stores(r, s)
        /\ \/ UNCHANGED failures /\ EndWith(r, "ok", s)
           \/ Fault /\ UNCHANGED job
     \/ ~Accepted(j) /\ End(r, "error") /\ UNCHANGED <<session, log, failures>>
  /\ UNCHANGED alive

(* _persist_conversation: the session if the read view has none, and both    *)
(* messages, in one commit.  A row deleted meanwhile is still in the read    *)
(* view, and the insert then fails on its foreign key: the request ends in   *)
(* an error after the model has answered.                                    *)
PersistAsk(r) ==
  LET j == job[r] s == Target(j) IN
  /\ j.pc = "persisting" /\ j.kind = "ask"
  /\ \/ /\ Accepted(j)
        /\ session' = Opened(s, j.user)
        /\ Stores(r, s)
        /\ EndWith(r, "ok", s)
        /\ UNCHANGED failures
     \/ ~Accepted(j) /\ End(r, "error") /\ UNCHANGED <<session, log, failures>>
     \/ Fault /\ End(r, "error") /\ UNCHANGED <<session, log>>
  /\ UNCHANGED alive

-----------------------------------------------------------------------------
(* The streamed answer.  After intent and retrieval the session row is       *)
(* inserted and flushed, so that its id can be sent before it is committed.  *)

\* Mutant: the session is looked up by its id alone.
AnnounceAny(r) ==
  /\ job[r].pc = "announcing"
  /\ \E context \in BOOLEAN :
       LET j == job[r] mine == j.sid \in j.seen s == IF mine THEN j.sid ELSE NewId IN
         /\ session' = IF mine THEN session
                       ELSE [session EXCEPT ![s] = [phase |-> "pending", owner |-> j.user]]
         /\ job' = [job EXCEPT ![r].context = context, ![r].told = s, ![r].pc = "streaming"]
  /\ UNCHANGED <<log, alive, failures>>

Announce(r) ==
  LET j == job[r] s == Target(j) IN
  /\ j.pc = "announcing"
  /\ \/ /\ Owned(j) \/ j.user \in alive
        /\ session' = IF Owned(j) THEN session
                      ELSE [session EXCEPT ![s] = [phase |-> "pending", owner |-> j.user]]
        /\ \E context \in BOOLEAN :
             job' = [job EXCEPT ![r].context = context, ![r].told = s, ![r].pc = "streaming"]
     \/ ~Owned(j) /\ j.user \notin alive /\ End(r, "error") /\ UNCHANGED session
  /\ UNCHANGED <<log, alive, failures>>

\* What is left of the sessions when the transactions of R are rolled back.
RolledBack(R) ==
  [s \in Ids |-> IF session[s].phase = "pending" /\ \E r \in R : job[r].told = s
                 THEN [session[s] EXCEPT !.phase = "gone"] ELSE session[s]]

\* Mutant: the text of the exception is sent as the answer.
TokensError(r) ==
  /\ job[r].pc = "streaming" /\ job[r].context
  /\ \E shown \in {"full", "error"} :
       job' = [job EXCEPT ![r].shown = shown, ![r].pc = "persisting"]
  /\ UNCHANGED <<db, failures>>

(* The tokens.  Without any context the generator says so and returns: it    *)
(* never reaches the commit, so neither the turn nor a new session is kept.  *)
(* An error of the model ends the tokens, and what had come is persisted.    *)
Tokens(r) ==
  LET j == job[r] IN
  /\ j.pc = "streaming"
  /\ \/ /\ ~j.context
        /\ session' = RolledBack({r})
        /\ job' = [job EXCEPT ![r] = [Ended(@, "done") EXCEPT !.shown = "notice"]]
     \/ /\ j.context
        /\ \E shown \in {"full", "partial"} :
             job' = [job EXCEPT ![r].shown = shown, ![r].pc = "persisting"]
        /\ UNCHANGED session
  /\ UNCHANGED <<log, alive, failures>>

StreamFails(r) == End(r, "unkept") /\ session' = RolledBack({r}) /\ UNCHANGED log

\* Mutant: only a whole answer replaces the text collected so far.
PersistStreamWhole(r) ==
  LET j == job[r] IN
  /\ j.pc = "persisting" /\ j.kind = "stream"
  /\ session[j.told].phase \in {"live", "pending"}
  /\ session' = Opened(j.told, j.user)
  /\ \E turn \in Exchanges(r, j.told) : log' = [log EXCEPT ![j.told] =
       @ \o [turn EXCEPT ![2].content = IF @ = "partial" THEN "none" ELSE @]]
  /\ End(r, "done")
  /\ UNCHANGED <<alive, failures>>

(* The turn, and the session if it is new, are committed; any error is       *)
(* rolled back and logged, and the client is told "done" all the same (reply *)
(* "unkept" keeps the two apart here).                                       *)
PersistStream(r) ==
  LET j == job[r] IN
  /\ j.pc = "persisting" /\ j.kind = "stream"
  /\ \/ /\ session[j.told].phase \in {"live", "pending"}
        /\ session' = Opened(j.told, j.user)
        /\ Stores(r, j.told)
        /\ End(r, "done")
        /\ UNCHANGED failures
     \/ session[j.told].phase = "gone" /\ StreamFails(r) /\ UNCHANGED failures
     \/ Fault /\ StreamFails(r)
  /\ UNCHANGED alive

(* The client closes the connection: the generator is closed where it is and *)
(* its transaction is rolled back.                                           *)
Disconnect(r) ==
  /\ job[r].kind = "stream" /\ job[r].pc # "ended"
  /\ session' = RolledBack({r})
  /\ End(r, "cut")
  /\ UNCHANGED <<log, alive, failures>>

-----------------------------------------------------------------------------
(* Operations on sessions.                                                   *)

CreateSession(r) ==
  LET u == job[r].user IN
  /\ job[r].pc = "creating"
  /\ \/ /\ u \in alive
        /\ session' = Opened(NewId, u)
        /\ EndWith(r, "ok", NewId)
     \/ u \notin alive /\ End(r, "error") /\ UNCHANGED session
  /\ UNCHANGED <<log, alive, failures>>

Removed(S) ==
  /\ session' = [s \in Ids |-> IF s \in S THEN [session[s] EXCEPT !.phase = "gone"] ELSE session[s]]
  /\ log' = [s \in Ids |-> IF s \in S THEN <<>> ELSE log[s]]

(* The messages, then the row, in one commit; a second deletion finds        *)
(* nothing left and succeeds too.                                            *)
DeleteSession(r) ==
  /\ job[r].pc = "deleting"
  /\ \/ Removed({job[r].sid}) /\ End(r, "ok") /\ UNCHANGED failures
     \/ Fault /\ End(r, "error") /\ UNCHANGED <<session, log>>
  /\ UNCHANGED alive

(* An UPDATE of a row deleted since it was read matches nothing: an error.   *)
RenameSession(r) ==
  /\ job[r].pc = "renaming"
  /\ End(r, IF Live(job[r].sid) THEN "ok" ELSE "error")
  /\ UNCHANGED <<db, failures>>

OwnedBy(u, phase) == {s \in Ids : session[s] = [phase |-> phase, owner |-> u]}

\* Mutant: only the sessions listed at first are deleted, and no foreign key
\* of the schema keeps the user's row.
PurgeUserListed(r) ==
  LET u == job[r].user IN
  /\ job[r].pc = "purging"
  /\ Removed(OwnedBy(u, "live") \cap job[r].seen)
  /\ alive' = alive \ {u}
  /\ End(r, "ok")
  /\ UNCHANGED failures

\* Mutant: a session opened meanwhile makes it wait for good.
PurgeUserWaits(r) ==
  LET u == job[r].user IN
  /\ job[r].pc = "purging"
  /\ OwnedBy(u, "pending") \cup (OwnedBy(u, "live") \ job[r].seen) = {}
  /\ Removed(OwnedBy(u, "live"))
  /\ alive' = alive \ {u}
  /\ End(r, "ok")
  /\ UNCHANGED failures

(* The sessions' part of admin.delete_user.  The messages are deleted for    *)
(* the sessions of the read view, the sessions by a DELETE that sees the     *)
(* current rows and waits for those another transaction has not committed: a *)
(* session opened with its first turn meanwhile makes the whole fail.        *)
PurgeUser(r) ==
  LET u == job[r].user IN
  /\ job[r].pc = "purging"
  /\ OwnedBy(u, "pending") = {}
  /\ \/ /\ \A s \in OwnedBy(u, "live") \ job[r].seen : log[s] = <<>>
        /\ Removed(OwnedBy(u, "live"))
        /\ alive' = alive \ {u}
        /\ End(r, "ok")
        /\ UNCHANGED failures
     \/ /\ \E s \in OwnedBy(u, "live") \ job[r].seen : log[s] # <<>>
        /\ End(r, "error")
        /\ UNCHANGED <<db, failures>>
     \/ Fault /\ End(r, "error") /\ UNCHANGED db

(* The API process dies: nothing uncommitted survives.                       *)
Crash ==
  LET R == {r \in Requests : job[r].pc \notin {"idle", "ended"}} IN
  /\ R # {} /\ Fault
  /\ session' = RolledBack(R)
  /\ job' = [r \in Requests |-> IF r \in R THEN Ended(job[r], "cut") ELSE job[r]]
  /\ UNCHANGED <<log, alive>>

Step(r) ==
  \/ Answer(r) \/ PersistAsk(r)
  \/ Announce(r) \/ Tokens(r) \/ PersistStream(r)
  \/ CreateSession(r) \/ DeleteSession(r) \/ RenameSession(r) \/ PurgeUser(r)

Next == Crash \/ \E r \in Requests : Begin(r) \/ Step(r) \/ Disconnect(r)

Spec == Init /\ [][Next]_vars

(* A handler that can go on does: coroutines are scheduled in turn and the   *)
(* calls to the models have timeouts.                                        *)
FairSpec == Spec /\ \A r \in Requests : WF_vars(Step(r))

-----------------------------------------------------------------------------
(* Properties.                                                               *)

JobType ==
  [pc : {"idle", "answering", "announcing", "streaming", "persisting",
         "creating", "deleting", "renaming", "purging", "ended"},
   kind : Kinds \cup {"none"}, user : Users \cup {"none"},
   sid : Ids \cup {0}, seen : SUBSET Ids, hist : SUBSET Message,
   context : BOOLEAN, told : Ids \cup {0}, shown : Contents,
   reply : {"none", "ok", "done", "unkept", "error", "cut"}]

TypeOK ==
  /\ session \in [Ids -> [phase : Phases, owner : Users \cup {"none"}]]
  /\ log \in [Ids -> Seq(Message)]
  /\ alive \subseteq Users
  /\ job \in [Requests -> JobType]
  /\ failures \in 0..MaxFailures

(* A stored conversation is a sequence of whole turns, the question and its  *)
(* answer side by side, whatever runs at the same time on the same session   *)
(* and wherever a request fails (one commit in both answer paths).           *)
TurnsWhole ==
  \A s \in Ids :
    /\ Len(log[s]) % 2 = 0
    /\ \A i \in 1..(Len(log[s]) \div 2) :
         LET q == log[s][2 * i - 1] a == log[s][2 * i] IN
         q.role = "user" /\ a.role = "assistant" /\ q.turn = a.turn

StoredIn(r, s) == \E i \in DOMAIN log[s] : log[s][i].turn = r

(* An answer that was delivered without an error is found again in the       *)
(* session the client was told, until that session is deleted.  The answer   *)
(* that no document was found is the exception of the streaming endpoint.    *)
AnsweredIsKept ==
  \A r \in Requests :
    \/ job[r].kind = "ask" /\ job[r].reply = "ok"
    \/ job[r].kind = "stream" /\ job[r].reply = "done" /\ job[r].context
    => session[job[r].told].phase = "gone" \/ StoredIn(r, job[r].told)

(* What is stored as the model's answer is what the client was shown, cut    *)
(* short or not, so that reloading a conversation does not change it.        *)
ShownIsKept ==
  \A s \in Ids : \A i \in DOMAIN log[s] :
    log[s][i].role = "assistant" => log[s][i].content = job[log[s][i].turn].shown

(* Nobody's turn lands in another user's session, also when a foreign or     *)
(* deleted session is named and when ids are allotted concurrently.          *)
OwnTurns ==
  \A s \in Ids : \A i \in DOMAIN log[s] : job[log[s][i].turn].user = session[s].owner

(* The history given to the model is of the asker's own session, and it    *)
(* cuts a turn only where created_at cannot tell what is newer: the half   *)
(* that was left out is never newer than a message that was taken.         *)
(* _load_recent_history counts messages, not turns, and may meet a session *)
(* other requests are writing, also within one second.                     *)
HistoryIsRecent ==
  \A r \in Requests : LET h == job[r].hist IN
    /\ Cardinality(h) <= MaxHistory
    /\ \A m \in h : job[m.turn].user = job[r].user /\ job[m.turn].told = job[r].sid
    /\ \A m \in h : \A i \in DOMAIN log[job[r].sid] :
         LET x == log[job[r].sid][i] IN
         x.turn = m.turn /\ x \notin h => \A y \in h : x.at <= y.at

(* delete_user removes a user together with every session, also one opened   *)
(* while it runs, or fails and removes nothing.                              *)
OwnersExist == \A s \in Ids : Live(s) => session[s].owner \in alive

StateOf(s) == CASE session[s].phase \in {"free", "pending"} -> "unborn"
                [] session[s].phase = "live" -> "open"
                [] session[s].phase = "gone" -> "closed"
TurnsOf(s) == [i \in 1..(Len(log[s]) \div 2) |-> log[s][2 * i - 1].turn]

Stored == INSTANCE ConversationLog WITH
  Turns <- Requests,
  phase <- [s \in Ids |-> StateOf(s)],
  turns <- [s \in Ids |-> TurnsOf(s)]

(* The tables, seen as sessions of turns, only ever do what the chat API     *)
(* promises: each question is stored at most once, in one session, after the *)
(* earlier ones, and only deleting its session removes it.                   *)
LogSpec == Stored!Spec

(* Every request that was taken up ends, also one that waits for the row of  *)
(* a stream that has not committed.                                          *)
EveryRequestEnds ==
  \A r \in Requests : job[r].pc # "idle" ~> job[r].pc = "ended"
=============================================================================
