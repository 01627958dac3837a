------------------------- MODULE ConversationProofs -------------------------
(***************************************************************************)
(* Proofs about Conversation for any users, requests and bounds.           *)
(***************************************************************************)
EXTENDS Conversation, FiniteSetTheorems, SequenceTheorems, TLAPS

Used(s) == session[s].phase # "free"

\* Requests that may have used a key: the others have still to open a session.
Openers ==
  {r \in Requests : \/ job[r].pc = "ended"
                    \/ job[r].kind = "stream" /\ job[r].pc \in {"streaming", "persisting"}}

(* Keys are handed out in order, one to a request at most, so a request that *)
(* opens a session finds a free one.                                         *)
KeysInOrder ==
  \E n \in 0..MaxSessions :
    /\ \A s \in Ids : Used(s) <=> s <= n
    /\ n <= Cardinality(Openers)

(* Only a committed session has messages, and the user of one that is, or is *)
(* about to be, committed exists.                                            *)
SessionOK(s) ==
  /\ session[s].phase # "live" => log[s] = <<>>
  /\ session[s].phase \in {"pending", "live"} => session[s].owner \in alive

(* What a stored message says of the request that wrote it: the request is   *)
(* over, told its client this session, and showed what is stored.            *)
Written(s, m) ==
  LET j == job[m.turn] IN
  /\ j.pc = "ended" /\ j.told = s /\ j.user = session[s].owner
  /\ m.role = "assistant" => m.content = j.shown
MessagesOK == \A s \in Ids : \A i \in 1..Len(log[s]) : Written(s, log[s][i])

(* What a request relies on between two awaits: the sessions of its read     *)
(* view were committed then, and the one it told of is in use and its user's.*)
JobOK(r) ==
  LET j == job[r] IN
  /\ j.pc = "idle" => j = Idle
  /\ j.pc # "ended" => j.reply = "none"
  /\ j.pc \notin {"idle", "ended"} => j.user \in Users
  /\ \A s \in j.seen : session[s].phase \in {"live", "gone"}
  /\ j.pc = "answering" => j.kind = "ask"
  /\ j.pc \in {"announcing", "streaming"} => j.kind = "stream"
  /\ j.pc = "persisting" => j.kind = "ask" \/ (j.kind = "stream" /\ j.context)
  /\ j.pc \in {"creating", "deleting", "renaming", "purging"} => j.kind \notin {"ask", "stream"}
  /\ j.pc \in {"deleting", "renaming"} => j.sid \in j.seen
  /\ j.kind = "stream" /\ j.pc \in {"streaming", "persisting"} =>
       j.told \in Ids /\ Used(j.told) /\ session[j.told].owner = j.user

(* Of the turns a set h of messages of a log l cuts, the half left out is no *)
(* newer than any message of h.                                              *)
CutsOldest(h, l) ==
  \A m \in h : \A i \in DOMAIN l :
    l[i].turn = m.turn /\ l[i] \notin h => \A y \in h : l[i].at <= y.at

(* HistoryIsRecent for one request, with the reason it stays true: turns in  *)
(* a history are over.                                                       *)
HistoryOK(r) ==
  LET h == job[r].hist IN
  /\ IsFiniteSet(h) /\ Cardinality(h) <= MaxHistory
  /\ h # {} => job[r].sid \in Ids
  /\ \A m \in h : /\ job[m.turn].pc = "ended"
                 /\ job[m.turn].user = job[r].user
                 /\ job[m.turn].told = job[r].sid
  /\ CutsOldest(h, log[job[r].sid])

KeptOK(r) ==
  \/ job[r].kind = "ask" /\ job[r].reply = "ok"
  \/ job[r].kind = "stream" /\ job[r].reply = "done" /\ job[r].context
  => /\ job[r].told \in Ids /\ Used(job[r].told)
     /\ session[job[r].told].phase = "gone" \/ StoredIn(r, job[r].told)

ConversationInv ==
  /\ TypeOK /\ KeysInOrder /\ TurnsWhole /\ MessagesOK
  /\ \A s \in Ids : SessionOK(s)
  /\ \A r \in Requests : JobOK(r) /\ HistoryOK(r) /\ KeptOK(r)

-----------------------------------------------------------------------------
(* Frames: what a step does to the sessions it is not about.                *)

\* A key keeps its owner, and a session only moves on: from pending to live or
\* gone, from live to gone.
Evolves ==
  \A s \in Ids : Used(s) =>
    /\ session'[s].owner = session[s].owner
    /\ session'[s].phase # "free"
    /\ session[s].phase = "live" => session'[s].phase \in {"live", "gone"}
    /\ session[s].phase = "gone" => session'[s].phase = "gone"

\* A message that was not there before is of a request that was not over.
OldStays ==
  \A s \in Ids : \A i \in DOMAIN log'[s] :
    \/ i \in DOMAIN log[s] /\ log'[s][i] = log[s][i]
    \/ job[log'[s][i].turn].pc # "ended"

OverStays == \A q \in Requests : job[q].pc = "ended" => job'[q] = job[q]

(* The requests that have taken a key are finitely many, and fewer than    *)
(* all while one has not.                                                  *)
LEMMA OpenersFinite ==
  /\ IsFiniteSet(Openers) /\ Cardinality(Openers) \in Nat /\ Cardinality(Requests) \in Nat
  /\ Cardinality(Openers) <= Cardinality(Requests)
  /\ \A r \in Requests \ Openers : Cardinality(Openers) < Cardinality(Requests)
<1>1. IsFiniteSet(Requests) /\ Openers \subseteq Requests
  BY ConversationAssumption DEF Openers
<1>2. QED
  BY <1>1, FS_Subset, FS_CardinalityType

\* The keys that are free are the ones after those handed out.
LEMMA NextKey ==
  ASSUME ConversationInv, NEW r \in Requests, r \notin Openers
  PROVE  /\ NewId \in Ids /\ ~Used(NewId)
         /\ \A s \in Ids : Used(s) <=> s < NewId
         /\ NewId <= Cardinality(Openers) + 1
<1>1. PICK n \in 0..MaxSessions : /\ \A s \in Ids : Used(s) <=> s <= n
                                 /\ n <= Cardinality(Openers)
  BY DEF ConversationInv, KeysInOrder
<1>2. n + 1 \in Ids
  BY <1>1, OpenersFinite, ConversationAssumption DEF Ids
<1> DEFINE Next1(s) == session[s].phase = "free" /\ \A t \in 1..(s - 1) : session[t].phase # "free"
<1>3. Next1(n + 1)
  <2>1. ~Used(n + 1) /\ \A t \in 1..n : t \in Ids /\ Used(t)
    BY <1>1, <1>2, ConversationAssumption DEF Ids
  <2>2. QED
    BY <2>1 DEF Used
<1>4. \A s \in Ids : Next1(s) => s = n + 1
  BY <1>1, <1>2 DEF Ids, Used
<1>5. NewId = n + 1
  BY <1>2, <1>3, <1>4 DEF NewId
<1>6. QED
  BY <1>1, <1>2, <1>5, OpenersFinite DEF Ids

\* A request that does not move keeps what it relies on.
LEMMA Unmoved ==
  ASSUME ConversationInv, TypeOK', NEW q \in Requests, job'[q] = job[q],
         Evolves, OverStays, OldStays,
         \A s \in Ids : StoredIn(q, s) => StoredIn(q, s)' \/ session'[s].phase = "gone"
  PROVE  JobOK(q)' /\ HistoryOK(q)' /\ KeptOK(q)'
<1>1. job[q] \in JobType /\ JobOK(q) /\ HistoryOK(q) /\ KeptOK(q)
  BY DEF ConversationInv, TypeOK
<1>2. JobOK(q)'
  BY <1>1 DEF JobOK, Evolves, Used, JobType, Idle
<1>3. HistoryOK(q)'
  <2> DEFINE h == job[q].hist
             t == job[q].sid
  <2>1. h \subseteq Message /\ job'[q].hist = h /\ job'[q].sid = t /\ job'[q].user = job[q].user
    BY <1>1 DEF JobType
  <2>2. \A m \in h : job'[m.turn] = job[m.turn] /\ job[m.turn].pc = "ended"
    BY <1>1, <2>1 DEF HistoryOK, OverStays, Message
  <2>3. CutsOldest(h, log'[t])
    <3>1. SUFFICES ASSUME NEW m \in h, NEW i \in DOMAIN log'[t], log'[t][i].turn = m.turn,
                          log'[t][i] \notin h, NEW y \in h
                   PROVE  log'[t][i].at <= y.at
      BY DEF CutsOldest
    <3>2. t \in Ids /\ CutsOldest(h, log[t])
      BY <1>1 DEF HistoryOK
    <3>3. i \in DOMAIN log[t] /\ log'[t][i] = log[t][i]
      BY <2>2, <3>1, <3>2 DEF OldStays
    <3>4. QED
      BY <3>1, <3>2, <3>3 DEF CutsOldest
  <2>4. QED
    BY <1>1, <2>1, <2>2, <2>3 DEF HistoryOK
<1>4. KeptOK(q)'
  BY <1>1 DEF KeptOK, Evolves, Used
<1>5. QED
  BY <1>2, <1>3, <1>4

\* Steps that store and remove nothing: requests move, and sessions that were
\* never committed may be rolled back.
LEMMA Quiet ==
  ASSUME ConversationInv, TypeOK', NEW R \in SUBSET Requests,
         \A q \in R : /\ job[q].pc # "ended"
                      /\ q \in Openers => job'[q].pc = "ended" \/ (job'[q].kind = "stream" /\ job'[q].pc = "persisting")
                      /\ JobOK(q)' /\ HistoryOK(q)' /\ KeptOK(q)',
         \A q \in Requests \ R : job'[q] = job[q],
         \A s \in Ids : \/ session'[s] = session[s]
                        \/ /\ session[s].phase = "pending"
                           /\ session'[s].phase = "gone" /\ session'[s].owner = session[s].owner,
         UNCHANGED <<log, alive>>
  PROVE  ConversationInv'
<1> USE DEF ConversationInv
<1>1. Evolves
  BY DEF Evolves, Used, TypeOK
<1>2. OverStays
  BY DEF OverStays
<1>3. \A q \in Requests \ R : JobOK(q)' /\ HistoryOK(q)' /\ KeptOK(q)'
  BY <1>1, <1>2, Unmoved DEF StoredIn, OldStays
<1>4. Openers \subseteq Openers'
  BY DEF Openers
<1>5. Cardinality(Openers) <= Cardinality(Openers')
  <2>1. IsFiniteSet(Openers')
    BY ConversationAssumption, FS_Subset DEF Openers
  <2>2. QED
    BY <1>4, <2>1, FS_Subset
<1>6. KeysInOrder'
  <2>1. PICK n \in 0..MaxSessions : /\ \A s \in Ids : Used(s) <=> s <= n
                                   /\ n <= Cardinality(Openers)
    BY DEF KeysInOrder
  <2>2. \A s \in Ids : Used(s)' <=> Used(s)
    BY DEF Used, TypeOK
  <2>3. Cardinality(Openers') \in Nat
    <3>1. IsFiniteSet(Openers')
      BY ConversationAssumption, FS_Subset DEF Openers
    <3>2. QED
      BY <3>1, FS_CardinalityType
  <2>4. QED
    BY <1>5, <2>1, <2>2, <2>3, OpenersFinite DEF KeysInOrder
<1>7. TurnsWhole'
  BY DEF TurnsWhole
<1>8. \A s \in Ids : SessionOK(s)'
  BY DEF SessionOK, TypeOK
<1>9. MessagesOK'
  <2> SUFFICES ASSUME NEW s \in Ids, NEW i \in 1..Len(log[s]) PROVE Written(s, log[s][i])'
    BY DEF MessagesOK
  <2>1. log[s][i] \in Message /\ Written(s, log[s][i])
    BY DEF TypeOK, MessagesOK
  <2>2. log[s][i].turn \in Requests /\ session'[s].owner = session[s].owner
    BY <2>1 DEF Message, TypeOK
  <2>3. QED
    BY <1>2, <2>1, <2>2 DEF Written, OverStays
<1>10. QED
  BY <1>3, <1>6, <1>7, <1>8, <1>9
\* One more key at most is handed out, to a request that has not had one.
LEMMA KeysStay ==
  ASSUME ConversationInv, NEW r \in Requests, Openers \cup {r} \subseteq Openers',
         \/ \A s \in Ids : Used(s)' <=> Used(s)
         \/ r \notin Openers /\ \A s \in Ids : Used(s)' <=> Used(s) \/ s = NewId
  PROVE  KeysInOrder'
<1>1. IsFiniteSet(Openers') /\ Cardinality(Openers') \in Nat
  BY ConversationAssumption, FS_Subset, FS_CardinalityType DEF Openers
<1>2. Cardinality(Openers) <= Cardinality(Openers')
  BY <1>1, FS_Subset
<1>3. PICK n \in 0..MaxSessions : /\ \A s \in Ids : Used(s) <=> s <= n
                                 /\ n <= Cardinality(Openers)
  BY DEF ConversationInv, KeysInOrder
<1>4. CASE \A s \in Ids : Used(s)' <=> Used(s)
  BY <1>1, <1>2, <1>3, <1>4, OpenersFinite DEF KeysInOrder
<1>5. CASE r \notin Openers /\ \A s \in Ids : Used(s)' <=> Used(s) \/ s = NewId
  <2>1. Cardinality(Openers \cup {r}) = Cardinality(Openers) + 1
    BY <1>5, OpenersFinite, FS_AddElement
  <2>2. Cardinality(Openers \cup {r}) <= Cardinality(Openers')
    BY <1>1, FS_Subset
  <2>3. /\ NewId \in Ids /\ NewId <= Cardinality(Openers')
        /\ \A s \in Ids : Used(s)' <=> s <= NewId
    BY <1>1, <1>5, <2>1, <2>2, NextKey, OpenersFinite DEF Ids
  <2>4. QED
    BY <2>3, ConversationAssumption DEF KeysInOrder, Ids
<1>6. QED
  BY <1>4, <1>5

(* A sequence with two elements more.                                      *)
LEMMA TwoMore ==
  ASSUME NEW S, NEW old \in Seq(S), NEW two \in Seq(S), Len(two) = 2
  PROVE  /\ old \o two \in Seq(S) /\ Len(old) \in Nat /\ Len(old \o two) = Len(old) + 2
         /\ \A i \in 1..Len(old) : (old \o two)[i] = old[i]
         /\ (old \o two)[Len(old) + 1] = two[1] /\ (old \o two)[Len(old) + 2] = two[2]
<1>1. Len(old) \in Nat
  OBVIOUS
<1>2. /\ old \o two \in Seq(S) /\ Len(old \o two) = Len(old) + Len(two)
      /\ \A i \in 1..(Len(old) + Len(two)) :
           (old \o two)[i] = IF i <= Len(old) THEN old[i] ELSE two[i - Len(old)]
  BY ConcatProperties
<1>3. /\ Len(old) + 1 \in 1..(Len(old) + 2) /\ Len(old) + 2 \in 1..(Len(old) + 2)
      /\ Len(old) + 1 - Len(old) = 1 /\ Len(old) + 2 - Len(old) = 2
      /\ ~(Len(old) + 1 <= Len(old)) /\ ~(Len(old) + 2 <= Len(old))
  BY <1>1
<1>4. \A i \in 1..Len(old) : i \in 1..(Len(old) + 2) /\ i <= Len(old)
  BY <1>1
<1>5. QED
  BY <1>1, <1>2, <1>3, <1>4

\* The turn of r is added to session s.
Adds(s, r) ==
  /\ log[s] \in Seq(Message) /\ log'[s] \in Seq(Message)
  /\ Len(log[s]) \in Nat /\ Len(log'[s]) = Len(log[s]) + 2
  /\ \A i \in 1..Len(log[s]) : log'[s][i] = log[s][i]
  /\ LET m == log'[s][Len(log[s]) + 1] IN m.role = "user" /\ m.turn = r
  /\ LET m == log'[s][Len(log[s]) + 2] IN
       m.role = "assistant" /\ m.turn = r /\ m.content = job[r].shown

(* Seconds are numbers.                                                    *)
LEMMA SecondsAreNats ==
  ASSUME TypeOK, NEW s \in Ids
  PROVE  Seconds(s) \subseteq Nat
<1>1. log[s] \in Seq(Message) /\ Len(log[s]) \in Nat
  BY DEF TypeOK
<1>2. CASE Len(log[s]) = 0
  BY <1>2 DEF Seconds
<1>3. CASE Len(log[s]) # 0
  <2>1. log[s][Len(log[s])] \in Message
    BY <1>1, <1>3, Len(log[s]) \in 1..Len(log[s])
  <2>2. log[s][Len(log[s])].at \in Nat
    BY <2>1 DEF Message
  <2>3. QED
    BY <1>3, <2>2 DEF Seconds
<1>4. QED
  BY <1>2, <1>3

(* Storing a turn appends two messages to one session and leaves the       *)
(* others alone.                                                           *)
LEMMA TurnAdded ==
  ASSUME TypeOK, NEW r \in Requests, NEW s \in Ids, Stores(r, s)
  PROVE  /\ Adds(s, r) /\ \A t \in Ids \ {s} : log'[t] = log[t]
         /\ log' \in [Ids -> Seq(Message)]
<1>1. PICK turn \in Exchanges(r, s) : log' = [log EXCEPT ![s] = @ \o turn]
  BY DEF Stores
<1>2. PICK c \in Nat, d \in Nat :
        turn = <<[role |-> "user", turn |-> r, content |-> "full", at |-> c],
                 [role |-> "assistant", turn |-> r, content |-> job[r].shown, at |-> c + d]>>
  BY SecondsAreNats DEF Exchanges
<1>3. log[s] \in Seq(Message) /\ log'[s] = log[s] \o turn
  BY <1>1 DEF TypeOK
<1>4. /\ turn \in Seq(Message) /\ Len(turn) = 2
      /\ turn[1].role = "user" /\ turn[1].turn = r
      /\ turn[2].role = "assistant" /\ turn[2].turn = r /\ turn[2].content = job[r].shown
  BY <1>2 DEF TypeOK, JobType, Message, Contents
<1>5. \A t \in Ids \ {s} : log'[t] = log[t]
  BY <1>1 DEF TypeOK
<1>6. log[s] \o turn \in Seq(Message)
  BY <1>3, <1>4, TwoMore
<1>7. log' \in [Ids -> Seq(Message)]
  BY <1>1, <1>6 DEF TypeOK
<1>8. QED
  BY <1>3, <1>4, <1>5, <1>7, TwoMore DEF Adds

\* TurnsWhole of one session.
Whole(l) ==
  /\ Len(l) % 2 = 0
  /\ \A i \in 1..(Len(l) \div 2) :
       LET q == l[2 * i - 1] a == l[2 * i] IN
       q.role = "user" /\ a.role = "assistant" /\ q.turn = a.turn

(* A session of n messages, n even, has one turn more after two more       *)
(* messages.                                                               *)
LEMMA Halves ==
  ASSUME NEW n \in Nat, n % 2 = 0
  PROVE  /\ (n + 2) % 2 = 0
         /\ \A i \in 1..((n + 2) \div 2) :
              \/ i \in 1..(n \div 2) /\ 2 * i - 1 \in 1..n /\ 2 * i \in 1..n
              \/ 2 * i - 1 = n + 1 /\ 2 * i = n + 2
OBVIOUS

(* A log of whole turns stays one when a question and its answer are       *)
(* appended.                                                               *)
LEMMA WholeMore ==
  ASSUME NEW old \in Seq(Message), NEW new \in Seq(Message), Whole(old),
         Len(new) = Len(old) + 2, \A i \in 1..Len(old) : new[i] = old[i],
         new[Len(old) + 1].role = "user", new[Len(old) + 2].role = "assistant",
         new[Len(old) + 1].turn = new[Len(old) + 2].turn
  PROVE  Whole(new)
<1>1. Len(old) \in Nat /\ Len(old) % 2 = 0
  BY DEF Whole
<1>2. Len(new) % 2 = 0
  BY <1>1, Halves
<1>3. ASSUME NEW i \in 1..(Len(new) \div 2)
      PROVE  LET q == new[2 * i - 1] a == new[2 * i] IN
             q.role = "user" /\ a.role = "assistant" /\ q.turn = a.turn
  <2>1. CASE i \in 1..(Len(old) \div 2) /\ 2 * i - 1 \in 1..Len(old) /\ 2 * i \in 1..Len(old)
    <3>1. new[2 * i - 1] = old[2 * i - 1] /\ new[2 * i] = old[2 * i]
      BY <2>1
    <3>2. QED
      BY <2>1, <3>1 DEF Whole
  <2>2. CASE 2 * i - 1 = Len(old) + 1 /\ 2 * i = Len(old) + 2
    BY <2>2
  <2>3. QED
    BY <1>1, <2>1, <2>2, Halves
<1>4. QED
  BY <1>2, <1>3 DEF Whole

\* A request that is over relies on nothing.
LEMMA EndedOK ==
  ASSUME TypeOK', NEW r \in Requests,
         job'[r].pc = "ended", job'[r].hist = {}, job'[r].seen = {}
  PROVE  JobOK(r)' /\ HistoryOK(r)'
<1>1. JobOK(r)'
  BY DEF JobOK, TypeOK, JobType
<1>2. IsFiniteSet({}) /\ Cardinality({}) = 0
  BY FS_EmptySet
<1>3. HistoryOK(r)'
  BY <1>2, ConversationAssumption DEF HistoryOK, CutsOldest
<1>4. QED
  BY <1>1, <1>3

(* A request ends by storing its turn in a session of its user's, one that  *)
(* may be new.                                                              *)
LEMMA TurnStored ==
  ASSUME ConversationInv, TypeOK', NEW r \in Requests, NEW s \in Ids, NEW u \in alive,
         session'[s] = [phase |-> "live", owner |-> u], Adds(s, r),
         \A t \in Ids \ {s} : session'[t] = session[t] /\ log'[t] = log[t],
         UNCHANGED alive, job[r].pc \notin {"idle", "ended"}, job[r].user = u,
         \/ session[s].phase \in {"pending", "live"} /\ session[s].owner = u
         \/ s = NewId /\ r \notin Openers,
         \A q \in Requests \ {r} : job'[q] = job[q],
         job'[r].pc = "ended", job'[r].told = s, job'[r].user = u,
         job'[r].shown = job[r].shown, job'[r].hist = {}, job'[r].seen = {}
  PROVE  ConversationInv'
<1> DEFINE n == Len(log[s])
<1>0. /\ TypeOK /\ KeysInOrder /\ MessagesOK
      /\ \A t \in Ids : SessionOK(t) /\ Whole(log[t])
  BY DEF ConversationInv, TurnsWhole, Whole
<1>1. /\ log[s] \in Seq(Message) /\ log'[s] \in Seq(Message)
      /\ n \in Nat /\ Len(log'[s]) = n + 2
      /\ \A i \in 1..n : log'[s][i] = log[s][i]
      /\ log'[s][n + 1].role = "user" /\ log'[s][n + 1].turn = r
      /\ log'[s][n + 2].role = "assistant" /\ log'[s][n + 2].turn = r
      /\ log'[s][n + 2].content = job[r].shown
  BY DEF Adds
<1>3. ~Used(s) => log[s] = <<>> /\ s = NewId /\ r \notin Openers
  BY <1>0, NextKey DEF SessionOK, Used
<1>4. Used(s) => session[s].phase \in {"pending", "live"} /\ session[s].owner = u
  BY NextKey DEF Used
<1>5. Evolves
  BY <1>4 DEF Evolves, Used
<1>6. OverStays
  BY DEF OverStays
<1>7. \A t \in Ids : \A i \in 1..Len(log[t]) :
        Written(t, log[t][i]) /\ log[t][i] \in Message
  BY <1>0 DEF MessagesOK, TypeOK
<1>o. OldStays
  <2> SUFFICES ASSUME NEW t \in Ids, NEW i \in DOMAIN log'[t]
               PROVE  \/ i \in DOMAIN log[t] /\ log'[t][i] = log[t][i]
                      \/ job[log'[t][i].turn].pc # "ended"
    BY DEF OldStays
  <2>1. CASE t = s
    <3>1. i \in 1..n \/ i = n + 1 \/ i = n + 2
      BY <1>1, <2>1
    <3>2. QED
      BY <1>1, <2>1, <3>1
  <2>2. CASE t # s
    BY <2>2
  <2>3. QED
    BY <2>1, <2>2
<1>8. \A q \in Requests \ {r} : JobOK(q)' /\ HistoryOK(q)' /\ KeptOK(q)'
  <2> TAKE q \in Requests \ {r}
  <2>1. ASSUME NEW t \in Ids, StoredIn(q, t) PROVE StoredIn(q, t)'
    <3>1. PICK i \in 1..Len(log[t]) : log[t][i].turn = q
      BY <1>0, <2>1 DEF StoredIn, TypeOK
    <3>2. i \in 1..Len(log'[t]) /\ log'[t][i] = log[t][i]
      BY <1>1, <3>1
    <3>3. log'[t] \in Seq(Message)
      BY DEF TypeOK
    <3>4. QED
      BY <3>1, <3>2, <3>3 DEF StoredIn
  <2>2. QED
    BY <1>5, <1>6, <1>o, <2>1, Unmoved
<1>9. JobOK(r)' /\ HistoryOK(r)'
  BY EndedOK
<1>10. KeptOK(r)'
  <2>1. StoredIn(r, s)'
    <3>1. n + 1 \in DOMAIN log'[s]
      BY <1>1
    <3>2. log'[s][n + 1].turn = r
      BY <1>1
    <3>3. QED
      BY <3>1, <3>2 DEF StoredIn
  <2>2. QED
    BY <2>1 DEF KeptOK, Used
<1>11. TurnsWhole'
  <2>1. Whole(log'[s])
    <3>1. /\ log'[s][n + 1].role = "user" /\ log'[s][n + 2].role = "assistant"
          /\ log'[s][n + 1].turn = log'[s][n + 2].turn
      BY <1>1
    <3>2. QED
      BY <1>0, <1>1, <3>1, WholeMore DEF Whole
  <2>2. \A t \in Ids : Whole(log'[t])
    BY <1>0, <2>1
  <2>3. QED
    BY <2>2 DEF TurnsWhole, Whole
<1>12. MessagesOK'
  <2> SUFFICES ASSUME NEW t \in Ids, NEW i \in 1..Len(log'[t]) PROVE Written(t, log[t][i])'
    BY DEF MessagesOK
  <2>1. CASE i \in 1..Len(log[t])
    <3>1. log'[t][i] = log[t][i] /\ session'[t].owner = session[t].owner
      BY <1>1, <1>3, <1>4, <2>1
    <3>2. Written(t, log[t][i]) /\ log[t][i].turn \in Requests
      BY <1>7, <2>1 DEF Message
    <3>3. job'[log[t][i].turn] = job[log[t][i].turn]
      BY <1>6, <3>2 DEF Written, OverStays
    <3>4. QED
      BY <3>1, <3>2, <3>3 DEF Written
  <2>2. CASE t = s /\ i \in {n + 1, n + 2}
    <3>1. log'[t][i].turn = r /\ (i = n + 2 => log'[t][i].content = job[r].shown)
      BY <1>1, <2>2
    <3>2. log'[t][i].role = "assistant" => i = n + 2
      BY <1>1, <2>2
    <3>3. QED
      BY <2>2, <3>1, <3>2 DEF Written
  <2>3. i \in 1..Len(log[t]) \/ (t = s /\ i \in {n + 1, n + 2})
    <3>1. CASE t = s
      <4>1. n \in Nat /\ Len(log'[s]) = n + 2
        BY <1>1
      <4>2. QED
        BY <3>1, <4>1
    <3>2. CASE t # s
      BY <1>1, <3>2
    <3>3. QED
      BY <3>1, <3>2
  <2>4. QED
    BY <2>1, <2>2, <2>3
<1>13. \A t \in Ids : SessionOK(t)'
  BY <1>0 DEF SessionOK
<1>14. KeysInOrder'
  <2>1. Openers \cup {r} \subseteq Openers'
    BY DEF Openers
  <2>2. \A t \in Ids : Used(t)' <=> Used(t) \/ t = s
    BY DEF Used
  <2>3. QED
    BY <1>3, <2>1, <2>2, KeysStay
<1>15. QED
  BY <1>8, <1>9, <1>10, <1>11, <1>12, <1>13, <1>14 DEF ConversationInv
(* A session is opened for a request that has not opened one.               *)
LEMMA SessionOpened ==
  ASSUME ConversationInv, TypeOK', NEW r \in Requests, r \notin Openers, r \in Openers',
         NEW u \in alive, NEW ph \in {"pending", "live"},
         session'[NewId] = [phase |-> ph, owner |-> u],
         \A t \in Ids \ {NewId} : session'[t] = session[t],
         UNCHANGED <<log, alive>>,
         \A q \in Requests \ {r} : job'[q] = job[q],
         JobOK(r)', HistoryOK(r)', KeptOK(r)'
  PROVE  ConversationInv'
<1>0. /\ TypeOK /\ KeysInOrder /\ MessagesOK /\ TurnsWhole
      /\ \A t \in Ids : SessionOK(t)
  BY DEF ConversationInv
<1>1. NewId \in Ids /\ ~Used(NewId)
  BY NextKey
<1>2. log[NewId] = <<>>
  BY <1>0, <1>1 DEF SessionOK, Used
<1>3. Evolves
  BY <1>1 DEF Evolves, Used
<1>4. OverStays
  BY DEF OverStays, Openers
<1>5. \A q \in Requests \ {r} : JobOK(q)' /\ HistoryOK(q)' /\ KeptOK(q)'
  BY <1>3, <1>4, Unmoved DEF StoredIn, OldStays
<1>6. KeysInOrder'
  <2>1. Openers \cup {r} \subseteq Openers'
    BY DEF Openers
  <2>2. \A t \in Ids : Used(t)' <=> Used(t) \/ t = NewId
    BY <1>1 DEF Used
  <2>3. QED
    BY <2>1, <2>2, KeysStay
<1>7. TurnsWhole'
  BY <1>0 DEF TurnsWhole
<1>8. \A s \in Ids : SessionOK(s)'
  BY <1>0, <1>1, <1>2 DEF SessionOK
<1>9. MessagesOK'
  <2> SUFFICES ASSUME NEW s \in Ids, NEW i \in 1..Len(log[s]) PROVE Written(s, log[s][i])'
    BY DEF MessagesOK
  <2>1. Written(s, log[s][i]) /\ log[s][i] \in Message
    <3>1. log[s] \in Seq(Message)
      BY <1>0 DEF TypeOK
    <3>2. QED
      BY <1>0, <3>1 DEF MessagesOK
  <2>2. log[s][i].turn \in Requests /\ session'[s].owner = session[s].owner
    BY <1>1, <1>2, <2>1 DEF Message
  <2>3. QED
    BY <1>4, <2>1, <2>2 DEF Written, OverStays
<1>10. QED
  BY <1>5, <1>6, <1>7, <1>8, <1>9 DEF ConversationInv

(* Sessions are deleted with their messages, perhaps with the user who owns *)
(* them, and nobody else's.                                                 *)
LEMMA SessionsRemoved ==
  ASSUME ConversationInv, TypeOK', NEW r \in Requests, NEW S \in SUBSET Ids,
         \A s \in S : session[s].phase \in {"live", "gone"},
         Removed(S),
         alive' \subseteq alive,
         \A s \in Ids \ S : session[s].phase \in {"pending", "live"} =>
                             session[s].owner \in alive',
         job[r].pc # "ended", \A q \in Requests \ {r} : job'[q] = job[q],
         job'[r].pc = "ended", job'[r].hist = {}, job'[r].seen = {}, KeptOK(r)'
  PROVE  ConversationInv'
<1>0. /\ TypeOK /\ KeysInOrder /\ MessagesOK
      /\ \A t \in Ids : SessionOK(t) /\ Whole(log[t])
  BY DEF ConversationInv, TurnsWhole, Whole
<1>1. /\ \A s \in S : /\ session'[s].phase = "gone" /\ session'[s].owner = session[s].owner
                      /\ log'[s] = <<>>
      /\ \A s \in Ids \ S : session'[s] = session[s] /\ log'[s] = log[s]
  BY <1>0 DEF Removed, TypeOK
<1>2. Evolves
  BY <1>0, <1>1 DEF Evolves, Used
<1>3. OverStays
  BY DEF OverStays
<1>4. \A q \in Requests \ {r} : JobOK(q)' /\ HistoryOK(q)' /\ KeptOK(q)'
  <2>1. OldStays
    BY <1>1 DEF OldStays
  <2>2. QED
    BY <1>1, <1>2, <1>3, <2>1, Unmoved DEF StoredIn
<1>5. JobOK(r)' /\ HistoryOK(r)'
  BY EndedOK
<1>6. KeysInOrder'
  <2>1. Openers \cup {r} \subseteq Openers'
    BY DEF Openers
  <2>2. \A t \in Ids : Used(t)' <=> Used(t)
    BY <1>1 DEF Used
  <2>3. QED
    BY <2>1, <2>2, KeysStay
<1>7. TurnsWhole'
  <2>1. Whole(<<>>)
    BY DEF Whole
  <2>2. \A t \in Ids : Whole(log'[t])
    BY <1>0, <1>1, <2>1
  <2>3. QED
    BY <2>2 DEF TurnsWhole, Whole
<1>8. \A s \in Ids : SessionOK(s)'
  BY <1>0, <1>1 DEF SessionOK
<1>9. MessagesOK'
  <2> SUFFICES ASSUME NEW s \in Ids, NEW i \in 1..Len(log'[s]) PROVE Written(s, log[s][i])'
    BY DEF MessagesOK
  <2>1. s \notin S /\ log'[s] = log[s] /\ session'[s].owner = session[s].owner
    BY <1>1
  <2>2. Written(s, log[s][i]) /\ log[s][i] \in Message
    BY <1>0, <2>1 DEF MessagesOK, TypeOK
  <2>3. QED
    BY <1>3, <2>1, <2>2 DEF Written, OverStays, Message
<1>10. QED
  BY <1>4, <1>5, <1>6, <1>7, <1>8, <1>9 DEF ConversationInv
-----------------------------------------------------------------------------
(* The history a request reads.                                             *)

(* The history a request reads is of turns that are over, at most          *)
(* MaxHistory messages, and cuts none but the oldest.                      *)
LEMMA RecentIsHistory ==
  ASSUME ConversationInv, NEW s \in Ids, NEW h \in Recent(s)
  PROVE  /\ h \subseteq Message
         /\ IsFiniteSet(h) /\ Cardinality(h) <= MaxHistory
         /\ \A m \in h : Written(s, m)
         /\ CutsOldest(h, log[s])
<1> DEFINE n == Len(log[s])
<1>1. log[s] \in Seq(Message) /\ n \in Nat /\ DOMAIN log[s] = 1..n /\ MaxHistory \in Nat
  BY ConversationAssumption DEF ConversationInv, TypeOK
<1>2. PICK J \in SUBSET (1..n) :
        /\ h = {log[s][i] : i \in J}
        /\ Cardinality(J) = IF n < MaxHistory THEN n ELSE MaxHistory
        /\ \A i \in J, k \in (1..n) \ J : ~(log[s][k].at > log[s][i].at)
  BY <1>1 DEF Recent, Fetched
<1>3. \A i \in 1..n : log[s][i] \in Message /\ Written(s, log[s][i])
  BY <1>1 DEF ConversationInv, MessagesOK
<1>4. h \subseteq Message /\ \A m \in h : Written(s, m)
  BY <1>2, <1>3
<1>5. IsFiniteSet(J)
  <2>1. 1 \in Int /\ n \in Int
    BY <1>1
  <2>2. IsFiniteSet(1..n)
    BY <2>1, FS_Interval
  <2>3. QED
    BY <1>2, <2>2, FS_Subset
<1>6. [i \in J |-> log[s][i]] \in Surjection(J, h)
  BY <1>2 DEF Surjection
<1>7. IsFiniteSet(h) /\ Cardinality(h) <= MaxHistory
  <2>1. IsFiniteSet(h) /\ Cardinality(h) <= Cardinality(J)
    BY <1>5, <1>6, FS_Surjection
  <2>2. Cardinality(h) \in Nat
    BY <2>1, FS_CardinalityType
  <2>3. QED
    BY <1>1, <1>2, <2>1, <2>2
<1>8. CutsOldest(h, log[s])
  <2>1. SUFFICES ASSUME NEW k \in 1..n, log[s][k] \notin h, NEW y \in h
                 PROVE  log[s][k].at <= y.at
    BY <1>1 DEF CutsOldest
  <2>2. PICK i \in J : y = log[s][i]
    BY <1>2
  <2>3. k \notin J
    BY <1>2, <2>1
  <2>4. log[s][k].at \in Nat /\ log[s][i].at \in Nat /\ ~(log[s][k].at > log[s][i].at)
    BY <1>2, <1>3, <2>2, <2>3 DEF Message
  <2>5. QED
    BY <2>2, <2>4
<1>9. QED
  BY <1>4, <1>7, <1>8
-----------------------------------------------------------------------------
(* The actions.                                                             *)

(* Initially nothing is stored and nobody relies on anything.              *)
LEMMA ConversationInit == Init => ConversationInv
<1> SUFFICES ASSUME Init PROVE ConversationInv
  OBVIOUS
<1>1. TypeOK
  BY ConversationAssumption DEF Init, TypeOK, JobType, Idle, Phases, Contents, Ids
<1>2. KeysInOrder
  <2>1. \A s \in Ids : ~Used(s) /\ ~(s <= 0)
    BY DEF Init, Used, Ids
  <2>2. QED
    BY <2>1, OpenersFinite, ConversationAssumption DEF KeysInOrder
<1>3. TurnsWhole /\ MessagesOK /\ \A s \in Ids : SessionOK(s)
  BY DEF Init, TurnsWhole, MessagesOK, SessionOK
<1>4. ASSUME NEW r \in Requests PROVE JobOK(r) /\ HistoryOK(r) /\ KeptOK(r)
  <2>1. job[r] = Idle
    BY DEF Init
  <2>2. IsFiniteSet({}) /\ Cardinality({}) = 0
    BY FS_EmptySet
  <2>3. QED
    BY <2>1, <2>2, ConversationAssumption DEF JobOK, HistoryOK, KeptOK, Idle, CutsOldest
<1>5. QED
  BY <1>1, <1>2, <1>3, <1>4 DEF ConversationInv

(* A request begins: it takes its read view and its history.               *)
LEMMA BeginSafe ==
  ASSUME ConversationInv, NEW r \in Requests, Begin(r)
  PROVE  ConversationInv'
<1>0. TypeOK /\ job[r] = Idle /\ UNCHANGED <<session, log, alive, failures>>
  BY DEF ConversationInv, JobOK, Begin, db
<1> DEFINE Started(u, k, s) ==
             LET seen == {t \in Ids : Live(t)}
                 mine == s \in seen /\ session[s].owner = u
                 refused == k \in {"delete", "rename"} /\ ~mine
             IN \E hist \in IF mine /\ k \in {"ask", "stream"} THEN Recent(s) ELSE {{}} :
                  job' = [job EXCEPT ![r] = [Idle EXCEPT
                    !.pc = IF refused THEN "ended" ELSE FirstStep(k),
                    !.kind = k, !.user = u, !.sid = s, !.seen = seen, !.hist = hist,
                    !.reply = IF refused THEN "error" ELSE "none"]]
<1>a. PICK u \in UsersOf[r] \cap alive, k \in KindsOf[r] : \E s \in Sids(k) : Started(u, k, s)
  BY DEF Begin
<1>1. PICK s \in Sids(k) : Started(u, k, s)
  BY <1>a
<1>2. u \in Users /\ k \in Kinds /\ s \in Ids \cup {0}
  BY <1>0, <1>1, ConversationAssumption DEF TypeOK, Sids, Kinds
<1> DEFINE seen == {t \in Ids : Live(t)}
           mine == s \in seen /\ session[s].owner = u
           refused == k \in {"delete", "rename"} /\ ~mine
           j == job'[r]
<1>h. PICK hist \in IF mine /\ k \in {"ask", "stream"} THEN Recent(s) ELSE {{}} :
        job' = [job EXCEPT ![r] = [Idle EXCEPT
                 !.pc = IF refused THEN "ended" ELSE FirstStep(k),
                 !.kind = k, !.user = u, !.sid = s, !.seen = seen, !.hist = hist,
                 !.reply = IF refused THEN "error" ELSE "none"]]
  BY <1>1
<1>3. /\ j.pc = IF refused THEN "ended" ELSE FirstStep(k)
      /\ j.kind = k /\ j.user = u /\ j.sid = s /\ j.seen = seen /\ j.hist = hist
      /\ j.reply = IF refused THEN "error" ELSE "none"
      /\ j.context = FALSE /\ j.told = 0 /\ j.shown = "none"
      /\ \A q \in Requests \ {r} : job'[q] = job[q]
  BY <1>0, <1>h DEF TypeOK, JobType, Idle
<1>4. hist \subseteq Message
  BY RecentIsHistory
<1>5. FirstStep(k) \in {"answering", "announcing", "creating", "deleting", "renaming", "purging"}
  BY <1>2 DEF Kinds, FirstStep
<1>6. TypeOK'
  <2>1. j \in JobType
    <3>1. j = [pc |-> j.pc, kind |-> k, user |-> u, sid |-> s, seen |-> seen, hist |-> hist,
               context |-> FALSE, told |-> 0, shown |-> "none", reply |-> j.reply]
      BY <1>0, <1>h, <1>3 DEF TypeOK, Idle
    <3>2. QED
      BY <1>2, <1>3, <1>4, <1>5, <3>1, ZenonT(60) DEF JobType, Kinds, Contents
  <2>2. job' \in [Requests -> JobType]
    BY <1>0, <1>h, <2>1 DEF TypeOK
  <2>3. QED
    BY <1>0, <2>2 DEF TypeOK
<1>7. JobOK(r)'
  <2>1. refused => j.pc = "ended"
    BY <1>3
  <2>2. ~refused => j.pc = FirstStep(k) /\ j.reply = "none"
    BY <1>3
  <2>3. \A t \in seen : session'[t].phase = "live"
    BY <1>0 DEF Live
  <2>4. /\ FirstStep(k) = "answering" => k = "ask"
        /\ FirstStep(k) = "announcing" => k = "stream"
        /\ FirstStep(k) \in {"deleting", "renaming"} => k \in {"delete", "rename"}
        /\ FirstStep(k) \in {"creating", "deleting", "renaming", "purging"} => k \notin {"ask", "stream"}
    BY <1>2 DEF Kinds, FirstStep
  <2>5. QED
    BY <1>2, <1>3, <1>5, <2>1, <2>2, <2>3, <2>4 DEF JobOK
<1>8. HistoryOK(r)'
  <2>1. CASE hist = {}
    BY <1>3, <2>1, FS_EmptySet, ConversationAssumption DEF HistoryOK, CutsOldest
  <2>2. CASE mine /\ hist \in Recent(s)
    <3>1. s \in Ids
      BY <2>2
    <3>2. \A m \in hist : m.turn # r /\ m.turn \in Requests
      BY <1>0, <1>4, <2>2, <3>1, RecentIsHistory DEF Written, Idle, Message
    <3>3. /\ IsFiniteSet(hist) /\ Cardinality(hist) <= MaxHistory
          /\ CutsOldest(hist, log[s]) /\ \A m \in hist : Written(s, m)
      BY <2>2, <3>1, RecentIsHistory
    <3>4. session[s].owner = u
      BY <2>2
    <3>5. /\ IsFiniteSet(hist) /\ Cardinality(hist) <= MaxHistory
          /\ CutsOldest(hist, log[s])
          /\ \A m \in hist :
               job[m.turn].pc = "ended" /\ job[m.turn].told = s /\ job[m.turn].user = u
      BY <3>3, <3>4 DEF Written
    <3>6. \A m \in hist : job'[m.turn] = job[m.turn]
      BY <1>3, <3>2
    <3>7. QED
      BY <1>0, <1>3, <3>1, <3>5, <3>6 DEF HistoryOK
  <2>3. QED
    BY <2>1, <2>2
<1>9. KeptOK(r)'
  BY <1>3 DEF KeptOK
<1>10. r \notin Openers /\ job[r].pc # "ended"
  BY <1>0 DEF Openers, Idle
<1>11. QED
  <2> HIDE DEF seen, mine, refused, Started
  <2>1. {r} \in SUBSET Requests /\ UNCHANGED <<log, alive>>
        /\ (\A t \in Ids : session'[t] = session[t])
        /\ (\A q \in Requests \ {r} : job'[q] = job[q])
    BY <1>0, <1>3
  <2>2. QED
    BY <1>6, <1>7, <1>8, <1>9, <1>10, <2>1, Quiet

\* What is left of a request that is over.
LEMMA EndFields ==
  ASSUME TypeOK, NEW r \in Requests, NEW reply \in {"ok", "done", "unkept", "error", "cut"}
  PROVE  LET e == Ended(job[r], reply) j == job[r] IN
         /\ e \in JobType
         /\ e.pc = "ended" /\ e.hist = {} /\ e.seen = {} /\ e.reply = reply
         /\ e.kind = j.kind /\ e.user = j.user /\ e.context = j.context
         /\ e.told = j.told /\ e.shown = j.shown
<1>1. job[r] \in JobType
  BY DEF TypeOK
<1>2. QED
  BY <1>1, ZenonT(60) DEF Ended, JobType, Ids

(* Requests that end without storing anything, their transactions rolled     *)
(* back or without effect.                                                   *)
LEMMA RequestsEnd ==
  ASSUME ConversationInv, NEW R \in SUBSET Requests,
         job' \in [Requests -> JobType], failures' \in 0..MaxFailures,
         \A q \in R : /\ job[q].pc # "ended"
                      /\ job'[q].pc = "ended" /\ job'[q].hist = {} /\ job'[q].seen = {}
                      /\ KeptOK(q)',
         \A q \in Requests \ R : job'[q] = job[q],
         session' \in {session, RolledBack(R)}, UNCHANGED <<log, alive>>
  PROVE  ConversationInv'
<1>0. TypeOK
  BY DEF ConversationInv
<1>1. ASSUME NEW s \in Ids
      PROVE  /\ session'[s] \in [phase : Phases, owner : Users \cup {"none"}]
             /\ \/ session'[s] = session[s]
                \/ /\ session[s].phase = "pending"
                   /\ session'[s].phase = "gone" /\ session'[s].owner = session[s].owner
  <2>1. session[s] \in [phase : Phases, owner : Users \cup {"none"}]
    BY <1>0 DEF TypeOK
  <2>2. \/ session'[s] = session[s]
        \/ session[s].phase = "pending" /\ session'[s] = [session[s] EXCEPT !.phase = "gone"]
    BY DEF RolledBack
  <2>3. QED
    BY <2>1, <2>2 DEF Phases
<1>2. session' \in [Ids -> [phase : Phases, owner : Users \cup {"none"}]]
  <2>1. session' = [s \in Ids |-> session'[s]]
    BY <1>0 DEF RolledBack, TypeOK
  <2>2. QED
    BY <1>1, <2>1
<1>3. TypeOK'
  BY <1>0, <1>2 DEF TypeOK
<1>4. \A q \in R : JobOK(q)' /\ HistoryOK(q)' /\ KeptOK(q)'
  BY <1>3, EndedOK
<1>5. \A s \in Ids : \/ session'[s] = session[s]
                     \/ /\ session[s].phase = "pending"
                        /\ session'[s].phase = "gone" /\ session'[s].owner = session[s].owner
  BY <1>1
<1>6. \A q \in R : /\ job[q].pc # "ended"
                   /\ q \in Openers => job'[q].pc = "ended" \/ (job'[q].kind = "stream" /\ job'[q].pc = "persisting")
                   /\ JobOK(q)' /\ HistoryOK(q)' /\ KeptOK(q)'
  <2> TAKE q \in R
  <2>1. job[q].pc # "ended" /\ job'[q].pc = "ended"
    OBVIOUS
  <2>2. QED
    BY <1>4, <2>1
<1>7. QED
  BY <1>3, <1>5, <1>6, Quiet

\* Request r ends without storing anything.
EndsWithout(r, reply) ==
  /\ job' \in [Requests -> JobType]
  /\ \A q \in Requests \ {r} : job'[q] = job[q]
  /\ job'[r].pc = "ended" /\ job'[r].hist = {} /\ job'[r].seen = {}
  /\ job'[r].kind = job[r].kind /\ job'[r].context = job[r].context /\ job'[r].reply = reply

(* A request that ends without storing anything, its pending session       *)
(* rolled back or not.                                                     *)
LEMMA RequestEnds ==
  ASSUME ConversationInv, NEW r \in Requests, NEW reply, EndsWithout(r, reply),
         job[r].pc # "ended", failures' \in 0..MaxFailures,
         \/ job[r].kind \notin {"ask", "stream"} \/ reply \notin {"ok", "done"}
         \/ job[r].kind = "stream" /\ ~job[r].context,
         session' \in {session, RolledBack({r})}, UNCHANGED <<log, alive>>
  PROVE  ConversationInv'
<1>1. KeptOK(r)'
  BY DEF KeptOK, EndsWithout
<1>2. /\ {r} \in SUBSET Requests
      /\ \A q \in {r} : /\ job[q].pc # "ended"
                      /\ job'[q].pc = "ended" /\ job'[q].hist = {} /\ job'[q].seen = {}
                      /\ KeptOK(q)'
      /\ \A q \in Requests \ {r} : job'[q] = job[q]
      /\ job' \in [Requests -> JobType]
  BY <1>1 DEF EndsWithout
<1>3. QED
  BY <1>2, RequestsEnd

\* A history stays what it was while its request goes on.
LEMMA HistoryKept ==
  ASSUME TypeOK, NEW r \in Requests, HistoryOK(r), job[r].pc # "ended",
         \A q \in Requests \ {r} : job'[q] = job[q],
         job'[r].hist = job[r].hist, job'[r].user = job[r].user, job'[r].sid = job[r].sid,
         UNCHANGED log
  PROVE  HistoryOK(r)'
<1>1. job[r] \in JobType
  BY DEF TypeOK
<1>2. \A m \in job[r].hist : job'[m.turn] = job[m.turn]
  BY <1>1 DEF HistoryOK, JobType, Message
<1>3. CutsOldest(job[r].hist, log[job[r].sid])'
  BY DEF HistoryOK
<1>4. QED
  BY <1>2, <1>3 DEF HistoryOK

\* The session a request goes on with, if it is not a new one.
LEMMA OwnedSession ==
  ASSUME ConversationInv, NEW r \in Requests, Owned(job[r])
  PROVE  /\ job[r].sid \in Ids /\ session[job[r].sid].phase \in {"live", "gone"}
         /\ session[job[r].sid].owner = job[r].user
<1>1. job[r] \in JobType /\ JobOK(r)
  BY DEF ConversationInv, TypeOK
<1>2. QED
  BY <1>1 DEF Owned, JobOK, JobType

(* The model answers a question.                                           *)
LEMMA AnswerSafe ==
  ASSUME ConversationInv, NEW r \in Requests, Answer(r)
  PROVE  ConversationInv'
<1>0. TypeOK /\ job[r] \in JobType /\ JobOK(r) /\ HistoryOK(r) /\ job[r].pc = "answering"
  BY DEF ConversationInv, TypeOK, Answer
<1>1. PICK shown \in {"full", "notice"} :
        job' = [job EXCEPT ![r] = [job[r] EXCEPT !.shown = shown, !.pc = "persisting"]]
  BY <1>0 DEF Answer, TypeOK
<1> DEFINE e == [job[r] EXCEPT !.shown = shown, !.pc = "persisting"]
<1>2. /\ e \in JobType /\ e.pc = "persisting" /\ e.kind = "ask" /\ e.user = job[r].user
      /\ e.sid = job[r].sid /\ e.seen = job[r].seen /\ e.hist = job[r].hist
      /\ e.reply = "none" /\ e.told = job[r].told
  BY <1>0 DEF JobOK, JobType, Contents
<1>3. job'[r] = e /\ (\A q \in Requests \ {r} : job'[q] = job[q]) /\ job' \in [Requests -> JobType]
  BY <1>0, <1>1, <1>2 DEF TypeOK
<1>4. UNCHANGED <<session, log, alive, failures>>
  BY DEF Answer, db
<1> HIDE DEF e
<1>5. TypeOK'
  BY <1>0, <1>3, <1>4 DEF TypeOK
<1>6. JobOK(r)'
  BY <1>0, <1>2, <1>3, <1>4 DEF JobOK
<1>7. HistoryOK(r)'
  <2>1. job'[r].hist = job[r].hist /\ job'[r].user = job[r].user /\ job'[r].sid = job[r].sid
    BY <1>2, <1>3
  <2>2. QED
    BY <1>0, <1>3, <1>4, <2>1, HistoryKept
<1>8. KeptOK(r)'
  BY <1>2, <1>3 DEF KeptOK
<1>9. r \notin Openers /\ job[r].pc # "ended"
  BY <1>0 DEF Openers, JobOK
<1>10. /\ {r} \in SUBSET Requests /\ UNCHANGED <<log, alive>>
       /\ (\A t \in Ids : session'[t] = session[t])
       /\ (\A q \in Requests \ {r} : job'[q] = job[q])
  BY <1>3, <1>4
<1>11. QED
  BY <1>5, <1>6, <1>7, <1>8, <1>9, <1>10, Quiet

(* A session is renamed.                                                   *)
LEMMA RenameSafe ==
  ASSUME ConversationInv, NEW r \in Requests, RenameSession(r)
  PROVE  ConversationInv'
<1>0. TypeOK /\ JobOK(r) /\ job[r].pc = "renaming" /\ UNCHANGED <<session, log, alive, failures>>
  BY DEF ConversationInv, RenameSession, db
<1>1. PICK reply \in {"ok", "error"} : job' = [job EXCEPT ![r] = Ended(job[r], reply)]
  BY <1>0 DEF RenameSession, End, TypeOK
<1>2. EndsWithout(r, reply)
  BY <1>0, <1>1, EndFields DEF EndsWithout, TypeOK
<1>3. job[r].kind \notin {"ask", "stream"}
  BY <1>0 DEF JobOK
<1>4. QED
  BY <1>0, <1>2, <1>3, RequestEnds DEF TypeOK

(* A stream flushes its new session and tells its key, or tells that of    *)
(* the one it continues.                                                   *)
LEMMA AnnounceSafe ==
  ASSUME ConversationInv, NEW r \in Requests, Announce(r)
  PROVE  ConversationInv'
<1> DEFINE s == Target(job[r])
<1>0. /\ TypeOK /\ job[r] \in JobType /\ JobOK(r) /\ HistoryOK(r) /\ job[r].pc = "announcing"
      /\ UNCHANGED <<log, alive, failures>>
  BY DEF ConversationInv, TypeOK, Announce
<1>1. job[r].kind = "stream" /\ job[r].reply = "none" /\ r \notin Openers
  BY <1>0 DEF JobOK, Openers
<1>2. CASE /\ Owned(job[r]) \/ job[r].user \in alive
           /\ session' = IF Owned(job[r]) THEN session
                         ELSE [session EXCEPT ![s] = [phase |-> "pending", owner |-> job[r].user]]
           /\ \E context \in BOOLEAN :
                job' = [job EXCEPT ![r].context = context, ![r].told = s, ![r].pc = "streaming"]
  <2>1. PICK context \in BOOLEAN :
          job' = [job EXCEPT ![r] = [job[r] EXCEPT !.context = context, !.told = s, !.pc = "streaming"]]
    BY <1>0, <1>2 DEF TypeOK
  <2> DEFINE e == [job[r] EXCEPT !.context = context, !.told = s, !.pc = "streaming"]
  <2>2. s \in Ids
    BY <1>1, NextKey, OwnedSession DEF Target
  <2>3. /\ e \in JobType /\ e.pc = "streaming" /\ e.kind = "stream" /\ e.user = job[r].user
        /\ e.sid = job[r].sid /\ e.seen = job[r].seen /\ e.hist = job[r].hist
        /\ e.reply = "none" /\ e.told = s
    BY <1>0, <1>1, <2>2 DEF JobType
  <2>4. /\ job'[r] = e /\ job' \in [Requests -> JobType]
        /\ \A q \in Requests \ {r} : job'[q] = job[q]
    BY <1>0, <2>1, <2>3 DEF TypeOK
  <2> HIDE DEF e, s
  <2>5. HistoryOK(r)'
    <3>1. /\ job'[r].hist = job[r].hist /\ job'[r].user = job[r].user
          /\ job'[r].sid = job[r].sid /\ job[r].pc # "ended"
      BY <1>0, <2>3, <2>4
    <3>2. QED
      BY <1>0, <2>4, <3>1, HistoryKept
  <2>6. KeptOK(r)'
    BY <2>3, <2>4 DEF KeptOK
  <2>7. r \in Openers'
    BY <2>3, <2>4 DEF Openers
  <2>8. CASE Owned(job[r])
    <3>1. s = job[r].sid /\ session' = session /\ Used(s) /\ session[s].owner = job[r].user
      BY <1>2, <2>8, OwnedSession DEF Target, Used, s
    <3>2. TypeOK'
      BY <1>0, <2>4, <3>1 DEF TypeOK
    <3>3. JobOK(r)'
      BY <1>0, <2>2, <2>3, <2>4, <3>1 DEF JobOK, Used
    <3>4. /\ {r} \in SUBSET Requests /\ UNCHANGED <<log, alive>> /\ job[r].pc # "ended"
          /\ (\A t \in Ids : session'[t] = session[t])
      BY <1>0, <3>1
    <3>5. QED
      BY <1>1, <2>4, <2>5, <2>6, <3>2, <3>3, <3>4, Quiet
  <2>9. CASE ~Owned(job[r])
    <3>1. /\ s = NewId /\ ~Used(s) /\ job[r].user \in alive
          /\ session' = [session EXCEPT ![s] = [phase |-> "pending", owner |-> job[r].user]]
      BY <1>1, <1>2, <2>9, NextKey DEF Target, s
    <3>2. /\ session'[s] = [phase |-> "pending", owner |-> job[r].user]
          /\ session'[s].phase = "pending" /\ session'[s].owner = job[r].user
          /\ \A t \in Ids \ {s} : session'[t] = session[t]
      BY <1>0, <2>2, <3>1 DEF TypeOK
    <3>3. TypeOK'
      BY <1>0, <2>4, <3>1 DEF TypeOK, Phases
    <3>4. JobOK(r)'
      BY <1>0, <2>2, <2>3, <2>4, <3>1, <3>2 DEF JobOK, Used
    <3>5. QED
      BY <1>0, <1>1, <2>4, <2>5, <2>6, <2>7, <3>1, <3>2, <3>3, <3>4, SessionOpened
  <2>10. QED
    BY <2>8, <2>9
<1>3. CASE End(r, "error") /\ UNCHANGED session
  <2>1. EndsWithout(r, "error")
    BY <1>0, <1>3, EndFields DEF EndsWithout, End, TypeOK
  <2>2. QED
    BY <1>0, <1>3, <2>1, RequestEnds DEF TypeOK
<1>4. QED
  BY <1>2, <1>3 DEF Announce

(* A client leaves: the stream's transaction is rolled back.               *)
LEMMA DisconnectSafe ==
  ASSUME ConversationInv, NEW r \in Requests, Disconnect(r)
  PROVE  ConversationInv'
<1>1. TypeOK /\ job[r].pc # "ended" /\ session' = RolledBack({r}) /\ UNCHANGED <<log, alive, failures>>
  BY DEF ConversationInv, Disconnect
<1>2. EndsWithout(r, "cut")
  BY <1>1, EndFields DEF EndsWithout, Disconnect, End, TypeOK
<1>3. QED
  BY <1>1, <1>2, RequestEnds DEF TypeOK

(* Tokens are streamed, all or some of them, or the notice that nothing    *)
(* was found.                                                              *)
LEMMA TokensSafe ==
  ASSUME ConversationInv, NEW r \in Requests, Tokens(r)
  PROVE  ConversationInv'
<1>0. /\ TypeOK /\ job[r] \in JobType /\ JobOK(r) /\ HistoryOK(r) /\ job[r].pc = "streaming"
      /\ UNCHANGED <<log, alive, failures>>
  BY DEF ConversationInv, TypeOK, Tokens
<1>1. job[r].kind = "stream" /\ job[r].reply = "none"
  BY <1>0 DEF JobOK
<1>2. CASE /\ ~job[r].context /\ session' = RolledBack({r})
           /\ job' = [job EXCEPT ![r] = [Ended(@, "done") EXCEPT !.shown = "notice"]]
  <2> DEFINE e == [Ended(job[r], "done") EXCEPT !.shown = "notice"]
  <2>1. /\ e \in JobType /\ e.pc = "ended" /\ e.hist = {} /\ e.seen = {} /\ e.reply = "done"
        /\ e.kind = job[r].kind /\ e.context = job[r].context
    BY <1>0, EndFields DEF JobType, Contents
  <2>2. /\ job'[r] = e /\ job' \in [Requests -> JobType]
        /\ \A q \in Requests \ {r} : job'[q] = job[q]
    BY <1>0, <1>2, <2>1 DEF TypeOK
  <2>3. EndsWithout(r, "done")
    BY <2>1, <2>2 DEF EndsWithout
  <2>4. QED
    BY <1>0, <1>1, <1>2, <2>3, RequestEnds DEF TypeOK
<1>3. CASE /\ job[r].context /\ UNCHANGED session
           /\ \E shown \in {"full", "partial"} :
                job' = [job EXCEPT ![r].shown = shown, ![r].pc = "persisting"]
  <2>1. PICK shown \in {"full", "partial"} :
          job' = [job EXCEPT ![r] = [job[r] EXCEPT !.shown = shown, !.pc = "persisting"]]
    BY <1>0, <1>3 DEF TypeOK
  <2> DEFINE e == [job[r] EXCEPT !.shown = shown, !.pc = "persisting"]
  <2>2. /\ e \in JobType /\ e.pc = "persisting" /\ e.kind = "stream" /\ e.user = job[r].user
        /\ e.sid = job[r].sid /\ e.seen = job[r].seen /\ e.hist = job[r].hist
        /\ e.reply = "none" /\ e.told = job[r].told /\ e.context = job[r].context
    BY <1>0, <1>1 DEF JobType, Contents
  <2>3. /\ job'[r] = e /\ job' \in [Requests -> JobType]
        /\ \A q \in Requests \ {r} : job'[q] = job[q]
    BY <1>0, <2>1, <2>2 DEF TypeOK
  <2> HIDE DEF e
  <2>4. TypeOK'
    BY <1>0, <1>3, <2>3 DEF TypeOK
  <2>5. JobOK(r)'
    BY <1>0, <1>1, <1>3, <2>2, <2>3 DEF JobOK, Used
  <2>6. HistoryOK(r)'
    <3>1. /\ job'[r].hist = job[r].hist /\ job'[r].user = job[r].user
          /\ job'[r].sid = job[r].sid /\ job[r].pc # "ended"
      BY <1>0, <2>2, <2>3
    <3>2. QED
      BY <1>0, <2>3, <3>1, HistoryKept
  <2>7. KeptOK(r)'
    BY <2>2, <2>3 DEF KeptOK
  <2>8. /\ {r} \in SUBSET Requests /\ UNCHANGED <<log, alive>> /\ job[r].pc # "ended"
        /\ job'[r].kind = "stream" /\ job'[r].pc = "persisting"
        /\ (\A t \in Ids : session'[t] = session[t])
    BY <1>0, <1>3, <2>2, <2>3
  <2>9. QED
    BY <2>3, <2>4, <2>5, <2>6, <2>7, <2>8, Quiet
<1>4. QED
  BY <1>2, <1>3 DEF Tokens

\* The types a commit of one session leaves right.
LEMMA OpenedType ==
  ASSUME TypeOK, NEW s \in Ids, NEW u \in Users, session' = Opened(s, u)
  PROVE  /\ session' \in [Ids -> [phase : Phases, owner : Users \cup {"none"}]]
         /\ session'[s] = [phase |-> "live", owner |-> u]
         /\ session'[s].phase = "live" /\ session'[s].owner = u
         /\ \A t \in Ids \ {s} : session'[t] = session[t]
BY DEF TypeOK, Opened, Phases

(* A question stores its turn, in its session or in a new one.             *)
LEMMA PersistAskSafe ==
  ASSUME ConversationInv, NEW r \in Requests, PersistAsk(r)
  PROVE  ConversationInv'
<1> DEFINE s == Target(job[r])
<1>0. /\ TypeOK /\ job[r] \in JobType /\ JobOK(r) /\ job[r].pc = "persisting"
      /\ job[r].kind = "ask" /\ UNCHANGED alive
  BY DEF ConversationInv, TypeOK, PersistAsk
<1>1. r \notin Openers /\ job[r].user \in Users
  BY <1>0 DEF JobOK, Openers
<1>2. CASE /\ Accepted(job[r])
           /\ session' = Opened(s, job[r].user)
           /\ Stores(r, s)
           /\ EndWith(r, "ok", s)
           /\ UNCHANGED failures
  <2>1. s \in Ids
    BY <1>1, NextKey, OwnedSession DEF Target
  <2>2. \/ session[s].phase \in {"pending", "live"} /\ session[s].owner = job[r].user
        \/ s = NewId
    BY <1>2, OwnedSession DEF Target, Accepted, Live
  <2>3. job[r].user \in alive
    <3>1. CASE Owned(job[r])
      <4>1. session[job[r].sid].phase = "live" /\ session[job[r].sid].owner = job[r].user
        BY <1>2, <3>1, OwnedSession DEF Accepted, Live
      <4>2. QED
        BY <3>1, <4>1, OwnedSession DEF ConversationInv, SessionOK
    <3>2. QED
      BY <1>2, <3>1 DEF Accepted
  <2>4. /\ job' \in [Requests -> JobType] /\ job'[r].pc = "ended" /\ job'[r].told = s
        /\ job'[r].user = job[r].user /\ job'[r].shown = job[r].shown
        /\ job'[r].hist = {} /\ job'[r].seen = {}
        /\ \A q \in Requests \ {r} : job'[q] = job[q]
    <3> DEFINE e == [Ended(job[r], "ok") EXCEPT !.told = s]
    <3>1. /\ e \in JobType /\ e.pc = "ended" /\ e.told = s /\ e.user = job[r].user
          /\ e.shown = job[r].shown /\ e.hist = {} /\ e.seen = {}
      BY <1>0, <2>1, EndFields DEF JobType
    <3>2. job' = [job EXCEPT ![r] = e]
      BY <1>0, <1>2 DEF EndWith, TypeOK
    <3> HIDE DEF e
    <3>3. QED
      BY <1>0, <3>1, <3>2 DEF TypeOK
  <2> HIDE DEF s
  <2>5. /\ Adds(s, r) /\ \A t \in Ids \ {s} : log'[t] = log[t]
        /\ log' \in [Ids -> Seq(Message)]
    BY <1>0, <1>2, <2>1, TurnAdded
  <2>6. /\ session' \in [Ids -> [phase : Phases, owner : Users \cup {"none"}]]
        /\ session'[s] = [phase |-> "live", owner |-> job[r].user]
        /\ \A t \in Ids \ {s} : session'[t] = session[t]
    BY <1>0, <1>1, <1>2, <2>1, OpenedType
  <2>7. TypeOK'
    BY <1>0, <1>2, <2>4, <2>5, <2>6 DEF TypeOK
  <2>8. QED
    BY <1>0, <1>1, <2>1, <2>2, <2>3, <2>4, <2>5, <2>6, <2>7, TurnStored
<1>3. CASE End(r, "error") /\ UNCHANGED <<session, log>> /\ failures' \in 0..MaxFailures
  <2>1. EndsWithout(r, "error")
    BY <1>0, <1>3, EndFields DEF EndsWithout, End, TypeOK
  <2>2. QED
    BY <1>0, <1>3, <2>1, RequestEnds
<1>4. QED
  BY <1>0, <1>2, <1>3, ConversationAssumption DEF PersistAsk, Fault, TypeOK

(* A stream stores its turn and commits its session.                       *)
LEMMA PersistStreamSafe ==
  ASSUME ConversationInv, NEW r \in Requests, PersistStream(r)
  PROVE  ConversationInv'
<1> DEFINE s == job[r].told
<1>0. /\ TypeOK /\ job[r] \in JobType /\ JobOK(r) /\ job[r].pc = "persisting"
      /\ job[r].kind = "stream" /\ UNCHANGED alive
  BY DEF ConversationInv, TypeOK, PersistStream
<1>1. s \in Ids /\ session[s].owner = job[r].user /\ job[r].user \in Users
  BY <1>0 DEF JobOK
<1>2. CASE /\ session[s].phase \in {"live", "pending"}
           /\ session' = Opened(s, job[r].user)
           /\ Stores(r, s)
           /\ End(r, "done")
           /\ UNCHANGED failures
  <2>1. job[r].user \in alive
    BY <1>1, <1>2 DEF ConversationInv, SessionOK
  <2>2. /\ job' \in [Requests -> JobType] /\ job'[r].pc = "ended" /\ job'[r].told = s
        /\ job'[r].user = job[r].user /\ job'[r].shown = job[r].shown
        /\ job'[r].hist = {} /\ job'[r].seen = {}
        /\ \A q \in Requests \ {r} : job'[q] = job[q]
    BY <1>0, <1>2, EndFields DEF End, TypeOK
  <2>3. /\ Adds(s, r) /\ \A t \in Ids \ {s} : log'[t] = log[t]
        /\ log' \in [Ids -> Seq(Message)]
    BY <1>0, <1>1, <1>2, TurnAdded
  <2>4. /\ session' \in [Ids -> [phase : Phases, owner : Users \cup {"none"}]]
        /\ session'[s] = [phase |-> "live", owner |-> job[r].user]
        /\ \A t \in Ids \ {s} : session'[t] = session[t]
    BY <1>0, <1>1, <1>2, OpenedType
  <2>5. TypeOK'
    BY <1>0, <1>2, <2>2, <2>3, <2>4 DEF TypeOK
  <2> HIDE DEF s
  <2>6. QED
    BY <1>0, <1>1, <1>2, <2>1, <2>2, <2>3, <2>4, <2>5, TurnStored
<1>3. CASE StreamFails(r) /\ failures' \in 0..MaxFailures
  <2>1. EndsWithout(r, "unkept")
    BY <1>0, <1>3, EndFields DEF EndsWithout, StreamFails, End, TypeOK
  <2>2. QED
    BY <1>0, <1>3, <2>1, RequestEnds DEF StreamFails
<1>4. QED
  BY <1>0, <1>2, <1>3, ConversationAssumption DEF PersistStream, Fault, TypeOK

(* An empty session is created.                                            *)
LEMMA CreateSafe ==
  ASSUME ConversationInv, NEW r \in Requests, CreateSession(r)
  PROVE  ConversationInv'
<1>0. /\ TypeOK /\ job[r] \in JobType /\ JobOK(r) /\ job[r].pc = "creating"
      /\ UNCHANGED <<log, alive, failures>>
  BY DEF ConversationInv, TypeOK, CreateSession
<1>1. r \notin Openers /\ job[r].user \in Users /\ job[r].kind \notin {"ask", "stream"}
  BY <1>0 DEF JobOK, Openers
<1>2. CASE /\ job[r].user \in alive
           /\ session' = Opened(NewId, job[r].user)
           /\ EndWith(r, "ok", NewId)
  <2>1. NewId \in Ids
    BY <1>1, NextKey
  <2>2. /\ job' \in [Requests -> JobType] /\ job'[r].pc = "ended" /\ job'[r].kind = job[r].kind
        /\ job'[r].hist = {} /\ job'[r].seen = {}
        /\ \A q \in Requests \ {r} : job'[q] = job[q]
    <3> DEFINE e == [Ended(job[r], "ok") EXCEPT !.told = NewId]
    <3>1. /\ e \in JobType /\ e.pc = "ended" /\ e.kind = job[r].kind /\ e.hist = {} /\ e.seen = {}
      BY <1>0, <2>1, EndFields DEF JobType
    <3>2. job' = [job EXCEPT ![r] = e]
      BY <1>0, <1>2 DEF EndWith, TypeOK
    <3> HIDE DEF e
    <3>3. QED
      BY <1>0, <3>1, <3>2 DEF TypeOK
  <2>3. /\ session' \in [Ids -> [phase : Phases, owner : Users \cup {"none"}]]
        /\ session'[NewId] = [phase |-> "live", owner |-> job[r].user]
        /\ \A t \in Ids \ {NewId} : session'[t] = session[t]
    BY <1>0, <1>1, <1>2, <2>1, OpenedType
  <2>4. TypeOK'
    BY <1>0, <2>2, <2>3 DEF TypeOK
  <2>5. JobOK(r)' /\ HistoryOK(r)' /\ KeptOK(r)'
    BY <1>1, <2>2, <2>4, EndedOK DEF KeptOK
  <2>6. r \in Openers'
    BY <2>2 DEF Openers
  <2>7. QED
    BY <1>0, <1>1, <1>2, <2>2, <2>3, <2>4, <2>5, <2>6, SessionOpened
<1>3. CASE End(r, "error") /\ UNCHANGED session
  <2>1. EndsWithout(r, "error")
    BY <1>0, <1>3, EndFields DEF EndsWithout, End, TypeOK
  <2>2. QED
    BY <1>0, <1>3, <2>1, RequestEnds DEF TypeOK
<1>4. QED
  BY <1>2, <1>3 DEF CreateSession

(* The tables without the sessions removed.                                *)
LEMMA RemovedType ==
  ASSUME TypeOK, NEW S \in SUBSET Ids, Removed(S)
  PROVE  /\ session' \in [Ids -> [phase : Phases, owner : Users \cup {"none"}]]
         /\ log' \in [Ids -> Seq(Message)]
<1>1. ASSUME NEW s \in Ids
      PROVE  /\ session'[s] \in [phase : Phases, owner : Users \cup {"none"}]
             /\ log'[s] \in Seq(Message)
  <2>1. session[s] \in [phase : Phases, owner : Users \cup {"none"}] /\ log[s] \in Seq(Message)
    BY DEF TypeOK
  <2>2. /\ session'[s] = IF s \in S THEN [session[s] EXCEPT !.phase = "gone"] ELSE session[s]
        /\ log'[s] = IF s \in S THEN <<>> ELSE log[s]
    BY DEF Removed
  <2>3. QED
    BY <2>1, <2>2 DEF Phases
<1>2. session' = [s \in Ids |-> session'[s]] /\ log' = [s \in Ids |-> log'[s]]
  BY DEF Removed
<1>3. QED
  BY <1>1, <1>2

(* A session is deleted with its messages, whoever still works on it.      *)
LEMMA DeleteSafe ==
  ASSUME ConversationInv, NEW r \in Requests, DeleteSession(r)
  PROVE  ConversationInv'
<1>0. /\ TypeOK /\ job[r] \in JobType /\ JobOK(r) /\ job[r].pc = "deleting" /\ UNCHANGED alive
      /\ \A s \in Ids : SessionOK(s)
  BY DEF ConversationInv, TypeOK, DeleteSession
<1>1. /\ job[r].sid \in Ids /\ session[job[r].sid].phase \in {"live", "gone"}
      /\ job[r].kind \notin {"ask", "stream"}
  BY <1>0 DEF JobOK, JobType
<1>2. CASE Removed({job[r].sid}) /\ End(r, "ok") /\ UNCHANGED failures
  <2>1. EndsWithout(r, "ok")
    BY <1>0, <1>2, EndFields DEF EndsWithout, End, TypeOK
  <2>2. TypeOK'
    BY <1>0, <1>1, <1>2, <2>1, RemovedType DEF EndsWithout, TypeOK
  <2>3. KeptOK(r)'
    BY <1>1, <2>1 DEF KeptOK, EndsWithout
  <2>4. \A s \in Ids : session[s].phase \in {"pending", "live"} => session[s].owner \in alive'
    BY <1>0 DEF SessionOK
  <2>5. {job[r].sid} \in SUBSET Ids /\ alive' \subseteq alive /\ job[r].pc # "ended"
    BY <1>0, <1>1
  <2>6. QED
    BY <1>1, <1>2, <2>1, <2>2, <2>3, <2>4, <2>5, SessionsRemoved DEF EndsWithout
<1>3. CASE End(r, "error") /\ UNCHANGED <<session, log>> /\ failures' \in 0..MaxFailures
  <2>1. EndsWithout(r, "error")
    BY <1>0, <1>3, EndFields DEF EndsWithout, End, TypeOK
  <2>2. QED
    BY <1>0, <1>3, <2>1, RequestEnds
<1>4. QED
  BY <1>0, <1>2, <1>3, ConversationAssumption DEF DeleteSession, Fault, TypeOK

(* A user's sessions and messages are deleted with the user.               *)
LEMMA PurgeSafe ==
  ASSUME ConversationInv, NEW r \in Requests, PurgeUser(r)
  PROVE  ConversationInv'
<1> DEFINE u == job[r].user
           S == OwnedBy(u, "live")
<1>0. /\ TypeOK /\ job[r] \in JobType /\ JobOK(r) /\ job[r].pc = "purging"
      /\ \A s \in Ids : SessionOK(s)
  BY DEF ConversationInv, TypeOK, PurgeUser
<1>1. job[r].kind \notin {"ask", "stream"} /\ OwnedBy(u, "pending") = {}
  BY <1>0 DEF JobOK, PurgeUser
<1>2. CASE Removed(S) /\ alive' = alive \ {u} /\ End(r, "ok") /\ UNCHANGED failures
  <2>1. EndsWithout(r, "ok")
    BY <1>0, <1>2, EndFields DEF EndsWithout, End, TypeOK
  <2>2. S \in SUBSET Ids /\ \A s \in S : session[s].phase \in {"live", "gone"}
    BY DEF OwnedBy
  <2>3. TypeOK'
    BY <1>0, <1>2, <2>1, <2>2, RemovedType DEF EndsWithout, TypeOK
  <2>4. KeptOK(r)'
    BY <1>1, <2>1 DEF KeptOK, EndsWithout
  <2>5. ASSUME NEW s \in Ids \ S, session[s].phase \in {"pending", "live"}
        PROVE  session[s].owner \in alive'
    <3>1. session[s] \in [phase : Phases, owner : Users \cup {"none"}]
      BY <1>0 DEF TypeOK
    <3>2. session[s] = [phase |-> session[s].phase, owner |-> session[s].owner]
      BY <3>1
    <3>3. session[s].owner # u
      BY <1>1, <2>5, <3>2 DEF OwnedBy
    <3>4. QED
      BY <1>0, <1>2, <2>5, <3>3 DEF SessionOK
  <2>6. alive' \subseteq alive /\ job[r].pc # "ended" /\ Removed(S)
    BY <1>0, <1>2
  <2> HIDE DEF S, u
  <2>7. QED
    BY <2>1, <2>2, <2>3, <2>4, <2>5, <2>6, SessionsRemoved DEF EndsWithout
<1>3. CASE End(r, "error") /\ UNCHANGED db /\ failures' \in 0..MaxFailures
  <2>1. EndsWithout(r, "error")
    BY <1>0, <1>3, EndFields DEF EndsWithout, End, TypeOK
  <2>2. QED
    BY <1>0, <1>3, <2>1, RequestEnds DEF db
<1>4. QED
  BY <1>0, <1>2, <1>3, ConversationAssumption DEF PurgeUser, Fault, TypeOK, db

(* The process dies: every open transaction is rolled back.                *)
LEMMA CrashSafe ==
  ASSUME ConversationInv, Crash
  PROVE  ConversationInv'
<1> DEFINE R == {r \in Requests : job[r].pc \notin {"idle", "ended"}}
<1>0. /\ TypeOK /\ failures' \in 0..MaxFailures /\ session' = RolledBack(R) /\ UNCHANGED <<log, alive>>
      /\ job' = [r \in Requests |-> IF r \in R THEN Ended(job[r], "cut") ELSE job[r]]
  BY ConversationAssumption DEF ConversationInv, TypeOK, Crash, Fault
<1>1. \A q \in R : /\ job[q].pc # "ended"
                   /\ job'[q] \in JobType /\ job'[q].reply = "cut"
                   /\ job'[q].pc = "ended" /\ job'[q].hist = {} /\ job'[q].seen = {}
  BY <1>0, EndFields
<1>2. \A q \in Requests \ R : job'[q] = job[q] /\ job'[q] \in JobType
  BY <1>0 DEF TypeOK
<1>3. job' \in [Requests -> JobType]
  BY <1>0, <1>1, <1>2
<1>4. \A q \in R : KeptOK(q)'
  BY <1>1 DEF KeptOK
<1>5. R \in SUBSET Requests
  OBVIOUS
<1> HIDE DEF R
<1>6. QED
  BY <1>0, <1>1, <1>2, <1>3, <1>4, <1>5, RequestsEnd

(* The invariant is inductive.                                             *)
LEMMA ConversationStep ==
  ConversationInv /\ [Next]_vars => ConversationInv'
<1> SUFFICES ASSUME ConversationInv, [Next]_vars PROVE ConversationInv'
  OBVIOUS
<1>1. ASSUME NEW r \in Requests, Step(r) PROVE ConversationInv'
  BY <1>1, AnswerSafe, PersistAskSafe, AnnounceSafe, TokensSafe, PersistStreamSafe,
     CreateSafe, DeleteSafe, RenameSafe, PurgeSafe DEF Step
<1>2. ASSUME NEW r \in Requests, Begin(r) \/ Disconnect(r) PROVE ConversationInv'
  BY <1>2, BeginSafe, DisconnectSafe
<1>3. CASE Crash
  BY <1>3, CrashSafe
<1>4. CASE UNCHANGED vars
  <2>1. TypeOK' /\ UNCHANGED <<session, log, alive, job, failures>>
    BY <1>4 DEF ConversationInv, TypeOK, vars
  <2>2. /\ {} \in SUBSET Requests /\ (\A q \in Requests \ {} : job'[q] = job[q])
        /\ (\A s \in Ids : session'[s] = session[s])
    BY <2>1
  <2>3. QED
    BY <2>1, <2>2, Quiet
<1>5. QED
  BY <1>1, <1>2, <1>3, <1>4 DEF Next

(* Whatever requests run side by side, and wherever one of them fails or the *)
(* process dies, the stored conversations and the running requests stay in   *)
(* step as ConversationInv says.                                             *)
THEOREM ConversationSafe == Spec => []ConversationInv
BY ConversationInit, ConversationStep, PTL DEF Spec
-----------------------------------------------------------------------------
(* What the chat API promises, each from ConversationInv.                   *)

(* Every message of a session with its key and its place, as MessagesOK and  *)
(* TypeOK give it.                                                           *)
LEMMA MessageAt ==
  ASSUME ConversationInv, NEW s \in Ids, NEW i \in DOMAIN log[s]
  PROVE  Written(s, log[s][i]) /\ log[s][i] \in Message
<1>1. log[s] \in Seq(Message)
  BY DEF ConversationInv, TypeOK
<1>2. i \in 1..Len(log[s])
  BY <1>1
<1>3. QED
  BY <1>1, <1>2 DEF ConversationInv, MessagesOK

(* The tables and the requests keep their types; a request's histories hold  *)
(* messages and its keys are keys of the table.                              *)
THEOREM ConversationTypeCorrect == Spec => []TypeOK
<1>1. ConversationInv => TypeOK
  BY DEF ConversationInv
<1>2. QED
  BY <1>1, ConversationSafe, PTL

(* A question is never stored without its answer, nor between another        *)
(* question and its own: a turn is one commit.                               *)
THEOREM TurnsStayWhole == Spec => []TurnsWhole
<1>1. ConversationInv => TurnsWhole
  BY DEF ConversationInv
<1>2. QED
  BY <1>1, ConversationSafe, PTL

(* An answer delivered without an error is stored in the session its client  *)
(* was told, unless that session has been deleted since.                     *)
THEOREM AnswersAreKept == Spec => []AnsweredIsKept
<1>1. ConversationInv => AnsweredIsKept
  BY DEF ConversationInv, AnsweredIsKept, KeptOK
<1>2. QED
  BY <1>1, ConversationSafe, PTL

(* Reloading a conversation shows the answer the client was shown, cut short *)
(* by an error of the model or not.                                          *)
THEOREM StoredIsShown == Spec => []ShownIsKept
<1>1. ConversationInv => ShownIsKept
  BY MessageAt DEF ShownIsKept, Written
<1>2. QED
  BY <1>1, ConversationSafe, PTL

(* A turn is in a session of the user who asked, whatever session the        *)
(* request named and whoever opens sessions at the same time.                *)
THEOREM TurnsAreTheOwners == Spec => []OwnTurns
<1>1. ConversationInv => OwnTurns
  BY MessageAt DEF OwnTurns, Written
<1>2. QED
  BY <1>1, ConversationSafe, PTL

(* The history sent to the model is at most MaxHistory messages of the       *)
(* asker's own session, and a turn is only cut where its missing half is no  *)
(* newer than anything that was taken.                                       *)
THEOREM HistoriesAreRecent == Spec => []HistoryIsRecent
<1>1. ConversationInv => HistoryIsRecent
  BY DEF ConversationInv, HistoryOK, HistoryIsRecent, CutsOldest
<1>2. QED
  BY <1>1, ConversationSafe, PTL

(* No session outlives its user: delete_user takes those opened while it ran *)
(* too, or removes nobody.                                                   *)
THEOREM SessionsHaveOwners == Spec => []OwnersExist
<1>1. ConversationInv => OwnersExist
  BY DEF ConversationInv, SessionOK, OwnersExist, Live
<1>2. QED
  BY <1>1, ConversationSafe, PTL
-----------------------------------------------------------------------------
(* Conversation implements ConversationLog.                                 *)

(* The log does not see a step that changes no committed session and no    *)
(* turn.                                                                   *)
LEMMA StutterSeen ==
  ASSUME \A s \in Ids : StateOf(s)' = StateOf(s) /\ TurnsOf(s)' = TurnsOf(s)
  PROVE  UNCHANGED Stored!logVars
BY DEF Stored!logVars

(* Sessions that are closed, with their turns, are a step of the log.      *)
LEMMA CloseSeen ==
  ASSUME NEW S \in SUBSET Ids,
         \A s \in S : StateOf(s)' = "closed" /\ TurnsOf(s)' = <<>>,
         \A s \in Ids \ S : StateOf(s)' = StateOf(s) /\ TurnsOf(s)' = TurnsOf(s)
  PROVE  Stored!Next
BY DEF Stored!Next, Stored!Close

\* Equal rows are seen alike; a row without messages is seen without turns.
LEMMA SameSeen ==
  ASSUME NEW s \in Ids
  PROVE  /\ session'[s].phase = session[s].phase => StateOf(s)' = StateOf(s)
         /\ log'[s] = log[s] => TurnsOf(s)' = TurnsOf(s)
BY DEF StateOf, TurnsOf

(* A session without messages has no turns.                                *)
LEMMA NoTurns ==
  ASSUME NEW s \in Ids
  PROVE  /\ log[s] = <<>> => TurnsOf(s) = <<>>
         /\ log'[s] = <<>> => TurnsOf(s)' = <<>>
<1>1. Len(<<>>) \div 2 = 0
  OBVIOUS
<1>2. ASSUME NEW l, l = <<>> PROVE [i \in 1..(Len(l) \div 2) |-> l[2 * i - 1].turn] = <<>>
  BY <1>1, <1>2
<1>3. QED
  BY <1>2 DEF TurnsOf

(* Numbering the turns of an even number of messages.                      *)
LEMMA HalfOf ==
  ASSUME NEW n \in Nat, n % 2 = 0
  PROVE  /\ n \div 2 \in Nat /\ (n + 2) \div 2 = (n \div 2) + 1
         /\ 2 * ((n \div 2) + 1) - 1 = n + 1
         /\ \A i \in 1..(n \div 2) : 2 * i - 1 \in 1..n
OBVIOUS

\* A turn stored is one more turn seen, at the end.
LEMMA TurnSeen ==
  ASSUME NEW s \in Ids, NEW r \in Requests, Adds(s, r), Whole(log[s])
  PROVE  TurnsOf(s) \in Seq(Requests) /\ TurnsOf(s)' = Append(TurnsOf(s), r)
<1> DEFINE n == Len(log[s])
           k == n \div 2
           old == [i \in 1..k |-> log[s][2 * i - 1].turn]
           new == [i \in 1..(k + 1) |-> log'[s][2 * i - 1].turn]
<1>1. n \in Nat /\ n % 2 = 0 /\ Len(log'[s]) = n + 2
  BY DEF Adds, Whole
<1>2. k \in Nat /\ 2 * (k + 1) - 1 = n + 1 /\ \A i \in 1..k : 2 * i - 1 \in 1..n
  BY <1>1, HalfOf
<1>3. TurnsOf(s) = old /\ TurnsOf(s)' = new
  <2>1. Len(log'[s]) \div 2 = k + 1
    BY <1>1, HalfOf
  <2>2. QED
    BY <2>1 DEF TurnsOf
<1>4. \A i \in 1..n : log[s][i] \in Message /\ log'[s][i] = log[s][i]
  BY DEF Adds
<1>5. log'[s][n + 1].turn = r
  BY DEF Adds
<1> HIDE DEF n, k
<1>6. old \in Seq(Requests) /\ Len(old) = k /\ \A i \in 1..k : old[i] = log[s][2 * i - 1].turn
  BY <1>2, <1>4 DEF Message
<1> HIDE DEF old
<1>7. new = Append(old, r)
  <2>1. /\ new \in Seq(Requests) /\ Len(new) = k + 1
        /\ \A i \in 1..k : new[i] = old[i]
        /\ new[k + 1] = r
    <3>1. \A i \in 1..(k + 1) : i \in 1..k \/ i = k + 1
      BY <1>2
    <3>2. \A i \in 1..(k + 1) : new[i] = log'[s][2 * i - 1].turn
      OBVIOUS
    <3>3. k + 1 \in 1..(k + 1) /\ \A i \in 1..k : i \in 1..(k + 1)
      BY <1>2
    <3>4. new[k + 1] = r /\ \A i \in 1..k : new[i] = old[i]
      BY <1>2, <1>4, <1>5, <1>6, <3>2, <3>3
    <3>5. \A i \in 1..(k + 1) : new[i] \in Requests
      <4>1. \A i \in 1..k : old[i] \in Requests
        BY <1>2, <1>6
      <4>2. QED
        BY <3>1, <3>4, <4>1
    <3>6. new \in Seq(Requests) /\ Len(new) = k + 1
      <4>1. new \in [1..(k + 1) -> Requests]
        BY <3>5
      <4>2. k + 1 \in Nat
        BY <1>2
      <4> HIDE DEF new
      <4>3. QED
        BY <4>1, <4>2
    <3>7. QED
      BY <3>4, <3>6
  <2> HIDE DEF new
  <2>2. /\ Append(old, r) \in Seq(Requests) /\ Len(Append(old, r)) = k + 1
        /\ \A i \in 1..k : Append(old, r)[i] = old[i]
        /\ Append(old, r)[k + 1] = r
    BY <1>6, AppendProperties
  <2>3. \A i \in 1..(k + 1) : new[i] = Append(old, r)[i]
    BY <1>2, <2>1, <2>2
  <2>4. QED
    BY <2>1, <2>2, <2>3, SeqEqual
<1>8. QED
  BY <1>3, <1>6, <1>7

\* The turns stored are those of requests that are over.
LEMMA StoredAreOver ==
  ASSUME ConversationInv, NEW r \in Requests, job[r].pc # "ended"
  PROVE  r \in Requests \ Stored!Stored
<1> SUFFICES ASSUME NEW s \in Ids, NEW i \in DOMAIN TurnsOf(s), TurnsOf(s)[i] = r
             PROVE  FALSE
  BY DEF Stored!Stored
<1> DEFINE n == Len(log[s])
<1>1. log[s] \in Seq(Message) /\ Whole(log[s])
  BY DEF ConversationInv, TypeOK, TurnsWhole, Whole
<1>2. n \in Nat /\ n % 2 = 0
  <2>1. n \in Nat
    BY <1>1
  <2>2. QED
    BY <1>1, <2>1 DEF Whole
<1>3. i \in 1..(n \div 2) /\ log[s][2 * i - 1].turn = r
  BY DEF TurnsOf
<1>4. 2 * i - 1 \in 1..n
  BY <1>2, <1>3, HalfOf
<1>5. Written(s, log[s][2 * i - 1])
  BY <1>4 DEF ConversationInv, MessagesOK
<1>6. QED
  BY <1>3, <1>5 DEF Written

\* A commit that stores a turn opens its session or adds to it.
LEMMA StoreSeen ==
  ASSUME ConversationInv, NEW r \in Requests, NEW s \in Ids, job[r].pc # "ended",
         session[s].phase \in {"free", "pending", "live"}, session'[s].phase = "live",
         Adds(s, r), \A t \in Ids \ {s} : session'[t] = session[t] /\ log'[t] = log[t]
  PROVE  Stored!Next
<1>1. Whole(log[s]) /\ SessionOK(s)
  BY DEF ConversationInv, TurnsWhole, Whole
<1>2. /\ TurnsOf(s) \in Seq(Requests) /\ TurnsOf(s)' = Append(TurnsOf(s), r)
      /\ StateOf(s)' = "open"
  BY <1>1, TurnSeen DEF StateOf
<1>3. r \in Requests \ Stored!Stored
  BY StoredAreOver
<1>4. \A t \in Ids \ {s} : StateOf(t)' = StateOf(t) /\ TurnsOf(t)' = TurnsOf(t)
  BY SameSeen
<1>5. CASE session[s].phase = "live"
  <2>1. StateOf(s) = "open"
    BY <1>5 DEF StateOf
  <2>2. Stored!AppendTurn(s)
    BY <1>2, <1>3, <1>4, <2>1 DEF Stored!AppendTurn
  <2>3. QED
    BY <2>2 DEF Stored!Next
<1>6. CASE session[s].phase \in {"free", "pending"}
  <2>1. StateOf(s) = "unborn" /\ TurnsOf(s) = <<>>
    BY <1>1, <1>6, NoTurns DEF StateOf, SessionOK
  <2>2. TurnsOf(s)' = <<r>>
    BY <1>2, <2>1
  <2>3. Stored!Open(s)
    BY <1>2, <1>3, <1>4, <2>1, <2>2 DEF Stored!Open
  <2>4. QED
    BY <2>3 DEF Stored!Next
<1>7. QED
  BY <1>5, <1>6

\* A rollback closes the keys it gives up, which never had a message.
LEMMA RollbackSeen ==
  ASSUME ConversationInv, NEW R \in SUBSET Requests, session' = RolledBack(R), UNCHANGED log
  PROVE  Stored!Next
<1> DEFINE S == {s \in Ids : session[s].phase = "pending" /\ \E r \in R : job[r].told = s}
<1>1. /\ \A s \in S : session'[s].phase = "gone"
      /\ \A s \in Ids \ S : session'[s] = session[s]
  <2>1. TypeOK
    BY DEF ConversationInv
  <2>2. QED
    BY <2>1 DEF RolledBack, TypeOK
<1>2. \A s \in S : log'[s] = <<>>
  BY DEF ConversationInv, SessionOK
<1>3. \A s \in S : StateOf(s)' = "closed" /\ TurnsOf(s)' = <<>>
  BY <1>1, <1>2, NoTurns DEF StateOf
<1>4. \A s \in Ids \ S : StateOf(s)' = StateOf(s) /\ TurnsOf(s)' = TurnsOf(s)
  BY <1>1, SameSeen
<1>5. S \in SUBSET Ids
  OBVIOUS
<1>6. QED
  BY <1>3, <1>4, <1>5, CloseSeen

\* A deletion closes the sessions it removes.
LEMMA RemoveSeen ==
  ASSUME TypeOK, NEW S \in SUBSET Ids, Removed(S)
  PROVE  Stored!Next
<1>1. /\ \A s \in S : session'[s].phase = "gone" /\ log'[s] = <<>>
      /\ \A s \in Ids \ S : session'[s] = session[s] /\ log'[s] = log[s]
  BY DEF Removed, TypeOK
<1>2. \A s \in S : StateOf(s)' = "closed" /\ TurnsOf(s)' = <<>>
  BY <1>1, NoTurns DEF StateOf
<1>3. \A s \in Ids \ S : StateOf(s)' = StateOf(s) /\ TurnsOf(s)' = TurnsOf(s)
  BY <1>1, SameSeen
<1>4. QED
  BY <1>2, <1>3, CloseSeen

\* Steps that the tables do not show.
LEMMA UnchangedSeen ==
  ASSUME UNCHANGED <<session, log>>
  PROVE  UNCHANGED Stored!logVars
BY SameSeen, StutterSeen

(* A question that stores its turn, as the log sees it.                    *)
LEMMA PersistAskSeen ==
  ASSUME ConversationInv, NEW r \in Requests, PersistAsk(r)
  PROVE  [Stored!Next]_(Stored!logVars)
<1> DEFINE s == Target(job[r])
<1>0. /\ TypeOK /\ JobOK(r) /\ job[r] \in JobType
      /\ job[r].pc = "persisting" /\ job[r].kind = "ask"
  BY DEF ConversationInv, TypeOK, PersistAsk
<1>1. r \notin Openers /\ job[r].user \in Users
  BY <1>0 DEF JobOK, Openers
<1>2. CASE /\ Accepted(job[r])
           /\ session' = Opened(s, job[r].user)
           /\ Stores(r, s)
  <2>1. s \in Ids /\ session[s].phase \in {"free", "live"}
    BY <1>1, <1>2, NextKey, OwnedSession DEF Target, Accepted, Live, Used
  <2> HIDE DEF s
  <2>2. Adds(s, r) /\ \A t \in Ids \ {s} : log'[t] = log[t]
    BY <1>0, <1>2, <2>1, TurnAdded
  <2>3. session'[s].phase = "live" /\ \A t \in Ids \ {s} : session'[t] = session[t]
    BY <1>0, <1>1, <1>2, <2>1, OpenedType
  <2>4. QED
    BY <1>0, <2>1, <2>2, <2>3, StoreSeen
<1>3. CASE UNCHANGED <<session, log>>
  BY <1>3, UnchangedSeen
<1>4. QED
  BY <1>2, <1>3 DEF PersistAsk

(* A stream that stores its turn, as the log sees it.                      *)
LEMMA PersistStreamSeen ==
  ASSUME ConversationInv, NEW r \in Requests, PersistStream(r)
  PROVE  [Stored!Next]_(Stored!logVars)
<1> DEFINE s == job[r].told
<1>0. /\ TypeOK /\ JobOK(r) /\ job[r] \in JobType
      /\ job[r].pc = "persisting" /\ job[r].kind = "stream"
  BY DEF ConversationInv, TypeOK, PersistStream
<1>1. s \in Ids /\ job[r].user \in Users
  BY <1>0 DEF JobOK
<1>2. CASE /\ session[s].phase \in {"live", "pending"}
           /\ session' = Opened(s, job[r].user)
           /\ Stores(r, s)
  <2>1. Adds(s, r) /\ \A t \in Ids \ {s} : log'[t] = log[t]
    BY <1>0, <1>1, <1>2, TurnAdded
  <2>2. session'[s].phase = "live" /\ \A t \in Ids \ {s} : session'[t] = session[t]
    BY <1>0, <1>1, <1>2, OpenedType
  <2> HIDE DEF s
  <2>3. QED
    BY <1>0, <1>1, <1>2, <2>1, <2>2, StoreSeen
<1>3. CASE StreamFails(r)
  <2>1. session' = RolledBack({r}) /\ UNCHANGED log /\ {r} \in SUBSET Requests
    BY <1>3 DEF StreamFails
  <2>2. QED
    BY <2>1, RollbackSeen
<1>4. QED
  BY <1>2, <1>3 DEF PersistStream

(* A session being opened, as the log sees it.                             *)
LEMMA OpeningSeen ==
  ASSUME ConversationInv, NEW r \in Requests, Announce(r) \/ CreateSession(r)
  PROVE  [Stored!Next]_(Stored!logVars)
<1>0. TypeOK /\ JobOK(r) /\ job[r] \in JobType /\ UNCHANGED log
  BY DEF ConversationInv, TypeOK, Announce, CreateSession
<1>1. r \notin Openers /\ job[r].user \in Users
  BY <1>0 DEF JobOK, Openers, Announce, CreateSession
<1>2. PICK s \in Ids : s = NewId /\ session[s].phase = "free"
  BY <1>1, NextKey DEF Used
<1>3. CASE UNCHANGED session
  BY <1>0, <1>3, UnchangedSeen
<1>4. CASE session' = [session EXCEPT ![s] = [phase |-> "pending", owner |-> job[r].user]]
  <2>1. /\ session'[s].phase = "pending"
        /\ \A t \in Ids \ {s} : session'[t] = session[t]
    BY <1>0, <1>2, <1>4 DEF TypeOK
  <2>2. \A t \in Ids : StateOf(t)' = StateOf(t)
    <3>1. StateOf(s)' = StateOf(s)
      BY <1>2, <2>1 DEF StateOf
    <3>2. \A t \in Ids \ {s} : StateOf(t)' = StateOf(t)
      BY <2>1, SameSeen
    <3>3. QED
      BY <3>1, <3>2
  <2>3. \A t \in Ids : TurnsOf(t)' = TurnsOf(t)
    BY <1>0, SameSeen
  <2>4. QED
    BY <2>2, <2>3, StutterSeen
<1>5. CASE session' = Opened(s, job[r].user)
  <2>1. /\ session'[s].phase = "live"
        /\ \A t \in Ids \ {s} : session'[t] = session[t]
    BY <1>0, <1>1, <1>2, <1>5, OpenedType
  <2>2. StateOf(s) = "unborn" /\ StateOf(s)' = "open"
    BY <1>2, <2>1 DEF StateOf
  <2>3. /\ \A t \in Ids \ {s} : StateOf(t)' = StateOf(t)
        /\ \A t \in Ids : TurnsOf(t)' = TurnsOf(t)
    BY <1>0, <2>1, SameSeen
  <2>4. Stored!Open(s)
    BY <1>2, <2>2, <2>3 DEF Stored!Open
  <2>5. QED
    BY <1>2, <2>4 DEF Stored!Next
<1>6. QED
  BY <1>2, <1>3, <1>4, <1>5 DEF Announce, CreateSession, Target

(* All other steps, as the log sees them.                                  *)
LEMMA OtherStepsSeen ==
  ASSUME ConversationInv, NEW r \in Requests,
         \/ Begin(r) \/ Answer(r) \/ Tokens(r) \/ RenameSession(r)
         \/ DeleteSession(r) \/ PurgeUser(r) \/ Disconnect(r)
  PROVE  [Stored!Next]_(Stored!logVars)
<1>0. TypeOK /\ job[r] \in JobType /\ JobOK(r) /\ {r} \in SUBSET Requests
  BY DEF ConversationInv, TypeOK
<1>1. CASE UNCHANGED <<session, log>>
  BY <1>1, UnchangedSeen
<1>2. CASE session' = RolledBack({r}) /\ UNCHANGED log
  BY <1>0, <1>2, RollbackSeen
<1>3. CASE DeleteSession(r) /\ Removed({job[r].sid})
  <2>1. {job[r].sid} \in SUBSET Ids
    BY <1>0, <1>3 DEF JobOK, JobType, DeleteSession
  <2>2. QED
    BY <1>0, <1>3, <2>1, RemoveSeen
<1>4. CASE Removed(OwnedBy(job[r].user, "live"))
  <2>1. OwnedBy(job[r].user, "live") \in SUBSET Ids
    BY DEF OwnedBy
  <2>2. QED
    BY <1>0, <1>4, <2>1, RemoveSeen
<1>5. QED
  BY <1>1, <1>2, <1>3, <1>4
  DEF Begin, Answer, Tokens, RenameSession, DeleteSession, PurgeUser, Disconnect, db

(* Every behaviour of the chat's tables is one of ConversationLog: a turn is *)
(* stored at most once, whole, at the end of one session, and only goes with *)
(* its session.                                                              *)
THEOREM ImplementsLog == Spec => LogSpec
<1>1. Init => Stored!Init
  <2> SUFFICES ASSUME Init PROVE Stored!Init
    OBVIOUS
  <2>1. \A s \in Ids : StateOf(s) = "unborn" /\ TurnsOf(s) = <<>>
    BY NoTurns DEF Init, StateOf
  <2>2. QED
    BY <2>1 DEF Stored!Init
<1>2. ConversationInv /\ [Next]_vars => [Stored!Next]_(Stored!logVars)
  <2> SUFFICES ASSUME ConversationInv, [Next]_vars
               PROVE  [Stored!Next]_(Stored!logVars)
    OBVIOUS
  <2>1. CASE Crash
    <3>1. {r \in Requests : job[r].pc \notin {"idle", "ended"}} \in SUBSET Requests
      OBVIOUS
    <3>2. QED
      BY <2>1, <3>1, RollbackSeen DEF Crash
  <2>2. CASE UNCHANGED vars
    BY <2>2, UnchangedSeen DEF vars
  <2>3. ASSUME NEW r \in Requests, Begin(r) \/ Step(r) \/ Disconnect(r)
        PROVE  [Stored!Next]_(Stored!logVars)
    BY <2>3, PersistAskSeen, PersistStreamSeen, OpeningSeen, OtherStepsSeen DEF Step
  <2>4. QED
    BY <2>1, <2>2, <2>3 DEF Next
<1>3. QED
  BY <1>1, <1>2, ConversationSafe, PTL DEF Spec, LogSpec, Stored!Spec
=============================================================================
