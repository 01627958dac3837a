-------------------------- MODULE ChatStreamProofs --------------------------
(***************************************************************************)
(* Proofs about ChatStream for any number of lines of the LLM's answer and *)
(* any fragments the network cuts the response into.                       *)
(*                                                                         *)
(* The events the server has sent are numbered.  The reader's position in  *)
(* the response, byte r of event j + 1, says what its buffer holds, what   *)
(* of the response is still under way, and what the page was told.         *)
(***************************************************************************)
EXTENDS ChatStream, SequenceFolds, SequenceTheorems

Event == [type : {"meta", "token", "sources", "error", "done"}, token : Nat]
HalfByte == [event : Event, half : {1, 2}]
Page == [tokens : Seq(Nat), sources : BOOLEAN, apology : BOOLEAN, done : BOOLEAN,
         stray : BOOLEAN]
Scanned == [line : Seq(HalfByte), page : Page]

StreamTypeOK ==
  /\ llm \in {"before", "open", "ended", "failed"} /\ lines \in Nat /\ generated \in Seq(Nat)
  /\ server \in {"meta", "sentence", "answer", "sources", "done", "closed"}
  /\ wire \in Seq(HalfByte \cup {LineEnd}) /\ reader \in {"open", "closed", "broken"}
  /\ buffer \in Seq(HalfByte) /\ page \in Page

(* How far the server has come, and what the LLM has said by then.           *)
ServerOK ==
  /\ server \in {"meta", "sentence"} => generated = <<>> /\ llm = "before"
  /\ llm = "open" <=> server = "answer"

(* The events of the response: meta, the tokens, an error if the LLM failed, *)
(* the sources and done, and how many of them were sent.                     *)
Failed == IF llm = "failed" THEN 1 ELSE 0
Sent ==
  IF server = "meta" THEN 0
  ELSE 1 + Len(generated) + Failed
       + (IF server \in {"done", "closed"} THEN 1 ELSE 0) + (IF server = "closed" THEN 1 ELSE 0)
EventAt(k) ==
  IF k = 1 THEN Ev("meta", 0)
  ELSE IF k <= Len(generated) + 1 THEN Ev("token", generated[k - 1])
  ELSE IF k < Len(generated) + 2 + Failed THEN Ev("error", 0)
  ELSE IF k = Len(generated) + 2 + Failed THEN Ev("sources", 0)
  ELSE Ev("done", 0)
ByteAt(k, b) == Framed(EventAt(k))[b]

(* What a page was told that has handled the first h events.                 *)
Told(p, h) ==
  LET n == IF h = 0 THEN 0 ELSE IF h <= Len(generated) THEN h - 1 ELSE Len(generated) IN
  /\ Len(p.tokens) = n /\ \A i \in 1..n : p.tokens[i] = generated[i]
  /\ p.sources <=> h >= Len(generated) + 2 + Failed
  /\ p.done <=> h >= Len(generated) + 3 + Failed
  /\ p.apology => llm = "failed" /\ h >= Len(generated) + 2 /\ p.tokens = <<>>

(* The reader after q bytes: r bytes of event j + 1.                          *)
ReadTo(line, p, q) ==
  \A j \in 0..Sent : \A r \in 0..3 : q = 4 * j + r =>
    /\ line = IF r = 1 THEN <<Half(EventAt(j + 1), 1)>>
              ELSE IF r = 2 THEN <<Half(EventAt(j + 1), 1), Half(EventAt(j + 1), 2)>>
              ELSE <<>>
    /\ Told(p, IF r = 3 THEN j + 1 ELSE j)

(* The bytes from the next one after q on are what is under way.              *)
UnderWay(w, q) ==
  /\ q \in Nat /\ q + Len(w) = 4 * Sent
  /\ \A k \in 1..Sent : \A b \in 1..4 : 4 * (k - 1) + b > q => w[4 * (k - 1) + b - q] = ByteAt(k, b)

Reading == LET q == 4 * Sent - Len(wire) IN
           UnderWay(wire, q) /\ ReadTo(buffer, page, q)

(* A reader that has ended, at a page that stays as it is.                   *)
Over ==
  /\ Len(page.tokens) <= Len(generated)
  /\ \A i \in 1..Len(page.tokens) : page.tokens[i] = generated[i]
  /\ page.done => server = "closed" /\ Len(page.tokens) = Len(generated) /\ page.sources
  /\ reader = "closed" => page.done
  /\ page.apology => page.tokens = <<>> /\ (reader = "broken" \/ llm = "failed")

StreamInv ==
  view = "asking" =>
    StreamTypeOK /\ ServerOK /\ (reader = "open" => Reading) /\ (reader # "open" => Over)

-----------------------------------------------------------------------------
\* A callback of the page at the asking session leaves a message.
LEMMA HandleType ==
  ASSUME view = "asking", NEW p \in Page, NEW e \in Event
  PROVE  Handle(p, e) \in Page
<1>1. CASE e.type \in {"meta", "done"}
  BY <1>1 DEF Handle, Page
<1>2. CASE e.type = "token"
  BY <1>2 DEF Handle, Write, Page, Event
<1>3. CASE e.type = "sources"
  BY <1>3 DEF Handle, Write, Page
<1>4. CASE e.type = "error"
  <2>1. (p.tokens = <<>>) \in BOOLEAN
    OBVIOUS
  <2> QED  BY <1>4, <2>1 DEF Handle, Write, Page
<1> QED  BY <1>1, <1>2, <1>3, <1>4 DEF Event

\* A scanned byte leaves a line of halves of events, and a message.
LEMMA ScanType ==
  ASSUME view = "asking", NEW acc \in Scanned, NEW b \in HalfByte \cup {LineEnd}
  PROVE  Scan(acc, b) \in Scanned
<1>1. acc.line \in Seq(HalfByte) /\ acc.page \in Page
  BY DEF Scanned
<1>2. CASE b # LineEnd
  <2>1. Append(acc.line, b) \in Seq(HalfByte)
    BY <1>1, <1>2
  <2> QED  BY <1>1, <1>2, <2>1 DEF Scan, Scanned
<1>3. CASE b = LineEnd
  <2> DEFINE l == acc.line
             p == IF l # <<>> /\ l = <<Half(l[1].event, 1), Half(l[1].event, 2)>>
                  THEN Handle(acc.page, l[1].event) ELSE acc.page
  <2>1. l # <<>> => l[1].event \in Event
    <3>1. l # <<>> => l[1] \in HalfByte
      BY <1>1
    <3> QED  BY <3>1 DEF HalfByte
  <2>2. p \in Page
    BY <1>1, <2>1, HandleType
  <2>3. Scan(acc, b) = [line |-> <<>>, page |-> p]
    BY <1>3 DEF Scan
  <2>4. <<>> \in Seq(HalfByte)
    OBVIOUS
  <2> HIDE DEF p
  <2> QED  BY <2>2, <2>3, <2>4 DEF Scanned
<1> QED  BY <1>2, <1>3

\* What the reader makes of a fragment.
ScanAll(acc, bytes) == FoldLeft(Scan, acc, bytes)
Scans(g, base, seq, n) ==
  /\ g[0] = base /\ \A k \in 1..n : g[k] = Scan(g[k - 1], seq[k])
  /\ ScanAll(base, seq) = g[n]

\* The fold of the reader over the bytes of a fragment, byte after byte.
LEMMA ScanRuns ==
  ASSUME NEW A, NEW base \in A, NEW N \in Nat, NEW seq, DOMAIN seq = 1..N,
         \A a \in A : \A i \in 1..N : Scan(a, seq[i]) \in A
  PROVE  \E g \in [0..N -> A] : Scans(g, base, seq, N)
<1> DEFINE op == [x \in A \X (1..N) |-> Scan(x[1], seq[x[2]])]
           Iter(it) == it = [s \in SUBSET (1..N) |->
             IF s = {} THEN base ELSE Scan(it[s \ {Max(s)}], seq[Max(s)])]
           iter == CHOOSE it : Iter(it)
           B == A \cup {iter[s] : s \in SUBSET (1..N)}
           step == [x \in B \X (1..N) |-> Scan(x[1], seq[x[2]])]
<1>1. \E it : Iter(it)
  <2>1. op \in [A \X (1..N) -> A]
    OBVIOUS
  <2>2. PICK it \in [SUBSET (1..N) -> A] : Folds(N, base, op, it)
    <3> HIDE DEF op
    <3> QED  BY <2>1, FoldExists
  <2>3. ASSUME NEW s \in SUBSET (1..N), s # {}
        PROVE  op[<<it[s \ {Max(s)}], Max(s)>>] = Scan(it[s \ {Max(s)}], seq[Max(s)])
    <3>1. it[s \ {Max(s)}] \in A /\ Max(s) \in 1..N
      BY <2>3, MaxExists
    <3> QED  BY <3>1
  <2>4. \A s \in SUBSET (1..N) :
          it[s] = IF s = {} THEN base ELSE Scan(it[s \ {Max(s)}], seq[Max(s)])
    <3> HIDE DEF op
    <3> QED  BY <2>2, <2>3 DEF Folds
  <2>5. Iter(it)
    BY <2>4
  <2> QED  BY <2>5
<1>2. ScanAll(base, seq) = iter[1..N]
  BY DEF ScanAll, FoldLeft, MapThenFoldSet
<1>3. iter = [s \in SUBSET (1..N) |->
        IF s = {} THEN base ELSE Scan(iter[s \ {Max(s)}], seq[Max(s)])]
  BY <1>1
<1> HIDE DEF iter
<1>4. ASSUME NEW s \in SUBSET (1..N), s # {}
      PROVE  step[<<iter[s \ {Max(s)}], Max(s)>>] = Scan(iter[s \ {Max(s)}], seq[Max(s)])
  <2>1. iter[s \ {Max(s)}] \in B /\ Max(s) \in 1..N
    BY <1>4, MaxExists
  <2> HIDE DEF B
  <2> QED  BY <2>1
<1>5. Folds(N, base, step, iter)
  <2> HIDE DEF step
  <2> QED  BY <1>3, <1>4 DEF Folds
<1>6. ASSUME NEW a \in A, NEW i \in 1..N
      PROVE  step[<<a, i>>] = Scan(a, seq[i]) /\ step[<<a, i>>] \in A
  <2>1. a \in B
    OBVIOUS
  <2> HIDE DEF B
  <2> QED  BY <2>1
<1> DEFINE g == FoldRun(N, iter)
<1>7. g \in [0..N -> A] /\ g[0] = base /\ \A k \in 1..N : g[k] = step[<<g[k - 1], k>>]
  <2> HIDE DEF step
  <2>1. \A a \in A : \A i \in 1..N : step[<<a, i>>] \in A
    BY <1>6
  <2> QED  BY <1>5, <2>1, FoldRuns
<1>8. g[N] = iter[1..N]
  BY DEF FoldRun
<1> HIDE DEF g, step
<1>9. ASSUME NEW k \in 1..N PROVE g[k] = Scan(g[k - 1], seq[k])
  <2>1. k - 1 \in 0..N
    OBVIOUS
  <2> QED  BY <1>6, <1>7, <2>1
<1> QED  BY <1>2, <1>7, <1>8, <1>9 DEF Scans, ScanAll

-----------------------------------------------------------------------------
\* What is sent: at least meta, at most done, and no token is left out.
LEMMA SentType ==
  ASSUME StreamTypeOK, ServerOK
  PROVE  /\ Len(generated) \in Nat /\ Failed \in {0, 1} /\ Sent \in Nat
         /\ Sent <= Len(generated) + 3 + Failed
         /\ (Sent = Len(generated) + 3 + Failed) <=> (server = "closed")
         /\ server \notin {"done", "closed"} => Sent <= Len(generated) + 1 + Failed
<1>1. Len(generated) \in Nat /\ Failed \in {0, 1}
  BY DEF StreamTypeOK, Failed
<1> QED  BY <1>1 DEF StreamTypeOK, ServerOK, Sent, Failed

\* The events of the response are events, and an error is one of a failed LLM.
LEMMA EventType ==
  ASSUME StreamTypeOK, ServerOK, NEW k \in Nat \ {0}
  PROVE  EventAt(k) \in Event
<1>1. Len(generated) \in Nat /\ \A i \in 1..Len(generated) : generated[i] \in Nat
  BY DEF StreamTypeOK
<1>2. CASE k \in 2..(Len(generated) + 1)
  <2>1. k - 1 \in 1..Len(generated)
    BY <1>1, <1>2
  <2>2. generated[k - 1] \in Nat
    BY <1>1, <2>1
  <2>3. EventAt(k) = Ev("token", generated[k - 1])
    BY <1>1, <1>2 DEF EventAt
  <2> QED  BY <2>2, <2>3 DEF Event, Ev
<1>3. CASE k \notin 2..(Len(generated) + 1)
  <2>1. EventAt(k) \in {Ev("meta", 0), Ev("error", 0), Ev("sources", 0), Ev("done", 0)}
    BY <1>1, <1>3 DEF EventAt
  <2> QED  BY <2>1 DEF Event, Ev
<1> QED  BY <1>2, <1>3

\* A page that is told the next event was told that many.
LEMMA ToldStep ==
  ASSUME StreamTypeOK, ServerOK, view = "asking",
         NEW p \in Page, NEW k \in 1..Sent, Told(p, k - 1)
  PROVE  Told(Handle(p, EventAt(k)), k)
<1> DEFINE G == Len(generated)
           e == EventAt(k)
           pp == Handle(p, e)
<1>1. /\ G \in Nat /\ Failed \in {0, 1} /\ Sent \in Nat /\ Sent <= G + 3 + Failed
      /\ k \in Nat \ {0} /\ k <= G + 3 + Failed
  BY SentType
<1>2. p.tokens \in Seq(Nat) /\ Len(p.tokens) \in Nat
  BY DEF Page
<1>3. CASE k = 1
  <2>1. e = Ev("meta", 0) /\ pp = p
    BY <1>3 DEF EventAt, Handle, Ev
  <2> QED  BY <1>1, <1>3, <2>1 DEF Told
<1>4. CASE k \in 2..(G + 1)
  <2>1. e = Ev("token", generated[k - 1])
    BY <1>1, <1>4 DEF EventAt
  <2>2. pp = [p EXCEPT !.tokens = Append(@, generated[k - 1])]
    BY <2>1 DEF Handle, Write, Ev
  <2>3. /\ pp.tokens = Append(p.tokens, generated[k - 1])
        /\ pp.sources = p.sources /\ pp.done = p.done /\ pp.apology = p.apology
    BY <2>2 DEF Page
  <2>4. Len(p.tokens) = k - 2 /\ \A i \in 1..(k - 2) : p.tokens[i] = generated[i]
    BY <1>1, <1>4 DEF Told
  <2>5. Len(pp.tokens) = k - 1 /\ \A i \in 1..(k - 1) : pp.tokens[i] = generated[i]
    BY <1>1, <1>2, <1>4, <2>3, <2>4
  <2>6. ~p.apology
    BY <1>1, <1>4 DEF Told
  <2>7. (pp.sources <=> k >= G + 2 + Failed) /\ (pp.done <=> k >= G + 3 + Failed)
    BY <1>1, <1>4, <2>3 DEF Told
  <2> HIDE DEF pp, e
  <2>8. Told(pp, k)
    BY <1>1, <1>4, <2>3, <2>5, <2>6, <2>7, SMTT(30) DEF Told
  <2> QED  BY <2>8 DEF pp, e
<1>5. ASSUME k > G + 1
      PROVE  /\ Len(p.tokens) = G /\ \A i \in 1..G : p.tokens[i] = generated[i]
  BY <1>1, <1>5 DEF Told
<1>6. CASE k > G + 1 /\ k < G + 2 + Failed
  <2>1. e = Ev("error", 0) /\ llm = "failed" /\ k = G + 2 /\ Failed = 1
    BY <1>1, <1>6 DEF EventAt, Failed
  <2>2. pp = [p EXCEPT !.apology = p.tokens = <<>>]
    BY <2>1 DEF Handle, Write, Ev
  <2>3. /\ pp.tokens = p.tokens /\ pp.sources = p.sources /\ pp.done = p.done
        /\ pp.apology => p.tokens = <<>>
    BY <2>2 DEF Page
  <2>4. (pp.sources <=> k >= G + 2 + Failed) /\ (pp.done <=> k >= G + 3 + Failed)
    BY <1>1, <2>1, <2>3 DEF Told
  <2> QED  BY <1>1, <1>5, <2>1, <2>3, <2>4 DEF Told
<1>7. CASE k = G + 2 + Failed
  <2>1. e = Ev("sources", 0)
    BY <1>1, <1>7 DEF EventAt
  <2>2. pp = [p EXCEPT !.sources = TRUE]
    BY <2>1 DEF Handle, Write, Ev
  <2>3. /\ pp.tokens = p.tokens /\ pp.sources = TRUE /\ pp.done = p.done
        /\ pp.apology = p.apology
    BY <2>2 DEF Page
  <2>4. (pp.sources <=> k >= G + 2 + Failed) /\ (pp.done <=> k >= G + 3 + Failed)
    BY <1>1, <1>7, <2>3 DEF Told
  <2>5. pp.apology => llm = "failed" /\ k >= G + 2 /\ pp.tokens = <<>>
    BY <1>1, <1>7, <2>3 DEF Told
  <2>6. Len(p.tokens) = G /\ \A i \in 1..G : p.tokens[i] = generated[i]
    BY <1>1, <1>5, <1>7
  <2> QED  BY <1>1, <1>7, <2>3, <2>4, <2>5, <2>6 DEF Told
<1>8. CASE k = G + 3 + Failed
  <2>1. e = Ev("done", 0)
    BY <1>1, <1>8 DEF EventAt
  <2>2. pp = [p EXCEPT !.done = TRUE]
    BY <2>1 DEF Handle, Ev
  <2>3. /\ pp.tokens = p.tokens /\ pp.sources = p.sources /\ pp.done = TRUE
        /\ pp.apology = p.apology
    BY <2>2 DEF Page
  <2>4. (pp.sources <=> k >= G + 2 + Failed) /\ (pp.done <=> k >= G + 3 + Failed)
    BY <1>1, <1>8, <2>3 DEF Told
  <2>5. pp.apology => llm = "failed" /\ k >= G + 2 /\ pp.tokens = <<>>
    BY <1>1, <1>8, <2>3 DEF Told
  <2>6. Len(p.tokens) = G /\ \A i \in 1..G : p.tokens[i] = generated[i]
    BY <1>1, <1>5, <1>8
  <2> QED  BY <1>1, <1>8, <2>3, <2>4, <2>5, <2>6 DEF Told
<1> QED  BY <1>1, <1>3, <1>4, <1>6, <1>7, <1>8

-----------------------------------------------------------------------------
\* The bytes of an event of the response.
LEMMA Bytes ==
  ASSUME StreamTypeOK, ServerOK, NEW k \in Nat \ {0}
  PROVE  /\ ByteAt(k, 1) = Half(EventAt(k), 1) /\ ByteAt(k, 2) = Half(EventAt(k), 2)
         /\ ByteAt(k, 3) = LineEnd /\ ByteAt(k, 4) = LineEnd
         /\ Half(EventAt(k), 1) \in HalfByte /\ Half(EventAt(k), 2) \in HalfByte
         /\ Half(EventAt(k), 1) # LineEnd /\ Half(EventAt(k), 2) # LineEnd
         /\ Half(EventAt(k), 1).event = EventAt(k)
<1>1. EventAt(k) \in Event
  BY EventType
<1>2. Half(EventAt(k), 1).event = EventAt(k)
  BY DEF Half
<1>3. Half(EventAt(k), 1) # LineEnd /\ Half(EventAt(k), 2) # LineEnd
  <2>1. Half(EventAt(k), 1).half = 1 /\ Half(EventAt(k), 2).half = 2 /\ LineEnd.half = 0
    BY DEF Half, LineEnd
  <2> QED  BY <2>1
<1> QED  BY <1>1, <1>2, <1>3 DEF ByteAt, Framed, HalfByte, Half

\* A line of one half and the next.
LEMMA AppendToOne ==
  ASSUME NEW S, NEW x \in S, NEW y \in S
  PROVE  Append(<<x>>, y) = <<x, y>>
<1>1. <<x>> \in Seq(S) /\ Len(<<x>>) = 1 /\ <<x>>[1] = x
  OBVIOUS
<1>2. /\ Append(<<x>>, y) \in Seq(S) /\ Len(Append(<<x>>, y)) = 2
      /\ Append(<<x>>, y)[1] = x /\ Append(<<x>>, y)[2] = y
  BY <1>1
<1>3. <<x, y>> \in Seq(S) /\ Len(<<x, y>>) = 2 /\ <<x, y>>[1] = x /\ <<x, y>>[2] = y
  OBVIOUS
<1>4. \A i \in 1..2 : Append(<<x>>, y)[i] = <<x, y>>[i]
  BY <1>2, <1>3
<1> QED  BY <1>2, <1>3, <1>4, SeqEqual

\* The reader takes the next byte of the response.
LEMMA ScanStep ==
  ASSUME StreamTypeOK, ServerOK, view = "asking", NEW acc \in Scanned,
         NEW k \in 1..Sent, NEW b \in 1..4, NEW q \in Nat, q + 1 = 4 * (k - 1) + b,
         ReadTo(acc.line, acc.page, q)
  PROVE  ReadTo(Scan(acc, ByteAt(k, b)).line, Scan(acc, ByteAt(k, b)).page, q + 1)
<1> DEFINE e == EventAt(k)
           new == Scan(acc, ByteAt(k, b))
<1>1. Sent \in Nat /\ k \in Nat \ {0} /\ k - 1 \in 0..Sent /\ b - 1 \in 0..3
  BY SentType
<1>2. q = 4 * (k - 1) + (b - 1) /\ (k - 1) + 1 = k
  BY <1>1
<1>3. /\ acc.line = IF b - 1 = 1 THEN <<Half(e, 1)>>
                    ELSE IF b - 1 = 2 THEN <<Half(e, 1), Half(e, 2)>> ELSE <<>>
      /\ Told(acc.page, IF b - 1 = 3 THEN k ELSE k - 1)
  BY <1>1, <1>2 DEF ReadTo
<1>4. acc.page \in Page /\ acc.line \in Seq(HalfByte)
  BY DEF Scanned
<1>5. /\ new.line = IF b = 1 THEN <<Half(e, 1)>>
                    ELSE IF b = 2 THEN <<Half(e, 1), Half(e, 2)>> ELSE <<>>
      /\ Told(new.page, IF b >= 3 THEN k ELSE k - 1)
  <2>1. CASE b = 1
    <3>1. acc.line = <<>> /\ Told(acc.page, k - 1)
      BY <1>3, <2>1
    <3>2. new = [acc EXCEPT !.line = Append(@, Half(e, 1))]
      BY <1>1, <2>1, Bytes DEF Scan
    <3>3. new.line = <<Half(e, 1)>> /\ new.page = acc.page
      BY <3>1, <3>2 DEF Scanned
    <3> QED  BY <2>1, <3>1, <3>3
  <2>2. CASE b = 2
    <3>1. acc.line = <<Half(e, 1)>> /\ Told(acc.page, k - 1)
      BY <1>3, <2>2
    <3>2. new = [acc EXCEPT !.line = Append(@, Half(e, 2))]
      BY <1>1, <2>2, Bytes DEF Scan
    <3>3. new.line = Append(acc.line, Half(e, 2)) /\ new.page = acc.page
      BY <3>2 DEF Scanned
    <3>4. Half(e, 1) \in HalfByte /\ Half(e, 2) \in HalfByte
      BY <1>1, Bytes
    <3>5. new.line = <<Half(e, 1), Half(e, 2)>>
      <4> HIDE DEF e
      <4> QED  BY <3>1, <3>3, <3>4, AppendToOne
    <3> QED  BY <2>2, <3>1, <3>3, <3>5
  <2>3. CASE b = 3
    <3>1. acc.line = <<Half(e, 1), Half(e, 2)>> /\ Told(acc.page, k - 1)
      BY <1>3, <2>3
    <3>2. acc.line # <<>> /\ acc.line[1] = Half(e, 1) /\ acc.line[1].event = e
      BY <1>1, <3>1, Bytes
    <3>3. new = [line |-> <<>>, page |-> Handle(acc.page, e)]
      BY <1>1, <2>3, <3>1, <3>2, Bytes DEF Scan
    <3>4. new.line = <<>> /\ new.page = Handle(acc.page, e)
      BY <3>3
    <3>5. Told(Handle(acc.page, e), k)
      BY <1>4, <3>1, ToldStep
    <3> QED  BY <2>3, <3>4, <3>5
  <2>4. CASE b = 4
    <3>1. acc.line = <<>> /\ Told(acc.page, k)
      BY <1>3, <2>4
    <3>2. new = [line |-> <<>>, page |-> acc.page]
      BY <1>1, <2>4, <3>1, Bytes DEF Scan
    <3>3. new.line = <<>> /\ new.page = acc.page
      BY <3>2
    <3> QED  BY <2>4, <3>1, <3>3
  <2> QED  BY <2>1, <2>2, <2>3, <2>4
<1> HIDE DEF new
<1>6. ASSUME NEW j \in 0..Sent, NEW r \in 0..3, q + 1 = 4 * j + r
      PROVE  /\ new.line = IF r = 1 THEN <<Half(EventAt(j + 1), 1)>>
                           ELSE IF r = 2 THEN <<Half(EventAt(j + 1), 1), Half(EventAt(j + 1), 2)>>
                           ELSE <<>>
             /\ Told(new.page, IF r = 3 THEN j + 1 ELSE j)
  <2>1. CASE b < 4
    <3>1. j = k - 1 /\ r = b /\ j + 1 = k
      BY <1>1, <1>6, <2>1
    <3> QED  BY <1>1, <1>5, <2>1, <3>1
  <2>2. CASE b = 4
    <3>1. j = k /\ r = 0
      BY <1>1, <1>6, <2>2
    <3> QED  BY <1>5, <2>2, <3>1
  <2> QED  BY <2>1, <2>2
<1> QED  BY <1>6 DEF ReadTo, new

\* A position in the response is a byte of one of its events.
LEMMA Position ==
  ASSUME NEW n \in Nat, NEW m \in 1..(4 * n)
  PROVE  \E k \in 1..n : \E b \in 1..4 : m = 4 * (k - 1) + b
<1> DEFINE k == ((m - 1) \div 4) + 1
           b == ((m - 1) % 4) + 1
<1>1. k \in 1..n /\ b \in 1..4 /\ m = 4 * (k - 1) + b
  OBVIOUS
<1> QED  BY <1>1

\* A fragment of n bytes is read, and the rest stays under way.
LEMMA ReceiveReads ==
  ASSUME StreamTypeOK, ServerOK, view = "asking", Reading, NEW n \in 1..Len(wire)
  PROVE  LET q == 4 * Sent - Len(wire)
             read == ScanAll([line |-> buffer, page |-> page], SubSeq(wire, 1, n))
         IN  /\ read \in Scanned /\ ReadTo(read.line, read.page, q + n)
             /\ UnderWay(SubSeq(wire, n + 1, Len(wire)), q + n)
<1> DEFINE q == 4 * Sent - Len(wire)
           acc == [line |-> buffer, page |-> page]
           seq == SubSeq(wire, 1, n)
<1>1. /\ Sent \in Nat /\ Len(wire) \in Nat /\ n \in Nat /\ q \in Nat /\ q + Len(wire) = 4 * Sent
      /\ UnderWay(wire, q) /\ ReadTo(acc.line, acc.page, q)
  BY SentType DEF StreamTypeOK, Reading, UnderWay
<1>2. acc \in Scanned
  BY DEF Scanned, StreamTypeOK
<1>3. /\ DOMAIN seq = 1..n
      /\ \A i \in 1..n : seq[i] = wire[i] /\ seq[i] \in HalfByte \cup {LineEnd}
  BY DEF StreamTypeOK
<1>4. ASSUME NEW i \in 1..n
      PROVE  \E k \in 1..Sent : \E b \in 1..4 :
               q + i = 4 * (k - 1) + b /\ seq[i] = ByteAt(k, b)
  <2>1. q + i \in 1..(4 * Sent)
    BY <1>1
  <2>2. PICK k \in 1..Sent : \E b \in 1..4 : q + i = 4 * (k - 1) + b
    BY <1>1, <2>1, Position
  <2>3. PICK b \in 1..4 : q + i = 4 * (k - 1) + b
    BY <2>2
  <2>4. 4 * (k - 1) + b > q /\ 4 * (k - 1) + b - q = i
    BY <1>1, <2>3
  <2>5. wire[i] = ByteAt(k, b)
    BY <1>1, <2>4 DEF UnderWay
  <2> QED  BY <1>3, <2>3, <2>5
<1> HIDE DEF seq, acc
<1>5. PICK g \in [0..n -> Scanned] : Scans(g, acc, seq, n)
  <2>1. \A a \in Scanned : \A i \in 1..n : Scan(a, seq[i]) \in Scanned
    BY <1>3, ScanType
  <2>2. n \in Nat /\ acc \in Scanned /\ DOMAIN seq = 1..n
    BY <1>1, <1>2, <1>3
  <2> HIDE DEF q
  <2> QED  BY <2>1, <2>2, ScanRuns
<1> HIDE DEF q
<1>6. \A i \in 0..n : ReadTo(g[i].line, g[i].page, q + i)
  <2> DEFINE T == {i \in Nat : i <= n => ReadTo(g[i].line, g[i].page, q + i)}
  <2>1. 0 \in T
    BY <1>1, <1>5 DEF Scans
  <2>2. ASSUME NEW i \in Nat, i \in T PROVE i + 1 \in T
    <3>1. SUFFICES ASSUME i + 1 <= n PROVE ReadTo(g[i + 1].line, g[i + 1].page, q + (i + 1))
      OBVIOUS
    <3>2. /\ i + 1 \in 1..n /\ i \in 0..n /\ (i + 1) - 1 = i /\ q + i \in Nat
          /\ (q + i) + 1 = q + (i + 1) /\ ReadTo(g[i].line, g[i].page, q + i)
      BY <1>1, <2>2, <3>1
    <3>3. PICK k \in 1..Sent, b \in 1..4 :
            q + (i + 1) = 4 * (k - 1) + b /\ seq[i + 1] = ByteAt(k, b)
      BY <1>4, <3>2
    <3>4. g[i + 1] = Scan(g[i], ByteAt(k, b)) /\ g[i] \in Scanned
      BY <1>5, <3>2, <3>3 DEF Scans
    <3>5. LET new == Scan(g[i], ByteAt(k, b)) IN ReadTo(new.line, new.page, (q + i) + 1)
      BY <3>2, <3>3, <3>4, ScanStep
    <3> QED  BY <3>2, <3>4, <3>5
  <2>3. Nat \subseteq T
    <3> HIDE DEF T
    <3> QED  BY <2>1, <2>2, NatSet
  <2> QED  BY <2>3
<1>7. UnderWay(SubSeq(wire, n + 1, Len(wire)), q + n)
  <2> DEFINE rest == SubSeq(wire, n + 1, Len(wire))
  <2>1. /\ Len(rest) = Len(wire) - n
        /\ \A i \in 1..(Len(wire) - n) : rest[i] = wire[n + i]
    BY <1>1, SMTT(30) DEF StreamTypeOK
  <2> HIDE DEF rest
  <2>2. q + n \in Nat /\ (q + n) + Len(rest) = 4 * Sent
    <3>1. /\ Len(rest) = Len(wire) - n /\ n \in Nat /\ q \in Nat /\ Len(wire) \in Nat
          /\ q + Len(wire) = 4 * Sent
      BY <1>1, <2>1
    <3> QED  BY <3>1
  <2>3. ASSUME NEW k \in 1..Sent, NEW b \in 1..4, 4 * (k - 1) + b > q + n
        PROVE  rest[4 * (k - 1) + b - (q + n)] = ByteAt(k, b)
    <3>1. 4 * (k - 1) + b - (q + n) \in 1..(Len(wire) - n)
      BY <1>1, <2>3
    <3>2. /\ n + (4 * (k - 1) + b - (q + n)) = 4 * (k - 1) + b - q
          /\ 4 * (k - 1) + b > q
      BY <1>1, <2>3
    <3>3. rest[4 * (k - 1) + b - (q + n)] = wire[4 * (k - 1) + b - q]
      BY <2>1, <3>1, <3>2
    <3>4. wire[4 * (k - 1) + b - q] = ByteAt(k, b)
      BY <1>1, <3>2 DEF UnderWay
    <3> QED  BY <3>3, <3>4
  <2> QED  BY <2>2, <2>3 DEF UnderWay, rest
<1>8. n \in 0..n
  BY <1>1
<1> QED  BY <1>5, <1>6, <1>7, <1>8 DEF q, acc, seq, Scans

-----------------------------------------------------------------------------
\* One more event is sent: what was sent and told before stays what it was.
Sends(e) ==
  /\ UNCHANGED <<buffer, page>> /\ wire' = wire \o Framed(e) /\ Sent' = Sent + 1
  /\ \A k \in 1..(Sent + 1) : EventAt(k)' = IF k = Sent + 1 THEN e ELSE EventAt(k)
  /\ \A h \in 0..Sent : Told(page, h) => Told(page, h)'

\* The reader has as far to go as before, and one event more.
LEMMA SendReading ==
  ASSUME StreamTypeOK, ServerOK, Reading, NEW e, Sends(e)
  PROVE  Reading'
<1>1. PICK q \in Nat : q = 4 * Sent - Len(wire)
  BY DEF Reading, UnderWay
<1>2. Sent \in Nat /\ Len(wire) \in Nat /\ q \in Nat /\ q + Len(wire) = 4 * Sent
  BY <1>1, SentType DEF StreamTypeOK
<1>3. UnderWay(wire, q) /\ ReadTo(buffer, page, q)
  BY <1>1 DEF Reading
<1>4. /\ Len(wire') = Len(wire) + 4
      /\ \A i \in 1..Len(wire) : wire'[i] = wire[i]
      /\ \A i \in 1..4 : wire'[Len(wire) + i] = Framed(e)[i]
  <2>1. wire' = wire \o Framed(e)
    BY DEF Sends
  <2> QED  BY <2>1 DEF Framed, StreamTypeOK
<1>5. Sent' = Sent + 1 /\ q + Len(wire') = 4 * Sent'
  <2>1. Sent' = Sent + 1
    BY DEF Sends
  <2> QED  BY <1>2, <1>4, <2>1
<1>6. /\ \A k \in 1..(Sent + 1) : k = Sent + 1 => EventAt(k)' = e
      /\ \A k \in 1..Sent : EventAt(k)' = EventAt(k)
  BY <1>2 DEF Sends
<1>7. UnderWay(wire, q)'
  <2>1. ASSUME NEW k \in 1..(Sent + 1), NEW b \in 1..4, 4 * (k - 1) + b > q
        PROVE  wire'[4 * (k - 1) + b - q] = ByteAt(k, b)'
    <3>1. CASE k = Sent + 1
      <4>1. 4 * (k - 1) + b - q = Len(wire) + b
        BY <1>2, <3>1
      <4>2. ByteAt(k, b)' = Framed(e)[b]
        BY <1>6, <3>1 DEF ByteAt
      <4> QED  BY <1>4, <4>1, <4>2
    <3>2. CASE k # Sent + 1
      <4>1. k \in 1..Sent /\ 4 * (k - 1) + b - q \in 1..Len(wire)
        BY <1>2, <2>1, <3>2
      <4>2. ByteAt(k, b)' = ByteAt(k, b)
        BY <1>6, <4>1 DEF ByteAt
      <4>3. wire[4 * (k - 1) + b - q] = ByteAt(k, b)
        BY <1>3, <2>1, <4>1 DEF UnderWay
      <4> QED  BY <1>4, <4>1, <4>2, <4>3
    <3> QED  BY <3>1, <3>2
  <2> QED  BY <1>2, <1>5, <2>1 DEF UnderWay
<1>8. ReadTo(buffer, page, q)'
  <2>1. ASSUME NEW j \in 0..(Sent + 1), NEW r \in 0..3, q = 4 * j + r
        PROVE  /\ buffer = IF r = 1 THEN <<Half(EventAt(j + 1)', 1)>>
                             ELSE IF r = 2
                                  THEN <<Half(EventAt(j + 1)', 1), Half(EventAt(j + 1)', 2)>>
                             ELSE <<>>
               /\ Told(page, IF r = 3 THEN j + 1 ELSE j)'
    <3>1. /\ j \in 0..Sent /\ (r # 0 => j + 1 \in 1..Sent)
          /\ (IF r = 3 THEN j + 1 ELSE j) \in 0..Sent
      BY <1>2, <2>1
    <3>2. r # 0 => EventAt(j + 1)' = EventAt(j + 1)
      BY <1>6, <3>1
    <3>3. /\ buffer = IF r = 1 THEN <<Half(EventAt(j + 1), 1)>>
                        ELSE IF r = 2 THEN <<Half(EventAt(j + 1), 1), Half(EventAt(j + 1), 2)>>
                        ELSE <<>>
          /\ Told(page, IF r = 3 THEN j + 1 ELSE j)
      BY <1>3, <2>1, <3>1 DEF ReadTo
    <3>4. Told(page, IF r = 3 THEN j + 1 ELSE j)'
      BY <3>1, <3>3 DEF Sends
    <3> QED  BY <3>2, <3>3, <3>4
  <2>2. buffer' = buffer /\ page' = page
    BY DEF Sends
  <2> QED  BY <1>5, <2>1, <2>2 DEF ReadTo
<1>9. q = (4 * Sent - Len(wire))'
  BY <1>2, <1>4, <1>5
<1> QED  BY <1>7, <1>8, <1>9 DEF Reading

-----------------------------------------------------------------------------
\* A page that was told h of the events sent by a reader at its position.
LEMMA ReadingTold ==
  ASSUME StreamTypeOK, ServerOK, Reading
  PROVE  \E h \in 0..Sent : Told(page, h) /\ (wire = <<>> => h = Sent)
<1>1. PICK q \in Nat : q = 4 * Sent - Len(wire)
  BY DEF Reading, UnderWay
<1>2. /\ Sent \in Nat /\ Len(wire) \in Nat /\ q <= 4 * Sent /\ ReadTo(buffer, page, q)
      /\ (wire = <<>> => q = 4 * Sent)
  BY <1>1, SentType DEF StreamTypeOK, Reading
<1>3. PICK j \in 0..Sent, r \in 0..3 : q = 4 * j + r
  <2>1. CASE q = 0
    BY <1>2, <2>1
  <2>2. CASE q # 0
    <3>1. q \in 1..(4 * Sent)
      BY <1>2, <2>2
    <3>2. PICK k \in 1..Sent, b \in 1..4 : q = 4 * (k - 1) + b
      BY <1>2, <3>1, Position
    <3>3. CASE b = 4
      BY <1>2, <3>2, <3>3
    <3>4. CASE b # 4
      <4>1. k - 1 \in 0..Sent /\ b \in 0..3
        BY <1>2, <3>2, <3>4
      <4> QED  BY <3>2, <4>1
    <3> QED  BY <3>3, <3>4
  <2> QED  BY <2>1, <2>2
<1>4. Told(page, IF r = 3 THEN j + 1 ELSE j) /\ (IF r = 3 THEN j + 1 ELSE j) \in 0..Sent
  BY <1>2, <1>3 DEF ReadTo
<1>5. wire = <<>> => j = Sent /\ r = 0
  BY <1>2, <1>3
<1> QED  BY <1>4, <1>5

\* What a page was told is in order, and all of it when it was told "done".
LEMMA ToldOver ==
  ASSUME StreamTypeOK, ServerOK, NEW h \in 0..Sent, Told(page, h)
  PROVE  /\ Len(page.tokens) <= Len(generated)
         /\ \A i \in 1..Len(page.tokens) : page.tokens[i] = generated[i]
         /\ page.done => server = "closed" /\ Len(page.tokens) = Len(generated) /\ page.sources
         /\ server = "closed" /\ h = Sent => page.done
         /\ page.apology => page.tokens = <<>> /\ llm = "failed"
<1>1. /\ Len(generated) \in Nat /\ Failed \in {0, 1} /\ Sent \in Nat
      /\ Sent <= Len(generated) + 3 + Failed
      /\ (Sent = Len(generated) + 3 + Failed) <=> (server = "closed")
  BY SentType
<1> QED  BY <1>1 DEF Told

\* The property, of a reader that reads and of one that has ended.
LEMMA InvShown ==
  ASSUME StreamInv
  PROVE  ShownAsGenerated
<1>1. SUFFICES ASSUME view = "asking"
               PROVE  /\ IsPrefix(page.tokens, generated)
                      /\ page.done => page.tokens = generated /\ page.sources
                      /\ reader = "closed" => page.done
                      /\ page.apology => page.tokens = <<>> /\ (reader = "broken" \/ llm = "failed")
  BY DEF ShownAsGenerated
<1>2. StreamTypeOK /\ ServerOK /\ (reader = "open" => Reading) /\ (reader # "open" => Over)
  BY <1>1 DEF StreamInv
<1>3. /\ Len(page.tokens) <= Len(generated)
      /\ \A i \in 1..Len(page.tokens) : page.tokens[i] = generated[i]
      /\ page.done => Len(page.tokens) = Len(generated) /\ page.sources
      /\ reader = "closed" => page.done
      /\ page.apology => page.tokens = <<>> /\ (reader = "broken" \/ llm = "failed")
  <2>1. CASE reader = "open"
    BY <1>2, <2>1, ReadingTold, ToldOver
  <2>2. CASE reader # "open"
    BY <1>2, <2>2 DEF Over
  <2> QED  BY <2>1, <2>2
<1>4. page.tokens \in Seq(Nat) /\ generated \in Seq(Nat)
  BY <1>2 DEF StreamTypeOK, Page
<1>5. Len(page.tokens) = Len(generated) => page.tokens = generated
  BY <1>3, <1>4, SeqEqual
<1>6. IsPrefix(page.tokens, generated)
  <2> DEFINE n == Len(page.tokens)
             s == SubSeq(page.tokens, 1, n)
             t == SubSeq(generated, 1, n)
  <2>1. /\ s \in Seq(Nat) /\ t \in Seq(Nat) /\ Len(s) = n /\ Len(t) = n
        /\ \A i \in 1..n : s[i] = page.tokens[i] /\ t[i] = generated[i]
    BY <1>3, <1>4, SMTT(30)
  <2>2. \A i \in 1..Len(s) : s[i] = t[i]
    BY <1>3, <2>1
  <2>3. s = t
    <3> HIDE DEF s, t
    <3> QED  BY <2>1, <2>2, SeqEqual
  <2> QED  BY <1>3, <2>3 DEF IsPrefix
<1> QED  BY <1>3, <1>5, <1>6

-----------------------------------------------------------------------------
\* Before anything is sent.
LEMMA InitInv ==
  ASSUME StreamInit
  PROVE  StreamInv
<1>1. StreamTypeOK /\ ServerOK
  <2>1. page \in Page
    BY DEF StreamInit, Page
  <2> QED  BY <2>1 DEF StreamInit, StreamTypeOK, ServerOK
<1>2. Len(generated) = 0 /\ Sent = 0 /\ Failed = 0 /\ Len(wire) = 0
  BY DEF StreamInit, Sent, Failed
<1>3. Told(page, 0)
  <2>1. /\ page.tokens = <<>> /\ page.sources = FALSE /\ page.done = FALSE
        /\ page.apology = FALSE
    BY DEF StreamInit
  <2>2. ~page.sources /\ ~page.done /\ ~page.apology /\ Len(page.tokens) = 0
    BY <2>1
  <2> QED  BY <1>2, <2>2 DEF Told
<1>4. UnderWay(wire, 0)
  BY <1>2 DEF UnderWay
<1>5. ReadTo(buffer, page, 0)
  <2>1. ASSUME NEW j \in 0..Sent, NEW r \in 0..3, 0 = 4 * j + r
        PROVE  j = 0 /\ r = 0
    BY <1>2, <2>1
  <2>2. buffer = <<>>
    BY DEF StreamInit
  <2> QED  BY <1>3, <2>1, <2>2 DEF ReadTo
<1>6. 4 * Sent - Len(wire) = 0
  BY <1>2
<1> QED  BY <1>1, <1>4, <1>5, <1>6 DEF StreamInv, Reading, StreamInit

(* One more event of a response that nobody may read: the reader's part of   *)
(* the invariant, from the page's if the reader has ended.                   *)
LEMMA ServerStep ==
  ASSUME StreamTypeOK, ServerOK, reader = "open" => Reading, reader # "open" => Over,
         view = "asking", NEW e \in Event, Send(e), AtPage, server # "closed",
         Sent' = Sent + 1, StreamTypeOK', ServerOK',
         \A k \in 1..(Sent + 1) : EventAt(k)' = IF k = Sent + 1 THEN e ELSE EventAt(k),
         \A h \in 0..Sent : Told(page, h) => Told(page, h)',
         \/ generated' = generated
         \/ Len(generated') > Len(generated)
            /\ \A i \in 1..Len(generated) : generated'[i] = generated[i],
         llm = "failed" => llm' = "failed"
  PROVE  (reader = "open" => Reading)' /\ (reader # "open" => Over)'
<1>1. reader' = reader /\ buffer' = buffer /\ page' = page
  BY DEF AtPage
<1>2. CASE reader = "open"
  <2>1. wire' = wire \o Framed(e)
    BY <1>2 DEF Send
  <2>2. Sends(e)
    BY <1>1, <2>1 DEF Sends
  <2> QED  BY <1>1, <1>2, <2>2, SendReading
<1>3. CASE reader # "open"
  <2>1. Over /\ ~page.done
    BY <1>3 DEF Over
  <2>2. Len(generated) \in Nat /\ Len(generated') \in Nat /\ Len(page.tokens) \in Nat
    BY DEF StreamTypeOK, Page
  <2>3. /\ Len(page.tokens) <= Len(generated')
        /\ \A i \in 1..Len(page.tokens) : page.tokens[i] = generated'[i]
    BY <2>1, <2>2 DEF Over
  <2> QED  BY <1>1, <1>3, <2>1, <2>3 DEF Over
<1> QED  BY <1>2, <1>3

-----------------------------------------------------------------------------
\* The bytes of an event go to the end of those under way.
LEMMA SendType ==
  ASSUME StreamTypeOK, NEW e \in Event, Send(e)
  PROVE  wire' \in Seq(HalfByte \cup {LineEnd})
<1>1. Half(e, 1) \in HalfByte /\ Half(e, 2) \in HalfByte
  BY DEF HalfByte, Half
<1>2. Framed(e) \in Seq(HalfByte \cup {LineEnd})
  BY <1>1 DEF Framed
<1> QED  BY <1>2 DEF Send, StreamTypeOK

(* What the invariant says of a page that stays on the session.              *)
Asked ==
  StreamTypeOK /\ ServerOK /\ (reader = "open" => Reading) /\ (reader # "open" => Over)

\* The first event, whatever the answer will be made from.
LEMMA SendMetaStep ==
  ASSUME Asked, view = "asking", SendMeta
  PROVE  Asked'
<1>1. /\ StreamTypeOK /\ ServerOK /\ (reader = "open" => Reading) /\ (reader # "open" => Over)
      /\ Send(Ev("meta", 0)) /\ AtPage /\ server # "closed"
  BY DEF Asked, SendMeta
<1>2. Ev("meta", 0) \in Event
  BY DEF Ev, Event
<1>3. /\ generated = <<>> /\ generated' = <<>> /\ Sent = 0 /\ Sent' = 1
      /\ Failed = 0 /\ Failed' = 0 /\ llm = "before" /\ server' # "meta"
  BY <1>1 DEF SendMeta, ServerOK, Sent, Failed
<1>4. StreamTypeOK' /\ ServerOK'
  BY <1>1, <1>2, SendType DEF SendMeta, AtPage, StreamTypeOK, ServerOK
<1>5. \A k \in 1..(Sent + 1) : EventAt(k)' = IF k = Sent + 1 THEN Ev("meta", 0) ELSE EventAt(k)
  BY <1>3 DEF EventAt
<1>6. \A h \in 0..Sent : Told(page, h) => Told(page, h)'
  BY <1>1, <1>3 DEF Told, AtPage
<1>7. Sent' = Sent + 1
  BY <1>3
<1> QED  BY <1>1, <1>2, <1>3, <1>4, <1>5, <1>6, <1>7, ServerStep DEF Asked

\* A sentence is the only token.
LEMMA SendSentenceStep ==
  ASSUME Asked, view = "asking", SendSentence
  PROVE  Asked'
<1>1. /\ StreamTypeOK /\ ServerOK /\ (reader = "open" => Reading) /\ (reader # "open" => Over)
      /\ Send(Ev("token", 0)) /\ AtPage /\ server # "closed"
  BY DEF Asked, SendSentence
<1>2. Ev("token", 0) \in Event
  BY DEF Ev, Event
<1>3. /\ generated = <<>> /\ generated' = <<0>> /\ Len(generated) = 0 /\ Len(generated') = 1
      /\ generated'[1] = 0 /\ Sent = 1 /\ Sent' = 2
      /\ Failed = 0 /\ Failed' = 0 /\ llm = "before"
  BY <1>1 DEF SendSentence, ServerOK, Sent, Failed
<1>4. StreamTypeOK' /\ ServerOK'
  BY <1>1, <1>2, SendType DEF SendSentence, AtPage, StreamTypeOK, ServerOK
<1>5. \A k \in 1..(Sent + 1) : EventAt(k)' = IF k = Sent + 1 THEN Ev("token", 0) ELSE EventAt(k)
  BY <1>3 DEF EventAt
<1>6. \A h \in 0..Sent : Told(page, h) => Told(page, h)'
  BY <1>1, <1>3 DEF Told, AtPage
<1>7. Sent' = Sent + 1
  BY <1>3
<1> QED  BY <1>1, <1>2, <1>3, <1>4, <1>5, <1>6, <1>7, ServerStep DEF Asked

\* A token of the LLM goes to the end of the answer.
LEMMA ReadTokenStep ==
  ASSUME Asked, view = "asking", ReadToken
  PROVE  Asked'
<1> DEFINE e == Ev("token", lines + 1)
<1>1. /\ StreamTypeOK /\ ServerOK /\ (reader = "open" => Reading) /\ (reader # "open" => Over)
      /\ Send(e) /\ AtPage /\ server = "answer" /\ server' = "answer"
      /\ llm = "open" /\ llm' = "open"
  BY DEF Asked, ReadToken, ServerOK
<1>2. lines + 1 \in Nat /\ e \in Event /\ generated \in Seq(Nat)
  BY <1>1 DEF Ev, Event, StreamTypeOK
<1>3. /\ generated' = Append(generated, lines + 1) /\ generated' \in Seq(Nat)
      /\ Len(generated) \in Nat /\ Len(generated') = Len(generated) + 1
      /\ generated'[Len(generated) + 1] = lines + 1
      /\ \A i \in 1..Len(generated) : generated'[i] = generated[i]
  BY <1>2 DEF ReadToken
<1>4. /\ Sent = Len(generated) + 1 /\ Sent' = Len(generated) + 2
      /\ Failed = 0 /\ Failed' = 0
  BY <1>1, <1>3 DEF Sent, Failed
<1>5. StreamTypeOK' /\ ServerOK'
  <2>1. wire' \in Seq(HalfByte \cup {LineEnd})
    BY <1>1, <1>2, SendType
  <2> QED  BY <1>1, <1>2, <1>3, <2>1 DEF ReadToken, AtPage, StreamTypeOK, ServerOK
<1>6. ASSUME NEW k \in 1..(Sent + 1)
      PROVE  EventAt(k)' = IF k = Sent + 1 THEN e ELSE EventAt(k)
  <2>1. CASE k = 1
    BY <1>3, <1>4, <2>1 DEF EventAt
  <2>2. CASE k = Sent + 1
    <3>1. k = Len(generated) + 2 /\ k - 1 = Len(generated) + 1
      BY <1>3, <1>4, <2>2
    <3> QED  BY <1>3, <2>2, <3>1 DEF EventAt
  <2>3. CASE k # 1 /\ k # Sent + 1
    <3>1. k - 1 \in 1..Len(generated) /\ k <= Len(generated) + 1
      BY <1>3, <1>4, <2>3
    <3>2. EventAt(k) = Ev("token", generated[k - 1])
      BY <2>3, <3>1 DEF EventAt
    <3>3. EventAt(k)' = Ev("token", generated'[k - 1])
      BY <1>3, <2>3, <3>1 DEF EventAt
    <3> QED  BY <1>3, <2>3, <3>1, <3>2, <3>3
  <2> QED  BY <2>1, <2>2, <2>3
<1>7. ASSUME NEW h \in 0..Sent, Told(page, h) PROVE Told(page, h)'
  <2>1. h <= Len(generated) + 1
    BY <1>3, <1>4
  <2> QED  BY <1>1, <1>3, <1>4, <1>7, <2>1 DEF Told, AtPage
<1>8. Sent' = Sent + 1 /\ Len(generated') > Len(generated)
  BY <1>3, <1>4
<1> HIDE DEF e
<1> QED  BY <1>1, <1>2, <1>3, <1>5, <1>6, <1>7, <1>8, ServerStep DEF Asked

\* The LLM fails: an error, after the tokens.
LEMMA AnswerFailsStep ==
  ASSUME Asked, view = "asking", AnswerFails
  PROVE  Asked'
<1>1. /\ StreamTypeOK /\ ServerOK /\ (reader = "open" => Reading) /\ (reader # "open" => Over)
      /\ Send(Ev("error", 0)) /\ AtPage /\ server = "answer" /\ server' = "sources"
      /\ llm = "open" /\ llm' = "failed" /\ generated' = generated /\ Len(generated) \in Nat
  BY DEF Asked, AnswerFails, ServerOK, StreamTypeOK
<1>2. Ev("error", 0) \in Event
  BY DEF Ev, Event
<1>3. /\ Sent = Len(generated) + 1 /\ Sent' = Len(generated) + 2
      /\ Failed = 0 /\ Failed' = 1
  BY <1>1 DEF Sent, Failed
<1>4. StreamTypeOK' /\ ServerOK'
  <2>1. wire' \in Seq(HalfByte \cup {LineEnd})
    BY <1>1, <1>2, SendType
  <2> QED  BY <1>1, <2>1 DEF AnswerFails, AtPage, StreamTypeOK, ServerOK
<1>5. \A k \in 1..(Sent + 1) : EventAt(k)' = IF k = Sent + 1 THEN Ev("error", 0) ELSE EventAt(k)
  BY <1>1, <1>3 DEF EventAt
<1>6. ASSUME NEW h \in 0..Sent, Told(page, h) PROVE Told(page, h)'
  BY <1>1, <1>3, <1>6 DEF Told, AtPage
<1>7. Sent' = Sent + 1
  BY <1>1, <1>3
<1> QED  BY <1>1, <1>2, <1>4, <1>5, <1>6, <1>7, ServerStep DEF Asked

\* The sources, after the tokens and the error.
LEMMA SendSourcesStep ==
  ASSUME Asked, view = "asking", SendSources
  PROVE  Asked'
<1>1. /\ StreamTypeOK /\ ServerOK /\ (reader = "open" => Reading) /\ (reader # "open" => Over)
      /\ Send(Ev("sources", 0)) /\ AtPage /\ server = "sources" /\ server' = "done"
      /\ llm' = llm /\ generated' = generated /\ Len(generated) \in Nat
  BY DEF Asked, SendSources, StreamTypeOK
<1>2. Ev("sources", 0) \in Event
  BY DEF Ev, Event
<1>3. /\ Failed \in {0, 1} /\ Failed' = Failed /\ Sent = Len(generated) + 1 + Failed
      /\ Sent' = Len(generated) + 2 + Failed
  BY <1>1 DEF Sent, Failed
<1>4. StreamTypeOK' /\ ServerOK'
  <2>1. wire' \in Seq(HalfByte \cup {LineEnd})
    BY <1>1, <1>2, SendType
  <2> QED  BY <1>1, <2>1 DEF SendSources, AtPage, StreamTypeOK, ServerOK
<1>5. ASSUME NEW k \in 1..(Sent + 1)
      PROVE  EventAt(k)' = IF k = Sent + 1 THEN Ev("sources", 0) ELSE EventAt(k)
  BY <1>1, <1>3 DEF EventAt
<1>6. ASSUME NEW h \in 0..Sent, Told(page, h) PROVE Told(page, h)'
  BY <1>1, <1>3, <1>6 DEF Told, AtPage
<1>7. Sent' = Sent + 1
  BY <1>1, <1>3
<1> QED  BY <1>1, <1>2, <1>4, <1>5, <1>6, <1>7, ServerStep DEF Asked

\* The last event.
LEMMA SendDoneStep ==
  ASSUME Asked, view = "asking", SendDone
  PROVE  Asked'
<1>1. /\ StreamTypeOK /\ ServerOK /\ (reader = "open" => Reading) /\ (reader # "open" => Over)
      /\ Send(Ev("done", 0)) /\ AtPage /\ server = "done" /\ server' = "closed"
      /\ llm' = llm /\ generated' = generated /\ Len(generated) \in Nat
  BY DEF Asked, SendDone, StreamTypeOK
<1>2. Ev("done", 0) \in Event
  BY DEF Ev, Event
<1>3. /\ Failed \in {0, 1} /\ Failed' = Failed /\ Sent = Len(generated) + 2 + Failed
      /\ Sent' = Len(generated) + 3 + Failed
  BY <1>1 DEF Sent, Failed
<1>4. StreamTypeOK' /\ ServerOK'
  <2>1. wire' \in Seq(HalfByte \cup {LineEnd})
    BY <1>1, <1>2, SendType
  <2> QED  BY <1>1, <2>1 DEF SendDone, AtPage, StreamTypeOK, ServerOK
<1>5. ASSUME NEW k \in 1..(Sent + 1)
      PROVE  EventAt(k)' = IF k = Sent + 1 THEN Ev("done", 0) ELSE EventAt(k)
  BY <1>1, <1>3 DEF EventAt
<1>6. ASSUME NEW h \in 0..Sent, Told(page, h) PROVE Told(page, h)'
  BY <1>1, <1>3, <1>6 DEF Told, AtPage
<1>7. Sent' = Sent + 1
  BY <1>1, <1>3
<1> QED  BY <1>1, <1>2, <1>4, <1>5, <1>6, <1>7, ServerStep DEF Asked

-----------------------------------------------------------------------------
(* The response and the page stay; what the reader's place means too.        *)
LEMMA ReadingKept ==
  ASSUME StreamTypeOK, ServerOK, Reading, UNCHANGED <<wire, buffer, page, generated>>,
         Sent' = Sent, Failed' = Failed, llm = "failed" => llm' = "failed"
  PROVE  Reading'
<1>1. PICK q \in Nat : q = 4 * Sent - Len(wire)
  BY DEF Reading, UnderWay
<1>2. /\ Sent \in Nat /\ Len(generated) \in Nat /\ Failed \in {0, 1}
      /\ UnderWay(wire, q) /\ ReadTo(buffer, page, q)
  BY <1>1, SentType DEF Reading
<1>3. \A k \in Nat : EventAt(k)' = EventAt(k)
  BY DEF EventAt
<1>4. \A k \in Nat : \A b \in 1..4 : ByteAt(k, b)' = ByteAt(k, b)
  BY <1>3 DEF ByteAt
<1>5. \A h \in Nat : Told(page, h) => Told(page, h)'
  BY <1>2 DEF Told
<1>6. UnderWay(wire, q)'
  BY <1>2, <1>4 DEF UnderWay
<1>7. ReadTo(buffer, page, q)'
  BY <1>2, <1>3, <1>5 DEF ReadTo
<1>8. q = (4 * Sent - Len(wire))'
  BY <1>1
<1> QED  BY <1>6, <1>7, <1>8 DEF Reading

\* A step of the server or the LLM that sends nothing.
LEMMA QuietStep ==
  ASSUME Asked, view = "asking", SkipLine \/ AnswerEnds
  PROVE  Asked'
<1>1. /\ StreamTypeOK /\ ServerOK /\ (reader = "open" => Reading) /\ (reader # "open" => Over)
      /\ llm = "open" /\ server = "answer" /\ UNCHANGED <<wire, reader, buffer, page, generated>>
      /\ Len(generated) \in Nat
  BY DEF Asked, SkipLine, AnswerEnds, AtPage, ServerOK, StreamTypeOK
<1>2. \/ server' = "answer" /\ llm' = "open"
      \/ server' = "sources" /\ llm' = "ended"
  BY <1>1 DEF SkipLine, AnswerEnds
<1>3. Failed = 0 /\ Failed' = 0 /\ Sent' = Sent
  BY <1>1, <1>2 DEF Sent, Failed
<1>4. StreamTypeOK' /\ ServerOK'
  <2>1. lines' \in Nat
    BY <1>1 DEF SkipLine, AnswerEnds, StreamTypeOK
  <2> QED  BY <1>1, <1>2, <2>1 DEF StreamTypeOK, ServerOK
<1>5. (reader = "open" => Reading)'
  BY <1>1, <1>2, <1>3, ReadingKept
<1>6. (reader # "open" => Over)'
  BY <1>1, <1>2 DEF Over
<1> QED  BY <1>4, <1>5, <1>6 DEF Asked

\* A fragment arrives.
LEMMA ReceiveStep ==
  ASSUME Asked, view = "asking", Receive
  PROVE  Asked'
<1>1. /\ StreamTypeOK /\ ServerOK /\ reader = "open" /\ reader' = "open" /\ Reading
      /\ UNCHANGED <<llm, lines, generated, server, intent>>
  BY DEF Asked, Receive, AtServer
<1>2. PICK n \in 1..Len(wire) :
        LET read == ScanAll([line |-> buffer, page |-> page], SubSeq(wire, 1, n)) IN
        /\ buffer' = read.line /\ page' = read.page
        /\ wire' = SubSeq(wire, n + 1, Len(wire))
  BY DEF Receive, ScanAll
<1>3. PICK q \in Nat : q = 4 * Sent - Len(wire)
  BY <1>1 DEF Reading, UnderWay
<1>4. /\ buffer' \in Seq(HalfByte) /\ page' \in Page /\ ReadTo(buffer', page', q + n)
      /\ UnderWay(wire', q + n)
  BY <1>1, <1>2, <1>3, ReceiveReads DEF Scanned
<1>5. Sent' = Sent /\ Failed' = Failed
  BY <1>1 DEF Sent, Failed
<1>6. StreamTypeOK' /\ ServerOK'
  <2>1. wire' \in Seq(HalfByte \cup {LineEnd})
    BY <1>1, <1>2 DEF StreamTypeOK
  <2> QED  BY <1>1, <1>4, <2>1 DEF StreamTypeOK, ServerOK
<1>7. Reading'
  <2>1. PICK m \in Nat : m = q + n
    BY <1>1 DEF StreamTypeOK
  <2>2. \A k \in Nat : EventAt(k)' = EventAt(k)
    BY <1>1, <1>5 DEF EventAt
  <2>3. \A k \in Nat : \A b \in 1..4 : ByteAt(k, b)' = ByteAt(k, b)
    BY <2>2 DEF ByteAt
  <2>4. Sent \in Nat
    BY <1>1, SentType
  <2>5. UnderWay(wire, m)'
    BY <1>4, <1>5, <2>1, <2>3, <2>4 DEF UnderWay
  <2>6. ReadTo(buffer, page, m)'
    <3>1. \A h \in Nat : Told(page', h) => Told(page, h)'
      BY <1>1, <1>5 DEF Told
    <3>2. ASSUME NEW j \in 0..Sent, NEW r \in 0..3, m = 4 * j + r
          PROVE  /\ buffer' = IF r = 1 THEN <<Half(EventAt(j + 1)', 1)>>
                             ELSE IF r = 2
                                  THEN <<Half(EventAt(j + 1)', 1), Half(EventAt(j + 1)', 2)>>
                             ELSE <<>>
                 /\ Told(page, IF r = 3 THEN j + 1 ELSE j)'
      <4>1. /\ buffer' = IF r = 1 THEN <<Half(EventAt(j + 1), 1)>>
                        ELSE IF r = 2 THEN <<Half(EventAt(j + 1), 1), Half(EventAt(j + 1), 2)>>
                        ELSE <<>>
            /\ Told(page', IF r = 3 THEN j + 1 ELSE j)
        BY <1>4, <2>1, <3>2 DEF ReadTo
      <4>2. EventAt(j + 1)' = EventAt(j + 1) /\ (IF r = 3 THEN j + 1 ELSE j) \in Nat
        BY <2>2, <2>4
      <4> QED  BY <3>1, <4>1, <4>2
    <3> QED  BY <1>5, <3>2 DEF ReadTo
  <2>7. m = (4 * Sent - Len(wire))'
    <3>1. m + Len(wire') = 4 * Sent
      BY <1>4, <2>1 DEF UnderWay
    <3>2. Len(wire') \in Nat
      BY <1>6 DEF StreamTypeOK
    <3> QED  BY <1>5, <2>4, <3>1, <3>2
  <2> QED  BY <2>5, <2>6, <2>7 DEF Reading
<1> QED  BY <1>1, <1>6, <1>7 DEF Asked

\* The response is read to its end, or the connection breaks.
LEMMA EndStep ==
  ASSUME Asked, view = "asking", Finish \/ Break
  PROVE  Asked'
<1>1. /\ StreamTypeOK /\ ServerOK /\ reader = "open" /\ Reading
      /\ UNCHANGED <<llm, lines, generated, server, intent>>
  BY DEF Asked, Finish, Break, AtServer
<1>2. PICK h \in 0..Sent : Told(page, h) /\ (wire = <<>> => h = Sent)
  BY <1>1, ReadingTold
<1>3. /\ Len(page.tokens) <= Len(generated)
      /\ \A i \in 1..Len(page.tokens) : page.tokens[i] = generated[i]
      /\ page.done => server = "closed" /\ Len(page.tokens) = Len(generated) /\ page.sources
      /\ server = "closed" /\ h = Sent => page.done
      /\ page.apology => page.tokens = <<>> /\ llm = "failed"
  BY <1>1, <1>2, ToldOver
<1>4. CASE Finish
  <2>1. /\ server = "closed" /\ wire = <<>> /\ reader' = "closed"
        /\ UNCHANGED <<wire, buffer, page>>
    BY <1>4 DEF Finish
  <2>2. StreamTypeOK' /\ ServerOK'
    BY <1>1, <2>1 DEF StreamTypeOK, ServerOK
  <2>3. Over'
    BY <1>1, <1>2, <1>3, <2>1 DEF Over
  <2> QED  BY <2>1, <2>2, <2>3 DEF Asked
<1>5. CASE Break
  <2>1. /\ reader' = "broken" /\ wire' = <<>> /\ buffer' = buffer
        /\ page' = [page EXCEPT !.apology = @ \/ page.tokens = <<>>]
    BY <1>5 DEF Break, Write
  <2>2. page \in Page /\ (page.apology \/ page.tokens = <<>>) \in BOOLEAN
    BY <1>1 DEF StreamTypeOK
  <2>3. /\ page' \in Page /\ page'.tokens = page.tokens /\ page'.done = page.done
        /\ page'.sources = page.sources
        /\ page'.apology = (page.apology \/ page.tokens = <<>>)
    BY <2>1, <2>2 DEF Page
  <2>4. StreamTypeOK' /\ ServerOK'
    BY <1>1, <2>1, <2>3 DEF StreamTypeOK, ServerOK
  <2>5. page'.apology => page'.tokens = <<>>
    BY <1>3, <2>3
  <2>6. Over'
    BY <1>1, <1>3, <2>1, <2>3, <2>5 DEF Over
  <2> QED  BY <2>1, <2>4, <2>6 DEF Asked
<1> QED  BY <1>4, <1>5

-----------------------------------------------------------------------------
(* Every step keeps the invariant.  A message that was replaced or shared   *)
(* stays so, and of it the invariant says nothing.                          *)
THEOREM StreamInductive ==
  ASSUME StreamInv, [StreamNext]_streamVars
  PROVE  StreamInv'
<1>1. SUFFICES ASSUME view' = "asking" PROVE Asked'
  BY DEF StreamInv, Asked
<1>2. view = "asking"
  BY <1>1 DEF StreamNext, streamVars, SendMeta, SendSentence, ReadToken, SkipLine, AnswerEnds,
     AnswerFails, SendSources, SendDone, Receive, Finish, Break, LoadMessages, MessagesLoaded,
     AskAgain, AtPage
<1>3. Asked
  BY <1>2 DEF StreamInv, Asked
<1>4. CASE SendMeta
  BY <1>2, <1>3, <1>4, SendMetaStep
<1>5. CASE SendSentence
  BY <1>2, <1>3, <1>5, SendSentenceStep
<1>6. CASE ReadToken
  BY <1>2, <1>3, <1>6, ReadTokenStep
<1>7. CASE SkipLine \/ AnswerEnds
  BY <1>2, <1>3, <1>7, QuietStep
<1>8. CASE AnswerFails
  BY <1>2, <1>3, <1>8, AnswerFailsStep
<1>9. CASE SendSources
  BY <1>2, <1>3, <1>9, SendSourcesStep
<1>10. CASE SendDone
  BY <1>2, <1>3, <1>10, SendDoneStep
<1>11. CASE Receive
  BY <1>2, <1>3, <1>11, ReceiveStep
<1>12. CASE Finish \/ Break
  BY <1>2, <1>3, <1>12, EndStep
<1>13. CASE LoadMessages \/ AskAgain
  BY <1>1, <1>13 DEF LoadMessages, AskAgain
<1>14. CASE MessagesLoaded \/ UNCHANGED streamVars
  <2>1. UNCHANGED <<llm, lines, generated, server, wire, reader, buffer, page>>
    BY <1>14 DEF streamVars, MessagesLoaded, AtReader, AtServer
  <2>2. Sent' = Sent /\ Failed' = Failed
    BY <2>1 DEF Sent, Failed
  <2>3. StreamTypeOK' /\ ServerOK'
    BY <1>3, <2>1 DEF Asked, StreamTypeOK, ServerOK
  <2>4. (reader = "open" => Reading)'
    BY <1>3, <2>1, <2>2, ReadingKept DEF Asked
  <2>5. (reader # "open" => Over)'
    BY <1>3, <2>1 DEF Asked, Over
  <2> QED  BY <2>3, <2>4, <2>5 DEF Asked
<1> QED
  BY <1>4, <1>5, <1>6, <1>7, <1>8, <1>9, <1>10, <1>11, <1>12, <1>13, <1>14 DEF StreamNext

(* However the network cuts the response, the message of the answer shows    *)
(* the tokens of the LLM as they were generated until a load replaces it or  *)
(* it is asked for again, and the page knows when it has all of them and     *)
(* apologises only for a failure without an answer.                          *)
THEOREM StreamIsShown == StreamSpec => []ShownAsGenerated
<1>1. StreamInit => StreamInv
  BY InitInv
<1>2. StreamInv /\ [StreamNext]_streamVars => StreamInv'
  BY StreamInductive
<1>3. StreamInv => ShownAsGenerated
  BY InvShown
<1> QED  BY <1>1, <1>2, <1>3, PTL DEF StreamSpec
=============================================================================
