--------------------------- MODULE PreviewProofs ---------------------------
(***************************************************************************)
(* Proofs about Preview for any documents, users, requests, ranges, object *)
(* size and length of the access log.                                      *)
(***************************************************************************)
EXTENDS Preview, FiniteSetTheorems, SequenceTheorems, TLAPS

ReplyType == [status : Nat, range : Ranges, first : Nat, declared : Int, sent : Nat]
PreviewType == [pc : {"idle", "stat", "open", "replied"}, doc : Documents \cup {"none"},
                reply : ReplyType]

PreviewTypeOK ==
  /\ row \in [Documents -> {"private", "public", "gone"}] /\ object \subseteq Documents
  /\ preview \in [Previews -> PreviewType]
  /\ logger \in [Previews -> {"none", "push", "trim", "untrimmed", "done"}]
  /\ log \in [Documents -> Seq(Previews)] /\ accesses \in [Documents -> Seq(Previews)]

\* Who has pushed to the log of d and not trimmed it.
Untrimmed(d) == {p \in Previews : preview[p].doc = d /\ logger[p] \in {"trim", "untrimmed"}}

(* Element by element: the log is the end of the accesses, all of them or at *)
(* least MaxLog, and longer than that by those who have not trimmed it.      *)
LogOK(d) ==
  LET n == Len(log[d])  m == Len(accesses[d]) IN
  /\ n <= m /\ \A i \in 1..n : log[d][i] = accesses[d][m - n + i]
  /\ n >= MaxLog \/ n = m
  /\ n <= MaxLog + Cardinality(Untrimmed(d))

(* A logging task belongs to a request that has found its document, which    *)
(* the request then never changes.                                           *)
LoggerOK(p) ==
  /\ preview[p].pc # "idle" => preview[p].doc \in Documents
  /\ logger[p] # "none" => preview[p].pc \in {"open", "replied"}

\* PreviewIsExact of one response.
Exact(r) ==
  /\ r.status = 200 => r.declared = Size /\ r.sent = Size
  /\ r.status = 206 /\ Satisfiable(r.range) =>
       /\ r.declared = r.sent /\ r.sent > 0 /\ r.first = r.range.from
       /\ r.first + r.sent <= Size
       /\ r.first + r.sent < Size => r.first + r.sent - 1 = r.range.to

PreviewInv ==
  /\ PreviewTypeOK /\ \A p \in Previews : Exact(preview[p].reply)
  /\ \A d \in Documents : LogOK(d)
  /\ \A p \in Previews : LoggerOK(p)

-----------------------------------------------------------------------------
\* A suffix, element by element.
LEMMA SuffixIs ==
  ASSUME NEW S, NEW s \in Seq(S), NEW t \in Seq(S), Len(s) <= Len(t),
         \A i \in 1..Len(s) : s[i] = t[Len(t) - Len(s) + i]
  PROVE  IsSuffix(s, t)
<1>1. /\ Len(s) \in Nat /\ Len(t) \in Nat
      /\ Reverse(s) = [i \in 1..Len(s) |-> s[Len(s) - i + 1]]
      /\ Reverse(t) = [i \in 1..Len(t) |-> t[Len(t) - i + 1]]
  BY DEF Reverse
<1>2. /\ Len(Reverse(s)) = Len(s) /\ Len(Reverse(t)) = Len(t)
  BY <1>1
<1>3. /\ SubSeq(Reverse(s), 1, Len(s)) = [i \in 1..Len(s) |-> Reverse(s)[i]]
      /\ SubSeq(Reverse(t), 1, Len(s)) = [i \in 1..Len(s) |-> Reverse(t)[i]]
  BY <1>1, <1>2
<1>4. \A i \in 1..Len(s) : Reverse(s)[i] = Reverse(t)[i]
  <2>1. ASSUME NEW i \in 1..Len(s) PROVE Reverse(s)[i] = Reverse(t)[i]
    <3>1. Reverse(s)[i] = s[Len(s) - i + 1] /\ Reverse(t)[i] = t[Len(t) - i + 1]
      BY <1>1
    <3>2. Len(s) - i + 1 \in 1..Len(s)
          /\ Len(t) - Len(s) + (Len(s) - i + 1) = Len(t) - i + 1
      BY <1>1
    <3>3. QED
      BY <3>1, <3>2
  <2>2. QED
    BY <2>1
<1>5. QED
  BY <1>2, <1>3, <1>4 DEF IsSuffix, IsPrefix
-----------------------------------------------------------------------------
(* The steps.                                                               *)

(* What the assumptions say of the numbers.                                *)
LEMMA Numbers ==
  Size \in Nat /\ Size > 0 /\ MaxLog \in Nat /\ MaxLog > 0 /\ IsFiniteSet(Previews)
BY PreviewAssumption

\* The steps of a request that touch neither a log nor the logging task.
LEMMA RequestMoves ==
  ASSUME PreviewInv, NEW p \in Previews, NEW q \in PreviewType,
         preview' = [preview EXCEPT ![p] = q], UNCHANGED <<storage, logger, logs>>,
         Exact(q.reply), q.pc # "idle" /\ q.doc \in Documents,
         \/ logger[p] = "none"
         \/ q.doc = preview[p].doc /\ (preview[p].pc \in {"open", "replied"} => q.pc \in {"open", "replied"})
  PROVE  PreviewInv'
<1>1. /\ preview' \in [Previews -> PreviewType] /\ preview'[p] = q
      /\ \A o \in Previews \ {p} : preview'[o] = preview[o]
  BY DEF PreviewInv, PreviewTypeOK
<1>2. PreviewTypeOK'
  BY <1>1 DEF PreviewInv, PreviewTypeOK, storage, logs
<1>3. \A o \in Previews : Exact(preview'[o].reply)
  BY <1>1 DEF PreviewInv
<1>4. \A o \in Previews : LoggerOK(o)'
  BY <1>1 DEF PreviewInv, LoggerOK
<1>5. ASSUME NEW d \in Documents PROVE LogOK(d)'
  <2>1. Untrimmed(d)' = Untrimmed(d)
    BY <1>1 DEF Untrimmed
  <2>2. LogOK(d) /\ log' = log /\ accesses' = accesses
    BY DEF PreviewInv, logs
  <2>3. QED
    BY <2>1, <2>2 DEF LogOK
<1>6. (\A o \in Previews : Exact(preview[o].reply))'
  BY <1>3 DEF Exact, Satisfiable
<1>7. QED
  BY <1>2, <1>4, <1>5, <1>6 DEF PreviewInv

\* A response to a request that has found its document.
LEMMA ReplySafe ==
  ASSUME PreviewInv, NEW p \in Previews, preview[p].pc # "idle", NEW r \in ReplyType, Exact(r),
         Reply(p, r), UNCHANGED <<storage, logger, logs>>
  PROVE  PreviewInv'
<1> DEFINE q == [preview[p] EXCEPT !.pc = "replied", !.reply = r]
<1>0. preview \in [Previews -> PreviewType] /\ preview[p] \in PreviewType /\ LoggerOK(p)
  BY DEF PreviewInv, PreviewTypeOK
<1>1. /\ q \in PreviewType /\ q.pc = "replied" /\ q.doc = preview[p].doc /\ q.reply = r
      /\ q.doc \in Documents
  BY <1>0 DEF PreviewType, LoggerOK
<1>2. preview' = [preview EXCEPT ![p] = q]
  BY <1>0 DEF Reply
<1> HIDE DEF q
<1>3. Exact(q.reply)
  BY <1>1
<1>4. QED
  BY <1>1, <1>2, <1>3, RequestMoves

(* A refusal has no body: it is exact.                                     *)
LEMMA RefuseSafe ==
  ASSUME PreviewInv, NEW p \in Previews, preview[p].pc # "idle",
         NEW status \in Nat \ {200, 206}, Refuse(p, status), UNCHANGED <<storage, logger, logs>>
  PROVE  PreviewInv'
<1> DEFINE r == [NoReply EXCEPT !.status = status]
<1>1. r \in ReplyType /\ r.status = status
  BY DEF ReplyType, NoReply, Ranges
<1>2. Reply(p, r)
  BY DEF Refuse
<1> HIDE DEF r
<1>3. Exact(r)
  BY <1>1 DEF Exact
<1>4. QED
  BY <1>1, <1>2, <1>3, ReplySafe

(* The document is looked up and its visibility checked.                   *)
LEMMA CheckSafe ==
  ASSUME PreviewInv, NEW p \in Previews, Check(p)
  PROVE  PreviewInv'
<1>0. /\ preview \in [Previews -> PreviewType] /\ preview[p].pc = "idle" /\ logger[p] = "none"
      /\ UNCHANGED <<storage, logger, logs>>
  <2>1. preview[p].pc = "idle" /\ UNCHANGED <<storage, logger, logs>>
    BY DEF Check
  <2>2. preview \in [Previews -> PreviewType] /\ LoggerOK(p)
    BY DEF PreviewInv, PreviewTypeOK
  <2>3. QED
    BY <2>1, <2>2 DEF LoggerOK
<1> DEFINE Result(status) == [NoReply EXCEPT !.status = IF status = 200 THEN 0 ELSE status]
           After(d, status) == [pc |-> IF status = 200 THEN "stat" ELSE "replied", doc |-> d,
                               reply |-> Result(status)]
<1>1. PICK u \in Readers, d \in Documents, cached \in BOOLEAN :
        preview' = [preview EXCEPT ![p] =
          After(d, IF row[d] = "gone" THEN 404
                  ELSE IF OwnerOf[d] # u /\ row[d] # "public" THEN 403
                  ELSE IF cached THEN 304 ELSE 200)]
  BY DEF Check
<1>2. PICK status \in {200, 304, 403, 404} :
        status = IF row[d] = "gone" THEN 404
                 ELSE IF OwnerOf[d] # u /\ row[d] # "public" THEN 403
                 ELSE IF cached THEN 304 ELSE 200
  OBVIOUS
<1>3. Result(status) \in ReplyType /\ Result(status).status \notin {200, 206}
  BY DEF ReplyType, NoReply, Ranges
<1> DEFINE q == After(d, status)
<1> HIDE DEF Result
<1>4. q \in PreviewType /\ q.pc # "idle" /\ q.doc \in Documents /\ q.reply = Result(status)
  BY <1>3 DEF PreviewType
<1>5. Exact(q.reply)
  BY <1>3, <1>4 DEF Exact
<1> HIDE DEF After
<1>6. preview' = [preview EXCEPT ![p] = q]
  BY <1>1, <1>2
<1> HIDE DEF q
<1>7. QED
  BY <1>0, <1>4, <1>5, <1>6, RequestMoves

(* The object is found, which starts the logging task, or is not.          *)
LEMMA StatSafe ==
  ASSUME PreviewInv, NEW p \in Previews, Stat(p)
  PROVE  PreviewInv'
<1>0. /\ PreviewTypeOK /\ preview[p] \in PreviewType /\ preview[p].pc = "stat" /\ LoggerOK(p)
      /\ UNCHANGED <<storage, logs>>
  BY DEF PreviewInv, PreviewTypeOK, Stat
<1>1. CASE Refuse(p, 500) /\ UNCHANGED logger
  BY <1>0, <1>1, RefuseSafe
<1>2. CASE /\ preview' = [preview EXCEPT ![p].pc = "open"]
           /\ logger' = [logger EXCEPT ![p] = "push"]
  <2>1. /\ preview' \in [Previews -> PreviewType]
        /\ preview'[p].pc = "open" /\ preview'[p].doc = preview[p].doc
        /\ preview'[p].reply = preview[p].reply
        /\ \A o \in Previews \ {p} : preview'[o] = preview[o]
    BY <1>0, <1>2 DEF PreviewTypeOK, PreviewType
  <2>2. /\ logger' \in [Previews -> {"none", "push", "trim", "untrimmed", "done"}]
        /\ logger'[p] = "push" /\ logger[p] = "none"
        /\ \A o \in Previews \ {p} : logger'[o] = logger[o]
    BY <1>0, <1>2 DEF PreviewTypeOK, LoggerOK
  <2>3. PreviewTypeOK'
    BY <1>0, <2>1, <2>2 DEF PreviewTypeOK, storage, logs
  <2>4. \A d \in Documents : LogOK(d)'
    <3>1. \A d \in Documents : Untrimmed(d)' = Untrimmed(d)
      BY <2>1, <2>2 DEF Untrimmed
    <3>2. log' = log /\ accesses' = accesses
      BY <1>0 DEF logs
    <3>3. QED
      BY <3>1, <3>2 DEF PreviewInv, LogOK
  <2>5. \A o \in Previews : LoggerOK(o)'
    BY <1>0, <2>1, <2>2 DEF PreviewInv, LoggerOK
  <2>6. \A o \in Previews : preview'[o].reply = preview[o].reply
    BY <2>1
  <2>7. (\A o \in Previews : Exact(preview[o].reply))'
    BY <2>6 DEF PreviewInv, Exact, Satisfiable
  <2>8. QED
    BY <2>3, <2>4, <2>5, <2>7 DEF PreviewInv
<1>3. QED
  BY <1>1, <1>2 DEF Stat

\* A range with a byte in it is answered by the bytes the object has of it.
LEMMA RangeIsExact ==
  ASSUME NEW range \in Ranges, range # NoRange, NEW sent,
         sent \in Sent(range.from, LastByte(range) - range.from + 1),
         NEW r, r = [status |-> 206, range |-> range, first |-> range.from,
                     declared |-> LastByte(range) - range.from + 1, sent |-> sent]
  PROVE  r \in ReplyType /\ Exact(r)
<1> DEFINE first == range.from
           last == LastByte(range)
           length == last - first + 1
<1>1. first \in Nat /\ range.to \in Nat \cup {Open} /\ Open = 0 - 1
  BY DEF Ranges, Open
<1>2. /\ last \in Int /\ last <= Size - 1
      /\ range.to # Open /\ range.to <= Size - 1 => last = range.to
      /\ range.to = Open \/ range.to > Size - 1 => last = Size - 1
  BY <1>1, Numbers DEF LastByte
<1>3. length \in Int /\ sent \in Nat
  BY <1>1, <1>2, Numbers DEF Sent
<1>4. r \in ReplyType
  BY <1>1, <1>3 DEF ReplyType
<1>5. ASSUME Satisfiable(range)
      PROVE  /\ length = sent /\ sent > 0 /\ first + sent <= Size
             /\ first + sent < Size => first + sent - 1 = range.to
  <2>1. first < Size /\ (range.to = Open \/ first <= range.to)
    BY <1>5 DEF Satisfiable
  <2>2. length > 0 /\ first + length <= Size
    BY <1>1, <1>2, <2>1, Numbers
  <2>3. sent = length
    BY <1>1, <1>2, <2>1, <2>2, Numbers DEF Sent
  <2>4. first + length < Size => last = range.to
    BY <1>1, <1>2, Numbers
  <2>5. QED
    BY <1>1, <1>2, <2>2, <2>3, <2>4, Numbers
<1> HIDE DEF first, last, length
<1>6. r.status = 206 /\ r.range = range /\ r.first = first /\ r.declared = length /\ r.sent = sent
      /\ first = range.from
  BY DEF first, last, length
<1>7. QED
  BY <1>4, <1>5, <1>6 DEF Exact

(* The body is sent, whole or as far as the range allows, or the object is *)
(* gone.                                                                   *)
LEMMA StreamSafe ==
  ASSUME PreviewInv, NEW p \in Previews, Stream(p)
  PROVE  PreviewInv'
<1>0. preview[p].pc # "idle" /\ UNCHANGED <<storage, logger, logs>>
  BY DEF Stream
<1>1. CASE Refuse(p, 500)
  BY <1>0, <1>1, RefuseSafe
<1>2. ASSUME NEW range \in RangesOf[p], range = NoRange,
             Reply(p, [status |-> 200, range |-> range, first |-> 0,
                       declared |-> Size, sent |-> Size])
      PROVE  PreviewInv'
  <2> DEFINE r == [status |-> 200, range |-> range, first |-> 0, declared |-> Size, sent |-> Size]
  <2>1. r \in ReplyType
    BY <1>2, Numbers DEF ReplyType, Ranges
  <2>2. Exact(r)
    BY DEF Exact
  <2> HIDE DEF r
  <2>3. Reply(p, r)
    BY <1>2 DEF r
  <2>4. QED
    BY <1>0, <2>1, <2>2, <2>3, ReplySafe
<1>3. ASSUME NEW range \in RangesOf[p], range # NoRange,
             NEW sent \in Sent(range.from, LastByte(range) - range.from + 1),
             Reply(p, [status |-> 206, range |-> range, first |-> range.from,
                       declared |-> LastByte(range) - range.from + 1, sent |-> sent])
      PROVE  PreviewInv'
  <2> DEFINE r == [status |-> 206, range |-> range, first |-> range.from,
                   declared |-> LastByte(range) - range.from + 1, sent |-> sent]
  <2>1. range \in Ranges
    BY PreviewAssumption
  <2>2. PICK s : s = r
    OBVIOUS
  <2>3. s \in ReplyType /\ Exact(s)
    BY <1>3, <2>1, <2>2, RangeIsExact
  <2>4. Reply(p, s)
    BY <1>3, <2>2
  <2>5. QED
    BY <1>0, <2>3, <2>4, ReplySafe
<1>4. QED
  BY <1>1, <1>2, <1>3 DEF Stream

(* The pushes not yet followed by their trim are finitely many.            *)
LEMMA UntrimmedIsFinite ==
  ASSUME NEW d
  PROVE  IsFiniteSet(Untrimmed(d)) /\ Cardinality(Untrimmed(d)) \in Nat
BY Numbers, FS_Subset, FS_CardinalityType DEF Untrimmed

(* A logging task moves: the requests and the documents stay.               *)
LEMMA LoggerMoves ==
  ASSUME PreviewInv, NEW p \in Previews, logger[p] \in {"push", "trim"},
         NEW to \in {"trim", "untrimmed", "done"}, logger' = [logger EXCEPT ![p] = to],
         UNCHANGED <<storage, preview>>,
         log' \in [Documents -> Seq(Previews)], accesses' \in [Documents -> Seq(Previews)],
         \A d \in Documents : LogOK(d)'
  PROVE  PreviewInv'
<1>1. /\ logger' \in [Previews -> {"none", "push", "trim", "untrimmed", "done"}]
      /\ logger'[p] = to /\ \A o \in Previews \ {p} : logger'[o] = logger[o]
  BY DEF PreviewInv, PreviewTypeOK
<1>2. PreviewTypeOK'
  BY <1>1 DEF PreviewInv, PreviewTypeOK, storage
<1>3. \A o \in Previews : LoggerOK(o)'
  BY <1>1 DEF PreviewInv, LoggerOK
<1>4. (\A o \in Previews : Exact(preview[o].reply))'
  BY DEF PreviewInv, Exact, Satisfiable
<1>5. QED
  BY <1>2, <1>3, <1>4 DEF PreviewInv

\* Who pushes has an entry more, and counts as untrimmed.
LEMMA PushSafe ==
  ASSUME PreviewInv, NEW p \in Previews, Push(p)
  PROVE  PreviewInv'
<1>1. PICK d \in Documents : d = preview[p].doc
  BY DEF PreviewInv, LoggerOK, Push
<1>0. /\ PreviewTypeOK /\ logger[p] = "push" /\ UNCHANGED <<storage, preview>>
      /\ logger' = [logger EXCEPT ![p] = "trim"]
      /\ log' = [log EXCEPT ![d] = Append(@, p)]
      /\ accesses' = [accesses EXCEPT ![d] = Append(@, p)]
  BY <1>1 DEF PreviewInv, Push
<1>2. /\ log' \in [Documents -> Seq(Previews)] /\ accesses' \in [Documents -> Seq(Previews)]
      /\ log'[d] = Append(log[d], p) /\ accesses'[d] = Append(accesses[d], p)
      /\ \A e \in Documents \ {d} : log'[e] = log[e] /\ accesses'[e] = accesses[e]
  BY <1>0, <1>1 DEF PreviewTypeOK
<1>3. logger'[p] = "trim" /\ \A o \in Previews \ {p} : logger'[o] = logger[o]
  BY <1>0 DEF PreviewTypeOK
<1>4. /\ Untrimmed(d)' = Untrimmed(d) \cup {p} /\ p \notin Untrimmed(d)
      /\ \A e \in Documents \ {d} : Untrimmed(e)' = Untrimmed(e)
  BY <1>0, <1>1, <1>3 DEF Untrimmed
<1>5. Cardinality(Untrimmed(d)') = Cardinality(Untrimmed(d)) + 1
  BY <1>4, UntrimmedIsFinite, FS_AddElement
<1>6. LogOK(d)'
  <2> DEFINE n == Len(log[d])  m == Len(accesses[d])  k == Cardinality(Untrimmed(d))
  <2>1. /\ log[d] \in Seq(Previews) /\ accesses[d] \in Seq(Previews) /\ n \in Nat /\ m \in Nat
        /\ k \in Nat
    BY <1>0, <1>1, UntrimmedIsFinite DEF PreviewTypeOK
  <2>2. /\ n <= m /\ \A i \in 1..n : log[d][i] = accesses[d][m - n + i]
        /\ n >= MaxLog \/ n = m
        /\ n <= MaxLog + k
    BY <1>1 DEF PreviewInv, LogOK
  <2>3. Len(log'[d]) = n + 1 /\ Len(accesses'[d]) = m + 1
    BY <1>2, <2>1
  <2>4. /\ \A i \in 1..n : log'[d][i] = log[d][i]
        /\ \A i \in 1..m : accesses'[d][i] = accesses[d][i]
        /\ log'[d][n + 1] = p /\ accesses'[d][m + 1] = p
    BY <1>2, <2>1
  <2> HIDE DEF n, m, k
  <2>5. ASSUME NEW i \in 1..(n + 1) PROVE log'[d][i] = accesses'[d][(m + 1) - (n + 1) + i]
    <3>1. CASE i \in 1..n
      <4>1. m - n + i \in 1..m /\ (m + 1) - (n + 1) + i = m - n + i
        BY <2>1, <2>2, <3>1
      <4>2. QED
        BY <2>2, <2>4, <3>1, <4>1
    <3>2. CASE i = n + 1
      BY <2>1, <2>2, <2>4, <3>2
    <3>3. QED
      BY <2>1, <3>1, <3>2
  <2>6. /\ n + 1 <= m + 1 /\ (n + 1 >= MaxLog \/ n + 1 = m + 1)
        /\ n + 1 <= MaxLog + (k + 1)
    BY <2>1, <2>2, Numbers
  <2>7. Cardinality(Untrimmed(d)') = k + 1
    BY <1>5 DEF k
  <2>8. /\ Len(log'[d]) <= Len(accesses'[d])
        /\ \A i \in 1..Len(log'[d]) : log'[d][i] = accesses'[d][Len(accesses'[d]) - Len(log'[d]) + i]
        /\ Len(log'[d]) >= MaxLog \/ Len(log'[d]) = Len(accesses'[d])
        /\ Len(log'[d]) <= MaxLog + Cardinality(Untrimmed(d)')
    BY <2>3, <2>5, <2>6, <2>7
  <2>9. QED
    BY <2>8 DEF LogOK
<1>7. \A e \in Documents \ {d} : LogOK(e)'
  BY <1>2, <1>4, ZenonT(60) DEF PreviewInv, LogOK
<1>8. \A e \in Documents : LogOK(e)'
  BY <1>6, <1>7
<1>9. QED
  BY <1>0, <1>2, <1>8, LoggerMoves

\* Who trims leaves at most MaxLog entries, and no fewer than there were if
\* there were fewer.
LEMMA TrimSafe ==
  ASSUME PreviewInv, NEW p \in Previews, Trim(p)
  PROVE  PreviewInv'
<1>1. PICK d \in Documents : d = preview[p].doc
  BY DEF PreviewInv, LoggerOK, Trim
<1> DEFINE n == Len(log[d])
           from == IF n > MaxLog THEN n - MaxLog + 1 ELSE 1
<1>0. /\ PreviewTypeOK /\ logger[p] = "trim" /\ UNCHANGED <<storage, preview, accesses>>
      /\ logger' = [logger EXCEPT ![p] = "done"]
      /\ log' = [log EXCEPT ![d] = SubSeq(@, IF Len(@) > MaxLog THEN Len(@) - MaxLog + 1 ELSE 1, Len(@))]
  BY <1>1 DEF PreviewInv, Trim
<1>2. log[d] \in Seq(Previews) /\ n \in Nat /\ accesses[d] \in Seq(Previews)
  BY <1>0, <1>1 DEF PreviewTypeOK
<1>3. /\ from \in 1..(n + 1) /\ from \in Nat
      /\ n > MaxLog => n - from + 1 = MaxLog
      /\ n <= MaxLog => from = 1
  BY <1>2, Numbers
<1>4. log' = [log EXCEPT ![d] = SubSeq(log[d], from, n)]
  BY <1>0
<1> HIDE DEF from
<1> DEFINE t == SubSeq(log[d], from, n)
<1>5. /\ t \in Seq(Previews) /\ Len(t) = n - from + 1
      /\ \A i \in 1..Len(t) : t[i] = log[d][from + i - 1]
  BY <1>2, <1>3
<1> HIDE DEF t
<1>6. /\ log' \in [Documents -> Seq(Previews)] /\ log'[d] = t
      /\ \A e \in Documents \ {d} : log'[e] = log[e]
  <2>1. log' = [log EXCEPT ![d] = t]
    BY <1>4 DEF t
  <2>2. log \in [Documents -> Seq(Previews)] /\ t \in Seq(Previews)
    BY <1>0, <1>5 DEF PreviewTypeOK
  <2>3. QED
    BY <2>1, <2>2
<1>7. logger'[p] = "done" /\ \A o \in Previews \ {p} : logger'[o] = logger[o]
  BY <1>0 DEF PreviewTypeOK
<1>8. \A e \in Documents \ {d} : Untrimmed(e)' = Untrimmed(e)
  BY <1>0, <1>1, <1>7 DEF Untrimmed
<1>9. Cardinality(Untrimmed(d)') \in Nat
  <2>1. Untrimmed(d)' \subseteq Previews
    BY DEF Untrimmed
  <2>2. QED
    BY <2>1, Numbers, FS_Subset, FS_CardinalityType
<1>10. LogOK(d)'
  <2> DEFINE m == Len(accesses[d])
  <2>1. m \in Nat
    BY <1>2
  <2>2. /\ n <= m /\ \A i \in 1..n : log[d][i] = accesses[d][m - n + i]
        /\ n >= MaxLog \/ n = m
    BY <1>1 DEF PreviewInv, LogOK
  <2> DEFINE l == Len(t)
  <2>3. /\ l \in Nat /\ l = n - from + 1
        /\ n > MaxLog => l = MaxLog
        /\ n <= MaxLog => l = n
    BY <1>2, <1>3, <1>5, Numbers
  <2> HIDE DEF n, m, from, l
  <2>4. ASSUME NEW i \in 1..l PROVE t[i] = accesses[d][m - l + i]
    <3>1. from + i - 1 \in 1..n /\ m - n + (from + i - 1) = m - l + i
      BY <1>2, <1>3, <2>1, <2>3
    <3>2. t[i] = log[d][from + i - 1]
      BY <1>5 DEF l
    <3>3. QED
      BY <2>2, <3>1, <3>2
  <2>5. /\ l <= m /\ (l >= MaxLog \/ l = m)
        /\ l <= MaxLog + Cardinality(Untrimmed(d)')
    BY <1>2, <1>9, <2>1, <2>2, <2>3, Numbers
  <2>6. /\ Len(log'[d]) <= Len(accesses'[d])
        /\ \A i \in 1..Len(log'[d]) : log'[d][i] = accesses'[d][Len(accesses'[d]) - Len(log'[d]) + i]
        /\ Len(log'[d]) >= MaxLog \/ Len(log'[d]) = Len(accesses'[d])
        /\ Len(log'[d]) <= MaxLog + Cardinality(Untrimmed(d)')
    BY <1>0, <1>6, <2>4, <2>5 DEF l, m
  <2>7. QED
    BY <2>6 DEF LogOK
<1>11. \A e \in Documents \ {d} : LogOK(e)'
  BY <1>0, <1>6, <1>8 DEF PreviewInv, LogOK
<1>12. \A e \in Documents : LogOK(e)'
  BY <1>10, <1>11
<1>13. accesses' \in [Documents -> Seq(Previews)]
  BY <1>0 DEF PreviewTypeOK
<1>14. QED
  BY <1>0, <1>6, <1>12, <1>13, LoggerMoves

(* A logging task that dies before its push, or between push and trim.     *)
LEMMA LoggerFailsSafe ==
  ASSUME PreviewInv, NEW p \in Previews, LoggerFails(p)
  PROVE  PreviewInv'
<1>1. PICK to \in {"untrimmed", "done"} :
        /\ logger[p] \in {"push", "trim"} /\ logger' = [logger EXCEPT ![p] = to]
        /\ logger[p] = "trim" <=> to = "untrimmed"
        /\ UNCHANGED <<storage, preview, logs>>
  BY DEF LoggerFails
<1>2. logger'[p] = to /\ \A o \in Previews \ {p} : logger'[o] = logger[o]
  BY <1>1 DEF PreviewInv, PreviewTypeOK
<1>3. \A d \in Documents : Untrimmed(d)' = Untrimmed(d)
  BY <1>1, <1>2 DEF Untrimmed
<1>4. log' = log /\ accesses' = accesses
  BY <1>1 DEF logs
<1>5. \A d \in Documents : LogOK(d)'
  BY <1>3, <1>4 DEF PreviewInv, LogOK
<1>6. log' \in [Documents -> Seq(Previews)] /\ accesses' \in [Documents -> Seq(Previews)]
  BY <1>4 DEF PreviewInv, PreviewTypeOK
<1>7. QED
  BY <1>1, <1>5, <1>6, LoggerMoves

\* What happens to the document itself does not matter to what was streamed.
LEMMA DocumentSafe ==
  ASSUME PreviewInv,
         \/ UNCHANGED previewVars
         \/ \E d \in Documents : SetVisibility(d) \/ RemoveObject(d) \/ RemoveRow(d)
  PROVE  PreviewInv'
<1>1. UNCHANGED <<preview, logger, log, accesses>>
  BY DEF previewVars, logs, SetVisibility, RemoveObject, RemoveRow
<1>2. row' \in [Documents -> {"private", "public", "gone"}] /\ object' \subseteq Documents
  BY DEF PreviewInv, PreviewTypeOK, previewVars, SetVisibility, RemoveObject, RemoveRow
<1>3. PreviewTypeOK'
  BY <1>1, <1>2 DEF PreviewInv, PreviewTypeOK
<1>4. (\A d \in Documents : LogOK(d)') /\ \A p \in Previews : LoggerOK(p)'
  BY <1>1 DEF PreviewInv, LogOK, LoggerOK, Untrimmed
<1>5. (\A p \in Previews : Exact(preview[p].reply))'
  BY <1>1 DEF PreviewInv, Exact, Satisfiable
<1>6. QED
  BY <1>3, <1>4, <1>5 DEF PreviewInv

-----------------------------------------------------------------------------
(* The theorems.                                                            *)

(* The invariant behind both: what a response announces and sends, and how   *)
(* the list in Redis lies at the end of all accesses.                        *)
THEOREM PreviewSafe == PreviewSpec => []PreviewInv
<1>1. PreviewInit => PreviewInv
  <2> SUFFICES ASSUME PreviewInit PROVE PreviewInv
    OBVIOUS
  <2>1. NoReply \in ReplyType /\ NoReply.status = 0
    BY DEF NoReply, ReplyType, Ranges
  <2>2. /\ preview \in [Previews -> PreviewType]
        /\ \A p \in Previews : preview[p].pc = "idle" /\ preview[p].reply = NoReply
    BY <2>1 DEF PreviewInit, PreviewType
  <2>3. PreviewTypeOK
    BY <2>2 DEF PreviewInit, PreviewTypeOK
  <2>4. \A p \in Previews : Exact(preview[p].reply) /\ LoggerOK(p)
    BY <2>1, <2>2 DEF PreviewInit, Exact, LoggerOK
  <2>5. ASSUME NEW d \in Documents PROVE LogOK(d)
    <3>1. log[d] = <<>> /\ accesses[d] = <<>>
      BY DEF PreviewInit
    <3>2. QED
      BY <3>1, Numbers, UntrimmedIsFinite DEF LogOK
  <2>6. QED
    BY <2>3, <2>4, <2>5 DEF PreviewInv
<1>2. PreviewInv /\ [PreviewNext]_previewVars => PreviewInv'
  BY CheckSafe, StatSafe, StreamSafe, PushSafe, TrimSafe, LoggerFailsSafe, DocumentSafe
  DEF PreviewNext
<1>3. QED
  BY <1>1, <1>2, PTL DEF PreviewSpec

(* A preview sends exactly the bytes its headers announce, whatever range is *)
(* asked for of an object of whatever size, as long as a byte of it exists.  *)
THEOREM PreviewsAreExact == PreviewSpec => []PreviewIsExact
<1>1. PreviewInv => PreviewIsExact
  BY DEF PreviewInv, Exact, PreviewIsExact
<1>2. QED
  BY <1>1, PreviewSafe, PTL

(* However many logging tasks push, trim and fail in whatever order, the     *)
(* access log of a document is the newest of its accesses, and longer than   *)
(* its bound only by those that have not trimmed it.                         *)
THEOREM AccessLogIsNewest == PreviewSpec => []NewestAccessesKept
<1>1. ASSUME PreviewInv PROVE NewestAccessesKept
  <2>1. ASSUME NEW d \in Documents
        PROVE  /\ IsSuffix(log[d], accesses[d])
               /\ Len(log[d]) >= MaxLog \/ log[d] = accesses[d]
               /\ Len(log[d]) <= MaxLog + Cardinality(Untrimmed(d))
    <3>1. log[d] \in Seq(Previews) /\ accesses[d] \in Seq(Previews) /\ LogOK(d)
      BY <1>1 DEF PreviewInv, PreviewTypeOK
    <3>2. IsSuffix(log[d], accesses[d])
      BY <3>1, SuffixIs DEF LogOK
    <3>3. Len(log[d]) = Len(accesses[d]) => log[d] = accesses[d]
      BY <3>1 DEF LogOK
    <3>4. QED
      BY <3>1, <3>2, <3>3 DEF LogOK
  <2>2. QED
    BY <2>1 DEF NewestAccessesKept, Untrimmed
<1>2. QED
  BY <1>1, PreviewSafe, PTL
=============================================================================
