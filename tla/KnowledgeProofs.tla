-------------------------- MODULE KnowledgeProofs --------------------------
(***************************************************************************)
(* Proofs about Retrieval and Chunker, for any documents, chunks, limits   *)
(* and texts: what the reciprocal rank fusion does with two rankings, what *)
(* an answer cites, and, in the second half, that the chunks of a document *)
(* are its text wherever the splitter cuts.                                *)
(***************************************************************************)
EXTENDS Retrieval, Chunker, SequenceFolds, FiniteSetTheorems, FunctionTheorems,
        SequenceTheorems, TLAPS

(* Retrieval.                                                               *)

\* No chunk is in it twice.
Distinct(s) == \A i, j \in 1..Len(s) : s[i] = s[j] => i = j

\* What a backend gave that was asked for TopRetrieval hits.
Hits(s) == s \in Seq(Chunks) /\ Distinct(s) /\ Len(s) <= TopRetrieval

\* r is how s begins.
Begins(r, s) == Len(r) <= Len(s) /\ \A i \in 1..Len(r) : r[i] = s[i]

\* The chunks r, ordered as o says, come from the hits a and b.
Grounded(r, o, a, b) ==
  /\ r \in Seq(Chunks) /\ Distinct(r) /\ ToSet(r) \subseteq ToSet(a) \cup ToSet(b)
  /\ o = "fused" => \E s \in Fusions(a, b) : Begins(r, s)
  /\ r = << >> => o = "unanswered" \/ (a = << >> /\ b = << >>)

RetrievalTypeOK ==
  /\ asked \in [kind : Kinds \cup {"none"}, doc : Docs \cup {All}, page : Nat \ {0}]
  /\ stage \in {"idle", "fulltext", "embedding", "nearest", "listing", "fusing", "reranking",
                "citing", "answered"}
  /\ words \in Rewritten \cup {"none"} /\ tries \in Nat /\ present \subseteq Docs
  /\ ft \in Seq(Chunks) /\ vec \in Seq(Chunks) /\ ranked \in Seq(Chunks)
  /\ order \in {"none", "fused", "reranked", "unanswered"}

(* For a question: both backends gave distinct chunks of the document, no    *)
(* more than asked for; the reranker is given how a fused order begins; and  *)
(* what is cited comes from there.                                           *)
RetrievalInv ==
  /\ RetrievalTypeOK /\ AnswerIsGrounded
  /\ stage # "answered" => answer = NoAnswer
  /\ stage = "idle" => asked.kind = "none" /\ ft = << >> /\ vec = << >>
  /\ stage \in {"fusing", "reranking", "citing"} => asked.kind = "ask"
  /\ stage = "listing" => asked.kind # "ask"
  /\ asked.kind = "ask" => /\ Hits(ft) /\ Hits(vec)
                           /\ ToSet(ft) \cup ToSet(vec) \subseteq Matching(asked.doc)
  /\ stage = "reranking" => order = "fused" /\ \E s \in Fusions(ft, vec) : ranked = Top(s, TopFeed)
  /\ stage \in {"reranking", "citing"} => Grounded(ranked, order, ft, vec)

-----------------------------------------------------------------------------
(* Sequences without repetitions.                                           *)

\* The answer of a backend.
LEMMA RankingIs ==
  ASSUME NEW S, IsFiniteSet(S), NEW s \in Rankings(S)
  PROVE  s \in Seq(S) /\ Distinct(s)
<1>1. PICK T \in SUBSET S : s \in SetToSeqs(T)
  BY DEF Rankings, SetToAllKPermutations
<1>2. Cardinality(T) \in Nat
  BY FS_Subset, FS_CardinalityType
<1>3. s \in [1..Cardinality(T) -> T] /\ \A i, j \in 1..Cardinality(T) : i # j => s[i] # s[j]
  BY <1>1 DEF SetToSeqs
<1>4. s \in Seq(S) /\ Len(s) = Cardinality(T)
  BY <1>2, <1>3
<1>5. QED
  BY <1>3, <1>4 DEF Distinct

\* A permutation has every element.
LEMMA PermutationIs ==
  ASSUME NEW S, IsFiniteSet(S), NEW s \in SetToSeqs(S)
  PROVE  s \in Seq(S) /\ Distinct(s) /\ \A c \in S : \E i \in 1..Len(s) : s[i] = c
<1>1. Cardinality(S) \in Nat
  BY FS_CardinalityType
<1>2. s \in [1..Cardinality(S) -> S] /\ \A i, j \in 1..Cardinality(S) : i # j => s[i] # s[j]
  BY DEF SetToSeqs
<1>3. s \in Seq(S) /\ Len(s) = Cardinality(S)
  BY <1>1, <1>2
<1>4. s \in Injection(1..Cardinality(S), S)
  BY <1>2, Fun_IsInj
<1>5. Cardinality(1..Cardinality(S)) = Cardinality(S)
  BY <1>1, FS_Interval
<1>6. s \in Surjection(1..Cardinality(S), S)
  BY <1>4, <1>5, FS_Injection
<1>7. QED
  BY <1>2, <1>3, <1>6, Fun_SurjectionProperties DEF Distinct

\* A window of a sequence.
LEMMA WindowIs ==
  ASSUME NEW S, NEW s \in Seq(S), NEW from \in Nat \ {0}, NEW n \in Nat
  PROVE  /\ Window(s, from, n) \in Seq(S) /\ Len(Window(s, from, n)) <= n
         /\ \A i \in 1..Len(Window(s, from, n)) :
              from + i - 1 \in 1..Len(s) /\ Window(s, from, n)[i] = s[from + i - 1]
<1> DEFINE to == IF from + n - 1 < Len(s) THEN from + n - 1 ELSE Len(s)
<1>2. to \in Nat /\ to <= Len(s) /\ to - from + 1 <= n
  OBVIOUS
<1>3. Window(s, from, n) = SubSeq(s, from, to)
  BY DEF Window
<1> HIDE DEF to
<1>4. SubSeq(s, from, to) = [i \in 1..(to - from + 1) |-> s[i + from - 1]]
  BY <1>2
<1>5. \A i \in 1..(to - from + 1) : i + from - 1 \in 1..Len(s) /\ i + from - 1 = from + i - 1
  BY <1>2
<1>6. CASE to - from + 1 >= 0
  <2>1. Len(SubSeq(s, from, to)) = to - from + 1 /\ SubSeq(s, from, to) \in Seq(S)
    BY <1>2, <1>6
  <2>2. QED
    BY <1>2, <1>3, <1>4, <1>5, <2>1
<1>7. CASE to - from + 1 < 0
  <2>1. SubSeq(s, from, to) = << >>
    BY <1>2, <1>7
  <2>2. QED
    BY <1>3, <2>1
<1>8. QED
  BY <1>2, <1>6, <1>7

\* The elements of a sequence.
LEMMA SetIs ==
  ASSUME NEW S, NEW s \in Seq(S)
  PROVE  /\ ToSet(s) \subseteq S
         /\ \A c : c \in ToSet(s) <=> \E i \in 1..Len(s) : s[i] = c
         /\ \A c : c \in ToSet(s) <=> Contains(s, c)
         /\ ToSet(s) = {} <=> s = << >>
BY DEF ToSet, Contains

\* A window repeats nothing either.
LEMMA WindowDistinct ==
  ASSUME NEW S, NEW s \in Seq(S), Distinct(s), NEW from \in Nat \ {0}, NEW n \in Nat
  PROVE  Distinct(Window(s, from, n)) /\ ToSet(Window(s, from, n)) \subseteq ToSet(s)
<1> DEFINE w == Window(s, from, n)
<1>1. /\ w \in Seq(S)
      /\ \A i \in 1..Len(w) : from + i - 1 \in 1..Len(s) /\ w[i] = s[from + i - 1]
  BY WindowIs
<1> HIDE DEF w
<1>2. Distinct(w)
  <2>1. ASSUME NEW i \in 1..Len(w), NEW j \in 1..Len(w), w[i] = w[j] PROVE i = j
    <3>1. from + i - 1 = from + j - 1
      BY <1>1, <2>1 DEF Distinct
    <3>2. QED
      BY <1>1, <3>1
  <2>2. QED
    BY <2>1 DEF Distinct
<1>3. ToSet(w) \subseteq ToSet(s)
  <2>1. ASSUME NEW i \in 1..Len(w) PROVE w[i] \in ToSet(s)
    BY <1>1, SetIs
  <2>2. QED
    BY <1>1, <2>1, SetIs
<1>4. QED
  BY <1>2, <1>3 DEF w

\* The first n elements: all there are, or n.
LEMMA TopIs ==
  ASSUME NEW S, NEW s \in Seq(S), NEW n \in Nat
  PROVE  /\ Top(s, n) \in Seq(S) /\ Len(Top(s, n)) <= n /\ Len(Top(s, n)) <= Len(s)
         /\ \A i \in 1..Len(Top(s, n)) : Top(s, n)[i] = s[i]
         /\ \A i \in 1..Len(s) : i <= n => i <= Len(Top(s, n))
<1> DEFINE to == IF n < Len(s) THEN n ELSE Len(s)
<1>1. to \in Nat /\ to <= Len(s) /\ to <= n /\ \A i \in 1..Len(s) : i <= n => i <= to
  OBVIOUS
<1>2. 1 + n - 1 = n
  OBVIOUS
<1>3. Top(s, n) = SubSeq(s, 1, to)
  BY <1>2 DEF Top, Window
<1> HIDE DEF to
<1>4. /\ Len(SubSeq(s, 1, to)) = to /\ SubSeq(s, 1, to) \in Seq(S)
      /\ \A i \in 1..to : SubSeq(s, 1, to)[i] = s[i]
  BY <1>1
<1>5. QED
  BY <1>1, <1>3, <1>4

(* The first hits of a list without repetitions have none.                 *)
LEMMA TopDistinct ==
  ASSUME NEW S, NEW s \in Seq(S), Distinct(s), NEW n \in Nat
  PROVE  Distinct(Top(s, n)) /\ ToSet(Top(s, n)) \subseteq ToSet(s)
BY WindowDistinct DEF Top

\* How many there are in a sequence without repetitions.
LEMMA DistinctSize ==
  ASSUME NEW S, NEW s \in Seq(S), Distinct(s)
  PROVE  IsFiniteSet(ToSet(s)) /\ Cardinality(ToSet(s)) = Len(s)
<1>1. s \in [1..Len(s) -> ToSet(s)] /\ Len(s) \in Nat
  BY DEF ToSet
<1>2. s \in Bijection(1..Len(s), ToSet(s))
  BY <1>1, Fun_IsBij, SetIs DEF Distinct
<1>3. IsFiniteSet(1..Len(s)) /\ Cardinality(1..Len(s)) = Len(s)
  <2>1. Len(s) \in Nat
    OBVIOUS
  <2>2. QED
    BY <2>1, FS_Interval, SMTT(30)
<1>4. ExistsBijection(1..Len(s), ToSet(s))
  BY <1>2, Fun_ExistsBij
<1>5. QED
  BY <1>3, <1>4, FS_Bijection

(* The rank of a hit is its position.                                      *)
LEMMA RankIs ==
  ASSUME NEW S, NEW s \in Seq(S), Distinct(s), NEW i \in 1..Len(s)
  PROVE  RankIn(s, s[i]) = i
<1>1. \A j \in 1..Len(s) : s[j] = s[i] => j = i
  BY DEF Distinct
<1>2. \E j \in 1..Len(s) : s[j] = s[i]
  OBVIOUS
<1>3. QED
  BY <1>1, <1>2 DEF RankIn

-----------------------------------------------------------------------------
(* The fusion.                                                              *)

(* What the assumptions say of the numbers.                                *)
LEMMA Limits ==
  /\ RrfK \in Nat /\ TopRetrieval <= RrfK + 1
  /\ TopRetrieval \in Nat \ {0} /\ TopFeed \in Nat \ {0} /\ TopRerank \in Nat \ {0}
  /\ MaxContext \in Nat \ {0} /\ MaxAttempts \in Nat \ {0} /\ PageSize \in Nat \ {0}
  /\ MaxPage \in Nat \ {0}
BY RetrievalAssumption, FusionAssumption

\* What a backend adds to a score is between 1 / (2 RrfK + 1) and 1 / (RrfK + 1).
LEMMA DenomIs ==
  ASSUME NEW s, Hits(s), NEW c, Contains(s, c)
  PROVE  /\ RankIn(s, c) \in 1..Len(s) /\ s[RankIn(s, c)] = c
         /\ Denom(s, c) \in Nat /\ RrfK + 1 <= Denom(s, c) /\ Denom(s, c) <= 2 * RrfK + 1
<1>1. PICK i \in 1..Len(s) : s[i] = c
  BY DEF Contains
<1>2. RankIn(s, c) = i
  BY <1>1, RankIs DEF Hits
<1>3. QED
  BY <1>1, <1>2, Limits DEF Denom, Hits

\* Fractions of one and two parts, x and y against u and v.
LEMMA Fractions ==
  ASSUME NEW x \in Nat \ {0}, NEW y \in Nat \ {0}, NEW u \in Nat \ {0}, NEW v \in Nat \ {0}
  PROVE  /\ x < u => (x + y) * u > 1 * (x * y)
         /\ y <= v => (x + y) * v > 1 * (x * y)
         /\ x < u /\ y <= v => (x + y) * (u * v) > (u + v) * (x * y)
         /\ x < 2 * u /\ y < 2 * u => (x + y) * u > 1 * (x * y)
<1>1. /\ x * y \in Nat /\ x * u \in Nat /\ y * u \in Nat /\ x * v \in Nat /\ y * v \in Nat
      /\ x * y > 0 /\ x * u > 0 /\ y * u > 0 /\ x * v > 0 /\ y * v > 0
      /\ (x + y) * u = x * u + y * u /\ (x + y) * v = x * v + y * v
  OBVIOUS
<1>2. x < u => y * u > x * y
  OBVIOUS
<1>3. y <= v => x * v >= x * y
  OBVIOUS
<1>4. ASSUME x < u, y <= v PROVE (x + y) * (u * v) > (u + v) * (x * y)
  <2>1. (x * u) * v >= (x * u) * y
    BY <1>1, <1>4
  <2>2. (y * v) * u > (y * v) * x
    BY <1>1, <1>4
  <2>3. /\ (x + y) * (u * v) = (x * u) * v + (y * v) * u
        /\ (u + v) * (x * y) = (x * u) * y + (y * v) * x
    OBVIOUS
  <2>4. QED
    BY <2>1, <2>2, <2>3
<1>5. ASSUME x < 2 * u, y < 2 * u PROVE (x + y) * u > 1 * (x * y)
  <2>1. x * y < 2 * (y * u)
    BY <1>5
  <2>2. x * y < 2 * (x * u)
    BY <1>5
  <2>3. QED
    BY <1>1, <2>1, <2>2
<1>6. QED
  BY <1>1, <1>2, <1>3, <1>4, <1>5

\* The score of a chunk, by who ranks it.
LEMMA ScoreIs ==
  ASSUME NEW a, NEW b, Hits(a), Hits(b), NEW c
  PROVE  /\ Contains(a, c) /\ Contains(b, c) =>
              /\ Score(a, b, c).num = Denom(a, c) + Denom(b, c)
              /\ Score(a, b, c).den = Denom(a, c) * Denom(b, c)
         /\ Contains(a, c) /\ ~Contains(b, c) =>
              Score(a, b, c).num = 1 /\ Score(a, b, c).den = Denom(a, c)
         /\ ~Contains(a, c) /\ Contains(b, c) =>
              Score(a, b, c).num = 1 /\ Score(a, b, c).den = Denom(b, c)
         /\ ~Contains(a, c) /\ ~Contains(b, c) =>
              Score(a, b, c).num = 0 /\ Score(a, b, c).den = 1
<1>1. /\ Contains(a, c) => Denom(a, c) \in Nat
      /\ Contains(b, c) => Denom(b, c) \in Nat
  BY DenomIs
<1>2. QED
  BY <1>1 DEF Score

\* The order of the backends does not matter.
LEMMA ScoreOfSwapped ==
  ASSUME NEW a, NEW b, Hits(a), Hits(b), NEW c
  PROVE  Score(a, b, c).num = Score(b, a, c).num /\ Score(a, b, c).den = Score(b, a, c).den
<1>1. /\ Contains(a, c) => Denom(a, c) \in Nat
      /\ Contains(b, c) => Denom(b, c) \in Nat
  BY DenomIs
<1>2. CASE Contains(a, c) /\ Contains(b, c)
  <2>1. /\ Denom(a, c) + Denom(b, c) = Denom(b, c) + Denom(a, c)
        /\ Denom(a, c) * Denom(b, c) = Denom(b, c) * Denom(a, c)
    BY <1>1, <1>2
  <2>2. QED
    BY <1>2, <2>1, ScoreIs
<1>3. CASE ~(Contains(a, c) /\ Contains(b, c))
  BY <1>3, ScoreIs
<1>4. QED
  BY <1>2, <1>3

\* A chunk that one backend ranks before another and the other does not rank
\* after it has the higher score.
LEMMA AgreedIsAbove ==
  ASSUME NEW a, NEW b, Hits(a), Hits(b), NEW c, NEW d, Contains(a, d) \/ Contains(b, d),
         Before(a, c, d), ~Before(b, d, c)
  PROVE  Above(a, b, c, d)
<1> DEFINE x == Denom(a, c)  y == Denom(b, c)  u == Denom(a, d)  v == Denom(b, d)
<1>1. Contains(a, c) /\ x \in Nat \ {0} /\ RankIn(a, c) \in Nat
  BY Limits, DenomIs DEF Before, Hits
<1>2. /\ Contains(b, c) => y \in Nat \ {0} /\ RankIn(b, c) \in Nat
      /\ Contains(a, d) => u \in Nat \ {0} /\ RankIn(a, d) \in Nat
      /\ Contains(b, d) => v \in Nat \ {0} /\ RankIn(b, d) \in Nat
  BY Limits, DenomIs DEF Hits
<1>3. Contains(a, d) => x < u
  BY <1>1, <1>2, Limits DEF Before, Denom
<1>4. Contains(b, d) => Contains(b, c) /\ y <= v
  BY <1>2, Limits DEF Before, Denom
<1> HIDE DEF x, y, u, v
<1>5. CASE Contains(a, d) /\ Contains(b, d)
  <2>1. (x + y) * (u * v) > (u + v) * (x * y)
    BY <1>1, <1>2, <1>3, <1>4, <1>5, Fractions
  <2>2. /\ Score(a, b, c).num = x + y /\ Score(a, b, c).den = x * y
        /\ Score(a, b, d).num = u + v /\ Score(a, b, d).den = u * v
    BY <1>1, <1>4, <1>5, ScoreIs DEF x, y, u, v
  <2>3. QED
    BY <2>1, <2>2 DEF Above
<1>6. CASE Contains(a, d) /\ ~Contains(b, d)
  <2>1. Score(a, b, d).num = 1 /\ Score(a, b, d).den = u
    BY <1>6, ScoreIs DEF u
  <2>2. CASE Contains(b, c)
    <3>1. Score(a, b, c).num = x + y /\ Score(a, b, c).den = x * y
      BY <1>1, <2>2, ScoreIs DEF x, y
    <3>2. (x + y) * u > 1 * (x * y)
      BY <1>1, <1>2, <1>3, <1>6, <2>2, Fractions
    <3>3. QED
      BY <2>1, <3>1, <3>2 DEF Above
  <2>3. CASE ~Contains(b, c)
    <3>1. Score(a, b, c).num = 1 /\ Score(a, b, c).den = x
      BY <1>1, <2>3, ScoreIs DEF x
    <3>2. 1 * u > 1 * x
      BY <1>1, <1>2, <1>3, <1>6
    <3>3. QED
      BY <2>1, <3>1, <3>2 DEF Above
  <2>4. QED
    BY <2>2, <2>3
<1>7. CASE ~Contains(a, d) /\ Contains(b, d)
  <2>1. Score(a, b, d).num = 1 /\ Score(a, b, d).den = v
    BY <1>7, ScoreIs DEF v
  <2>2. Score(a, b, c).num = x + y /\ Score(a, b, c).den = x * y
    BY <1>1, <1>4, <1>7, ScoreIs DEF x, y
  <2>3. (x + y) * v > 1 * (x * y)
    BY <1>1, <1>2, <1>4, <1>7, Fractions
  <2>4. QED
    BY <2>1, <2>2, <2>3 DEF Above
<1>8. QED
  BY <1>5, <1>6, <1>7

\* A chunk that both backends found has a higher score than one that a single
\* backend found, wherever they rank them.
LEMMA BothIsAbove ==
  ASSUME NEW a, NEW b, Hits(a), Hits(b), NEW c, NEW d,
         Contains(a, c), Contains(b, c), Contains(a, d), ~Contains(b, d)
  PROVE  Above(a, b, c, d)
<1> DEFINE x == Denom(a, c)  y == Denom(b, c)  u == Denom(a, d)
<1>1. /\ x \in Nat \ {0} /\ y \in Nat \ {0} /\ u \in Nat \ {0}
      /\ x < 2 * u /\ y < 2 * u
  BY Limits, DenomIs
<1>2. /\ Score(a, b, c).num = x + y /\ Score(a, b, c).den = x * y
      /\ Score(a, b, d).num = 1 /\ Score(a, b, d).den = u
  BY ScoreIs
<1> HIDE DEF x, y, u
<1>3. (x + y) * u > 1 * (x * y)
  BY <1>1, Fractions
<1>4. QED
  BY <1>2, <1>3 DEF Above

\* A chunk with the higher score is never behind, nor cut away before the other.
LEMMA AboveIsBefore ==
  ASSUME NEW a, NEW b, Hits(a), Hits(b), NEW s \in Fusions(a, b), NEW n \in Nat,
         NEW c \in ToSet(a) \cup ToSet(b), NEW d, Above(a, b, c, d)
  PROVE  ~Before(Top(s, n), d, c)
<1> DEFINE S == ToSet(a) \cup ToSet(b)
           t == Top(s, n)
<1>1. IsFiniteSet(S)
  BY DistinctSize, FS_Union DEF Hits
<1>2. /\ s \in Seq(S) /\ Distinct(s) /\ \E i \in 1..Len(s) : s[i] = c
      /\ \A i, j \in 1..Len(s) : i < j => ~Above(a, b, s[j], s[i])
  <2>1. /\ s \in SetToSeqs(S) /\ c \in S
        /\ \A i, j \in 1..Len(s) : i < j => ~Above(a, b, s[j], s[i])
    BY DEF Fusions
  <2>2. S \subseteq Chunks
    BY SetIs DEF Hits
  <2> HIDE DEF S
  <2>3. QED
    BY <1>1, <2>1, PermutationIs
<1> HIDE DEF S
<1>3. /\ t \in Seq(S) /\ Len(t) <= n /\ Len(t) <= Len(s) /\ \A i \in 1..Len(t) : t[i] = s[i]
      /\ \A i \in 1..Len(s) : i <= n => i <= Len(t)
      /\ Distinct(t)
  BY <1>2, TopIs, TopDistinct
<1> HIDE DEF t
<1>4. SUFFICES ASSUME Before(t, d, c) PROVE FALSE
  BY DEF t
<1>5. PICK j \in 1..Len(t) : t[j] = d
  BY <1>4 DEF Before, Contains
<1>6. PICK i \in 1..Len(s) : s[i] = c
  BY <1>2
<1>7. j \in 1..Len(s) /\ s[j] = d
  BY <1>3, <1>5
<1>8. ~(j < i)
  BY <1>2, <1>6, <1>7
<1>9. i \in 1..Len(t) /\ t[i] = c
  BY <1>3, <1>5, <1>6, <1>8
<1>10. RankIn(t, c) = i /\ RankIn(t, d) = j
  BY <1>3, <1>5, <1>9, RankIs
<1>11. Contains(t, c)
  BY <1>9 DEF Contains
<1>12. j < i
  BY <1>4, <1>10, <1>11 DEF Before
<1>13. QED
  BY <1>8, <1>12

-----------------------------------------------------------------------------
(* The steps of a request.                                                  *)

(* The chunks that match are finitely many.                                *)
LEMMA MatchingIs ==
  ASSUME NEW doc
  PROVE  Matching(doc) \subseteq Chunks /\ IsFiniteSet(Matching(doc)) /\ IsFiniteSet({})
BY RetrievalAssumption, FS_Subset, FS_EmptySet DEF Matching

(* The empty list is a list of hits.                                       *)
LEMMA NothingFound ==
  /\ << >> \in Seq(Chunks) /\ Hits(<< >>) /\ ToSet(<< >>) = {}
BY Limits DEF Hits, Distinct, ToSet

(* A request begins with nothing found.                                    *)
LEMMA AskSafe ==
  ASSUME RetrievalInv, Ask
  PROVE  RetrievalInv'
<1>0. /\ RetrievalTypeOK /\ ft = << >> /\ vec = << >> /\ answer = NoAnswer
      /\ UNCHANGED <<ft, vec, tries, ranked, order, present>>
  BY DEF RetrievalInv, Ask, found
<1>1. /\ asked' \in [kind : Kinds, doc : Docs \cup {All}, page : Nat \ {0}]
      /\ stage' \in {"fulltext", "embedding", "answered"} /\ words' \in Rewritten \cup {"none"}
      /\ stage' # "answered" => answer' = NoAnswer
      /\ answer' = NoAnswer \/ answer'.status = "chat"
  <2>1. CASE \E doc \in Docs \cup {All} :
               /\ asked' = [kind |-> "ask", doc |-> doc, page |-> 1]
               /\ words' \in Rewritten /\ stage' = "fulltext" /\ UNCHANGED answer
    BY <1>0, <2>1 DEF Kinds
  <2>2. CASE \E doc \in Docs \cup {All} :
               /\ asked' = [kind |-> "ask", doc |-> doc, page |-> 1]
               /\ answer' = [status |-> "chat", items |-> << >>]
               /\ stage' = "answered" /\ UNCHANGED words
    BY <1>0, <2>2 DEF Kinds, RetrievalTypeOK
  <2>3. CASE \E doc \in Docs \cup {All}, kind \in Kinds \ {"ask"}, page \in 1..MaxPage :
               /\ asked' = [kind |-> kind, doc |-> doc, page |-> page]
               /\ stage' = IF kind = "vector" THEN "embedding" ELSE "fulltext"
               /\ words' = "user's" /\ UNCHANGED answer
    BY <1>0, <2>3, Limits DEF Rewritten
  <2>4. QED
    BY <2>1, <2>2, <2>3 DEF Ask
<1>2. RetrievalTypeOK'
  BY <1>0, <1>1 DEF RetrievalTypeOK
<1>3. Hits(ft)' /\ Hits(vec)' /\ (ToSet(ft) \cup ToSet(vec) \subseteq Matching(asked.doc))'
  BY <1>0, NothingFound
<1>4. AnswerIsGrounded'
  BY <1>1 DEF AnswerIsGrounded, NoAnswer
<1>5. QED
  BY <1>1, <1>2, <1>3, <1>4 DEF RetrievalInv

\* Steps before the fusion: the hits may change, nothing is answered.
LEMMA SearchMoves ==
  ASSUME RetrievalInv, stage \notin {"idle", "answered"},
         stage' \in {"fulltext", "embedding", "nearest", "listing", "fusing"},
         asked.kind # "ask" => stage' # "fusing", asked.kind = "ask" => stage' # "listing",
         UNCHANGED <<asked, words, ranked, order, present, answer>>, tries' \in Nat,
         ft' \in Seq(Chunks), vec' \in Seq(Chunks),
         asked.kind = "ask" => /\ Hits(ft') /\ Hits(vec')
                               /\ ToSet(ft') \cup ToSet(vec') \subseteq Matching(asked.doc)
  PROVE  RetrievalInv'
<1>1. RetrievalTypeOK' /\ answer' = NoAnswer
  BY DEF RetrievalInv, RetrievalTypeOK
<1>2. AnswerIsGrounded'
  BY <1>1 DEF NoAnswer, AnswerIsGrounded
<1>3. QED
  BY <1>1, <1>2 DEF RetrievalInv

(* Elasticsearch answers.                                                  *)
LEMMA FullTextSafe ==
  ASSUME RetrievalInv, FullText
  PROVE  RetrievalInv'
<1>0. /\ RetrievalTypeOK /\ stage = "fulltext" /\ stage' \in {"listing", "embedding"}
      /\ asked.kind = "ask" => stage' # "listing"
      /\ UNCHANGED <<asked, words, vec, tries, ranked, order, present, answer>>
      /\ asked.kind = "ask" => Hits(vec) /\ ToSet(vec) \subseteq Matching(asked.doc)
  BY DEF RetrievalInv, FullText, AfterFulltext
<1>1. PICK S \in SUBSET Matching(asked.doc) : \E hits \in Rankings(S) :
        ft' = IF asked.kind = "ask" THEN Top(hits, TopRetrieval) ELSE PageOf(hits, asked.page)
  BY DEF FullText
<1>2. PICK hits \in Rankings(S) :
        ft' = IF asked.kind = "ask" THEN Top(hits, TopRetrieval) ELSE PageOf(hits, asked.page)
  BY <1>1
<1>3. S \subseteq Chunks /\ IsFiniteSet(S)
  BY MatchingIs, FS_Subset
<1>4. hits \in Seq(S) /\ Distinct(hits) /\ hits \in Seq(Chunks)
  BY <1>3, RankingIs
<1>5. CASE asked.kind = "ask"
  <2>1. /\ Top(hits, TopRetrieval) \in Seq(S) /\ Top(hits, TopRetrieval) \in Seq(Chunks)
        /\ Len(Top(hits, TopRetrieval)) <= TopRetrieval /\ Distinct(Top(hits, TopRetrieval))
    BY <1>4, Limits, TopIs, TopDistinct
  <2>2. ft' = Top(hits, TopRetrieval)
    BY <1>2, <1>5
  <2>3. Hits(ft') /\ ToSet(ft') \subseteq Matching(asked.doc)
    BY <2>1, <2>2, SetIs DEF Hits
  <2>4. QED
    BY <1>0, <1>5, <2>1, <2>2, <2>3, SearchMoves DEF RetrievalTypeOK
<1>6. CASE asked.kind # "ask"
  <2>1. (asked.page - 1) * PageSize + 1 \in Nat \ {0} /\ PageSize \in Nat
    <3>1. asked.page - 1 \in Nat
      BY <1>0 DEF RetrievalTypeOK
    <3>2. (asked.page - 1) * PageSize \in Nat
      BY <3>1, Limits
    <3>3. QED
      BY <3>2, Limits
  <2>2. PageOf(hits, asked.page) \in Seq(Chunks)
    BY <1>4, <2>1, WindowIs DEF PageOf
  <2>3. QED
    BY <1>0, <1>2, <1>6, <2>2, SearchMoves DEF RetrievalTypeOK
<1>7. QED
  BY <1>5, <1>6

(* Milvus answers, above its threshold.                                    *)
LEMMA NearestSafe ==
  ASSUME RetrievalInv, Nearest
  PROVE  RetrievalInv'
<1>0. /\ RetrievalTypeOK /\ stage = "nearest" /\ stage' = IF asked.kind = "ask" THEN "fusing" ELSE "listing"
      /\ UNCHANGED <<asked, words, ft, tries, ranked, order, present, answer>>
      /\ asked.kind = "ask" => Hits(ft) /\ ToSet(ft) \subseteq Matching(asked.doc)
  BY DEF RetrievalInv, Nearest, AfterVector
<1>1. PICK hits \in Rankings(Matching(asked.doc)) :
        \E n \in Nat : vec' = Top(hits, n) /\ (asked.kind = "ask" => n <= TopRetrieval)
  <2>1. PICK hits \in Rankings(Matching(asked.doc)) :
          \E similar \in IF asked.kind = "ask" THEN 0..Len(hits) ELSE {Len(hits)} :
            vec' = Top(hits, IF asked.kind = "ask"
                             THEN IF similar < TopRetrieval THEN similar ELSE TopRetrieval
                             ELSE PageSize)
    BY DEF Nearest
  <2>2. Len(hits) \in Nat
    BY MatchingIs, RankingIs
  <2>3. CASE asked.kind = "ask"
    BY <2>1, <2>2, <2>3, Limits
  <2>4. CASE asked.kind # "ask"
    BY <2>1, <2>4, Limits
  <2>5. QED
    BY <2>3, <2>4
<1>2. PICK n \in Nat : vec' = Top(hits, n) /\ (asked.kind = "ask" => n <= TopRetrieval)
  BY <1>1
<1>3. hits \in Seq(Matching(asked.doc)) /\ Distinct(hits) /\ hits \in Seq(Chunks)
  BY MatchingIs, RankingIs
<1>4. /\ vec' \in Seq(Matching(asked.doc)) /\ vec' \in Seq(Chunks) /\ Len(vec') <= n
      /\ Distinct(vec')
  BY <1>2, <1>3, TopIs, TopDistinct
<1>5. asked.kind = "ask" => Hits(vec') /\ ToSet(vec') \subseteq Matching(asked.doc)
  BY <1>2, <1>4, SetIs, Limits DEF Hits
<1>6. QED
  BY <1>0, <1>4, <1>5, SearchMoves DEF RetrievalTypeOK

\* A failed call leaves the hits as they are; a vector search ends with it.
LEMMA OtherSearchSafe ==
  ASSUME RetrievalInv, FullTextFails \/ NoMilvus \/ Embed \/ VectorFails
  PROVE  RetrievalInv'
<1>0. /\ RetrievalTypeOK /\ stage \in {"fulltext", "embedding", "nearest"}
      /\ UNCHANGED <<asked, words, ft, vec, ranked, order, present>> /\ tries' \in Nat
      /\ asked.kind = "ask" => /\ Hits(ft) /\ Hits(vec)
                               /\ ToSet(ft) \cup ToSet(vec) \subseteq Matching(asked.doc)
  <2>1. tries \in Nat /\ MaxAttempts \in Nat
    BY Limits DEF RetrievalInv, RetrievalTypeOK
  <2>2. QED
    BY <2>1 DEF RetrievalInv, FullTextFails, NoMilvus, Embed, VectorFails, found
<1>1. CASE stage' \in {"listing", "embedding", "nearest", "fusing"} /\ UNCHANGED answer
           /\ (asked.kind # "ask" => stage' # "fusing")
           /\ (asked.kind = "ask" => stage' # "listing")
  BY <1>0, <1>1, SearchMoves DEF RetrievalTypeOK
<1>2. CASE asked.kind = "vector" /\ stage' = "answered"
  <2>1. RetrievalTypeOK'
    BY <1>0, <1>2 DEF RetrievalTypeOK
  <2>2. AnswerIsGrounded'
    BY <1>0, <1>2 DEF AnswerIsGrounded
  <2>3. QED
    BY <1>0, <1>2, <2>1, <2>2 DEF RetrievalInv
<1>3. QED
  BY <1>0, <1>1, <1>2
  DEF FullTextFails, NoMilvus, Embed, VectorFails, AfterFulltext, AfterVector

-----------------------------------------------------------------------------
(* What is made of the hits.                                                *)

\* The beginning of a beginning, which is not empty if the whole is not.
LEMMA TopBegins ==
  ASSUME NEW r, NEW s, r \in Seq(Chunks), s \in Seq(Chunks), Begins(r, s), NEW n \in Nat \ {0}
  PROVE  Begins(Top(r, n), s) /\ (Top(r, n) = << >> => r = << >>)
<1>1. /\ Top(r, n) \in Seq(Chunks) /\ Len(Top(r, n)) <= Len(r)
      /\ \A i \in 1..Len(Top(r, n)) : Top(r, n)[i] = r[i]
      /\ \A i \in 1..Len(r) : i <= n => i <= Len(Top(r, n))
  BY TopIs
<1>2. Len(r) \in Nat /\ Len(s) \in Nat /\ Len(Top(r, n)) \in Nat
  BY <1>1
<1>3. Begins(Top(r, n), s)
  BY <1>1, <1>2 DEF Begins
<1>4. Top(r, n) = << >> => r = << >>
  <2>1. ASSUME Top(r, n) = << >>, r # << >> PROVE FALSE
    <3>1. 1 \in 1..Len(r) /\ 1 <= n
      BY <2>1, <1>2
    <3>2. 1 <= Len(Top(r, n))
      BY <1>1, <3>1
    <3>3. QED
      BY <2>1, <3>2
  <2>2. QED
    BY <2>1
<1>5. QED
  BY <1>3, <1>4

\* The first chunks of a fused order.
LEMMA FusedIsGrounded ==
  ASSUME NEW a, NEW b, Hits(a), Hits(b), NEW s \in Fusions(a, b), NEW n \in Nat \ {0}
  PROVE  Grounded(Top(s, n), "fused", a, b)
<1> DEFINE S == ToSet(a) \cup ToSet(b)
<1>1. s \in SetToSeqs(S) /\ S \subseteq Chunks
  BY SetIs DEF Fusions, Hits
<1>2. IsFiniteSet(S)
  BY DistinctSize, FS_Union DEF Hits
<1>3. S = {} => a = << >> /\ b = << >>
  BY SetIs DEF Hits
<1> HIDE DEF S
<1>4. /\ s \in Seq(S) /\ Distinct(s) /\ \A c \in S : \E i \in 1..Len(s) : s[i] = c
  BY <1>1, <1>2, PermutationIs
<1>5. s \in Seq(Chunks) /\ ToSet(s) \subseteq S
  BY <1>1, <1>4, SetIs
<1>6. Top(s, n) \in Seq(Chunks) /\ Distinct(Top(s, n)) /\ ToSet(Top(s, n)) \subseteq S
  BY <1>4, <1>5, TopIs, TopDistinct
<1>7. Begins(s, s)
  BY <1>5 DEF Begins
<1>8. Begins(Top(s, n), s) /\ (Top(s, n) = << >> => s = << >>)
  BY <1>5, <1>7, TopBegins
<1>9. s = << >> => S = {}
  BY <1>4
<1>10. QED
  BY <1>3, <1>6, <1>8, <1>9 DEF Grounded, S

\* A cut of what is grounded is grounded.
LEMMA CutIsGrounded ==
  ASSUME NEW r, NEW o, NEW a, NEW b, Hits(a), Hits(b), Grounded(r, o, a, b), NEW n \in Nat \ {0}
  PROVE  Grounded(Top(r, n), o, a, b)
<1>1. /\ r \in Seq(Chunks) /\ Distinct(r) /\ ToSet(r) \subseteq ToSet(a) \cup ToSet(b)
      /\ o = "fused" => \E s \in Fusions(a, b) : Begins(r, s)
      /\ r = << >> => o = "unanswered" \/ (a = << >> /\ b = << >>)
  BY DEF Grounded
<1>2. /\ Top(r, n) \in Seq(Chunks) /\ Distinct(Top(r, n)) /\ ToSet(Top(r, n)) \subseteq ToSet(r)
  BY <1>1, TopIs, TopDistinct
<1>3. \A s \in Fusions(a, b) : s \in Seq(Chunks)
  <2>1. IsFiniteSet(ToSet(a) \cup ToSet(b)) /\ ToSet(a) \cup ToSet(b) \subseteq Chunks
    BY DistinctSize, FS_Union, SetIs DEF Hits
  <2>2. QED
    BY <2>1, PermutationIs DEF Fusions
<1>4. o = "fused" => \E s \in Fusions(a, b) : Begins(Top(r, n), s)
  BY <1>1, <1>3, TopBegins
<1>5. Top(r, n) = << >> => r = << >>
  <2>1. Begins(r, r)
    BY <1>1 DEF Begins
  <2>2. QED
    BY <1>1, <2>1, TopBegins
<1>6. QED
  BY <1>1, <1>2, <1>4, <1>5 DEF Grounded

\* A step that orders the chunks, before the answer.
LEMMA RankingMoves ==
  ASSUME RetrievalInv, asked.kind = "ask", stage \in {"fusing", "reranking"},
         stage' \in {"reranking", "citing"},
         UNCHANGED <<asked, words, ft, vec, tries, present, answer>>,
         NEW r, NEW o \in {"fused", "reranked", "unanswered"}, ranked' = r, order' = o,
         Grounded(r, o, ft, vec),
         stage' = "reranking" => o = "fused" /\ \E s \in Fusions(ft, vec) : r = Top(s, TopFeed)
  PROVE  RetrievalInv'
<1>1. RetrievalTypeOK' /\ answer' = NoAnswer
  BY DEF RetrievalInv, RetrievalTypeOK, Grounded
<1>2. AnswerIsGrounded'
  BY <1>1 DEF NoAnswer, AnswerIsGrounded
<1>3. Hits(ft') /\ Hits(vec') /\ (ToSet(ft) \cup ToSet(vec) \subseteq Matching(asked.doc))'
  BY DEF RetrievalInv
<1>4. Grounded(ranked', order', ft', vec')
  OBVIOUS
<1>5. stage' = "reranking" => order' = "fused" /\ \E s \in Fusions(ft', vec') : ranked' = Top(s, TopFeed)
  OBVIOUS
<1>6. QED
  BY <1>1, <1>2, <1>3, <1>4, <1>5 DEF RetrievalInv

(* Fusion, the reranker's answer, and its failure.                         *)
LEMMA RankingSafe ==
  ASSUME RetrievalInv, Fuse \/ RerankFails \/ Rerank
  PROVE  RetrievalInv'
<1>0. /\ asked.kind = "ask" /\ stage \in {"fusing", "reranking"} /\ Hits(ft) /\ Hits(vec)
      /\ UNCHANGED <<asked, words, ft, vec, tries, present, answer>>
  BY DEF RetrievalInv, Fuse, RerankFails, Rerank, found
<1>1. CASE Fuse
  <2>1. PICK s \in Fusions(ft, vec) : ranked' = Top(s, TopFeed)
    BY <1>1 DEF Fuse
  <2>2. Grounded(Top(s, TopFeed), "fused", ft, vec)
    BY <1>0, FusedIsGrounded, Limits
  <2>3. order' = "fused" /\ stage' = "reranking"
    BY <1>1 DEF Fuse
  <2>4. PICK r : r = Top(s, TopFeed)
    OBVIOUS
  <2>5. ranked' = r /\ Grounded(r, "fused", ft, vec)
    BY <2>1, <2>2, <2>4
  <2>6. \E f \in Fusions(ft, vec) : r = Top(f, TopFeed)
    BY <2>4
  <2>7. QED
    BY <1>0, <2>3, <2>5, <2>6, RankingMoves
<1>2. CASE RerankFails
  <2>1. Grounded(ranked, order, ft, vec) /\ order = "fused"
    BY <1>2 DEF RetrievalInv, RerankFails
  <2>2. PICK r : r = Top(ranked, TopRerank)
    OBVIOUS
  <2>3. Grounded(r, "fused", ft, vec)
    BY <1>0, <2>1, <2>2, CutIsGrounded, Limits
  <2>4. ranked' = r /\ order' = "fused" /\ stage' = "citing"
    BY <1>2, <2>1, <2>2 DEF RerankFails
  <2>5. QED
    BY <1>0, <2>3, <2>4, RankingMoves
<1>3. CASE Rerank
  <2>1. ranked # << >> /\ stage' = "citing" /\ Grounded(ranked, order, ft, vec)
    BY <1>3 DEF RetrievalInv, Rerank
  <2>2. CASE ranked' = << >> /\ order' = "unanswered"
    <3>1. Grounded(<< >>, "unanswered", ft, vec)
      BY NothingFound DEF Grounded, Hits
    <3>2. QED
      BY <1>0, <2>1, <2>2, <3>1, RankingMoves
  <2>3. ASSUME NEW s \in SetToSeqs(ToSet(ranked)), ranked' = Top(s, TopRerank), order' = "reranked"
        PROVE  RetrievalInv'
    <3>1. /\ ranked \in Seq(Chunks) /\ Distinct(ranked)
          /\ ToSet(ranked) \subseteq ToSet(ft) \cup ToSet(vec)
      BY <2>1 DEF Grounded
    <3>2. IsFiniteSet(ToSet(ranked)) /\ ToSet(ranked) \subseteq Chunks /\ ToSet(ranked) # {}
      BY <2>1, <3>1, DistinctSize, SetIs
    <3>3. /\ s \in Seq(ToSet(ranked)) /\ Distinct(s)
          /\ \A c \in ToSet(ranked) : \E i \in 1..Len(s) : s[i] = c
      BY <3>2, PermutationIs
    <3>4. s \in Seq(Chunks) /\ s # << >> /\ ToSet(s) \subseteq ToSet(ranked)
      BY <3>2, <3>3, SetIs, SMTT(30)
    <3>5. PICK r : r = Top(s, TopRerank)
      OBVIOUS
    <3>6. r \in Seq(Chunks) /\ Distinct(r) /\ ToSet(r) \subseteq ToSet(s)
      BY <3>3, <3>4, <3>5, TopIs, TopDistinct, Limits
    <3>7. r # << >>
      <4>1. Begins(s, s)
        BY <3>4 DEF Begins
      <4>2. QED
        BY <3>4, <3>5, <4>1, TopBegins, Limits
    <3>8. Grounded(r, "reranked", ft, vec)
      BY <3>1, <3>4, <3>6, <3>7 DEF Grounded
    <3>9. ranked' = r
      BY <2>3, <3>5
    <3>10. QED
      BY <1>0, <2>1, <2>3, <3>8, <3>9, RankingMoves
  <2>4. QED
    BY <1>3, <2>2, <2>3 DEF Rerank
<1>4. QED
  BY <1>1, <1>2, <1>3

\* Which chunks an answer cites.
LEMMA ItemsAre ==
  ASSUME NEW s \in Seq(Chunks), NEW names
  PROVE  /\ Items(s, names) \in Seq([chunk : Chunks, named : BOOLEAN])
         /\ Len(Items(s, names)) = Len(s)
         /\ \A i \in 1..Len(s) : Items(s, names)[i].chunk = s[i]
<1>1. \A i \in 1..Len(s) : [chunk |-> s[i], named |-> DocOf[s[i]] \in names]
                            \in [chunk : Chunks, named : BOOLEAN]
  OBVIOUS
<1>2. QED
  BY <1>1 DEF Items

\* Sources are given for what is grounded.
LEMMA CiteSafe ==
  ASSUME RetrievalInv, Cite
  PROVE  RetrievalInv'
<1>0. /\ RetrievalTypeOK /\ asked.kind = "ask" /\ Hits(ft) /\ Hits(vec)
      /\ ToSet(ft) \cup ToSet(vec) \subseteq Matching(asked.doc)
      /\ Grounded(ranked, order, ft, vec) /\ stage' = "answered"
      /\ UNCHANGED <<asked, words, ft, vec, tries, ranked, order, present>>
  BY DEF RetrievalInv, Cite, found
<1>1. PICK c : c = Top(ranked, MaxContext)
  OBVIOUS
<1>2. Grounded(c, order, ft, vec) /\ Len(c) <= MaxContext
  BY <1>0, <1>1, CutIsGrounded, TopIs, Limits, ZenonT(60) DEF Grounded
<1>3. PICK names \in Lookups, status \in Spoken(c) :
        answer' = [status |-> status, items |-> Items(c, names)]
  BY <1>1 DEF Cite
<1>4. c \in Seq(Chunks)
  BY <1>2 DEF Grounded
<1>5. PICK items : items = Items(c, names)
  OBVIOUS
<1>6. Len(items) = Len(c) /\ \A i \in 1..Len(c) : items[i].chunk = c[i]
  BY <1>4, <1>5, ItemsAre
<1>7. [i \in 1..Len(items) |-> items[i].chunk] = c
  <2>1. Len(c) \in Nat /\ c = [i \in 1..Len(c) |-> c[i]]
    BY <1>4
  <2>2. QED
    BY <1>6, <2>1
<1>8. answer'.status = status /\ answer'.items = items
  BY <1>3, <1>5
<1>9. AnswerIsGrounded'
  <2>1. ToSet(c) \subseteq (ToSet(ft) \cup ToSet(vec)) \cap Matching(asked.doc)
    BY <1>0, <1>2 DEF Grounded
  <2>2. Cardinality(ToSet(c)) = Len(c)
    BY <1>2, <1>4, DistinctSize DEF Grounded
  <2>3. order = "fused" => \E s \in Fusions(ft, vec) : IsPrefix(c, s)
    <3>1. ASSUME NEW s \in Fusions(ft, vec), Begins(c, s) PROVE IsPrefix(c, s)
      <4>1. IsFiniteSet(ToSet(ft) \cup ToSet(vec))
        BY <1>0, DistinctSize, FS_Union DEF Hits
      <4>2. s \in Seq(ToSet(ft) \cup ToSet(vec))
        BY <4>1, PermutationIs DEF Fusions
      <4>3. c \in Seq(ToSet(ft) \cup ToSet(vec)) /\ Len(c) \in Nat /\ Len(c) <= Len(s)
        BY <1>2, <1>4, <3>1, SetIs DEF Grounded, Begins
      <4>4. SubSeq(s, 1, Len(c)) = [i \in 1..Len(c) |-> s[i]]
        BY <4>2, <4>3
      <4>5. c = [i \in 1..Len(c) |-> c[i]]
        BY <4>3
      <4>6. \A i \in 1..Len(c) : c[i] = s[i]
        BY <3>1 DEF Begins
      <4>7. SubSeq(s, 1, Len(c)) = c
        BY <4>4, <4>5, <4>6
      <4>8. QED
        BY <4>3, <4>7 DEF IsPrefix
    <3>2. QED
      BY <1>2, <3>1 DEF Grounded
  <2>4. status = "notice" <=> c = << >>
    BY <1>3 DEF Spoken
  <2>5. c = << >> => order = "unanswered" \/ (ft = << >> /\ vec = << >>)
    BY <1>2 DEF Grounded
  <2>6. UNCHANGED <<asked, ft, vec, order>>
    BY <1>0
  <2>7. [i \in 1..Len(answer'.items) |-> answer'.items[i].chunk] = c
    BY <1>7, <1>8
  <2>8. QED
    BY <1>2, <1>8, <2>1, <2>2, <2>3, <2>4, <2>5, <2>6, <2>7 DEF AnswerIsGrounded
<1>10. RetrievalTypeOK'
  BY <1>0 DEF RetrievalTypeOK
<1>11. QED
  BY <1>0, <1>9, <1>10 DEF RetrievalInv

\* A listing, a deletion of a row and a stuttering step say nothing about the
\* answer to a question.
LEMMA OtherSafe ==
  ASSUME RetrievalInv,
         ListHits \/ (\E d \in Docs : DeleteRow(d)) \/ UNCHANGED retrievalVars
  PROVE  RetrievalInv'
<1>1. CASE ListHits
  <2>1. /\ RetrievalTypeOK /\ asked.kind # "ask" /\ stage' = "answered"
        /\ UNCHANGED <<asked, words, ft, vec, tries, ranked, order, present>>
    BY <1>1 DEF RetrievalInv, ListHits, found
  <2>2. RetrievalTypeOK' /\ AnswerIsGrounded'
    BY <2>1 DEF RetrievalTypeOK, AnswerIsGrounded
  <2>3. QED
    BY <2>1, <2>2 DEF RetrievalInv
<1>2. CASE UNCHANGED <<asked, stage, words, ft, vec, tries, ranked, order, answer>>
           /\ present' \subseteq Docs
  <2>1. RetrievalTypeOK'
    BY <1>2 DEF RetrievalInv, RetrievalTypeOK
  <2>2. AnswerIsGrounded'
    BY <1>2 DEF RetrievalInv, AnswerIsGrounded
  <2>3. QED
    BY <1>2, <2>1, <2>2 DEF RetrievalInv
<1>3. QED
  BY <1>1, <1>2 DEF RetrievalInv, RetrievalTypeOK, DeleteRow, retrievalVars, found

-----------------------------------------------------------------------------
(* The theorems.                                                            *)

\* The initial state.
LEMMA InitSafe ==
  ASSUME RetrievalInit
  PROVE  RetrievalInv
<1>1. RetrievalTypeOK
  BY NothingFound DEF RetrievalInit, RetrievalTypeOK, Unasked, Rewritten
<1>2. AnswerIsGrounded
  BY DEF RetrievalInit, Unasked, AnswerIsGrounded
<1>3. QED
  BY <1>1, <1>2 DEF RetrievalInit, Unasked, RetrievalInv

\* The hits of a question, their order and what an answer cites stay related
\* as RetrievalInv says, whatever the services answer or fail to answer.
THEOREM RetrievalSafe == RetrievalSpec => []RetrievalInv
<1>1. RetrievalInit => RetrievalInv
  BY InitSafe
<1>2. RetrievalInv /\ [RetrievalNext]_retrievalVars => RetrievalInv'
  BY AskSafe, FullTextSafe, NearestSafe, OtherSearchSafe, RankingSafe, CiteSafe, OtherSafe
  DEF RetrievalNext
<1>3. QED
  BY <1>1, <1>2, PTL DEF RetrievalSpec

\* What the reranker is given is an order both backends agree with, and the
\* cut takes nothing away that belongs before what it keeps.
LEMMA FusionIsAgreed ==
  ASSUME RetrievalInv
  PROVE  FusedByAgreement
<1>1. SUFFICES ASSUME stage = "reranking"
               PROVE  /\ ToSet(ranked) \subseteq ToSet(ft) \cup ToSet(vec)
                      /\ Cardinality(ToSet(ranked)) = Len(ranked)
                      /\ \A c, d \in ToSet(ft) \cup ToSet(vec) :
                           (\/ Before(ft, c, d) /\ ~Before(vec, d, c)
                            \/ Before(vec, c, d) /\ ~Before(ft, d, c)
                            \/ Both(c) /\ ~Both(d)) => ~Before(ranked, d, c)
  BY DEF FusedByAgreement
<1>2. /\ Hits(ft) /\ Hits(vec) /\ Grounded(ranked, order, ft, vec)
      /\ \E s \in Fusions(ft, vec) : ranked = Top(s, TopFeed)
  BY <1>1 DEF RetrievalInv
<1>3. PICK s \in Fusions(ft, vec) : ranked = Top(s, TopFeed)
  BY <1>2
<1>4. ToSet(ranked) \subseteq ToSet(ft) \cup ToSet(vec) /\ Cardinality(ToSet(ranked)) = Len(ranked)
  BY <1>2, DistinctSize DEF Grounded
<1>5. ASSUME NEW c \in ToSet(ft) \cup ToSet(vec), NEW d \in ToSet(ft) \cup ToSet(vec),
             \/ Before(ft, c, d) /\ ~Before(vec, d, c)
             \/ Before(vec, c, d) /\ ~Before(ft, d, c)
             \/ Both(c) /\ ~Both(d)
      PROVE  ~Before(ranked, d, c)
  <2>1. Contains(ft, d) \/ Contains(vec, d)
    BY <1>2, SetIs DEF Hits
  <2>2. Above(vec, ft, c, d) => Above(ft, vec, c, d)
    BY <1>2, ScoreOfSwapped DEF Above
  <2>3. Above(ft, vec, c, d)
    BY <1>2, <1>5, <2>1, <2>2, AgreedIsAbove, BothIsAbove DEF Both
  <2>4. QED
    BY <1>2, <1>3, <2>3, AboveIsBefore, Limits
<1>6. QED
  BY <1>4, <1>5

\* FusedByAgreement holds of every question, for any number of chunks, any
\* hits and any limits with TopRetrieval <= RrfK + 1.
THEOREM FusionAgrees == RetrievalSpec => []FusedByAgreement
BY RetrievalSafe, FusionIsAgreed, PTL

\* AnswerIsGrounded holds of every question.
THEOREM AnswersAreGrounded == RetrievalSpec => []AnswerIsGrounded
<1>1. RetrievalInv => AnswerIsGrounded
  BY DEF RetrievalInv
<1>2. QED
  BY <1>1, RetrievalSafe, PTL

-----------------------------------------------------------------------------
(* Chunker: sequences of numbers and of intervals.                          *)

\* An increasing sequence of n numbers.
Increasing(s, n) == \A a, b \in 1..n : a < b => s[a] < s[b]

\* Every set of positions can be listed in ascending order.
LEMMA ListExists ==
  ASSUME NEW N \in Nat, NEW S \in SUBSET (1..N)
  PROVE  /\ Cardinality(S) \in Nat
         /\ \E s \in [1..Cardinality(S) -> S] : Increasing(s, Cardinality(S))
<1> DEFINE Listed(R) == /\ Cardinality(R) \in Nat
                        /\ \E s \in [1..Cardinality(R) -> R] : Increasing(s, Cardinality(R))
           T == {n \in Nat : \A R \in SUBSET (1..n) : Listed(R)}
<1>1. 0 \in T
  <2>1. SUFFICES ASSUME NEW R \in SUBSET (1..0) PROVE Listed(R)
    OBVIOUS
  <2>2. R = {}
    OBVIOUS
  <2>3. Cardinality(R) = 0
    BY <2>2, FS_EmptySet
  <2> DEFINE s == [k \in 1..0 |-> 0]
  <2>4. s \in [1..0 -> R] /\ Increasing(s, 0)
    BY DEF Increasing
  <2>5. \E f \in [1..0 -> R] : Increasing(f, 0)
    BY <2>4
  <2>6. Cardinality(R) \in Nat /\ \E f \in [1..Cardinality(R) -> R] : Increasing(f, Cardinality(R))
    <3> HIDE DEF s, Listed, T
    <3> DEFINE Has(n) == n \in Nat /\ \E f \in [1..n -> R] : Increasing(f, n)
    <3>1. Has(0)
      BY <2>5
    <3> HIDE DEF Has
    <3>2. Has(Cardinality(R))
      BY <2>3, <3>1
    <3> QED  BY <3>2 DEF Has
  <2> QED  BY <2>6
<1>2. ASSUME NEW n \in Nat, n \in T PROVE n + 1 \in T
  <2>1. SUFFICES ASSUME NEW R \in SUBSET (1..(n + 1)), n + 1 \in R PROVE Listed(R)
    <3>1. ASSUME NEW R \in SUBSET (1..(n + 1)), n + 1 \notin R PROVE R \in SUBSET (1..n)
      BY <3>1
    <3> HIDE DEF Listed
    <3> QED  BY <1>2, <3>1, <2>1
  <2> DEFINE Q == R \ {n + 1}
             c == Cardinality(Q)
  <2>2. Q \in SUBSET (1..n)
    OBVIOUS
  <2>3. IsFiniteSet(R) /\ IsFiniteSet(Q) /\ R = Q \cup {n + 1}
    <3>1. IsFiniteSet(1..(n + 1))
      BY FS_Interval
    <3>2. IsFiniteSet(R)
      BY <3>1, FS_Subset
    <3> QED  BY <2>1, <3>2, FS_RemoveElement
  <2>4. c \in Nat /\ Cardinality(R) = c + 1
    <3> HIDE DEF Listed
    <3>1. Cardinality(Q \cup {n + 1}) = Cardinality(Q) + 1
      BY <2>3, FS_AddElement
    <3>2. Cardinality(Q) \in Nat
      BY <2>3, FS_CardinalityType
    <3> QED  BY <2>3, <3>1, <3>2
  <2>5. PICK s \in [1..c -> Q] : Increasing(s, c)
    BY <1>2, <2>2
  <2> HIDE DEF Q, c, Listed
  <2> DEFINE r == [k \in 1..(c + 1) |-> IF k <= c THEN s[k] ELSE n + 1]
  <2>6. \A k \in 1..c : s[k] \in Q /\ s[k] \in 1..n
    BY <2>2, <2>5
  <2>7. r \in [1..(c + 1) -> R]
    BY <2>1, <2>4, <2>6 DEF Q
  <2>8. Increasing(r, c + 1)
    <3>1. ASSUME NEW a \in 1..(c + 1), NEW b \in 1..(c + 1), a < b PROVE r[a] < r[b]
      <4>1. a \in 1..c /\ (b \in 1..c \/ b = c + 1)
        BY <2>4, <3>1
      <4> QED  BY <2>4, <2>5, <2>6, <3>1, <4>1 DEF Increasing
    <3> QED  BY <3>1 DEF Increasing
  <2> HIDE DEF r
  <2> QED  BY <2>4, <2>7, <2>8 DEF Listed
<1>3. Nat \subseteq T
  <2> HIDE DEF T
  <2> QED  BY <1>1, <1>2, NatSet
<1>4. Listed(S)
  BY <1>3
<1> QED  BY <1>4

\* Ascending lists a set of positions: all of them, in order, once.
LEMMA AscendingIs ==
  ASSUME NEW N \in Nat, NEW S \in SUBSET (1..N)
  PROVE  \E n \in Nat :
           /\ Ascending(S) \in [1..n -> S] /\ Len(Ascending(S)) = n
           /\ Increasing(Ascending(S), n)
           /\ \A i \in S : \E k \in 1..n : Ascending(S)[k] = i
<1> DEFINE n == Cardinality(S)
           s == Ascending(S)
<1>1. n \in Nat /\ \E f \in [1..n -> S] : Increasing(f, n)
  BY ListExists
<1>2. s \in [1..n -> S] /\ Increasing(s, n)
  BY <1>1 DEF Ascending, Increasing
<1>3. IsFiniteSet(S)
  <2>1. IsFiniteSet(1..N)
    BY FS_Interval
  <2> QED  BY <2>1, FS_Subset
<1> HIDE DEF s
<1>4. s \in Surjection(1..n, S)
  <2>1. ASSUME NEW a \in 1..n, NEW b \in 1..n, s[a] = s[b] PROVE a = b
    <3>1. s[a] \in 1..N /\ s[b] \in 1..N
      BY <1>2
    <3> QED  BY <1>1, <1>2, <2>1, <3>1 DEF Increasing
  <2>2. s \in Injection(1..n, S)
    BY <1>2, <2>1 DEF Injection, IsInjective
  <2>3. Cardinality(1..n) = n
    BY <1>1, FS_Interval
  <2> QED  BY <1>3, <2>2, <2>3, FS_Injection
<1>5. \A i \in S : \E k \in 1..n : s[k] = i
  BY <1>4 DEF Surjection
<1>6. Len(s) = n
  BY <1>1, <1>2
<1> HIDE DEF n
<1> QED  BY <1>1, <1>2, <1>5, <1>6 DEF s

-----------------------------------------------------------------------------
Interval == [from : Int, to : Int]

(* Intervals of i..j, none empty, each of which begins and ends after those  *)
(* before it; what two of them have in common is in share.                   *)
Ordered(s, i, j, share) ==
  /\ s \in Seq(Interval)
  /\ \A k \in 1..Len(s) : i <= s[k].from /\ s[k].from <= s[k].to /\ s[k].to <= j
  /\ \A k, l \in 1..Len(s) : k < l =>
       /\ s[k].from < s[l].from /\ s[k].to < s[l].to
       /\ s[l].from <= s[k].to => Piece(s[l].from, s[k].to) \in share

(* No number is in two of them.                                              *)
InOrder(s, i, j) == Ordered(s, i, j, {})

(* What chunks of a text may have in common.                                 *)
Common(t, cat) == {q \in Interval : Length(t, cat, q) <= ChunkOverlap}

(* Between disjoint intervals there is nothing to share.                     *)
LEMMA Disjoint ==
  ASSUME NEW s \in Seq(Interval), NEW i \in Int, NEW j \in Int,
         \A k \in 1..Len(s) : i <= s[k].from /\ s[k].from <= s[k].to /\ s[k].to <= j,
         \A k, l \in 1..Len(s) : k < l => s[k].to < s[l].from
  PROVE  InOrder(s, i, j) /\ \A share : Ordered(s, i, j, share)
<1>1. \A k \in 1..Len(s) : s[k].from \in Int /\ s[k].to \in Int
  <2>1. \A k \in 1..Len(s) : s[k] \in Interval
    OBVIOUS
  <2> QED  BY <2>1 DEF Interval
<1>2. ASSUME NEW k \in 1..Len(s), NEW l \in 1..Len(s), k < l
      PROVE  s[k].from < s[l].from /\ s[k].to < s[l].to /\ ~(s[l].from <= s[k].to)
  BY <1>1, <1>2
<1> QED  BY <1>2 DEF InOrder, Ordered

(* Intervals that share nothing are disjoint.                                *)
LEMMA ShareNothing ==
  ASSUME NEW s, NEW i, NEW j, InOrder(s, i, j), NEW k \in 1..Len(s), NEW l \in 1..Len(s), k < l
  PROVE  s[k].to < s[l].from
<1>1. s[k] \in Interval /\ s[l] \in Interval
  BY DEF InOrder, Ordered
<1>2. s[k].to \in Int /\ s[l].from \in Int /\ ~(s[l].from <= s[k].to)
  BY <1>1 DEF InOrder, Ordered, Interval
<1> QED  BY <1>2

(* No line of i..j that has text is in none of the intervals.                *)
Covers(t, s, i, j) ==
  \A m \in i..j : ~Blank(t, m) => \E k \in 1..Len(s) : s[k].from <= m /\ m <= s[k].to

\* An interval from its ends.
LEMMA PieceIs ==
  ASSUME NEW i \in Int, NEW j \in Int
  PROVE  Piece(i, j) \in Interval /\ Piece(i, j).from = i /\ Piece(i, j).to = j
BY DEF Piece, Interval

\* Cutting a splittable interval gives all of it, in order.
LEMMA CutAtIs ==
  ASSUME NEW t, NEW cat, NEW N \in Nat, NEW first \in Firsts(N), NEW p \in Interval,
         1 <= p.from, p.from <= p.to, p.to <= N, Splittable(t, cat, p, first)
  PROVE  /\ Ordered(CutAt(first, p.from, p.to), p.from, p.to, Common(t, cat))
         /\ Covers(t, CutAt(first, p.from, p.to), p.from, p.to)
<1> DEFINE i == p.from
           j == p.to
           S == {i} \cup {k \in (i + 1)..j : first[k] # 0}
           s == Ascending(S)
           c == CutAt(first, i, j)
           From(k) == IF k = 1 THEN i ELSE first[s[k]]
           Next(k) == IF k < Len(s) THEN s[k + 1] - 1 ELSE j
<1>0. i \in Int /\ j \in Int /\ i <= j /\ 1 <= i /\ j <= N /\ N \in Int
  BY DEF Interval
<1>a. /\ \A k, l \in 1..Len(c) : k < l =>
            /\ c[k].from < c[l].from
            /\ c[l].from <= c[k].to => Length(t, cat, Piece(c[l].from, c[k].to)) <= ChunkOverlap
  BY DEF Splittable
<1> HIDE DEF i, j
<1>1. S \in SUBSET (1..N) /\ i \in S /\ \A k \in S : i <= k /\ k <= j
  <2>1. ASSUME NEW k \in S PROVE k \in 1..N /\ i <= k /\ k <= j
    BY <1>0, <2>1
  <2> QED  BY <2>1
<1>b. \A k \in S : k # i => k \in 2..N /\ first[k] # 0
  BY <1>0
<1> HIDE DEF S
<1>2. PICK n \in Nat : /\ s \in [1..n -> S] /\ Len(s) = n /\ Increasing(s, n)
                       /\ \A m \in S : \E k \in 1..n : s[k] = m
  BY <1>1, AscendingIs
<1>3. c = [k \in 1..n |-> Piece(From(k), Next(k))]
  BY <1>2 DEF CutAt, S
<1> HIDE DEF s, c
<1>4. ASSUME NEW k \in 1..n PROVE s[k] \in S /\ s[k] \in Int /\ i <= s[k] /\ s[k] <= j
  <2>1. s[k] \in S
    BY <1>2
  <2>2. s[k] \in 1..N
    BY <1>1, <2>1
  <2> QED  BY <1>1, <2>1, <2>2
<1>5. ASSUME NEW k \in 1..n
      PROVE  Next(k) \in Int /\ s[k] <= Next(k) /\ Next(k) <= j /\ (k < n => Next(k) < s[k + 1])
  <2>1. CASE k < n
    <3>1. k + 1 \in 1..n /\ s[k] < s[k + 1] /\ s[k] \in Int /\ s[k + 1] \in Int /\ s[k + 1] <= j
      BY <1>2, <1>4, <2>1 DEF Increasing
    <3>2. Next(k) = s[k + 1] - 1
      BY <1>2, <2>1
    <3> QED  BY <1>0, <3>1, <3>2
  <2>2. CASE k = n
    BY <1>0, <1>2, <1>4, <2>2
  <2> QED  BY <2>1, <2>2
<1>c. ASSUME NEW k \in 1..n PROVE From(k) \in Int /\ From(k) <= s[k]
  <2>1. CASE k = 1
    BY <1>0, <1>4, <2>1
  <2>2. CASE k # 1
    <3>1. s[k] # i
      <4>1. 1 \in 1..n /\ 1 < k
        BY <2>2
      <4>2. s[1] < s[k] /\ i <= s[1] /\ s[1] \in Int /\ s[k] \in Int
        BY <1>2, <1>4, <4>1 DEF Increasing
      <4> QED  BY <1>0, <4>2
    <3>2. s[k] \in 2..N
      BY <1>4, <1>b, <3>1
    <3>3. first[s[k]] \in {0} \cup 2..N /\ first[s[k]] <= s[k]
      BY <3>2 DEF Firsts
    <3> QED  BY <2>2, <3>3
  <2> QED  BY <2>1, <2>2
<1> HIDE DEF Next, From
<1>6. c \in Seq(Interval) /\ Len(c) = n /\ \A k \in 1..n : c[k].from = From(k) /\ c[k].to = Next(k)
  <2>1. \A k \in 1..n : /\ Piece(From(k), Next(k)) \in Interval
                        /\ Piece(From(k), Next(k)).from = From(k)
                        /\ Piece(From(k), Next(k)).to = Next(k)
    BY <1>5, <1>c, PieceIs
  <2> QED  BY <1>3, <2>1
<1>7. ASSUME NEW k \in 1..n, NEW l \in 1..n, k < l PROVE c[k].to < c[l].to
  <2>1. k + 1 \in 1..n /\ Next(k) < s[k + 1] /\ (k + 1 = l \/ k + 1 < l)
    BY <1>5, <1>7
  <2>2. Next(k) \in Int /\ s[k + 1] \in Int /\ s[l] \in Int /\ s[l] <= Next(l) /\ Next(l) \in Int
    BY <1>4, <1>5, <2>1
  <2>3. k + 1 = l \/ s[k + 1] < s[l]
    BY <1>2, <2>1 DEF Increasing
  <2>4. c[k].to = Next(k) /\ c[l].to = Next(l)
    BY <1>6
  <2> QED  BY <2>1, <2>2, <2>3, <2>4
<1>d. ASSUME NEW k \in 1..n PROVE i <= c[k].from /\ c[k].from <= c[k].to /\ c[k].to <= j
  <2>1. c[k].from = From(k) /\ c[k].to = Next(k)
    BY <1>6
  <2>2. i <= From(k)
    <3>1. CASE k = 1
      BY <1>0, <3>1 DEF From
    <3>2. CASE k # 1
      <4>1. 1 \in 1..Len(c) /\ k \in 1..Len(c) /\ 1 < k
        BY <1>6, <3>2
      <4>2. c[1].from < c[k].from /\ c[1].from = i
        BY <1>6, <1>a, <4>1 DEF From
      <4> QED  BY <1>0, <1>c, <2>1, <4>2
    <3> QED  BY <3>1, <3>2
  <2>3. From(k) <= s[k] /\ s[k] <= Next(k) /\ Next(k) <= j
    BY <1>5, <1>c
  <2> QED  BY <1>4, <1>5, <1>c, <2>1, <2>2, <2>3
<1>e. ASSUME NEW k \in 1..n, NEW l \in 1..n, k < l, c[l].from <= c[k].to
      PROVE  Piece(c[l].from, c[k].to) \in Common(t, cat)
  <2>1. Piece(c[l].from, c[k].to) \in Interval
    BY <1>5, <1>6, <1>c, PieceIs
  <2> QED  BY <1>6, <1>a, <1>e, <2>1 DEF Common
<1>8. Ordered(c, i, j, Common(t, cat))
  BY <1>6, <1>7, <1>a, <1>d, <1>e DEF Ordered
<1>9. ASSUME NEW m \in i..j
      PROVE  \E k \in 1..n : c[k].from <= m /\ m <= c[k].to
  <2> DEFINE K == {k \in 1..n : s[k] <= m}
  <2>1. K \in SUBSET (1..n) /\ K # {}
    <3>1. PICK k \in 1..n : s[k] = i
      BY <1>1, <1>2
    <3> QED  BY <1>0, <3>1
  <2>2. Max(K) \in K /\ \A k \in K : k <= Max(K)
    BY <2>1, MaxExists
  <2>3. PICK k \in 1..n : s[k] <= m /\ \A l \in 1..n : s[l] <= m => l <= k
    BY <2>2
  <2>4. m <= Next(k)
    <3>1. CASE k < n
      <4>1. k + 1 \in 1..n /\ ~(k + 1 <= k) /\ s[k + 1] \in Int
        BY <1>4, <3>1
      <4>2. m < s[k + 1] /\ Next(k) = s[k + 1] - 1
        BY <1>0, <1>2, <2>3, <3>1, <4>1 DEF Next
      <4> QED  BY <1>0, <4>1, <4>2
    <3>2. CASE k = n
      BY <1>0, <1>2, <3>2 DEF Next
    <3> QED  BY <3>1, <3>2
  <2>5. From(k) <= m
    BY <1>0, <1>4, <1>c, <2>3
  <2> QED  BY <1>6, <2>4, <2>5
<1>10. Covers(t, c, i, j)
  BY <1>6, <1>9 DEF Covers
<1> QED  BY <1>8, <1>10 DEF c, i, j

\* What is blank can be dropped.
LEMMA WithTextIs ==
  ASSUME NEW t, NEW i \in Int, NEW j \in Int, NEW c, NEW share, Ordered(c, i, j, share),
         Covers(t, c, i, j)
  PROVE  /\ Ordered(WithText(t, c), i, j, share) /\ Covers(t, WithText(t, c), i, j)
         /\ ToSet(WithText(t, c)) \subseteq ToSet(c)
<1> DEFINE S == {k \in 1..Len(c) : HasText(t, c[k])}
           s == Ascending(S)
           w == WithText(t, c)
<1>1. Len(c) \in Nat /\ \A k \in 1..Len(c) : c[k] \in Interval
  BY DEF InOrder, Ordered
<1>2. S \in SUBSET (1..Len(c))
  OBVIOUS
<1>3. PICK n \in Nat : /\ s \in [1..n -> S] /\ Len(s) = n /\ Increasing(s, n)
                       /\ \A m \in S : \E k \in 1..n : s[k] = m
  <2> HIDE DEF S
  <2> QED  BY <1>1, <1>2, AscendingIs
<1>4. w = [k \in 1..n |-> c[s[k]]]
  BY <1>3 DEF WithText
<1> HIDE DEF w, s
<1>5. \A k \in 1..n : s[k] \in 1..Len(c)
  BY <1>2, <1>3
<1>6. w \in Seq(Interval) /\ Len(w) = n /\ \A k \in 1..n : w[k] = c[s[k]]
  BY <1>1, <1>4, <1>5
<1>7. \A k, l \in 1..n : k < l => s[k] < s[l]
  BY <1>3 DEF Increasing
<1>8. Ordered(w, i, j, share)
  <2>1. ASSUME NEW k \in 1..n, NEW l \in 1..n, k < l
        PROVE  /\ w[k].from < w[l].from /\ w[k].to < w[l].to
               /\ w[l].from <= w[k].to => Piece(w[l].from, w[k].to) \in share
    <3>1. s[k] \in 1..Len(c) /\ s[l] \in 1..Len(c) /\ s[k] < s[l] /\ w[k] = c[s[k]] /\ w[l] = c[s[l]]
      BY <1>5, <1>6, <1>7, <2>1
    <3> QED  BY <3>1 DEF Ordered
  <2>2. \A k \in 1..n : i <= w[k].from /\ w[k].from <= w[k].to /\ w[k].to <= j
    BY <1>5, <1>6 DEF Ordered
  <2> QED  BY <1>6, <2>1, <2>2 DEF Ordered
<1>9. ASSUME NEW m \in i..j, ~Blank(t, m)
      PROVE  \E k \in 1..n : w[k].from <= m /\ m <= w[k].to
  <2>1. PICK l \in 1..Len(c) : c[l].from <= m /\ m <= c[l].to
    BY <1>9 DEF Covers
  <2>2. l \in S
    <3>1. c[l].from \in Int /\ c[l].to \in Int /\ m \in Int
      BY <1>1 DEF Interval
    <3>2. m \in c[l].from..c[l].to
      BY <2>1, <3>1
    <3> QED  BY <1>9, <3>2 DEF HasText
  <2>3. PICK k \in 1..n : s[k] = l
    BY <1>3, <2>2
  <2> QED  BY <1>6, <2>1, <2>3
<1>10. Covers(t, w, i, j)
  BY <1>6, <1>9 DEF Covers
<1>11. ToSet(w) \subseteq ToSet(c)
  <2>1. DOMAIN w = 1..n /\ DOMAIN c = 1..Len(c)
    BY <1>4 DEF InOrder, Ordered
  <2> QED  BY <1>5, <1>6, <2>1 DEF ToSet
<1> QED  BY <1>8, <1>10, <1>11 DEF w

\* The elements of a sequence of intervals.
LEMMA ElementsIs ==
  ASSUME NEW s \in Seq(Interval)
  PROVE  /\ \A k \in 1..Len(s) : s[k] \in ToSet(s)
         /\ \A p \in ToSet(s) : p \in Interval /\ \E k \in 1..Len(s) : s[k] = p
BY DEF ToSet

\* The elements of two sequences of intervals, one after the other.
LEMMA JoinElements ==
  ASSUME NEW s \in Seq(Interval), NEW r \in Seq(Interval)
  PROVE  s \o r \in Seq(Interval) /\ ToSet(s \o r) = ToSet(s) \cup ToSet(r)
<1>1. s \o r \in Seq(Interval) /\ Len(s \o r) = Len(s) + Len(r) /\ Len(s) \in Nat /\ Len(r) \in Nat
  OBVIOUS
<1>2. \A k \in 1..Len(s) : (s \o r)[k] = s[k] /\ k \in 1..Len(s \o r)
  BY <1>1
<1>3. \A k \in 1..Len(r) : (s \o r)[Len(s) + k] = r[k] /\ Len(s) + k \in 1..Len(s \o r)
  BY <1>1
<1>4. ASSUME NEW k \in 1..Len(s \o r)
      PROVE  (s \o r)[k] \in ToSet(s) \cup ToSet(r)
  <2>1. CASE k <= Len(s)
    <3>1. k \in 1..Len(s)
      BY <1>1, <2>1
    <3> QED  BY <1>2, <3>1, ElementsIs
  <2>2. CASE ~(k <= Len(s))
    <3>1. k - Len(s) \in 1..Len(r) /\ Len(s) + (k - Len(s)) = k
      BY <1>1, <2>2
    <3>2. (s \o r)[k] = r[k - Len(s)]
      BY <1>3, <3>1
    <3> QED  BY <3>1, <3>2, ElementsIs
  <2> QED  BY <2>1, <2>2
<1>5. ToSet(s) \cup ToSet(r) \subseteq ToSet(s \o r)
  <2>1. \A k \in 1..Len(s \o r) : (s \o r)[k] \in ToSet(s \o r)
    BY <1>1, ElementsIs
  <2>2. ASSUME NEW p \in ToSet(s) PROVE p \in ToSet(s \o r)
    <3>1. PICK k \in 1..Len(s) : s[k] = p
      BY ElementsIs
    <3> QED  BY <1>2, <2>1, <3>1
  <2>3. ASSUME NEW p \in ToSet(r) PROVE p \in ToSet(s \o r)
    <3>1. PICK k \in 1..Len(r) : r[k] = p
      BY ElementsIs
    <3> QED  BY <1>3, <2>1, <3>1
  <2> QED  BY <2>2, <2>3
<1>6. ToSet(s \o r) \subseteq ToSet(s) \cup ToSet(r)
  <2>1. \A p \in ToSet(s \o r) : \E k \in 1..Len(s \o r) : (s \o r)[k] = p
    BY <1>1, ElementsIs
  <2> QED  BY <1>4, <2>1
<1> QED  BY <1>1, <1>5, <1>6

\* Intervals of i..j before intervals of a..b.
LEMMA JoinOrdered ==
  ASSUME NEW i \in Int, NEW j \in Int, NEW a \in Int, NEW b \in Int,
         i <= a, j < a, j <= b, NEW s, NEW r, NEW share, Ordered(s, i, j, share),
         Ordered(r, a, b, share)
  PROVE  Ordered(s \o r, i, b, share)
<1> DEFINE u == s \o r
<1>1. s \in Seq(Interval) /\ r \in Seq(Interval)
  BY DEF InOrder, Ordered
<1>2. u \in Seq(Interval) /\ Len(u) = Len(s) + Len(r) /\ Len(s) \in Nat /\ Len(r) \in Nat
  BY <1>1
<1>3. \A k \in 1..Len(u) : IF k <= Len(s) THEN u[k] = s[k] /\ k \in 1..Len(s)
                           ELSE u[k] = r[k - Len(s)] /\ k - Len(s) \in 1..Len(r)
  BY <1>1, <1>2
<1> HIDE DEF u
<1>4. ASSUME NEW k \in 1..Len(u)
      PROVE  /\ i <= u[k].from /\ u[k].from <= u[k].to /\ u[k].to <= b
             /\ u[k].from \in Int /\ u[k].to \in Int
             /\ IF k <= Len(s) THEN u[k].to <= j ELSE a <= u[k].from
  <2>1. u[k].from \in Int /\ u[k].to \in Int
    <3>1. u[k] \in Interval
      BY <1>2
    <3> QED  BY <3>1 DEF Interval
  <2>2. CASE k <= Len(s)
    BY <1>3, <2>1, <2>2 DEF InOrder, Ordered
  <2>3. CASE ~(k <= Len(s))
    <3>1. u[k] = r[k - Len(s)] /\ k - Len(s) \in 1..Len(r)
      BY <1>3, <2>3
    <3>2. a <= u[k].from /\ u[k].from <= u[k].to /\ u[k].to <= b
      BY <3>1 DEF InOrder, Ordered
    <3> QED  BY <2>1, <2>3, <3>2
  <2> QED  BY <2>2, <2>3
<1>5. ASSUME NEW k \in 1..Len(u), NEW l \in 1..Len(u), k < l
      PROVE  /\ u[k].from < u[l].from /\ u[k].to < u[l].to
             /\ u[l].from <= u[k].to => Piece(u[l].from, u[k].to) \in share
  <2>1. CASE l <= Len(s)
    <3>1. k <= Len(s) /\ k \in 1..Len(s) /\ l \in 1..Len(s) /\ u[k] = s[k] /\ u[l] = s[l]
      BY <1>2, <1>3, <1>5, <2>1
    <3> QED  BY <1>5, <3>1 DEF InOrder, Ordered
  <2>2. CASE k <= Len(s) /\ ~(l <= Len(s))
    BY <1>4, <2>2
  <2>3. CASE ~(k <= Len(s))
    <3>1. /\ ~(l <= Len(s)) /\ k - Len(s) \in 1..Len(r) /\ l - Len(s) \in 1..Len(r)
          /\ k - Len(s) < l - Len(s) /\ u[k] = r[k - Len(s)] /\ u[l] = r[l - Len(s)]
      <4>1. ~(l <= Len(s)) /\ k - Len(s) < l - Len(s)
        BY <1>2, <1>5, <2>3
      <4> QED  BY <1>3, <2>3, <4>1
    <3> QED  BY <3>1 DEF InOrder, Ordered
  <2> QED  BY <2>1, <2>2, <2>3
<1> QED  BY <1>2, <1>4, <1>5 DEF InOrder, Ordered, u

(* Each sequence of ss is in order, within an interval of raw.               *)
Within(ss, raw, share) ==
  \A k \in 1..Len(raw) : Ordered(ss[k], raw[k].from, raw[k].to, share)

\* What takes the place of each interval is in order, and all of it is there.
LEMMA FlattenInOrder ==
  ASSUME NEW N \in Nat, NEW raw, InOrder(raw, 1, N), NEW n \in Nat, n = Len(raw),
         NEW ss \in [1..n -> Seq(Interval)], NEW share, Within(ss, raw, share)
  PROVE  /\ Ordered(FlattenSeq(ss), 1, N, share)
         /\ \A p : p \in ToSet(FlattenSeq(ss)) <=> \E k \in 1..n : p \in ToSet(ss[k])
<1>1. PICK f \in [0..n -> Seq(Interval)] : Joins(f, ss, n) /\ FlattenSeq(ss) = f[n]
  BY FlattenIs
<1> DEFINE end(k) == IF k = 0 THEN 0 ELSE raw[k].to
           Holds(k) == /\ Ordered(f[k], 1, end(k), share)
                       /\ \A p : p \in ToSet(f[k]) <=> \E l \in 1..k : p \in ToSet(ss[l])
           T == {k \in Nat : k <= n => Holds(k)}
<1>2. ASSUME NEW k \in 0..n PROVE end(k) \in Int /\ 0 <= end(k) /\ end(k) <= N
  <2>1. CASE k = 0
    BY <2>1
  <2>2. CASE k # 0
    <3>1. k \in 1..Len(raw) /\ raw \in Seq(Interval)
      BY <2>2 DEF InOrder, Ordered
    <3>2. raw[k] \in Interval
      BY <3>1
    <3>3. raw[k].from \in Int /\ raw[k].to \in Int
      BY <3>2 DEF Interval
    <3> QED  BY <2>2, <3>1, <3>3 DEF InOrder, Ordered
  <2> QED  BY <2>1, <2>2
<1>3. 0 \in T
  <2>1. f[0] = <<>>
    BY <1>1 DEF Joins
  <2>2. Ordered(f[0], 1, end(0), share) /\ ToSet(f[0]) = {}
    BY <2>1 DEF InOrder, Ordered, ToSet
  <2> QED  BY <2>2
<1>4. ASSUME NEW k \in Nat, k \in T PROVE k + 1 \in T
  <2>1. SUFFICES ASSUME k + 1 <= n PROVE Holds(k + 1)
    OBVIOUS
  <2> DEFINE m == k + 1
  <2>2. m \in 1..n /\ k \in 0..n /\ m - 1 = k /\ Holds(k) /\ m # 0 /\ m \in 0..n
    <3>1. m \in 1..n /\ k \in 0..n /\ m - 1 = k /\ m # 0 /\ m \in 0..n /\ k <= n
      BY <2>1
    <3> HIDE DEF m, Holds
    <3> QED  BY <1>4, <3>1
  <2> HIDE DEF m, Holds
  <2>3. f[m] = f[k] \o ss[m] /\ ss[m] \in Seq(Interval) /\ f[k] \in Seq(Interval)
    BY <1>1, <2>2 DEF Joins
  <2>4. end(m) = raw[m].to /\ raw[m].from \in Int /\ raw[m].from <= raw[m].to /\ 1 <= raw[m].from
    <3>1. m \in 1..Len(raw) /\ raw \in Seq(Interval)
      BY <2>2 DEF InOrder, Ordered
    <3>2. raw[m] \in Interval
      BY <3>1
    <3> QED  BY <2>2, <3>1, <3>2 DEF InOrder, Ordered, Interval
  <2>5. end(k) < raw[m].from
    <3>1. CASE k = 0
      BY <2>4, <3>1
    <3>2. CASE k # 0
      <4>1. k \in 1..Len(raw) /\ m \in 1..Len(raw) /\ k < m
        BY <2>2, <3>2 DEF m
      <4> QED  BY <3>2, <4>1, ShareNothing
    <3> QED  BY <3>1, <3>2
  <2>6. Ordered(f[k], 1, end(k), share) /\ Ordered(ss[m], raw[m].from, raw[m].to, share)
    BY <2>2 DEF Holds, Within
  <2>7. Ordered(f[m], 1, end(m), share)
    <3>1. /\ end(k) \in Int /\ end(k) <= end(m) /\ 1 <= raw[m].from /\ raw[m].from \in Int
          /\ end(m) \in Int
      BY <1>2, <2>2, <2>4, <2>5
    <3> HIDE DEF end
    <3>2. Ordered(f[k] \o ss[m], 1, end(m), share)
      BY <2>4, <2>5, <2>6, <3>1, JoinOrdered
    <3> QED  BY <2>3, <3>2
  <2>8. ASSUME NEW p
        PROVE  p \in ToSet(f[m]) <=> \E l \in 1..m : p \in ToSet(ss[l])
    <3>1. ToSet(f[m]) = ToSet(f[k]) \cup ToSet(ss[m])
      BY <2>3, JoinElements
    <3>2. p \in ToSet(f[k]) <=> \E l \in 1..k : p \in ToSet(ss[l])
      BY <2>2 DEF Holds
    <3>3. \A l : l \in 1..m <=> (l \in 1..k \/ l = m)
      BY <2>2 DEF m
    <3> QED  BY <3>1, <3>2, <3>3
  <2>9. Holds(m)
    BY <2>7, <2>8 DEF Holds
  <2> QED  BY <2>9 DEF m
<1>5. Holds(n)
  <2>1. Nat \subseteq T
    <3> HIDE DEF T
    <3> QED  BY <1>3, <1>4, NatSet
  <2> HIDE DEF Holds
  <2> QED  BY <2>1
<1>6. Ordered(f[n], 1, N, share)
  <2>1. f[n] \in Seq(Interval)
    OBVIOUS
  <2>2. \A l \in 1..Len(f[n]) : f[n][l].to \in Int
    <3>1. \A l \in 1..Len(f[n]) : f[n][l] \in Interval
      BY <2>1
    <3> QED  BY <3>1 DEF Interval
  <2>3. end(n) \in Int /\ end(n) <= N
    BY <1>2
  <2> HIDE DEF end
  <2> QED  BY <1>5, <2>2, <2>3 DEF InOrder, Ordered
<1> QED  BY <1>1, <1>5, <1>6

-----------------------------------------------------------------------------
(* Sections.                                                                 *)

(* A line of Markdown or code is read: what is left of Sections's own fold.  *)
ReadLine(t, acc, i) ==
  IF Opens(t, i) /\ acc.from < i
  THEN [done |-> Append(acc.done, Piece(acc.from, i - 1)), from |-> i]
  ELSE acc

ReadLines(t, base, seq) == FoldLeft(LAMBDA acc, i : ReadLine(t, acc, i), base, seq)

NoLine == [done |-> <<>>, from |-> 1]

\* g is what the lines 1..n leave, and the sections what they leave at the end.
Reads(g, t, n) ==
  /\ g[0] = NoLine /\ \A k \in 1..n : g[k] = ReadLine(t, g[k - 1], k)
  /\ Sections(t) = Append(g[n].done, Piece(g[n].from, n))

\* Sections reads the text line after line.
LEMMA SectionsRun ==
  ASSUME NEW A, NoLine \in A, NEW t, NEW N \in Nat, DOMAIN t = 1..N, Len(t) = N,
         \A a \in A : \A i \in 1..N : ReadLine(t, a, i) \in A
  PROVE  \E g \in [0..N -> A] : Reads(g, t, N)
<1> DEFINE seq == [i \in DOMAIN t |-> i]
           op == [x \in A \X (1..N) |-> ReadLine(t, x[1], x[2])]
           Iter(it) == it = [s \in SUBSET (1..N) |->
             IF s = {} THEN NoLine ELSE ReadLine(t, it[s \ {Max(s)}], seq[Max(s)])]
           iter == CHOOSE it : Iter(it)
           B == A \cup {iter[s] : s \in SUBSET (1..N)}
           step == [x \in B \X (1..N) |-> ReadLine(t, x[1], x[2])]
<1>1. DOMAIN seq = 1..N /\ \A i \in 1..N : seq[i] = i
  OBVIOUS
<1> HIDE DEF seq
<1>2. \A s \in SUBSET (1..N) : s # {} => Max(s) \in 1..N /\ seq[Max(s)] = Max(s)
  BY <1>1, MaxExists
<1>3. \E it : Iter(it)
  <2>1. op \in [A \X (1..N) -> A]
    OBVIOUS
  <2>2. PICK it \in [SUBSET (1..N) -> A] : Folds(N, NoLine, op, it)
    <3> HIDE DEF op
    <3> QED  BY <2>1, FoldExists
  <2>3. ASSUME NEW s \in SUBSET (1..N), s # {}
        PROVE  op[<<it[s \ {Max(s)}], Max(s)>>] = ReadLine(t, it[s \ {Max(s)}], seq[Max(s)])
    <3>1. it[s \ {Max(s)}] \in A /\ Max(s) \in 1..N /\ seq[Max(s)] = Max(s)
      BY <1>2, <2>3
    <3> QED  BY <3>1
  <2>4. \A s \in SUBSET (1..N) :
          it[s] = IF s = {} THEN NoLine ELSE ReadLine(t, it[s \ {Max(s)}], seq[Max(s)])
    <3> HIDE DEF op
    <3> QED  BY <2>2, <2>3 DEF Folds
  <2>5. Iter(it)
    BY <2>4
  <2> QED  BY <2>5
<1>4. ReadLines(t, NoLine, seq) = iter[1..N]
  BY <1>1 DEF ReadLines, FoldLeft, MapThenFoldSet
<1>5. iter = [s \in SUBSET (1..N) |->
        IF s = {} THEN NoLine ELSE ReadLine(t, iter[s \ {Max(s)}], seq[Max(s)])]
  BY <1>3
<1> HIDE DEF iter
<1>6. ASSUME NEW s \in SUBSET (1..N), s # {}
      PROVE  step[<<iter[s \ {Max(s)}], Max(s)>>] = ReadLine(t, iter[s \ {Max(s)}], seq[Max(s)])
  <2>1. iter[s \ {Max(s)}] \in B /\ Max(s) \in 1..N /\ seq[Max(s)] = Max(s)
    BY <1>2, <1>6
  <2> HIDE DEF B
  <2> QED  BY <2>1
<1>7. Folds(N, NoLine, step, iter)
  <2> HIDE DEF step
  <2> QED  BY <1>5, <1>6 DEF Folds
<1>8. ASSUME NEW a \in A, NEW i \in 1..N
      PROVE  step[<<a, i>>] = ReadLine(t, a, i) /\ step[<<a, i>>] \in A
  <2>1. a \in B
    OBVIOUS
  <2> HIDE DEF B
  <2> QED  BY <2>1
<1> DEFINE g == FoldRun(N, iter)
<1>9. g \in [0..N -> A] /\ g[0] = NoLine /\ \A k \in 1..N : g[k] = step[<<g[k - 1], k>>]
  <2> HIDE DEF step
  <2>1. \A a \in A : \A i \in 1..N : step[<<a, i>>] \in A
    BY <1>8
  <2> QED  BY <1>7, <2>1, FoldRuns
<1>10. g[N] = iter[1..N]
  BY DEF FoldRun
<1> HIDE DEF g, step
<1>11. ASSUME NEW k \in 1..N PROVE g[k] = ReadLine(t, g[k - 1], k)
  <2>1. k - 1 \in 0..N
    OBVIOUS
  <2> QED  BY <1>8, <1>9, <2>1
<1>12. Sections(t) = Append(g[N].done, Piece(g[N].from, N))
  <2>1. Sections(t) = Append(ReadLines(t, NoLine, seq).done,
                             Piece(ReadLines(t, NoLine, seq).from, Len(t)))
    BY DEF Sections, FoldLeftDomain, ReadLines, ReadLine, NoLine, seq
  <2> QED  BY <1>4, <1>10, <2>1
<1> QED  BY <1>9, <1>11, <1>12 DEF Reads

(* s are chunks of the lines 1..j: all of the lines, in order, and a line    *)
(* that opens a section is the first of its chunk.                           *)
SectionsTo(t, s, j) ==
  /\ InOrder(s, 1, j) /\ Covers(t, s, 1, j)
  /\ \A p \in ToSet(s) : \A m \in p.from..p.to : Opens(t, m) => m = p.from

\* A sequence of one interval.
LEMMA SingleIs ==
  ASSUME NEW i \in Int, NEW j \in Int, i <= j
  PROVE  /\ InOrder(<<Piece(i, j)>>, i, j) /\ \A share : Ordered(<<Piece(i, j)>>, i, j, share)
         /\ ToSet(<<Piece(i, j)>>) = {Piece(i, j)}
         /\ \A t : Covers(t, <<Piece(i, j)>>, i, j)
<1> DEFINE q == Piece(i, j)
           s == <<q>>
<1>1. q \in Interval /\ q.from = i /\ q.to = j
  BY PieceIs
<1> HIDE DEF q
<1>2. s \in Seq(Interval) /\ Len(s) = 1 /\ s[1] = q /\ DOMAIN s = 1..1
  BY <1>1
<1> HIDE DEF s
<1>3. \A k \in 1..1 : k = 1
  OBVIOUS
<1>4. InOrder(s, i, j) /\ \A share : Ordered(s, i, j, share)
  <2>1. \A k \in 1..Len(s) : i <= s[k].from /\ s[k].from <= s[k].to /\ s[k].to <= j
    BY <1>1, <1>2, <1>3
  <2>2. \A k, l \in 1..Len(s) : ~(k < l)
    BY <1>2, <1>3
  <2> QED  BY <1>2, <2>1, <2>2, Disjoint
<1>5. ToSet(s) = {q}
  BY <1>2, <1>3 DEF ToSet
<1>6. ASSUME NEW t PROVE Covers(t, s, i, j)
  <2>1. \A m \in i..j : s[1].from <= m /\ m <= s[1].to
    BY <1>1, <1>2
  <2>2. 1 \in 1..Len(s)
    BY <1>2
  <2> QED  BY <2>1, <2>2 DEF Covers
<1> QED  BY <1>4, <1>5, <1>6 DEF s, q

\* A chunk is closed at line j.
LEMMA CloseSection ==
  ASSUME NEW t, NEW i \in Int, NEW j \in Int, 1 <= i, i <= j, NEW s, SectionsTo(t, s, i - 1),
         \A m \in (i + 1)..j : ~Opens(t, m)
  PROVE  SectionsTo(t, Append(s, Piece(i, j)), j)
<1> DEFINE q == Piece(i, j)
           r == <<q>>
           u == s \o r
<1>1. q \in Interval /\ q.from = i /\ q.to = j
  BY PieceIs
<1>2. InOrder(r, i, j) /\ ToSet(r) = {q}
  BY SingleIs
<1> HIDE DEF q, r
<1>3. s \in Seq(Interval) /\ r \in Seq(Interval) /\ InOrder(s, 1, i - 1)
  BY <1>2 DEF SectionsTo, InOrder, Ordered
<1>4. InOrder(u, 1, j)
  <2>1. i - 1 \in Int /\ i - 1 < i /\ i - 1 <= j
    OBVIOUS
  <2> QED  BY <1>2, <1>3, <2>1, JoinOrdered DEF InOrder
<1>5. u \in Seq(Interval) /\ ToSet(u) = ToSet(s) \cup {q}
  BY <1>2, <1>3, JoinElements
<1> HIDE DEF u
<1>6. ASSUME NEW m \in 1..j, ~Blank(t, m)
      PROVE  \E k \in 1..Len(u) : u[k].from <= m /\ m <= u[k].to
  <2>1. \E p \in ToSet(u) : p.from <= m /\ m <= p.to
    <3>1. CASE m < i
      <4>1. m \in 1..(i - 1)
        BY <3>1
      <4>2. PICK k \in 1..Len(s) : s[k].from <= m /\ m <= s[k].to
        BY <1>6, <4>1 DEF SectionsTo, Covers
      <4>3. s[k] \in ToSet(s)
        BY <1>3, ElementsIs
      <4> QED  BY <1>5, <4>2, <4>3
    <3>2. CASE ~(m < i)
      <4>1. q.from <= m /\ m <= q.to
        BY <1>1, <3>2
      <4> QED  BY <1>5, <4>1
    <3> QED  BY <3>1, <3>2
  <2> QED  BY <1>5, <2>1, ElementsIs
<1>7. Covers(t, u, 1, j)
  BY <1>6 DEF Covers
<1>8. ASSUME NEW p \in ToSet(u), NEW m \in p.from..p.to, Opens(t, m) PROVE m = p.from
  <2>1. CASE p \in ToSet(s)
    BY <1>8, <2>1 DEF SectionsTo
  <2>2. CASE p = q
    <3>1. m \in i..j /\ m \notin (i + 1)..j
      BY <1>1, <1>8, <2>2
    <3>2. m = i
      BY <3>1
    <3> QED  BY <1>1, <2>2, <3>2
  <2> QED  BY <1>5, <2>1, <2>2
<1>9. u = Append(s, q)
  BY <1>3 DEF u, r
<1> QED  BY <1>4, <1>7, <1>8, <1>9 DEF SectionsTo, q

(* The lines 1..k are read: the open chunk began at a line that is not after *)
(* them, and no line of it but the first opens a section.                    *)
ReadTo(t, acc, k) ==
  /\ acc.from \in Int /\ 1 <= acc.from /\ (acc.from <= k \/ acc.from = 1)
  /\ SectionsTo(t, acc.done, acc.from - 1)
  /\ \A m \in (acc.from + 1)..k : ~Opens(t, m)

\* Reading one line more keeps that.
LEMMA ReadLineReads ==
  ASSUME NEW t, NEW k \in Int, 1 <= k, NEW acc, ReadTo(t, acc, k - 1)
  PROVE  ReadTo(t, ReadLine(t, acc, k), k)
<1>1. acc.from \in Int /\ 1 <= acc.from /\ (acc.from <= k - 1 \/ acc.from = 1)
  BY DEF ReadTo
<1>2. CASE Opens(t, k) /\ acc.from < k
  <2> DEFINE r == ReadLine(t, acc, k)
  <2>1. r.done = Append(acc.done, Piece(acc.from, k - 1)) /\ r.from = k
    BY <1>2 DEF ReadLine
  <2> HIDE DEF r
  <2>2. SectionsTo(t, r.done, k - 1)
    <3>1. k - 1 \in Int /\ acc.from <= k - 1
      BY <1>1, <1>2
    <3>2. SectionsTo(t, acc.done, acc.from - 1) /\ \A m \in (acc.from + 1)..(k - 1) : ~Opens(t, m)
      BY DEF ReadTo
    <3> QED  BY <1>1, <2>1, <3>1, <3>2, CloseSection
  <2>3. \A m \in (k + 1)..k : FALSE
    OBVIOUS
  <2> QED  BY <2>1, <2>2, <2>3 DEF ReadTo, r
<1>3. CASE ~(Opens(t, k) /\ acc.from < k)
  <2>1. ReadLine(t, acc, k) = acc
    BY <1>3 DEF ReadLine
  <2>2. ASSUME NEW m \in (acc.from + 1)..k PROVE ~Opens(t, m)
    <3>1. CASE m = k
      BY <1>1, <1>3, <3>1
    <3>2. CASE m # k
      <4>1. m \in (acc.from + 1)..(k - 1)
        BY <1>1, <3>2
      <4> QED  BY <4>1 DEF ReadTo
    <3> QED  BY <3>1, <3>2
  <2>3. acc.from <= k \/ acc.from = 1
    BY <1>1
  <2> QED  BY <1>1, <2>1, <2>2, <2>3 DEF ReadTo
<1> QED  BY <1>2, <1>3

\* Sections cuts a text of some lines into all of them, where they open.
LEMMA SectionsIs ==
  ASSUME NEW t \in Seq(Line), Len(t) # 0
  PROVE  SectionsTo(t, Sections(t), Len(t))
<1> DEFINE N == Len(t)
           A == [done : Seq(Interval), from : Int]
<1>1. N \in Nat /\ DOMAIN t = 1..N /\ Len(t) = N /\ N # 0
  OBVIOUS
<1> HIDE DEF N
<1>2. NoLine \in A
  BY DEF NoLine
<1>3. ASSUME NEW a \in A, NEW i \in 1..N PROVE ReadLine(t, a, i) \in A
  <2>1. a.done \in Seq(Interval) /\ a.from \in Int /\ i \in Int /\ i - 1 \in Int
    OBVIOUS
  <2>2. Append(a.done, Piece(a.from, i - 1)) \in Seq(Interval)
    BY <2>1, PieceIs
  <2> QED  BY <2>1, <2>2 DEF ReadLine
<1>4. PICK g \in [0..N -> A] : Reads(g, t, N)
  <2>1. \A a \in A : \A i \in 1..N : ReadLine(t, a, i) \in A
    BY <1>3
  <2> HIDE DEF A
  <2> QED  BY <1>1, <1>2, <2>1, SectionsRun
<1> DEFINE T == {k \in Nat : k <= N => ReadTo(t, g[k], k)}
<1>5. 0 \in T
  <2>1. g[0].done = <<>> /\ g[0].from = 1
    BY <1>4 DEF Reads, NoLine
  <2>2. <<>> \in Seq(Interval) /\ Len(<<>>) = 0 /\ ToSet(<<>>) = {} /\ 1..0 = {}
    BY DEF ToSet
  <2>3. SectionsTo(t, <<>>, 0)
    BY <2>2 DEF SectionsTo, InOrder, Ordered, Covers
  <2>4. \A m \in (1 + 1)..0 : FALSE
    OBVIOUS
  <2> QED  BY <2>1, <2>3, <2>4 DEF ReadTo
<1>6. ASSUME NEW k \in Nat, k \in T PROVE k + 1 \in T
  <2>1. SUFFICES ASSUME k + 1 <= N PROVE ReadTo(t, g[k + 1], k + 1)
    OBVIOUS
  <2>2. k + 1 \in 1..N /\ (k + 1) - 1 = k /\ ReadTo(t, g[k], k) /\ k + 1 \in Int /\ 1 <= k + 1
    BY <1>1, <1>6, <2>1
  <2>3. g[k + 1] = ReadLine(t, g[k], k + 1)
    BY <1>4, <2>2 DEF Reads
  <2>4. ReadTo(t, g[k], (k + 1) - 1)
    BY <2>2
  <2> QED  BY <2>2, <2>3, <2>4, ReadLineReads
<1>7. ReadTo(t, g[N], N)
  <2>1. Nat \subseteq T
    <3> HIDE DEF T
    <3> QED  BY <1>5, <1>6, NatSet
  <2> QED  BY <1>1, <2>1
<1>8. g[N].from \in Int /\ 1 <= g[N].from /\ g[N].from <= N
  BY <1>1, <1>7 DEF ReadTo
<1>9. /\ SectionsTo(t, g[N].done, g[N].from - 1)
      /\ \A m \in (g[N].from + 1)..N : ~Opens(t, m)
  BY <1>7 DEF ReadTo
<1>10. SectionsTo(t, Append(g[N].done, Piece(g[N].from, N)), N)
  BY <1>1, <1>8, <1>9, CloseSection
<1> QED  BY <1>4, <1>10 DEF N, Reads

-----------------------------------------------------------------------------
(* Paragraphs.                                                               *)

First(t) == {i \in 1..Len(t) : ~Blank(t, i) /\ (i = 1 \/ Blank(t, i - 1))}

(* The paragraph that begins at i ends at j.                                 *)
Ends(t, i, j) ==
  /\ j \in i..Len(t) /\ \A k \in i..j : ~Blank(t, k)
  /\ j = Len(t) \/ Blank(t, j + 1)

End(t, i) == CHOOSE j \in i..Len(t) : /\ \A k \in i..j : ~Blank(t, k)
                                      /\ (j = Len(t) \/ Blank(t, j + 1))

\* A paragraph ends.
LEMMA EndIs ==
  ASSUME NEW t, Len(t) \in Nat, NEW i \in 1..Len(t), ~Blank(t, i)
  PROVE  Ends(t, i, End(t, i))
<1> DEFINE N == Len(t)
           R == {j \in i..N : \A k \in i..j : ~Blank(t, k)}
<1>1. R \in SUBSET (1..N) /\ i \in R
  <2>1. i \in i..N /\ \A k \in i..i : k = i
    OBVIOUS
  <2> QED  BY <2>1
<1>2. PICK j \in R : \A k \in R : k <= j
  <2> HIDE DEF R
  <2> QED  BY <1>1, MaxExists
<1>3. j = N \/ Blank(t, j + 1)
  <2>1. SUFFICES ASSUME j # N, ~Blank(t, j + 1) PROVE FALSE
    OBVIOUS
  <2>2. j + 1 \in i..N /\ \A k \in i..(j + 1) : k \in i..j \/ k = j + 1
    BY <1>2, <2>1
  <2>3. j + 1 \in R
    BY <1>2, <2>1, <2>2
  <2> QED  BY <1>2, <2>3
<1>4. \E k \in i..Len(t) : (\A l \in i..k : ~Blank(t, l)) /\ (k = Len(t) \/ Blank(t, k + 1))
  BY <1>2, <1>3
<1> HIDE DEF R
<1> QED  BY <1>4 DEF Ends, End

\* A line with text is in a paragraph.
LEMMA InParagraph ==
  ASSUME NEW t, Len(t) \in Nat, NEW m \in 1..Len(t), ~Blank(t, m)
  PROVE  \E i \in First(t) : i <= m /\ \A k \in i..m : ~Blank(t, k)
<1> DEFINE Has(n) == \E i \in First(t) : i <= n /\ \A k \in i..n : ~Blank(t, k)
           T == {n \in Nat : n \in 1..Len(t) /\ ~Blank(t, n) => Has(n)}
<1>1. 0 \in T
  OBVIOUS
<1>2. ASSUME NEW n \in Nat, n \in T PROVE n + 1 \in T
  <2>1. SUFFICES ASSUME n + 1 \in 1..Len(t), ~Blank(t, n + 1) PROVE Has(n + 1)
    OBVIOUS
  <2>2. CASE n = 0 \/ Blank(t, n)
    <3>1. n + 1 \in First(t)
      BY <2>1, <2>2 DEF First
    <3>2. \A k \in (n + 1)..(n + 1) : k = n + 1
      OBVIOUS
    <3> QED  BY <2>1, <3>1, <3>2
  <2>3. CASE n # 0 /\ ~Blank(t, n)
    <3>1. n \in 1..Len(t) /\ ~Blank(t, n)
      BY <2>1, <2>3
    <3>2. PICK i \in First(t) : i <= n /\ \A k \in i..n : ~Blank(t, k)
      BY <1>2, <3>1
    <3>3. i \in 1..Len(t)
      BY DEF First
    <3>4. i <= n + 1 /\ \A k \in i..(n + 1) : k \in i..n \/ k = n + 1
      BY <3>2, <3>3
    <3>5. \A k \in i..(n + 1) : ~Blank(t, k)
      BY <2>1, <3>2, <3>4
    <3> QED  BY <3>4, <3>5
  <2> QED  BY <2>2, <2>3
<1>3. Nat \subseteq T
  <2> HIDE DEF T
  <2> QED  BY <1>1, <1>2, NatSet
<1>4. m \in T
  BY <1>3
<1> QED  BY <1>4

\* Paragraphs keeps the lines with text.
LEMMA ParagraphsIs ==
  ASSUME NEW t, Len(t) \in Nat
  PROVE  InOrder(Paragraphs(t), 1, Len(t)) /\ Covers(t, Paragraphs(t), 1, Len(t))
<1> DEFINE N == Len(t)
           s == Ascending(First(t))
           c == Paragraphs(t)
<1>1. First(t) \in SUBSET (1..N)
  BY DEF First
<1>2. PICK n \in Nat : /\ s \in [1..n -> First(t)] /\ Len(s) = n /\ Increasing(s, n)
                       /\ \A m \in First(t) : \E k \in 1..n : s[k] = m
  BY <1>1, AscendingIs
<1>3. c = [k \in 1..n |-> Piece(s[k], End(t, s[k]))]
  BY <1>2 DEF Paragraphs, First, End
<1> HIDE DEF c, s
<1>4. ASSUME NEW k \in 1..n
      PROVE  s[k] \in First(t) /\ s[k] \in 1..N /\ ~Blank(t, s[k]) /\ Ends(t, s[k], End(t, s[k]))
  <2>1. s[k] \in First(t)
    BY <1>2
  <2>2. s[k] \in 1..N /\ ~Blank(t, s[k])
    BY <2>1 DEF First
  <2> QED  BY <2>1, <2>2, EndIs
<1>5. ASSUME NEW k \in 1..n
      PROVE  s[k] \in Int /\ End(t, s[k]) \in Int /\ s[k] <= End(t, s[k]) /\ End(t, s[k]) <= N
  BY <1>4 DEF Ends
<1>6. c \in Seq(Interval) /\ Len(c) = n /\ \A k \in 1..n : c[k].from = s[k] /\ c[k].to = End(t, s[k])
  <2>1. \A k \in 1..n : /\ Piece(s[k], End(t, s[k])) \in Interval
                        /\ Piece(s[k], End(t, s[k])).from = s[k]
                        /\ Piece(s[k], End(t, s[k])).to = End(t, s[k])
    BY <1>5, PieceIs
  <2> QED  BY <1>3, <2>1
<1>7. ASSUME NEW k \in 1..n, NEW l \in 1..n, k < l PROVE c[k].to < c[l].from
  <2>1. SUFFICES ASSUME s[l] <= End(t, s[k]) PROVE FALSE
    BY <1>5, <1>6
  <2>2. s[k] < s[l] /\ s[k] \in 1..N /\ s[l] \in 1..N
    BY <1>2, <1>4, <1>7 DEF Increasing
  <2>3. s[l] - 1 \in s[k]..End(t, s[k]) /\ s[l] # 1
    BY <1>5, <2>1, <2>2
  <2>4. ~Blank(t, s[l] - 1)
    BY <1>4, <2>3 DEF Ends
  <2>5. s[l] = 1 \/ Blank(t, s[l] - 1)
    BY <1>4 DEF First
  <2> QED  BY <2>3, <2>4, <2>5
<1>8. InOrder(c, 1, N)
  <2>1. \A k \in 1..n : 1 <= s[k]
    BY <1>4
  <2>2. \A k \in 1..Len(c) : 1 <= c[k].from /\ c[k].from <= c[k].to /\ c[k].to <= N
    BY <1>5, <1>6, <2>1
  <2>3. c \in Seq(Interval) /\ 1 \in Int /\ N \in Int
    BY <1>6
  <2>4. \A k, l \in 1..Len(c) : k < l => c[k].to < c[l].from
    BY <1>6, <1>7
  <2> HIDE DEF N
  <2> QED  BY <2>2, <2>3, <2>4, Disjoint
<1>9. ASSUME NEW m \in 1..N, ~Blank(t, m)
      PROVE  \E k \in 1..n : c[k].from <= m /\ m <= c[k].to
  <2>1. PICK i \in First(t) : i <= m /\ \A k \in i..m : ~Blank(t, k)
    BY <1>9, InParagraph
  <2>2. PICK k \in 1..n : s[k] = i
    BY <1>2
  <2>3. m <= End(t, i)
    <3>1. SUFFICES ASSUME End(t, i) < m PROVE FALSE
      BY <1>5, <2>2
    <3>2. End(t, i) \in Int /\ i <= End(t, i) /\ i \in Int
      BY <1>5, <2>2
    <3>3. End(t, i) # N /\ End(t, i) + 1 \in i..m
      BY <3>1, <3>2
    <3>4. End(t, i) = N \/ Blank(t, End(t, i) + 1)
      BY <1>4, <2>2 DEF Ends
    <3> QED  BY <2>1, <3>3, <3>4
  <2> QED  BY <1>6, <2>1, <2>2, <2>3
<1>10. Covers(t, c, 1, N)
  BY <1>6, <1>9 DEF Covers
<1> QED  BY <1>8, <1>10 DEF c

-----------------------------------------------------------------------------
(* The chunks.                                                               *)

(* What takes the place of a raw chunk p.                                    *)
Group(t, cat, first, p) == IF IsSplit(t, cat, p) THEN SplitText(t, p, first) ELSE <<p>>

ChunksOf(t, cat, first, raw) ==
  FlattenSeq([k \in 1..Len(raw) |-> Group(t, cat, first, raw[k])])

Short(t, cat, p) == p.from = p.to \/ ~TooLong(t, cat, p)

OpensFirst(t, p) == \A m \in p.from..p.to : Opens(t, m) => m = p.from

(* A raw chunk can be put within the limit.                                  *)
CanSplit(t, cat, first, p) == IsSplit(t, cat, p) => Splittable(t, cat, p, first)

\* The splitter keeps the text of an interval, in its order.
LEMMA SplitTextIs ==
  ASSUME NEW t, NEW cat, NEW N \in Nat, NEW first \in Firsts(N), NEW p \in Interval,
         1 <= p.from, p.from <= p.to, p.to <= N, Splittable(t, cat, p, first)
  PROVE  /\ Ordered(SplitText(t, p, first), p.from, p.to, Common(t, cat))
         /\ Covers(t, SplitText(t, p, first), p.from, p.to)
         /\ \A q \in ToSet(SplitText(t, p, first)) : Short(t, cat, q)
<1> DEFINE c == CutAt(first, p.from, p.to)
<1>1. p.from \in Int /\ p.to \in Int
  BY DEF Interval
<1>2. Ordered(c, p.from, p.to, Common(t, cat)) /\ Covers(t, c, p.from, p.to)
  BY CutAtIs
<1>3. /\ Ordered(WithText(t, c), p.from, p.to, Common(t, cat))
      /\ Covers(t, WithText(t, c), p.from, p.to) /\ ToSet(WithText(t, c)) \subseteq ToSet(c)
  <2> HIDE DEF c
  <2> QED  BY <1>1, <1>2, WithTextIs
<1>4. ASSUME NEW q \in ToSet(c) PROVE Short(t, cat, q)
  <2>1. \A k \in 1..Len(c) : Short(t, cat, c[k])
    BY DEF Splittable, Short
  <2> HIDE DEF c
  <2>2. PICK k \in 1..Len(c) : c[k] = q
    BY <1>2, <1>4, ElementsIs DEF Ordered
  <2> QED  BY <2>1, <2>2
<1>5. SplitText(t, p, first) = WithText(t, c)
  BY DEF SplitText
<1> HIDE DEF c
<1> QED  BY <1>3, <1>4, <1>5

\* What takes the place of a raw chunk is its text, in order and not too long.
LEMMA GroupIs ==
  ASSUME NEW t, NEW cat, NEW N \in Nat, NEW first \in Firsts(N), NEW p \in Interval,
         1 <= p.from, p.from <= p.to, p.to <= N, CanSplit(t, cat, first, p)
  PROVE  /\ Ordered(Group(t, cat, first, p), p.from, p.to, Common(t, cat))
         /\ Covers(t, Group(t, cat, first, p), p.from, p.to)
         /\ \A q \in ToSet(Group(t, cat, first, p)) :
              /\ Short(t, cat, q) /\ p.from <= q.from /\ q.from <= q.to /\ q.to <= p.to
              /\ q \in Interval
<1> DEFINE u == Group(t, cat, first, p)
<1>1. p.from \in Int /\ p.to \in Int /\ p = Piece(p.from, p.to)
  BY DEF Interval, Piece
<1>2. Ordered(u, p.from, p.to, Common(t, cat)) /\ Covers(t, u, p.from, p.to)
  <2>1. CASE IsSplit(t, cat, p)
    BY <2>1, SplitTextIs DEF Group, CanSplit
  <2>2. CASE ~IsSplit(t, cat, p)
    <3>1. u = <<Piece(p.from, p.to)>>
      BY <1>1, <2>2 DEF Group
    <3> QED  BY <1>1, <3>1, SingleIs
  <2> QED  BY <2>1, <2>2
<1>3. ASSUME NEW q \in ToSet(u)
      PROVE  p.from <= q.from /\ q.from <= q.to /\ q.to <= p.to /\ q \in Interval
  <2> HIDE DEF u
  <2>1. PICK k \in 1..Len(u) : u[k] = q
    BY <1>2, ElementsIs DEF Ordered
  <2>2. u[k] \in Interval
    BY <1>2 DEF Ordered
  <2> QED  BY <1>2, <2>1, <2>2 DEF Ordered
<1>4. ASSUME NEW q \in ToSet(u) PROVE Short(t, cat, q)
  <2>1. CASE IsSplit(t, cat, p)
    BY <1>4, <2>1, SplitTextIs DEF Group, CanSplit
  <2>2. CASE ~IsSplit(t, cat, p)
    <3>1. u = <<Piece(p.from, p.to)>>
      BY <1>1, <2>2 DEF Group
    <3>2. ToSet(u) = {p}
      BY <1>1, <3>1, SingleIs
    <3> QED  BY <1>4, <2>2, <3>2 DEF Short, IsSplit
  <2> QED  BY <2>1, <2>2
<1> QED  BY <1>2, <1>3, <1>4

\* From raw chunks that are in order and cover the text to chunks that do.
LEMMA ChunksAre ==
  ASSUME NEW t, NEW cat, NEW N \in Nat, NEW first \in Firsts(N), NEW raw, InOrder(raw, 1, N),
         Covers(t, raw, 1, N), \A p \in ToSet(raw) : CanSplit(t, cat, first, p)
  PROVE  /\ Ordered(ChunksOf(t, cat, first, raw), 1, N, Common(t, cat))
         /\ Covers(t, ChunksOf(t, cat, first, raw), 1, N)
         /\ \A q \in ToSet(ChunksOf(t, cat, first, raw)) : Short(t, cat, q)
         /\ (\A p \in ToSet(raw) : OpensFirst(t, p)) =>
              \A q \in ToSet(ChunksOf(t, cat, first, raw)) : OpensFirst(t, q)
<1> DEFINE n == Len(raw)
           ss == [k \in 1..n |-> Group(t, cat, first, raw[k])]
           c == FlattenSeq(ss)
<1>1. raw \in Seq(Interval) /\ n \in Nat /\ \A k \in 1..n : raw[k] \in Interval /\ raw[k] \in ToSet(raw)
  BY ElementsIs DEF InOrder, Ordered
<1>2. ASSUME NEW k \in 1..n
      PROVE  /\ Ordered(ss[k], raw[k].from, raw[k].to, Common(t, cat))
             /\ Covers(t, ss[k], raw[k].from, raw[k].to)
             /\ \A q \in ToSet(ss[k]) :
                  /\ Short(t, cat, q) /\ q \in Interval
                  /\ raw[k].from <= q.from /\ q.from <= q.to /\ q.to <= raw[k].to
  <2>1. /\ raw[k] \in Interval /\ 1 <= raw[k].from /\ raw[k].from <= raw[k].to /\ raw[k].to <= N
        /\ CanSplit(t, cat, first, raw[k])
    BY <1>1 DEF InOrder, Ordered
  <2>2. ss[k] = Group(t, cat, first, raw[k])
    OBVIOUS
  <2> HIDE DEF ss, n
  <2> QED  BY <2>1, <2>2, GroupIs
<1>3. ss \in [1..n -> Seq(Interval)] /\ Within(ss, raw, Common(t, cat))
  <2>1. ss = [k \in 1..n |-> ss[k]]
    OBVIOUS
  <2>2. \A k \in 1..n : ss[k] \in Seq(Interval)
    BY <1>2 DEF InOrder, Ordered
  <2> HIDE DEF ss
  <2> QED  BY <1>2, <2>1, <2>2 DEF Within
<1>4. /\ Ordered(c, 1, N, Common(t, cat))
      /\ \A p : p \in ToSet(c) <=> \E k \in 1..n : p \in ToSet(ss[k])
  <2>1. n = Len(raw)
    OBVIOUS
  <2> HIDE DEF ss, n
  <2> QED  BY <1>1, <1>3, <2>1, FlattenInOrder
<1> HIDE DEF ss, c
<1>5. c \in Seq(Interval)
  BY <1>4 DEF InOrder, Ordered
<1>6. ASSUME NEW m \in 1..N, ~Blank(t, m)
      PROVE  \E k \in 1..Len(c) : c[k].from <= m /\ m <= c[k].to
  <2>1. PICK k \in 1..n : raw[k].from <= m /\ m <= raw[k].to
    BY <1>6 DEF Covers
  <2>2. m \in raw[k].from..raw[k].to
    <3>1. raw[k].from \in Int /\ raw[k].to \in Int
      BY <1>1 DEF Interval
    <3> QED  BY <2>1, <3>1
  <2>3. PICK l \in 1..Len(ss[k]) : ss[k][l].from <= m /\ m <= ss[k][l].to
    BY <1>2, <1>6, <2>2 DEF Covers
  <2>4. ss[k][l] \in ToSet(ss[k])
    <3>1. ss[k] \in Seq(Interval)
      BY <1>2 DEF InOrder, Ordered
    <3> QED  BY <3>1, ElementsIs
  <2>5. ss[k][l] \in ToSet(c)
    BY <1>4, <2>4
  <2>6. PICK j \in 1..Len(c) : c[j] = ss[k][l]
    BY <1>5, <2>5, ElementsIs
  <2> QED  BY <2>3, <2>6
<1>7. \A q \in ToSet(c) : Short(t, cat, q)
  BY <1>2, <1>4
<1>8. ASSUME \A p \in ToSet(raw) : OpensFirst(t, p), NEW q \in ToSet(c),
             NEW m \in q.from..q.to, Opens(t, m)
      PROVE  m = q.from
  <2>1. PICK k \in 1..n : q \in ToSet(ss[k])
    BY <1>4, <1>8
  <2>2. /\ raw[k].from <= q.from /\ q.to <= raw[k].to
        /\ q.from \in Int /\ q.to \in Int /\ raw[k].from \in Int /\ raw[k].to \in Int
    <3>1. q \in Interval /\ raw[k] \in Interval
      BY <1>1, <1>2, <2>1
    <3> QED  BY <1>2, <2>1, <3>1 DEF Interval
  <2>3. m \in raw[k].from..raw[k].to /\ m \in Int /\ q.from <= m
    BY <2>2
  <2>4. m = raw[k].from
    BY <1>1, <1>8, <2>3 DEF OpensFirst
  <2> QED  BY <2>2, <2>3, <2>4
<1>9. ChunksOf(t, cat, first, raw) = c
  BY DEF ChunksOf, c, ss
<1>10. Covers(t, c, 1, N)
  BY <1>6 DEF Covers
<1> QED  BY <1>4, <1>7, <1>8, <1>9, <1>10 DEF OpensFirst

(* The splitter's choices are such that what is split is within the limits.  *)
Cuts(t, cat, first) ==
  /\ first \in Firsts(Len(t))
  /\ \A p \in ToSet(Raw(t, cat)) : CanSplit(t, cat, first, p)

\* What a strategy gives is in order and covers the text.
LEMMA RawIs ==
  ASSUME NEW t \in Seq(Line), Len(t) # 0, NEW cat \in Categories
  PROVE  /\ InOrder(Raw(t, cat), 1, Len(t)) /\ Covers(t, Raw(t, cat), 1, Len(t))
         /\ cat \in {"markdown", "code"} => \A p \in ToSet(Raw(t, cat)) : OpensFirst(t, p)
<1>1. CASE cat \in {"markdown", "code"}
  <2>1. Raw(t, cat) = Sections(t)
    BY <1>1 DEF Raw
  <2> QED  BY <2>1, SectionsIs DEF SectionsTo, OpensFirst
<1>2. CASE cat = "pdf"
  <2>1. Raw(t, cat) = Paragraphs(t) /\ Len(t) \in Nat
    BY <1>2 DEF Raw
  <2> QED  BY <1>2, <2>1, ParagraphsIs
<1>3. CASE cat = "generic"
  <2>1. Raw(t, cat) = <<Piece(1, Len(t))>> /\ Len(t) \in Int /\ 1 <= Len(t) /\ 1 \in Int
    BY <1>3 DEF Raw
  <2>2. InOrder(<<Piece(1, Len(t))>>, 1, Len(t)) /\ Covers(t, <<Piece(1, Len(t))>>, 1, Len(t))
    BY <2>1, SingleIs
  <2> QED  BY <1>3, <2>1, <2>2
<1> QED  BY <1>1, <1>2, <1>3 DEF Categories

(* The chunks c are the text t: what ChunksCoverText says of a call.         *)
CoverText(t, cat, c) ==
  /\ \A k, l \in 1..Len(c) : k < l =>
       /\ c[k].from < c[l].from /\ c[k].to < c[l].to
       /\ c[l].from <= c[k].to => Length(t, cat, Piece(c[l].from, c[k].to)) <= ChunkOverlap
  /\ \A i \in 1..Len(t) : ~Blank(t, i) => \E p \in ToSet(c) : i \in p.from..p.to
  /\ \A p \in ToSet(c) :
       /\ p.from = p.to \/ ~TooLong(t, cat, p)
       /\ cat \in {"markdown", "code"} => \A i \in p.from..p.to : Opens(t, i) => i = p.from
  /\ BlankText(t) <=> c = <<>>

\* A blank text has no chunk.
LEMMA BlankIsCovered ==
  ASSUME NEW t, NEW cat, BlankText(t)
  PROVE  CoverText(t, cat, <<>>)
<1>1. Len(<<>>) = 0 /\ ToSet(<<>>) = {} /\ 1..0 = {}
  BY DEF ToSet
<1> QED  BY <1>1 DEF CoverText, BlankText

\* The chunks of any other text are the text.
LEMMA TextIsCovered ==
  ASSUME NEW t \in Seq(Line), ~BlankText(t), NEW cat \in Categories,
         NEW first, Cuts(t, cat, first)
  PROVE  CoverText(t, cat, ChunksOf(t, cat, first, Raw(t, cat)))
<1> DEFINE N == Len(t)
           raw == Raw(t, cat)
           c == ChunksOf(t, cat, first, raw)
<1>1. N \in Nat /\ N # 0 /\ first \in Firsts(N)
  BY DEF Cuts, BlankText
<1>2. /\ InOrder(raw, 1, N) /\ Covers(t, raw, 1, N)
      /\ \A p \in ToSet(raw) : CanSplit(t, cat, first, p)
      /\ cat \in {"markdown", "code"} => \A p \in ToSet(raw) : OpensFirst(t, p)
  BY <1>1, RawIs DEF Cuts
<1> HIDE DEF N, raw
<1>3. /\ Ordered(c, 1, N, Common(t, cat)) /\ Covers(t, c, 1, N)
      /\ \A q \in ToSet(c) : Short(t, cat, q)
      /\ cat \in {"markdown", "code"} => \A q \in ToSet(c) : OpensFirst(t, q)
  BY <1>1, <1>2, ChunksAre
<1> HIDE DEF c
<1>4. c \in Seq(Interval) /\ Len(c) \in Nat
  BY <1>3 DEF Ordered
<1>5. ASSUME NEW k \in 1..Len(c), NEW l \in 1..Len(c), k < l
      PROVE  /\ c[k].from < c[l].from /\ c[k].to < c[l].to
             /\ c[l].from <= c[k].to => Length(t, cat, Piece(c[l].from, c[k].to)) <= ChunkOverlap
  BY <1>3, <1>5 DEF Ordered, Common
<1>6. ASSUME NEW i \in 1..N, ~Blank(t, i) PROVE \E p \in ToSet(c) : i \in p.from..p.to
  <2>1. PICK k \in 1..Len(c) : c[k].from <= i /\ i <= c[k].to
    BY <1>3, <1>6 DEF Covers
  <2>2. c[k] \in ToSet(c) /\ c[k] \in Interval
    BY <1>4, ElementsIs
  <2>3. i \in c[k].from..c[k].to
    BY <2>1, <2>2 DEF Interval
  <2> QED  BY <2>2, <2>3
<1>7. c # <<>>
  <2>1. PICK i \in 1..N : ~Blank(t, i)
    BY DEF BlankText, N
  <2>2. PICK p \in ToSet(c) : i \in p.from..p.to
    BY <1>6, <2>1
  <2>3. ToSet(<<>>) = {}
    BY DEF ToSet
  <2> QED  BY <2>2, <2>3
<1>8. \A p \in ToSet(c) :
        /\ p.from = p.to \/ ~TooLong(t, cat, p)
        /\ cat \in {"markdown", "code"} => \A i \in p.from..p.to : Opens(t, i) => i = p.from
  BY <1>3 DEF Short, OpensFirst
<1> QED  BY <1>5, <1>6, <1>7, <1>8 DEF CoverText, N, c, raw

(* Whatever a text, its file type and the places where the splitter cuts, the*)
(* chunks of chunk_document are the text, in its order, within the limit,    *)
(* repeat no more than the overlap, and a section begins with its first line.*)
THEOREM ChunksAreText == ChunkerSpec => []ChunksCoverText
<1>1. ChunkerInit => ChunksCoverText
  BY DEF ChunkerInit, ChunksCoverText
<1>2. ChunksCoverText /\ [ChunkDocument]_chunkerVars => ChunksCoverText'
  <2>1. ASSUME ChunkDocument PROVE ChunksCoverText'
    <3>1. PICK t \in Texts, cat \in Categories :
            /\ text' = t /\ category' = cat
            /\ \/ BlankText(t) /\ chunks' = <<>>
               \/ ~BlankText(t) /\ \E first \in Firsts(Len(t)) :
                    /\ \A p \in ToSet(Raw(t, cat)) :
                         IsSplit(t, cat, p) => Splittable(t, cat, p, first)
                    /\ chunks' = ChunksOf(t, cat, first, Raw(t, cat))
      BY <2>1 DEF ChunkDocument, ChunksOf, Group
    <3>2. t \in Seq(Line)
      BY ChunkerAssumption
    <3>3. \E c : chunks' = c /\ CoverText(t, cat, c)
      <4>1. CASE BlankText(t)
        BY <3>1, <4>1, BlankIsCovered
      <4>2. CASE ~BlankText(t)
        <5>1. PICK first \in Firsts(Len(t)) :
                /\ \A p \in ToSet(Raw(t, cat)) :
                     IsSplit(t, cat, p) => Splittable(t, cat, p, first)
                /\ chunks' = ChunksOf(t, cat, first, Raw(t, cat))
          BY <3>1, <4>2
        <5> QED  BY <3>2, <4>2, <5>1, TextIsCovered DEF Cuts, CanSplit
      <4> QED  BY <4>1, <4>2
    <3>4. CoverText(text, category, chunks)'
      BY <3>1, <3>3 DEF CoverText
    <3> QED  BY <3>4 DEF CoverText, ChunksCoverText
  <2>2. ASSUME UNCHANGED chunkerVars, ChunksCoverText PROVE ChunksCoverText'
    BY <2>2 DEF chunkerVars, ChunksCoverText
  <2> QED  BY <2>1, <2>2
<1> QED  BY <1>1, <1>2, PTL DEF ChunkerSpec
=============================================================================
