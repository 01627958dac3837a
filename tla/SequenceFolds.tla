--------------------------- MODULE SequenceFolds ---------------------------
(***************************************************************************)
(* Lemmas about folds over finite sequences, for the components that read  *)
(* their data by one: the page's reader, which scans bytes (ChatStream),   *)
(* and the chunker, which reads lines (Chunker).                           *)
(*                                                                         *)
(* The step of a fold is here a function op on pairs of a value and a      *)
(* position, and an induction is about a set of numbers, so that a fact    *)
(* can be cited without substituting an operator.                          *)
(***************************************************************************)
EXTENDS Integers, Sequences, FiniteSets, SequencesExt, WellFoundedInduction, TLAPS

(* Induction on the natural numbers: a set that holds 0, and with a number   *)
(* the next one, holds all of them.                                          *)
LEMMA NatSet ==
  ASSUME NEW T, 0 \in T, \A n \in Nat : n \in T => n + 1 \in T
  PROVE  Nat \subseteq T
<1> DEFINE U == Nat \ T
           R == {ss \in Nat \X Nat : ss[1] < ss[2]}
<1>1. SUFFICES ASSUME U # {} PROVE FALSE
  OBVIOUS
<1>2. PICK x \in U : \A y \in U : <<y, x>> \notin R
  <2>1. IsWellFoundedOn(R, Nat)
    BY NatLessThanWellFounded DEF OpToRel
  <2>2. U \subseteq Nat
    OBVIOUS
  <2> HIDE DEF U, R
  <2> QED  BY <1>1, <2>1, <2>2, WFMin
<1>3. x \in Nat /\ x # 0 /\ x - 1 \in Nat /\ x = (x - 1) + 1
  OBVIOUS
<1>4. x - 1 \notin T
  BY <1>3
<1>5. <<x - 1, x>> \in R
  BY <1>3
<1> QED  BY <1>2, <1>3, <1>4, <1>5

\* The greatest element of a set of integers is its Max.
LEMMA MaxIs ==
  ASSUME NEW S \in SUBSET Int, NEW m \in S, \A y \in S : y <= m
  PROVE  Max(S) = m
<1>1. Max(S) \in S /\ \A y \in S : Max(S) >= y
  BY DEF Max
<1>2. Max(S) \in Int /\ m \in Int /\ Max(S) >= m /\ Max(S) <= m
  BY <1>1
<1> QED  BY <1>2

\* A non-empty set of positions has a Max.
LEMMA MaxExists ==
  ASSUME NEW N \in Nat, NEW S \in SUBSET (1..N), S # {}
  PROVE  Max(S) \in S /\ \A y \in S : y <= Max(S)
<1> DEFINE Has(n) == \A s \in SUBSET (1..n) : s # {} => \E m \in s : \A y \in s : y <= m
           T == {n \in Nat : Has(n)}
<1>1. 0 \in T
  <2>1. \A s \in SUBSET (1..0) : s = {}
    OBVIOUS
  <2> QED  BY <2>1
<1>2. ASSUME NEW n \in Nat, n \in T PROVE n + 1 \in T
  <2>1. SUFFICES ASSUME NEW s \in SUBSET (1..(n + 1)), s # {}
                 PROVE  \E m \in s : \A y \in s : y <= m
    OBVIOUS
  <2>2. CASE n + 1 \in s
    BY <2>2
  <2>3. CASE n + 1 \notin s
    <3>1. s \in SUBSET (1..n) /\ Has(n)
      BY <1>2, <2>3
    <3> QED  BY <2>1, <3>1
  <2> QED  BY <2>2, <2>3
<1>3. Has(N)
  <2>1. Nat \subseteq T
    <3> HIDE DEF T
    <3> QED  BY <1>1, <1>2, NatSet
  <2> QED  BY <2>1
<1>4. PICK m \in S : \A y \in S : y <= m
  BY <1>3
<1>5. Max(S) = m
  BY <1>4, MaxIs
<1> QED  BY <1>4, <1>5

\* The first k of N positions.
LEMMA PrefixSet ==
  ASSUME NEW N \in Nat, NEW k \in 1..N
  PROVE  /\ 1..k \in SUBSET (1..N) /\ 1..k # {} /\ Max(1..k) = k
         /\ (1..k) \ {k} = 1..(k - 1)
<1>1. 1..k \in SUBSET Int /\ k \in 1..k /\ \A y \in 1..k : y <= k
  OBVIOUS
<1>2. Max(1..k) = k
  BY <1>1, MaxIs
<1> QED  BY <1>1, <1>2

-----------------------------------------------------------------------------
(* it is the value of a fold on every set of positions: that of the set      *)
(* without its greatest position, and a step at that position.               *)
Folds(n, base, op, it) ==
  \A s \in SUBSET (1..n) :
    it[s] = IF s = {} THEN base ELSE op[<<it[s \ {Max(s)}], Max(s)>>]

\* The recursion of a fold has a solution, whatever its step.
LEMMA FoldExists ==
  ASSUME NEW A, NEW base \in A, NEW N \in Nat, NEW op \in [A \X (1..N) -> A]
  PROVE  \E it \in [SUBSET (1..N) -> A] : Folds(N, base, op, it)
<1> DEFINE Has(n) == \E it \in [SUBSET (1..n) -> A] : Folds(n, base, op, it)
           T == {n \in Nat : n <= N => Has(n)}
<1> HIDE DEF Has
<1>1. 0 \in T
  <2> DEFINE it == [s \in SUBSET (1..0) |-> base]
  <2>1. \A s \in SUBSET (1..0) : s = {}
    OBVIOUS
  <2>2. Folds(0, base, op, it) /\ it \in [SUBSET (1..0) -> A]
    BY <2>1 DEF Folds
  <2> HIDE DEF it
  <2> QED  BY <2>2 DEF Has
<1>2. ASSUME NEW n \in Nat, n \in T PROVE n + 1 \in T
  <2> SUFFICES ASSUME n + 1 <= N
               PROVE  Has(n + 1)
    OBVIOUS
  <2>1. PICK f \in [SUBSET (1..n) -> A] : Folds(n, base, op, f)
    <3>1. Has(n)
      BY <1>2
    <3> QED  BY <3>1 DEF Has
  <2> DEFINE g == [s \in SUBSET (1..(n + 1)) |->
                     IF n + 1 \in s THEN op[<<f[s \ {n + 1}], n + 1>>] ELSE f[s]]
  <2> HIDE DEF T
  <2>2. ASSUME NEW s \in SUBSET (1..(n + 1)), n + 1 \in s
        PROVE  /\ Max(s) = n + 1 /\ s \ {n + 1} \in SUBSET (1..n)
               /\ f[s \ {n + 1}] \in A /\ g[s \ {n + 1}] = f[s \ {n + 1}]
               /\ g[s] = op[<<f[s \ {n + 1}], n + 1>>]
    <3>1. Max(s) = n + 1
      BY <2>2, MaxIs
    <3>2. s \ {n + 1} \in SUBSET (1..n) /\ s \ {n + 1} \in SUBSET (1..(n + 1))
      BY <2>2
    <3> QED  BY <2>2, <3>1, <3>2
  <2>3. ASSUME NEW s \in SUBSET (1..(n + 1)), n + 1 \notin s
        PROVE  s \in SUBSET (1..n) /\ g[s] = f[s] /\ f[s] \in A
    BY <2>3
  <2>4. g \in [SUBSET (1..(n + 1)) -> A]
    <3>1. n + 1 \in 1..N
      OBVIOUS
    <3>2. ASSUME NEW s \in SUBSET (1..(n + 1)) PROVE g[s] \in A
      <4>1. CASE n + 1 \in s
        <5>1. <<f[s \ {n + 1}], n + 1>> \in A \X (1..N)
          BY <2>2, <3>1, <4>1
        <5> QED  BY <2>2, <4>1, <5>1
      <4>2. CASE n + 1 \notin s
        BY <2>3, <4>2
      <4> QED  BY <4>1, <4>2
    <3> QED  BY <3>2
  <2>5. ASSUME NEW s \in SUBSET (1..(n + 1))
        PROVE  g[s] = IF s = {} THEN base ELSE op[<<g[s \ {Max(s)}], Max(s)>>]
    <3>1. CASE n + 1 \in s
      BY <2>2, <3>1
    <3>2. CASE n + 1 \notin s
      <4>1. CASE s = {}
        BY <2>1, <2>3, <3>2, <4>1 DEF Folds
      <4>2. CASE s # {}
        <5>1. n + 1 \notin s \ {Max(s)} /\ s \ {Max(s)} \in SUBSET (1..(n + 1))
          BY <3>2
        <5>2. g[s \ {Max(s)}] = f[s \ {Max(s)}]
          BY <2>3, <5>1
        <5> QED  BY <2>1, <2>3, <3>2, <4>2, <5>2 DEF Folds
      <4> QED  BY <4>1, <4>2
    <3> QED  BY <3>1, <3>2
  <2> HIDE DEF g
  <2> QED  BY <2>4, <2>5 DEF Folds, Has
<1>3. Nat \subseteq T
  <2> HIDE DEF T
  <2> QED  BY <1>1, <1>2, NatSet
<1>4. PICK it \in [SUBSET (1..N) -> A] : Folds(N, base, op, it)
  <2>1. Has(N)
    BY <1>3
  <2> QED  BY <2>1 DEF Has
<1> QED  BY <1>4

(* The values of a fold on the first positions: none of them, one, and so on.*)
FoldRun(n, it) == [k \in 0..n |-> it[1..k]]

(* A fold begins with the base, takes the step of every position in turn,    *)
(* and stays where the step stays.                                           *)
LEMMA FoldRuns ==
  ASSUME NEW A, NEW base \in A, NEW N \in Nat, NEW op, NEW it,
         \A a \in A : \A i \in 1..N : op[<<a, i>>] \in A,
         Folds(N, base, op, it)
  PROVE  /\ FoldRun(N, it) \in [0..N -> A] /\ FoldRun(N, it)[0] = base
         /\ \A k \in 1..N : FoldRun(N, it)[k] = op[<<FoldRun(N, it)[k - 1], k>>]
<1> DEFINE g == FoldRun(N, it)
<1> USE DEF FoldRun
<1>1. g[0] = base
  <2>1. 1..0 = {} /\ {} \in SUBSET (1..N) /\ 0 \in 0..N
    OBVIOUS
  <2>2. it[{}] = base
    BY <2>1 DEF Folds
  <2> QED  BY <2>1, <2>2
<1>2. ASSUME NEW k \in 1..N PROVE g[k] = op[<<g[k - 1], k>>]
  <2>1. /\ 1..k \in SUBSET (1..N) /\ 1..k # {} /\ Max(1..k) = k
        /\ (1..k) \ {k} = 1..(k - 1) /\ k \in 0..N /\ k - 1 \in 0..N
    BY PrefixSet
  <2>2. it[1..k] = op[<<it[1..(k - 1)], k>>]
    BY <2>1 DEF Folds
  <2> QED  BY <2>1, <2>2
<1> HIDE DEF g
<1>3. \A k \in 0..N : g[k] \in A
  <2> DEFINE T == {k \in Nat : k <= N => g[k] \in A}
  <2>1. 0 \in T
    BY <1>1
  <2>2. ASSUME NEW k \in Nat, k \in T PROVE k + 1 \in T
    <3>1. SUFFICES ASSUME k + 1 <= N PROVE g[k + 1] \in A
      OBVIOUS
    <3>2. k + 1 \in 1..N /\ (k + 1) - 1 = k /\ g[k] \in A
      BY <2>2, <3>1
    <3>3. g[k + 1] = op[<<g[k], k + 1>>]
      BY <1>2, <3>2
    <3> QED  BY <3>2, <3>3
  <2>3. Nat \subseteq T
    <3> HIDE DEF T
    <3> QED  BY <2>1, <2>2, NatSet
  <2> QED  BY <2>3
<1>4. g \in [0..N -> A]
  BY <1>3 DEF g
<1> QED  BY <1>1, <1>2, <1>4 DEF g

(* g begins with the base and takes the step of every position in turn.      *)
Steps(g, n, base, op) == g[0] = base /\ \A k \in 1..n : g[k] = op[<<g[k - 1], k>>]

\* There are such values, whatever the step.
LEMMA StepsExist ==
  ASSUME NEW A, NEW base \in A, NEW N \in Nat, NEW op \in [A \X (1..N) -> A]
  PROVE  \E g \in [0..N -> A] : Steps(g, N, base, op)
<1>1. PICK it \in [SUBSET (1..N) -> A] : Folds(N, base, op, it)
  BY FoldExists
<1>2. \A a \in A : \A i \in 1..N : op[<<a, i>>] \in A
  OBVIOUS
<1> QED  BY <1>1, <1>2, FoldRuns DEF Steps

-----------------------------------------------------------------------------
(* f[k] is the first k sequences of ss, one after the other.                 *)
Joins(f, ss, n) == f[0] = <<>> /\ \A k \in 1..n : f[k] = f[k - 1] \o ss[k]

\* FlattenSeq puts sequences one after the other.
LEMMA FlattenIs ==
  ASSUME NEW X, NEW n \in Nat, NEW ss \in [1..n -> Seq(X)]
  PROVE  \E f \in [0..n -> Seq(X)] : Joins(f, ss, n) /\ FlattenSeq(ss) = f[n]
<1> DEFINE op == [x \in Seq(X) \X (1..n) |-> x[1] \o ss[x[2]]]
           Flat(h) == h = [i \in 1..n |-> IF i = 1 THEN ss[i] ELSE h[i - 1] \o ss[i]]
           flat == CHOOSE h : Flat(h)
<1>1. ASSUME NEW a \in Seq(X), NEW i \in 1..n
      PROVE  op[<<a, i>>] = a \o ss[i] /\ op[<<a, i>>] \in Seq(X)
  <2>1. <<a, i>> \in Seq(X) \X (1..n) /\ <<a, i>>[1] = a /\ <<a, i>>[2] = i
    OBVIOUS
  <2>2. op[<<a, i>>] = a \o ss[i]
    BY <2>1
  <2>3. a \o ss[i] \in Seq(X)
    <3>1. ss[i] \in Seq(X)
      OBVIOUS
    <3> QED  BY <3>1
  <2> QED  BY <2>2, <2>3
<1>2. op \in [Seq(X) \X (1..n) -> Seq(X)]
  OBVIOUS
<1>3. <<>> \in Seq(X)
  OBVIOUS
<1> HIDE DEF op
<1>4. PICK f \in [0..n -> Seq(X)] : Steps(f, n, <<>>, op)
  BY <1>2, <1>3, StepsExist
<1>5. f[0] = <<>> /\ \A k \in 1..n : f[k] = op[<<f[k - 1], k>>]
  BY <1>4 DEF Steps
<1>6. \A k \in 1..n : f[k] = f[k - 1] \o ss[k]
  <2>1. \A k \in 1..n : k - 1 \in 0..n
    OBVIOUS
  <2> QED  BY <1>1, <1>5, <2>1
<1>7. n # 0 => f[1] = ss[1]
  <2>1. SUFFICES ASSUME 1 \in 1..n PROVE f[1] = ss[1]
    OBVIOUS
  <2>2. f[1] = f[0] \o ss[1] /\ ss[1] \in Seq(X)
    BY <1>6, <2>1
  <2> QED  BY <1>5, <2>2
<1>8. Flat([i \in 1..n |-> f[i]])
  <2>1. ASSUME NEW i \in 1..n, i # 1 PROVE i - 1 \in 1..n
    BY <2>1
  <2>2. ASSUME NEW i \in 1..n, i = 1 PROVE f[i] = ss[i]
    BY <1>7, <2>2
  <2> QED  BY <1>6, <2>1, <2>2
<1>9. Flat(flat)
  BY <1>8
<1> HIDE DEF flat
<1>10. ASSUME n # 0 PROVE flat[n] = f[n]
  <2> DEFINE T == {k \in Nat : k \in 1..n => flat[k] = f[k]}
  <2>1. 0 \in T
    OBVIOUS
  <2>2. ASSUME NEW k \in Nat, k \in T PROVE k + 1 \in T
    <3>1. SUFFICES ASSUME k + 1 \in 1..n PROVE flat[k + 1] = f[k + 1]
      OBVIOUS
    <3>2. CASE k = 0
      <4>1. flat[1] = ss[1]
        BY <1>9, <3>1, <3>2
      <4> QED  BY <1>7, <1>10, <3>2, <4>1
    <3>3. CASE k # 0
      <4>1. k \in 1..n /\ (k + 1) - 1 = k /\ k + 1 # 1
        BY <3>1, <3>3
      <4>2. flat[k + 1] = flat[k] \o ss[k + 1]
        BY <1>9, <3>1, <4>1
      <4>3. f[k + 1] = f[k] \o ss[k + 1]
        BY <1>6, <3>1, <4>1
      <4> QED  BY <2>2, <4>1, <4>2, <4>3
    <3> QED  BY <3>2, <3>3
  <2>3. Nat \subseteq T
    <3> HIDE DEF T
    <3> QED  BY <2>1, <2>2, NatSet
  <2> QED  BY <1>10, <2>3
<1>11. Len(ss) = n
  OBVIOUS
<1>12. FlattenSeq(ss) = f[n]
  <2>1. CASE n = 0
    <3>1. FlattenSeq(ss) = ss
      BY <1>11, <2>1 DEF FlattenSeq
    <3>2. ss = <<>>
      BY <2>1
    <3> QED  BY <1>5, <2>1, <3>1, <3>2
  <2>2. CASE n # 0
    <3>1. FlattenSeq(ss) = flat[n]
      BY <1>11, <2>2 DEF FlattenSeq, flat
    <3> QED  BY <1>10, <2>2, <3>1
  <2> QED  BY <2>1, <2>2
<1> QED  BY <1>5, <1>6, <1>12 DEF Joins
=============================================================================
