------------------------------- MODULE Induction -------------------------------
(***************************************************************************)
(* Induction on the natural numbers, as a fact about sets instead of one   *)
(* about predicates: it follows from WFMin and NatLessThanWellFounded of   *)
(* the library.  With it, functions can be defined and sums taken by       *)
(* recursion: the weights of a number's bytes in Wire, and SumFunction,    *)
(* which Locker counts its hats with.  The same for sequences, and so for  *)
(* FlattenSeq and what PathSanitizer replaces characters with.             *)
(***************************************************************************)
EXTENDS Integers, Functions, SequencesExt, FiniteSetTheorems, SequenceTheorems,
        WellFoundedInduction, TLAPS

(* Every set of natural numbers has a least one. *)
LEMMA LeastNatural ==
  ASSUME NEW T, T \subseteq Nat, T # {}
  PROVE  \E n \in T : \A m \in T : n <= m
<1> DEFINE Below == {ss \in Nat \X Nat : ss[1] < ss[2]}
<1>1. IsWellFoundedOn(Below, Nat)
  BY NatLessThanWellFounded DEF OpToRel
<1>2. PICK n \in T : \A m \in T : <<m, n>> \notin Below
  <2> HIDE DEF Below
  <2> QED
    BY <1>1, WFMin
<1>3. ASSUME NEW m \in T PROVE n <= m
  <2>1. n \in Nat /\ m \in Nat /\ ~(m < n)
    BY <1>2
  <2> QED
    BY <2>1
<1> QED
  BY <1>3

(* A set with 0 in it, and with each number the next, has them all. *)
LEMMA SetInduction ==
  ASSUME NEW T, 0 \in T, \A n \in Nat : n \in T => n + 1 \in T
  PROVE  Nat \subseteq T
<1> SUFFICES ASSUME Nat \ T # {} PROVE FALSE
  OBVIOUS
<1>1. PICK n \in Nat \ T : \A m \in Nat \ T : n <= m
  BY LeastNatural
<1>2. n # 0
  OBVIOUS
<1>3. n - 1 \in Nat /\ n - 1 \in T
  BY <1>1, <1>2
<1>4. (n - 1) + 1 \in T
  BY <1>3
<1> QED
  BY <1>1, <1>4

(* The powers of b: f with IsUpTo(f, n) are those up to the n-th. *)
LEMMA PowersExist ==
  ASSUME NEW b \in Nat
  PROVE  \E w \in [Nat -> Nat] : w[0] = 1 /\ \A n \in Nat : w[n + 1] = b * w[n]
<1> DEFINE IsUpTo(f, n) == /\ f \in [0..n -> Nat]
                           /\ f[0] = 1
                           /\ \A i \in 0..(n - 1) : f[i + 1] = b * f[i]
           T == {n \in Nat : \E f : IsUpTo(f, n)}
<1>1. 0 \in T
  <2>1. IsUpTo([i \in 0..0 |-> 1], 0)
    OBVIOUS
  <2> QED
    BY <2>1
<1>2. ASSUME NEW n \in Nat, n \in T PROVE n + 1 \in T
  <2>1. PICK f : IsUpTo(f, n)
    BY <1>2
  <2> DEFINE g == [i \in 0..(n + 1) |-> IF i = n + 1 THEN b * f[n] ELSE f[i]]
  <2>2. g \in [0..(n + 1) -> Nat]
    BY <2>1
  <2>3. g[0] = 1 /\ \A i \in 0..n : g[i + 1] = b * g[i]
    BY <2>1
  <2>4. (n + 1) - 1 = n
    OBVIOUS
  <2> HIDE DEF g
  <2>5. IsUpTo(g, n + 1)
    BY <2>2, <2>3, <2>4
  <2> HIDE DEF IsUpTo
  <2> QED
    BY <2>5
<1>3. Nat \subseteq T
  <2> HIDE DEF T
  <2> QED
    BY <1>1, <1>2, SetInduction
<1>4. ASSUME NEW m \in Nat, NEW n \in Nat, m <= n, NEW f, NEW g, IsUpTo(f, m), IsUpTo(g, n)
      PROVE  f[m] = g[m]
  <2> DEFINE D == {i \in Nat : i <= m => f[i] = g[i]}
  <2>1. 0 \in D
    BY <1>4
  <2>2. ASSUME NEW i \in Nat, i \in D PROVE i + 1 \in D
    <3> SUFFICES ASSUME i + 1 <= m PROVE f[i + 1] = g[i + 1]
      OBVIOUS
    <3>1. i \in 0..(m - 1) /\ i \in 0..(n - 1)
      BY <1>4
    <3>2. f[i + 1] = b * f[i] /\ g[i + 1] = b * g[i]
      BY <3>1, <1>4
    <3> QED
      BY <2>2, <3>2
  <2>3. Nat \subseteq D
    <3> HIDE DEF D
    <3> QED
      BY <2>1, <2>2, SetInduction
  <2> QED
    BY <2>3
<1> DEFINE F(n) == CHOOSE f : IsUpTo(f, n)
           w == [n \in Nat |-> F(n)[n]]
<1>5. \A n \in Nat : IsUpTo(F(n), n)
  BY <1>3
<1>6. w \in [Nat -> Nat]
  <2>1. ASSUME NEW n \in Nat PROVE F(n)[n] \in Nat
    <3> HIDE DEF F
    <3> QED
      BY <1>5
  <2> QED
    BY <2>1
<1>7. w[0] = 1
  <2> HIDE DEF F
  <2> QED
    BY <1>5
<1>8. ASSUME NEW n \in Nat PROVE w[n + 1] = b * w[n]
  <2> HIDE DEF F
  <2>1. F(n + 1)[n + 1] = b * F(n + 1)[n]
    BY <1>5
  <2>2. F(n + 1)[n] = F(n)[n]
    <3> HIDE DEF IsUpTo
    <3> QED
      BY <1>4, <1>5
  <2> QED
    BY <2>1, <2>2
<1> QED
  BY <1>6, <1>7, <1>8

(* m gives, for each subset of R, the sum of f over it. *)
AddsUp(m, f, R) ==
  /\ DOMAIN f = R
  /\ m \in [SUBSET R -> Int]
  /\ m[{}] = 0
  /\ \A S \in SUBSET R : \A x \in S : m[S] = f[x] + m[S \ {x}]

(* The sum of a function is whatever adds up as sums do. *)
LEMMA SumAddsUp ==
  ASSUME NEW R, IsFiniteSet(R), NEW f, NEW m, AddsUp(m, f, R)
  PROVE  SumFunction(f) = m[R]
<1> USE DEF AddsUp
<1> DEFINE pick(S) == CHOOSE x \in S : TRUE
           Is(g) == g = [S \in SUBSET R |-> IF S = {} THEN 0 ELSE f[pick(S)] + g[S \ {pick(S)}]]
           iter == CHOOSE g : Is(g)
<1>1. SumFunction(f) = iter[R]
  BY DEF SumFunction, SumFunctionOnSet, FoldFunctionOnSet, MapThenFoldSet
<1>2. \A S : S # {} => pick(S) \in S
  OBVIOUS
<1> HIDE DEF pick
<1>3. Is(m)
  <2>1. ASSUME NEW S \in SUBSET R
        PROVE  m[S] = IF S = {} THEN 0 ELSE f[pick(S)] + m[S \ {pick(S)}]
    BY <1>2
  <2> QED
    BY <2>1
<1>4. Is(iter)
  <2> HIDE DEF Is
  <2> QED
    BY <1>3
<1> HIDE DEF iter
<1> DEFINE T == {n \in Nat : \A S \in SUBSET R : Cardinality(S) = n => iter[S] = m[S]}
<1>5. 0 \in T
  <2>1. ASSUME NEW S \in SUBSET R, Cardinality(S) = 0 PROVE iter[S] = m[S]
    <3>1. S = {}
      BY <2>1, FS_Subset, FS_EmptySet
    <3> QED
      BY <3>1, <1>4
  <2> QED
    BY <2>1
<1>6. ASSUME NEW n \in Nat, n \in T PROVE n + 1 \in T
  <2>1. ASSUME NEW S \in SUBSET R, Cardinality(S) = n + 1 PROVE iter[S] = m[S]
    <3> DEFINE x == pick(S)
    <3>1. S # {} /\ IsFiniteSet(S)
      BY <2>1, FS_Subset, FS_EmptySet
    <3>2. x \in S
      BY <3>1, <1>2
    <3>3. S \ {x} \in SUBSET R /\ Cardinality(S \ {x}) = n
      <4> HIDE DEF x
      <4>1. Cardinality(S \ {x}) = Cardinality(S) - 1
        BY <3>1, <3>2, FS_RemoveElement
      <4> QED
        BY <2>1, <4>1
    <3>4. iter[S] = f[x] + iter[S \ {x}]
      BY <1>4, <3>1
    <3>5. iter[S \ {x}] = m[S \ {x}]
      BY <1>6, <3>3
    <3>6. m[S] = f[x] + m[S \ {x}]
      BY <3>2
    <3> QED
      BY <3>4, <3>5, <3>6
  <2> QED
    BY <2>1
<1>7. Nat \subseteq T
  <2> HIDE DEF T
  <2> QED
    BY <1>5, <1>6, SetInduction
<1>8. Cardinality(R) \in Nat
  BY FS_CardinalityType
<1> QED
  BY <1>1, <1>7, <1>8

(* A set of numbers has its maximum in it, if all are at most n. *)
LEMMA MaxIsIn ==
  ASSUME NEW n \in Nat, NEW S \in SUBSET (1..n), S # {}
  PROVE  Max(S) \in S
<1> DEFINE T == {n - i : i \in S}
<1>1. T \subseteq Nat /\ T # {}
  <2>1. \A i \in S : i \in 1..n /\ n - i \in Nat
    OBVIOUS
  <2> QED
    BY <2>1
<1>2. PICK t \in T : \A u \in T : t <= u
  <2> HIDE DEF T
  <2> QED
    BY <1>1, LeastNatural
<1>3. PICK i \in S : t = n - i
  OBVIOUS
<1>4. \A j \in S : i >= j
  <2>1. ASSUME NEW j \in S PROVE i >= j
    <3>1. n - j \in T
      OBVIOUS
    <3>2. n - i <= n - j
      BY <1>2, <1>3, <3>1
    <3> QED
      BY <3>2
  <2> QED
    BY <2>1
<1> QED
  BY <1>4 DEF Max

-----------------------------------------------------------------------------

(* A set of sequences with <<>> in it, and with each sequence all that are  *)
(* longer by one, has them all.                                             *)
LEMMA SeqInduction ==
  ASSUME NEW A, NEW T, <<>> \in T,
         \A p \in Seq(A) : p \in T => \A x \in A : Append(p, x) \in T
  PROVE  Seq(A) \subseteq T
<1> DEFINE N == {n \in Nat : \A p \in Seq(A) : Len(p) = n => p \in T}
<1>1. 0 \in N
  BY EmptySeq
<1>2. ASSUME NEW n \in Nat, n \in N PROVE n + 1 \in N
  <2> SUFFICES ASSUME NEW p \in Seq(A), Len(p) = n + 1 PROVE p \in T
    OBVIOUS
  <2> DEFINE q == [i \in 1..n |-> p[i]]
  <2>1. q \in Seq(A) /\ Len(q) = n /\ p[n + 1] \in A
    <3>1. \A i \in 1..(n + 1) : p[i] \in A
      BY ElementOfSeq
    <3> QED
      BY <3>1
  <2>2. q \in T
    BY <1>2, <2>1
  <2>3. Append(q, p[n + 1]) = p
    <3> DEFINE r == Append(q, p[n + 1])
    <3>1. r \in Seq(A) /\ Len(r) = n + 1 /\ \A i \in 1..(n + 1) : r[i] = p[i]
      BY <2>1
    <3> HIDE DEF r
    <3>2. r = p
      BY <3>1, SeqEqual
    <3> QED
      BY <3>2 DEF r
  <2> HIDE DEF q
  <2> QED
    BY <2>1, <2>2, <2>3
<1>3. Nat \subseteq N
  <2> HIDE DEF N
  <2> QED
    BY <1>1, <1>2, SetInduction
<1> QED
  BY <1>3, LenProperties

(* The same from the other end. *)
LEMMA FrontInduction ==
  ASSUME NEW A, NEW T, <<>> \in T,
         \A p \in Seq(A) : p \in T => \A x \in A : <<x>> \o p \in T
  PROVE  Seq(A) \subseteq T
<1> DEFINE N == {n \in Nat : \A p \in Seq(A) : Len(p) = n => p \in T}
<1>1. 0 \in N
  BY EmptySeq
<1>2. ASSUME NEW n \in Nat, n \in N PROVE n + 1 \in N
  <2> SUFFICES ASSUME NEW p \in Seq(A), Len(p) = n + 1 PROVE p \in T
    OBVIOUS
  <2> DEFINE q == [i \in 1..n |-> p[i + 1]]
             h == <<p[1]>>
  <2>1. /\ q \in Seq(A) /\ Len(q) = n /\ p[1] \in A
        /\ h \in Seq(A) /\ Len(h) = 1 /\ h[1] = p[1]
        /\ \A i \in 1..n : q[i] = p[i + 1]
    <3>1. \A i \in 1..(n + 1) : p[i] \in A
      BY ElementOfSeq
    <3> QED
      BY <3>1
  <2> HIDE DEF q, h
  <2>2. q \in T
    BY <1>2, <2>1
  <2>4. h \in Seq(A) /\ q \in Seq(A)
    BY <2>1
  <2>3. h \o q = p
    <3>1. /\ h \o q \in Seq(A) /\ Len(h \o q) = Len(h) + Len(q)
          /\ \A i \in 1..(Len(h) + Len(q)) :
               (h \o q)[i] = IF i <= Len(h) THEN h[i] ELSE q[i - Len(h)]
      BY <2>4, ConcatProperties
    <3>2. ASSUME NEW i \in 1..(n + 1) PROVE (h \o q)[i] = p[i]
      <4>1. (h \o q)[i] = IF i <= 1 THEN h[i] ELSE q[i - 1]
        BY <2>1, <3>1
      <4> QED
        BY <4>1, <2>1
    <3>3. Len(h \o q) = Len(p)
      BY <2>1, <3>1
    <3> QED
      BY <3>1, <3>2, <3>3, SeqEqual
  <2>5. <<p[1]>> \o q \in T
    BY <2>1, <2>2
  <2> QED
    BY <2>3, <2>5 DEF h
<1>3. Nat \subseteq N
  <2> HIDE DEF N
  <2> QED
    BY <1>1, <1>2, SetInduction
<1> QED
  BY <1>3, LenProperties

(* A sequence that is not empty has a first element and the rest. *)
LEMMA HasFirst ==
  ASSUME NEW A, NEW p \in Seq(A), p # <<>>
  PROVE  \E x \in A, r \in Seq(A) : p = <<x>> \o r
<1> DEFINE T == {q \in Seq(A) : q # <<>> => \E x \in A, r \in Seq(A) : q = <<x>> \o r}
<1>1. <<>> \in T
  BY EmptySeq
<1>2. ASSUME NEW q \in Seq(A), q \in T, NEW x \in A PROVE <<x>> \o q \in T
  <2>1. <<x>> \in Seq(A)
    OBVIOUS
  <2>2. <<x>> \o q \in Seq(A)
    BY <2>1, ConcatProperties
  <2> QED
    BY <2>2
<1>3. Seq(A) \subseteq T
  <2> HIDE DEF T
  <2> QED
    BY <1>1, <1>2, FrontInduction
<1> QED
  BY <1>3

(* What comes first in a concatenation is its first part. *)
LEMMA FirstOfConcat ==
  ASSUME NEW A, NEW s \in Seq(A), NEW r \in Seq(A)
  PROVE  /\ \A i \in 1..Len(s) : (s \o r)[i] = s[i]
         /\ s # <<>> => s \o r # <<>>
<1>1. /\ s \o r \in Seq(A) /\ Len(s \o r) = Len(s) + Len(r)
      /\ \A i \in 1..(Len(s) + Len(r)) : (s \o r)[i] = IF i <= Len(s) THEN s[i] ELSE r[i - Len(s)]
  BY ConcatProperties
<1>2. Len(s) \in Nat /\ Len(r) \in Nat
  BY LenProperties
<1>3. ASSUME NEW i \in 1..Len(s) PROVE (s \o r)[i] = s[i]
  <2>1. i \in 1..(Len(s) + Len(r)) /\ i <= Len(s)
    BY <1>2
  <2> QED
    BY <1>1, <2>1
<1>4. ASSUME s # <<>> PROVE s \o r # <<>>
  <2>1. Len(s) # 0
    BY <1>4, EmptySeq
  <2>2. Len(s \o r) # 0
    BY <1>1, <1>2, <2>1
  <2> QED
    BY <2>2
<1> QED
  BY <1>3, <1>4

-----------------------------------------------------------------------------

(* f[i] is what the first i sequences are together. *)
IsFlattening(f, seqs, n, S) ==
  /\ f \in [1..n -> Seq(S)]
  /\ f[1] = seqs[1]
  /\ \A i \in 1..(n - 1) : f[i + 1] = f[i] \o seqs[i + 1]

(* There is one. *)
LEMMA FlatteningExists ==
  ASSUME NEW S, NEW seqs \in Seq(Seq(S)), NEW n \in Nat, n < Len(seqs)
  PROVE  \E f : IsFlattening(f, seqs, n + 1, S)
<1> DEFINE T == {k \in Nat : k < Len(seqs) => \E f : IsFlattening(f, seqs, k + 1, S)}
<1>1. 0 \in T
  <2> SUFFICES ASSUME 0 < Len(seqs) PROVE \E f : IsFlattening(f, seqs, 1, S)
    OBVIOUS
  <2>1. seqs[1] \in Seq(S)
    OBVIOUS
  <2>2. IsFlattening([i \in 1..1 |-> seqs[1]], seqs, 1, S)
    BY <2>1 DEF IsFlattening
  <2> QED
    BY <2>2
<1>2. ASSUME NEW k \in Nat, k \in T PROVE k + 1 \in T
  <2> SUFFICES ASSUME k + 1 < Len(seqs) PROVE \E f : IsFlattening(f, seqs, k + 2, S)
    OBVIOUS
  <2>1. PICK f : IsFlattening(f, seqs, k + 1, S)
    BY <1>2
  <2> DEFINE s == f[k + 1]
             t == seqs[k + 2]
             g == [i \in 1..(k + 2) |-> IF i = k + 2 THEN s \o t ELSE f[i]]
  <2>2. s \in Seq(S) /\ t \in Seq(S)
    BY <2>1 DEF IsFlattening
  <2>3. s \o t \in Seq(S)
    <3> HIDE DEF s, t
    <3> QED
      BY <2>2
  <2>4. \A i \in 1..(k + 1) : f[i] \in Seq(S)
    BY <2>1 DEF IsFlattening
  <2>5. g \in [1..(k + 2) -> Seq(S)]
    <3> HIDE DEF s, t
    <3> QED
      BY <2>3, <2>4
  <2>6. g[1] = seqs[1]
    BY <2>1 DEF IsFlattening
  <2>7. ASSUME NEW i \in 1..(k + 1) PROVE g[i + 1] = g[i] \o seqs[i + 1]
    <3>1. g[i] = f[i]
      OBVIOUS
    <3>2. CASE i = k + 1
      <4>1. g[i + 1] = s \o t
        <5> HIDE DEF s, t
        <5> QED
          BY <3>2
      <4>2. f[i] = s /\ seqs[i + 1] = t
        <5>1. i + 1 = k + 2
          BY <3>2
        <5> QED
          BY <3>2, <5>1
      <4> HIDE DEF g, s, t
      <4> QED
        BY <4>1, <4>2, <3>1
    <3>3. CASE i # k + 1
      <4>1. g[i + 1] = f[i + 1]
        BY <3>3
      <4>2. i \in 1..((k + 1) - 1)
        BY <3>3
      <4>3. f[i + 1] = f[i] \o seqs[i + 1]
        BY <4>2, <2>1 DEF IsFlattening
      <4> HIDE DEF g
      <4> QED
        BY <4>1, <4>3, <3>1
    <3> QED
      BY <3>2, <3>3
  <2>8. (k + 2) - 1 = k + 1
    OBVIOUS
  <2> HIDE DEF g
  <2>9. IsFlattening(g, seqs, k + 2, S)
    BY <2>5, <2>6, <2>7, <2>8 DEF IsFlattening
  <2> QED
    BY <2>9
<1>3. Nat \subseteq T
  <2> HIDE DEF T
  <2> QED
    BY <1>1, <1>2, SetInduction
<1> QED
  BY <1>3

(* There is only one for the same sequences. *)
LEMMA FlatteningIsUnique ==
  ASSUME NEW S, NEW s1, NEW s2, NEW n \in Nat, NEW k \in Nat, 0 < k, k <= n,
         NEW f, IsFlattening(f, s1, n, S),
         NEW g, IsFlattening(g, s2, k, S),
         \A i \in 1..k : s1[i] = s2[i]
  PROVE  f[k] = g[k]
<1> DEFINE T == {i \in Nat : i + 1 <= k => f[i + 1] = g[i + 1]}
<1>1. 0 \in T
  BY DEF IsFlattening
<1>2. ASSUME NEW i \in Nat, i \in T PROVE i + 1 \in T
  <2> SUFFICES ASSUME (i + 1) + 1 <= k PROVE f[(i + 1) + 1] = g[(i + 1) + 1]
    OBVIOUS
  <2>1. i + 1 \in 1..(k - 1) /\ i + 1 \in 1..(n - 1) /\ (i + 1) + 1 \in 1..k
    OBVIOUS
  <2>2. f[(i + 1) + 1] = f[i + 1] \o s1[(i + 1) + 1]
    BY <2>1 DEF IsFlattening
  <2>3. g[(i + 1) + 1] = g[i + 1] \o s2[(i + 1) + 1]
    BY <2>1 DEF IsFlattening
  <2>4. f[i + 1] = g[i + 1] /\ s1[(i + 1) + 1] = s2[(i + 1) + 1]
    BY <1>2, <2>1
  <2> QED
    BY <2>2, <2>3, <2>4
<1>3. Nat \subseteq T
  <2> HIDE DEF T
  <2> QED
    BY <1>1, <1>2, SetInduction
<1>4. k - 1 \in T /\ (k - 1) + 1 = k
  BY <1>3
<1> QED
  BY <1>4

(* FlattenSeq is what its recursive definition says. *)
LEMMA FlattenSteps ==
  ASSUME NEW S, NEW seqs \in Seq(Seq(S)), NEW n \in Nat, Len(seqs) = n + 1
  PROVE  \E f : IsFlattening(f, seqs, n + 1, S) /\ FlattenSeq(seqs) = f[n + 1]
<1> DEFINE Is(g) == g = [i \in 1..Len(seqs) |-> IF i = 1 THEN seqs[i] ELSE g[i - 1] \o seqs[i]]
           flatten == CHOOSE g : Is(g)
<1>1. FlattenSeq(seqs) = flatten[Len(seqs)]
  BY DEF FlattenSeq
<1>2. PICK f : IsFlattening(f, seqs, n + 1, S)
  <2>1. n < Len(seqs)
    OBVIOUS
  <2> QED
    BY <2>1, FlatteningExists
<1>3. Is(f)
  <2>1. ASSUME NEW i \in 1..(n + 1) PROVE f[i] = IF i = 1 THEN seqs[i] ELSE f[i - 1] \o seqs[i]
    <3>1. CASE i = 1
      BY <3>1, <1>2 DEF IsFlattening
    <3>2. CASE i # 1
      <4>1. i - 1 \in 1..((n + 1) - 1) /\ (i - 1) + 1 = i
        BY <3>2
      <4>2. f[(i - 1) + 1] = f[i - 1] \o seqs[(i - 1) + 1]
        BY <4>1, <1>2 DEF IsFlattening
      <4> QED
        BY <3>2, <4>1, <4>2
    <3> QED
      BY <3>1, <3>2
  <2>2. f \in [1..(n + 1) -> Seq(S)]
    BY <1>2 DEF IsFlattening
  <2> QED
    BY <2>1, <2>2
<1>4. Is(flatten)
  <2> HIDE DEF Is
  <2> QED
    BY <1>3
<1> HIDE DEF flatten
<1> DEFINE T == {i \in Nat : i <= n => flatten[i + 1] = f[i + 1]}
<1>5. 0 \in T
  <2>1. flatten[1] = seqs[1]
    BY <1>4
  <2> QED
    BY <2>1, <1>2 DEF IsFlattening
<1>6. ASSUME NEW i \in Nat, i \in T PROVE i + 1 \in T
  <2> SUFFICES ASSUME i + 1 <= n PROVE flatten[(i + 1) + 1] = f[(i + 1) + 1]
    OBVIOUS
  <2>1. (i + 1) + 1 \in 1..Len(seqs) /\ (i + 1) + 1 # 1 /\ ((i + 1) + 1) - 1 = i + 1
    OBVIOUS
  <2>2. flatten[(i + 1) + 1] = flatten[i + 1] \o seqs[(i + 1) + 1]
    BY <1>4, <2>1
  <2>3. i + 1 \in 1..((n + 1) - 1)
    OBVIOUS
  <2>4. f[(i + 1) + 1] = f[i + 1] \o seqs[(i + 1) + 1]
    BY <1>2, <2>3 DEF IsFlattening
  <2>5. flatten[i + 1] = f[i + 1]
    BY <1>6
  <2> QED
    BY <2>2, <2>4, <2>5
<1>7. Nat \subseteq T
  <2> HIDE DEF T
  <2> QED
    BY <1>5, <1>6, SetInduction
<1>8. flatten[n + 1] = f[n + 1]
  BY <1>7
<1> QED
  BY <1>1, <1>2, <1>8

(* Of no sequences. *)
LEMMA FlattenEmpty == FlattenSeq(<<>>) = <<>>
BY DEF FlattenSeq

(* Of sequences over a set. *)
LEMMA FlattenType ==
  ASSUME NEW S, NEW seqs \in Seq(Seq(S))
  PROVE  FlattenSeq(seqs) \in Seq(S)
<1>1. CASE seqs = <<>>
  BY <1>1, FlattenEmpty, EmptySeq
<1>2. CASE seqs # <<>>
  <2> DEFINE n == Len(seqs) - 1
  <2>1. n \in Nat /\ Len(seqs) = n + 1
    BY <1>2
  <2> HIDE DEF n
  <2>2. PICK f : IsFlattening(f, seqs, n + 1, S) /\ FlattenSeq(seqs) = f[n + 1]
    BY <2>1, FlattenSteps
  <2> QED
    BY <2>1, <2>2 DEF IsFlattening
<1> QED
  BY <1>1, <1>2

(* Of one more. *)
LEMMA FlattenAppend ==
  ASSUME NEW S, NEW seqs \in Seq(Seq(S)), NEW s \in Seq(S)
  PROVE  FlattenSeq(Append(seqs, s)) = FlattenSeq(seqs) \o s
<1> DEFINE longer == Append(seqs, s)
           n == Len(seqs)
<1>1. /\ n \in Nat /\ longer \in Seq(Seq(S)) /\ Len(longer) = n + 1 /\ longer[n + 1] = s
      /\ \A i \in 1..n : longer[i] = seqs[i]
  OBVIOUS
<1> HIDE DEF longer
<1>2. PICK f : IsFlattening(f, longer, n + 1, S) /\ FlattenSeq(longer) = f[n + 1]
  BY <1>1, FlattenSteps
<1>3. CASE n = 0
  <2>1. FlattenSeq(longer) = s
    BY <1>1, <1>2, <1>3 DEF IsFlattening
  <2>2. seqs = <<>> /\ FlattenSeq(seqs) = <<>>
    BY <1>3, EmptySeq, FlattenEmpty
  <2> QED
    BY <2>1, <2>2, ConcatEmptySeq DEF longer
<1>4. CASE n # 0
  <2>1. (n - 1) \in Nat /\ Len(seqs) = (n - 1) + 1 /\ (n - 1) + 1 = n
    BY <1>1, <1>4
  <2>2. PICK g : IsFlattening(g, seqs, n, S) /\ FlattenSeq(seqs) = g[n]
    BY <2>1, FlattenSteps
  <2>3. f[n] = g[n]
    <3>1. n + 1 \in Nat /\ n <= n + 1 /\ 0 < n
      BY <1>1, <1>4
    <3> HIDE DEF n
    <3>2. \A i \in 1..n : longer[i] = seqs[i]
      BY <1>1
    <3> QED
      BY <1>1, <1>2, <2>2, <3>1, <3>2, FlatteningIsUnique
  <2>4. f[n + 1] = f[n] \o longer[n + 1]
    <3>1. n \in 1..((n + 1) - 1)
      BY <1>1, <1>4
    <3> QED
      BY <1>2, <3>1 DEF IsFlattening
  <2> QED
    BY <1>1, <1>2, <2>2, <2>3, <2>4 DEF longer
<1> QED
  BY <1>3, <1>4

(* p with each of its characters replaced by a sequence. *)
Subst(F, p) == FlattenSeq([i \in DOMAIN p |-> F[p[i]]])

(* Nothing is nothing still. *)
LEMMA SubstEmpty ==
  ASSUME NEW F
  PROVE  Subst(F, <<>>) = <<>>
<1>1. [i \in DOMAIN <<>> |-> F[<<>>[i]]] = <<>>
  OBVIOUS
<1> QED
  BY <1>1, FlattenEmpty DEF Subst

(* It is a sequence over the set that the replacements are over. *)
LEMMA SubstType ==
  ASSUME NEW A, NEW B, NEW F \in [A -> Seq(B)], NEW p \in Seq(A)
  PROVE  Subst(F, p) \in Seq(B)
<1> DEFINE seqs == [i \in DOMAIN p |-> F[p[i]]]
<1>1. seqs \in Seq(Seq(B))
  <2>1. \A i \in 1..Len(p) : F[p[i]] \in Seq(B)
    BY ElementOfSeq
  <2>2. DOMAIN p = 1..Len(p) /\ Len(p) \in Nat
    BY LenProperties
  <2>3. seqs \in [1..Len(p) -> Seq(B)]
    BY <2>1, <2>2
  <2> QED
    BY <2>2, <2>3
<1> HIDE DEF seqs
<1>2. FlattenSeq(seqs) \in Seq(B)
  BY <1>1, FlattenType
<1> QED
  BY <1>2 DEF Subst, seqs

(* One more character adds what it is replaced by. *)
LEMMA SubstAppend ==
  ASSUME NEW A, NEW B, NEW F \in [A -> Seq(B)], NEW p \in Seq(A), NEW x \in A
  PROVE  Subst(F, Append(p, x)) = Subst(F, p) \o F[x]
<1> DEFINE seqs == [i \in DOMAIN p |-> F[p[i]]]
           q == Append(p, x)
           longer == [i \in DOMAIN q |-> F[q[i]]]
<1>1. DOMAIN p = 1..Len(p) /\ Len(p) \in Nat /\ \A i \in 1..Len(p) : p[i] \in A
  BY LenProperties, ElementOfSeq
<1>2. /\ DOMAIN q = 1..(Len(p) + 1) /\ q[Len(p) + 1] = x
      /\ \A i \in 1..Len(p) : q[i] = p[i]
  BY <1>1
<1>3. seqs \in Seq(Seq(B)) /\ Len(seqs) = Len(p)
  <2>1. seqs \in [1..Len(p) -> Seq(B)]
    BY <1>1
  <2> QED
    BY <1>1, <2>1
<1>4. longer = Append(seqs, F[x])
  <2> HIDE DEF q
  <2>1. longer \in [1..(Len(p) + 1) -> Seq(B)] /\ longer \in Seq(Seq(B)) /\ Len(longer) = Len(p) + 1
    <3>1. longer \in [1..(Len(p) + 1) -> Seq(B)]
      <4>1. \A i \in 1..(Len(p) + 1) : q[i] \in A
        BY <1>1, <1>2
      <4> QED
        BY <1>2, <4>1
    <3> QED
      BY <1>1, <3>1
  <2> DEFINE a == Append(seqs, F[x])
  <2>2. /\ a \in Seq(Seq(B)) /\ Len(a) = Len(p) + 1 /\ a[Len(p) + 1] = F[x]
        /\ \A i \in 1..Len(p) : a[i] = seqs[i]
    <3> HIDE DEF seqs
    <3> QED
      BY <1>1, <1>3
  <2>3. \A i \in 1..(Len(p) + 1) : a[i] = longer[i]
    <3>1. \A i \in 1..Len(p) : seqs[i] = longer[i]
      BY <1>1, <1>2
    <3>2. longer[Len(p) + 1] = F[x]
      BY <1>1, <1>2
    <3> HIDE DEF a, seqs, longer
    <3>3. ASSUME NEW i \in 1..(Len(p) + 1) PROVE a[i] = longer[i]
      <4>1. CASE i \in 1..Len(p)
        BY <4>1, <2>2, <3>1
      <4>2. CASE i = Len(p) + 1
        BY <4>2, <2>2, <3>2
      <4> QED
        BY <1>1, <4>1, <4>2
    <3> QED
      BY <3>3
  <2> HIDE DEF a, longer
  <2>4. longer = a
    BY <1>1, <2>1, <2>2, <2>3, SeqEqual
  <2> QED
    BY <2>4 DEF a
<1> HIDE DEF longer, seqs
<1>5. FlattenSeq(Append(seqs, F[x])) = FlattenSeq(seqs) \o F[x]
  <2>1. F[x] \in Seq(B)
    OBVIOUS
  <2> QED
    BY <1>3, <2>1, FlattenAppend
<1>6. Subst(F, q) = FlattenSeq(longer)
  BY DEF Subst, longer
<1>7. Subst(F, p) = FlattenSeq(seqs)
  BY DEF Subst, seqs
<1> QED
  BY <1>4, <1>5, <1>6, <1>7

(* A single character. *)
LEMMA SubstOne ==
  ASSUME NEW A, NEW B, NEW F \in [A -> Seq(B)], NEW x \in A
  PROVE  Subst(F, <<x>>) = F[x]
<1>1. <<>> \in Seq(A) /\ Append(<<>>, x) = <<x>>
  OBVIOUS
<1>2. Subst(F, Append(<<>>, x)) = Subst(F, <<>>) \o F[x]
  BY <1>1, SubstAppend
<1>3. F[x] \in Seq(B) /\ <<>> \o F[x] = F[x]
  BY ConcatEmptySeq
<1> QED
  BY <1>1, <1>2, <1>3, SubstEmpty

(* What is appended to the second part is appended to both. *)
LEMMA AppendConcat ==
  ASSUME NEW A, NEW p \in Seq(A), NEW q \in Seq(A), NEW x \in A
  PROVE  p \o Append(q, x) = Append(p \o q, x)
<1>1. <<x>> \in Seq(A) /\ p \o q \in Seq(A)
  OBVIOUS
<1>2. \A s \in Seq(A) : Append(s, x) = s \o <<x>>
  BY AppendIsConcat
<1> QED
  BY <1>1, <1>2, ConcatAssociative

(* Two parts may be replaced one by one. *)
LEMMA SubstConcat ==
  ASSUME NEW A, NEW B, NEW F \in [A -> Seq(B)], NEW p \in Seq(A), NEW q \in Seq(A)
  PROVE  Subst(F, p \o q) = Subst(F, p) \o Subst(F, q)
<1> DEFINE T == {r \in Seq(A) : Subst(F, p \o r) = Subst(F, p) \o Subst(F, r)}
<1>1. <<>> \in T
  <2>1. p \o <<>> = p /\ <<>> \in Seq(A)
    BY ConcatEmptySeq, EmptySeq
  <2>2. Subst(F, p) \o <<>> = Subst(F, p)
    BY SubstType, ConcatEmptySeq
  <2> QED
    BY <2>1, <2>2, SubstEmpty
<1>2. ASSUME NEW r \in Seq(A), r \in T, NEW x \in A PROVE Append(r, x) \in T
  <2>1. Subst(F, Append(p \o r, x)) = Subst(F, p \o r) \o F[x]
    <3>1. p \o r \in Seq(A)
      OBVIOUS
    <3> QED
      BY <3>1, SubstAppend
  <2>2. Subst(F, Append(r, x)) = Subst(F, r) \o F[x]
    BY SubstAppend
  <2>3. (Subst(F, p) \o Subst(F, r)) \o F[x] = Subst(F, p) \o (Subst(F, r) \o F[x])
    <3>1. Subst(F, p) \in Seq(B) /\ Subst(F, r) \in Seq(B) /\ F[x] \in Seq(B)
      BY SubstType
    <3> QED
      BY <3>1, ConcatAssociative, SMTT(40)
  <2>4. p \o Append(r, x) = Append(p \o r, x)
    BY AppendConcat, SMTT(40)
  <2>5. Append(r, x) \in Seq(A)
    OBVIOUS
  <2>6. Subst(F, p \o r) = Subst(F, p) \o Subst(F, r)
    BY <1>2
  <2> QED
    BY <2>1, <2>2, <2>3, <2>4, <2>5, <2>6
<1>3. Seq(A) \subseteq T
  <2> HIDE DEF T
  <2> QED
    BY <1>1, <1>2, SeqInduction
<1> QED
  BY <1>3

(* The same within one set. *)
LEMMA SubstDistributes ==
  ASSUME NEW A, NEW F \in [A -> Seq(A)]
  PROVE  \A p, q \in Seq(A) : Subst(F, p \o q) = Subst(F, p) \o Subst(F, q)
BY SubstConcat, SMTT(40)

(* Replacing twice is replacing once, by what the replacements become. *)
LEMMA SubstSubst ==
  ASSUME NEW A, NEW F \in [A -> Seq(A)], NEW G \in [A -> Seq(A)],
         NEW H \in [A -> Seq(A)], \A x \in A : H[x] = Subst(G, F[x]), NEW p \in Seq(A)
  PROVE  Subst(G, Subst(F, p)) = Subst(H, p)
<1>5. \A u, v \in Seq(A) : Subst(G, u \o v) = Subst(G, u) \o Subst(G, v)
  BY SubstDistributes
<1> DEFINE T == {r \in Seq(A) : Subst(G, Subst(F, r)) = Subst(H, r)}
<1>1. <<>> \in T
  BY SubstEmpty, EmptySeq
<1>2. ASSUME NEW r \in Seq(A), r \in T, NEW x \in A PROVE Append(r, x) \in T
  <2>1. Subst(F, Append(r, x)) = Subst(F, r) \o F[x]
    BY SubstAppend
  <2>2. Subst(G, Subst(F, r) \o F[x]) = Subst(G, Subst(F, r)) \o Subst(G, F[x])
    <3>1. Subst(F, r) \in Seq(A) /\ F[x] \in Seq(A)
      BY SubstType
    <3> QED
      BY <3>1, <1>5
  <2>3. H[x] = Subst(G, F[x])
    OBVIOUS
  <2>4. Subst(H, Append(r, x)) = Subst(H, r) \o H[x]
    BY SubstAppend
  <2>5. Append(r, x) \in Seq(A) /\ Subst(G, Subst(F, r)) = Subst(H, r)
    BY <1>2
  <2> QED
    BY <2>1, <2>2, <2>3, <2>4, <2>5
<1>3. Seq(A) \subseteq T
  <2> HIDE DEF T
  <2> QED
    BY <1>1, <1>2, SeqInduction
<1> QED
  BY <1>3

(* What is replaced by itself stays. *)
LEMMA SubstSame ==
  ASSUME NEW A, NEW F \in [A -> Seq(A)], NEW p \in Seq(A),
         \A i \in 1..Len(p) : F[p[i]] = <<p[i]>>
  PROVE  Subst(F, p) = p
<1> DEFINE T == {r \in Seq(A) : (\A i \in 1..Len(r) : F[r[i]] = <<r[i]>>) => Subst(F, r) = r}
<1>1. <<>> \in T
  BY SubstEmpty, EmptySeq
<1>2. ASSUME NEW r \in Seq(A), r \in T, NEW x \in A PROVE Append(r, x) \in T
  <2> DEFINE s == Append(r, x)
  <2>1. /\ s \in Seq(A) /\ Len(s) = Len(r) + 1 /\ s[Len(r) + 1] = x /\ Len(r) \in Nat
        /\ \A i \in 1..Len(r) : s[i] = r[i]
    OBVIOUS
  <2> HIDE DEF s
  <2> SUFFICES ASSUME \A i \in 1..Len(s) : F[s[i]] = <<s[i]>> PROVE Subst(F, s) = s
    BY <2>1 DEF s
  <2>2. F[x] = <<x>>
    <3>1. Len(r) + 1 \in 1..Len(s)
      BY <2>1
    <3> QED
      BY <2>1, <3>1
  <2>3. Subst(F, r) = r
    <3>1. \A i \in 1..Len(r) : F[r[i]] = <<r[i]>>
      BY <2>1
    <3> QED
      BY <1>2, <3>1
  <2>4. s = r \o <<x>>
    BY AppendIsConcat DEF s
  <2>5. Subst(F, s) = Subst(F, r) \o F[x]
    BY SubstAppend, ZenonT(60) DEF s
  <2> QED
    BY <2>2, <2>3, <2>4, <2>5
<1>3. Seq(A) \subseteq T
  <2> HIDE DEF T
  <2> QED
    BY <1>1, <1>2, SeqInduction
<1> QED
  BY <1>3

===============================================================================
