---------------------------- MODULE WebClientProofs ----------------------------
(***************************************************************************)
(* Proofs about Wire and WebClient: for any base and any size of a double, *)
(* any identifiers, salts, times and locations, and any number of calls.   *)
(***************************************************************************)
EXTENDS WebClient, Induction, SequenceTheorems

LEMMA Sizes ==
  /\ Base \in Nat /\ Base > 1
  /\ ByteBase \in Nat /\ ByteBase > 1
  /\ FloatSize \in Nat
<1>1. Base \in Nat /\ Base > 1
  BY SizesAssumption
<1>2. \A b \in Nat : b > 1 => b * b \in Nat /\ b * b > 1
  OBVIOUS
<1> QED
  BY <1>1, <1>2, SizesAssumption DEF ByteBase

LEMMA TwoDigits ==
  \A y \in 0..(ByteBase - 1) :
    /\ y \div Base \in 0..(Base - 1)
    /\ y % Base \in 0..(Base - 1)
    /\ Base * (y \div Base) + (y % Base) = y
    /\ y < Base => y \div Base = 0 /\ y % Base = y
<1>1. \A b \in Nat, y \in Nat : b > 1 /\ y < b * b =>
        /\ y \div b \in 0..(b - 1) /\ y % b \in 0..(b - 1)
        /\ b * (y \div b) + (y % b) = y
        /\ y < b => y \div b = 0 /\ y % b = y
  OBVIOUS
<1>2. ASSUME NEW y \in 0..(ByteBase - 1) PROVE y \in Nat /\ y < Base * Base
  BY Sizes DEF ByteBase
<1> QED
  BY <1>1, <1>2, Sizes

(* Flattening pairs. *)
Joined(seqs, n) == [k \in 1..(2 * n) |-> seqs[(k + 1) \div 2][IF k % 2 = 1 THEN 1 ELSE 2]]

LEMMA FlattenPairs ==
  ASSUME NEW S, NEW n \in Nat, NEW seqs \in [1..n -> Seq(S)], \A i \in 1..n : Len(seqs[i]) = 2
  PROVE  FlattenSeq(seqs) = Joined(seqs, n)
<1>1. Len(seqs) = n /\ seqs \in Seq(Seq(S))
  OBVIOUS
<1>2. CASE n = 0
  <2>1. FlattenSeq(seqs) = seqs
    BY <1>1, <1>2 DEF FlattenSeq
  <2> QED
    BY <2>1, <1>2 DEF Joined
<1>3. CASE n # 0
  <2> DEFINE Is(g) == g = [i \in 1..n |-> IF i = 1 THEN seqs[i] ELSE g[i - 1] \o seqs[i]]
             flatten == CHOOSE g : Is(g)
             G == [i \in 1..n |-> Joined(seqs, i)]
  <2>1. FlattenSeq(seqs) = flatten[n]
    BY <1>1, <1>3 DEF FlattenSeq
  <2>2. \A i \in 1..n : Joined(seqs, i) \in Seq(S) /\ Len(Joined(seqs, i)) = 2 * i
    BY DEF Joined
  <2>3. Joined(seqs, 1) = seqs[1]
    <3>1. seqs[1] \in Seq(S) /\ Len(seqs[1]) = 2
      BY <1>3
    <3>2. DOMAIN Joined(seqs, 1) = 1..2 /\ DOMAIN seqs[1] = 1..2
      BY <3>1 DEF Joined
    <3>3. \A k \in 1..2 : Joined(seqs, 1)[k] = seqs[1][k]
      BY DEF Joined
    <3> QED
      BY <3>1, <3>2, <3>3, <2>2, <1>3, SeqEqual
  <2>4. ASSUME NEW i \in 1..n, i # 1
        PROVE  Joined(seqs, i) = Joined(seqs, i - 1) \o seqs[i]
    <3>1. Joined(seqs, i - 1) \in Seq(S) /\ Len(Joined(seqs, i - 1)) = 2 * i - 2
      <4>1. i - 1 \in 1..n /\ 2 * (i - 1) = 2 * i - 2
        BY <2>4
      <4>2. Joined(seqs, i - 1) \in Seq(S) /\ Len(Joined(seqs, i - 1)) = 2 * (i - 1)
        BY <4>1, <2>2, Zenon
      <4> QED
        BY <4>1, <4>2, Zenon
    <3>2. seqs[i] \in Seq(S) /\ Len(seqs[i]) = 2
      OBVIOUS
    <3>3. /\ Joined(seqs, i - 1) \o seqs[i] \in Seq(S)
          /\ Len(Joined(seqs, i - 1) \o seqs[i]) = 2 * i
          /\ \A k \in 1..(2 * i) :
               (Joined(seqs, i - 1) \o seqs[i])[k] =
                 IF k <= 2 * i - 2 THEN Joined(seqs, i - 1)[k] ELSE seqs[i][k - (2 * i - 2)]
      <4> DEFINE s == Joined(seqs, i - 1)
                 t == seqs[i]
      <4>1. s \in Seq(S) /\ t \in Seq(S) /\ Len(s) = 2 * i - 2 /\ Len(t) = 2
        BY <3>1, <3>2
      <4> HIDE DEF s, t
      <4>2. /\ s \o t \in Seq(S) /\ Len(s \o t) = Len(s) + Len(t)
            /\ \A k \in 1..(Len(s) + Len(t)) :
                 (s \o t)[k] = IF k <= Len(s) THEN s[k] ELSE t[k - Len(s)]
        BY <4>1, ConcatProperties
      <4>3. Len(s) + Len(t) = 2 * i
        BY <4>1
      <4>4. /\ s \o t \in Seq(S) /\ Len(s \o t) = 2 * i
            /\ \A k \in 1..(2 * i) :
                 (s \o t)[k] = IF k <= 2 * i - 2 THEN s[k] ELSE t[k - (2 * i - 2)]
        BY <4>1, <4>2, <4>3
      <4> QED
        BY <4>4 DEF s, t
    <3>4. ASSUME NEW k \in 1..(2 * i)
          PROVE  Joined(seqs, i)[k] =
                   IF k <= 2 * i - 2 THEN Joined(seqs, i - 1)[k] ELSE seqs[i][k - (2 * i - 2)]
      <4>1. CASE k <= 2 * i - 2
        BY <4>1 DEF Joined
      <4>2. CASE k = 2 * i - 1
        BY <4>2 DEF Joined
      <4>3. CASE k = 2 * i
        <5>1. (2 * i + 1) \div 2 = i /\ (2 * i) % 2 = 0 /\ k - (2 * i - 2) = 2 /\ ~(k <= 2 * i - 2)
          BY <4>3
        <5>2. Joined(seqs, i)[k] = seqs[i][2]
          BY <4>3, <5>1 DEF Joined
        <5> QED
          BY <5>1, <5>2
      <4> QED
        BY <4>1, <4>2, <4>3
    <3> DEFINE s == Joined(seqs, i)
               t == Joined(seqs, i - 1) \o seqs[i]
    <3>5. s \in Seq(S) /\ t \in Seq(S) /\ Len(s) = Len(t) /\ \A k \in 1..Len(s) : s[k] = t[k]
      BY <3>3, <3>4, <2>2
    <3> HIDE DEF s, t
    <3>6. s = t
      BY <3>5, SeqEqual
    <3> QED
      BY <3>6 DEF s, t
  <2>5. Is(G)
    <3>1. ASSUME NEW i \in 1..n
          PROVE  G[i] = IF i = 1 THEN seqs[i] ELSE G[i - 1] \o seqs[i]
      BY <2>3, <2>4, SMTT(40)
    <3> QED
      BY <3>1
  <2>6. Is(flatten)
    <3> HIDE DEF Is, G
    <3> QED
      BY <2>5
  <2> HIDE DEF flatten
  <2> DEFINE D == {i \in Nat : i + 1 <= n => flatten[i + 1] = G[i + 1]}
  <2>7. 0 \in D
    BY <2>5, <2>6
  <2>8. ASSUME NEW i \in Nat, i \in D PROVE i + 1 \in D
    <3> SUFFICES ASSUME i + 2 <= n PROVE flatten[i + 2] = G[i + 2]
      OBVIOUS
    <3>1. i + 2 \in 1..n /\ i + 2 # 1 /\ (i + 2) - 1 = i + 1
      OBVIOUS
    <3> HIDE DEF G
    <3>2. flatten[i + 2] = flatten[i + 1] \o seqs[i + 2]
      BY <3>1, <2>6
    <3>3. G[i + 2] = G[i + 1] \o seqs[i + 2]
      BY <3>1, <2>5
    <3>4. flatten[i + 1] = G[i + 1]
      BY <2>8, <3>1
    <3> QED
      BY <3>2, <3>3, <3>4
  <2>9. Nat \subseteq D
    <3> HIDE DEF D
    <3> QED
      BY <2>7, <2>8, SetInduction
  <2>10. flatten[n] = G[n]
    <3> HIDE DEF G
    <3>1. n - 1 \in Nat /\ (n - 1) + 1 = n
      BY <1>3
    <3>2. n - 1 \in D
      BY <2>9, <3>1
    <3> QED
      BY <3>1, <3>2
  <2> QED
    BY <2>1, <2>10, <1>3
<1> QED
  BY <1>2, <1>3

LEMMA Elements ==
  /\ \A x \in ByteArray : /\ Len(x) \in Nat /\ DOMAIN x = 1..Len(x)
                          /\ \A i \in 1..Len(x) : x[i] \in 0..(ByteBase - 1)
  /\ \A s \in HexString : /\ Len(s) \in Nat /\ DOMAIN s = 1..Len(s)
                          /\ \A i \in 1..Len(s) : s[i] \in 0..(Base - 1)
<1>1. ASSUME NEW S, NEW s \in Seq(S)
      PROVE  Len(s) \in Nat /\ DOMAIN s = 1..Len(s) /\ \A i \in 1..Len(s) : s[i] \in S
  BY ElementOfSeq, LenProperties
<1> QED
  BY <1>1 DEF ByteArray, HexString

LEMMA Pair ==
  ASSUME NEW S, NEW z \in S, NEW a \in S
  PROVE  <<z>> \o <<a>> = <<z, a>> /\ SubSeq(<<z, a>>, 1, 2) = <<z, a>>
<1>1. <<z>> \in Seq(S) /\ <<a>> \in Seq(S) /\ <<z, a>> \in Seq(S)
  OBVIOUS
<1>2. <<z>> \o <<a>> = <<z, a>>
  <2> DEFINE t == <<z>> \o <<a>>
  <2>1. t \in Seq(S) /\ Len(t) = 2 /\ t[1] = z /\ t[2] = a
    BY <1>1, ConcatProperties
  <2> HIDE DEF t
  <2>2. t = <<z, a>>
    BY <2>1, <1>1, SeqEqual
  <2> QED
    BY <2>2 DEF t
<1>3. SubSeq(<<z, a>>, 1, 2) = <<z, a>>
  BY <1>1, SubSeqFull
<1> QED
  BY <1>2, <1>3

LEMMA Triple ==
  ASSUME NEW S, NEW z \in S, NEW a \in S, NEW b \in S
  PROVE  <<z>> \o <<a, b>> = <<z, a, b>> /\ SubSeq(<<z, a, b>>, 2, 3) = <<a, b>>
<1>1. <<z>> \in Seq(S) /\ <<a, b>> \in Seq(S) /\ <<z, a, b>> \in Seq(S)
  OBVIOUS
<1>2. <<z>> \o <<a, b>> = <<z, a, b>>
  <2> DEFINE t == <<z>> \o <<a, b>>
  <2>1. t \in Seq(S) /\ Len(t) = 3 /\ t[1] = z /\ t[2] = a /\ t[3] = b
    BY <1>1, ConcatProperties
  <2> HIDE DEF t
  <2>2. t = <<z, a, b>>
    BY <2>1, <1>1, SeqEqual
  <2> QED
    BY <2>2 DEF t
<1>3. SubSeq(<<z, a, b>>, 2, 3) = <<a, b>>
  <2> DEFINE t == SubSeq(<<z, a, b>>, 2, 3)
  <2>1. t \in Seq(S) /\ Len(t) = 2 /\ t[1] = a /\ t[2] = b
    BY <1>1, SubSeqProperties
  <2> HIDE DEF t
  <2>2. t = <<a, b>>
    BY <2>1, <1>1, SeqEqual
  <2> QED
    BY <2>2 DEF t
<1> QED
  BY <1>2, <1>3

LEMMA ToHexStringType ==
  ASSUME NEW x \in ByteArray
  PROVE  ToHexString(x) \in HexString /\ Len(ToHexString(x)) = 2 * Len(x)
<1>1. ASSUME NEW i \in 1..(2 * Len(x))
      PROVE  (IF i % 2 = 1 THEN x[(i + 1) \div 2] \div Base ELSE x[i \div 2] % Base) \in 0..(Base - 1)
  <2>1. CASE i % 2 = 1
    <3>1. (i + 1) \div 2 \in 1..Len(x)
      BY <2>1
    <3>2. x[(i + 1) \div 2] \in 0..(ByteBase - 1)
      BY <3>1, Elements
    <3> QED
      BY <2>1, <3>2, TwoDigits
  <2>2. CASE i % 2 # 1
    <3>1. i \div 2 \in 1..Len(x)
      BY <2>2
    <3>2. x[i \div 2] \in 0..(ByteBase - 1)
      BY <3>1, Elements
    <3> QED
      BY <2>2, <3>2, TwoDigits
  <2> QED
    BY <2>1, <2>2
<1>2. Len(x) \in Nat
  BY DEF ByteArray
<1> QED
  BY <1>1, <1>2 DEF ToHexString, HexString

LEMMA FromHexStringType ==
  ASSUME NEW s \in HexString
  PROVE  FromHexString(s) \in ByteArray /\ Len(FromHexString(s)) = Len(s) \div 2
<1>1. Len(s) \in Nat /\ Len(s) \div 2 \in Nat
  BY DEF HexString
<1>2. ASSUME NEW i \in 1..(Len(s) \div 2)
      PROVE  Base * s[2*i - 1] + s[2*i] \in 0..(ByteBase - 1)
  <2>1. 2*i - 1 \in 1..Len(s) /\ 2*i \in 1..Len(s)
    BY <1>1
  <2>2. s[2*i - 1] \in 0..(Base - 1) /\ s[2*i] \in 0..(Base - 1)
    BY <2>1, Elements
  <2>3. \A b, m, n \in Nat : m < b /\ n < b => b * m + n \in Nat /\ b * m + n < b * b
    <3> SUFFICES ASSUME NEW b \in Nat, NEW m \in Nat, NEW n \in Nat, m < b, n < b
                 PROVE  b * m + n \in Nat /\ b * m + n < b * b
      OBVIOUS
    <3>1. b * m <= b * (b - 1)
      BY SMT
    <3>2. b * (b - 1) = b * b - b
      OBVIOUS
    <3>3. b * m \in Nat
      OBVIOUS
    <3> QED
      BY <3>1, <3>2, <3>3
  <2>4. Base * s[2*i - 1] + s[2*i] \in Nat /\ Base * s[2*i - 1] + s[2*i] < Base * Base
    <3> DEFINE m == s[2*i - 1]
               n == s[2*i]
    <3>1. m \in Nat /\ n \in Nat /\ m < Base /\ n < Base /\ Base \in Nat
      BY <2>2, Sizes
    <3> HIDE DEF m, n
    <3>2. Base * m + n \in Nat /\ Base * m + n < Base * Base
      BY <3>1, <2>3
    <3> QED
      BY <3>2 DEF m, n
  <2> QED
    BY <2>4, Sizes DEF ByteBase
<1> QED
  BY <1>1, <1>2 DEF FromHexString, ByteArray

LEMMA HexIsInverted ==
  ASSUME NEW x \in ByteArray
  PROVE  FromHexString(ToHexString(x)) = x
<1> DEFINE s == ToHexString(x)
<1>1. Len(s) = 2 * Len(x) /\ Len(x) \in Nat /\ (2 * Len(x)) \div 2 = Len(x)
  BY ToHexStringType DEF ByteArray
<1>2. x = [i \in 1..Len(x) |-> x[i]]
  BY DEF ByteArray
<1>3. ASSUME NEW i \in 1..Len(x) PROVE Base * s[2*i - 1] + s[2*i] = x[i]
  <2>1. /\ 2*i - 1 \in 1..(2 * Len(x)) /\ 2*i \in 1..(2 * Len(x))
        /\ (2*i - 1) % 2 = 1 /\ (2*i) % 2 = 0
        /\ ((2*i - 1) + 1) \div 2 = i /\ (2*i) \div 2 = i
    BY <1>1
  <2>2. s[2*i - 1] = x[i] \div Base /\ s[2*i] = x[i] % Base
    BY <2>1 DEF ToHexString
  <2>3. x[i] \in 0..(ByteBase - 1)
    BY Elements
  <2> HIDE DEF s
  <2> QED
    BY <2>2, <2>3, TwoDigits
<1> HIDE DEF s
<1>4. FromHexString(s) = [i \in 1..Len(x) |-> Base * s[2*i - 1] + s[2*i]]
  BY <1>1 DEF FromHexString
<1> QED
  BY <1>2, <1>3, <1>4 DEF s

LEMMA EvenHexToBytes ==
  ASSUME NEW s \in HexString, Len(s) % 2 = 0
  PROVE  hexToBytes(s) = FromHexString(s)
<1>1. Len(s) \in Nat
  BY DEF HexString
<1>2. (Len(s) + 0) \div 2 = Len(s) \div 2
  BY <1>1
<1>3. \A i \in 1..(Len(s) \div 2) : 2*i - 1 - 0 = 2*i - 1 /\ 2*i - 0 = 2*i
  BY <1>1
<1> QED
  BY <1>1, <1>2, <1>3 DEF hexToBytes, FromHexString

LEMMA BytesOfConcat ==
  ASSUME NEW s \in HexString, NEW t \in HexString, Len(s) % 2 = 0, Len(t) % 2 = 0
  PROVE  /\ s \o t \in HexString /\ Len(s \o t) % 2 = 0
         /\ FromHexString(s \o t) = FromHexString(s) \o FromHexString(t)
<1> DEFINE S == 0..(Base - 1)
           u == s \o t
           v == FromHexString(s) \o FromHexString(t)
<1>1. s \in Seq(S) /\ t \in Seq(S) /\ Len(s) \in Nat /\ Len(t) \in Nat
  BY DEF HexString
<1>2. /\ u \in HexString /\ Len(u) = Len(s) + Len(t)
      /\ \A k \in 1..(Len(s) + Len(t)) : u[k] = IF k <= Len(s) THEN s[k] ELSE t[k - Len(s)]
  BY <1>1, ConcatProperties DEF HexString
<1>3. Len(u) % 2 = 0 /\ Len(u) \div 2 = (Len(s) \div 2) + (Len(t) \div 2)
  BY <1>1, <1>2, SMTT(40)
<1>4. /\ FromHexString(s) \in ByteArray /\ FromHexString(t) \in ByteArray
      /\ Len(FromHexString(s)) = Len(s) \div 2 /\ Len(FromHexString(t)) = Len(t) \div 2
  BY FromHexStringType
<1>5. /\ v \in ByteArray /\ Len(v) = Len(u) \div 2
      /\ \A k \in 1..(Len(u) \div 2) :
           v[k] = IF k <= Len(s) \div 2 THEN FromHexString(s)[k]
                  ELSE FromHexString(t)[k - (Len(s) \div 2)]
  <2> DEFINE a == FromHexString(s)
             b == FromHexString(t)
  <2>1. a \in ByteArray /\ b \in ByteArray /\ Len(a) + Len(b) = Len(u) \div 2 /\ Len(a) = Len(s) \div 2
    BY <1>3, <1>4
  <2> HIDE DEF a, b, u
  <2>2. /\ a \o b \in ByteArray /\ Len(a \o b) = Len(a) + Len(b)
        /\ \A k \in 1..(Len(a) + Len(b)) : (a \o b)[k] = IF k <= Len(a) THEN a[k] ELSE b[k - Len(a)]
    BY <2>1, ConcatProperties DEF ByteArray
  <2> QED
    BY <2>1, <2>2 DEF a, b
<1>6. FromHexString(u) \in ByteArray /\ Len(FromHexString(u)) = Len(u) \div 2
  BY <1>2, FromHexStringType
<1>7. ASSUME NEW k \in 1..(Len(u) \div 2) PROVE FromHexString(u)[k] = v[k]
  <2>1. FromHexString(u)[k] = Base * u[2*k - 1] + u[2*k]
    BY DEF FromHexString
  <2> HIDE DEF u, v
  <2>2. k \in Nat /\ k > 0 /\ 2*k - 1 \in 1..(Len(s) + Len(t)) /\ 2*k \in 1..(Len(s) + Len(t))
    BY <1>1, <1>2, <1>3
  <2>3. CASE k <= Len(s) \div 2
    <3>1. 2*k - 1 <= Len(s) /\ 2*k <= Len(s) /\ k \in 1..(Len(s) \div 2)
      BY <1>1, <2>2, <2>3
    <3>2. u[2*k - 1] = s[2*k - 1] /\ u[2*k] = s[2*k]
      BY <1>2, <2>2, <3>1
    <3>3. FromHexString(s)[k] = Base * s[2*k - 1] + s[2*k]
      BY <3>1 DEF FromHexString
    <3> QED
      BY <1>5, <2>1, <2>3, <3>2, <3>3
  <2>4. CASE ~(k <= Len(s) \div 2)
    <3> DEFINE j == k - (Len(s) \div 2)
    <3>1. /\ j \in 1..(Len(t) \div 2)
          /\ ~(2*k - 1 <= Len(s)) /\ ~(2*k <= Len(s))
          /\ (2*k - 1) - Len(s) = 2*j - 1 /\ 2*k - Len(s) = 2*j
      <4>1. PICK p \in Nat : Len(s) = 2*p /\ Len(s) \div 2 = p
        BY <1>1
      <4>2. k \in Nat /\ k <= p + (Len(t) \div 2) /\ ~(k <= p)
        BY <1>3, <2>2, <2>4, <4>1
      <4>3. Len(t) \div 2 \in Nat
        BY <1>1
      <4> QED
        BY <4>1, <4>2, <4>3
    <3> HIDE DEF j
    <3>2. u[2*k - 1] = t[2*j - 1] /\ u[2*k] = t[2*j]
      BY <1>2, <2>2, <3>1
    <3>3. FromHexString(t)[j] = Base * t[2*j - 1] + t[2*j]
      BY <3>1 DEF FromHexString
    <3>4. v[k] = FromHexString(t)[j]
      BY <1>5, <2>4 DEF j
    <3> QED
      BY <2>1, <3>2, <3>3, <3>4
  <2> QED
    BY <2>3, <2>4
<1>8. FromHexString(u) = v
  <2> DEFINE w == FromHexString(u)
  <2>1. w \in ByteArray /\ v \in ByteArray /\ Len(w) = Len(v) /\ \A k \in 1..Len(w) : w[k] = v[k]
    BY <1>5, <1>6, <1>7
  <2> HIDE DEF w, v
  <2>2. w = v
    BY <2>1, SeqEqual DEF ByteArray
  <2> QED
    BY <2>2 DEF w
<1> QED
  BY <1>2, <1>3, <1>8

LEMMA SameHex ==
  ASSUME NEW x \in ByteArray
  PROVE  byteArrayToHex(x) = ToHexString(x)
<1> DEFINE n == Len(x)
           S == 0..(Base - 1)
           pair(y) == SubSeq(<<0>> \o ToDigits(y), Len(<<0>> \o ToDigits(y)) - 1, Len(<<0>> \o ToDigits(y)))
           seqs == [i \in 1..n |-> pair(x[i])]
<1>1. n \in Nat /\ DOMAIN x = 1..n /\ \A i \in 1..n : x[i] \in 0..(ByteBase - 1)
  BY Elements
<1>2. byteArrayToHex(x) = FlattenSeq(seqs)
  BY <1>1 DEF byteArrayToHex
<1>3. ASSUME NEW y \in 0..(ByteBase - 1)
      PROVE  /\ pair(y) \in Seq(S) /\ Len(pair(y)) = 2
             /\ pair(y)[1] = y \div Base /\ pair(y)[2] = y % Base
  <2>1. /\ y \div Base \in S /\ y % Base \in S /\ 0 \in S
        /\ y < Base => y \div Base = 0 /\ y % Base = y
    <3>1. 0 \in S
      BY Sizes
    <3> QED
      BY <3>1, TwoDigits
  <2>2. CASE y < Base
    <3>1. ToDigits(y) = <<y>> /\ y \in S
      BY <2>1, <2>2 DEF ToDigits
    <3>2. <<0>> \o ToDigits(y) = <<0, y>> /\ SubSeq(<<0, y>>, 1, 2) = <<0, y>>
      <4> HIDE DEF S
      <4>1. 0 \in S /\ y \in S
        BY <2>1, <3>1
      <4>2. <<0>> \o <<y>> = <<0, y>> /\ SubSeq(<<0, y>>, 1, 2) = <<0, y>>
        BY <4>1, Pair, Zenon
      <4> QED
        BY <3>1, <4>2
    <3>3. pair(y) = SubSeq(<<0, y>>, Len(<<0, y>>) - 1, Len(<<0, y>>))
      BY <3>2
    <3>4. Len(<<0, y>>) = 2 /\ 2 - 1 = 1
      OBVIOUS
    <3>5. pair(y) = <<0, y>>
      BY <3>2, <3>3, <3>4
    <3> QED
      BY <2>1, <2>2, <3>1, <3>5
  <2>3. CASE ~(y < Base)
    <3> DEFINE a == y \div Base
               b == y % Base
    <3>1. ToDigits(y) = <<a, b>> /\ a \in S /\ b \in S
      BY <2>1, <2>3 DEF ToDigits
    <3> HIDE DEF a, b
    <3>2. <<0>> \o ToDigits(y) = <<0, a, b>> /\ SubSeq(<<0, a, b>>, 2, 3) = <<a, b>>
      <4> HIDE DEF S
      <4>1. 0 \in S /\ a \in S /\ b \in S
        BY <2>1, <3>1
      <4>2. <<0>> \o <<a, b>> = <<0, a, b>> /\ SubSeq(<<0, a, b>>, 2, 3) = <<a, b>>
        BY <4>1, Triple, Zenon
      <4> QED
        BY <3>1, <4>2
    <3>3. pair(y) = SubSeq(<<0, a, b>>, Len(<<0, a, b>>) - 1, Len(<<0, a, b>>))
      BY <3>2
    <3>4. Len(<<0, a, b>>) = 3 /\ 3 - 1 = 2
      OBVIOUS
    <3>5. pair(y) = <<a, b>>
      BY <3>2, <3>3, <3>4
    <3> QED
      BY <3>1, <3>5 DEF a, b
  <2> QED
    BY <2>2, <2>3
<1> HIDE DEF pair, n
<1>4. seqs \in [1..n -> Seq(S)] /\ \A i \in 1..n : Len(seqs[i]) = 2
  BY <1>1, <1>3
<1>5. FlattenSeq(seqs) = Joined(seqs, n)
  <2> HIDE DEF seqs, S
  <2> QED
    BY <1>1, <1>4, FlattenPairs
<1>6. ASSUME NEW k \in 1..(2 * n)
      PROVE  Joined(seqs, n)[k] = ToHexString(x)[k]
  <2>1. ToHexString(x)[k] = IF k % 2 = 1 THEN x[(k + 1) \div 2] \div Base ELSE x[k \div 2] % Base
    BY DEF ToHexString, n
  <2>2. (k + 1) \div 2 \in 1..n /\ (k % 2 # 1 => (k + 1) \div 2 = k \div 2)
    BY <1>1
  <2>3. Joined(seqs, n)[k] = pair(x[(k + 1) \div 2])[IF k % 2 = 1 THEN 1 ELSE 2]
    BY <2>2 DEF Joined
  <2> QED
    BY <1>1, <1>3, <2>1, <2>2, <2>3
<1>7. Joined(seqs, n) = ToHexString(x)
  <2>1. DOMAIN Joined(seqs, n) = 1..(2 * n)
    BY DEF Joined
  <2>2. DOMAIN ToHexString(x) = 1..(2 * n)
    BY DEF ToHexString, n
  <2> QED
    BY <1>6, <2>1, <2>2 DEF Joined, ToHexString, n
<1> QED
  BY <1>2, <1>5, <1>7

LEMMA Weights ==
  /\ Weight[0] = 1
  /\ \A n \in Nat : Weight[n] \in Nat /\ Weight[n] > 0 /\ Weight[n + 1] = ByteBase * Weight[n]
<1> DEFINE Is(w) == w = [i \in Nat |-> IF i = 0 THEN 1 ELSE ByteBase * w[i - 1]]
<1>1. PICK w \in [Nat -> Nat] : w[0] = 1 /\ \A n \in Nat : w[n + 1] = ByteBase * w[n]
  BY PowersExist, Sizes
<1>2. Is(w)
  <2>1. ASSUME NEW i \in Nat PROVE w[i] = IF i = 0 THEN 1 ELSE ByteBase * w[i - 1]
    <3>1. CASE i = 0
      BY <3>1, <1>1
    <3>2. CASE i # 0
      <4>1. i - 1 \in Nat /\ (i - 1) + 1 = i
        BY <3>2
      <4> QED
        BY <1>1, <3>2, <4>1
    <3> QED
      BY <3>1, <3>2
  <2> QED
    BY <1>1, <2>1
<1>3. Is(Weight)
  <2>1. Weight = CHOOSE v : Is(v)
    BY DEF Weight
  <2> HIDE DEF Is
  <2> QED
    BY <1>2, <2>1
<1>4. Weight[0] = 1
  BY <1>3
<1>5. ASSUME NEW n \in Nat PROVE Weight[n + 1] = ByteBase * Weight[n]
  <2>1. n + 1 \in Nat /\ n + 1 # 0 /\ (n + 1) - 1 = n
    OBVIOUS
  <2> QED
    BY <1>3, <2>1
<1>6. \A n \in Nat : Weight[n] \in Nat /\ Weight[n] > 0
  <2> DEFINE T == {n \in Nat : Weight[n] \in Nat /\ Weight[n] > 0}
  <2>1. 0 \in T
    BY <1>4
  <2>2. ASSUME NEW n \in Nat, n \in T PROVE n + 1 \in T
    <3>1. \A v \in Nat : v > 0 => ByteBase * v \in Nat /\ ByteBase * v > 0
      BY Sizes
    <3> QED
      BY <1>5, <2>2, <3>1
  <2>3. Nat \subseteq T
    <3> HIDE DEF T
    <3> QED
      BY <2>1, <2>2, SetInduction
  <2> QED
    BY <2>3
<1> QED
  BY <1>4, <1>5, <1>6

LEMMA Quotients ==
  \A n \in Nat, w \in Nat : w > 0 =>
    /\ (n \div w) % ByteBase \in 0..(ByteBase - 1)
    /\ n < w => n \div w = 0
    /\ 0 % ByteBase = 0
<1>1. \A n \in Nat, w \in Nat : w > 0 => n \div w \in Nat /\ (n < w => n \div w = 0)
  OBVIOUS
<1>2. \A q \in Nat : q % ByteBase \in 0..(ByteBase - 1)
  BY Sizes
<1>3. 0 % ByteBase = 0
  BY Sizes
<1> QED
  BY <1>1, <1>2, <1>3

LEMMA LittleEndianType ==
  ASSUME NEW n \in Nat, NEW size \in Nat
  PROVE  LittleEndian(n, size) \in ByteArray /\ Len(LittleEndian(n, size)) = size
<1>1. ASSUME NEW i \in 1..size PROVE (n \div Weight[i - 1]) % ByteBase \in 0..(ByteBase - 1)
  <2>1. i - 1 \in Nat
    OBVIOUS
  <2> QED
    BY <2>1, Weights, Quotients
<1> QED
  BY <1>1 DEF LittleEndian, ByteArray

LEMMA LowerHalf ==
  ASSUME NEW n \in 0..(Weight[4] - 1)
  PROVE  LittleEndian(n, 4) \o LittleEndian(0, 4) = LittleEndian(n, 8)
<1> DEFINE s == LittleEndian(n, 4)
           t == LittleEndian(0, 4)
           u == LittleEndian(n, 8)
<1>1. n \in Nat /\ n < Weight[4]
  BY Weights
<1>2. s \in ByteArray /\ t \in ByteArray /\ u \in ByteArray /\ Len(s) = 4 /\ Len(t) = 4 /\ Len(u) = 8
  BY <1>1, LittleEndianType
<1>3. /\ s \o t \in ByteArray /\ Len(s \o t) = 8
      /\ \A k \in 1..8 : (s \o t)[k] = IF k <= 4 THEN s[k] ELSE t[k - 4]
  <2> HIDE DEF s, t
  <2>1. /\ s \o t \in ByteArray /\ Len(s \o t) = Len(s) + Len(t)
        /\ \A k \in 1..(Len(s) + Len(t)) : (s \o t)[k] = IF k <= Len(s) THEN s[k] ELSE t[k - Len(s)]
    BY <1>2, ConcatProperties DEF ByteArray
  <2>2. Len(s) + Len(t) = 8
    BY <1>2
  <2> QED
    BY <1>2, <2>1, <2>2
<1>4. \A k \in 4..7 : Weight[k] \in Nat /\ Weight[k] >= Weight[4]
  <2>1. \A v \in Nat : ByteBase * v \in Nat /\ ByteBase * v >= v
    BY Sizes
  <2>2. Weight[5] = ByteBase * Weight[4] /\ Weight[6] = ByteBase * Weight[5]
        /\ Weight[7] = ByteBase * Weight[6] /\ Weight[4] \in Nat
    BY Weights
  <2>3. Weight[5] \in Nat /\ Weight[5] >= Weight[4]
    BY <2>1, <2>2
  <2>4. Weight[6] \in Nat /\ Weight[6] >= Weight[5]
    BY <2>1, <2>2, <2>3
  <2>5. Weight[7] \in Nat /\ Weight[7] >= Weight[6]
    BY <2>1, <2>2, <2>4
  <2> QED
    BY <2>2, <2>3, <2>4, <2>5
<1>5. ASSUME NEW k \in 1..8 PROVE (s \o t)[k] = u[k]
  <2>1. u[k] = (n \div Weight[k - 1]) % ByteBase
    BY DEF LittleEndian
  <2>2. CASE k <= 4
    <3>1. s[k] = (n \div Weight[k - 1]) % ByteBase
      BY <2>2 DEF LittleEndian
    <3> QED
      BY <1>3, <2>1, <2>2, <3>1
  <2>3. CASE ~(k <= 4)
    <3>1. k - 4 \in 1..4 /\ (k - 4) - 1 \in Nat /\ k - 1 \in 4..7
      BY <2>3
    <3>2. t[k - 4] = (0 \div Weight[(k - 4) - 1]) % ByteBase
      BY <3>1 DEF LittleEndian
    <3>3. 0 \div Weight[(k - 4) - 1] = 0
      BY <3>1, Weights, Quotients
    <3>4. n \div Weight[k - 1] = 0
      <4>1. Weight[k - 1] \in Nat /\ Weight[k - 1] > 0 /\ n < Weight[k - 1]
        BY <1>1, <1>4, <3>1, Weights
      <4> QED
        BY <1>1, <4>1, Quotients
    <3> QED
      BY <1>3, <2>1, <2>3, <3>2, <3>3, <3>4
  <2> QED
    BY <2>2, <2>3
<1> DEFINE v == s \o t
<1>6. v \in ByteArray /\ u \in ByteArray /\ Len(v) = Len(u) /\ \A k \in 1..Len(v) : v[k] = u[k]
  BY <1>2, <1>3, <1>5
<1> HIDE DEF v, u
<1>7. v = u
  BY <1>6, SeqEqual DEF ByteArray
<1> QED
  BY <1>7 DEF v, u

(* The contents that are signed, in hex, and those the server takes from the *)
(* message, in bytes.                                                        *)
LEMMA ContentsAgree ==
  /\ hexToBytes(trueByte) = SerializeBool(TRUE) /\ SerializeBool(TRUE) \in ByteArray
  /\ \A l \in [latitude : Nat, longitude : Nat] :
       hexToBytes(LocationToHex(l)) = SerializeLocation(l) /\ SerializeLocation(l) \in ByteArray
<1>1. hexToBytes(trueByte) = SerializeBool(TRUE) /\ SerializeBool(TRUE) \in ByteArray
  <2>1. trueByte \in HexString /\ Len(trueByte) = 2 /\ 2 % 2 = 0 /\ 2 \div 2 = 1
    BY Sizes DEF trueByte, HexString
  <2>2. hexToBytes(trueByte) = FromHexString(trueByte)
    BY <2>1, EvenHexToBytes
  <2>3. FromHexString(trueByte) = [i \in 1..1 |-> Base * trueByte[2*i - 1] + trueByte[2*i]]
    BY <2>1 DEF FromHexString
  <2>4. ASSUME NEW i \in 1..1 PROVE Base * trueByte[2*i - 1] + trueByte[2*i] = 1
    <3>1. i = 1 /\ 2*1 - 1 = 1 /\ 2*1 = 2 /\ trueByte[1] = 0 /\ trueByte[2] = 1
      BY DEF trueByte
    <3>2. Base * 0 + 1 = 1
      BY Sizes
    <3> QED
      BY <3>1, <3>2
  <2>5. FromHexString(trueByte) = [i \in 1..1 |-> 1]
    BY <2>3, <2>4
  <2>6. [i \in 1..1 |-> 1] = <<1>>
    OBVIOUS
  <2>7. <<1>> \in ByteArray
    BY Sizes DEF ByteArray
  <2> QED
    BY <2>2, <2>5, <2>6, <2>7 DEF SerializeBool
<1>2. ASSUME NEW l \in [latitude : Nat, longitude : Nat]
      PROVE  hexToBytes(LocationToHex(l)) = SerializeLocation(l) /\ SerializeLocation(l) \in ByteArray
  <2> DEFINE x == LittleEndian(l.latitude, FloatSize)
             y == LittleEndian(l.longitude, FloatSize)
  <2>1. x \in ByteArray /\ y \in ByteArray
    BY Sizes, LittleEndianType
  <2>2. LocationToHex(l) = ToHexString(x) \o ToHexString(y)
    BY <2>1, SameHex DEF LocationToHex, serializeFloat64
  <2>3. SerializeLocation(l) = x \o y
    BY DEF SerializeLocation
  <2> HIDE DEF x, y
  <2>7. x \o y \in ByteArray
    BY <2>1, ConcatProperties DEF ByteArray
  <2> DEFINE s == ToHexString(x)
             t == ToHexString(y)
  <2>4. s \in HexString /\ t \in HexString /\ Len(s) % 2 = 0 /\ Len(t) % 2 = 0
    <3>1. \A n \in Nat : (2 * n) % 2 = 0
      OBVIOUS
    <3> QED
      BY <2>1, <3>1, ToHexStringType, Elements
  <2>5. FromHexString(s) = x /\ FromHexString(t) = y
    BY <2>1, HexIsInverted
  <2> HIDE DEF s, t
  <2>6. hexToBytes(s \o t) = FromHexString(s) \o FromHexString(t)
    BY <2>4, BytesOfConcat, EvenHexToBytes
  <2> QED
    BY <2>2, <2>3, <2>5, <2>6, <2>7 DEF s, t
<1> QED
  BY <1>1, <1>2

LEMMA LocationHexType ==
  ASSUME NEW l \in [latitude : Nat, longitude : Nat]
  PROVE  LocationToHex(l) \in HexString
<1> DEFINE x == LittleEndian(l.latitude, FloatSize)
           y == LittleEndian(l.longitude, FloatSize)
<1>1. x \in ByteArray /\ y \in ByteArray
  BY Sizes, LittleEndianType
<1>2. LocationToHex(l) = ToHexString(x) \o ToHexString(y)
  BY <1>1, SameHex DEF LocationToHex, serializeFloat64
<1> HIDE DEF x, y
<1> DEFINE s == ToHexString(x)
           t == ToHexString(y)
<1>3. s \in HexString /\ t \in HexString
  BY <1>1, ToHexStringType
<1> HIDE DEF s, t
<1>4. s \o t \in HexString
  BY <1>3, ConcatProperties DEF HexString
<1> QED
  BY <1>2, <1>4 DEF s, t

(* The page and the server serialize a message to the same bytes.           *)
LEMMA SameBytes ==
  ASSUME NEW m, NEW contents \in ByteArray, hexToBytes(m.contents) = contents,
         m.id \in HexString, Len(m.id) % 2 = 0, m.salt \in HexString, Len(m.salt) % 2 = 0,
         m.unixTime \in 0..(Weight[4] - 1)
  PROVE  serialize(m) = SerializeMessage(contents, m)
<1> DEFINE a == contents \o FromHexString(m.id) \o FromHexString(m.salt)
           x == LittleEndian(m.unixTime, 4)
           y == LittleEndian(0, 4)
<1>1. hexToBytes(m.id) = FromHexString(m.id) /\ hexToBytes(m.salt) = FromHexString(m.salt)
  BY EvenHexToBytes
<1>2. serialize(m) = (a \o x) \o y
  BY <1>1 DEF serialize, putInt32Le
<1>3. SerializeMessage(contents, m) = a \o LittleEndian(m.unixTime, 8)
  BY DEF SerializeMessage
<1>4. x \o y = LittleEndian(m.unixTime, 8)
  BY LowerHalf
<1>5. x \in ByteArray /\ y \in ByteArray
  <2>1. m.unixTime \in Nat
    BY Weights
  <2> QED
    BY <2>1, LittleEndianType
<1>6. a \in ByteArray
  <2> DEFINE p == FromHexString(m.id)
             q == FromHexString(m.salt)
  <2>1. p \in ByteArray /\ q \in ByteArray
    BY FromHexStringType
  <2> HIDE DEF p, q
  <2>2. contents \o p \in ByteArray
    BY <2>1, ConcatProperties DEF ByteArray
  <2>3. (contents \o p) \o q \in ByteArray
    BY <2>1, <2>2, ConcatProperties DEF ByteArray
  <2> QED
    BY <2>3 DEF p, q
<1> HIDE DEF a, x, y
<1>7. (a \o x) \o y = a \o (x \o y)
  <2> DEFINE S == 0..(ByteBase - 1)
  <2>1. a \in Seq(S) /\ x \in Seq(S) /\ y \in Seq(S)
    BY <1>5, <1>6 DEF ByteArray
  <2> HIDE DEF S
  <2> QED
    <3>1. ASSUME NEW s \in Seq(S), NEW t \in Seq(S), NEW u \in Seq(S)
          PROVE  (s \o t) \o u = s \o (t \o u)
      BY ConcatAssociative, SMTT(40)
    <3> QED
      BY <2>1, <3>1
<1> QED
  BY <1>2, <1>3, <1>4, <1>7

(* What JSON alters, it alters once. *)
LEMMA Arrivals ==
  \A l \in Location \union {Arrived(m) : m \in Location} :
    /\ l \in [latitude : Nat, longitude : Nat]
    /\ Arrived(l) \in [latitude : Nat, longitude : Nat]
    /\ Arrived(Arrived(l)) = Arrived(l)
<1>1. \A l \in Location : l \in [latitude : Nat, longitude : Nat]
  <2>1. Double \subseteq Nat
    BY DEF Double
  <2> QED
    BY <2>1, ClientAssumption
<1>2. \A x \in Nat : ThroughJSON(x) \in Nat /\ ThroughJSON(ThroughJSON(x)) = ThroughJSON(x)
  BY DEF ThroughJSON
<1>3. ASSUME NEW l \in [latitude : Nat, longitude : Nat]
      PROVE  Arrived(l) \in [latitude : Nat, longitude : Nat] /\ Arrived(Arrived(l)) = Arrived(l)
  BY <1>2 DEF Arrived
<1> QED
  BY <1>1, <1>3

-----------------------------------------------------------------------------
(* What is known of the credentials *)

LEMMA Assumptions ==
  /\ DOMAIN ID = 1..Len(ID) /\ Len(ID) \in Nat
  /\ \A n \in DOMAIN ID : /\ ID[n] \in ByteArray
                          /\ ToHexString(ID[n]) \in HexString /\ Len(ToHexString(ID[n])) % 2 = 0
                          /\ FromHexString(ToHexString(ID[n])) = ID[n]
  /\ \A m, n \in DOMAIN ID : ID[m] = ID[n] => m = n
  /\ \A s \in Salt : bytesToHex(s) \in HexString /\ Len(bytesToHex(s)) % 2 = 0
  /\ Keys = Key \union {DefaultKey} /\ DefaultKey \notin Key /\ None \notin Keys
  /\ None # TRUE /\ MaxFailures \in Nat
<1>1. /\ DOMAIN ID = 1..Len(ID) /\ Len(ID) \in Nat
      /\ \A n \in DOMAIN ID : ID[n] \in ByteArray
  <2>1. ID \in Seq(ByteArray)
    BY ClientAssumption
  <2> QED
    BY <2>1, ElementOfSeq, LenProperties
<1>2. ASSUME NEW x \in ByteArray
      PROVE  /\ ToHexString(x) \in HexString /\ Len(ToHexString(x)) % 2 = 0
             /\ FromHexString(ToHexString(x)) = x
  <2>1. \A n \in Nat : (2 * n) % 2 = 0
    OBVIOUS
  <2> QED
    BY <2>1, ToHexStringType, HexIsInverted, Elements
<1>3. \A x : bytesToHex(x) = ToHexString(x)
  BY DEF bytesToHex, ToHexString
<1>4. \A s \in Salt : bytesToHex(s) \in HexString /\ Len(bytesToHex(s)) % 2 = 0
  BY <1>2, <1>3, ClientAssumption
<1> QED
  BY <1>1, <1>2, <1>4, ClientAssumption DEF Keys

LEMMA Numbers ==
  ASSUME NEW k, NEW n \in DOMAIN ID
  PROVE  Number(IssuedBy(k, n)) = n
<1>1. \A m \in DOMAIN ID : ToHexString(ID[m]) = ToHexString(ID[n]) => m = n
  BY Assumptions
<1>2. Number(IssuedBy(k, n)) = CHOOSE m \in DOMAIN ID : ToHexString(ID[m]) = ToHexString(ID[n])
  BY DEF Number, IssuedBy
<1> QED
  BY <1>1, <1>2

LEMMA KnownCredentials ==
  ASSUME TypeOK, NEW c \in Known
  PROVE  /\ c \in Credential /\ Number(c) \in 1..issued
         /\ FromHexString(c.id) \in {ID[n] : n \in 1..issued}
<1>1. PICK k \in Keys, n \in 1..issued : c = IssuedBy(k, n)
  BY DEF Known
<1>2. k \in Keys /\ n \in DOMAIN ID
  BY <1>1, Assumptions DEF TypeOK
<1>3. Number(c) = n /\ FromHexString(c.id) = ID[n]
  BY <1>1, <1>2, Numbers, Assumptions DEF IssuedBy
<1> QED
  BY <1>1, <1>2, <1>3 DEF Credential

LEMMA StaysKnown ==
  ASSUME TypeOK, TypeOK', issued <= issued'
  PROVE  Known \subseteq Known'
BY DEF Known, TypeOK

LEMMA StaysSigned ==
  ASSUME NEW call, NEW contents, NEW K, NEW L, K \subseteq L, IsSigned(call, contents, K)
  PROVE  IsSigned(call, contents, L)
BY DEF IsSigned

(* Contents as the page signs them and as the server serializes them. *)
AreSame(hex, bytes) == bytes \in ByteArray /\ hexToBytes(hex) = bytes

LEMMA SignedIsValid ==
  ASSUME TypeOK, NEW c \in Call, calls[c] # None, calls[c].message \in Message,
         NEW hex, AreSame(hex, ContentsArrived(calls[c])), IsSigned(calls[c], hex, Known)
  PROVE  /\ calls[c].hmac.keyedWith.keyedWith \in Keys
         /\ IsSignedWith(calls[c], calls[c].hmac.keyedWith.keyedWith)
<1> DEFINE m == calls[c].message
           bytes == ContentsArrived(calls[c])
<1>1. PICK k \in Keys, n \in 1..issued :
        /\ IssuedBy(k, n).id = m.id
        /\ calls[c].hmac = getSignature(IssuedBy(k, n), m)
        /\ m.contents = hex
  BY DEF IsSigned, Known
<1>2. m.id = ToHexString(ID[n]) /\ n \in DOMAIN ID
  BY <1>1, Assumptions DEF IssuedBy, TypeOK
<1>3. calls[c].hmac = HMAC(GenerateSecret(k, ID[n]), serialize(m))
  BY <1>1 DEF IssuedBy, getSignature
<1>4. calls[c].hmac.keyedWith.keyedWith = k
  BY <1>3 DEF HMAC, GenerateSecret
<1>5. serialize(m) = SerializeMessage(bytes, m)
  <2>1. m.id \in HexString /\ Len(m.id) % 2 = 0
    BY <1>2, Assumptions
  <2>2. m.salt \in HexString /\ Len(m.salt) % 2 = 0 /\ m.unixTime \in 0..(Weight[4] - 1)
    <3>1. m.salt \in {bytesToHex(x) : x \in Salt} /\ m.unixTime \in Time
      BY DEF Message
    <3> HIDE DEF m
    <3>2. PICK x \in Salt : m.salt = bytesToHex(x)
      BY <3>1
    <3>3. m.unixTime \in 0..(Weight[4] - 1) /\ x \in ByteArray
      BY <3>1, ClientAssumption
    <3> QED
      BY <3>2, <3>3, Assumptions
  <2>3. bytes \in ByteArray /\ hexToBytes(m.contents) = bytes
    BY <1>1 DEF AreSame
  <2> HIDE DEF m, bytes
  <2> QED
    BY <2>1, <2>2, <2>3, SameBytes
<1>6. FromHexString(m.id) = ID[n]
  BY <1>2, Assumptions
<1> QED
  BY <1>3, <1>4, <1>5, <1>6 DEF IsSignedWith

-----------------------------------------------------------------------------
(* What a step does to one call: the others stay as they are. *)

OthersStay(c) == DOMAIN calls' = Call /\ \A d \in Call \ {c} : calls'[d] = calls[d]

SameRequest(x, y) ==
  /\ x.kind = y.kind /\ x.about = y.about /\ x.message = y.message /\ x.hmac = y.hmac

LEMMA NewCallType ==
  ASSUME NEW kind, NEW about, NEW signed,
         \/ kind = "credential" /\ about \in BOOLEAN /\ signed.message \in Message \union {None}
         \/ kind = "post" /\ about \in Location /\ signed.message \in Message
         \/ kind = "locations" /\ about \in Asked /\ signed.message = None
  PROVE  /\ IsCall(NewCall(kind, about, signed))
         /\ NewCall(kind, about, signed).status = "sent"
         /\ NewCall(kind, about, signed).kind = kind
         /\ NewCall(kind, about, signed).about = about
         /\ NewCall(kind, about, signed).message = signed.message
         /\ NewCall(kind, about, signed).hmac = signed.hmac
BY DEF NewCall, IsCall, Status

LEMMA SignType ==
  ASSUME TypeOK, credential # None, credential \in Known,
         NEW contents \in HexString, NEW salt \in Salt, NEW time \in Time
  PROVE  LET signed == Sign(contents, salt, time)
         IN  /\ signed.message \in Message /\ signed.message.contents = contents
             /\ signed.message.id = credential.id
             /\ signed.hmac = getSignature(credential, signed.message)
BY KnownCredentials DEF Sign, Message

LEMMA CallMade ==
  ASSUME TypeOK, NEW c \in Call, NEW call, ajax(c, call)
  PROVE  OthersStay(c) /\ calls'[c] = call /\ calls[c] = None
BY DEF ajax, OthersStay, TypeOK

LEMMA CallReturned ==
  ASSUME TypeOK, NEW c \in Call, calls' = [calls EXCEPT ![c] = None]
  PROVE  OthersStay(c) /\ calls'[c] = None
BY DEF OthersStay, TypeOK

LEMMA CallClosed ==
  ASSUME TypeOK, NEW c \in Call, calls[c] # None,
         NEW status \in Status, NEW contents, Close(c, status, contents)
  PROVE  /\ OthersStay(c) /\ IsCall(calls'[c]) /\ SameRequest(calls'[c], calls[c])
         /\ calls'[c].status = status /\ calls'[c].contents = contents
<1>1. IsCall(calls[c]) /\ DOMAIN calls = Call
  BY DEF TypeOK
<1>2. calls'[c] = [calls[c] EXCEPT !.status = status, !.contents = contents,
                                   !.checkedWith = None, !.late = FALSE, !.valid = FALSE]
  BY <1>1 DEF Close
<1>3. OthersStay(c)
  BY <1>1 DEF Close, OthersStay
<1> QED
  BY <1>1, <1>2, <1>3 DEF IsCall, SameRequest

LEMMA CallAnswered ==
  ASSUME TypeOK, NEW c \in Call, calls[c] # None, NEW contents, Answer(c, contents)
  PROVE  /\ OthersStay(c) /\ IsCall(calls'[c]) /\ SameRequest(calls'[c], calls[c])
         /\ calls'[c].status = "answered" /\ calls'[c].contents = contents
BY CallClosed DEF Answer, Status

LEMMA CallFailed ==
  ASSUME TypeOK, NEW c \in Call, calls[c] # None, Close(c, "failed", None)
  PROVE  /\ OthersStay(c) /\ IsCall(calls'[c]) /\ SameRequest(calls'[c], calls[c])
         /\ calls'[c].status = "failed"
BY CallClosed DEF Status

LEMMA CallChecked ==
  ASSUME TypeOK, NEW c \in Call, Check(c)
  PROVE  \E k \in Keys \union {None}, late \in BOOLEAN :
           /\ OthersStay(c) /\ IsCall(calls'[c]) /\ SameRequest(calls'[c], calls[c])
           /\ calls'[c].status = "checked" /\ calls'[c].checkedWith = k /\ calls'[c].late = late
           /\ calls'[c].valid = (k # None /\ ~late /\ IsSignedWith(calls[c], k))
<1>1. IsCall(calls[c]) /\ DOMAIN calls = Call
  BY DEF TypeOK, Check
<1>2. PICK k \in Keys \union {None}, late \in BOOLEAN :
        calls' = [calls EXCEPT ![c].status = "checked", ![c].checkedWith = k, ![c].late = late,
                               ![c].valid = k # None /\ ~late /\ IsSignedWith(calls[c], k)]
  BY DEF Check
<1> DEFINE v == k # None /\ ~late /\ IsSignedWith(calls[c], k)
<1>3. v \in BOOLEAN
  BY DEF IsSignedWith
<1> HIDE DEF v
<1>4. calls'[c] = [calls[c] EXCEPT !.status = "checked", !.checkedWith = k, !.late = late, !.valid = v]
  BY <1>1, <1>2 DEF v
<1>5. OthersStay(c)
  BY <1>1, <1>2 DEF OthersStay
<1>6. /\ IsCall(calls'[c]) /\ SameRequest(calls'[c], calls[c])
      /\ calls'[c].status = "checked" /\ calls'[c].checkedWith = k /\ calls'[c].late = late
      /\ calls'[c].valid = v
  BY <1>1, <1>3, <1>4 DEF IsCall, SameRequest, Status
<1> QED
  BY <1>5, <1>6 DEF v

-----------------------------------------------------------------------------
(* The invariant's steps, one lemma per event. *)

LEMMA InitInv == Init => IInv
<1> SUFFICES ASSUME Init PROVE IInv
  OBVIOUS
<1>1. PICK c \in Call :
        calls = [d \in Call |-> IF d = c THEN NewCall("credential", TRUE, Unsigned) ELSE None]
  BY DEF Init
<1>2. /\ IsCall(calls[c]) /\ calls[c].status = "sent" /\ calls[c].kind = "credential"
      /\ calls[c].message = None
  BY <1>1 DEF NewCall, IsCall, Status, Unsigned
<1>3. DOMAIN calls = Call /\ \A d \in Call : d # c => calls[d] = None
  BY <1>1
<1>4. TypeOK
  <2>1. \A d \in Call : calls[d] # None => IsCall(calls[d])
    BY <1>2, <1>3
  <2>2. failures \in 0..MaxFailures /\ issued \in 0..Len(ID)
    BY Assumptions DEF Init
  <2>5. Store!TypeOK
    BY DEF Init, Store!Init, Store!TypeOK
  <2>4. {enabled, watching, lost} \subseteq BOOLEAN /\ output \in SUBSET Row
    BY DEF Init, EnabledWhileAsking
  <2>3. recorded \in SUBSET [id : {ID[n] : n \in 1..issued}, location : Location]
    BY DEF Init
  <2> QED
    BY <1>3, <2>1, <2>2, <2>3, <2>4, <2>5 DEF Init, TypeOK
<1>5. OneCredentialAtATime
  <2>1. ~enabled
    BY DEF Init, EnabledWhileAsking
  <2> QED
    BY <1>3, <2>1 DEF OneCredentialAtATime, CallFor
<1>8. CredentialsAreKnown
  BY <1>2, <1>3 DEF Init, CredentialsAreKnown, CallFor, Answered
<1>6. CallsAreSigned /\ AnswersAreRecorded
  BY <1>2, <1>3 DEF CallsAreSigned, AnswersAreRecorded, CallFor, Answered
<1>7. ShownIsRecorded /\ NoFalseRefusal
  BY <1>2, <1>3 DEF Init, ShownIsRecorded, NoFalseRefusal
<1> QED
  BY <1>4, <1>5, <1>6, <1>7, <1>8 DEF IInv

(* A call that has just been made. *)
IsNew(call, kind) == IsCall(call) /\ call.status = "sent" /\ call.kind = kind

LEMMA CredentialAskedFor ==
  ASSUME IInv, NEW c \in Call, getCredential(c)
  PROVE  /\ OthersStay(c) /\ calls[c] = None /\ IsNew(calls'[c], "credential")
         /\ calls'[c].message # None => IsSigned(calls'[c], trueByte, Known)
<1>1. trueByte \in HexString
  BY Sizes DEF trueByte, HexString
<1>2. CASE credential = None
  <2>1. ajax(c, NewCall("credential", FALSE, Unsigned))
    BY <1>2 DEF getCredential
  <2> DEFINE call == NewCall("credential", FALSE, Unsigned)
  <2>2. IsCall(call) /\ call.status = "sent" /\ call.kind = "credential" /\ call.message = None
    BY DEF NewCall, IsCall, Status, Unsigned
  <2> HIDE DEF call
  <2>3. OthersStay(c) /\ calls'[c] = call /\ calls[c] = None
    BY <2>1, CallMade DEF IInv, call
  <2> QED
    BY <2>2, <2>3 DEF IsNew
<1>3. CASE credential # None
  <2>1. PICK s \in Salt, t \in Time : ajax(c, NewCall("credential", FALSE, Sign(trueByte, s, t)))
    BY <1>3 DEF getCredential
  <2> DEFINE signed == Sign(trueByte, s, t)
             call == NewCall("credential", FALSE, signed)
  <2>2. credential \in Known
    BY <1>3 DEF IInv, CredentialsAreKnown
  <2>3. /\ signed.message \in Message /\ signed.message.contents = trueByte
        /\ signed.message.id = credential.id
        /\ signed.hmac = getSignature(credential, signed.message)
    BY <1>1, <1>3, <2>2, SignType DEF IInv
  <2> HIDE DEF signed
  <2>4. /\ IsCall(call) /\ call.status = "sent" /\ call.kind = "credential"
        /\ call.message = signed.message /\ call.hmac = signed.hmac
    BY <2>3 DEF NewCall, IsCall, Status
  <2> HIDE DEF call
  <2>5. IsSigned(call, trueByte, Known)
    BY <2>2, <2>3, <2>4 DEF IsSigned
  <2>6. OthersStay(c) /\ calls'[c] = call /\ calls[c] = None
    BY <2>1, CallMade DEF IInv, call, signed
  <2> QED
    BY <2>4, <2>5, <2>6 DEF IsNew
<1> QED
  BY <1>2, <1>3

LEMMA PositionPosted ==
  ASSUME IInv, NEW c \in Call, NEW l \in Location, OnPosition(c, l)
  PROVE  /\ OthersStay(c) /\ calls[c] = None /\ IsNew(calls'[c], "post")
         /\ calls'[c].about = l /\ IsSigned(calls'[c], LocationToHex(l), Known)
<1>1. LocationToHex(l) \in HexString
  BY Arrivals, LocationHexType
<1>2. PICK s \in Salt, t \in Time : ajax(c, NewCall("post", l, Sign(LocationToHex(l), s, t)))
  BY DEF OnPosition
<1> DEFINE signed == Sign(LocationToHex(l), s, t)
           call == NewCall("post", l, signed)
<1>3. credential # None /\ credential \in Known
  BY DEF IInv, CredentialsAreKnown, OnPosition
<1>4. /\ signed.message \in Message /\ signed.message.contents = LocationToHex(l)
      /\ signed.message.id = credential.id
      /\ signed.hmac = getSignature(credential, signed.message)
  BY <1>1, <1>3, SignType DEF IInv
<1> HIDE DEF signed
<1>5. /\ IsCall(call) /\ call.status = "sent" /\ call.kind = "post" /\ call.about = l
      /\ call.message = signed.message /\ call.hmac = signed.hmac
  BY <1>4, NewCallType
<1> HIDE DEF call
<1>6. IsSigned(call, LocationToHex(l), Known)
  BY <1>3, <1>4, <1>5 DEF IsSigned
<1>7. OthersStay(c) /\ calls'[c] = call /\ calls[c] = None
  BY <1>2, CallMade DEF IInv, call, signed
<1> QED
  BY <1>5, <1>6, <1>7 DEF IsNew

LEMMA SignedCallsStay ==
  ASSUME IInv, NEW c \in Call, calls[c] # None, OthersStay(c), SameRequest(calls'[c], calls[c]),
         Known \subseteq Known'
  PROVE  CallsAreSigned'
<1>1. ASSUME NEW x, NEW y, SameRequest(x, y), NEW K, NEW L, K \subseteq L,
             IsSigned(y, ContentsToSign(y), K)
      PROVE  IsSigned(x, ContentsToSign(x), L)
  BY <1>1 DEF SameRequest, IsSigned, ContentsToSign
<1>2. SameRequest(calls'[c], calls[c]) /\ CallsAreSigned
  BY DEF IInv
<1>3. calls'[c].message # None => IsSigned(calls'[c], ContentsToSign(calls'[c]), Known')
  <2>1. calls'[c].message = calls[c].message
    BY <1>2 DEF SameRequest
  <2> QED
    BY <1>1, <1>2, <2>1 DEF CallsAreSigned
<1> QED
  BY <1>2, <1>3, StaysSigned DEF CallsAreSigned, OthersStay

LEMMA ClickInv ==
  ASSUME IInv, NEW c \in Call, Click(c)
  PROVE  IInv'
<1> USE DEF IInv, Click, EnabledWhileAsking, serverVars, keyVars, Store!TypeOK, IsNew
<1>a. Known' = Known
  BY DEF Known
<1>b. /\ OthersStay(c) /\ calls[c] = None /\ IsNew(calls'[c], "credential")
      /\ calls'[c].message # None => IsSigned(calls'[c], trueByte, Known)
  BY CredentialAskedFor
<1>1. TypeOK'
  BY <1>a, <1>b DEF TypeOK, OthersStay
<1>2. OneCredentialAtATime'
  BY <1>a, <1>b DEF OneCredentialAtATime, CallFor, OthersStay, SameRequest
<1>3. CredentialsAreKnown'
  BY <1>a, <1>b DEF CredentialsAreKnown, Answered, CallFor, OthersStay, SameRequest
<1>4. CallsAreSigned'
  BY <1>a, <1>b DEF CallsAreSigned, ContentsToSign, OthersStay, SameRequest
<1>5. AnswersAreRecorded'
  BY <1>a, <1>b DEF AnswersAreRecorded, Answered, CallFor, OthersStay, SameRequest
<1>6. ShownIsRecorded'
  BY <1>a, <1>b DEF ShownIsRecorded
<1>7. NoFalseRefusal'
  BY <1>a, <1>b DEF NoFalseRefusal, OthersStay, SameRequest
<1> QED
  BY <1>1, <1>2, <1>3, <1>4, <1>5, <1>6, <1>7 DEF IInv

LEMMA OnPositionInv ==
  ASSUME IInv, NEW c \in Call, NEW l \in Location, OnPosition(c, l)
  PROVE  IInv'
<1> USE DEF IInv, OnPosition, serverVars, keyVars, Store!TypeOK, IsNew
<1>a. Known' = Known
  BY DEF Known
<1>b. /\ OthersStay(c) /\ calls[c] = None /\ IsNew(calls'[c], "post")
      /\ calls'[c].about = l /\ IsSigned(calls'[c], LocationToHex(l), Known)
  BY PositionPosted
<1>1. TypeOK'
  BY <1>a, <1>b DEF TypeOK, OthersStay
<1>2. OneCredentialAtATime'
  BY <1>a, <1>b DEF OneCredentialAtATime, CallFor, OthersStay, SameRequest
<1>3. CredentialsAreKnown'
  BY <1>a, <1>b DEF CredentialsAreKnown, Answered, CallFor, OthersStay, SameRequest
<1>4. CallsAreSigned'
  BY <1>a, <1>b DEF CallsAreSigned, ContentsToSign, OthersStay, SameRequest
<1>5. AnswersAreRecorded'
  BY <1>a, <1>b DEF AnswersAreRecorded, Answered, CallFor, OthersStay, SameRequest
<1>6. ShownIsRecorded'
  BY <1>a, <1>b DEF ShownIsRecorded
<1>7. NoFalseRefusal'
  BY <1>a, <1>b DEF NoFalseRefusal, OthersStay, SameRequest
<1> QED
  BY <1>1, <1>2, <1>3, <1>4, <1>5, <1>6, <1>7 DEF IInv

LEMMA QueryInv ==
  ASSUME IInv, NEW c \in Call, NEW id \in Asked, Query(c, id)
  PROVE  IInv'
<1> USE DEF IInv, Query, serverVars, keyVars, Store!TypeOK, IsNew
<1>a. Known' = Known
  BY DEF Known
<1>b. /\ OthersStay(c) /\ calls[c] = None /\ IsNew(calls'[c], "locations")
      /\ calls'[c].message = None
  BY CallMade, NewCallType DEF Unsigned
<1>1. TypeOK'
  BY <1>a, <1>b DEF TypeOK, OthersStay
<1>2. OneCredentialAtATime'
  BY <1>a, <1>b DEF OneCredentialAtATime, CallFor, OthersStay, SameRequest
<1>3. CredentialsAreKnown'
  BY <1>a, <1>b DEF CredentialsAreKnown, Answered, CallFor, OthersStay, SameRequest
<1>4. CallsAreSigned'
  BY <1>a, <1>b DEF CallsAreSigned, ContentsToSign, OthersStay, SameRequest
<1>5. AnswersAreRecorded'
  BY <1>a, <1>b DEF AnswersAreRecorded, Answered, CallFor, OthersStay, SameRequest
<1>6. ShownIsRecorded'
  BY <1>a, <1>b DEF ShownIsRecorded
<1>7. NoFalseRefusal'
  BY <1>a, <1>b DEF NoFalseRefusal, OthersStay, SameRequest
<1> QED
  BY <1>1, <1>2, <1>3, <1>4, <1>5, <1>6, <1>7 DEF IInv

LEMMA OnCredentialInv ==
  ASSUME IInv, NEW c \in Call, OnCredential(c)
  PROVE  IInv'
<1> USE DEF IInv, OnCredential, serverVars, keyVars, Store!TypeOK
<1>a. Known' = Known
  BY DEF Known
<1>b. OthersStay(c) /\ calls'[c] = None
  BY CallReturned DEF Return
<1>c. calls[c] # None /\ calls[c].status = "answered" /\ calls[c].kind = "credential"
  BY DEF Return
<1>d. credential' # None => credential' \in Known
  BY <1>c DEF CredentialsAreKnown, Answered, CallFor
<1>e. credential' \in Credential \union {None}
  BY <1>d, KnownCredentials
<1>1. TypeOK'
  BY <1>a, <1>b, <1>c, <1>d, <1>e DEF TypeOK, OthersStay
<1>2. OneCredentialAtATime'
  BY <1>a, <1>b, <1>c, <1>d, <1>e DEF OneCredentialAtATime, CallFor, OthersStay, SameRequest
<1>3. CredentialsAreKnown'
  BY <1>a, <1>b, <1>c, <1>d, <1>e DEF CredentialsAreKnown, Answered, CallFor, OthersStay, SameRequest, OneCredentialAtATime
<1>4. CallsAreSigned'
  BY <1>a, <1>b, <1>c, <1>d, <1>e DEF CallsAreSigned, ContentsToSign, OthersStay, SameRequest
<1>5. AnswersAreRecorded'
  BY <1>a, <1>b, <1>c, <1>d, <1>e DEF AnswersAreRecorded, Answered, CallFor, OthersStay, SameRequest
<1>6. ShownIsRecorded'
  BY <1>a, <1>b, <1>c, <1>d, <1>e DEF ShownIsRecorded
<1>7. NoFalseRefusal'
  BY <1>a, <1>b, <1>c, <1>d, <1>e DEF NoFalseRefusal, OthersStay, SameRequest
<1> QED
  BY <1>1, <1>2, <1>3, <1>4, <1>5, <1>6, <1>7 DEF IInv

LEMMA OnPostedInv ==
  ASSUME IInv, NEW c \in Call, OnPosted(c)
  PROVE  IInv'
<1> USE DEF IInv, OnPosted, serverVars, keyVars, Store!TypeOK
<1>a. Known' = Known
  BY DEF Known
<1>b. OthersStay(c) /\ calls'[c] = None
  BY CallReturned DEF Return
<1>c. calls[c] # None /\ calls[c].status = "answered" /\ calls[c].kind = "post"
  BY DEF Return
<1>d. IsCall(calls[c]) /\ calls[c].about \in Location /\ calls[c].message \in Message
  BY <1>c DEF TypeOK, IsCall
<1>1. TypeOK'
  BY <1>a, <1>b, <1>c, <1>d DEF TypeOK, OthersStay, Row, Message
<1>2. OneCredentialAtATime'
  BY <1>a, <1>b, <1>c, <1>d DEF OneCredentialAtATime, CallFor, OthersStay, SameRequest
<1>3. CredentialsAreKnown'
  BY <1>a, <1>b, <1>c, <1>d DEF CredentialsAreKnown, Answered, CallFor, OthersStay, SameRequest
<1>4. CallsAreSigned'
  BY <1>a, <1>b, <1>c, <1>d DEF CallsAreSigned, ContentsToSign, OthersStay, SameRequest
<1>5. AnswersAreRecorded'
  BY <1>a, <1>b, <1>c, <1>d DEF AnswersAreRecorded, Answered, CallFor, OthersStay, SameRequest
<1>6. ShownIsRecorded'
  BY <1>a, <1>b, <1>c, <1>d DEF ShownIsRecorded, AnswersAreRecorded, Answered, CallFor
<1>7. NoFalseRefusal'
  BY <1>a, <1>b, <1>c, <1>d DEF NoFalseRefusal, OthersStay, SameRequest
<1> QED
  BY <1>1, <1>2, <1>3, <1>4, <1>5, <1>6, <1>7 DEF IInv

LEMMA OnLocationsInv ==
  ASSUME IInv, NEW c \in Call, OnLocations(c)
  PROVE  IInv'
<1> USE DEF IInv, OnLocations, RowsOf, serverVars, keyVars, Store!TypeOK
<1>a. Known' = Known
  BY DEF Known
<1>b. OthersStay(c) /\ calls'[c] = None
  BY CallReturned DEF Return
<1>c. calls[c] # None /\ calls[c].status = "answered" /\ calls[c].kind = "locations"
  BY DEF Return
<1>d. IsCall(calls[c]) /\ calls[c].about \in Asked
  BY <1>c DEF TypeOK, IsCall
<1>e. \A l \in calls[c].contents :
        [id |-> FromHexString(calls[c].about), location |-> l] \in recorded
  BY <1>c DEF AnswersAreRecorded, Answered, CallFor
<1>f. \A l \in calls[c].contents : l \in {Arrived(m) : m \in Location} /\ Arrived(l) = l
  BY <1>e, Arrivals DEF TypeOK
<1>1. TypeOK'
  BY <1>a, <1>b, <1>c, <1>d, <1>e, <1>f DEF TypeOK, OthersStay, Row
<1>2. OneCredentialAtATime'
  BY <1>a, <1>b, <1>c, <1>d, <1>e, <1>f DEF OneCredentialAtATime, CallFor, OthersStay, SameRequest
<1>3. CredentialsAreKnown'
  BY <1>a, <1>b, <1>c, <1>d, <1>e, <1>f DEF CredentialsAreKnown, Answered, CallFor, OthersStay, SameRequest
<1>4. CallsAreSigned'
  BY <1>a, <1>b, <1>c, <1>d, <1>e, <1>f DEF CallsAreSigned, ContentsToSign, OthersStay, SameRequest
<1>5. AnswersAreRecorded'
  BY <1>a, <1>b, <1>c, <1>d, <1>e, <1>f DEF AnswersAreRecorded, Answered, CallFor, OthersStay, SameRequest
<1>6. ShownIsRecorded'
  BY <1>a, <1>b, <1>c, <1>d, <1>e, <1>f DEF ShownIsRecorded
<1>7. NoFalseRefusal'
  BY <1>a, <1>b, <1>c, <1>d, <1>e, <1>f DEF NoFalseRefusal, OthersStay, SameRequest
<1> QED
  BY <1>1, <1>2, <1>3, <1>4, <1>5, <1>6, <1>7 DEF IInv

LEMMA OnErrorInv ==
  ASSUME IInv, NEW c \in Call, OnError(c)
  PROVE  IInv'
<1> USE DEF IInv, OnError, serverVars, keyVars, Store!TypeOK
<1>a. Known' = Known
  BY DEF Known
<1>b. OthersStay(c) /\ calls'[c] = None
  BY CallReturned
<1>1. TypeOK'
  BY <1>a, <1>b DEF TypeOK, OthersStay
<1>2. OneCredentialAtATime'
  BY <1>a, <1>b DEF OneCredentialAtATime, CallFor, OthersStay, SameRequest
<1>3. CredentialsAreKnown'
  BY <1>a, <1>b DEF CredentialsAreKnown, Answered, CallFor, OthersStay, SameRequest
<1>4. CallsAreSigned'
  BY <1>a, <1>b DEF CallsAreSigned, ContentsToSign, OthersStay, SameRequest
<1>5. AnswersAreRecorded'
  BY <1>a, <1>b DEF AnswersAreRecorded, Answered, CallFor, OthersStay, SameRequest
<1>6. ShownIsRecorded'
  BY <1>a, <1>b DEF ShownIsRecorded
<1>7. NoFalseRefusal'
  BY <1>a, <1>b DEF NoFalseRefusal, OthersStay, SameRequest
<1> QED
  BY <1>1, <1>2, <1>3, <1>4, <1>5, <1>6, <1>7 DEF IInv

LEMMA OnEmptyInv ==
  ASSUME IInv, NEW c \in Call, OnEmpty(c)
  PROVE  IInv'
<1> USE DEF IInv, OnEmpty, serverVars, keyVars, Store!TypeOK
<1>a. Known' = Known
  BY DEF Known
<1>b. OthersStay(c) /\ calls'[c] = None
  BY CallReturned
<1>1. TypeOK'
  BY <1>a, <1>b DEF TypeOK, OthersStay
<1>2. OneCredentialAtATime'
  BY <1>a, <1>b DEF OneCredentialAtATime, CallFor, OthersStay, SameRequest
<1>3. CredentialsAreKnown'
  BY <1>a, <1>b DEF CredentialsAreKnown, Answered, CallFor, OthersStay, SameRequest
<1>4. CallsAreSigned'
  BY <1>a, <1>b DEF CallsAreSigned, ContentsToSign, OthersStay, SameRequest
<1>5. AnswersAreRecorded'
  BY <1>a, <1>b DEF AnswersAreRecorded, Answered, CallFor, OthersStay, SameRequest
<1>6. ShownIsRecorded'
  BY <1>a, <1>b DEF ShownIsRecorded
<1>7. NoFalseRefusal'
  BY <1>a, <1>b DEF NoFalseRefusal, OthersStay, SameRequest
<1> QED
  BY <1>1, <1>2, <1>3, <1>4, <1>5, <1>6, <1>7 DEF IInv

LEMMA ValidWhenChecked ==
  ASSUME IInv, NEW c \in Call, calls[c] # None, calls[c].message # None, IsUnaltered(calls[c])
  PROVE  /\ calls[c].hmac.keyedWith.keyedWith \in Keys
         /\ IsSignedWith(calls[c], calls[c].hmac.keyedWith.keyedWith)
<1>1. IsCall(calls[c]) /\ calls[c].message \in Message
  BY DEF IInv, TypeOK, IsCall
<1>2. IsSigned(calls[c], ContentsToSign(calls[c]), Known)
  BY DEF IInv, CallsAreSigned
<1>3. AreSame(ContentsToSign(calls[c]), ContentsArrived(calls[c]))
  <2>1. CASE calls[c].kind = "post"
    <3>1. calls[c].about \in Location /\ Arrived(calls[c].about) = calls[c].about
      BY <1>1, <2>1 DEF IsCall, IsUnaltered
    <3>2. calls[c].about \in [latitude : Nat, longitude : Nat]
      BY <3>1, Arrivals
    <3> QED
      BY <2>1, <3>1, <3>2, ContentsAgree DEF AreSame, ContentsToSign, ContentsArrived
  <2>2. CASE calls[c].kind # "post"
    BY <2>2, ContentsAgree DEF AreSame, ContentsToSign, ContentsArrived
  <2> QED
    BY <2>1, <2>2
<1> QED
  BY <1>1, <1>2, <1>3, SignedIsValid DEF IInv

LEMMA IdentifierIsKnown ==
  ASSUME IInv, NEW c \in Call, calls[c] # None, calls[c].message # None
  PROVE  FromHexString(calls[c].message.id) \in {ID[n] : n \in 1..issued}
<1>1. PICK d \in Known : d.id = calls[c].message.id
  BY DEF IInv, CallsAreSigned, IsSigned
<1> QED
  BY <1>1, KnownCredentials DEF IInv

LEMMA CheckInv ==
  ASSUME IInv, NEW c \in Call, Check(c)
  PROVE  IInv'
<1> USE DEF IInv, serverVars, keyVars, Store!TypeOK
<1>a. calls[c] # None /\ calls[c].status = "sent" /\ calls[c].message # None
      /\ UNCHANGED <<credential, enabled, watching, output, serverVars, failures, lost>>
  BY DEF Check
<1>b. PICK k \in Keys \union {None}, late \in BOOLEAN :
        /\ OthersStay(c) /\ IsCall(calls'[c]) /\ SameRequest(calls'[c], calls[c])
        /\ calls'[c].status = "checked" /\ calls'[c].checkedWith = k /\ calls'[c].late = late
        /\ calls'[c].valid = (k # None /\ ~late /\ IsSignedWith(calls[c], k))
  BY CallChecked
<1>c. Known' = Known
  BY <1>a DEF Known
<1>1. TypeOK'
  BY <1>a, <1>b, <1>c DEF TypeOK, OthersStay
<1>2. OneCredentialAtATime'
  BY <1>a, <1>b, <1>c DEF OneCredentialAtATime, CallFor, OthersStay, SameRequest
<1>3. CredentialsAreKnown'
  BY <1>a, <1>b, <1>c DEF CredentialsAreKnown, Answered, CallFor, OthersStay, SameRequest
<1>4. CallsAreSigned'
  BY <1>a, <1>b, <1>c, SignedCallsStay
<1>5. AnswersAreRecorded'
  BY <1>a, <1>b, <1>c DEF AnswersAreRecorded, Answered, CallFor, OthersStay, SameRequest
<1>6. ShownIsRecorded'
  BY <1>a, <1>b, <1>c DEF ShownIsRecorded
<1>7. NoFalseRefusal'
  <2>1. ASSUME calls'[c].hmac.keyedWith.keyedWith = k, ~late, IsUnaltered(calls'[c])
        PROVE  calls'[c].valid
    <3>1. calls[c].hmac.keyedWith.keyedWith = k /\ IsUnaltered(calls[c])
      BY <1>b, <2>1 DEF SameRequest, IsUnaltered
    <3>2. k \in Keys /\ IsSignedWith(calls[c], k)
      BY <1>a, <3>1, ValidWhenChecked
    <3> QED
      BY <1>b, <2>1, <3>2, Assumptions
  <2> QED
    BY <1>b, <2>1 DEF NoFalseRefusal, OthersStay
<1> QED
  BY <1>1, <1>2, <1>3, <1>4, <1>5, <1>6, <1>7 DEF IInv

LEMMA ServeCredentialInv ==
  ASSUME IInv, NEW c \in Call, ServeCredential(c)
  PROVE  IInv'
<1> USE DEF IInv, ServeCredential, serverVars, keyVars, Store!TypeOK
<1>a. calls[c] # None /\ calls[c].status \in {"sent", "checked"} /\ calls[c].kind = "credential"
  BY DEF IsAt
<1>0. PICK k \in Keys : Answer(c, IssuedBy(k, issued + 1))
  OBVIOUS
<1>b. /\ OthersStay(c) /\ IsCall(calls'[c]) /\ SameRequest(calls'[c], calls[c])
      /\ calls'[c].status = "answered" /\ calls'[c].contents = IssuedBy(k, issued + 1)
  BY <1>a, <1>0, CallAnswered
<1>c. issued' = issued + 1 /\ issued + 1 \in 1..Len(ID) /\ issued \in Nat
  BY Assumptions DEF TypeOK
<1>d. Known \subseteq Known' /\ IssuedBy(k, issued + 1) \in Known'
  BY <1>c, Assumptions DEF Known, TypeOK
<1>e. Number(IssuedBy(k, issued + 1)) = issued + 1
  BY <1>c, Assumptions, Numbers
<1>f. credential # None => Number(credential) < issued + 1
  BY <1>c, KnownCredentials DEF CredentialsAreKnown
<1>1. TypeOK'
  BY <1>a, <1>b, <1>c, <1>d, <1>e, <1>f DEF TypeOK, OthersStay
<1>2. OneCredentialAtATime'
  BY <1>a, <1>b, <1>c, <1>d, <1>e, <1>f DEF OneCredentialAtATime, CallFor, OthersStay, SameRequest
<1>3. CredentialsAreKnown'
  BY <1>a, <1>b, <1>c, <1>d, <1>e, <1>f DEF CredentialsAreKnown, Answered, CallFor, OthersStay, SameRequest
<1>4. CallsAreSigned'
  BY <1>a, <1>b, <1>c, <1>d, <1>e, <1>f, SignedCallsStay
<1>5. AnswersAreRecorded'
  BY <1>a, <1>b, <1>c, <1>d, <1>e, <1>f DEF AnswersAreRecorded, Answered, CallFor, OthersStay, SameRequest
<1>6. ShownIsRecorded'
  BY <1>a, <1>b, <1>c, <1>d, <1>e, <1>f DEF ShownIsRecorded
<1>7. NoFalseRefusal'
  BY <1>b DEF NoFalseRefusal, OthersStay
<1> QED
  BY <1>1, <1>2, <1>3, <1>4, <1>5, <1>6, <1>7 DEF IInv

LEMMA ServePostInv ==
  ASSUME IInv, NEW c \in Call, ServePost(c)
  PROVE  IInv'
<1> USE DEF IInv, ServePost, serverVars, keyVars, Store!TypeOK
<1>a. calls[c] # None /\ calls[c].status = "checked" /\ calls[c].kind = "post"
  BY DEF IsAt
<1>b. /\ OthersStay(c) /\ IsCall(calls'[c]) /\ SameRequest(calls'[c], calls[c])
      /\ calls'[c].status = "answered" /\ calls'[c].contents = calls[c].valid
  BY <1>a, CallAnswered
<1>c. Known' = Known
  BY DEF Known
<1>d. /\ IsCall(calls[c]) /\ calls[c].about \in Location
      /\ FromHexString(calls[c].message.id) \in {ID[n] : n \in 1..issued}
  <2>1. IsCall(calls[c]) /\ calls[c].about \in Location /\ calls[c].message \in Message
    BY <1>a DEF TypeOK, IsCall
  <2>2. calls[c].message # None
    BY <2>1, MessageAssumption
  <2> QED
    BY <1>a, <2>1, <2>2, IdentifierIsKnown
<1>e. recorded \subseteq recorded'
  OBVIOUS
<1>f. calls[c].valid = TRUE =>
        [id |-> FromHexString(calls[c].message.id), location |-> Arrived(calls[c].about)] \in recorded'
  OBVIOUS
<1>1. TypeOK'
  BY <1>a, <1>b, <1>c, <1>d, <1>e, <1>f DEF TypeOK, OthersStay
<1>2. OneCredentialAtATime'
  BY <1>a, <1>b, <1>c, <1>d, <1>e, <1>f DEF OneCredentialAtATime, CallFor, OthersStay, SameRequest
<1>3. CredentialsAreKnown'
  BY <1>a, <1>b, <1>c, <1>d, <1>e, <1>f DEF CredentialsAreKnown, Answered, CallFor, OthersStay, SameRequest
<1>4. CallsAreSigned'
  BY <1>a, <1>b, <1>c, <1>d, <1>e, <1>f, SignedCallsStay
<1>5. AnswersAreRecorded'
  BY <1>a, <1>b, <1>c, <1>d, <1>e, <1>f DEF AnswersAreRecorded, Answered, CallFor, OthersStay, SameRequest
<1>6. ShownIsRecorded'
  BY <1>a, <1>b, <1>c, <1>d, <1>e, <1>f DEF ShownIsRecorded
<1>7. NoFalseRefusal'
  BY <1>b DEF NoFalseRefusal, OthersStay
<1> QED
  BY <1>1, <1>2, <1>3, <1>4, <1>5, <1>6, <1>7 DEF IInv

LEMMA ServeLocationsInv ==
  ASSUME IInv, NEW c \in Call, ServeLocations(c)
  PROVE  IInv'
<1> USE DEF IInv, ServeLocations, serverVars, keyVars, Store!TypeOK
<1>a. calls[c] # None /\ calls[c].status = "sent" /\ calls[c].kind = "locations"
  BY DEF IsAt
<1>b. PICK found : found = {l \in recorded : l.id = FromHexString(calls[c].about)} /\
        Answer(c, {l.location : l \in found})
  OBVIOUS
<1>c. /\ OthersStay(c) /\ IsCall(calls'[c]) /\ SameRequest(calls'[c], calls[c])
      /\ calls'[c].status = "answered"
      /\ calls'[c].contents = {l.location : l \in found}
  BY <1>a, <1>b, CallAnswered
<1>d. Known' = Known
  BY DEF Known
<1>e. \A l \in calls'[c].contents :
        [id |-> FromHexString(calls[c].about), location |-> l] \in recorded
  BY <1>b, <1>c DEF TypeOK
<1>f. calls[c].message = None
  BY <1>a DEF TypeOK, IsCall
<1>1. TypeOK'
  BY <1>a, <1>b, <1>c, <1>d, <1>e, <1>f DEF TypeOK, OthersStay
<1>2. OneCredentialAtATime'
  BY <1>a, <1>b, <1>c, <1>d, <1>e, <1>f DEF OneCredentialAtATime, CallFor, OthersStay, SameRequest
<1>3. CredentialsAreKnown'
  BY <1>a, <1>b, <1>c, <1>d, <1>e, <1>f DEF CredentialsAreKnown, Answered, CallFor, OthersStay, SameRequest
<1>4. CallsAreSigned'
  BY <1>a, <1>b, <1>c, <1>d, <1>e, <1>f DEF CallsAreSigned, ContentsToSign, OthersStay, SameRequest
<1>5. AnswersAreRecorded'
  BY <1>a, <1>b, <1>c, <1>d, <1>e, <1>f DEF AnswersAreRecorded, Answered, CallFor, OthersStay, SameRequest
<1>6. ShownIsRecorded'
  BY <1>a, <1>b, <1>c, <1>d, <1>e, <1>f DEF ShownIsRecorded
<1>7. NoFalseRefusal'
  BY <1>a, <1>b, <1>c, <1>d, <1>e, <1>f DEF NoFalseRefusal, OthersStay, SameRequest
<1> QED
  BY <1>1, <1>2, <1>3, <1>4, <1>5, <1>6, <1>7 DEF IInv

LEMMA ServeFailsInv ==
  ASSUME IInv, NEW c \in Call, ServeFails(c)
  PROVE  IInv'
<1> USE DEF IInv, ServeFails, IsAt, serverVars, keyVars, Store!TypeOK
<1>a. Known' = Known
  BY DEF Known
<1>b. OthersStay(c) /\ IsCall(calls'[c]) /\ SameRequest(calls'[c], calls[c]) /\ calls'[c].status = "failed"
  BY CallFailed
<1>1. TypeOK'
  BY <1>a, <1>b DEF TypeOK, OthersStay
<1>2. OneCredentialAtATime'
  BY <1>a, <1>b DEF OneCredentialAtATime, CallFor, OthersStay, SameRequest
<1>3. CredentialsAreKnown'
  BY <1>a, <1>b DEF CredentialsAreKnown, Answered, CallFor, OthersStay, SameRequest
<1>4. CallsAreSigned'
  BY <1>a, <1>b, SignedCallsStay
<1>5. AnswersAreRecorded'
  BY <1>a, <1>b DEF AnswersAreRecorded, Answered, CallFor, OthersStay, SameRequest
<1>6. ShownIsRecorded'
  BY <1>a, <1>b DEF ShownIsRecorded
<1>7. NoFalseRefusal'
  BY <1>a, <1>b DEF NoFalseRefusal, OthersStay, SameRequest
<1> QED
  BY <1>1, <1>2, <1>3, <1>4, <1>5, <1>6, <1>7 DEF IInv

LEMMA FailInv ==
  ASSUME IInv, NEW c \in Call, Fail(c)
  PROVE  IInv'
<1> USE DEF IInv, Fail, serverVars, keyVars, Store!TypeOK
<1>a. Known' = Known
  BY DEF Known
<1>b. OthersStay(c) /\ IsCall(calls'[c]) /\ SameRequest(calls'[c], calls[c]) /\ calls'[c].status = "failed"
  BY CallFailed
<1>c. failures' \in 0..MaxFailures
  BY Assumptions DEF TypeOK
<1>1. TypeOK'
  BY <1>a, <1>b, <1>c DEF TypeOK, OthersStay
<1>2. OneCredentialAtATime'
  BY <1>a, <1>b, <1>c DEF OneCredentialAtATime, CallFor, OthersStay, SameRequest
<1>3. CredentialsAreKnown'
  BY <1>a, <1>b, <1>c DEF CredentialsAreKnown, Answered, CallFor, OthersStay, SameRequest
<1>4. CallsAreSigned'
  BY <1>a, <1>b, <1>c, SignedCallsStay
<1>5. AnswersAreRecorded'
  BY <1>a, <1>b, <1>c DEF AnswersAreRecorded, Answered, CallFor, OthersStay, SameRequest
<1>6. ShownIsRecorded'
  BY <1>a, <1>b, <1>c DEF ShownIsRecorded
<1>7. NoFalseRefusal'
  BY <1>a, <1>b, <1>c DEF NoFalseRefusal, OthersStay, SameRequest
<1> QED
  BY <1>1, <1>2, <1>3, <1>4, <1>5, <1>6, <1>7 DEF IInv

LEMMA AnswerForServerInv ==
  ASSUME IInv, NEW c \in Call, AnswerForServer(c)
  PROVE  IInv'
<1> USE DEF IInv, AnswerForServer, serverVars, keyVars, Store!TypeOK
<1>a. calls[c] # None /\ calls[c].status = "sent"
  BY DEF IsAt
<1>b. /\ OthersStay(c) /\ IsCall(calls'[c]) /\ SameRequest(calls'[c], calls[c])
      /\ \/ calls[c].kind \in {"credential", "post"} /\ calls'[c].status = "answered"
         \/ calls'[c].status = "empty"
      /\ calls'[c].contents = None
  BY <1>a, CallAnswered, CallClosed DEF IsAt, Status
<1>c. Known' = Known
  BY DEF Known
<1>d. failures' \in 0..MaxFailures
  BY Assumptions DEF TypeOK
<1>1. TypeOK'
  BY <1>a, <1>b, <1>c, <1>d DEF TypeOK, OthersStay
<1>2. OneCredentialAtATime'
  BY <1>a, <1>b, <1>c, <1>d DEF OneCredentialAtATime, CallFor, OthersStay, SameRequest
<1>3. CredentialsAreKnown'
  BY <1>a, <1>b, <1>c, <1>d DEF CredentialsAreKnown, Answered, CallFor, OthersStay, SameRequest
<1>4. CallsAreSigned'
  BY <1>a, <1>b, <1>c, <1>d, SignedCallsStay
<1>5. AnswersAreRecorded'
  <2>1. calls'[c].contents # TRUE
    BY <1>b, Assumptions
  <2> QED
    BY <1>a, <1>b, <1>c, <1>d, <2>1, ZenonT(60) DEF AnswersAreRecorded, Answered, CallFor, OthersStay, SameRequest
<1>6. ShownIsRecorded'
  BY <1>a, <1>b, <1>c, <1>d DEF ShownIsRecorded
<1>7. NoFalseRefusal'
  BY <1>b DEF NoFalseRefusal, OthersStay
<1> QED
  BY <1>1, <1>2, <1>3, <1>4, <1>5, <1>6, <1>7 DEF IInv

LEMMA PostKeyInv ==
  ASSUME IInv, PostKey
  PROVE  IInv'
<1> USE DEF IInv, PostKey, pageVars
<1>0. Store!TypeOK'
  <2>1. Store!TypeOK
    BY DEF TypeOK
  <2>2. CASE Store!Crash
    BY <2>1, <2>2 DEF Store!Crash, Store!TypeOK
  <2>3. ASSUME NEW p \in KeyPost,
               \/ Store!PassChecks(p) \/ Store!Open(p) \/ Store!OpenFails(p)
               \/ Store!Write(p) \/ Store!WriteFails(p)
        PROVE  Store!TypeOK'
    BY <2>1, <2>3 DEF Store!TypeOK, Store!PassChecks, Store!Open, Store!OpenFails,
       Store!Write, Store!WriteFails
  <2> QED
    BY <2>2, <2>3 DEF Store!Next, Store!Step
<1>1. TypeOK'
  BY <1>0 DEF TypeOK
<1>2. Known' = Known
  BY DEF Known
<1>3. OneCredentialAtATime' /\ AnswersAreRecorded' /\ ShownIsRecorded'
  BY DEF OneCredentialAtATime, AnswersAreRecorded, ShownIsRecorded, CallFor, Answered
<1>4. CredentialsAreKnown'
  BY <1>2 DEF CredentialsAreKnown, CallFor, Answered
<1>5. CallsAreSigned' /\ NoFalseRefusal'
  BY <1>2 DEF CallsAreSigned, NoFalseRefusal
<1> QED
  BY <1>1, <1>3, <1>4, <1>5

-----------------------------------------------------------------------------

(* The page knows what the server knows: the invariant of the page, the     *)
(* calls under way and the server together.                                 *)
THEOREM Inductive == Spec => []IInv
<1>1. Init => IInv
  BY InitInv
<1>2. IInv /\ [Next]_vars => IInv'
  <2> SUFFICES ASSUME IInv, [Next]_vars PROVE IInv'
    OBVIOUS
  <2>1. ASSUME NEW c \in Call, Click(c) PROVE IInv'
    BY <2>1, ClickInv
  <2>2. ASSUME NEW c \in Call, NEW l \in Location, OnPosition(c, l) PROVE IInv'
    BY <2>2, OnPositionInv
  <2>3. ASSUME NEW c \in Call, NEW id \in Asked, Query(c, id) PROVE IInv'
    BY <2>3, QueryInv
  <2>4. ASSUME NEW c \in Call, Callback(c) PROVE IInv'
    BY <2>4, OnCredentialInv, OnPostedInv, OnLocationsInv, OnEmptyInv, OnErrorInv DEF Callback
  <2>5. ASSUME NEW c \in Call, Serve(c) PROVE IInv'
    BY <2>5, CheckInv, ServeCredentialInv, ServePostInv, ServeLocationsInv, ServeFailsInv DEF Serve
  <2>6. ASSUME NEW c \in Call, Fail(c) \/ AnswerForServer(c) PROVE IInv'
    BY <2>6, FailInv, AnswerForServerInv
  <2>7. CASE PostKey
    BY <2>7, PostKeyInv
  <2>8. CASE UNCHANGED vars
    <3>1. Known' = Known
      BY <2>8 DEF vars, serverVars, Known
    <3> QED
      BY <2>8, <3>1 DEF vars, pageVars, serverVars, keyVars, Store!TypeOK, IInv, TypeOK, OneCredentialAtATime, CallFor,
        CredentialsAreKnown, Answered, CallsAreSigned, AnswersAreRecorded, ShownIsRecorded,
        NoFalseRefusal
  <2> QED
    BY <2>1, <2>2, <2>3, <2>4, <2>5, <2>6, <2>7, <2>8 DEF Next
<1> QED
  BY <1>1, <1>2, PTL DEF Spec

(* What the page shows is stored, and under the ID it is shown for          *)
(* (main.js 30-36, logger.js 210).                                          *)
THEOREM ShowsWhatIsStored == Spec => []ShownIsRecorded
<1>1. IInv => ShownIsRecorded
  BY DEF IInv
<1> QED
  BY <1>1, Inductive, PTL

(* A signed message is not refused for how it was serialized: the page and  *)
(* the server come to the same bytes for every ID, salt, time and location, *)
(* unless JSON alters the location; whatever key it is checked with, if the *)
(* credential is of that key (logger.js 83-93, MessageSerializer.cs 29-32). *)
THEOREM SignaturesAgree == Spec => []NoFalseRefusal
<1>1. IInv => NoFalseRefusal
  BY DEF IInv
<1> QED
  BY <1>1, Inductive, PTL

(* No older credential replaces a newer one, in whatever order the answers  *)
(* come (main.js 12 and 16).                                                *)
THEOREM NeverOlder == Spec => NewerCredentials
<1> DEFINE A == credential # None /\ credential' # None /\ credential' # credential
                => Number(credential) < Number(credential')
<1>1. IInv /\ [Next]_vars => [A]_vars
  <2> SUFFICES ASSUME IInv, Next, credential # None, credential' # None, credential' # credential
               PROVE  Number(credential) < Number(credential')
    OBVIOUS
  <2>1. PICK c \in Call : OnCredential(c)
    BY DEF Next, Click, OnPosition, Query, Callback, OnPosted, OnLocations, OnEmpty, OnError,
      Serve, Check, ServeCredential, ServePost, ServeLocations, ServeFails, Fail,
      AnswerForServer, PostKey, pageVars
  <2>2. Answered(c, "credential") /\ credential' = calls[c].contents
    BY <2>1 DEF OnCredential, Return, Answered, CallFor
  <2> QED
    BY <2>2 DEF IInv, CredentialsAreKnown
<1> QED
  BY <1>1, Inductive, PTL DEF Spec, NewerCredentials

================================================================================
