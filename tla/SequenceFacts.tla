---------------------------- MODULE SequenceFacts ----------------------------
(***************************************************************************)
(* What the list operations of the code do to the set of listed items and  *)
(* to their being listed once each; and the least number of a set, by      *)
(* which the other modules argue about loops and recursive functions.      *)
(***************************************************************************)
EXTENDS Integers, FiniteSets, SequencesExt, SequenceTheorems, WellFoundedInduction, TLAPS

LessPairs == {pair \in Nat \X Nat : pair[1] < pair[2]}

\* No sequence of numbers falls for ever.
LEMMA LessIsWellFounded == IsWellFoundedOn(LessPairs, Nat)
BY NatLessThanWellFounded DEF LessPairs, OpToRel

\* A set of numbers has a least one.
LEMMA LeastNumber ==
    ASSUME NEW S, S \subseteq Nat, S # {}
    PROVE  \E m \in S : \A n \in S : m <= n
<1>1. PICK m \in S : \A n \in S : ~(<<n, m>> \in LessPairs)
  BY LessIsWellFounded, WFMin
<1>2. ASSUME NEW n \in S, n < m
      PROVE  <<n, m>> \in LessPairs
  BY <1>2 DEF LessPairs
<1>3. \A n \in S : ~(n < m)
  BY <1>1, <1>2
<1> QED BY <1>3

\* Induction: a set that has 0, and with each number the next, has all.
LEMMA AllNumbers ==
    ASSUME NEW S, 0 \in S, \A n \in Nat : n \in S => n + 1 \in S
    PROVE  Nat \subseteq S
<1> SUFFICES ASSUME Nat \ S # {} PROVE FALSE
  OBVIOUS
<1>1. PICK m \in Nat \ S : \A n \in Nat \ S : m <= n
  <2>1. Nat \ S \subseteq Nat
    OBVIOUS
  <2> QED BY <2>1, LeastNumber
<1>2. m # 0 /\ m - 1 \in Nat /\ m - 1 \in S
  BY <1>1
<1>3. (m - 1) + 1 \in S
  BY <1>2
<1> QED BY <1>1, <1>3

\* A set of numbers up to N has a greatest one.
LEMMA GreatestNumber ==
    ASSUME NEW N \in Nat, NEW S, S \subseteq 0 .. N, S # {}
    PROVE  \E m \in S : \A n \in S : n <= m
<1> DEFINE R == {k \in Nat : k <= N /\ N - k \in S}
<1>1. R # {}
  <2>1. PICK n \in S : TRUE
    OBVIOUS
  <2>2. n \in Nat /\ N - n \in Nat /\ N - n <= N /\ N - (N - n) = n
    OBVIOUS
  <2> QED BY <2>2
<1>2. PICK k \in R : \A j \in R : k <= j
  <2>1. R \subseteq Nat
    OBVIOUS
  <2> QED BY <1>1, <2>1, LeastNumber
<1>3. ASSUME NEW n \in S
      PROVE  n <= N - k
  <2>1. n \in Nat /\ N - n \in Nat /\ N - n <= N /\ N - (N - n) = n
    OBVIOUS
  <2>2. N - n \in R
    BY <2>1
  <2>3. k \in Nat /\ k <= N - n
    BY <1>2, <2>2
  <2> QED BY <2>1, <2>3
<1> QED BY <1>2, <1>3

\* The sums of the first n of N numbers: the recursive function exists.
LEMMA PartialSums ==
    ASSUME NEW N \in Nat, NEW w \in [1 .. N -> Nat]
    PROVE  \E f \in [0 .. N -> Nat] : f = [n \in 0 .. N |-> IF n = 0 THEN 0 ELSE f[n - 1] + w[n]]
<1> DEFINE Sums(n, f) == f[0] = 0 /\ \A k \in 1 .. n : f[k] = f[k - 1] + w[k]
           Some(n) == \E f \in [0 .. n -> Nat] : Sums(n, f)
           Have == {n \in Nat : n <= N => Some(n)}
<1>1. 0 \in Have
  <2> DEFINE f == [k \in 0 .. 0 |-> 0]
  <2>1. f \in [0 .. 0 -> Nat] /\ f[0] = 0
    OBVIOUS
  <2>2. \A k \in 1 .. 0 : FALSE
    OBVIOUS
  <2> HIDE DEF f
  <2>3. Sums(0, f)
    BY <2>1, <2>2
  <2> QED BY <2>1, <2>3
<1>2. ASSUME NEW n \in Nat, n \in Have
      PROVE  n + 1 \in Have
  <2> SUFFICES ASSUME n + 1 <= N
               PROVE  Some(n + 1)
    <3> HIDE DEF Some
    <3> QED OBVIOUS
  <2>1. PICK f \in [0 .. n -> Nat] : Sums(n, f)
    BY <1>2
  <2> DEFINE g == [k \in 0 .. n + 1 |-> IF k = n + 1 THEN f[n] + w[n + 1] ELSE f[k]]
  <2>2. f[n] \in Nat /\ w[n + 1] \in Nat
    OBVIOUS
  <2>3. g \in [0 .. n + 1 -> Nat] /\ g[0] = 0
    BY <2>1, <2>2
  <2>4. ASSUME NEW k \in 1 .. n + 1
        PROVE  g[k] = g[k - 1] + w[k]
    <3>1. CASE k = n + 1
      BY <3>1
    <3>2. CASE k # n + 1
      <4>1. k \in 1 .. n /\ k \in 0 .. n + 1 /\ k - 1 \in 0 .. n + 1 /\ k - 1 # n + 1
        BY <3>2
      <4>2. f[k] = f[k - 1] + w[k]
        BY <2>1, <4>1
      <4> QED BY <3>2, <4>1, <4>2
    <3> QED BY <3>1, <3>2
  <2> HIDE DEF g
  <2> QED BY <2>3, <2>4
<1> HIDE DEF Have
<1>3. N \in Have
  <2>1. Nat \subseteq Have
    BY <1>1, <1>2, AllNumbers
  <2> QED BY <2>1
<1>4. PICK f \in [0 .. N -> Nat] : Sums(N, f)
  <2>1. N <= N
    OBVIOUS
  <2> QED BY <1>3, <2>1 DEF Have
<1>5. \A n \in 0 .. N : f[n] = IF n = 0 THEN 0 ELSE f[n - 1] + w[n]
  BY <1>4
<1>6. f = [n \in 0 .. N |-> IF n = 0 THEN 0 ELSE f[n - 1] + w[n]]
  BY <1>5
<1> QED BY <1>6

\* add_item puts the item behind the others.
LEMMA AppendFacts ==
    ASSUME NEW S, NEW q \in Seq(S), NEW t \in S
    PROVE  /\ Append(q, t) \in Seq(S)
           /\ Append(q, t) # <<>>
           /\ ToSet(Append(q, t)) = ToSet(q) \cup {t}
           /\ IsInjective(q) /\ t \notin ToSet(q) => IsInjective(Append(q, t))
<1>1. /\ Append(q, t) \in Seq(S)
      /\ Len(Append(q, t)) = Len(q) + 1
      /\ DOMAIN Append(q, t) = 1 .. Len(q) + 1
      /\ \A i \in 1 .. Len(q) : Append(q, t)[i] = q[i]
      /\ Append(q, t)[Len(q) + 1] = t
  OBVIOUS
<1>2. Len(q) \in Nat /\ DOMAIN q = 1 .. Len(q)
  OBVIOUS
<1>3. Append(q, t) # <<>>
  BY <1>1, <1>2, EmptySeq
<1>4. ToSet(Append(q, t)) = ToSet(q) \cup {t}
  BY <1>1, <1>2 DEF ToSet
<1>5. ASSUME IsInjective(q), t \notin ToSet(q)
      PROVE  IsInjective(Append(q, t))
  BY <1>1, <1>2, <1>5 DEF IsInjective, ToSet
<1> QED
  BY <1>1, <1>3, <1>4, <1>5

\* Taking the first item leaves the others.
LEMMA TailFacts ==
    ASSUME NEW S, NEW q \in Seq(S), q # <<>>
    PROVE  /\ Head(q) \in S
           /\ Head(q) \in ToSet(q)
           /\ Tail(q) \in Seq(S)
           /\ IsInjective(q) => /\ IsInjective(Tail(q))
                                /\ ToSet(Tail(q)) = ToSet(q) \ {Head(q)}
<1>1. /\ Len(q) \in Nat \ {0}
      /\ DOMAIN q = 1 .. Len(q)
      /\ Head(q) = q[1]
      /\ Tail(q) \in Seq(S)
      /\ DOMAIN Tail(q) = 1 .. Len(q) - 1
      /\ \A i \in 1 .. Len(q) - 1 : Tail(q)[i] = q[i + 1]
      /\ Head(q) \in S
  BY HeadTailProperties, EmptySeq, LenProperties
<1>2. Head(q) \in ToSet(q)
  BY <1>1 DEF ToSet
<1>3. ASSUME IsInjective(q)
      PROVE  IsInjective(Tail(q)) /\ ToSet(Tail(q)) = ToSet(q) \ {Head(q)}
  <2>1. IsInjective(Tail(q))
    BY <1>1, <1>3 DEF IsInjective
  <2>2. ASSUME NEW x \in ToSet(Tail(q))
        PROVE  x \in ToSet(q) \ {Head(q)}
    BY <1>1, <1>3, <2>2 DEF IsInjective, ToSet
  <2>3. ASSUME NEW x \in ToSet(q) \ {Head(q)}
        PROVE  x \in ToSet(Tail(q))
    <3>1. PICK i \in 1 .. Len(q) : x = q[i]
      BY <1>1 DEF ToSet
    <3>2. i # 1 /\ i - 1 \in 1 .. Len(q) - 1
      BY <1>1, <3>1
    <3>3. Tail(q)[i - 1] = q[i]
      BY <1>1, <3>2
    <3> QED
      BY <1>1, <3>1, <3>2, <3>3 DEF ToSet
  <2> QED
    BY <2>1, <2>2, <2>3
<1> QED
  BY <1>1, <1>2, <1>3

\* remove_item leaves a list alone that does not hold the item.
LEMMA RemoveAbsent ==
    ASSUME NEW S, NEW q \in Seq(S), NEW t, t \notin ToSet(q)
    PROVE  RemoveFirst(q, t) = q
BY DEF RemoveFirst, ToSet

\* push_front puts an item before the others.
LEMMA PrependFacts ==
    ASSUME NEW S, NEW q \in Seq(S), NEW t \in S
    PROVE  /\ <<t>> \o q \in Seq(S)
           /\ ToSet(<<t>> \o q) = ToSet(q) \cup {t}
           /\ IsInjective(q) /\ t \notin ToSet(q) => IsInjective(<<t>> \o q)
<1>1. /\ <<t>> \o q \in Seq(S)
      /\ DOMAIN (<<t>> \o q) = 1 .. Len(q) + 1
      /\ (<<t>> \o q)[1] = t
      /\ \A i \in 1 .. Len(q) : (<<t>> \o q)[i + 1] = q[i]
      /\ \A i \in 2 .. Len(q) + 1 : (<<t>> \o q)[i] = q[i - 1]
  OBVIOUS
<1>2. Len(q) \in Nat /\ DOMAIN q = 1 .. Len(q)
  OBVIOUS
<1>3. ToSet(<<t>> \o q) = ToSet(q) \cup {t}
  <2>1. t \in ToSet(<<t>> \o q)
    BY <1>1, <1>2 DEF ToSet
  <2>2. ASSUME NEW x \in ToSet(q) PROVE x \in ToSet(<<t>> \o q)
    <3>1. PICK i \in 1 .. Len(q) : x = q[i]
      BY <1>2 DEF ToSet
    <3>2. i + 1 \in 1 .. Len(q) + 1 /\ (<<t>> \o q)[i + 1] = x
      BY <1>1, <1>2, <3>1
    <3> QED
      BY <1>1, <3>2 DEF ToSet
  <2>3. ASSUME NEW x \in ToSet(<<t>> \o q) PROVE x \in ToSet(q) \cup {t}
    BY <1>1, <1>2 DEF ToSet
  <2> QED
    BY <2>1, <2>2, <2>3
<1>4. ASSUME IsInjective(q), t \notin ToSet(q)
      PROVE  IsInjective(<<t>> \o q)
  BY <1>1, <1>2, <1>4 DEF IsInjective, ToSet
<1> QED
  BY <1>1, <1>3, <1>4

\* A call is pushed.
LEMMA PushShape ==
    ASSUME NEW S, NEW q \in Seq(S), NEW c \in S
    PROVE  /\ Append(q, c) \in Seq(S)
           /\ Len(q) \in Nat /\ Len(Append(q, c)) = Len(q) + 1
           /\ DOMAIN q = 1 .. Len(q) /\ DOMAIN Append(q, c) = 1 .. Len(q) + 1
           /\ \A k \in 1 .. Len(q) : Append(q, c)[k] = q[k]
           /\ Append(q, c)[Len(q) + 1] = c
OBVIOUS

\* The last call returns.
LEMMA PopShape ==
    ASSUME NEW S, NEW q \in Seq(S), q # <<>>
    PROVE  /\ Front(q) \in Seq(S)
           /\ Len(q) \in Nat \ {0} /\ Len(Front(q)) = Len(q) - 1
           /\ DOMAIN q = 1 .. Len(q) /\ DOMAIN Front(q) = 1 .. Len(q) - 1
           /\ \A k \in 1 .. Len(q) - 1 : Front(q)[k] = q[k]
<1>1. Len(q) \in Nat \ {0} /\ DOMAIN q = 1 .. Len(q)
  OBVIOUS
<1>2. /\ SubSeq(q, 1, Len(q) - 1) \in Seq(S)
      /\ Len(SubSeq(q, 1, Len(q) - 1)) = Len(q) - 1
      /\ \A k \in 1 .. Len(q) - 1 : SubSeq(q, 1, Len(q) - 1)[k] = q[k]
  BY <1>1, SubSeqProperties
<1>. QED BY <1>1, <1>2 DEF Front

\* The last call goes on.
LEMMA ReplaceShape ==
    ASSUME NEW S, NEW q \in Seq(S), q # <<>>, NEW c \in S
    PROVE  /\ ReplaceAt(q, Len(q), c) \in Seq(S)
           /\ Len(q) \in Nat \ {0} /\ Len(ReplaceAt(q, Len(q), c)) = Len(q)
           /\ DOMAIN q = 1 .. Len(q) /\ DOMAIN ReplaceAt(q, Len(q), c) = 1 .. Len(q)
           /\ \A k \in 1 .. Len(q) - 1 : ReplaceAt(q, Len(q), c)[k] = q[k]
           /\ ReplaceAt(q, Len(q), c)[Len(q)] = c
BY DEF ReplaceAt

\* remove_item takes the one entry of p out of a list without duplicates.
LEMMA RemoveShape ==
    ASSUME NEW S, NEW q \in Seq(S), NEW t \in S, IsInjective(q)
    PROVE  /\ RemoveFirst(q, t) \in Seq(S)
           /\ \A s \in S : Contains(RemoveFirst(q, t), s) <=> Contains(q, s) /\ s # t
           /\ IsInjective(RemoveFirst(q, t))
<1>1. CASE ~ \E i \in 1 .. Len(q) : q[i] = t
  BY <1>1 DEF RemoveFirst, Contains
<1>2. CASE \E i \in 1 .. Len(q) : q[i] = t
  <2>1. PICK i \in 1 .. Len(q) : q[i] = t
    BY <1>2
  <2>2. Len(q) \in Nat /\ DOMAIN q = 1 .. Len(q)
    OBVIOUS
  <2>3. {j \in 1 .. Len(q) : q[j] = t} = {i}
    BY <2>1, <2>2 DEF IsInjective
  <2>4. SelectInSeq(q, LAMBDA v : v = t) = i
    <3>1. Min({i}) = i
      BY <2>2 DEF Min
    <3>. QED BY <2>3, <3>1 DEF SelectInSeq
  <2>5. RemoveFirst(q, t) = RemoveAt(q, i)
    BY <1>2, <2>4 DEF RemoveFirst
  <2>. DEFINE r == RemoveAt(q, i)
  <2>. HIDE DEF r
  <2>6. /\ r \in Seq(S)
        /\ DOMAIN r = 1 .. Len(q) - 1
        /\ \A j \in 1 .. Len(q) - 1 : r[j] = IF j < i THEN q[j] ELSE q[j + 1]
    <3>1. /\ SubSeq(q, 1, i - 1) \in Seq(S)
          /\ Len(SubSeq(q, 1, i - 1)) = i - 1
          /\ \A j \in 1 .. i - 1 : SubSeq(q, 1, i - 1)[j] = q[j]
      BY <2>2, SubSeqProperties
    <3>2. /\ SubSeq(q, i + 1, Len(q)) \in Seq(S)
          /\ Len(SubSeq(q, i + 1, Len(q))) = Len(q) - i
          /\ \A j \in 1 .. Len(q) - i : SubSeq(q, i + 1, Len(q))[j] = q[i + j]
      <4>1. \A j \in i + 1 .. Len(q) : q[j] \in S
        BY <2>2
      <4>2. /\ SubSeq(q, i + 1, Len(q)) \in Seq(S)
            /\ Len(SubSeq(q, i + 1, Len(q))) =
                 IF i + 1 <= Len(q) THEN Len(q) - (i + 1) + 1 ELSE 0
            /\ \A j \in 1 .. Len(q) - (i + 1) + 1 :
                 SubSeq(q, i + 1, Len(q))[j] = q[i + 1 + j - 1]
        BY <2>2, <4>1, SubSeqProperties
      <4>3. ASSUME NEW j \in 1 .. Len(q) - i
            PROVE  SubSeq(q, i + 1, Len(q))[j] = q[i + j]
        <5>1. j \in 1 .. Len(q) - (i + 1) + 1 /\ i + 1 + j - 1 = i + j
          BY <2>2
        <5>. QED BY <4>2, <5>1
      <4>4. Len(SubSeq(q, i + 1, Len(q))) = Len(q) - i
        <5>1. CASE i + 1 <= Len(q)
          BY <2>2, <4>2, <5>1
        <5>2. CASE i = Len(q)
          BY <2>2, <4>2, <5>2
        <5>3. i + 1 <= Len(q) \/ i = Len(q)
          OBVIOUS
        <5>. QED BY <5>1, <5>2, <5>3
      <4>. QED BY <4>2, <4>3, <4>4
    <3>. DEFINE a == SubSeq(q, 1, i - 1)
                b == SubSeq(q, i + 1, Len(q))
    <3>3. r = a \o b
      BY DEF RemoveAt, r
    <3>4. /\ a \o b \in Seq(S)
          /\ Len(a \o b) = Len(a) + Len(b)
          /\ \A j \in 1 .. Len(a) + Len(b) :
               (a \o b)[j] = IF j <= Len(a) THEN a[j] ELSE b[j - Len(a)]
      BY <3>1, <3>2, ConcatProperties
    <3>. HIDE DEF a, b
    <3>5. Len(a) = i - 1 /\ Len(b) = Len(q) - i
      BY <3>1, <3>2 DEF a, b
    <3>6. ASSUME NEW j \in 1 .. Len(q) - 1
          PROVE  r[j] = IF j < i THEN q[j] ELSE q[j + 1]
      <4>1. CASE j < i
        BY <2>2, <3>1, <3>3, <3>4, <3>5, <4>1 DEF a
      <4>2. CASE j >= i
        <5>1. j - (i - 1) \in 1 .. Len(q) - i /\ i + (j - (i - 1)) = j + 1
          BY <2>2, <4>2
        <5>2. r[j] = b[j - (i - 1)]
          BY <2>2, <3>3, <3>4, <3>5, <4>2
        <5>3. b[j - (i - 1)] = q[i + (j - (i - 1))]
          BY <3>2, <5>1 DEF b
        <5>. QED BY <2>2, <4>2, <5>1, <5>2, <5>3
      <4>. QED BY <2>2, <4>1, <4>2
    <3>7. r \in Seq(S) /\ Len(r) = Len(q) - 1
      BY <2>2, <3>3, <3>4, <3>5
    <3>8. DOMAIN r = 1 .. Len(q) - 1
      BY <3>7
    <3>. QED BY <3>6, <3>7, <3>8
  <2>7. IsInjective(r)
    <3>1. ASSUME NEW j \in 1 .. Len(q) - 1, NEW k \in 1 .. Len(q) - 1, r[j] = r[k]
          PROVE  j = k
      <4>. DEFINE f(x) == IF x < i THEN x ELSE x + 1
      <4>1. f(j) \in DOMAIN q /\ f(k) \in DOMAIN q /\ q[f(j)] = q[f(k)]
        BY <2>2, <2>6, <3>1
      <4>2. f(j) = f(k)
        BY <4>1 DEF IsInjective
      <4>. QED BY <2>2, <4>2
    <3>. QED BY <2>6, <3>1 DEF IsInjective
  <2>8. ASSUME NEW s \in S
        PROVE  Contains(r, s) <=> Contains(q, s) /\ s # t
    <3>1. ASSUME NEW j \in DOMAIN r, r[j] = s
          PROVE  Contains(q, s) /\ s # t
      <4>. DEFINE m == IF j < i THEN j ELSE j + 1
      <4>1. m \in 1 .. Len(q) /\ m # i /\ q[m] = s
        BY <2>2, <2>6, <3>1
      <4>2. s # t
        BY <2>1, <2>2, <4>1 DEF IsInjective
      <4>. QED BY <4>1, <4>2 DEF Contains
    <3>2. ASSUME NEW j \in 1 .. Len(q), q[j] = s, s # t
          PROVE  \E k \in DOMAIN r : r[k] = s
      <4>1. j # i
        BY <2>1, <3>2
      <4>2. CASE j < i
        BY <2>2, <2>6, <3>2, <4>2
      <4>3. CASE j > i
        <5>1. j - 1 \in DOMAIN r /\ r[j - 1] = q[j]
          BY <2>1, <2>2, <2>6, <4>3
        <5>. QED BY <5>1, <3>2
      <4>. QED BY <4>1, <4>2, <4>3, <2>2
    <3>3. Contains(r, s) <=> \E k \in DOMAIN r : r[k] = s
      BY <2>6 DEF Contains
    <3>. QED BY <3>1, <3>2, <3>3 DEF Contains
  <2>. QED BY <2>5, <2>6, <2>7, <2>8 DEF r
<1>. QED BY <1>1, <1>2
-----------------------------------------------------------------------------
(* FlattenSeq *)

\* f[i] is what the first i of the sequences make together.
Joins(s, n, f) == \A i \in 1 .. n : f[i] = IF i = 1 THEN s[i] ELSE f[i - 1] \o s[i]

LEMMA JoinsExist ==
    ASSUME NEW S, NEW n \in Nat, NEW s \in [1 .. n -> Seq(S)]
    PROVE  \E f \in [1 .. n -> Seq(S)] : Joins(s, n, f)
<1> DEFINE Some(m) == \E f \in [1 .. m -> Seq(S)] : Joins(s, m, f)
           Have == {m \in Nat : m <= n => Some(m)}
<1>1. 0 \in Have
  <2> DEFINE f == [i \in 1 .. 0 |-> <<>>]
  <2>1. f \in [1 .. 0 -> Seq(S)] /\ Joins(s, 0, f)
    BY DEF Joins
  <2>2. Some(0)
    <3> HIDE DEF f
    <3> QED BY <2>1
  <2> QED BY <2>2
<1>2. ASSUME NEW m \in Nat, m \in Have
      PROVE  m + 1 \in Have
  <2> SUFFICES ASSUME m + 1 <= n
               PROVE  Some(m + 1)
    <3> HIDE DEF Some
    <3> QED OBVIOUS
  <2>1. PICK f \in [1 .. m -> Seq(S)] : Joins(s, m, f)
    BY <1>2
  <2> DEFINE g == [i \in 1 .. m + 1 |-> IF i <= m THEN f[i] ELSE IF m = 0 THEN s[i] ELSE f[m] \o s[i]]
  <2>2. \A i \in 1 .. m : g[i] = f[i] /\ f[i] \in Seq(S)
    OBVIOUS
  <2>3. g[m + 1] = (IF m = 0 THEN s[m + 1] ELSE f[m] \o s[m + 1]) /\ s[m + 1] \in Seq(S)
    OBVIOUS
  <2>4. g[m + 1] \in Seq(S)
    <3>1. m = 0 \/ f[m] \in Seq(S)
      OBVIOUS
    <3> HIDE DEF g
    <3> QED BY <2>3, <3>1, ConcatProperties
  <2>5. DOMAIN g = 1 .. m + 1 /\ g = [i \in 1 .. m + 1 |-> g[i]]
    OBVIOUS
  <2> HIDE DEF g
  <2>6. \A i \in 1 .. m + 1 : i \in 1 .. m \/ i = m + 1
    OBVIOUS
  <2>7. g \in [1 .. m + 1 -> Seq(S)]
    BY <2>2, <2>4, <2>5, <2>6
  <2>8. ASSUME NEW i \in 1 .. m + 1
        PROVE  g[i] = IF i = 1 THEN s[i] ELSE g[i - 1] \o s[i]
    <3>1. CASE i = m + 1
      <4>1. m # 0 => i - 1 = m /\ m \in 1 .. m /\ i # 1
        BY <3>1
      <4>2. m = 0 => i = 1
        BY <3>1
      <4> QED BY <2>2, <2>3, <3>1, <4>1, <4>2
    <3>2. CASE i \in 1 .. m
      <4>1. i # 1 => i - 1 \in 1 .. m
        BY <3>2
      <4> QED BY <2>1, <2>2, <3>2, <4>1 DEF Joins
    <3> QED BY <2>6, <3>1, <3>2
  <2>9. Joins(s, m + 1, g)
    BY <2>8 DEF Joins
  <2> QED BY <2>7, <2>9
<1> HIDE DEF Have
<1>3. n \in Have
  <2>1. Nat \subseteq Have
    BY <1>1, <1>2, AllNumbers
  <2> QED BY <2>1
<1>4. n <= n
  OBVIOUS
<1> QED BY <1>3, <1>4 DEF Have

LEMMA JoinsAgree ==
    ASSUME NEW n \in Nat, NEW s, NEW f, NEW g, Joins(s, n, f), Joins(s, n, g)
    PROVE  \A i \in 1 .. n : f[i] = g[i]
<1> DEFINE Have == {i \in Nat : i \in 1 .. n => f[i] = g[i]}
<1>1. 0 \in Have
  OBVIOUS
<1>2. ASSUME NEW i \in Nat, i \in Have
      PROVE  i + 1 \in Have
  <2> SUFFICES ASSUME i + 1 \in 1 .. n
               PROVE  f[i + 1] = g[i + 1]
    OBVIOUS
  <2>1. CASE i = 0
    BY <2>1 DEF Joins
  <2>2. CASE i # 0
    <3>1. i \in 1 .. n /\ (i + 1) - 1 = i /\ i + 1 # 1
      BY <2>2
    <3>2. f[i] = g[i]
      BY <1>2, <3>1
    <3>3. f[i + 1] = f[i] \o s[i + 1] /\ g[i + 1] = g[i] \o s[i + 1]
      BY <3>1 DEF Joins
    <3> QED BY <3>2, <3>3
  <2> QED BY <2>1, <2>2
<1> HIDE DEF Have
<1>3. Nat \subseteq Have
  BY <1>1, <1>2, AllNumbers
<1> QED BY <1>3 DEF Have

\* FlattenSeq is the last of the joins.
LEMMA FlattenIsJoined ==
    ASSUME NEW S, NEW n \in Nat, NEW s \in [1 .. n -> Seq(S)]
    PROVE  /\ n = 0 => FlattenSeq(s) = <<>>
           /\ n # 0 => \E f \in [1 .. n -> Seq(S)] : Joins(s, n, f) /\ FlattenSeq(s) = f[n]
           /\ FlattenSeq(s) \in Seq(S)
<1>1. Len(s) = n /\ s \in Seq(Seq(S))
  OBVIOUS
<1>2. CASE n = 0
  <2>1. s = <<>>
    BY <1>2
  <2> QED BY <1>1, <1>2, <2>1, EmptySeq DEF FlattenSeq
<1>3. CASE n # 0
  <2> DEFINE flatten == CHOOSE h : h = [i \in 1 .. Len(s) |-> IF i = 1 THEN s[i] ELSE h[i - 1] \o s[i]]
  <2>1. PICK f \in [1 .. n -> Seq(S)] : Joins(s, n, f)
    BY JoinsExist
  <2>2. f = [i \in 1 .. Len(s) |-> IF i = 1 THEN s[i] ELSE f[i - 1] \o s[i]]
    BY <1>1, <2>1 DEF Joins
  <2>3. flatten = [i \in 1 .. Len(s) |-> IF i = 1 THEN s[i] ELSE flatten[i - 1] \o s[i]]
    BY <2>2
  <2>4. FlattenSeq(s) = flatten[n]
    BY <1>1, <1>3 DEF FlattenSeq
  <2> HIDE DEF flatten
  <2>5. DOMAIN flatten = 1 .. n /\ Joins(s, n, flatten)
    BY <1>1, <2>3 DEF Joins
  <2>6. \A i \in 1 .. n : flatten[i] = f[i]
    BY <2>1, <2>5, JoinsAgree
  <2>7. FlattenSeq(s) = f[n] /\ f[n] \in Seq(S)
    BY <1>3, <2>4, <2>6
  <2> QED BY <1>3, <2>1, <2>7
<1> QED BY <1>2, <1>3

\* One sequence more.
LEMMA FlattenMore ==
    ASSUME NEW S, NEW n \in Nat, NEW s \in [1 .. n -> Seq(S)], NEW t \in [1 .. n + 1 -> Seq(S)],
           \A i \in 1 .. n : s[i] = t[i]
    PROVE  FlattenSeq(t) = FlattenSeq(s) \o t[n + 1]
<1>0. n + 1 \in Nat /\ n + 1 # 0 /\ n + 1 \in 1 .. n + 1 /\ (n + 1) - 1 = n /\ 1 .. n \subseteq 1 .. n + 1
  OBVIOUS
<1>1. PICK g \in [1 .. n + 1 -> Seq(S)] : Joins(t, n + 1, g) /\ FlattenSeq(t) = g[n + 1]
  BY <1>0, FlattenIsJoined
<1>2. t[n + 1] \in Seq(S)
  BY <1>0
<1>3. CASE n = 0
  <2>1. FlattenSeq(s) = <<>>
    BY <1>3, FlattenIsJoined
  <2>2. g[n + 1] = t[n + 1]
    BY <1>1, <1>3 DEF Joins
  <2> QED BY <1>1, <1>2, <2>1, <2>2, ConcatEmptySeq
<1>4. CASE n # 0
  <2>1. PICK f \in [1 .. n -> Seq(S)] : Joins(s, n, f) /\ FlattenSeq(s) = f[n]
    BY <1>4, FlattenIsJoined
  <2>2. Joins(t, n, g)
    BY <1>0, <1>1 DEF Joins
  <2>3. f[n] = g[n]
    <3> DEFINE h == [i \in 1 .. n |-> g[i]]
    <3>1. Joins(s, n, h)
      <4>1. ASSUME NEW i \in 1 .. n
            PROVE  h[i] = IF i = 1 THEN s[i] ELSE h[i - 1] \o s[i]
        <5>1. i # 1 => i - 1 \in 1 .. n
          OBVIOUS
        <5>2. g[i] = IF i = 1 THEN t[i] ELSE g[i - 1] \o t[i]
          BY <2>2 DEF Joins
        <5> QED BY <5>1, <5>2
      <4> QED BY <4>1 DEF Joins
    <3>2. h[n] = g[n]
      BY <1>4
    <3> HIDE DEF h
    <3>3. \A i \in 1 .. n : f[i] = h[i]
      BY <2>1, <3>1, JoinsAgree
    <3> QED BY <1>4, <3>2, <3>3
  <2>4. g[n + 1] = g[n] \o t[n + 1]
    <3>1. n + 1 # 1
      BY <1>4
    <3> QED BY <1>0, <1>1, <3>1 DEF Joins
  <2> QED BY <1>1, <2>1, <2>3, <2>4
<1> QED BY <1>3, <1>4

Pads(s, m, t, n) == (\A i \in 1 .. m : s[i] = t[i]) /\ \A i \in m + 1 .. n : t[i] = <<>>

\* Empty sequences add nothing.
LEMMA FlattenPadded ==
    ASSUME NEW S, NEW m \in Nat, NEW n \in Nat, m <= n, NEW s \in [1 .. m -> Seq(S)], NEW t \in [1 .. n -> Seq(S)],
           Pads(s, m, t, n)
    PROVE  FlattenSeq(t) = FlattenSeq(s)
<1>0. (\A i \in 1 .. m : s[i] = t[i]) /\ \A i \in m + 1 .. n : t[i] = <<>>
  BY DEF Pads
<1> DEFINE u(k) == [i \in 1 .. k |-> t[i]]
           Have == {d \in Nat : m + d <= n => FlattenSeq(u(m + d)) = FlattenSeq(s)}
<1>1. \A k \in Nat : k <= n => u(k) \in [1 .. k -> Seq(S)] /\ \A i \in 1 .. k : u(k)[i] = t[i]
  OBVIOUS
<1>2. 0 \in Have
  <2>1. u(m + 0) = s
    BY <1>0, <1>1
  <2> QED BY <2>1
<1>3. ASSUME NEW d \in Nat, d \in Have
      PROVE  d + 1 \in Have
  <2> SUFFICES ASSUME m + (d + 1) <= n
               PROVE  FlattenSeq(u(m + (d + 1))) = FlattenSeq(s)
    OBVIOUS
  <2> DEFINE k == m + d
  <2>1. k \in Nat /\ k <= n /\ k + 1 <= n /\ k + 1 \in Nat /\ m + (d + 1) = k + 1 /\ k + 1 \in m + 1 .. n
    OBVIOUS
  <2>2. FlattenSeq(u(k)) = FlattenSeq(s)
    BY <1>3, <2>1
  <2> HIDE DEF k
  <2>3. /\ u(k) \in [1 .. k -> Seq(S)] /\ u(k + 1) \in [1 .. k + 1 -> Seq(S)]
        /\ \A i \in 1 .. k : u(k)[i] = u(k + 1)[i]
        /\ u(k + 1)[k + 1] = <<>>
    <3>1. \A i \in 1 .. k : i \in 1 .. k + 1
      BY <2>1
    <3>2. k + 1 \in 1 .. k + 1
      BY <2>1
    <3> QED BY <1>0, <1>1, <2>1, <3>1, <3>2
  <2> HIDE DEF u
  <2>4. FlattenSeq(u(k + 1)) = FlattenSeq(u(k)) \o u(k + 1)[k + 1]
    <3> DEFINE a == u(k)
               b == u(k + 1)
    <3>1. a \in [1 .. k -> Seq(S)] /\ b \in [1 .. k + 1 -> Seq(S)] /\ \A i \in 1 .. k : a[i] = b[i]
      BY <2>3
    <3> HIDE DEF a, b
    <3>2. FlattenSeq(b) = FlattenSeq(a) \o b[k + 1]
      BY <2>1, <3>1, FlattenMore
    <3> QED BY <3>2 DEF a, b
  <2>5. FlattenSeq(u(k)) \in Seq(S)
    BY <2>1, <2>3, FlattenIsJoined
  <2> QED BY <2>1, <2>2, <2>3, <2>4, <2>5, ConcatEmptySeq
<1>4. n - m \in Have
  <2> HIDE DEF Have
  <2>1. Nat \subseteq Have
    BY <1>2, <1>3, AllNumbers
  <2> QED BY <2>1
<1>5. u(n) = t /\ m + (n - m) = n /\ n <= n
  OBVIOUS
<1> QED
  <2> HIDE DEF u
  <2> QED BY <1>4, <1>5

LEMMA SumsOrdered ==
    ASSUME NEW a \in Nat, NEW b \in Nat, NEW c \in Nat, NEW d \in Nat, a <= c, b <= d
    PROVE  a + b <= c + d /\ (a < c \/ b < d => a + b < c + d)
OBVIOUS

\* The longer the sequences, the longer what they make together.
LEMMA FlattenLength ==
    ASSUME NEW S, NEW n \in Nat, NEW s \in [1 .. n -> Seq(S)], NEW t \in [1 .. n -> Seq(S)],
           \A i \in 1 .. n : Len(s[i]) <= Len(t[i]),
           \E i \in 1 .. n : Len(s[i]) < Len(t[i])
    PROVE  Len(FlattenSeq(s)) < Len(FlattenSeq(t))
<1>1. PICK k \in 1 .. n : Len(s[k]) < Len(t[k])
  OBVIOUS
<1>0. n # 0
  BY <1>1
<1>2. PICK f \in [1 .. n -> Seq(S)] : Joins(s, n, f) /\ FlattenSeq(s) = f[n]
  BY <1>0, FlattenIsJoined
<1>3. PICK g \in [1 .. n -> Seq(S)] : Joins(t, n, g) /\ FlattenSeq(t) = g[n]
  BY <1>0, FlattenIsJoined
<1>4. \A i \in 1 .. n : /\ f[i] \in Seq(S) /\ g[i] \in Seq(S) /\ s[i] \in Seq(S) /\ t[i] \in Seq(S)
                        /\ Len(f[i]) \in Nat /\ Len(g[i]) \in Nat
                        /\ Len(s[i]) \in Nat /\ Len(t[i]) \in Nat
  BY LenProperties
<1> DEFINE Below(i) == Len(f[i]) <= Len(g[i]) /\ (k <= i => Len(f[i]) < Len(g[i]))
           Have == {i \in Nat : i \in 1 .. n => Below(i)}
<1>5. 0 \in Have
  OBVIOUS
<1>6. ASSUME NEW i \in Nat, i \in Have
      PROVE  i + 1 \in Have
  <2> SUFFICES ASSUME i + 1 \in 1 .. n
               PROVE  Below(i + 1)
    OBVIOUS
  <2>1. CASE i = 0
    <3>1. f[i + 1] = s[i + 1] /\ g[i + 1] = t[i + 1]
      BY <1>2, <1>3, <2>1 DEF Joins
    <3>2. k <= i + 1 => k = i + 1
      BY <2>1
    <3> QED BY <1>1, <1>4, <3>1, <3>2
  <2>2. CASE i # 0
    <3>1. i \in 1 .. n /\ (i + 1) - 1 = i /\ i + 1 # 1
      BY <2>2
    <3>2. f[i + 1] = f[i] \o s[i + 1] /\ g[i + 1] = g[i] \o t[i + 1]
      BY <1>2, <1>3, <3>1 DEF Joins
    <3>3. Len(f[i + 1]) = Len(f[i]) + Len(s[i + 1]) /\ Len(g[i + 1]) = Len(g[i]) + Len(t[i + 1])
      BY <1>4, <3>1, <3>2, ConcatProperties
    <3>4. Len(f[i]) <= Len(g[i]) /\ (k <= i => Len(f[i]) < Len(g[i]))
      BY <1>6, <3>1
    <3>5. Len(s[i + 1]) <= Len(t[i + 1]) /\ (k = i + 1 => Len(s[i + 1]) < Len(t[i + 1]))
      BY <1>1
    <3>6. k <= i + 1 => k <= i \/ k = i + 1
      OBVIOUS
    <3>7. /\ Len(f[i]) \in Nat /\ Len(g[i]) \in Nat /\ Len(s[i + 1]) \in Nat /\ Len(t[i + 1]) \in Nat
      BY <1>4, <3>1
    <3>8. Len(f[i + 1]) <= Len(g[i + 1])
      BY <3>3, <3>4, <3>5, <3>7, SumsOrdered, Zenon
    <3>9. ASSUME k <= i + 1
          PROVE  Len(f[i + 1]) < Len(g[i + 1])
      <4>1. Len(f[i]) < Len(g[i]) \/ Len(s[i + 1]) < Len(t[i + 1])
        BY <3>4, <3>5, <3>6, <3>9
      <4> QED BY <3>3, <3>4, <3>5, <3>7, <4>1, SumsOrdered, Zenon
    <3> HIDE DEF Have
    <3> QED BY <3>8, <3>9
  <2> QED BY <2>1, <2>2
<1>7. Nat \subseteq Have
  <2> HIDE DEF Have
  <2> QED BY <1>5, <1>6, AllNumbers
<1>8. n \in 1 .. n /\ k <= n /\ n \in Have
  BY <1>7
<1>9. Len(f[n]) < Len(g[n])
  BY <1>8
<1> QED BY <1>2, <1>3, <1>9
=============================================================================
