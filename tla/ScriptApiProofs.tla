------------------------------ MODULE ScriptApiProofs ------------------------------
(***************************************************************************)
(* Proofs about ScriptApi, for every call: lists of any length, texts of   *)
(* any characters, any widths.                                             *)
(*                                                                         *)
(* The walk over two sorted lists keeps that what it has passed of each is *)
(* below what is left of the other (Passed), so that a handle's place in   *)
(* the one list tells whether the other has it.  The union rests on a sort *)
(* by induction on the number of handles (SortedExists).                   *)
(*                                                                         *)
(* For the wrap, widths add up and so rise with the length (WidthsRise):   *)
(* the walk from the estimate therefore finds the greatest length that     *)
(* fits, from whichever side it comes (FittingIsGreatest).  The code looks *)
(* for line feeds and goes back over returns, the property says of every   *)
(* position whether lines end there (LineEnd).  The invariant has every    *)
(* item so far as it should be and the position where the next one begins. *)
(***************************************************************************)
EXTENDS ScriptApi, SequenceFacts, FiniteSetTheorems, TLAPS

-----------------------------------------------------------------------------
(* Sorted *)

\* A finite set of numbers has a greatest one.
LEMMA Maximum ==
    ASSUME NEW H \in SUBSET Int, IsFiniteSet(H), H # {}
    PROVE  \E m \in H : \A x \in H : x <= m
<1> DEFINE Have == {n \in Nat : \A G \in SUBSET Int :
                       IsFiniteSet(G) /\ Cardinality(G) = n /\ G # {}
                           => \E m \in G : \A x \in G : x <= m}
<1>1. 0 \in Have
  BY FS_EmptySet
<1>2. ASSUME NEW n \in Nat, n \in Have
      PROVE  n + 1 \in Have
  <2> SUFFICES ASSUME NEW G \in SUBSET Int, IsFiniteSet(G), Cardinality(G) = n + 1, G # {}
               PROVE  \E m \in G : \A x \in G : x <= m
    OBVIOUS
  <2>1. PICK x \in G : TRUE
    OBVIOUS
  <2>2. IsFiniteSet(G \ {x}) /\ Cardinality(G \ {x}) = n
    <3>1. IsFiniteSet(G \ {x}) /\ Cardinality(G \ {x}) = (n + 1) - 1
      BY <2>1, FS_RemoveElement
    <3> QED BY <3>1
  <2>3. CASE G \ {x} = {}
    BY <2>3
  <2>4. CASE G \ {x} # {}
    <3>1. PICK m \in G \ {x} : \A y \in G \ {x} : y <= m
      BY <1>2, <2>2, <2>4
    <3>2. CASE x <= m
      BY <3>1, <3>2
    <3>3. CASE ~(x <= m)
      BY <3>1, <3>3
    <3> QED BY <3>2, <3>3
  <2> QED BY <2>3, <2>4
<1> HIDE DEF Have
<1>3. Cardinality(H) \in Have
  BY <1>1, <1>2, AllNumbers, FS_CardinalityType
<1> QED BY <1>3 DEF Have

\* A finite set of numbers can be sorted.
LEMMA SortedExists ==
    ASSUME NEW H \in SUBSET Int, IsFiniteSet(H)
    PROVE  \E list \in [1 .. Cardinality(H) -> H] : Increasing(list)
<1> DEFINE Have == {n \in Nat : \A G \in SUBSET Int :
                       IsFiniteSet(G) /\ Cardinality(G) = n
                           => \E list \in [1 .. n -> G] : Increasing(list)}
<1>1. 0 \in Have
  <2> SUFFICES ASSUME NEW G \in SUBSET Int, IsFiniteSet(G), Cardinality(G) = 0
               PROVE  \E list \in [1 .. 0 -> G] : Increasing(list)
    OBVIOUS
  <2> DEFINE list == [i \in 1 .. 0 |-> 0]
  <2>1. list \in [1 .. 0 -> G] /\ Increasing(list)
    BY DEF Increasing
  <2> QED BY <2>1
<1>2. ASSUME NEW n \in Nat, n \in Have
      PROVE  n + 1 \in Have
  <2> SUFFICES ASSUME NEW G \in SUBSET Int, IsFiniteSet(G), Cardinality(G) = n + 1
               PROVE  \E list \in [1 .. n + 1 -> G] : Increasing(list)
    OBVIOUS
  <2>1. PICK m \in G : \A x \in G : x <= m
    BY Maximum, FS_EmptySet
  <2>2. IsFiniteSet(G \ {m}) /\ Cardinality(G \ {m}) = n
    BY FS_RemoveElement
  <2>3. PICK s \in [1 .. n -> G \ {m}] : Increasing(s)
    BY <1>2, <2>2
  <2> DEFINE list == [i \in 1 .. n + 1 |-> IF i = n + 1 THEN m ELSE s[i]]
  <2>4. list \in [1 .. n + 1 -> G]
    BY <2>3
  <2>5. ASSUME NEW i \in 1 .. n + 1, NEW j \in 1 .. n + 1, i < j
        PROVE  list[i] < list[j]
    <3>1. i \in 1 .. n /\ list[i] = s[i] /\ s[i] \in G \ {m}
      BY <2>3, <2>5
    <3>2. CASE j = n + 1
      <4>1. list[j] = m /\ s[i] <= m /\ s[i] # m /\ s[i] \in Int /\ m \in Int
        BY <2>1, <3>1, <3>2
      <4> QED BY <3>1, <4>1
    <3>3. CASE j \in 1 .. n
      BY <2>3, <2>5, <3>1, <3>3 DEF Increasing
    <3> QED BY <3>2, <3>3
  <2>6. Increasing(list)
    BY <2>5 DEF Increasing
  <2> QED BY <2>4, <2>6
<1> HIDE DEF Have
<1>3. Cardinality(H) \in Have
  BY <1>1, <1>2, AllNumbers, FS_CardinalityType
<1> QED BY <1>3 DEF Have

\* sort_by_pointer_remove_duplicates lists all handles in ascending order.
LEMMA SortedFacts ==
    ASSUME NEW H \in SUBSET Int, IsFiniteSet(H)
    PROVE  Sorted(H) \in Seq(Int) /\ Increasing(Sorted(H)) /\ ToSet(Sorted(H)) = H
<1> DEFINE n == Cardinality(H)
           s == Sorted(H)
<1>1. n \in Nat
  BY FS_CardinalityType
<1>2. s \in [1 .. n -> H] /\ Increasing(s)
  BY SortedExists DEF Sorted
<1> HIDE DEF n, s
<1>3. s \in Seq(Int)
  <2>1. s \in Seq(H)
    BY <1>1, <1>2, SeqDef
  <2> QED BY <2>1, SeqMonotonic
<1>4. \A i, j \in 1 .. n : s[i] = s[j] => i = j
  <2> SUFFICES ASSUME NEW i \in 1 .. n, NEW j \in 1 .. n, s[i] = s[j], i # j
               PROVE  FALSE
    OBVIOUS
  <2>1. s[i] \in Int /\ s[j] \in Int /\ DOMAIN s = 1 .. n
    BY <1>2
  <2>2. i < j \/ j < i
    BY <1>1
  <2> QED BY <1>2, <2>1, <2>2 DEF Increasing
<1>5. s \in Injection(1 .. n, H)
  BY <1>2, <1>4 DEF Injection, IsInjective
<1>6. Cardinality(1 .. n) = n
  BY <1>1, FS_Interval
<1>7. s \in Surjection(1 .. n, H)
  BY <1>5, <1>6, FS_Injection DEF n
<1>8. ToSet(s) = H
  BY <1>2, <1>7 DEF Surjection, ToSet
<1> QED BY <1>2, <1>3, <1>8 DEF s

\* What a list holds is finite.
LEMMA ToSetFinite ==
    ASSUME NEW list \in Seq(Int)
    PROVE  ToSet(list) \in SUBSET Int /\ IsFiniteSet(ToSet(list))
<1>1. Len(list) \in Nat /\ DOMAIN list = 1 .. Len(list) /\ \A i \in 1 .. Len(list) : list[i] \in Int
  OBVIOUS
<1>2. list \in [1 .. Len(list) -> ToSet(list)]
  BY <1>1 DEF ToSet
<1>3. list \in Surjection(1 .. Len(list), ToSet(list))
  BY <1>1, <1>2 DEF ToSet, Surjection
<1>4. IsFiniteSet(1 .. Len(list))
  BY <1>1, FS_Interval
<1>5. IsFiniteSet(ToSet(list))
  BY <1>3, <1>4, FS_Surjection
<1> QED BY <1>1, <1>5 DEF ToSet

-----------------------------------------------------------------------------
(* The set operations *)

Walks == call.op \in {"MakeDifference", "MakeIntersection"}
Sets  == call.op = "MakeUnion" \/ (Increasing(call.one) /\ Increasing(call.two))

ListTypes ==
    /\ call.op \in ListCall /\ call.one \in Seq(Int) /\ call.two \in Seq(Int)
    /\ walk1 \in 1 .. Len(call.one) + 1 /\ walk2 \in 1 .. Len(call.two) + 1
    /\ result \in Seq(Int) /\ returned \in BOOLEAN

\* All passed handles are below those of the other list that are still to come.
Passed ==
    /\ \A i \in walk1 .. Len(call.one), j \in 1 .. walk2 - 1 : call.two[j] < call.one[i]
    /\ \A i \in 1 .. walk1 - 1, j \in walk2 .. Len(call.two) : call.one[i] < call.two[j]

\* What the result has of the handle.
Taken(a) == (call.op = "MakeDifference") <=> (a \notin ToSet(call.two))

TakenSoFar ==
    /\ Increasing(result)
    /\ \A k \in 1 .. Len(result) : \E i \in 1 .. walk1 - 1 : result[k] = call.one[i]
    /\ \A i \in 1 .. walk1 - 1 : call.one[i] \in ToSet(result) <=> Taken(call.one[i])

ListInv ==
    /\ ListTypes
    /\ Walks /\ Sets => Passed /\ TakenSoFar
    /\ Walks /\ returned => ~Walking
    /\ call.op = "MakeUnion" =>
           result = IF returned THEN Sorted(ToSet(call.one) \cup ToSet(call.two)) ELSE <<>>

\* A set operation begins.
LEMMA ListInitially == ASSUME ApiInit, call.op \in ListCall PROVE ListInv
<1>1. call \in [op : ListCall, one : Seq(Int), two : Seq(Int)]
  BY ApiAssumption DEF ApiInit, ListCall
<1>2. walk1 = 1 /\ walk2 = 1 /\ result = <<>> /\ returned = FALSE /\ Len(result) = 0 /\ DOMAIN result = {}
  BY DEF ApiInit
<1>3. call.one \in Seq(Int) /\ call.two \in Seq(Int) /\ Len(call.one) \in Nat /\ Len(call.two) \in Nat
  BY <1>1
<1>4. ListTypes
  <2>1. call.op \in ListCall /\ result \in Seq(Int) /\ returned \in BOOLEAN
    BY <1>1, <1>2, EmptySeq
  <2>2. walk1 \in 1 .. Len(call.one) + 1 /\ walk2 \in 1 .. Len(call.two) + 1
    BY <1>2, <1>3
  <2> QED BY <1>3, <2>1, <2>2 DEF ListTypes
<1>5. Passed /\ TakenSoFar
  BY <1>2, <1>3 DEF Passed, TakenSoFar, Increasing
<1> QED BY <1>2, <1>4, <1>5 DEF ListInv

\* One turn of the loop.
LEMMA WalkStep == ASSUME ListInv, WalkLists PROVE ListInv'
<1> DEFINE one == call.one
           two == call.two
           a == one[walk1]
           b == two[walk2]
<1>1. /\ Walks /\ ~returned /\ walk1 <= Len(one) /\ walk2 <= Len(two)
      /\ walk1' = (IF a <= b THEN walk1 + 1 ELSE walk1)
      /\ walk2' = (IF b <= a THEN walk2 + 1 ELSE walk2)
      /\ result' = (IF Takes(a, b) THEN Append(result, a) ELSE result)
      /\ UNCHANGED <<call, returned>>
  BY DEF WalkLists, Walking, Walks
<1>2. /\ one \in Seq(Int) /\ two \in Seq(Int) /\ Len(one) \in Nat /\ Len(two) \in Nat
      /\ walk1 \in 1 .. Len(one) /\ walk2 \in 1 .. Len(two) /\ result \in Seq(Int) /\ returned = FALSE
      /\ Len(result) \in Nat
      /\ call.op \in ListCall
  <2>1. /\ one \in Seq(Int) /\ two \in Seq(Int) /\ result \in Seq(Int) /\ call.op \in ListCall
        /\ walk1 \in 1 .. Len(one) + 1 /\ walk2 \in 1 .. Len(two) + 1
    BY DEF ListInv, ListTypes
  <2> HIDE DEF one, two
  <2>2. Len(one) \in Nat /\ Len(two) \in Nat /\ Len(result) \in Nat
    BY <2>1
  <2> QED BY <1>1, <2>1, <2>2
<1>3. /\ \A i \in 1 .. Len(one) : one[i] \in Int
      /\ \A j \in 1 .. Len(two) : two[j] \in Int
      /\ DOMAIN one = 1 .. Len(one) /\ DOMAIN two = 1 .. Len(two)
  BY <1>2
<1>4. a \in Int /\ b \in Int
  BY <1>2, <1>3
<1>5. result' \in Seq(Int)
  BY <1>1, <1>2, <1>4
<1>6. ListTypes'
  <2>1. walk1' \in 1 .. Len(one) + 1 /\ walk2' \in 1 .. Len(two) + 1
    BY <1>1, <1>2, <1>4
  <2> HIDE DEF a, b
  <2> QED BY <1>1, <1>2, <1>5, <2>1 DEF ListTypes
<1>7. call.op # "MakeUnion"
  BY <1>1 DEF Walks
<1>8. ASSUME Sets
      PROVE  Passed' /\ TakenSoFar'
  <2>1. /\ \A i, j \in 1 .. Len(one) : i < j => one[i] < one[j]
        /\ \A i, j \in 1 .. Len(two) : i < j => two[i] < two[j]
    BY <1>3, <1>7, <1>8 DEF Sets, Increasing
  <2>2. /\ \A i \in walk1 .. Len(one), j \in 1 .. walk2 - 1 : two[j] < one[i]
        /\ \A i \in 1 .. walk1 - 1, j \in walk2 .. Len(two) : one[i] < two[j]
    BY <1>1, <1>8 DEF ListInv, Passed
  <2>3. /\ Increasing(result)
        /\ \A k \in 1 .. Len(result) : \E i \in 1 .. walk1 - 1 : result[k] = one[i]
        /\ \A i \in 1 .. walk1 - 1 : one[i] \in ToSet(result) <=> Taken(one[i])
    BY <1>1, <1>8 DEF ListInv, TakenSoFar
  <2> HIDE DEF one, two, a, b
  <2>a. a = one[walk1] /\ b = two[walk2] /\ one = call.one /\ two = call.two
    BY DEF a, b, one, two
  <2>b. \A c : Taken(c)' <=> Taken(c)
    BY <1>1 DEF Taken
  <2>4. \A j \in 1 .. Len(two) : (j < walk2 => two[j] < a) /\ (j > walk2 => b < two[j])
    <3> SUFFICES ASSUME NEW j \in 1 .. Len(two)
                 PROVE  (j < walk2 => two[j] < a) /\ (j > walk2 => b < two[j])
      OBVIOUS
    <3>1. j < walk2 => j \in 1 .. walk2 - 1 /\ walk1 \in walk1 .. Len(one)
      BY <1>2
    <3>2. j < walk2 => two[j] < a
      BY <2>2, <2>a, <3>1
    <3>3. j > walk2 => b < two[j]
      BY <1>2, <2>1, <2>a
    <3> QED BY <3>2, <3>3
  <2>5. \A i \in 1 .. Len(one) : (i < walk1 => one[i] < b) /\ (i > walk1 => a < one[i])
    <3> SUFFICES ASSUME NEW i \in 1 .. Len(one)
                 PROVE  (i < walk1 => one[i] < b) /\ (i > walk1 => a < one[i])
      OBVIOUS
    <3>1. i < walk1 => i \in 1 .. walk1 - 1 /\ walk2 \in walk2 .. Len(two)
      BY <1>2
    <3>2. i < walk1 => one[i] < b
      BY <2>2, <2>a, <3>1
    <3>3. i > walk1 => a < one[i]
      BY <1>2, <2>1, <2>a
    <3> QED BY <3>2, <3>3
  <2>6. Passed'
    <3>1. \A i \in walk1' .. Len(one), j \in 1 .. walk2' - 1 : two[j] < one[i]
      <4> SUFFICES ASSUME NEW i \in walk1' .. Len(one), NEW j \in 1 .. walk2' - 1
                   PROVE  two[j] < one[i]
        OBVIOUS
      <4>1. i \in walk1 .. Len(one) /\ i \in 1 .. Len(one) /\ j \in 1 .. Len(two) /\ j <= walk2
        BY <1>1, <1>2, <1>4
      <4>2. CASE j < walk2
        BY <1>2, <2>2, <4>1, <4>2
      <4>3. CASE j = walk2
        <5>1. b <= a
          BY <1>1, <1>2, <1>4, <4>3
        <5>2. i > walk1 \/ (i = walk1 /\ b < a)
          BY <1>1, <1>2, <1>4, <4>1, <5>1
        <5> QED BY <1>3, <1>4, <2>5, <2>a, <4>1, <4>3, <5>1, <5>2
      <4> QED BY <1>2, <4>1, <4>2, <4>3
    <3>2. \A i \in 1 .. walk1' - 1, j \in walk2' .. Len(two) : one[i] < two[j]
      <4> SUFFICES ASSUME NEW i \in 1 .. walk1' - 1, NEW j \in walk2' .. Len(two)
                   PROVE  one[i] < two[j]
        OBVIOUS
      <4>1. j \in walk2 .. Len(two) /\ i \in 1 .. Len(one) /\ j \in 1 .. Len(two) /\ i <= walk1
        BY <1>1, <1>2, <1>4
      <4>2. CASE i < walk1
        BY <1>2, <2>2, <4>1, <4>2
      <4>3. CASE i = walk1
        <5>1. a <= b
          BY <1>1, <1>2, <1>4, <4>3
        <5>2. j > walk2 \/ (j = walk2 /\ a < b)
          BY <1>1, <1>2, <1>4, <4>1, <5>1
        <5> QED BY <1>3, <1>4, <2>4, <2>a, <4>1, <4>3, <5>1, <5>2
      <4> QED BY <1>2, <4>1, <4>2, <4>3
    <3> QED BY <1>1, <2>a, <3>1, <3>2 DEF Passed
  <2>7. ASSUME a <= b
        PROVE  a \in ToSet(two) <=> a = b
    <3>1. ASSUME NEW j \in 1 .. Len(two), two[j] = a
          PROVE  a = b
      <4>1. ~(j < walk2) /\ ~(j > walk2)
        BY <1>3, <1>4, <2>4, <2>7, <3>1
      <4>2. j = walk2
        BY <1>2, <4>1
      <4> QED BY <2>a, <3>1, <4>2
    <3>2. a \in ToSet(two) => \E j \in 1 .. Len(two) : two[j] = a
      BY <1>3 DEF ToSet
    <3>3. a = b => a \in ToSet(two)
      BY <1>2, <1>3, <2>a DEF ToSet
    <3> QED BY <3>1, <3>2, <3>3
  <2>8. ASSUME a <= b
        PROVE  Takes(a, b) <=> Taken(a)
    <3>1. Takes(a, b) <=> IF call.op = "MakeDifference" THEN a # b ELSE a = b
      BY <1>4, <2>8 DEF Takes
    <3> QED BY <2>7, <2>8, <2>a, <3>1 DEF Taken
  <2>9. \A k \in 1 .. Len(result) : result[k] < a /\ result[k] \in Int
    <3> SUFFICES ASSUME NEW k \in 1 .. Len(result) PROVE result[k] < a /\ result[k] \in Int
      OBVIOUS
    <3>1. PICK i \in 1 .. walk1 - 1 : result[k] = one[i]
      BY <2>3
    <3>2. i \in 1 .. Len(one) /\ walk1 \in 1 .. Len(one) /\ i < walk1
      BY <1>2, <2>a
    <3> QED BY <1>3, <2>1, <2>a, <3>1, <3>2
  <2>10. CASE Takes(a, b)
    <3>1. a <= b /\ walk1' = walk1 + 1 /\ result' = Append(result, a)
      BY <1>1, <1>4, <2>10, <2>a DEF Takes
    <3>2. /\ Len(result') = Len(result) + 1 /\ result'[Len(result) + 1] = a
          /\ \A k \in 1 .. Len(result) : result'[k] = result[k]
          /\ DOMAIN result' = 1 .. Len(result) + 1 /\ DOMAIN result = 1 .. Len(result)
      BY <1>2, <1>4, <3>1, AppendProperties
    <3>3. Increasing(result')
      <4> SUFFICES ASSUME NEW k \in 1 .. Len(result) + 1, NEW l \in 1 .. Len(result) + 1, k < l
                   PROVE  result'[k] < result'[l]
        BY <3>2 DEF Increasing
      <4>1. k \in 1 .. Len(result)
        BY <1>2
      <4>2. CASE l = Len(result) + 1
        BY <2>9, <3>2, <4>1, <4>2
      <4>3. CASE l \in 1 .. Len(result)
        BY <2>3, <3>2, <4>1, <4>3 DEF Increasing
      <4>4. Len(result) \in Nat
        BY <1>2
      <4>5. l = Len(result) + 1 \/ l \in 1 .. Len(result)
        BY <4>4
      <4> QED BY <4>2, <4>3, <4>5
    <3>4. \A k \in 1 .. Len(result') : \E i \in 1 .. walk1' - 1 : result'[k] = one[i]
      <4> SUFFICES ASSUME NEW k \in 1 .. Len(result) + 1
                   PROVE  \E i \in 1 .. walk1 : result'[k] = one[i]
        <5>1. Len(result') = Len(result) + 1 /\ walk1' - 1 = walk1
          BY <1>2, <3>1, <3>2
        <5> QED BY <5>1
      <4>1. CASE k = Len(result) + 1
        BY <1>2, <2>a, <3>2, <4>1
      <4>2. CASE k \in 1 .. Len(result)
        <5>1. PICK i \in 1 .. walk1 - 1 : result[k] = one[i]
          BY <2>3, <4>2
        <5> QED BY <1>2, <3>2, <4>2, <5>1
      <4> QED BY <1>2, <4>1, <4>2
    <3>5. ToSet(result') = ToSet(result) \cup {a}
      BY <1>2, <1>4, <3>1, AppendFacts
    <3>6. \A i \in 1 .. walk1' - 1 : one[i] \in ToSet(result') <=> Taken(one[i])
      <4> SUFFICES ASSUME NEW i \in 1 .. walk1
                   PROVE  one[i] \in ToSet(result') <=> Taken(one[i])
        BY <1>2, <3>1
      <4>1. CASE i = walk1
        BY <2>8, <2>10, <2>a, <3>1, <3>5, <4>1
      <4>2. CASE i < walk1
        <5>1. i \in 1 .. walk1 - 1 /\ i \in 1 .. Len(one) /\ walk1 \in 1 .. Len(one)
          BY <1>2, <2>a, <4>2
        <5>2. one[i] < a
          BY <2>1, <2>a, <4>2, <5>1
        <5>3. one[i] # a
          BY <1>3, <1>4, <2>a, <5>1, <5>2
        <5> QED BY <2>3, <3>5, <5>1, <5>3
      <4> QED BY <1>2, <4>1, <4>2
    <3> QED BY <1>1, <2>6, <2>a, <2>b, <3>3, <3>4, <3>6 DEF TakenSoFar
  <2>11. CASE ~Takes(a, b)
    <3>1. result' = result /\ ToSet(result') = ToSet(result)
      BY <1>1, <2>11, <2>a
    <3>2. a \notin ToSet(result)
      <4>1. DOMAIN result = 1 .. Len(result)
        BY <1>2
      <4> QED BY <1>4, <2>9, <4>1 DEF ToSet
    <3>3. \A k \in 1 .. Len(result) : \E i \in 1 .. walk1' - 1 : result[k] = one[i]
      <4>1. 1 .. walk1 - 1 \subseteq 1 .. walk1' - 1
        BY <1>1, <1>2
      <4> QED BY <2>3, <4>1
    <3>4. \A i \in 1 .. walk1' - 1 : one[i] \in ToSet(result) <=> Taken(one[i])
      <4> SUFFICES ASSUME NEW i \in 1 .. walk1' - 1
                   PROVE  one[i] \in ToSet(result) <=> Taken(one[i])
        OBVIOUS
      <4>1. CASE i < walk1
        BY <1>2, <2>3, <4>1
      <4>2. CASE i >= walk1
        <5>1. i = walk1 /\ a <= b
          BY <1>1, <1>2, <2>a, <4>2
        <5> QED BY <2>8, <2>11, <2>a, <3>2, <5>1
      <4> QED BY <1>1, <1>2, <4>1, <4>2
    <3> QED BY <1>1, <2>3, <2>6, <2>a, <2>b, <3>1, <3>3, <3>4 DEF TakenSoFar
  <2> QED BY <2>10, <2>11
<1>9. Sets' = Sets /\ Walks' = Walks
  BY <1>1 DEF Sets, Walks
<1> QED BY <1>1, <1>2, <1>6, <1>7, <1>8, <1>9 DEF ListInv

\* Every step of a set operation.
LEMMA ListStep == ASSUME ListInv, [ApiNext]_apiVars PROVE ListInv' /\ UNCHANGED call
<1>0. call.op \in ListCall /\ call.op # "EstimateLineWrap"
  BY DEF ListInv, ListTypes, ListCall
<1>1. CASE WalkLists
  BY <1>1, WalkStep DEF WalkLists
<1>2. CASE ListsEnd
  <2>1. /\ Walks /\ ~Walking /\ returned' = TRUE /\ UNCHANGED <<call, walk1, walk2, result>>
    BY <1>2 DEF ListsEnd, Walks
  <2>2. call.op # "MakeUnion"
    BY <2>1 DEF Walks
  <2>3. ListTypes'
    BY <2>1 DEF ListInv, ListTypes
  <2>4. Walks /\ Sets => Passed' /\ TakenSoFar'
    BY <2>1 DEF ListInv, Passed, TakenSoFar, Taken
  <2>5. (Walks' <=> Walks) /\ (Sets' <=> Sets) /\ (Walking' <=> Walking)
    BY <2>1 DEF Walks, Sets, Walking
  <2> QED BY <2>1, <2>2, <2>3, <2>4, <2>5 DEF ListInv
<1>3. CASE MakeUnion
  <2>1. /\ call.op = "MakeUnion" /\ returned' = TRUE /\ UNCHANGED <<call, walk1, walk2>>
        /\ result' = Sorted(ToSet(call.one) \cup ToSet(call.two))
    BY <1>3 DEF MakeUnion
  <2>2. ~Walks'
    BY <2>1 DEF Walks
  <2>3. result' \in Seq(Int)
    <3>1. call.one \in Seq(Int) /\ call.two \in Seq(Int)
      BY DEF ListInv, ListTypes
    <3>2. /\ ToSet(call.one) \cup ToSet(call.two) \in SUBSET Int
          /\ IsFiniteSet(ToSet(call.one) \cup ToSet(call.two))
      BY <3>1, ToSetFinite, FS_Union
    <3> QED BY <2>1, <3>2, SortedFacts
  <2>4. ListTypes'
    BY <2>1, <2>3 DEF ListInv, ListTypes
  <2> QED BY <2>1, <2>2, <2>4 DEF ListInv
<1>4. CASE UNCHANGED apiVars
  BY <1>4 DEF apiVars, ListInv, ListTypes, Walks, Sets, Passed, TakenSoFar, Taken, Walking
<1>5. ~WrapLine
  BY <1>0 DEF WrapLine
<1> QED BY <1>1, <1>2, <1>3, <1>4, <1>5 DEF ApiNext

\* What has been taken is what should have been.
LEMMA SetsMeant == ListInv => SetsAreMeant
<1> SUFFICES ASSUME ListInv, Sets
             PROVE  /\ Increasing(result) /\ ToSet(result) \subseteq MeantSet
                    /\ returned =>
                           \/ Lost = {}
                           \/ call.op = "MakeDifference" /\ \A a \in Lost, b \in ToSet(call.two) : b < a
  BY DEF SetsAreMeant, Sets, AreSorted
<1> DEFINE one == call.one
           two == call.two
<1>1. /\ one \in Seq(Int) /\ two \in Seq(Int) /\ Len(one) \in Nat /\ Len(two) \in Nat
      /\ walk1 \in 1 .. Len(one) + 1 /\ walk2 \in 1 .. Len(two) + 1 /\ result \in Seq(Int)
      /\ call.op \in ListCall
  BY DEF ListInv, ListTypes
<1>2. /\ \A i \in 1 .. Len(one) : one[i] \in Int
      /\ \A j \in 1 .. Len(two) : two[j] \in Int
      /\ ToSet(one) = {one[i] : i \in 1 .. Len(one)} /\ ToSet(two) = {two[i] : i \in 1 .. Len(two)}
      /\ ToSet(result) = {result[i] : i \in 1 .. Len(result)}
  BY <1>1 DEF ToSet
<1>3. CASE call.op = "MakeUnion"
  <2>1. MeantSet = ToSet(one) \cup ToSet(two)
    BY <1>3 DEF MeantSet
  <2>2. CASE ~returned
    <3>1. result = <<>>
      BY <1>3, <2>2 DEF ListInv
    <3> QED BY <2>2, <3>1 DEF Increasing, ToSet
  <2>3. CASE returned
    <3>1. MeantSet \in SUBSET Int /\ IsFiniteSet(MeantSet)
      BY <1>1, <2>1, ToSetFinite, FS_Union
    <3>2. result = Sorted(MeantSet)
      BY <1>3, <2>1, <2>3 DEF ListInv
    <3> QED BY <3>1, <3>2, SortedFacts DEF Lost
  <2> QED BY <2>2, <2>3
<1>4. CASE call.op # "MakeUnion"
  <2>1. Walks /\ call.op \in {"MakeDifference", "MakeIntersection"}
    BY <1>1, <1>4 DEF Walks, ListCall
  <2>2. Passed /\ TakenSoFar
    BY <2>1 DEF ListInv
  <2>3. \A a : a \in MeantSet <=> a \in ToSet(one) /\ Taken(a)
    BY <2>1 DEF MeantSet, Taken
  <2>4. ToSet(result) \subseteq MeantSet
    <3> SUFFICES ASSUME NEW k \in 1 .. Len(result) PROVE result[k] \in MeantSet
      BY <1>2
    <3>1. PICK i \in 1 .. walk1 - 1 : result[k] = one[i]
      BY <2>2 DEF TakenSoFar
    <3>2. one[i] \in ToSet(result) /\ i \in 1 .. Len(one)
      BY <1>1, <1>2, <3>1
    <3>3. Taken(one[i])
      BY <2>2, <3>1, <3>2 DEF TakenSoFar
    <3> QED BY <1>2, <2>3, <3>1, <3>2, <3>3
  <2>5. ASSUME returned, NEW a \in Lost
        PROVE  call.op = "MakeDifference" /\ \A b \in ToSet(two) : b < a
    <3>0. a \in MeantSet /\ a \notin ToSet(result)
      BY DEF Lost
    <3>1. PICK i \in 1 .. Len(one) : a = one[i]
      BY <1>2, <2>3, <3>0
    <3>2. i >= walk1
      <4>1. ~(i \in 1 .. walk1 - 1)
        BY <2>2, <2>3, <3>0, <3>1 DEF TakenSoFar
      <4> QED BY <1>1, <4>1
    <3>3. walk2 = Len(two) + 1
      <4>1. ~Walking
        BY <2>1, <2>5 DEF ListInv
      <4>2. i <= Len(one) /\ walk1 <= Len(one)
        BY <1>1, <3>2
      <4>3. Len(two) \in Nat /\ walk2 \in 1 .. Len(two) + 1
        BY <1>1
      <4>4. ~(walk2 <= Len(two))
        BY <4>1, <4>2 DEF Walking
      <4> QED BY <4>3, <4>4
    <3>4. \A j \in 1 .. Len(two) : two[j] < a
      <4>1. i \in walk1 .. Len(one)
        BY <1>1, <3>2
      <4>2. \A j \in 1 .. walk2 - 1 : two[j] < one[i]
        BY <2>2, <4>1 DEF Passed
      <4> QED BY <1>1, <3>1, <3>3, <4>2
    <3>5. \A b \in ToSet(two) : b < a
      BY <1>2, <3>4
    <3>6. a \notin ToSet(two)
      <4>1. a \in Int /\ ~(a < a)
        BY <1>2, <3>1
      <4> QED BY <3>5, <4>1
    <3> QED BY <2>1, <2>3, <3>0, <3>5, <3>6 DEF Taken
  <2> QED BY <2>2, <2>4, <2>5 DEF TakenSoFar
<1> QED BY <1>3, <1>4

-----------------------------------------------------------------------------
(* Widths *)

Wraps ==
    /\ call.op = "EstimateLineWrap"
    /\ call.text \in Seq(DOMAIN Width) /\ call.width \in Nat

\* The widths of the text add up as the function says.
LEMMA WidthOfFacts ==
    ASSUME Wraps
    PROVE  /\ WidthOf \in [0 .. Len(call.text) -> Nat] /\ WidthOf[0] = 0
           /\ \A n \in 1 .. Len(call.text) : WidthOf[n - 1] < WidthOf[n]
<1> DEFINE N == Len(call.text)
           w == [n \in 1 .. N |-> Width[call.text[n]]]
<1>1. N \in Nat /\ \A n \in 1 .. N : call.text[n] \in DOMAIN Width
  BY DEF Wraps
<1>2. \A n \in 1 .. N : Width[call.text[n]] \in Nat \ {0}
  BY <1>1, ApiAssumption
<1>3. w \in [1 .. N -> Nat] /\ \A n \in 1 .. N : w[n] = Width[call.text[n]] /\ w[n] > 0
  BY <1>2
<1> HIDE DEF w
<1>4. PICK f \in [0 .. N -> Nat] : f = [n \in 0 .. N |-> IF n = 0 THEN 0 ELSE f[n - 1] + w[n]]
  BY <1>1, <1>3, PartialSums
<1>5. f = [n \in 0 .. N |-> IF n = 0 THEN 0 ELSE f[n - 1] + Width[call.text[n]]]
  <2>1. \A n \in 0 .. N : n = 0 \/ n \in 1 .. N
    BY <1>1
  <2> QED BY <1>3, <1>4, <2>1
<1>6. WidthOf = [n \in 0 .. N |-> IF n = 0 THEN 0 ELSE WidthOf[n - 1] + Width[call.text[n]]]
  BY <1>5 DEF WidthOf
<1> DEFINE Have == {n \in Nat : n <= N => WidthOf[n] \in Nat}
<1> HIDE DEF N
<1>7. /\ DOMAIN WidthOf = 0 .. N /\ WidthOf[0] = 0
      /\ \A n \in 1 .. N : WidthOf[n] = WidthOf[n - 1] + w[n]
  <2>1. 0 \in 0 .. N
    BY <1>1
  <2>2. \A n \in 1 .. N : n \in 0 .. N /\ n # 0
    BY <1>1
  <2>3. DOMAIN WidthOf = 0 .. N /\ WidthOf[0] = 0
    BY <1>6, <2>1
  <2>4. \A n \in 1 .. N : WidthOf[n] = WidthOf[n - 1] + Width[call.text[n]]
    BY <1>6, <2>2
  <2> QED BY <1>3, <2>3, <2>4
<1>8. \A n \in Nat : n \in Have => n + 1 \in Have
  BY <1>1, <1>3, <1>7
<1>9. 0 \in Have
  BY <1>1, <1>7
<1>10. \A n \in 0 .. N : WidthOf[n] \in Nat
  <2>1. Nat \subseteq Have
    BY <1>8, <1>9, AllNumbers
  <2> QED BY <1>1, <2>1
<1>11. WidthOf \in [0 .. N -> Nat]
  BY <1>6, <1>10
<1>12. \A n \in 1 .. N : WidthOf[n - 1] < WidthOf[n]
  BY <1>1, <1>3, <1>7, <1>10
<1> QED BY <1>7, <1>11, <1>12 DEF N

\* Longer text is wider.
LEMMA WidthsRise ==
    ASSUME Wraps, NEW i \in 1 .. Len(call.text) + 1
    PROVE  /\ \A n \in 0 .. Len(call.text) + 1 - i : TextWidth(i, n) \in Nat
           /\ TextWidth(i, 0) = 0
           /\ \A m, n \in 0 .. Len(call.text) + 1 - i : m < n => TextWidth(i, m) < TextWidth(i, n)
<1> DEFINE N == Len(call.text)
           Wider(d) == \A m \in 0 .. N : m + d <= N => WidthOf[m] + d <= WidthOf[m + d]
           Have == {d \in Nat : Wider(d)}
<1>1. N \in Nat
  BY DEF Wraps
<1>2. /\ \A n \in 0 .. N : WidthOf[n] \in Nat
      /\ \A n \in 1 .. N : WidthOf[n - 1] < WidthOf[n]
  BY WidthOfFacts
<1> HIDE DEF N
<1>3. 0 \in Have
  BY <1>1, <1>2
<1>4. ASSUME NEW d \in Nat, d \in Have
      PROVE  d + 1 \in Have
  <2> SUFFICES ASSUME NEW m \in 0 .. N, m + (d + 1) <= N
               PROVE  WidthOf[m] + (d + 1) <= WidthOf[m + (d + 1)]
    OBVIOUS
  <2>1. m + d <= N /\ m + (d + 1) \in 1 .. N /\ (m + (d + 1)) - 1 = m + d /\ m + d \in 0 .. N
    BY <1>1
  <2>2. WidthOf[m] + d <= WidthOf[m + d]
    BY <1>4, <2>1
  <2>3. WidthOf[m + d] < WidthOf[m + (d + 1)]
    BY <1>2, <2>1
  <2>4. WidthOf[m] \in Nat /\ WidthOf[m + d] \in Nat /\ WidthOf[m + (d + 1)] \in Nat
    BY <1>2, <2>1
  <2> QED BY <2>2, <2>3, <2>4
<1>5. ASSUME NEW m \in 0 .. N, NEW n \in 0 .. N, m <= n
      PROVE  WidthOf[m] + (n - m) <= WidthOf[n]
  <2> HIDE DEF Have
  <2>1. Nat \subseteq Have
    BY <1>3, <1>4, AllNumbers
  <2>2. n - m \in Nat /\ m + (n - m) = n /\ m + (n - m) <= N
    BY <1>1, <1>5
  <2>3. Wider(n - m)
    BY <2>1, <2>2 DEF Have
  <2> QED BY <2>2, <2>3
<1>6. ASSUME NEW n \in 0 .. N + 1 - i
      PROVE  /\ i + n - 1 \in 0 .. N /\ i - 1 \in 0 .. N /\ i - 1 <= i + n - 1
             /\ TextWidth(i, n) = WidthOf[i + n - 1] - WidthOf[i - 1]
             /\ TextWidth(i, n) \in Nat
             /\ WidthOf[i + n - 1] \in Int /\ WidthOf[i - 1] \in Int
  <2>1. i + n - 1 \in 0 .. N /\ i - 1 \in 0 .. N /\ i - 1 <= i + n - 1
    BY <1>1 DEF N
  <2>2. WidthOf[i - 1] + ((i + n - 1) - (i - 1)) <= WidthOf[i + n - 1]
    BY <1>5, <2>1
  <2>3. WidthOf[i - 1] \in Nat /\ WidthOf[i + n - 1] \in Nat
    BY <1>2, <2>1
  <2>4. (i + n - 1) - (i - 1) \in Nat
    BY <2>1
  <2> QED BY <2>1, <2>2, <2>3, <2>4 DEF TextWidth
<1>7. TextWidth(i, 0) = 0
  <2>1. 0 \in 0 .. N + 1 - i /\ i + 0 - 1 = i - 1
    BY <1>1 DEF N
  <2> QED BY <1>6, <2>1
<1>8. ASSUME NEW m \in 0 .. N + 1 - i, NEW n \in 0 .. N + 1 - i, m < n
      PROVE  TextWidth(i, m) < TextWidth(i, n)
  <2>1. i + m - 1 < i + n - 1 /\ i + m - 1 \in 0 .. N /\ i + n - 1 \in 0 .. N
    BY <1>6, <1>8
  <2>2. WidthOf[i + m - 1] + ((i + n - 1) - (i + m - 1)) <= WidthOf[i + n - 1]
    BY <1>5, <2>1
  <2>3. WidthOf[i + m - 1] < WidthOf[i + n - 1]
    BY <1>6, <1>8, <2>2
  <2> QED BY <1>6, <2>3
<1> QED BY <1>6, <1>7, <1>8 DEF N

-----------------------------------------------------------------------------
(* Lines *)

\* wcschr finds the first line feed.
LEMMA FirstFeed ==
    ASSUME Wraps, NEW i \in 1 .. Len(call.text) + 1
    PROVE  /\ LineFeedFrom(i) \in i .. Len(call.text) + 1
           /\ LineFeedFrom(i) = Len(call.text) + 1 \/ call.text[LineFeedFrom(i)] = LineFeed
           /\ \A n \in i .. LineFeedFrom(i) - 1 : call.text[n] # LineFeed
<1> DEFINE N == Len(call.text)
           Feeds == {j \in i .. N + 1 : j = N + 1 \/ call.text[j] = LineFeed}
<1>1. N \in Nat
  BY DEF Wraps
<1>2. N + 1 \in Feeds /\ Feeds \subseteq Nat
  BY <1>1
<1>3. PICK j \in Feeds : \A n \in Feeds : j <= n
  <2> HIDE DEF Feeds
  <2> QED BY <1>2, LeastNumber
<1>4. j \in i .. N + 1 /\ (j = N + 1 \/ call.text[j] = LineFeed)
  BY <1>3
<1>5. \A n \in i .. j - 1 : call.text[n] # LineFeed
  <2> SUFFICES ASSUME NEW n \in i .. j - 1, call.text[n] = LineFeed PROVE FALSE
    OBVIOUS
  <2>1. n \in i .. N + 1 /\ n < j
    BY <1>1, <1>4
  <2>2. n \in Feeds
    BY <2>1
  <2>3. j <= n
    BY <1>3, <2>2
  <2> QED BY <2>1, <2>3, <1>4, <1>1
<1> QED BY <1>4, <1>5 DEF LineFeedFrom

\* The line of i ends where the property says that lines end.
LEMMA LineEnd ==
    ASSUME Wraps, NEW i \in 1 .. Len(call.text) + 1
    PROVE  /\ EndOfLine(i) \in i .. LineFeedFrom(i)
           /\ IsLineEnd(i, EndOfLine(i))
           /\ IF LineFeedFrom(i) > Len(call.text) THEN EndOfLine(i) = Len(call.text) + 1
              ELSE \A n \in EndOfLine(i) .. LineFeedFrom(i) - 1 : call.text[n] = Return
<1> DEFINE N == Len(call.text)
           T == call.text
           feed == LineFeedFrom(i)
           end == EndOfLine(i)
<1>1. N \in Nat
  BY DEF Wraps
<1>2. feed \in i .. N + 1 /\ (feed = N + 1 \/ T[feed] = LineFeed) /\ \A n \in i .. feed - 1 : T[n] # LineFeed
  BY FirstFeed
<1>3. feed > N => end = feed
  BY DEF EndOfLine
<1>4. ASSUME feed <= N
      PROVE  /\ end \in i .. feed /\ \A n \in end .. feed - 1 : T[n] = Return
             /\ end > i => T[end - 1] # Return
  <2> DEFINE Ends == {j \in i .. feed : \A n \in j .. feed - 1 : T[n] = Return}
  <2> HIDE DEF feed, N, T
  <2>1. feed \in Ends /\ Ends \subseteq Nat
    BY <1>1, <1>2
  <2>2. PICK j \in Ends : \A n \in Ends : j <= n
    <3> HIDE DEF Ends
    <3> QED BY <2>1, LeastNumber
  <2>3. ASSUME j > i, T[j - 1] = Return PROVE FALSE
    <3>1. j - 1 \in i .. feed /\ \A n \in j - 1 .. feed - 1 : n = j - 1 \/ n \in j .. feed - 1
      BY <1>1, <1>2, <2>2, <2>3
    <3>2. j - 1 \in Ends
      BY <2>2, <2>3, <3>1
    <3>3. j <= j - 1 /\ j \in Int
      BY <1>1, <1>2, <2>2, <3>2
    <3> QED BY <3>3
  <2>4. j \in i .. feed /\ (\A n \in j .. feed - 1 : T[n] = Return) /\ (j > i => T[j - 1] # Return)
    BY <2>2, <2>3
  <2>5. end = CHOOSE k \in i .. feed : (\A n \in k .. feed - 1 : T[n] = Return) /\ (k > i => T[k - 1] # Return)
    <3>1. ~(feed > N)
      BY <1>1, <1>2, <1>4
    <3> QED BY <3>1, Zenon DEF EndOfLine, feed, N, T
  <2> HIDE DEF end
  <2> QED BY <2>4, <2>5
<1> HIDE DEF end, feed
<1>5. end \in i .. feed
  BY <1>1, <1>2, <1>3, <1>4
<1>6. LineEnds(end)
  <2>1. CASE feed = N + 1
    BY <1>1, <1>3, <2>1 DEF LineEnds
  <2>2. CASE feed <= N
    <3>1. feed \in end .. N
      BY <1>1, <1>2, <1>5, <2>2
    <3> QED BY <1>2, <1>4, <2>2, <3>1 DEF LineEnds
  <2> QED BY <1>1, <1>2, <2>1, <2>2
<1>7. ASSUME NEW n \in i .. end - 1, LineEnds(n)
      PROVE  FALSE
  <2>1. n \in i .. N /\ n < end /\ n < feed /\ n \in i .. feed - 1
    BY <1>1, <1>2, <1>5
  <2>2. PICK other \in n .. N : T[other] = LineFeed /\ \A k \in n .. other - 1 : T[k] = Return
    BY <1>1, <1>7, <2>1 DEF LineEnds
  <2>3. ~(other < feed)
    <3>1. other < feed => other \in i .. feed - 1
      BY <1>1, <1>2, <2>1, <2>2
    <3> QED BY <1>2, <2>2, <3>1
  <2>4. feed <= N
    BY <1>1, <1>2, <2>1, <2>2, <2>3
  <2>5. ~(other > feed)
    <3>1. other > feed => feed \in n .. other - 1
      BY <1>1, <1>2, <2>1, <2>2
    <3>2. T[feed] = LineFeed
      BY <1>1, <1>2, <2>4
    <3> QED BY <2>2, <3>1, <3>2, ApiAssumption
  <2>6. other = feed
    BY <1>1, <1>2, <2>1, <2>2, <2>3, <2>5
  <2>7. end > i /\ end - 1 \in n .. other - 1
    BY <1>1, <1>2, <1>5, <2>1, <2>6
  <2> QED BY <1>4, <2>2, <2>4, <2>7
<1>8. IF feed > N THEN end = N + 1 ELSE \A n \in end .. feed - 1 : T[n] = Return
  BY <1>1, <1>2, <1>3, <1>4
<1> QED BY <1>5, <1>6, <1>7, <1>8 DEF IsLineEnd, end, feed

-----------------------------------------------------------------------------
(* How much of a line becomes an item *)

\* The estimate is below the length of what does not fit.
LEMMA EstimateIsBelow ==
    ASSUME NEW len \in Nat \ {0}, NEW width \in Nat, NEW all \in Nat, width < all
    PROVE  (len * width) \div all \in 0 .. len - 1
<1> DEFINE q == (len * width) \div all
<1>1. len * width \in Nat
  OBVIOUS
<1>2. q \in Nat /\ q * all <= len * width
  BY <1>1
<1>3. len * width < len * all
  OBVIOUS
<1> HIDE DEF q
<1>4. ASSUME q >= len
      PROVE  q * all >= len * all
  BY <1>2, <1>4
<1>5. q < len
  <2>1. q * all \in Int /\ len * all \in Int /\ len * width \in Int
    BY <1>2
  <2> QED BY <1>2, <1>3, <1>4, <2>1
<1> QED BY <1>2, <1>5 DEF q

\* What the line begins with that fits.
Fits(i, len) == {n \in 1 .. len : TextWidth(i, n) <= call.width}

\* Up or down from the estimate is the greatest length that fits; if none does, 0 or 1.
LEMMA FittingIsGreatest ==
    ASSUME Wraps, NEW i \in 1 .. Len(call.text) + 1, NEW len \in 0 .. Len(call.text) + 1 - i,
           TextWidth(i, len) > call.width, len > 0
    PROVE  /\ Fitting(i, len) \in 0 .. len - 1
           /\ IF Fits(i, len) = {} THEN Fitting(i, len) <= 1
              ELSE Fitting(i, len) \in Fits(i, len) /\ \A n \in Fits(i, len) : n <= Fitting(i, len)
<1> DEFINE W(n) == TextWidth(i, n)
           e == Estimate(i, len)
           f == Fitting(i, len)
           width == call.width
<1>1. /\ \A n \in 0 .. len : W(n) \in Nat
      /\ W(0) = 0
      /\ \A m, n \in 0 .. len : m < n => W(m) < W(n)
      /\ len \in Nat \ {0} /\ width \in Nat
  <2>1. Len(call.text) \in Nat /\ width \in Nat
    BY DEF Wraps
  <2>2. len \in Nat \ {0} /\ 0 .. len \subseteq 0 .. Len(call.text) + 1 - i
    BY <2>1
  <2> QED BY <2>1, <2>2, WidthsRise
<1> HIDE DEF W
<1>2. W(len) > width
  BY DEF W
<1>3. e \in 0 .. len - 1
  <2>1. W(len) \in Nat
    BY <1>1
  <2> QED BY <1>1, <1>2, <2>1, EstimateIsBelow DEF Estimate, W
<1> HIDE DEF e, f, width
<1>4. CASE W(e) < width
  <2> DEFINE Over == {n \in e .. len - 1 : W(n + 1) > width}
  <2>1. len - 1 \in Over /\ Over \subseteq Nat
    BY <1>1, <1>2, <1>3
  <2>2. PICK m \in Over : \A n \in Over : m <= n
    <3> HIDE DEF Over
    <3> QED BY <2>1, LeastNumber
  <2>3. ASSUME NEW k \in e + 1 .. m
        PROVE  W(k) <= width
    <3>1. k - 1 \in e .. len - 1 /\ k - 1 < m /\ k \in 0 .. len /\ (k - 1) + 1 = k /\ m \in Int
      BY <1>1, <1>3, <2>2
    <3>2. k - 1 \notin Over
      BY <2>2, <3>1
    <3>3. ~(W(k) > width)
      BY <3>1, <3>2
    <3> QED BY <1>1, <3>1, <3>3
  <2>4. f = CHOOSE n \in e .. len - 1 : W(n + 1) > width /\ \A k \in e + 1 .. n : W(k) <= width
    BY <1>4, Zenon DEF Fitting, W, e, f, width
  <2>5. m \in e .. len - 1 /\ W(m + 1) > width
    BY <2>2
  <2>6. f \in e .. len - 1 /\ W(f + 1) > width /\ \A k \in e + 1 .. f : W(k) <= width
    <3> HIDE DEF Over
    <3> QED BY <2>3, <2>4, <2>5
  <2>7. f \in 0 .. len - 1 /\ f + 1 \in 0 .. len /\ W(f) \in Nat /\ W(f + 1) \in Nat
    BY <1>1, <1>3, <2>6
  <2>8. W(f) <= width
    <3>1. CASE f = e
      BY <1>4, <2>7, <1>1, <3>1
    <3>2. CASE f # e
      BY <1>1, <1>3, <2>6, <3>2
    <3> QED BY <3>1, <3>2
  <2>9. ASSUME NEW n \in Fits(i, len)
        PROVE  n <= f
    <3>1. n \in 1 .. len /\ W(n) <= width /\ n \in 0 .. len
      BY <1>1 DEF Fits, W, width
    <3>2. CASE n > f + 1
      BY <1>1, <2>6, <2>7, <3>1, <3>2
    <3>3. CASE n = f + 1
      BY <1>1, <2>6, <2>7, <3>1, <3>3
    <3> QED BY <2>7, <3>1, <3>2, <3>3
  <2>10. f # 0 => f \in Fits(i, len)
    <3>1. f # 0 => f \in 1 .. len
      BY <1>1, <2>7
    <3> QED BY <2>8, <3>1 DEF Fits, W, width
  <2>11. f = 0 => Fits(i, len) = {}
    <3> SUFFICES ASSUME NEW n \in Fits(i, len) PROVE f # 0
      OBVIOUS
    <3>1. n <= f /\ n \in 1 .. len
      BY <2>9 DEF Fits
    <3> QED BY <1>1, <3>1
  <2> QED BY <2>7, <2>9, <2>10, <2>11 DEF f
<1>5. CASE ~(W(e) < width)
  <2> DEFINE Down == {n \in 0 .. e : W(n) <= width \/ n <= 1}
  <2>1. 0 \in Down /\ Down \subseteq 0 .. e /\ e \in Nat
    BY <1>1, <1>3
  <2>2. PICK m \in Down : \A n \in Down : n <= m
    <3> HIDE DEF Down
    <3>1. Down # {}
      BY <2>1
    <3> QED BY <2>1, <3>1, GreatestNumber
  <2>3. ASSUME NEW k \in m + 1 .. e
        PROVE  W(k) > width /\ k > 1
    <3>1. k \in 0 .. e /\ k > m /\ k \in 0 .. len /\ m \in Int
      BY <1>1, <1>3, <2>2
    <3>2. k \notin Down
      BY <2>2, <3>1
    <3>3. ~(W(k) <= width) /\ ~(k <= 1)
      BY <3>1, <3>2
    <3> QED BY <1>1, <3>1, <3>3
  <2>4. f = CHOOSE n \in 0 .. e : /\ W(n) <= width \/ n <= 1
                                  /\ \A k \in n + 1 .. e : W(k) > width /\ k > 1
    BY <1>5, Zenon DEF Fitting, W, e, f, width
  <2>5. m \in 0 .. e /\ (W(m) <= width \/ m <= 1)
    BY <2>2
  <2>6. /\ f \in 0 .. e /\ (W(f) <= width \/ f <= 1)
        /\ \A k \in f + 1 .. e : W(k) > width /\ k > 1
    <3> HIDE DEF Down
    <3> QED BY <2>3, <2>4, <2>5
  <2>7. f \in 0 .. len - 1 /\ f \in 0 .. len /\ e \in 0 .. len /\ W(f) \in Nat /\ W(e) \in Nat
    BY <1>1, <1>3, <2>6
  <2>8. ASSUME NEW n \in Fits(i, len)
        PROVE  n <= f
    <3>1. n \in 1 .. len /\ W(n) <= width /\ n \in 0 .. len
      BY <1>1 DEF Fits, W, width
    <3>2. ~(n \in f + 1 .. e)
      BY <1>1, <2>6, <3>1
    <3>3. ~(n > e)
      BY <1>1, <1>5, <2>7, <3>1
    <3> QED BY <2>7, <3>1, <3>2, <3>3
  <2>9. f # 0 /\ W(f) <= width => f \in Fits(i, len)
    <3>1. f # 0 => f \in 1 .. len
      BY <1>1, <2>7
    <3> QED BY <3>1 DEF Fits, W, width
  <2>10. f > 1 => f \in Fits(i, len)
    BY <2>6, <2>7, <2>9
  <2>11. ASSUME NEW n \in Fits(i, len)
         PROVE  f \in Fits(i, len)
    <3>1. n <= f /\ n \in 1 .. len /\ W(n) <= width
      BY <2>8 DEF Fits, W, width
    <3>2. n = f \/ f > 1
      BY <2>7, <3>1
    <3> QED BY <2>10, <3>2
  <2> QED BY <2>7, <2>8, <2>10, <2>11 DEF f
<1> QED BY <1>4, <1>5

\* Back from n is the last place to wrap, or none.
LEMMA LastPlace ==
    ASSUME NEW i, NEW n \in Nat
    PROVE  /\ LastWrap(i, n) \in 0 .. n
           /\ LastWrap(i, n) = 0 \/ Breaks(i, LastWrap(i, n))
           /\ \A m \in LastWrap(i, n) + 1 .. n : ~Breaks(i, m)
<1> DEFINE B(k) == Breaks(i, k)
           b == LastWrap(i, n)
           Places == {k \in 0 .. n : k = 0 \/ B(k)}
<1> HIDE DEF B
<1>1. 0 \in Places /\ Places \subseteq 0 .. n
  OBVIOUS
<1>2. PICK k \in Places : \A m \in Places : m <= k
  <2> HIDE DEF Places
  <2>1. Places # {}
    BY <1>1
  <2> QED BY <1>1, <2>1, GreatestNumber
<1>3. ASSUME NEW m \in k + 1 .. n
      PROVE  ~B(m)
  <2>1. m \in 0 .. n /\ m > k /\ k \in Int
    BY <1>2
  <2>2. m \notin Places
    BY <1>2, <2>1
  <2> QED BY <2>1, <2>2
<1>4. k \in 0 .. n /\ (k = 0 \/ B(k))
  BY <1>2
<1>5. b = CHOOSE j \in 0 .. n : (j = 0 \/ B(j)) /\ \A m \in j + 1 .. n : ~B(m)
  BY Zenon DEF LastWrap, B
<1> HIDE DEF b, Places
<1>6. b \in 0 .. n /\ (b = 0 \/ B(b)) /\ \A m \in b + 1 .. n : ~B(m)
  BY <1>3, <1>4, <1>5
<1> QED BY <1>6 DEF b, B

\* The item that WrapLine makes of the rest of a line has the length it should have.
LEMMA ItemIsMeant ==
    ASSUME Wraps, NEW i \in 1 .. Len(call.text) + 1, NEW item, item.from = i,
           item.length = ItemLength(i, EndOfLine(i) - i)
    PROVE  /\ LengthIsMeant(item)
           /\ EndOfLine(i) \in i .. Len(call.text) + 1
           /\ item.length \in 0 .. EndOfLine(i) - i
           /\ EndOfLine(i) > i => item.length > 0
<1> DEFINE N == Len(call.text)
           len == EndOfLine(i) - i
           W(n) == TextWidth(i, n)
           width == call.width
           length == item.length
           fit == Fits(i, len)
           places == {n \in fit \ {len} : Breaks(i, n)}
           f == Fitting(i, len)
           b == LastWrap(i, f)
           Longest(lengths) == length \in lengths /\ \A n \in lengths : n <= length
<1>1. N \in Nat /\ width \in Nat
  BY DEF Wraps
<1>2. EndOfLine(i) \in i .. N + 1 /\ IsLineEnd(i, EndOfLine(i))
  BY <1>1, FirstFeed, LineEnd
<1>3. len \in 0 .. N + 1 - i /\ i + len = EndOfLine(i) /\ len \in 0 .. N
  BY <1>1, <1>2
<1>4. /\ \A n \in 0 .. len : W(n) \in Nat
      /\ W(0) = 0
      /\ \A m, n \in 0 .. len : m < n => W(m) < W(n)
  <2>1. 0 .. len \subseteq 0 .. N + 1 - i
    BY <1>1, <1>3
  <2> QED BY <2>1, WidthsRise
<1> HIDE DEF len
<1>5. \A n \in fit : n \in 1 .. len /\ n \in Nat /\ W(n) <= width
  BY <1>3 DEF Fits
<1>6. length = IF W(len) <= width \/ len <= 1 THEN len
               ELSE IF b > 0 THEN b ELSE IF f > 1 THEN f ELSE 1
  BY DEF ItemLength, len
<1> HIDE DEF N, W, width, length, fit, f, b
<1>7. /\ length \in 0 .. len /\ (len > 0 => length > 0)
      /\ IF len = 0 \/ len \in fit THEN length = len
         ELSE IF places # {} THEN Longest(places)
         ELSE IF fit # {} THEN Longest(fit) ELSE length = 1
  <2>1. CASE W(len) <= width \/ len = 0
    <3>1. length = len
      BY <1>3, <1>6, <2>1
    <3>2. len # 0 => len \in fit
      BY <1>3, <2>1 DEF fit, Fits, W, width
    <3> QED BY <1>3, <3>1, <3>2
  <2>2. CASE ~(W(len) <= width) /\ len = 1
    <3>1. length = 1
      BY <1>6, <2>2
    <3>2. fit = {}
      BY <1>5, <2>2
    <3> QED BY <2>2, <3>1, <3>2
  <2>3. CASE ~(W(len) <= width) /\ len > 1
    <3>1. W(len) > width /\ len \in Nat
      BY <1>1, <1>3, <1>4, <2>3
    <3>2. /\ f \in 0 .. len - 1
          /\ IF fit = {} THEN f <= 1 ELSE f \in fit /\ \A n \in fit : n <= f
      BY <1>3, <2>3, <3>1, FittingIsGreatest DEF N, W, width, fit, f
    <3>3. /\ b \in 0 .. f /\ (b = 0 \/ Breaks(i, b))
          /\ \A m \in b + 1 .. f : ~Breaks(i, m)
      <4>1. f \in Nat
        BY <3>2
      <4> QED BY <4>1, LastPlace DEF b
    <3>4. length = IF b > 0 THEN b ELSE IF f > 1 THEN f ELSE 1
      BY <1>6, <2>3, <3>1
    <3>5. b \in Nat /\ f \in Nat /\ len \in Nat /\ b <= f /\ f < len
      BY <3>1, <3>2, <3>3
    <3>6. length \in 0 .. len /\ length > 0
      BY <2>3, <3>4, <3>5
    <3>7. len # 0 /\ len \notin fit
      BY <1>5, <2>3
    <3>8. CASE fit = {}
      BY <3>2, <3>3, <3>4, <3>5, <3>6, <3>7, <3>8
    <3>9. CASE fit # {}
      <4>1. f \in fit /\ (\A n \in fit : n <= f) /\ f >= 1 /\ f # len
        BY <1>5, <3>2, <3>5, <3>9
      <4>2. \A n \in places : n <= b
        <5> SUFFICES ASSUME NEW n \in fit, Breaks(i, n) PROVE n <= b
          OBVIOUS
        <5>1. n \in Nat /\ n <= f
          BY <1>5, <4>1
        <5>2. ~(n \in b + 1 .. f)
          BY <3>3
        <5> QED BY <3>5, <5>1, <5>2
      <4>3. CASE b > 0
        <5>1. length = b
          BY <3>4, <4>3
        <5>2. W(b) <= width
          <6>1. b \in 0 .. len /\ f \in 0 .. len
            BY <3>5
          <6>2. W(b) <= W(f) /\ W(f) <= width /\ W(b) \in Nat /\ W(f) \in Nat
            <7>1. W(b) \in Nat /\ W(f) \in Nat
              BY <1>4, <6>1
            <7>2. CASE b = f
              BY <1>5, <4>1, <7>1, <7>2
            <7>3. CASE b < f
              BY <1>4, <1>5, <4>1, <6>1, <7>1, <7>3
            <7> QED BY <3>5, <7>2, <7>3
          <6> QED BY <1>1, <6>2
        <5>3. b \in fit
          <6>1. b \in 1 .. len
            BY <3>5, <4>3
          <6> QED BY <5>2, <6>1 DEF fit, Fits, W, width
        <5>4. b \in places
          BY <3>3, <3>5, <4>3, <5>3
        <5> QED BY <3>6, <3>7, <4>2, <5>1, <5>4
      <4>4. CASE b = 0
        <5>1. places = {}
          BY <1>5, <4>2, <4>4
        <5>2. length = f
          BY <3>4, <3>5, <4>1, <4>4
        <5> QED BY <3>6, <3>7, <3>9, <4>1, <5>1, <5>2
      <4> QED BY <3>5, <4>3, <4>4
    <3> QED BY <3>8, <3>9
  <2> QED BY <1>3, <2>1, <2>2, <2>3
<1>8. LengthIsMeant(item)
  <2>1. len \in 0 .. Len(call.text) /\ IsLineEnd(item.from, item.from + len)
    BY <1>2, <1>3 DEF N
  <2>2. fit = {n \in 1 .. len : TextWidth(item.from, n) <= call.width}
    BY DEF fit, Fits
  <2>3. places = {n \in fit \ {len} : Breaks(item.from, n)}
    OBVIOUS
  <2> HIDE DEF places
  <2> QED BY <1>7, <2>1, <2>2, <2>3 DEF LengthIsMeant, length
<1> QED BY <1>2, <1>7, <1>8 DEF N, len, length

-----------------------------------------------------------------------------
(* The items of a text *)

Items == [from : 1 .. Len(call.text) + 1, length : 0 .. Len(call.text), width : Nat]

ItemsFollow ==
    \A k \in 1 .. Len(result) :
        /\ IF k = 1 THEN result[k].from = 1 ELSE GoesOn(EndOf(result[k - 1]), result[k].from)
        /\ LengthIsMeant(result[k])
        /\ result[k].width = TextWidth(result[k].from, result[k].length)

\* The next item follows the last.
WrapInv ==
    /\ Wraps
    /\ result \in Seq(Items) /\ returned \in BOOLEAN
    /\ ItemsFollow
    /\ IF returned THEN result # <<>> /\ EndOf(result[Len(result)]) = Len(call.text) + 1
       ELSE /\ walk1 \in 1 .. Len(call.text) + 1
            /\ IF result = <<>> THEN walk1 = 1 ELSE GoesOn(EndOf(result[Len(result)]), walk1)

\* A wrap begins.
LEMMA WrapInitially == ASSUME ApiInit, call.op = "EstimateLineWrap" PROVE WrapInv
<1>1. call \in [op : {"EstimateLineWrap"}, text : Seq(DOMAIN Width), width : Nat]
  <2>1. call.op \notin ListCall
    BY DEF ListCall
  <2>2. ~(call \in [op : ListCall, one : Seq(Int), two : Seq(Int)])
    BY <2>1
  <2> QED BY <2>2, ApiAssumption DEF ApiInit
<1>2. Wraps /\ Len(call.text) \in Nat
  BY <1>1 DEF Wraps
<1>3. walk1 = 1 /\ result = <<>> /\ returned = FALSE /\ Len(result) = 0 /\ walk1 \in 1 .. Len(call.text) + 1
  BY <1>2 DEF ApiInit
<1>4. result \in Seq(Items)
  BY <1>3, EmptySeq
<1>5. ItemsFollow
  BY <1>3 DEF ItemsFollow
<1> QED BY <1>2, <1>3, <1>4, <1>5 DEF WrapInv

\* One item more.
LEMMA ItemStep == ASSUME WrapInv, WrapLine PROVE WrapInv'
<1> DEFINE N == Len(call.text)
           i == walk1
           len == EndOfLine(i) - i
           n == ItemLength(i, len)
           feed == LineFeedFrom(i)
           item == [from |-> i, length |-> n, width |-> TextWidth(i, n)]
           last == Len(result) + 1
<1>1. /\ Wraps /\ N \in Nat /\ returned = FALSE
      /\ i \in 1 .. N + 1
      /\ result \in Seq(Items) /\ Len(result) \in Nat
  BY DEF WrapInv, Wraps, WrapLine
<1>2. /\ result' = Append(result, item)
      /\ walk1' = (IF n < len THEN i + n ELSE feed + 1)
      /\ returned' = (n = len /\ feed > N)
      /\ call' = call
  BY DEF WrapLine
<1>3. item.from = i /\ item.length = n /\ item.width = TextWidth(i, n) /\ EndOf(item) = i + n
  BY DEF EndOf
<1>4. /\ LengthIsMeant(item) /\ EndOfLine(i) \in i .. N + 1 /\ n \in 0 .. len
  <2> HIDE DEF item
  <2> QED BY <1>1, <1>3, ItemIsMeant
<1>5. /\ feed \in i .. N + 1 /\ (feed = N + 1 \/ call.text[feed] = LineFeed)
  BY <1>1, FirstFeed
<1>6. /\ EndOfLine(i) \in i .. feed /\ IsLineEnd(i, EndOfLine(i))
      /\ IF feed > N THEN EndOfLine(i) = N + 1
         ELSE \A k \in EndOfLine(i) .. feed - 1 : call.text[k] = Return
  BY <1>1, LineEnd
<1>7. len \in 0 .. N /\ n \in Nat /\ i + len = EndOfLine(i)
  BY <1>1, <1>4
<1>8. TextWidth(i, n) \in Nat
  <2>1. n \in 0 .. N + 1 - i
    BY <1>1, <1>4, <1>7
  <2> QED BY <1>1, <2>1, WidthsRise
<1>9. item \in Items
  BY <1>1, <1>4, <1>7, <1>8 DEF Items
<1> HIDE DEF item, n, feed
<1>10. /\ result' \in Seq(Items) /\ Len(result') = last /\ result'[last] = item
       /\ \A k \in 1 .. Len(result) : result'[k] = result[k]
       /\ result' # <<>>
  BY <1>1, <1>2, <1>9, AppendProperties, AppendFacts
<1>11. Wraps' /\ Items' = Items /\ returned' \in BOOLEAN
  BY <1>1, <1>2 DEF Wraps, Items
<1>12. \A it : /\ LengthIsMeant(it)' <=> LengthIsMeant(it)
               /\ (TextWidth(it.from, it.length))' = TextWidth(it.from, it.length)
  BY <1>2 DEF LengthIsMeant, IsLineEnd, LineEnds, TextWidth, WidthOf, Breaks, IsWrapChar
<1>13. \A end, from : GoesOn(end, from)' <=> GoesOn(end, from)
  BY <1>2 DEF GoesOn, LineEnds
<1>14. ItemsFollow'
  <2> SUFFICES ASSUME NEW k \in 1 .. last
               PROVE  /\ IF k = 1 THEN result'[k].from = 1
                         ELSE GoesOn(EndOf(result'[k - 1]), result'[k].from)
                      /\ LengthIsMeant(result'[k])
                      /\ result'[k].width = TextWidth(result'[k].from, result'[k].length)
    BY <1>10, <1>12, <1>13 DEF ItemsFollow, EndOf
  <2>1. CASE k \in 1 .. Len(result)
    <3>1. result'[k] = result[k] /\ (k # 1 => result'[k - 1] = result[k - 1])
      BY <1>1, <1>10, <2>1
    <3> QED BY <2>1, <3>1 DEF WrapInv, ItemsFollow
  <2>2. CASE k = last
    <3>1. result'[k] = item
      BY <1>10, <2>2
    <3>2. CASE k = 1
      <4>1. result = <<>>
        BY <1>1, <2>2, <3>2, EmptySeq
      <4>2. i = 1
        BY <1>1, <4>1 DEF WrapInv
      <4> QED BY <1>3, <1>4, <3>1, <3>2, <4>2
    <3>3. CASE k # 1
      <4>1. k - 1 = Len(result) /\ Len(result) \in 1 .. Len(result) /\ result # <<>>
        BY <1>1, <2>2, <3>3, EmptySeq
      <4>2. result'[k - 1] = result[Len(result)]
        BY <1>10, <4>1
      <4>3. GoesOn(EndOf(result[Len(result)]), i)
        BY <1>1, <4>1 DEF WrapInv
      <4> QED BY <1>3, <1>4, <3>1, <3>3, <4>2, <4>3
    <3> QED BY <3>2, <3>3
  <2>3. k \in 1 .. Len(result) \/ k = last
    BY <1>1
  <2> QED BY <2>1, <2>2, <2>3
<1>15. result'[Len(result')] = item
  BY <1>10
<1>16. ASSUME returned'
       PROVE  EndOf(item) = N + 1
  BY <1>1, <1>2, <1>3, <1>6, <1>7, <1>16
<1>17. ASSUME ~returned'
       PROVE  walk1' \in 1 .. N + 1 /\ GoesOn(EndOf(item), walk1')
  <2>1. CASE n < len
    <3>1. walk1' = i + n /\ i + n \in i .. EndOfLine(i) - 1 /\ i + n \in 1 .. N + 1
      BY <1>1, <1>2, <1>4, <1>7, <2>1
    <3>2. ~LineEnds(i + n)
      BY <1>6, <3>1 DEF IsLineEnd
    <3> QED BY <1>3, <3>1, <3>2 DEF GoesOn
  <2>2. CASE n = len
    <3>1. feed \in i .. N /\ walk1' = feed + 1 /\ i + n = EndOfLine(i)
      <4>1. ~(feed > N)
        BY <1>2, <1>17, <2>2
      <4>2. ~(n < len)
        BY <1>7, <2>2
      <4>3. walk1' = feed + 1
        BY <1>2, <4>2
      <4>4. feed \in i .. N
        BY <1>1, <1>5, <4>1
      <4> QED BY <1>7, <2>2, <4>3, <4>4
    <3>2. LineEnds(i + n)
      BY <1>6, <3>1 DEF IsLineEnd
    <3>3. call.text[walk1' - 1] = LineFeed
      BY <1>1, <1>5, <3>1
    <3>4. walk1' > i + n /\ walk1' - 2 = feed - 1 /\ walk1' \in 1 .. N + 1
      BY <1>1, <1>6, <3>1
    <3>5. \A k \in i + n .. walk1' - 2 : call.text[k] = Return
      BY <1>1, <1>6, <3>1, <3>4
    <3> QED BY <1>3, <3>2, <3>3, <3>4, <3>5 DEF GoesOn
  <2> QED BY <1>4, <1>7, <2>1, <2>2
<1>18. \A it : EndOf(it)' = EndOf(it)
  BY DEF EndOf
<1> HIDE DEF i, len, last
<1> QED BY <1>2, <1>10, <1>11, <1>13, <1>14, <1>15, <1>16, <1>17 DEF WrapInv, EndOf

\* Every step of a wrap.
LEMMA WrapStep == ASSUME WrapInv, [ApiNext]_apiVars PROVE WrapInv'
<1>1. call.op = "EstimateLineWrap"
  BY DEF WrapInv, Wraps
<1>2. CASE WrapLine
  BY <1>2, ItemStep
<1>3. CASE UNCHANGED apiVars
  <2>1. call' = call /\ walk1' = walk1 /\ result' = result /\ returned' = returned
    BY <1>3 DEF apiVars
  <2>2. \A it : /\ LengthIsMeant(it)' <=> LengthIsMeant(it)
                /\ (TextWidth(it.from, it.length))' = TextWidth(it.from, it.length)
    BY <2>1 DEF LengthIsMeant, IsLineEnd, LineEnds, TextWidth, WidthOf, Breaks, IsWrapChar
  <2>3. \A end, from : GoesOn(end, from)' <=> GoesOn(end, from)
    BY <2>1 DEF GoesOn, LineEnds
  <2>4. ItemsFollow' <=> ItemsFollow
    BY <2>1, <2>2, <2>3 DEF ItemsFollow, EndOf
  <2>5. Wraps' /\ Items' = Items
    BY <2>1 DEF WrapInv, Wraps, Items
  <2> QED BY <2>1, <2>3, <2>4, <2>5 DEF WrapInv, EndOf
<1> QED BY <1>1, <1>2, <1>3 DEF ApiNext, WalkLists, ListsEnd, MakeUnion

\* Every call gives what it should: the set operations on sorted lists, the union of any,
\* and the items of every text at every width.
THEOREM CallsGiveTheMeant == ApiSpec => []ResultsAreMeant
<1> DEFINE Inv == IF call.op = "EstimateLineWrap" THEN WrapInv ELSE ListInv
<1>1. ApiInit => Inv
  <2> SUFFICES ASSUME ApiInit, call.op # "EstimateLineWrap" PROVE call.op \in ListCall
    BY ListInitially, WrapInitially
  <2> QED BY ApiAssumption DEF ApiInit
<1>2. Inv /\ [ApiNext]_apiVars => Inv'
  <2> SUFFICES ASSUME Inv, [ApiNext]_apiVars PROVE Inv'
    OBVIOUS
  <2>1. call' = call
    BY DEF ApiNext, WalkLists, ListsEnd, MakeUnion, WrapLine, apiVars
  <2>2. CASE call.op = "EstimateLineWrap"
    BY <2>1, <2>2, WrapStep
  <2>3. CASE call.op # "EstimateLineWrap"
    BY <2>1, <2>3, ListStep
  <2> QED BY <2>2, <2>3
<1>3. Inv => ResultsAreMeant
  BY SetsMeant DEF ResultsAreMeant, WrapInv, WrapIsMeant, ItemsFollow
<1> HIDE DEF Inv
<1> QED BY <1>1, <1>2, <1>3, PTL DEF ApiSpec

=============================================================================
