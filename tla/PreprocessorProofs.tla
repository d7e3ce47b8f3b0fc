----------------------------- MODULE PreprocessorProofs -----------------------------
(***************************************************************************)
(* Proofs about the preprocessor of scripts: what the walk finds is what   *)
(* the lines of the block say, and what is left of a path.                 *)
(***************************************************************************)
EXTENDS Preprocessor, SequenceFacts, FiniteSetTheorems

Token == (UNION {ToSet(s) : s \in Scripts}) \cup ToSet(Expansion) \cup {Percent}

Directives == [directive : Token, value : Seq(Token)]

-----------------------------------------------------------------------------
(* The text *)

LEMMA ScriptFacts ==
    ASSUME script \in Scripts
    PROVE  /\ script \in Seq(Token) /\ Len(script) \in Nat
           /\ \A i \in 1 .. Len(script) : At(i) = script[i] /\ script[i] \in Token /\ script[i] # EndOfText
           /\ \A i : i \notin 1 .. Len(script) => At(i) = EndOfText
<1>1. script \in Seq(ToSet(script)) /\ EndOfText \notin ToSet(script) /\ ToSet(script) \subseteq Token
  BY PreprocessorAssumption DEF Token
<1>2. \A i \in 1 .. Len(script) : script[i] \in ToSet(script)
  BY <1>1
<1>3. script \in Seq(Token) /\ Len(script) \in Nat
  <2>1. Seq(ToSet(script)) \subseteq Seq(Token)
    BY <1>1
  <2> QED BY <1>1, <2>1
<1> QED BY <1>1, <1>2, <1>3 DEF At

\* The least position of those from i on.
LEMMA LeastFrom ==
    ASSUME NEW i \in Nat, NEW n \in Nat, NEW R, R \subseteq i .. n, R # {}
    PROVE  \E j \in R : \A k \in i .. j - 1 : k \notin R
<1>1. PICK j \in R : \A k \in R : j <= k
  <2>1. R \subseteq Nat
    OBVIOUS
  <2> QED BY <2>1, LeastNumber
<1>2. ASSUME NEW k \in i .. j - 1
      PROVE  k \notin R
  BY <1>1, <1>2
<1> QED BY <1>2

LEMMA FindFacts ==
    ASSUME script \in Scripts, NEW i \in 1 .. Len(script) + 1, NEW token
    PROVE  /\ Find(i, token) \in i .. Len(script) + 1
           /\ At(Find(i, token)) \in {token, EndOfText}
           /\ \A n \in i .. Find(i, token) - 1 : At(n) # token
<1> DEFINE R == {j \in i .. Len(script) + 1 : At(j) \in {token, EndOfText}}
           IsFound(j) == At(j) \in {token, EndOfText} /\ \A n \in i .. j - 1 : At(n) # token
<1>1. Len(script) \in Nat /\ At(Len(script) + 1) = EndOfText
  BY ScriptFacts
<1>2. R \subseteq i .. Len(script) + 1 /\ Len(script) + 1 \in R
  BY <1>1
<1>3. PICK j \in R : \A k \in i .. j - 1 : k \notin R
  <2> HIDE DEF R
  <2>1. i \in Nat /\ Len(script) + 1 \in Nat /\ R # {}
    BY <1>1, <1>2
  <2> QED BY <1>2, <2>1, LeastFrom
<1>4. j \in i .. Len(script) + 1 /\ IsFound(j)
  BY <1>1, <1>3
<1> HIDE DEF IsFound
<1>5. \E k \in i .. Len(script) + 1 : IsFound(k)
  BY <1>4
<1>6. Find(i, token) = CHOOSE k \in i .. Len(script) + 1 : IsFound(k)
  BY DEF Find, IsFound
<1>7. Find(i, token) \in i .. Len(script) + 1 /\ IsFound(Find(i, token))
  BY <1>5, <1>6
<1> QED BY <1>7 DEF IsFound

LEMMA SkipFacts ==
    ASSUME script \in Scripts, NEW i \in 1 .. Len(script) + 1, NEW tokens \in {Indent, Blanks}
    PROVE  /\ Skip(i, tokens) \in i .. Len(script) + 1
           /\ At(Skip(i, tokens)) \notin tokens
           /\ \A n \in i .. Skip(i, tokens) - 1 : At(n) \in tokens
<1> DEFINE R == {j \in i .. Len(script) + 1 : At(j) \notin tokens}
           IsFound(j) == At(j) \notin tokens /\ \A n \in i .. j - 1 : At(n) \in tokens
<1>1. Len(script) \in Nat /\ At(Len(script) + 1) = EndOfText /\ EndOfText \notin tokens
  BY ScriptFacts, PreprocessorAssumption DEF Indent, Blanks
<1>2. R \subseteq i .. Len(script) + 1 /\ Len(script) + 1 \in R
  BY <1>1
<1>3. PICK j \in R : \A k \in i .. j - 1 : k \notin R
  <2> HIDE DEF R
  <2>1. i \in Nat /\ Len(script) + 1 \in Nat /\ R # {}
    BY <1>1, <1>2
  <2> QED BY <1>2, <2>1, LeastFrom
<1>4. j \in i .. Len(script) + 1 /\ IsFound(j)
  BY <1>1, <1>3
<1> HIDE DEF IsFound
<1>5. \E k \in i .. Len(script) + 1 : IsFound(k)
  BY <1>4
<1>6. Skip(i, tokens) = CHOOSE k \in i .. Len(script) + 1 : IsFound(k)
  BY DEF Skip, IsFound
<1>7. Skip(i, tokens) \in i .. Len(script) + 1 /\ IsFound(Skip(i, tokens))
  BY <1>5, <1>6
<1> QED BY <1>7 DEF IsFound

-----------------------------------------------------------------------------
(* Lines *)

LEMMA LineOfFacts ==
    ASSUME NEW i \in Nat \ {0}
    PROVE  /\ LineOf(i) \in Nat \ {0}
           /\ IsFiniteSet({n \in 1 .. i - 1 : At(n) = Newline})
<1>1. IsFiniteSet(1 .. i - 1)
  BY FS_Interval
<1>2. IsFiniteSet({n \in 1 .. i - 1 : At(n) = Newline})
  BY <1>1, FS_Subset
<1> QED BY <1>2, FS_CardinalityType DEF LineOf

\* A newline ends a line, nothing else does.
LEMMA NextLineOf ==
    ASSUME NEW i \in Nat \ {0}
    PROVE  LineOf(i + 1) = IF At(i) = Newline THEN LineOf(i) + 1 ELSE LineOf(i)
<1> DEFINE R(j) == {n \in 1 .. j - 1 : At(n) = Newline}
<1>1. i \notin R(i) /\ R(i + 1) = IF At(i) = Newline THEN R(i) \cup {i} ELSE R(i)
  <2>1. \A n : n \in 1 .. (i + 1) - 1 <=> n \in 1 .. i - 1 \/ n = i
    OBVIOUS
  <2>2. i \notin 1 .. i - 1
    OBVIOUS
  <2> QED BY <2>1, <2>2
<1>2. IsFiniteSet(R(i))
  BY LineOfFacts
<1>3. \A j : LineOf(j) = Cardinality(R(j)) + 1
  BY DEF LineOf
<1> HIDE DEF R
<1>4. Cardinality(R(i) \cup {i}) = Cardinality(R(i)) + 1 /\ Cardinality(R(i)) \in Nat
  BY <1>1, <1>2, FS_AddElement, FS_CardinalityType
<1> QED BY <1>1, <1>3, <1>4

LEMMA LinesRise ==
    ASSUME NEW i \in Nat \ {0}, NEW j \in Nat \ {0}, i <= j
    PROVE  /\ LineOf(i) <= LineOf(j)
           /\ (\A n \in i .. j - 1 : At(n) # Newline) => LineOf(i) = LineOf(j)
           /\ (\E n \in i .. j - 1 : At(n) = Newline) => LineOf(i) < LineOf(j)
<1> DEFINE R(k) == {n \in 1 .. k - 1 : At(n) = Newline}
<1>1. ASSUME NEW k \in Nat \ {0}, NEW l \in Nat \ {0}, k <= l
      PROVE  LineOf(k) <= LineOf(l)
  <2>1. R(k) \subseteq R(l)
    BY <1>1
  <2>2. IsFiniteSet(R(l))
    BY LineOfFacts
  <2>3. Cardinality(R(k)) <= Cardinality(R(l))
    <3> HIDE DEF R
    <3> QED BY <2>1, <2>2, FS_Subset
  <2>4. LineOf(k) = Cardinality(R(k)) + 1 /\ LineOf(l) = Cardinality(R(l)) + 1
    BY DEF LineOf
  <2>5. LineOf(k) \in Nat /\ LineOf(l) \in Nat
    BY LineOfFacts
  <2>6. Cardinality(R(k)) \in Nat /\ Cardinality(R(l)) \in Nat
    BY <2>2, <1>1, LineOfFacts, FS_CardinalityType
  <2> HIDE DEF R
  <2> QED BY <2>3, <2>4, <2>6
<1>2. ASSUME \A n \in i .. j - 1 : At(n) # Newline
      PROVE  LineOf(i) = LineOf(j)
  <2>1. R(i) = R(j)
    BY <1>2
  <2> QED BY <2>1 DEF LineOf
<1>3. ASSUME NEW n \in i .. j - 1, At(n) = Newline
      PROVE  LineOf(i) < LineOf(j)
  <2>1. n \in Nat \ {0} /\ n + 1 \in Nat \ {0} /\ i <= n /\ n + 1 <= j
    OBVIOUS
  <2>2. LineOf(i) <= LineOf(n) /\ LineOf(n + 1) = LineOf(n) + 1 /\ LineOf(n + 1) <= LineOf(j)
    BY <1>1, <1>3, <2>1, NextLineOf
  <2>3. LineOf(i) \in Nat /\ LineOf(n) \in Nat /\ LineOf(j) \in Nat
    BY <2>1, LineOfFacts
  <2> QED BY <2>2, <2>3
<1> QED BY <1>1, <1>2, <1>3

-----------------------------------------------------------------------------
(* The block *)

LEMMA BlockFacts ==
    ASSUME script \in Scripts
    PROVE  LET b == Find(1, Begin)
           IN  /\ b \in 1 .. Len(script) + 1 /\ At(b) \in {Begin, EndOfText}
               /\ \A n \in 1 .. b - 1 : At(n) # Begin
               /\ BlockBegin \in b .. Len(script) + 1 /\ At(BlockBegin) \in {Newline, EndOfText}
               /\ \A n \in b .. BlockBegin - 1 : At(n) # Newline
               /\ EndMarker \in BlockBegin .. Len(script) + 1 /\ At(EndMarker) \in {End, EndOfText}
               /\ \A n \in BlockBegin .. EndMarker - 1 : At(n) # End
               /\ BlockEnd \in 1 .. EndMarker /\ (At(BlockEnd) = Newline \/ BlockEnd = 1)
               /\ \A n \in BlockEnd + 1 .. EndMarker : At(n) # Newline
<1> DEFINE b == Find(1, Begin)
<1>0. Len(script) \in Nat
  BY ScriptFacts
<1>1. /\ b \in 1 .. Len(script) + 1 /\ At(b) \in {Begin, EndOfText}
      /\ \A n \in 1 .. b - 1 : At(n) # Begin
  BY <1>0, FindFacts
<1> HIDE DEF b
<1>2. BlockBegin = Find(b, Newline)
  BY DEF BlockBegin, b
<1>3. /\ BlockBegin \in b .. Len(script) + 1 /\ At(BlockBegin) \in {Newline, EndOfText}
      /\ \A n \in b .. BlockBegin - 1 : At(n) # Newline
  BY <1>1, <1>2, FindFacts
<1>4. BlockBegin \in 1 .. Len(script) + 1
  BY <1>0, <1>1, <1>3
<1>5. /\ EndMarker \in BlockBegin .. Len(script) + 1 /\ At(EndMarker) \in {End, EndOfText}
      /\ \A n \in BlockBegin .. EndMarker - 1 : At(n) # End
  BY <1>4, FindFacts DEF EndMarker
<1>6. EndMarker \in Nat \ {0}
  BY <1>0, <1>4, <1>5
<1> DEFINE IsEnd(j) == (At(j) = Newline \/ j = 1) /\ \A n \in j + 1 .. EndMarker : At(n) # Newline
           R == {j \in 1 .. EndMarker : At(j) = Newline \/ j = 1}
<1>7. PICK j \in R : \A n \in R : n <= j
  <2>1. R \subseteq 0 .. EndMarker /\ 1 \in R
    BY <1>6
  <2> HIDE DEF R
  <2>2. R # {} /\ EndMarker \in Nat
    BY <1>6, <2>1
  <2> QED BY <2>1, <2>2, GreatestNumber
<1>8. j \in 1 .. EndMarker /\ IsEnd(j)
  <2>1. ASSUME NEW n \in j + 1 .. EndMarker
        PROVE  At(n) # Newline
    BY <1>6, <1>7
  <2> QED BY <1>7, <2>1
<1> HIDE DEF IsEnd
<1>9. BlockEnd = CHOOSE k \in 1 .. EndMarker : IsEnd(k)
  BY DEF BlockEnd, IsEnd
<1>10. BlockEnd \in 1 .. EndMarker /\ IsEnd(BlockEnd)
  BY <1>8, <1>9
<1> QED BY <1>1, <1>3, <1>5, <1>10 DEF IsEnd, b

\* Where the block's first and last line are.
LEMMA HasBlockFacts ==
    ASSUME script \in Scripts, HasBlock
    PROVE  /\ BlockBegin \in 1 .. Len(script) /\ BlockEnd \in 1 .. Len(script) /\ BlockBegin < BlockEnd
           /\ script[BlockBegin] = Newline /\ script[BlockEnd] = Newline
<1> DEFINE M == Len(script)
<1>1. M \in Nat /\ \A i \in 1 .. M : At(i) = script[i] /\ script[i] # EndOfText
  BY ScriptFacts
<1>2. EndMarker <= M /\ BlockBegin < BlockEnd
  BY DEF HasBlock
<1>3. PICK b \in 1 .. M + 1 : /\ BlockBegin \in b .. M + 1 /\ At(BlockBegin) \in {Newline, EndOfText}
                              /\ EndMarker \in BlockBegin .. M + 1
                              /\ BlockEnd \in 1 .. EndMarker /\ (At(BlockEnd) = Newline \/ BlockEnd = 1)
  BY BlockFacts
<1> QED BY <1>1, <1>2, <1>3

\* The lines between the markers' are those behind the first newline up to the last.
LEMMA BlockLinesAre ==
    ASSUME script \in Scripts
    PROVE  BlockLines = IF HasBlock THEN LineOf(BlockBegin) + 1 .. LineOf(BlockEnd) ELSE {}
<1> DEFINE M == Len(script)
           b == Find(1, Begin)
<1>1. /\ M \in Nat /\ \A i \in 1 .. M : At(i) = script[i] /\ script[i] # EndOfText
      /\ \A i : i \notin 1 .. M => At(i) = EndOfText
      /\ At(M + 1) = EndOfText
  BY ScriptFacts
<1>2. /\ b \in 1 .. M + 1 /\ At(b) \in {Begin, EndOfText}
      /\ \A n \in 1 .. b - 1 : At(n) # Begin
      /\ BlockBegin \in b .. M + 1 /\ At(BlockBegin) \in {Newline, EndOfText}
      /\ \A n \in b .. BlockBegin - 1 : At(n) # Newline
      /\ EndMarker \in BlockBegin .. M + 1 /\ At(EndMarker) \in {End, EndOfText}
      /\ \A n \in BlockBegin .. EndMarker - 1 : At(n) # End
      /\ BlockEnd \in 1 .. EndMarker /\ (At(BlockEnd) = Newline \/ BlockEnd = 1)
      /\ \A n \in BlockEnd + 1 .. EndMarker : At(n) # Newline
  BY BlockFacts
<1>3. Newline # End /\ Newline # EndOfText /\ Newline # Begin /\ End # EndOfText /\ Begin # EndOfText
  BY PreprocessorAssumption
<1> HIDE DEF b
<1>4. /\ b \in Nat \ {0} /\ BlockBegin \in Nat \ {0} /\ EndMarker \in Nat \ {0} /\ BlockEnd \in Nat \ {0}
      /\ b <= BlockBegin /\ BlockBegin <= EndMarker /\ BlockEnd <= EndMarker
  BY <1>1, <1>2
<1>5. LineOf(b) = LineOf(BlockBegin)
  BY <1>2, <1>4, LinesRise
<1>6. /\ LineOf(b) \in Nat /\ LineOf(BlockBegin) \in Nat /\ LineOf(EndMarker) \in Nat /\ LineOf(BlockEnd) \in Nat
      /\ LineOf(M + 1) \in Nat /\ LineOf(EndMarker) <= LineOf(M + 1)
  <2>1. M + 1 \in Nat \ {0} /\ EndMarker <= M + 1
    BY <1>1, <1>2
  <2> QED BY <1>4, <2>1, LineOfFacts, LinesRise
\* A line of an end marker is not behind the block's first line, or not before that of EndMarker.
<1>7. ASSUME NEW i \in 1 .. M, script[i] = End
      PROVE  LineOf(i) <= LineOf(b) \/ LineOf(EndMarker) <= LineOf(i)
  <2>1. i \in Nat \ {0} /\ At(i) = End
    BY <1>1, <1>7
  <2>2. i <= BlockBegin \/ EndMarker <= i
    BY <1>1, <1>2, <1>4, <2>1
  <2> QED BY <1>4, <1>5, <2>1, <2>2, LinesRise
<1>8. \A i \in 1 .. M : script[i] = Begin => LineOf(b) <= LineOf(i) /\ b \in 1 .. M /\ script[b] = Begin
  <2> SUFFICES ASSUME NEW i \in 1 .. M, script[i] = Begin
               PROVE  LineOf(b) <= LineOf(i) /\ b \in 1 .. M /\ script[b] = Begin
    OBVIOUS
  <2>1. i \in Nat \ {0} /\ At(i) = Begin /\ b <= i
    BY <1>1, <1>2, <1>4
  <2> QED BY <1>1, <1>2, <1>4, <2>1, LinesRise
<1>9. CASE HasBlock
  <2>1. EndMarker \in 1 .. M /\ script[EndMarker] = End /\ At(EndMarker) = End /\ BlockBegin < BlockEnd
    BY <1>1, <1>2, <1>4, <1>9 DEF HasBlock
  <2>2. At(BlockEnd) = Newline /\ BlockEnd < EndMarker
    BY <1>2, <1>3, <1>4, <2>1
  <2>3. LineOf(EndMarker) = LineOf(BlockEnd) + 1
    <3>1. LineOf(BlockEnd + 1) = LineOf(BlockEnd) + 1
      BY <1>4, <2>2, NextLineOf
    <3>2. BlockEnd + 1 \in Nat \ {0} /\ BlockEnd + 1 <= EndMarker
      BY <1>4, <2>2
    <3>3. \A n \in BlockEnd + 1 .. EndMarker - 1 : At(n) # Newline
      BY <1>2, <1>4
    <3>4. LineOf(BlockEnd + 1) = LineOf(EndMarker)
      BY <1>4, <3>2, <3>3, LinesRise
    <3> QED BY <3>1, <3>4
  <2>4. b \in 1 .. M /\ script[b] = Begin
    BY <1>1, <1>2, <1>4, <2>1
  <2>5. LineOf(BlockBegin) <= LineOf(BlockEnd)
    BY <1>4, <2>1, LinesRise
  <2>6. ASSUME NEW n \in BlockLines
        PROVE  n \in LineOf(BlockBegin) + 1 .. LineOf(BlockEnd)
    <3>1. PICK l \in Having(Begin), e \in Having(End) :
              /\ l < n /\ n < e /\ n \in 1 .. LineCount
              /\ \A m \in Having(Begin) : l <= m
              /\ \A m \in Having(End) : m <= l \/ e <= m
      BY DEF BlockLines
    <3>2. PICK i \in 1 .. M : script[i] = Begin /\ l = LineOf(i)
      BY DEF Having
    <3>3. LineOf(b) \in Having(Begin) /\ LineOf(EndMarker) \in Having(End)
      BY <2>1, <2>4 DEF Having
    <3>4. l = LineOf(b)
      <4>1. i \in Nat \ {0}
        OBVIOUS
      <4>2. LineOf(i) \in Nat
        BY <4>1, LineOfFacts
      <4> QED BY <1>6, <1>8, <3>1, <3>2, <3>3, <4>2
    <3>5. LineOf(EndMarker) <= l \/ e <= LineOf(EndMarker)
      BY <3>1, <3>3
    <3>6. n \in Nat /\ e \in Nat
      <4>1. PICK k \in 1 .. M : e = LineOf(k)
        BY DEF Having
      <4>2. k \in Nat \ {0}
        OBVIOUS
      <4>3. LineCount \in Nat
        BY <1>6 DEF LineCount
      <4>4. e \in Nat
        BY <4>1, <4>2, LineOfFacts
      <4> QED BY <3>1, <4>3, <4>4
    <3> QED BY <1>5, <1>6, <2>3, <2>5, <3>1, <3>4, <3>5, <3>6
  <2>7. ASSUME NEW n \in LineOf(BlockBegin) + 1 .. LineOf(BlockEnd)
        PROVE  n \in BlockLines
    <3>1. LineOf(b) \in Having(Begin) /\ LineOf(EndMarker) \in Having(End)
      BY <2>1, <2>4 DEF Having
    <3>2. n \in 1 .. LineCount /\ LineOf(b) < n /\ n < LineOf(EndMarker)
      BY <1>5, <1>6, <2>3 DEF LineCount
    <3>3. \A m \in Having(Begin) : LineOf(b) <= m
      BY <1>8 DEF Having
    <3>4. \A m \in Having(End) : m <= LineOf(b) \/ LineOf(EndMarker) <= m
      BY <1>7 DEF Having
    <3> QED BY <3>1, <3>2, <3>3, <3>4 DEF BlockLines
  <2> QED BY <1>9, <2>6, <2>7
<1>10. CASE ~HasBlock
  <2> SUFFICES ASSUME NEW n \in BlockLines PROVE FALSE
    BY <1>10
  <2>1. PICK l \in Having(Begin), e \in Having(End) :
            /\ l < n /\ n < e /\ n \in 1 .. LineCount
            /\ \A m \in Having(Begin) : l <= m
            /\ \A m \in Having(End) : m <= l \/ e <= m
    BY DEF BlockLines
  <2>2. PICK i \in 1 .. M : script[i] = Begin /\ l = LineOf(i)
    BY DEF Having
  <2>3. PICK k \in 1 .. M : script[k] = End /\ e = LineOf(k)
    BY DEF Having
  <2>4. i \in Nat \ {0} /\ k \in Nat \ {0} /\ LineOf(i) \in Nat /\ LineOf(k) \in Nat /\ n \in Nat
    <3>1. i \in Nat \ {0} /\ k \in Nat \ {0}
      OBVIOUS
    <3>2. LineCount \in Nat
      BY <1>6 DEF LineCount
    <3>3. LineOf(i) \in Nat /\ LineOf(k) \in Nat
      BY <3>1, LineOfFacts
    <3> QED BY <2>1, <3>1, <3>2, <3>3
  <2>5. b \in 1 .. M /\ script[b] = Begin /\ l = LineOf(b)
    <3>1. b \in 1 .. M /\ script[b] = Begin /\ LineOf(b) <= l
      BY <1>8, <2>2
    <3>2. l <= LineOf(b)
      BY <2>1, <3>1 DEF Having
    <3> QED BY <1>6, <2>2, <2>4, <3>1, <3>2
  <2>6. BlockBegin < k
    <3>1. k <= BlockBegin => LineOf(k) <= LineOf(BlockBegin)
      BY <1>4, <2>4, LinesRise
    <3> QED BY <1>4, <1>5, <1>6, <2>1, <2>3, <2>4, <2>5, <3>1
  <2>7. EndMarker <= k /\ EndMarker <= M /\ At(EndMarker) = End
    BY <1>1, <1>2, <1>4, <2>3, <2>4, <2>6
  <2>8. BlockEnd <= BlockBegin
    BY <1>4, <1>10, <2>7 DEF HasBlock
  <2>9. LineOf(EndMarker) <= LineOf(BlockBegin) + 1
    <3>1. LineOf(BlockBegin + 1) <= LineOf(BlockBegin) + 1
      <4>1. LineOf(BlockBegin + 1) \in {LineOf(BlockBegin), LineOf(BlockBegin) + 1}
        BY <1>4, NextLineOf
      <4> QED BY <1>6, <4>1
    <3>2. CASE BlockBegin = EndMarker
      BY <1>6, <3>2
    <3>3. CASE BlockBegin < EndMarker
      <4>1. BlockBegin + 1 \in Nat \ {0} /\ BlockBegin + 1 <= EndMarker
        BY <1>4, <3>3
      <4>2. \A m \in BlockBegin + 1 .. EndMarker - 1 : At(m) # Newline
        BY <1>2, <1>4, <2>8
      <4>3. LineOf(BlockBegin + 1) = LineOf(EndMarker)
        BY <1>4, <4>1, <4>2, LinesRise
      <4> QED BY <3>1, <4>3
    <3> QED BY <1>4, <3>2, <3>3
  <2>10. LineOf(EndMarker) \in Having(End)
    BY <1>1, <1>4, <2>7 DEF Having
  <2>11. LineOf(EndMarker) <= l \/ e <= LineOf(EndMarker)
    BY <2>1, <2>10
  <2>12. l < LineOf(EndMarker)
    <3>1. At(BlockBegin) = Newline /\ BlockBegin # EndMarker
      BY <1>1, <1>2, <1>3, <1>4, <2>7
    <3>2. BlockBegin \in BlockBegin .. EndMarker - 1
      BY <1>4, <3>1
    <3> QED BY <1>4, <1>5, <2>5, <3>1, <3>2, LinesRise
  <2> QED BY <1>5, <1>6, <2>1, <2>2, <2>3, <2>4, <2>5, <2>9, <2>11, <2>12
<1> QED BY <1>9, <1>10

-----------------------------------------------------------------------------
(* The directive of a line *)

OnLine(n) == {i \in 1 .. Len(script) : LineOf(i) = n}

\* The comment, the word and the opening quote of line n.
Opened(n, c, w, q) ==
    /\ c \in OnLine(n) /\ script[c] = Slashes /\ \A i \in OnLine(n) : i < c => script[i] \in Indent
    /\ w \in OnLine(n) /\ script[w] \in Directive /\ c < w /\ OnlySpace(c + 1, w - 1)
    /\ q \in OnLine(n) /\ script[q] = Quote /\ w < q /\ OnlySpace(w + 1, q - 1)

\* The quote that ends the value.
Closes(n, q, e) ==
    /\ e \in OnLine(n) /\ script[e] = Quote /\ q < e /\ ClosesAt(q + 1, e)
    /\ \A i \in q + 1 .. e - 1 : ~ClosesAt(q + 1, i)

LEMMA PlacesAre ==
    ASSUME NEW n
    PROVE  /\ \A at \in Places(n) : Opened(n, at[1], at[2], at[3]) /\ Closes(n, at[3], at[4])
           /\ \A c, w, q, e : Opened(n, c, w, q) /\ Closes(n, q, e) => <<c, w, q, e>> \in Places(n)
<1> DEFINE line == OnLine(n)
           Four == {c \in line : script[c] = Slashes} \X {w \in line : script[w] \in Directive}
                       \X {q \in line : script[q] = Quote} \X {e \in line : script[e] = Quote}
           Placed(c, w, q, e) ==
               /\ \A i \in line : i < c => script[i] \in Indent
               /\ c < w /\ OnlySpace(c + 1, w - 1)
               /\ w < q /\ OnlySpace(w + 1, q - 1)
               /\ q < e /\ ClosesAt(q + 1, e)
               /\ \A i \in q + 1 .. e - 1 : ~ClosesAt(q + 1, i)
<1>1. Places(n) = {at \in Four : Placed(at[1], at[2], at[3], at[4])}
  BY DEF Places, OnLine, Indent
<1> HIDE DEF line
<1>2. \A c, w, q, e : Placed(c, w, q, e) /\ c \in line /\ script[c] = Slashes /\ w \in line
                        /\ script[w] \in Directive /\ q \in line /\ script[q] = Quote
                        /\ e \in line /\ script[e] = Quote
                    <=> Opened(n, c, w, q) /\ Closes(n, q, e)
  BY DEF Opened, Closes, line
<1> HIDE DEF Placed
<1>3. ASSUME NEW at \in Places(n)
      PROVE  Opened(n, at[1], at[2], at[3]) /\ Closes(n, at[3], at[4])
  <2>1. at \in Four /\ Placed(at[1], at[2], at[3], at[4])
    BY <1>1
  <2>2. /\ at[1] \in line /\ script[at[1]] = Slashes /\ at[2] \in line /\ script[at[2]] \in Directive
        /\ at[3] \in line /\ script[at[3]] = Quote /\ at[4] \in line /\ script[at[4]] = Quote
    BY <2>1
  <2> QED BY <1>2, <2>1, <2>2
<1>4. ASSUME NEW c, NEW w, NEW q, NEW e, Opened(n, c, w, q), Closes(n, q, e)
      PROVE  <<c, w, q, e>> \in Places(n)
  <2> DEFINE at == <<c, w, q, e>>
  <2>1. at[1] = c /\ at[2] = w /\ at[3] = q /\ at[4] = e
    OBVIOUS
  <2>2. Placed(c, w, q, e) /\ c \in line /\ script[c] = Slashes /\ w \in line
        /\ script[w] \in Directive /\ q \in line /\ script[q] = Quote
        /\ e \in line /\ script[e] = Quote
    BY <1>2, <1>4
  <2>3. at \in Four
    BY <2>2
  <2> QED BY <1>1, <2>1, <2>2, <2>3
<1> QED BY <1>3, <1>4

LEMMA OpenedOnce ==
    ASSUME NEW n, NEW c, NEW w, NEW q, NEW c2, NEW w2, NEW q2,
           Opened(n, c, w, q), Opened(n, c2, w2, q2)
    PROVE  c = c2 /\ w = w2 /\ q = q2
<1>1. Slashes \notin Indent /\ Space \notin Directive /\ Space # Quote
  BY PreprocessorAssumption DEF Indent
<1>2. /\ c \in Int /\ w \in Int /\ q \in Int /\ c2 \in Int /\ w2 \in Int /\ q2 \in Int
  BY DEF Opened, OnLine
<1>3. c = c2
  BY <1>1, <1>2 DEF Opened
<1>4. w = w2
  BY <1>1, <1>2, <1>3 DEF Opened, OnlySpace
<1>5. q = q2
  BY <1>1, <1>2, <1>4 DEF Opened, OnlySpace
<1> QED BY <1>3, <1>4, <1>5

LEMMA ClosesOnce ==
    ASSUME NEW n, NEW q \in Int, NEW e, NEW f, Closes(n, q, e), Closes(n, q, f)
    PROVE  e = f
<1>1. e \in Int /\ f \in Int
  BY DEF Closes, OnLine
<1>2. ~(e < f) /\ ~(f < e)
  BY <1>1 DEF Closes
<1> QED BY <1>1, <1>2

LEMMA MeantByPlace ==
    ASSUME NEW n, NEW c, NEW w, NEW q, NEW e, Opened(n, c, w, q), Closes(n, q, e)
    PROVE  MeantBy(n) = <<[directive |-> script[w], value |-> Unescaped(q + 1, e - 1)]>>
<1>1. <<c, w, q, e>> \in Places(n)
  BY PlacesAre
<1> DEFINE at == CHOOSE at \in Places(n) : TRUE
<1>2. at \in Places(n)
  BY <1>1
<1>3. MeantBy(n) = <<[directive |-> script[at[2]], value |-> Unescaped(at[3] + 1, at[4] - 1)]>>
  BY <1>1 DEF MeantBy
<1> HIDE DEF at
<1>4. Opened(n, at[1], at[2], at[3]) /\ Closes(n, at[3], at[4])
  BY <1>2, PlacesAre
<1>5. at[2] = w /\ at[3] = q
  BY <1>4, OpenedOnce
<1>6. q \in Int
  BY DEF Opened, OnLine
<1>7. at[4] = e
  BY <1>4, <1>5, <1>6, ClosesOnce
<1> QED BY <1>3, <1>5, <1>7

LEMMA MeantByNothing ==
    ASSUME NEW n, \A c, w, q, e : ~(Opened(n, c, w, q) /\ Closes(n, q, e))
    PROVE  MeantBy(n) = <<>>
<1>1. Places(n) = {}
  BY PlacesAre
<1> QED BY <1>1 DEF MeantBy

-----------------------------------------------------------------------------
(* Values *)

LEMMA QuotesMore ==
    ASSUME NEW i \in Nat \ {0}, NEW j \in Nat, i <= j + 1
    PROVE  /\ Quotes(i, j) \in Nat
           /\ Quotes(i, i - 1) = 0
           /\ Quotes(i, j + 1) = IF script[j + 1] = Quote THEN Quotes(i, j) + 1 ELSE Quotes(i, j)
<1> DEFINE R(k) == {n \in i .. k : script[n] = Quote}
<1>1. IsFiniteSet(R(j))
  <2>1. IsFiniteSet(i .. j)
    BY FS_Interval
  <2> QED BY <2>1, FS_Subset
<1>2. j + 1 \notin R(j) /\ R(j + 1) = IF script[j + 1] = Quote THEN R(j) \cup {j + 1} ELSE R(j)
  <2>1. \A n : n \in i .. j + 1 <=> n \in i .. j \/ n = j + 1
    OBVIOUS
  <2>2. j + 1 \notin i .. j
    OBVIOUS
  <2> QED BY <2>1, <2>2
<1>3. R(i - 1) = {}
  OBVIOUS
<1>4. \A k : Quotes(i, k) = Cardinality(R(k))
  BY DEF Quotes
<1> HIDE DEF R
<1>5. Cardinality(R(j) \cup {j + 1}) = Cardinality(R(j)) + 1 /\ Cardinality(R(j)) \in Nat
  BY <1>1, <1>2, FS_AddElement, FS_CardinalityType
<1> QED BY <1>2, <1>3, <1>4, <1>5, FS_EmptySet

Parts(i, n) ==
    IF script[i + n - 1] = Quote /\ Quotes(i, i + n - 1) % 2 = 0 THEN <<>> ELSE <<script[i + n - 1]>>

LEMMA UnescapedFacts ==
    ASSUME script \in Scripts, NEW i \in Nat \ {0}, NEW j \in Nat, i <= j + 1, j <= Len(script)
    PROVE  /\ [n \in 1 .. j - i + 1 |-> Parts(i, n)] \in [1 .. j - i + 1 -> Seq(Token)]
           /\ j - i + 1 \in Nat
           /\ Unescaped(i, j) = FlattenSeq([n \in 1 .. j - i + 1 |-> Parts(i, n)])
           /\ Unescaped(i, j) \in Seq(Token)
           /\ j = i - 1 => Unescaped(i, j) = <<>>
<1> DEFINE m == j - i + 1
           s == [n \in 1 .. m |-> Parts(i, n)]
<1>1. m \in Nat /\ (j = i - 1 => m = 0)
  OBVIOUS
<1>2. ASSUME NEW n \in 1 .. m
      PROVE  Parts(i, n) \in Seq(Token)
  <2>1. i + n - 1 \in 1 .. Len(script)
    BY ScriptFacts
  <2>2. script[i + n - 1] \in Token
    BY <2>1, ScriptFacts
  <2>3. <<script[i + n - 1]>> \in Seq(Token) /\ <<>> \in Seq(Token)
    BY <2>2
  <2> QED BY <2>3 DEF Parts
<1>3. s \in [1 .. m -> Seq(Token)]
  BY <1>2
<1>4. Unescaped(i, j) = FlattenSeq(s)
  BY DEF Unescaped, Parts
<1> HIDE DEF s
<1>5. FlattenSeq(s) \in Seq(Token) /\ (m = 0 => FlattenSeq(s) = <<>>)
  BY <1>1, <1>3, FlattenIsJoined
<1> QED BY <1>1, <1>3, <1>4, <1>5 DEF s

\* One character more.
LEMMA UnescapedMore ==
    ASSUME script \in Scripts, NEW i \in Nat \ {0}, NEW j \in Nat, i <= j + 1, j + 1 <= Len(script)
    PROVE  Unescaped(i, j + 1) =
               IF script[j + 1] = Quote /\ Quotes(i, j + 1) % 2 = 0 THEN Unescaped(i, j)
               ELSE Append(Unescaped(i, j), script[j + 1])
<1> DEFINE m == j - i + 1
           s == [n \in 1 .. m |-> Parts(i, n)]
           t == [n \in 1 .. m + 1 |-> Parts(i, n)]
<1>0. Len(script) \in Nat
  BY ScriptFacts
<1>1. /\ s \in [1 .. m -> Seq(Token)] /\ m \in Nat /\ Unescaped(i, j) = FlattenSeq(s)
      /\ Unescaped(i, j) \in Seq(Token)
  <2>1. j <= Len(script)
    BY <1>0
  <2> QED BY <2>1, UnescapedFacts
<1>2. t \in [1 .. m + 1 -> Seq(Token)] /\ Unescaped(i, j + 1) = FlattenSeq(t)
  <2> DEFINE k == j + 1
  <2>1. k \in Nat /\ i <= k + 1 /\ k <= Len(script) /\ k - i + 1 = m + 1
    OBVIOUS
  <2> HIDE DEF k
  <2>2. /\ [n \in 1 .. k - i + 1 |-> Parts(i, n)] \in [1 .. k - i + 1 -> Seq(Token)]
        /\ Unescaped(i, k) = FlattenSeq([n \in 1 .. k - i + 1 |-> Parts(i, n)])
    BY <2>1, UnescapedFacts
  <2> QED BY <2>1, <2>2 DEF k
<1>3. \A n \in 1 .. m : s[n] = t[n]
  BY <1>1
<1>4. t[m + 1] = IF script[j + 1] = Quote /\ Quotes(i, j + 1) % 2 = 0 THEN <<>> ELSE <<script[j + 1]>>
  <2>1. m + 1 \in 1 .. m + 1 /\ i + (m + 1) - 1 = j + 1
    BY <1>1
  <2>2. t[m + 1] = Parts(i, m + 1)
    BY <2>1
  <2> HIDE DEF m, t
  <2> QED BY <2>1, <2>2 DEF Parts
<1> HIDE DEF s, t, m
<1>5. FlattenSeq(t) = FlattenSeq(s) \o t[m + 1]
  BY <1>1, <1>2, <1>3, FlattenMore
<1>6. script[j + 1] \in Token
  <2>1. j + 1 \in 1 .. Len(script)
    BY <1>0
  <2> QED BY <2>1, ScriptFacts
<1>7. /\ FlattenSeq(s) \o <<>> = FlattenSeq(s)
      /\ FlattenSeq(s) \o <<script[j + 1]>> = Append(FlattenSeq(s), script[j + 1])
  <2>1. FlattenSeq(s) \in Seq(Token)
    BY <1>1
  <2> QED BY <1>6, <2>1, AppendIsConcat, ConcatEmptySeq
<1> QED BY <1>1, <1>2, <1>4, <1>5, <1>7

-----------------------------------------------------------------------------
(* A line of the block *)

\* Position i is the first of a line behind that of the begin marker.
StartsLine(i) ==
    /\ i \in Int /\ BlockBegin < i /\ i <= BlockEnd + 1
    /\ script[i - 1] = Newline

LineEnd(i) == Find(i, Newline)

LEMMA LineIs ==
    ASSUME script \in Scripts, HasBlock, NEW i, StartsLine(i), i <= BlockEnd
    PROVE  /\ i \in 1 .. Len(script)
           /\ LineEnd(i) \in i .. BlockEnd /\ script[LineEnd(i)] = Newline
           /\ \A n \in i .. LineEnd(i) - 1 : script[n] # Newline
           /\ OnLine(LineOf(i)) = i .. LineEnd(i)
           /\ LineOf(i) \in Nat /\ LineOf(LineEnd(i) + 1) = LineOf(i) + 1
           /\ LineOf(i) \in BlockLines
<1> DEFINE M == Len(script)
           e == LineEnd(i)
<1>1. M \in Nat /\ \A j \in 1 .. M : At(j) = script[j] /\ script[j] # EndOfText
  BY ScriptFacts
<1>2. /\ BlockBegin \in 1 .. M /\ BlockEnd \in 1 .. M /\ BlockBegin < BlockEnd
      /\ script[BlockBegin] = Newline /\ script[BlockEnd] = Newline
  BY HasBlockFacts
<1>3. i \in Int /\ BlockBegin < i /\ script[i - 1] = Newline
  BY DEF StartsLine
<1>4. i \in 1 .. M /\ i - 1 \in 1 .. M /\ i \in 1 .. M + 1
  BY <1>1, <1>2, <1>3
<1>5. /\ e \in i .. M + 1 /\ At(e) \in {Newline, EndOfText}
      /\ \A n \in i .. e - 1 : At(n) # Newline
  BY <1>4, FindFacts DEF LineEnd
<1> HIDE DEF e
<1>6. e <= BlockEnd
  <2>1. ~(BlockEnd \in i .. e - 1)
    BY <1>1, <1>2, <1>5
  <2> QED BY <1>1, <1>2, <1>4, <1>5, <2>1
<1>7. /\ e \in i .. BlockEnd /\ e \in 1 .. M /\ script[e] = Newline
      /\ \A n \in i .. e - 1 : script[n] # Newline
  <2>1. e \in i .. BlockEnd /\ e \in 1 .. M
    BY <1>1, <1>2, <1>4, <1>5, <1>6
  <2>2. At(e) = script[e] /\ script[e] # EndOfText
    BY <1>1, <2>1
  <2>3. \A n \in i .. e - 1 : n \in 1 .. M
    BY <1>1, <1>4, <2>1
  <2> QED BY <1>1, <1>5, <2>1, <2>2, <2>3
<1>8. /\ i \in Nat \ {0} /\ e \in Nat \ {0} /\ i - 1 \in Nat \ {0} /\ e + 1 \in Nat \ {0} /\ i <= e
      /\ BlockBegin \in Nat \ {0} /\ BlockEnd \in Nat \ {0}
  BY <1>2, <1>4, <1>7
<1>9. /\ LineOf(i) \in Nat /\ LineOf(e) \in Nat /\ LineOf(i - 1) \in Nat
      /\ LineOf(i) = LineOf(i - 1) + 1 /\ LineOf(e) = LineOf(i) /\ LineOf(e + 1) = LineOf(e) + 1
  <2>1. LineOf((i - 1) + 1) = LineOf(i - 1) + 1
    BY <1>1, <1>3, <1>4, <1>8, NextLineOf
  <2>2. LineOf(e) = LineOf(i)
    BY <1>5, <1>8, LinesRise
  <2>3. LineOf(e + 1) = LineOf(e) + 1
    BY <1>1, <1>7, <1>8, NextLineOf
  <2>4. LineOf(i) \in Nat /\ LineOf(e) \in Nat /\ LineOf(i - 1) \in Nat
    BY <1>8, LineOfFacts
  <2>5. (i - 1) + 1 = i
    BY <1>8
  <2> QED BY <2>1, <2>2, <2>3, <2>4, <2>5
<1>10. OnLine(LineOf(i)) = i .. e
  <2>1. ASSUME NEW n \in OnLine(LineOf(i))
        PROVE  n \in i .. e
    <3>1. n \in Nat \ {0} /\ LineOf(n) = LineOf(i)
      BY DEF OnLine
    <3>2. n <= i - 1 => LineOf(n) <= LineOf(i - 1)
      BY <1>8, <3>1, LinesRise
    <3>3. e + 1 <= n => LineOf(e + 1) <= LineOf(n)
      BY <1>8, <3>1, LinesRise
    <3> QED BY <1>8, <1>9, <3>1, <3>2, <3>3
  <2>2. ASSUME NEW n \in i .. e
        PROVE  n \in OnLine(LineOf(i))
    <3>1. n \in Nat \ {0} /\ n \in 1 .. M
      BY <1>7, <1>8
    <3>2. LineOf(i) <= LineOf(n) /\ LineOf(n) <= LineOf(e) /\ LineOf(n) \in Nat
      <4>1. LineOf(i) <= LineOf(n)
        BY <1>8, <3>1, LinesRise
      <4>2. LineOf(n) <= LineOf(e)
        BY <1>8, <3>1, LinesRise
      <4> QED BY <3>1, <4>1, <4>2, LineOfFacts
    <3> QED BY <1>9, <3>1, <3>2 DEF OnLine
  <2> QED BY <2>1, <2>2
<1>11. LineOf(i) \in BlockLines
  <2>1. LineOf(BlockBegin) <= LineOf(i - 1) /\ LineOf(e) <= LineOf(BlockEnd)
    BY <1>3, <1>6, <1>8, LinesRise
  <2>2. LineOf(BlockBegin) \in Nat /\ LineOf(BlockEnd) \in Nat
    BY <1>8, LineOfFacts
  <2>3. BlockLines = LineOf(BlockBegin) + 1 .. LineOf(BlockEnd)
    BY BlockLinesAre
  <2> QED BY <1>9, <2>1, <2>2, <2>3
<1> QED BY <1>4, <1>7, <1>9, <1>10, <1>11 DEF e

\* What the walk over the start of a line finds is what the line has.
LEMMA WalkOpens ==
    ASSUME script \in Scripts, HasBlock, NEW i, StartsLine(i), i <= BlockEnd
    PROVE  LET comment == Skip(i, Indent)
               word    == Skip(comment + 1, Blanks)
               quote   == Skip(word + 1, Blanks)
           IN  /\ At(comment) = Slashes /\ At(word) \in Directive /\ At(quote) = Quote
                  => Opened(LineOf(i), comment, word, quote) /\ At(word) = script[word]
               /\ \A c, w, q : Opened(LineOf(i), c, w, q)
                  => At(comment) = Slashes /\ At(word) \in Directive /\ At(quote) = Quote
<1> DEFINE M == Len(script)
           e == LineEnd(i)
           comment == Skip(i, Indent)
           word    == Skip(comment + 1, Blanks)
           quote   == Skip(word + 1, Blanks)
<1>1. M \in Nat /\ \A j \in 1 .. M : At(j) = script[j]
  BY ScriptFacts
<1>2. /\ i \in 1 .. M /\ e \in i .. BlockEnd /\ script[e] = Newline
      /\ OnLine(LineOf(i)) = i .. e
  BY LineIs
<1>3. BlockEnd \in 1 .. M
  BY HasBlockFacts
<1>4. /\ Newline # Slashes /\ Newline \notin Directive /\ Newline # Quote
      /\ Slashes \notin Indent /\ Quote \notin Blanks /\ \A d \in Directive : d \notin Blanks
      /\ \A tokens \in {Indent, Blanks} : Newline \notin tokens
  BY PreprocessorAssumption DEF Indent, Blanks
<1> HIDE DEF e
<1>5. e \in 1 .. M /\ i \in 1 .. e /\ \A j \in 1 .. e : j \in 1 .. M /\ At(j) = script[j]
  BY <1>1, <1>2, <1>3
\* Skip does not pass the end of the line.
<1>6. ASSUME NEW j \in 1 .. e, NEW tokens \in {Indent, Blanks}
      PROVE  /\ Skip(j, tokens) \in j .. e /\ script[Skip(j, tokens)] \notin tokens /\ At(Skip(j, tokens)) = script[Skip(j, tokens)]
             /\ \A n \in j .. Skip(j, tokens) - 1 : script[n] \in tokens
             /\ Skip(j, tokens) = e => At(Skip(j, tokens)) = Newline
  <2>1. j \in 1 .. M + 1
    BY <1>1, <1>5
  <2>2. Skip(j, tokens) \in j .. M + 1 /\ At(Skip(j, tokens)) \notin tokens /\ \A n \in j .. Skip(j, tokens) - 1 : At(n) \in tokens
    BY <2>1, SkipFacts
  <2>3. At(e) = Newline
    BY <1>2, <1>5
  <2>4. Skip(j, tokens) \in j .. e
    <3>1. ~(e \in j .. Skip(j, tokens) - 1)
      BY <1>4, <2>2, <2>3
    <3> QED BY <1>1, <1>5, <2>1, <2>2, <3>1
  <2> QED BY <1>1, <1>5, <2>1, <2>2, <2>3, <2>4
<1>7. comment \in i .. e /\ script[comment] = At(comment) /\ \A n \in i .. comment - 1 : script[n] \in Indent
  BY <1>5, <1>6
<1>8. ASSUME comment # e
      PROVE  /\ word \in comment + 1 .. e /\ script[word] = At(word)
             /\ \A n \in comment + 1 .. word - 1 : script[n] \in Blanks
  <2> HIDE DEF comment
  <2>1. comment + 1 \in 1 .. e
    BY <1>5, <1>7, <1>8
  <2> QED BY <1>6, <2>1
<1>9. ASSUME comment # e, word # e
      PROVE  /\ quote \in word + 1 .. e /\ script[quote] = At(quote)
             /\ \A n \in word + 1 .. quote - 1 : script[n] \in Blanks
  <2> HIDE DEF comment, word
  <2>1. word + 1 \in 1 .. e
    BY <1>5, <1>7, <1>8, <1>9
  <2> QED BY <1>6, <2>1
<1>10. ASSUME At(comment) = Slashes, At(word) \in Directive, At(quote) = Quote
       PROVE  Opened(LineOf(i), comment, word, quote) /\ At(word) = script[word]
  <2> HIDE DEF comment, word, quote
  <2>1. comment # e
    BY <1>2, <1>4, <1>7, <1>10
  <2>2. word # e
    BY <1>2, <1>4, <1>8, <1>10, <2>1
  <2>3. /\ comment \in i .. e /\ word \in i .. e /\ quote \in i .. e /\ comment < word /\ word < quote
    BY <1>5, <1>7, <1>8, <1>9, <2>1, <2>2
  <2>4. OnlySpace(comment + 1, word - 1) /\ OnlySpace(word + 1, quote - 1)
    BY <1>8, <1>9, <2>1, <2>2 DEF OnlySpace, Blanks
  <2>5. \A n \in i .. e : n < comment => script[n] \in Indent
    BY <1>5, <1>7, <2>3
  <2>6. script[comment] = Slashes /\ script[word] = At(word) /\ script[quote] = Quote
    BY <1>7, <1>8, <1>9, <1>10, <2>1, <2>2
  <2> QED BY <1>2, <1>10, <2>3, <2>4, <2>5, <2>6 DEF Opened
<1>11. ASSUME NEW c, NEW w, NEW q, Opened(LineOf(i), c, w, q)
       PROVE  At(comment) = Slashes /\ At(word) \in Directive /\ At(quote) = Quote
  <2>1. /\ c \in i .. e /\ w \in i .. e /\ q \in i .. e /\ c < w /\ w < q
        /\ script[c] = Slashes /\ script[w] \in Directive /\ script[q] = Quote
        /\ \A n \in i .. e : n < c => script[n] \in Indent
        /\ \A n \in c + 1 .. w - 1 : script[n] \in Blanks
        /\ \A n \in w + 1 .. q - 1 : script[n] \in Blanks
    BY <1>2, <1>11 DEF Opened, OnlySpace, Blanks
  <2>2. ASSUME NEW j \in 1 .. e, NEW k \in j .. e, NEW tokens \in {Indent, Blanks},
               script[k] \notin tokens, \A n \in j .. k - 1 : script[n] \in tokens
        PROVE  Skip(j, tokens) = k
    <3>1. /\ Skip(j, tokens) \in j .. e /\ script[Skip(j, tokens)] \notin tokens
          /\ \A n \in j .. Skip(j, tokens) - 1 : script[n] \in tokens
      BY <1>6
    <3>2. ~(Skip(j, tokens) < k) /\ ~(k < Skip(j, tokens))
      BY <1>5, <2>2, <3>1
    <3> QED BY <1>5, <3>1, <3>2
  <2>3. comment = c
    <3>1. \A n \in i .. c - 1 : script[n] \in Indent
      BY <1>5, <2>1
    <3> QED BY <1>4, <1>5, <2>1, <2>2, <3>1
  <2>4. word = w
    <3> HIDE DEF comment
    <3>1. c + 1 \in 1 .. e /\ w \in c + 1 .. e
      BY <1>5, <2>1
    <3> QED BY <1>4, <2>1, <2>2, <2>3, <3>1
  <2>5. quote = q
    <3> HIDE DEF comment, word
    <3>1. w + 1 \in 1 .. e /\ q \in w + 1 .. e
      BY <1>5, <2>1
    <3> QED BY <1>4, <2>1, <2>2, <2>4, <3>1
  <2> HIDE DEF comment, word, quote
  <2>6. c \in 1 .. e /\ w \in 1 .. e /\ q \in 1 .. e
    BY <1>5, <2>1
  <2> QED BY <1>5, <2>1, <2>3, <2>4, <2>5, <2>6
<1> QED BY <1>10, <1>11

-----------------------------------------------------------------------------
(* The directives of the lines *)

LineSays(n) == IF n \in BlockLines THEN MeantBy(n) ELSE <<>>

LEMMA LineSaysType ==
    ASSUME script \in Scripts, NEW n
    PROVE  LineSays(n) \in Seq(Directives)
<1>1. CASE n \notin BlockLines \/ Places(n) = {}
  <2>1. LineSays(n) = <<>>
    BY <1>1 DEF LineSays, MeantBy
  <2> QED BY <2>1
<1>2. CASE n \in BlockLines /\ Places(n) # {}
  <2>1. PICK at \in Places(n) : TRUE
    BY <1>2
  <2> DEFINE c == at[1]
             w == at[2]
             q == at[3]
             e == at[4]
  <2>2. Opened(n, c, w, q) /\ Closes(n, q, e)
    BY PlacesAre
  <2> HIDE DEF c, w, q, e
  <2>3. LineSays(n) = <<[directive |-> script[w], value |-> Unescaped(q + 1, e - 1)]>>
    BY <1>2, <2>2, MeantByPlace DEF LineSays
  <2>4. /\ q \in 1 .. Len(script) /\ e \in 1 .. Len(script) /\ q < e /\ w \in 1 .. Len(script)
    BY <2>2 DEF Opened, Closes, OnLine
  <2>5. Len(script) \in Nat /\ script[w] \in Token
    BY <2>4, ScriptFacts
  <2>6. q + 1 \in Nat \ {0} /\ e - 1 \in Nat /\ q + 1 <= (e - 1) + 1 /\ e - 1 <= Len(script)
    BY <2>4, <2>5
  <2>7. Unescaped(q + 1, e - 1) \in Seq(Token)
    BY <2>6, UnescapedFacts
  <2>8. [directive |-> script[w], value |-> Unescaped(q + 1, e - 1)] \in Directives
    BY <2>5, <2>7 DEF Directives
  <2> QED BY <2>3, <2>8
<1> QED BY <1>1, <1>2

Says(last) == [n \in 1 .. last |-> LineSays(n)]

LEMMA MeantUpToFacts ==
    ASSUME script \in Scripts, NEW last \in Nat
    PROVE  /\ Says(last) \in [1 .. last -> Seq(Directives)]
           /\ MeantUpTo(last) = FlattenSeq(Says(last))
           /\ MeantUpTo(last) \in Seq(Directives)
<1>1. Says(last) \in [1 .. last -> Seq(Directives)]
  BY LineSaysType DEF Says
<1>2. MeantUpTo(last) = FlattenSeq(Says(last))
  BY DEF MeantUpTo, Says, LineSays
<1>3. FlattenSeq(Says(last)) \in Seq(Directives)
  BY <1>1, FlattenIsJoined
<1> QED BY <1>1, <1>2, <1>3

\* One line more.
LEMMA MeantUpToMore ==
    ASSUME script \in Scripts, NEW last \in Nat
    PROVE  MeantUpTo(last + 1) = MeantUpTo(last) \o LineSays(last + 1)
<1> DEFINE s == Says(last)
           t == Says(last + 1)
<1>1. /\ s \in [1 .. last -> Seq(Directives)] /\ t \in [1 .. last + 1 -> Seq(Directives)]
      /\ MeantUpTo(last) = FlattenSeq(s) /\ MeantUpTo(last + 1) = FlattenSeq(t)
  <2>1. last + 1 \in Nat
    OBVIOUS
  <2> QED BY <2>1, MeantUpToFacts
<1>2. /\ \A n \in 1 .. last : s[n] = t[n]
      /\ t[last + 1] = LineSays(last + 1)
  BY DEF Says
<1> HIDE DEF s, t
<1>3. FlattenSeq(t) = FlattenSeq(s) \o t[last + 1]
  <2>1. s \in [1 .. last -> Seq(Directives)] /\ t \in [1 .. last + 1 -> Seq(Directives)]
    BY <1>1
  <2>2. \A n \in 1 .. last : s[n] = t[n]
    BY <1>2
  <2> QED BY <2>1, <2>2, FlattenMore
<1> QED BY <1>1, <1>2, <1>3

\* Lines without a directive add nothing.
LEMMA MeantUpToSame ==
    ASSUME script \in Scripts, NEW m \in Nat, NEW n \in Nat, m <= n,
           \A l \in m + 1 .. n : LineSays(l) = <<>>
    PROVE  MeantUpTo(n) = MeantUpTo(m)
<1> DEFINE s == Says(m)
           t == Says(n)
<1>1. /\ s \in [1 .. m -> Seq(Directives)] /\ t \in [1 .. n -> Seq(Directives)]
      /\ MeantUpTo(m) = FlattenSeq(s) /\ MeantUpTo(n) = FlattenSeq(t)
  BY MeantUpToFacts
<1>2. Pads(s, m, t, n)
  BY DEF Says, Pads
<1> HIDE DEF s, t
<1>3. FlattenSeq(t) = FlattenSeq(s)
  <2>1. s \in [1 .. m -> Seq(Directives)]
    BY <1>1
  <2>2. t \in [1 .. n -> Seq(Directives)]
    BY <1>1
  <2>3. m \in Nat /\ n \in Nat /\ m <= n
    OBVIOUS
  <2>4. ASSUME NEW S, NEW x \in [1 .. m -> Seq(S)], NEW y \in [1 .. n -> Seq(S)], Pads(x, m, y, n)
        PROVE  FlattenSeq(y) = FlattenSeq(x)
    BY ONLY <2>3, <2>4, FlattenPadded
  <2> QED BY ONLY <2>1, <2>2, <2>4, <1>2
<1> QED BY <1>1, <1>3

LEMMA MeantUpToZero ==
    ASSUME script \in Scripts
    PROVE  MeantUpTo(0) = <<>>
<1>1. Says(0) \in [1 .. 0 -> Seq(Directives)] /\ MeantUpTo(0) = FlattenSeq(Says(0))
  BY MeantUpToFacts
<1> DEFINE s == Says(0)
<1>2. s \in [1 .. 0 -> Seq(Directives)]
  BY <1>1
<1> HIDE DEF s
<1>3. FlattenSeq(s) = <<>>
  BY <1>2, FlattenIsJoined
<1> QED BY <1>1, <1>3 DEF s

\* Within the block's last line and behind it the rest of the script adds nothing.
LEMMA MeantToTheEnd ==
    ASSUME script \in Scripts, HasBlock, NEW i, i = BlockEnd \/ i = BlockEnd + 1, StartsLine(i)
    PROVE  MeantUpTo(LineCount) = MeantUpTo(LineOf(i) - 1)
<1>1. /\ BlockEnd \in 1 .. Len(script) /\ script[BlockEnd] = Newline /\ BlockBegin \in 1 .. Len(script)
  BY HasBlockFacts
<1>2. Len(script) \in Nat /\ At(BlockEnd) = Newline
  BY <1>1, ScriptFacts
<1>3. i \in Nat \ {0} /\ BlockEnd \in Nat \ {0} /\ Len(script) + 1 \in Nat \ {0} /\ i <= Len(script) + 1
      /\ BlockBegin \in Nat \ {0}
  BY <1>1, <1>2
<1>4. LineOf(i) \in Nat \ {0} /\ LineOf(BlockEnd) \in Nat /\ LineCount \in Nat /\ LineOf(i) <= LineCount
      /\ LineOf(BlockBegin) \in Nat
  <2>1. LineOf(i) <= LineOf(Len(script) + 1)
    BY <1>3, LinesRise
  <2> QED BY <1>3, <2>1, LineOfFacts DEF LineCount
<1>5. LineOf(BlockEnd + 1) = LineOf(BlockEnd) + 1
  BY <1>2, <1>3, NextLineOf
<1>6. BlockLines = LineOf(BlockBegin) + 1 .. LineOf(BlockEnd)
  BY BlockLinesAre
<1>7. ASSUME i = BlockEnd
      PROVE  LineSays(LineOf(i)) = <<>>
  <2>1. /\ LineEnd(i) \in i .. BlockEnd /\ OnLine(LineOf(i)) = i .. LineEnd(i)
    BY <1>3, <1>7, LineIs
  <2>2. OnLine(LineOf(i)) = {BlockEnd}
    BY <1>3, <1>7, <2>1
  <2>3. Newline # Slashes
    BY PreprocessorAssumption
  <2>4. \A c, w, q, e : ~(Opened(LineOf(i), c, w, q) /\ Closes(LineOf(i), q, e))
    BY <1>1, <2>2, <2>3 DEF Opened
  <2>5. MeantBy(LineOf(i)) = <<>>
    BY <2>4, MeantByNothing
  <2> QED BY <2>5 DEF LineSays
<1>8. ASSUME NEW l \in (LineOf(i) - 1) + 1 .. LineCount
      PROVE  LineSays(l) = <<>>
  <2>1. CASE i = BlockEnd /\ l = LineOf(i)
    BY <1>7, <2>1
  <2>2. CASE i = BlockEnd + 1 \/ l # LineOf(i)
    <3>1. l \notin BlockLines
      BY <1>3, <1>4, <1>5, <1>6, <2>2
    <3> QED BY <3>1 DEF LineSays
  <2> QED BY <1>3, <2>1, <2>2
<1>9. LineOf(i) - 1 \in Nat /\ LineOf(i) - 1 <= LineCount
  BY <1>4
<1> QED BY <1>4, <1>8, <1>9, MeantUpToSame

-----------------------------------------------------------------------------
(* One step of the scan *)

\* The walk is at k in the value behind the quote at q, in line n, which starts at i, and has
\* read v.
Reading(i, n, c, w, q, k, v) ==
    /\ HasBlock /\ StartsLine(i) /\ i <= BlockEnd /\ n = LineOf(i)
    /\ Opened(n, c, w, q) /\ q < k /\ k <= LineEnd(i)
    /\ Quotes(q + 1, k - 1) % 2 = 0
    /\ \A j \in q + 1 .. k - 1 : ~ClosesAt(q + 1, j)
    /\ v = Unescaped(q + 1, k - 1)

\* Line n has that directive with that value.
Gives(n, d, v) == LineSays(n) = <<[directive |-> d, value |-> v]>>

LEMMA ReadingFacts ==
    ASSUME script \in Scripts, NEW i \in Int, NEW n \in Int, NEW c \in Int, NEW w \in Int, NEW q \in Int,
           NEW k \in Int, NEW v, Reading(i, n, c, w, q, k, v)
    PROVE  /\ Len(script) \in Nat /\ k \in 1 .. Len(script) /\ q \in 1 .. Len(script) /\ At(k) = script[k]
           /\ q + 1 \in Nat \ {0} /\ k - 1 \in Nat /\ q + 1 <= (k - 1) + 1 /\ (k - 1) + 1 = k
           /\ k - 1 <= Len(script) /\ k <= LineEnd(i) /\ LineEnd(i) <= BlockEnd
           /\ script[BlockEnd] = Newline /\ script[LineEnd(i)] = Newline
           /\ LineEnd(i) \in 1 .. Len(script) /\ BlockEnd \in 1 .. Len(script)
           /\ \A j \in i .. LineEnd(i) - 1 : script[j] # Newline
           /\ OnLine(n) = i .. LineEnd(i) /\ k \in i .. LineEnd(i) /\ i <= q
           /\ n \in Nat \ {0} /\ n \in BlockLines
<1>1. HasBlock /\ StartsLine(i) /\ i <= BlockEnd /\ n = LineOf(i) /\ Opened(n, c, w, q) /\ q < k /\ k <= LineEnd(i)
  BY DEF Reading
<1>2. /\ i \in 1 .. Len(script) /\ LineEnd(i) \in i .. BlockEnd /\ script[LineEnd(i)] = Newline
      /\ \A j \in i .. LineEnd(i) - 1 : script[j] # Newline
      /\ OnLine(n) = i .. LineEnd(i) /\ n \in BlockLines
  BY <1>1, LineIs
<1>3. BlockEnd \in 1 .. Len(script) /\ script[BlockEnd] = Newline
  BY <1>1, HasBlockFacts
<1>4. q \in i .. LineEnd(i)
  BY <1>1, <1>2 DEF Opened
<1>5. Len(script) \in Nat
  BY ScriptFacts
<1>6. LineEnd(i) \in 1 .. Len(script) /\ k \in i .. LineEnd(i) /\ k \in 1 .. Len(script) /\ q \in 1 .. Len(script)
  BY <1>1, <1>2, <1>3, <1>4, <1>5
<1>7. n \in Nat \ {0}
  <2>1. i \in Nat \ {0}
    BY <1>2
  <2> QED BY <1>1, <2>1, LineOfFacts
<1>8. At(k) = script[k]
  BY <1>6, ScriptFacts
<1>9. q + 1 \in Nat \ {0} /\ k - 1 \in Nat /\ q + 1 <= (k - 1) + 1 /\ (k - 1) + 1 = k /\ k - 1 <= Len(script)
  BY <1>1, <1>5, <1>6
<1> QED BY <1>1, <1>2, <1>3, <1>4, <1>5, <1>6, <1>7, <1>8, <1>9

\* A character that is no quote.
LEMMA ReadCharacter ==
    ASSUME script \in Scripts, NEW i \in Int, NEW n \in Int, NEW c \in Int, NEW w \in Int, NEW q \in Int,
           NEW k \in Int, NEW v, Reading(i, n, c, w, q, k, v), script[k] # Newline, script[k] # Quote
    PROVE  Reading(i, n, c, w, q, k + 1, Append(v, script[k]))
<1>1. /\ Len(script) \in Nat /\ k \in 1 .. Len(script) /\ q \in 1 .. Len(script)
      /\ q + 1 \in Nat \ {0} /\ k - 1 \in Nat /\ q + 1 <= (k - 1) + 1 /\ (k - 1) + 1 = k
      /\ k \in i .. LineEnd(i) /\ script[LineEnd(i)] = Newline /\ LineEnd(i) \in 1 .. Len(script)
  BY ReadingFacts
<1>2. Quotes(q + 1, k) = Quotes(q + 1, k - 1)
  <2>1. Quotes(q + 1, (k - 1) + 1) =
            IF script[(k - 1) + 1] = Quote THEN Quotes(q + 1, k - 1) + 1 ELSE Quotes(q + 1, k - 1)
    BY <1>1, QuotesMore
  <2> QED BY <1>1, <2>1
<1>3. Unescaped(q + 1, k) = Append(Unescaped(q + 1, k - 1), script[k])
  <2> DEFINE j == k - 1
             a == q + 1
  <2>1. j + 1 = k /\ j \in Nat /\ a \in Nat \ {0} /\ a <= j + 1 /\ j + 1 <= Len(script)
    BY <1>1
  <2> HIDE DEF j, a
  <2>2. Unescaped(a, j + 1) = Append(Unescaped(a, j), script[j + 1])
    BY <2>1, UnescapedMore
  <2> QED BY <2>1, <2>2 DEF j, a
<1>4. ~ClosesAt(q + 1, k)
  BY DEF ClosesAt
<1>5. k # LineEnd(i)
  BY <1>1
<1>6. /\ q < k + 1 /\ k + 1 <= LineEnd(i) /\ (k + 1) - 1 = k
      /\ \A j \in q + 1 .. k : j \in q + 1 .. k - 1 \/ j = k
  BY <1>1, <1>5
<1>7. \A j \in q + 1 .. k : ~ClosesAt(q + 1, j)
  BY <1>4, <1>6 DEF Reading
<1>8. Quotes(q + 1, k) % 2 = 0
  BY <1>2 DEF Reading
<1>9. v = Unescaped(q + 1, k - 1)
  BY DEF Reading
<1> QED BY <1>3, <1>6, <1>7, <1>8, <1>9 DEF Reading

\* Two quotes.
LEMMA ReadQuotes ==
    ASSUME script \in Scripts, NEW i \in Int, NEW n \in Int, NEW c \in Int, NEW w \in Int, NEW q \in Int,
           NEW k \in Int, NEW v, Reading(i, n, c, w, q, k, v), script[k] = Quote, At(k + 1) = Quote
    PROVE  Reading(i, n, c, w, q, k + 2, Append(v, script[k]))
<1>0. Newline # Quote /\ EndOfText # Quote
  BY PreprocessorAssumption
<1>1. /\ Len(script) \in Nat /\ k \in 1 .. Len(script) /\ q \in 1 .. Len(script)
      /\ q + 1 \in Nat \ {0} /\ k - 1 \in Nat /\ q + 1 <= (k - 1) + 1 /\ (k - 1) + 1 = k
      /\ k \in i .. LineEnd(i) /\ script[LineEnd(i)] = Newline /\ LineEnd(i) \in 1 .. Len(script)
      /\ k + 1 \in 1 .. Len(script) /\ script[k + 1] = Quote
  <2>1. At(k + 1) # EndOfText
    BY <1>0
  <2>2. k + 1 \in 1 .. Len(script) /\ At(k + 1) = script[k + 1]
    BY <2>1, ScriptFacts
  <2>3. /\ Len(script) \in Nat /\ k \in 1 .. Len(script) /\ q \in 1 .. Len(script)
        /\ q + 1 \in Nat \ {0} /\ k - 1 \in Nat /\ q + 1 <= (k - 1) + 1 /\ (k - 1) + 1 = k
        /\ k \in i .. LineEnd(i) /\ script[LineEnd(i)] = Newline /\ LineEnd(i) \in 1 .. Len(script)
    BY ReadingFacts
  <2> QED BY <2>2, <2>3
<1> DEFINE a == q + 1
           j == k - 1
<1>2. /\ j \in Nat /\ a \in Nat \ {0} /\ a <= j + 1 /\ j + 1 = k /\ j + 1 <= Len(script)
      /\ k \in Nat /\ a <= k + 1 /\ k + 1 <= Len(script)
  BY <1>1
<1> HIDE DEF a, j
<1>3. Quotes(a, j) % 2 = 0
  BY DEF Reading, a, j
<1>4. Quotes(a, j) \in Nat /\ Quotes(a, k) = Quotes(a, j) + 1 /\ Quotes(a, k + 1) = Quotes(a, k) + 1
  <2>1. Quotes(a, j) \in Nat /\ Quotes(a, j + 1) = Quotes(a, j) + 1
    BY <1>2, QuotesMore
  <2>2. Quotes(a, k + 1) = Quotes(a, k) + 1
    BY <1>1, <1>2, QuotesMore
  <2> QED BY <1>2, <2>1, <2>2
<1>5. Quotes(a, k) % 2 = 1 /\ Quotes(a, k + 1) % 2 = 0
  BY <1>3, <1>4
<1>6. Unescaped(a, k) = Append(Unescaped(a, j), script[k])
  <2>1. Unescaped(a, j + 1) = IF script[j + 1] = Quote /\ Quotes(a, j + 1) % 2 = 0 THEN Unescaped(a, j)
                              ELSE Append(Unescaped(a, j), script[j + 1])
    BY <1>2, UnescapedMore
  <2>2. Quotes(a, j + 1) % 2 # 0
    BY <1>2, <1>5
  <2> QED BY <1>2, <2>1, <2>2
<1>7. Unescaped(a, k + 1) = Unescaped(a, k)
  <2>1. Unescaped(a, k + 1) = IF script[k + 1] = Quote /\ Quotes(a, k + 1) % 2 = 0 THEN Unescaped(a, k)
                              ELSE Append(Unescaped(a, k), script[k + 1])
    BY <1>2, UnescapedMore
  <2> QED BY <1>1, <1>5, <2>1
<1>8. ~ClosesAt(a, k) /\ ~ClosesAt(a, k + 1)
  BY <1>5 DEF ClosesAt
<1>9. k # LineEnd(i) /\ k + 1 # LineEnd(i)
  BY <1>0, <1>1
<1>10. /\ q < k + 2 /\ k + 2 <= LineEnd(i) /\ (k + 2) - 1 = k + 1
       /\ \A l \in q + 1 .. k + 1 : l \in q + 1 .. k - 1 \/ l = k \/ l = k + 1
  BY <1>1, <1>9
<1>11. \A l \in q + 1 .. k + 1 : ~ClosesAt(q + 1, l)
  BY <1>8, <1>10 DEF Reading, a
<1>12. v = Unescaped(a, j)
  BY DEF Reading, a, j
<1> QED BY <1>5, <1>6, <1>7, <1>10, <1>11, <1>12 DEF Reading, a

\* The closing quote.
LEMMA ReadClosing ==
    ASSUME script \in Scripts, NEW i \in Int, NEW n \in Int, NEW c \in Int, NEW w \in Int, NEW q \in Int,
           NEW k \in Int, NEW v, Reading(i, n, c, w, q, k, v), script[k] = Quote, At(k + 1) # Quote
    PROVE  Gives(n, script[w], v)
<1>1. /\ q + 1 \in Nat \ {0} /\ k - 1 \in Nat /\ q + 1 <= (k - 1) + 1 /\ (k - 1) + 1 = k
      /\ k \in OnLine(n) /\ n \in BlockLines
  <2>1. k \in i .. LineEnd(i) /\ OnLine(n) = i .. LineEnd(i)
    BY ReadingFacts
  <2>2. /\ q + 1 \in Nat \ {0} /\ k - 1 \in Nat /\ q + 1 <= (k - 1) + 1 /\ (k - 1) + 1 = k
        /\ n \in BlockLines
    BY ReadingFacts
  <2> QED BY <2>1, <2>2
<1>2. Quotes(q + 1, k) % 2 = 1
  <2> DEFINE a == q + 1
             j == k - 1
  <2>1. a \in Nat \ {0} /\ j \in Nat /\ a <= j + 1 /\ j + 1 = k
    BY <1>1
  <2> HIDE DEF a, j
  <2>2. Quotes(a, j) \in Nat /\ Quotes(a, j + 1) = Quotes(a, j) + 1
    BY <2>1, QuotesMore
  <2>3. Quotes(a, j) % 2 = 0
    BY DEF Reading, a, j
  <2> QED BY <2>1, <2>2, <2>3 DEF a
<1>3. Closes(n, q, k)
  BY <1>1, <1>2 DEF Closes, ClosesAt, Reading
<1>4. Opened(n, c, w, q)
  BY DEF Reading
<1>5. LineSays(n) = <<[directive |-> script[w], value |-> Unescaped(q + 1, k - 1)]>>
  BY <1>1, <1>3, <1>4, MeantByPlace DEF LineSays
<1>6. v = Unescaped(q + 1, k - 1)
  BY DEF Reading
<1> QED BY <1>5, <1>6 DEF Gives

\* The line ends first.
LEMMA ReadToTheEnd ==
    ASSUME script \in Scripts, NEW i \in Int, NEW n \in Int, NEW c \in Int, NEW w \in Int, NEW q \in Int,
           NEW k \in Int, NEW v, Reading(i, n, c, w, q, k, v), script[k] = Newline
    PROVE  LineSays(n) = <<>>
<1>1. k \in i .. LineEnd(i) /\ OnLine(n) = i .. LineEnd(i) /\ \A j \in i .. LineEnd(i) - 1 : script[j] # Newline
  BY ReadingFacts
<1>2. k = LineEnd(i) /\ Newline # Quote
  <2>1. ~(k \in i .. LineEnd(i) - 1)
    BY <1>1
  <2>2. LineEnd(i) \in Int
    BY ReadingFacts
  <2>3. Newline # Quote
    BY PreprocessorAssumption
  <2> QED BY <1>1, <2>1, <2>2, <2>3
<1>3. ASSUME NEW c2, NEW w2, NEW q2, NEW e, Opened(n, c2, w2, q2), Closes(n, q2, e)
      PROVE  FALSE
  <2>1. q2 = q
    BY <1>3, OpenedOnce DEF Reading
  <2>2. e \in i .. k /\ script[e] = Quote /\ q < e /\ ClosesAt(q + 1, e)
    BY <1>1, <1>2, <1>3, <2>1 DEF Closes
  <2>3. e \in q + 1 .. k - 1
    BY <1>2, <2>2
  <2> QED BY <2>2, <2>3 DEF Reading
<1>4. MeantBy(n) = <<>>
  BY <1>3, MeantByNothing
<1> QED BY <1>4 DEF LineSays

\* "Jump to the next line", from anywhere on this one.
LEMMA JumpToNextLine ==
    ASSUME script \in Scripts, HasBlock, NEW i \in Int, StartsLine(i), i <= BlockEnd,
           NEW k \in i .. LineEnd(i)
    PROVE  /\ StartsLine(Find(k, Newline) + 1)
           /\ LineOf(Find(k, Newline) + 1) = LineOf(i) + 1
<1> DEFINE e == LineEnd(i)
           f == Find(k, Newline)
<1>1. /\ i \in 1 .. Len(script) /\ e \in i .. BlockEnd /\ script[e] = Newline
      /\ \A n \in i .. e - 1 : script[n] # Newline
      /\ LineOf(e + 1) = LineOf(i) + 1
  BY LineIs
<1>2. BlockEnd \in 1 .. Len(script) /\ Len(script) \in Nat /\ BlockBegin \in Int
  BY HasBlockFacts, ScriptFacts
<1>3. k \in 1 .. Len(script) + 1 /\ e \in 1 .. Len(script) /\ k \in i .. e
  BY <1>1, <1>2
<1>4. f \in k .. Len(script) + 1 /\ At(f) \in {Newline, EndOfText} /\ \A n \in k .. f - 1 : At(n) # Newline
  BY <1>3, FindFacts
<1>5. At(e) = Newline /\ \A n \in 1 .. Len(script) : At(n) = script[n] /\ script[n] # EndOfText
  BY <1>1, <1>3, ScriptFacts
<1> HIDE DEF e, f
<1>6. f <= e
  <2>1. ~(e \in k .. f - 1)
    BY <1>4, <1>5
  <2> QED BY <1>2, <1>3, <1>4, <2>1
<1>7. ~(f < e)
  <2> SUFFICES ASSUME f < e PROVE FALSE
    OBVIOUS
  <2>1. f \in i .. e - 1 /\ f \in 1 .. Len(script)
    BY <1>1, <1>2, <1>3, <1>4
  <2> QED BY <1>1, <1>4, <1>5, <2>1
<1>8. f = e
  BY <1>2, <1>3, <1>4, <1>6, <1>7
<1>9. StartsLine(e + 1)
  <2>1. BlockBegin < i
    BY DEF StartsLine
  <2>2. BlockBegin < e + 1 /\ e + 1 <= BlockEnd + 1 /\ (e + 1) - 1 = e
    BY <1>1, <1>2, <2>1
  <2> QED BY <1>1, <1>3, <2>2 DEF StartsLine
<1> QED BY <1>1, <1>8, <1>9 DEF e, f

\* The rest of the begin marker's line.
LEMMA FirstLine ==
    ASSUME script \in Scripts, HasBlock
    PROVE  /\ At(Skip(BlockBegin, Indent)) = Newline
           /\ StartsLine(Find(BlockBegin, Newline) + 1)
           /\ LineOf(Find(BlockBegin, Newline) + 1) = LineOf(BlockBegin) + 1
           /\ LineSays(LineOf(BlockBegin)) = <<>>
<1> DEFINE b == BlockBegin
<1>1. b \in 1 .. Len(script) /\ BlockEnd \in 1 .. Len(script) /\ b < BlockEnd /\ script[b] = Newline
  BY HasBlockFacts
<1>2. Len(script) \in Nat /\ At(b) = Newline /\ b \in 1 .. Len(script) + 1
  BY <1>1, ScriptFacts
<1>3. Newline \notin Indent
  BY PreprocessorAssumption DEF Indent
<1>4. Skip(b, Indent) = b
  <2>1. Skip(b, Indent) \in b .. Len(script) + 1 /\ \A n \in b .. Skip(b, Indent) - 1 : At(n) \in Indent
    BY <1>2, SkipFacts
  <2>2. ~(b \in b .. Skip(b, Indent) - 1)
    BY <1>2, <1>3, <2>1
  <2> QED BY <1>1, <1>2, <2>1, <2>2
<1>5. Find(b, Newline) = b
  <2>1. Find(b, Newline) \in b .. Len(script) + 1 /\ \A n \in b .. Find(b, Newline) - 1 : At(n) # Newline
    BY <1>2, FindFacts
  <2>2. ~(b \in b .. Find(b, Newline) - 1)
    BY <1>2, <2>1
  <2> QED BY <1>1, <1>2, <2>1, <2>2
<1>6. StartsLine(b + 1)
  <2>1. b + 1 \in Int /\ b < b + 1 /\ b + 1 <= BlockEnd + 1 /\ (b + 1) - 1 = b
    BY <1>1
  <2> QED BY <1>1, <2>1 DEF StartsLine
<1>7. b \in Nat \ {0}
  BY <1>1
<1>8. LineOf(b + 1) = LineOf(b) + 1 /\ LineOf(b) \in Nat
  BY <1>2, <1>7, NextLineOf, LineOfFacts
<1>9. LineSays(LineOf(b)) = <<>>
  <2>1. BlockLines = LineOf(b) + 1 .. LineOf(BlockEnd)
    BY BlockLinesAre
  <2>2. LineOf(b) \notin BlockLines
    BY <1>8, <2>1
  <2> QED BY <2>2 DEF LineSays
<1> QED BY <1>2, <1>4, <1>5, <1>6, <1>8, <1>9

-----------------------------------------------------------------------------
(* The invariant of the scan *)

\* The walk is at the start of a line: what it has found is what the lines before say.
AtLine ==
    IF HasBlock
    THEN /\ pend = BlockEnd
         /\ \E i, n \in Int :
               /\ p = i /\ (i = BlockBegin \/ StartsLine(i))
               /\ n = LineOf(i) /\ found = MeantUpTo(n - 1)
    ELSE p = 1 /\ pend = 1 /\ found = <<>>

\* It is within a value.
AtValue ==
    /\ pend = BlockEnd
    /\ \E i, n, c, w, q, k \in Int :
          /\ p = k /\ Reading(i, n, c, w, q, k, value) /\ directive = script[w]
          /\ found = MeantUpTo(n - 1)

ScanInv ==
    /\ script \in Scripts
    /\ stage \in {"scan", "value", "info", "import", "expand", "done"}
    /\ stage = "scan" => AtLine
    /\ stage = "value" => AtValue
    /\ stage = "info" => found = MeantUpTo(LineCount)

LEMMA ScanInitially == PreprocessorInit => ScanInv
<1> SUFFICES ASSUME PreprocessorInit PROVE ScanInv
  OBVIOUS
<1>1. script \in Scripts /\ stage = "scan" /\ found = <<>>
      /\ IF HasBlock THEN p = BlockBegin /\ pend = BlockEnd ELSE p = 1 /\ pend = 1
  BY DEF PreprocessorInit
<1>2. CASE HasBlock
  <2>1. BlockBegin \in Nat \ {0} /\ BlockEnd \in Nat \ {0}
    BY <1>1, <1>2, HasBlockFacts
  <2>2. LineOf(BlockBegin) \in Nat \ {0}
    BY <2>1, LineOfFacts
  <2> DEFINE n == LineOf(BlockBegin)
  <2>3. MeantUpTo(n - 1) = <<>>
    <3>1. BlockLines = n + 1 .. LineOf(BlockEnd)
      BY <1>1, <1>2, BlockLinesAre
    <3>2. \A l \in 0 + 1 .. n - 1 : LineSays(l) = <<>>
      BY <2>2, <3>1 DEF LineSays
    <3> HIDE DEF n
    <3>3. n - 1 \in Nat /\ 0 \in Nat /\ 0 <= n - 1
      BY <2>2 DEF n
    <3>4. MeantUpTo(n - 1) = MeantUpTo(0)
      BY <1>1, <3>2, <3>3, MeantUpToSame
    <3> QED BY <1>1, <3>4, MeantUpToZero
  <2>4. n \in Int /\ BlockBegin \in Int
    BY <2>1, <2>2
  <2> QED BY <1>1, <1>2, <2>3, <2>4 DEF ScanInv, AtLine
<1>3. CASE ~HasBlock
  BY <1>1, <1>3 DEF ScanInv, AtLine
<1> QED BY <1>2, <1>3

\* What it says of the scan is what the property says.
LEMMA ScanFinds == ScanInv => FoundAreMeant
<1> SUFFICES ASSUME ScanInv, stage \in {"scan", "value", "info"}
             PROVE  found = MeantSoFar
  BY DEF FoundAreMeant
<1>1. script \in Scripts
  BY DEF ScanInv
<1>2. CASE stage = "scan" /\ HasBlock
  <2>1. found = MeantUpTo(LineOf(p) - 1)
    BY <1>2 DEF ScanInv, AtLine
  <2> QED BY <1>2, <2>1 DEF MeantSoFar
<1>3. CASE stage = "scan" /\ ~HasBlock
  <2>1. p = 1 /\ found = <<>>
    BY <1>3 DEF ScanInv, AtLine
  <2>2. LineOf(1) = 1
    <3>1. {n \in 1 .. 1 - 1 : At(n) = Newline} = {}
      OBVIOUS
    <3> QED BY <3>1, FS_EmptySet DEF LineOf
  <2>3. LineOf(p) - 1 = 0
    BY <2>1, <2>2
  <2> QED BY <1>1, <1>3, <2>1, <2>3, MeantUpToZero DEF MeantSoFar
<1>4. CASE stage = "value"
  <2>1. PICK i, n, c, w, q, k \in Int : p = k /\ Reading(i, n, c, w, q, k, value) /\ found = MeantUpTo(n - 1)
    BY <1>4 DEF ScanInv, AtValue
  <2>2. k \in i .. LineEnd(i) /\ OnLine(n) = i .. LineEnd(i)
    BY <1>1, <2>1, ReadingFacts
  <2>3. LineOf(p) = n
    BY <2>1, <2>2 DEF OnLine
  <2> QED BY <1>4, <2>1, <2>3 DEF MeantSoFar
<1>5. CASE stage = "info"
  BY <1>5 DEF ScanInv, MeantSoFar
<1> QED BY <1>2, <1>3, <1>4, <1>5

\* No step of the scan changes the script, so what is said of the script stays.
LEMMA SameText ==
    ASSUME script' = script
    PROVE  /\ HasBlock' = HasBlock /\ BlockBegin' = BlockBegin /\ BlockEnd' = BlockEnd
           /\ \A i : LineOf(i)' = LineOf(i) /\ StartsLine(i)' = StartsLine(i)
           /\ \A i, n, c, w, q, k, v : Reading(i, n, c, w, q, k, v)' = Reading(i, n, c, w, q, k, v)
           /\ \A n : MeantUpTo(n)' = MeantUpTo(n)
           /\ LineCount' = LineCount
<1>1. \A i : At(i)' = At(i)
  BY DEF At
<1>2. BlockBegin' = BlockBegin /\ BlockEnd' = BlockEnd /\ HasBlock' = HasBlock
  BY DEF At, Find, BlockBegin, EndMarker, BlockEnd, HasBlock
<1>3. \A i : LineOf(i)' = LineOf(i)
  BY DEF At, LineOf
<1>4. \A i : StartsLine(i)' = StartsLine(i)
  BY <1>2 DEF StartsLine
<1>5. \A i : LineEnd(i)' = LineEnd(i)
  BY DEF At, Find, LineEnd
<1>6. \A n : OnLine(n)' = OnLine(n)
  BY DEF OnLine, LineOf, At
<1>7. \A n, c, w, q : Opened(n, c, w, q)' = Opened(n, c, w, q)
  BY <1>6 DEF Opened, OnlySpace
<1>8. \A i, j : Quotes(i, j)' = Quotes(i, j) /\ ClosesAt(i, j)' = ClosesAt(i, j)
  BY <1>1 DEF Quotes, ClosesAt
<1>9. \A i, j : Unescaped(i, j)' = Unescaped(i, j)
  BY DEF Unescaped, Quotes
<1>10. \A i, n, c, w, q, k, v : Reading(i, n, c, w, q, k, v)' = Reading(i, n, c, w, q, k, v)
  BY <1>2, <1>3, <1>4, <1>5, <1>7, <1>8, <1>9 DEF Reading
<1>11. \A n : MeantUpTo(n)' = MeantUpTo(n)
  BY DEF MeantUpTo, BlockLines, LineCount, Having, LineOf, At, MeantBy, Places, OnlySpace, ClosesAt,
         Quotes, Unescaped
<1>12. LineCount' = LineCount
  BY DEF LineCount, LineOf, At
<1> QED BY <1>2, <1>3, <1>4, <1>10, <1>11, <1>12

\* A value begins behind its opening quote.
LEMMA OpenReads ==
    ASSUME script \in Scripts, HasBlock, NEW i \in Int, StartsLine(i), i <= BlockEnd,
           NEW c \in Int, NEW w \in Int, NEW q \in Int, Opened(LineOf(i), c, w, q)
    PROVE  Reading(i, LineOf(i), c, w, q, q + 1, <<>>)
<1>1. LineEnd(i) \in i .. BlockEnd /\ script[LineEnd(i)] = Newline /\ OnLine(LineOf(i)) = i .. LineEnd(i)
  BY LineIs
<1>2. q \in i .. LineEnd(i) /\ script[q] = Quote /\ q \in 1 .. Len(script)
  BY <1>1 DEF Opened, OnLine
<1>3. Newline # Quote
  BY PreprocessorAssumption
<1>4. q < q + 1 /\ q + 1 <= LineEnd(i) /\ (q + 1) - 1 = q /\ q + 1 \in Nat \ {0} /\ q \in Nat /\ q <= Len(script)
  <2>1. q # LineEnd(i)
    BY <1>1, <1>2, <1>3
  <2>2. Len(script) \in Nat
    BY ScriptFacts
  <2> QED BY <1>1, <1>2, <2>1, <2>2
<1> DEFINE a == q + 1
<1>5. a \in Nat \ {0} /\ q \in Nat /\ a <= q + 1 /\ a - 1 = q /\ q <= Len(script)
  BY <1>4
<1> HIDE DEF a
<1>6. Quotes(a, a - 1) = 0
  BY <1>5, QuotesMore
<1>7. Unescaped(a, q) = <<>>
  BY <1>5, UnescapedFacts
<1>8. Quotes(q + 1, (q + 1) - 1) % 2 = 0
  BY <1>6 DEF a
<1>9. \A j \in q + 1 .. (q + 1) - 1 : FALSE
  BY <1>5
<1>10. <<>> = Unescaped(q + 1, (q + 1) - 1)
  BY <1>4, <1>7 DEF a
<1> QED BY <1>4, <1>8, <1>9, <1>10 DEF Reading

LEMMA NothingMore ==
    ASSUME script \in Scripts, NEW n \in Nat \ {0}, LineSays(n) = <<>>
    PROVE  MeantUpTo((n + 1) - 1) = MeantUpTo(n - 1)
<1>1. n - 1 \in Nat /\ n \in Nat /\ n - 1 <= n /\ (n + 1) - 1 = n
  OBVIOUS
<1>2. \A l \in (n - 1) + 1 .. n : LineSays(l) = <<>>
  BY <1>1
<1> DEFINE m == n - 1
<1> HIDE DEF m
<1>3. MeantUpTo(n) = MeantUpTo(m)
  BY <1>1, <1>2, MeantUpToSame DEF m
<1> QED BY <1>1, <1>3 DEF m

LEMMA OneMore ==
    ASSUME script \in Scripts, NEW n \in Nat \ {0}, NEW d, NEW v, Gives(n, d, v)
    PROVE  MeantUpTo((n + 1) - 1) = Append(MeantUpTo(n - 1), [directive |-> d, value |-> v])
<1> DEFINE m == n - 1
           r == [directive |-> d, value |-> v]
<1>0. LineSays(n) = <<r>>
  BY DEF Gives
<1>1. m \in Nat /\ m + 1 = n /\ (n + 1) - 1 = n
  OBVIOUS
<1> HIDE DEF m, r
<1>2. MeantUpTo(m + 1) = MeantUpTo(m) \o LineSays(m + 1)
  BY <1>1, MeantUpToMore
<1>3. MeantUpTo(m) \in Seq(Directives) /\ <<r>> \in Seq(Directives)
  <2>1. LineSays(n) \in Seq(Directives)
    BY LineSaysType
  <2> QED BY <1>0, <1>1, <2>1, MeantUpToFacts
<1>4. r \in Directives
  <2>1. <<r>>[1] = r /\ 1 \in DOMAIN <<r>>
    OBVIOUS
  <2> QED BY <1>3, <2>1
<1>5. MeantUpTo(m) \o <<r>> = Append(MeantUpTo(m), r)
  BY <1>3, <1>4, AppendIsConcat
<1> QED BY <1>0, <1>1, <1>2, <1>5 DEF m, r

LEMMA ScanLineStep == ASSUME ScanInv, ScanLine PROVE ScanInv'
<1> DEFINE comment == Skip(p, Indent)
           word    == Skip(comment + 1, Blanks)
           quote   == Skip(word + 1, Blanks)
           Opens   == At(comment) = Slashes /\ At(word) \in Directive /\ At(quote) = Quote
<1>1. /\ script \in Scripts /\ stage = "scan" /\ p < pend /\ AtLine
      /\ script' = script /\ pend' = pend /\ found' = found
      /\ Opens => stage' = "value" /\ p' = quote + 1 /\ directive' = At(word) /\ value' = <<>>
      /\ ~Opens => p' = Find(p, Newline) + 1 /\ stage' = stage
  BY DEF ScanLine, ScanInv, NextLine
<1>2. HasBlock
  BY <1>1 DEF AtLine
<1>3. PICK i, n \in Int : p = i /\ pend = BlockEnd /\ (i = BlockBegin \/ StartsLine(i)) /\ n = LineOf(i)
                          /\ found = MeantUpTo(n - 1)
  BY <1>1, <1>2 DEF AtLine
<1> HIDE DEF comment, word, quote, Opens
<1>4. /\ HasBlock' /\ BlockBegin' = BlockBegin /\ BlockEnd' = BlockEnd
      /\ \A l : LineOf(l)' = LineOf(l) /\ StartsLine(l)' = StartsLine(l)
      /\ \A a, b, c, d, e, f, g : Reading(a, b, c, d, e, f, g)' = Reading(a, b, c, d, e, f, g)
      /\ \A l : MeantUpTo(l)' = MeantUpTo(l)
  BY <1>1, <1>2, SameText
<1>5. i < BlockEnd /\ BlockEnd \in Int /\ i <= BlockEnd /\ n \in Nat \ {0}
  <2>1. BlockEnd \in Int /\ BlockBegin \in Nat \ {0}
    BY <1>1, <1>2, HasBlockFacts
  <2>2. i \in Nat \ {0}
    BY <1>3, <2>1 DEF StartsLine
  <2>3. n \in Nat \ {0}
    BY <1>3, <2>2, LineOfFacts
  <2> QED BY <1>1, <1>3, <2>1, <2>2, <2>3
\* A line without a directive.
<1>6. ASSUME ~Opens, LineSays(n) = <<>>, NEW l \in Int, l = Find(i, Newline) + 1, StartsLine(l),
             LineOf(l) = n + 1
      PROVE  ScanInv'
  <2>1. MeantUpTo((n + 1) - 1) = found
    BY <1>1, <1>3, <1>5, <1>6, NothingMore
  <2>2. p' = l /\ pend' = BlockEnd' /\ stage' = "scan" /\ n + 1 \in Int
    BY <1>1, <1>3, <1>4, <1>6
  <2>3. StartsLine(l)' /\ n + 1 = LineOf(l)' /\ found' = MeantUpTo((n + 1) - 1)'
    BY <1>1, <1>4, <1>6, <2>1
  <2>4. AtLine'
    BY <1>4, <2>2, <2>3 DEF AtLine
  <2> QED BY <1>1, <2>2, <2>4 DEF ScanInv
<1>7. CASE i = BlockBegin
  <2>1. /\ At(Skip(i, Indent)) = Newline /\ StartsLine(Find(i, Newline) + 1)
        /\ LineOf(Find(i, Newline) + 1) = n + 1 /\ LineSays(n) = <<>>
    BY <1>1, <1>2, <1>3, <1>7, FirstLine
  <2>2. ~Opens
    <3>1. Newline # Slashes
      BY PreprocessorAssumption
    <3> QED BY <1>3, <2>1, <3>1 DEF Opens, comment
  <2>3. Find(i, Newline) + 1 \in Int
    BY <2>1 DEF StartsLine
  <2> QED BY <1>6, <2>1, <2>2, <2>3
<1>8. CASE StartsLine(i) /\ ~Opens
  <2>1. \A c, w, q : ~Opened(n, c, w, q)
    BY <1>1, <1>2, <1>3, <1>5, <1>8, WalkOpens DEF Opens, comment, word, quote
  <2>2. LineSays(n) = <<>>
    BY <2>1, MeantByNothing DEF LineSays
  <2>3. i \in i .. LineEnd(i)
    BY <1>1, <1>2, <1>5, <1>8, LineIs
  <2>4. StartsLine(Find(i, Newline) + 1) /\ LineOf(Find(i, Newline) + 1) = n + 1
    BY <1>1, <1>2, <1>3, <1>5, <1>8, <2>3, JumpToNextLine
  <2>5. Find(i, Newline) + 1 \in Int
    BY <2>4 DEF StartsLine
  <2> QED BY <1>6, <1>8, <2>2, <2>4, <2>5
<1>9. CASE StartsLine(i) /\ Opens
  <2>1. Opened(n, comment, word, quote) /\ At(word) = script[word]
    BY <1>1, <1>2, <1>3, <1>5, <1>9, WalkOpens DEF Opens, comment, word, quote
  <2>2. comment \in Int /\ word \in Int /\ quote \in Int
    BY <2>1 DEF Opened, OnLine
  <2>3. PICK c, w, q \in Int : c = comment /\ w = word /\ q = quote
    BY <2>2
  <2>4. Reading(i, n, c, w, q, q + 1, <<>>)
    BY <1>1, <1>2, <1>3, <1>5, <1>9, <2>1, <2>3, OpenReads
  <2>5. /\ p' = q + 1 /\ pend' = BlockEnd' /\ stage' = "value" /\ directive' = script'[w]
        /\ value' = <<>> /\ found' = MeantUpTo(n - 1)'
    BY <1>1, <1>3, <1>4, <1>9, <2>1, <2>3
  <2>6. Reading(i, n, c, w, q, q + 1, <<>>)'
    BY <1>4, <2>4
  <2>7. Reading(i, n, c, w, q, q + 1, value)' /\ q + 1 \in Int
    BY <2>5, <2>6 DEF Reading
  <2>8. AtValue'
    BY <2>5, <2>6, <2>7 DEF AtValue
  <2> QED BY <1>1, <2>5, <2>8 DEF ScanInv
<1> QED BY <1>3, <1>7, <1>8, <1>9

\* What a step within a value starts from.
LEMMA WithinValue ==
    ASSUME ScanInv, stage = "value"
    PROVE  /\ script \in Scripts /\ pend = BlockEnd
           /\ \E i, n, c, w, q, k \in Int :
                 /\ p = k /\ Reading(i, n, c, w, q, k, value) /\ directive = script[w]
                 /\ found = MeantUpTo(n - 1)
                 /\ At(k) = script[k] /\ (script[k] # Newline => InValue)
                 /\ (InValue => script[k] # Newline)
<1>1. script \in Scripts /\ pend = BlockEnd
  BY DEF ScanInv, AtValue
<1>2. PICK i, n, c, w, q, k \in Int :
          /\ p = k /\ Reading(i, n, c, w, q, k, value) /\ directive = script[w]
          /\ found = MeantUpTo(n - 1)
  BY DEF ScanInv, AtValue
<1>3. At(k) = script[k] /\ k \in 1 .. Len(script)
  <2>1. Reading(i, n, c, w, q, k, value)
    BY <1>2
  <2>2. k \in 1 .. Len(script)
    BY <1>1, <2>1, ReadingFacts
  <2> QED BY <1>1, <2>2, ScriptFacts
<1>4. k <= BlockEnd /\ script[BlockEnd] = Newline /\ BlockEnd \in Int
  <2>1. k <= LineEnd(i) /\ LineEnd(i) <= BlockEnd /\ LineEnd(i) \in 1 .. Len(script)
    BY <1>1, <1>2, ReadingFacts
  <2>2. script[BlockEnd] = Newline /\ BlockEnd \in 1 .. Len(script)
    BY <1>1, <1>2, ReadingFacts
  <2> QED BY <2>1, <2>2
<1>5. script[k] # EndOfText
  BY <1>1, <1>3, ScriptFacts
<1>6. InValue <=> script[k] # Newline
  BY <1>1, <1>2, <1>3, <1>4, <1>5 DEF InValue
<1> QED BY <1>1, <1>2, <1>3, <1>6

LEMMA ValueGoesOnStep == ASSUME ScanInv, ValueGoesOn PROVE ScanInv'
<1>1. /\ stage = "value" /\ InValue /\ script' = script /\ pend' = pend /\ stage' = stage
      /\ directive' = directive /\ found' = found /\ value' = Append(value, At(p))
      /\ \/ At(p) # Quote /\ p' = p + 1
         \/ At(p) = Quote /\ At(p + 1) = Quote /\ p' = p + 2
  BY DEF ValueGoesOn
<1>2. script \in Scripts /\ pend = BlockEnd
  BY <1>1, WithinValue
<1>3. PICK i, n, c, w, q, k \in Int :
          /\ p = k /\ Reading(i, n, c, w, q, k, value) /\ directive = script[w]
          /\ found = MeantUpTo(n - 1)
          /\ At(k) = script[k] /\ script[k] # Newline
  BY <1>1, WithinValue
<1>4. /\ BlockEnd' = BlockEnd
      /\ \A a, b, d, e, f, g, h : Reading(a, b, d, e, f, g, h)' = Reading(a, b, d, e, f, g, h)
      /\ \A l : MeantUpTo(l)' = MeantUpTo(l)
  BY <1>1, SameText
<1>5. PICK v : v = Append(value, script[k])
  OBVIOUS
<1>6. ASSUME NEW l \in Int, p' = l, Reading(i, n, c, w, q, l, v)
      PROVE  ScanInv'
  <2>1. Reading(i, n, c, w, q, l, v)'
    BY <1>4, <1>6
  <2>2. Reading(i, n, c, w, q, l, value)'
    BY <1>1, <1>3, <1>5, <2>1 DEF Reading
  <2>3. pend' = BlockEnd' /\ directive' = script'[w] /\ found' = MeantUpTo(n - 1)'
    BY <1>1, <1>2, <1>3, <1>4
  <2>4. AtValue'
    BY <1>6, <2>2, <2>3 DEF AtValue
  <2> QED BY <1>1, <1>2, <2>4 DEF ScanInv
<1>7. CASE At(p) # Quote
  <2>1. Reading(i, n, c, w, q, k, value) /\ script[k] # Newline /\ script[k] # Quote
    BY <1>3, <1>7
  <2>2. Reading(i, n, c, w, q, k + 1, Append(value, script[k]))
    BY <1>2, <2>1, ReadCharacter
  <2>3. p' = k + 1 /\ k + 1 \in Int
    BY <1>1, <1>3, <1>7
  <2> QED BY <1>5, <1>6, <2>2, <2>3
<1>8. CASE At(p) = Quote
  <2>1. Reading(i, n, c, w, q, k, value) /\ At(k + 1) = Quote /\ script[k] = Quote
    BY <1>1, <1>3, <1>8
  <2>2. Reading(i, n, c, w, q, k + 2, Append(value, script[k]))
    BY <1>2, <2>1, ReadQuotes
  <2>3. p' = k + 2 /\ k + 2 \in Int
    BY <1>1, <1>3, <1>8
  <2> QED BY <1>5, <1>6, <2>2, <2>3
<1> QED BY <1>7, <1>8

\* The walk leaves a line of a value.
LEMMA LeaveLine ==
    ASSUME script \in Scripts, NEW i \in Int, NEW n \in Int, NEW c \in Int, NEW w \in Int, NEW q \in Int,
           NEW k \in Int, NEW v, Reading(i, n, c, w, q, k, v), script' = script, pend' = pend, pend = BlockEnd,
           p' = Find(k, Newline) + 1, found' = MeantUpTo((n + 1) - 1), stage' = "scan"
    PROVE  ScanInv'
<1>1. HasBlock /\ StartsLine(i) /\ i <= BlockEnd /\ n = LineOf(i)
  BY DEF Reading
<1>2. k \in i .. LineEnd(i)
  BY ReadingFacts
<1> DEFINE l == Find(k, Newline) + 1
<1>3. StartsLine(l) /\ LineOf(l) = n + 1
  BY <1>1, <1>2, JumpToNextLine
<1>4. PICK m \in Int : m = l
  BY <1>3 DEF StartsLine
<1> HIDE DEF l
<1>5. /\ HasBlock' /\ BlockEnd' = BlockEnd
      /\ \A a : LineOf(a)' = LineOf(a) /\ StartsLine(a)' = StartsLine(a)
      /\ \A a : MeantUpTo(a)' = MeantUpTo(a)
  BY <1>1, SameText
<1>6. /\ p' = m /\ StartsLine(m)' /\ n + 1 = LineOf(m)' /\ found' = MeantUpTo((n + 1) - 1)'
      /\ n + 1 \in Int /\ pend' = BlockEnd'
  BY <1>3, <1>4, <1>5 DEF l
<1>7. AtLine'
  BY <1>5, <1>6 DEF AtLine
<1> QED BY <1>7 DEF ScanInv

LEMMA ValueEndsStep == ASSUME ScanInv, ValueEnds PROVE ScanInv'
<1>1. /\ stage = "value" /\ InValue /\ At(p) = Quote /\ At(p + 1) # Quote
      /\ found' = Append(found, [directive |-> directive, value |-> value])
      /\ stage' = "scan" /\ p' = Find(p, Newline) + 1 /\ script' = script /\ pend' = pend
  BY DEF ValueEnds, NextLine
<1>2. script \in Scripts /\ pend = BlockEnd
  BY <1>1, WithinValue
<1>3. PICK i, n, c, w, q, k \in Int :
          /\ p = k /\ Reading(i, n, c, w, q, k, value) /\ directive = script[w]
          /\ found = MeantUpTo(n - 1)
          /\ At(k) = script[k]
  BY <1>1, WithinValue
<1>4. Gives(n, directive, value)
  <2>1. Reading(i, n, c, w, q, k, value) /\ script[k] = Quote /\ At(k + 1) # Quote
    BY <1>1, <1>3
  <2>2. Gives(n, script[w], value)
    BY <1>2, <2>1, ReadClosing
  <2> QED BY <1>3, <2>2
<1>5. n \in Nat \ {0}
  BY <1>2, <1>3, ReadingFacts
<1>6. found' = MeantUpTo((n + 1) - 1)
  BY <1>1, <1>2, <1>3, <1>4, <1>5, OneMore
<1> QED BY <1>1, <1>2, <1>3, <1>6, LeaveLine

LEMMA ValueFailsStep == ASSUME ScanInv, ValueFails PROVE ScanInv'
<1>1. /\ stage = "value" /\ ~InValue /\ found' = found
      /\ stage' = "scan" /\ p' = Find(p, Newline) + 1 /\ script' = script /\ pend' = pend
  BY DEF ValueFails, NextLine
<1>2. script \in Scripts /\ pend = BlockEnd
  BY <1>1, WithinValue
<1>3. PICK i, n, c, w, q, k \in Int :
          /\ p = k /\ Reading(i, n, c, w, q, k, value)
          /\ found = MeantUpTo(n - 1) /\ script[k] = Newline
  BY <1>1, WithinValue
<1>4. LineSays(n) = <<>>
  BY <1>2, <1>3, ReadToTheEnd
<1>5. n \in Nat \ {0}
  BY <1>2, <1>3, ReadingFacts
<1>6. found' = MeantUpTo((n + 1) - 1)
  BY <1>1, <1>2, <1>3, <1>4, <1>5, NothingMore
<1> QED BY <1>1, <1>2, <1>3, <1>6, LeaveLine

\* With no block nothing is meant.
LEMMA NothingIsMeant ==
    ASSUME script \in Scripts, ~HasBlock
    PROVE  MeantUpTo(LineCount) = <<>>
<1>1. LineCount \in Nat
  <2>1. Len(script) + 1 \in Nat \ {0}
    BY ScriptFacts
  <2> QED BY <2>1, LineOfFacts DEF LineCount
<1>2. BlockLines = {}
  BY BlockLinesAre
<1>3. \A l \in 0 + 1 .. LineCount : LineSays(l) = <<>>
  BY <1>2 DEF LineSays
<1>4. 0 \in Nat /\ 0 <= LineCount
  BY <1>1
<1>5. MeantUpTo(LineCount) = MeantUpTo(0)
  BY <1>1, <1>3, <1>4, MeantUpToSame
<1> QED BY <1>5, MeantUpToZero

LEMMA ScanEndsStep == ASSUME ScanInv, ScanEnds PROVE ScanInv'
<1>1. /\ script \in Scripts /\ AtLine /\ p >= pend /\ stage' = "info" /\ script' = script /\ found' = found
  BY DEF ScanEnds, ScanInv
<1>2. MeantUpTo(LineCount)' = MeantUpTo(LineCount)
  BY <1>1 DEF MeantUpTo, BlockLines, LineCount, Having, LineOf, At, MeantBy, Places, OnlySpace, ClosesAt,
              Quotes, Unescaped
<1>3. CASE HasBlock
  <2>1. PICK i, n \in Int : p = i /\ pend = BlockEnd /\ (i = BlockBegin \/ StartsLine(i)) /\ n = LineOf(i)
                            /\ found = MeantUpTo(n - 1)
    BY <1>1, <1>3 DEF AtLine
  <2>2. BlockBegin \in Int /\ BlockEnd \in Int /\ BlockBegin < BlockEnd
    BY <1>1, <1>3, HasBlockFacts
  <2>3. StartsLine(i) /\ (i = BlockEnd \/ i = BlockEnd + 1)
    BY <1>1, <2>1, <2>2 DEF StartsLine
  <2>4. MeantUpTo(LineCount) = MeantUpTo(LineOf(i) - 1)
    BY <1>1, <1>3, <2>3, MeantToTheEnd
  <2> QED BY <1>1, <1>2, <2>1, <2>4 DEF ScanInv
<1>4. CASE ~HasBlock
  <2>1. found = <<>>
    BY <1>1, <1>4 DEF AtLine
  <2> QED BY <1>1, <1>2, <1>4, <2>1, NothingIsMeant DEF ScanInv
<1> QED BY <1>3, <1>4

LEMMA LaterSteps ==
    ASSUME ScanInv,
           ReadInfo \/ NextDirective \/ ExpandNormal \/ ExpandPercent \/ ReadImport \/ ImportEnds
    PROVE  ScanInv'
<1>1. script' = script /\ stage' \in {"import", "expand", "done"}
  BY DEF ScanInv, ReadInfo, NextDirective, ExpandNormal, ExpandPercent, ReadImport, ImportEnds
<1> QED BY <1>1 DEF ScanInv

LEMMA NoScanStep == ASSUME ScanInv, UNCHANGED preprocessorVars PROVE ScanInv'
<1>1. /\ script' = script /\ p' = p /\ pend' = pend /\ stage' = stage /\ directive' = directive
      /\ value' = value /\ found' = found
  BY DEF preprocessorVars, scanVars
<1>2. /\ HasBlock' = HasBlock /\ BlockBegin' = BlockBegin /\ BlockEnd' = BlockEnd
      /\ \A i : LineOf(i)' = LineOf(i) /\ StartsLine(i)' = StartsLine(i)
      /\ \A i, n, c, w, q, k, v : Reading(i, n, c, w, q, k, v)' = Reading(i, n, c, w, q, k, v)
      /\ \A n : MeantUpTo(n)' = MeantUpTo(n)
      /\ LineCount' = LineCount
  BY <1>1, SameText
<1>3. AtLine => AtLine'
  BY <1>1, <1>2 DEF AtLine
<1>4. ASSUME AtValue PROVE AtValue'
  <2>1. PICK i, n, c, w, q, k \in Int :
            /\ p = k /\ Reading(i, n, c, w, q, k, value) /\ directive = script[w]
            /\ found = MeantUpTo(n - 1) /\ pend = BlockEnd
    BY <1>4 DEF AtValue
  <2>2. PICK v : v = value
    OBVIOUS
  <2>3. Reading(i, n, c, w, q, k, v)'
    BY <1>2, <2>1, <2>2
  <2>4. Reading(i, n, c, w, q, k, value)'
    BY <1>1, <2>2, <2>3 DEF Reading
  <2> QED BY <1>1, <1>2, <2>1, <2>4 DEF AtValue
<1>5. MeantUpTo(LineCount)' = MeantUpTo(LineCount)
  BY <1>1 DEF MeantUpTo, BlockLines, LineCount, Having, LineOf, At, MeantBy, Places, OnlySpace, ClosesAt,
              Quotes, Unescaped
<1> QED BY <1>1, <1>3, <1>4, <1>5 DEF ScanInv

LEMMA ScanStep == ASSUME ScanInv, [PreprocessorNext]_preprocessorVars PROVE ScanInv'
BY ScanLineStep, ValueGoesOnStep, ValueEndsStep, ValueFailsStep, ScanEndsStep, LaterSteps, NoScanStep
   DEF PreprocessorNext

\* The directives found are those of the lines between the markers', each with its value
\* up to the first quote that is not doubled (extract_preprocessor_block,
\* scan_directive_and_value, scan_value).
THEOREM DirectivesFound == PreprocessorSpec => []FoundAreMeant
BY ScanInitially, ScanStep, ScanFinds, PTL DEF PreprocessorSpec

-----------------------------------------------------------------------------
(* Paths *)

LEMMA SignsMore ==
    ASSUME NEW v, NEW i \in Nat
    PROVE  /\ Signs(v, i) \in Nat
           /\ Signs(v, 0) = 0
           /\ Signs(v, i + 1) = IF v[i + 1] = Percent THEN Signs(v, i) + 1 ELSE Signs(v, i)
<1> DEFINE R(k) == {n \in 1 .. k : v[n] = Percent}
<1>1. IsFiniteSet(R(i))
  <2>1. IsFiniteSet(1 .. i)
    BY FS_Interval
  <2> QED BY <2>1, FS_Subset
<1>2. i + 1 \notin R(i) /\ R(i + 1) = IF v[i + 1] = Percent THEN R(i) \cup {i + 1} ELSE R(i)
  <2>1. \A n : n \in 1 .. i + 1 <=> n \in 1 .. i \/ n = i + 1
    OBVIOUS
  <2>2. i + 1 \notin 1 .. i
    OBVIOUS
  <2> QED BY <2>1, <2>2
<1>3. R(0) = {}
  OBVIOUS
<1>4. \A k : Signs(v, k) = Cardinality(R(k))
  BY DEF Signs
<1> HIDE DEF R
<1>5. Cardinality(R(i) \cup {i + 1}) = Cardinality(R(i)) + 1 /\ Cardinality(R(i)) \in Nat
  BY <1>1, <1>2, FS_AddElement, FS_CardinalityType
<1> QED BY <1>2, <1>3, <1>4, <1>5, FS_EmptySet

\* A percent sign begins a name or ends one.
LEMMA InNameMore ==
    ASSUME NEW v, NEW i \in Nat
    PROVE  /\ ~InName(v, 0)
           /\ InName(v, i + 1) <=> IF v[i + 1] = Percent THEN ~InName(v, i) ELSE InName(v, i)
<1>1. /\ Signs(v, i) \in Nat /\ Signs(v, 0) = 0
      /\ Signs(v, i + 1) = IF v[i + 1] = Percent THEN Signs(v, i) + 1 ELSE Signs(v, i)
  BY SignsMore
<1>2. \A n \in Nat : (n + 1) % 2 = 1 <=> n % 2 # 1
  OBVIOUS
<1>3. 0 % 2 = 0
  OBVIOUS
<1> QED BY <1>1, <1>2, <1>3 DEF InName

\* j is the last percent sign up to i.
Behind(v, j, i) == j \in 1 .. i /\ v[j] = Percent /\ \A n \in j + 1 .. i : v[n] # Percent

LEMMA NameBehind ==
    ASSUME NEW v, NEW i \in Nat, InName(v, i)
    PROVE  \E j \in Nat : Behind(v, j, i)
<1> DEFINE R == {j \in 1 .. i : v[j] = Percent}
<1>1. R # {}
  <2> SUFFICES ASSUME R = {} PROVE FALSE
    OBVIOUS
  <2>1. Signs(v, i) = 0
    BY FS_EmptySet DEF Signs
  <2>2. 0 % 2 = 0
    OBVIOUS
  <2> QED BY <2>1, <2>2 DEF InName
<1>2. R \subseteq 0 .. i
  OBVIOUS
<1>3. PICK j \in R : \A n \in R : n <= j
  <2> HIDE DEF R
  <2> QED BY <1>1, <1>2, GreatestNumber
<1>4. j \in 1 .. i /\ v[j] = Percent
  BY <1>3
<1>5. ASSUME NEW n \in j + 1 .. i
      PROVE  v[n] # Percent
  <2>1. n \in 1 .. i /\ ~(n <= j)
    BY <1>4, <1>5
  <2> QED BY <1>3, <2>1
<1> QED BY <1>4, <1>5 DEF Behind

LEMMA NameBeforeIs ==
    ASSUME NEW v, NEW i \in Nat \ {0}, NEW j, Behind(v, j, i - 1)
    PROVE  NameBefore(v, i) = SubSeq(v, j + 1, i - 1)
<1> DEFINE Nearest(k) == v[k] = Percent /\ \A n \in k + 1 .. i - 1 : v[n] # Percent
           opening == CHOOSE k \in 1 .. i - 1 : Nearest(k)
<1>1. j \in 1 .. i - 1 /\ Nearest(j)
  BY DEF Behind
<1>2. ASSUME NEW k \in 1 .. i - 1, Nearest(k)
      PROVE  k = j
  <2>1. ~(k < j) /\ ~(j < k)
    BY <1>1, <1>2
  <2> QED BY <1>1, <2>1
<1>3. NameBefore(v, i) = SubSeq(v, opening + 1, i - 1)
  BY DEF NameBefore
<1> HIDE DEF Nearest
<1>4. opening \in 1 .. i - 1 /\ Nearest(opening)
  BY <1>1
<1> HIDE DEF opening
<1>5. opening = j
  BY <1>2, <1>4
<1> QED BY <1>3, <1>5

\* The name a percent sign closes.
LEMMA NameFacts ==
    ASSUME NEW v \in Seq(Token), NEW i \in Closing(v)
    PROVE  /\ i \in 1 .. Len(v) /\ NameBefore(v, i) \in Seq(Token)
           /\ \A j : Behind(v, j, i - 1) => NameBefore(v, i) = SubSeq(v, j + 1, i - 1)
<1>1. i \in 1 .. Len(v) /\ InName(v, i - 1) /\ i \in Nat \ {0} /\ i - 1 \in Nat
  BY DEF Closing
<1>2. PICK j \in Nat : Behind(v, j, i - 1)
  BY <1>1, NameBehind
<1>3. SubSeq(v, j + 1, i - 1) \in Seq(Token)
  BY <1>1, <1>2, SubSeqProperties DEF Behind
<1> QED BY <1>1, <1>2, <1>3, NameBeforeIs

\* What a character leaves, and what it means.
Leaves(v, i) ==
    CASE i \in Closing(v) -> LET name == NameBefore(v, i)
                             IN  IF name = <<>> THEN <<Percent>>
                                 ELSE IF name = Variable THEN Expansion ELSE <<Percent>> \o Front(name)
      [] i \notin Closing(v) /\ InName(v, i) -> <<>>
      [] OTHER -> <<v[i]>>

Means(v, i) ==
    IF i \in Unclosed(v) THEN <<v[i]>>
    ELSE CASE i \in Closing(v) -> LET name == NameBefore(v, i)
                                  IN  IF name = <<>> THEN <<Percent>>
                                      ELSE IF name = Variable THEN Expansion
                                      ELSE <<Percent>> \o name \o <<Percent>>
           [] i \notin Closing(v) /\ InName(v, i) -> <<>>
           [] OTHER -> <<v[i]>>

LEMMA LeftIs ==
    ASSUME NEW v
    PROVE  /\ Left(v) = FlattenSeq([i \in 1 .. Len(v) |-> Leaves(v, i)])
           /\ Meant(v) = FlattenSeq([i \in 1 .. Len(v) |-> Means(v, i)])
<1>1. Left(v) = FlattenSeq([i \in 1 .. Len(v) |-> Leaves(v, i)])
  BY DEF Left, Leaves, Stands
<1>2. Meant(v) = FlattenSeq([i \in 1 .. Len(v) |-> Means(v, i)])
  BY DEF Meant, Means, Stands
<1> QED BY <1>1, <1>2

LEMMA PercentIsToken == Percent \in Token
<1>1. \A S : Percent \in S \cup {Percent}
  OBVIOUS
<1> QED BY <1>1 DEF Token

\* Of a name that is not known the walk leaves two characters less than it means.
LEMMA UnknownIsShorter ==
    ASSUME NEW name \in Seq(Token), name # <<>>
    PROVE  /\ <<Percent>> \o Front(name) \in Seq(Token)
           /\ <<Percent>> \o name \o <<Percent>> \in Seq(Token)
           /\ Len(<<Percent>> \o Front(name)) < Len(<<Percent>> \o name \o <<Percent>>)
<1>1. Front(name) \in Seq(Token) /\ Len(Front(name)) = Len(name) - 1 /\ Len(name) \in Nat \ {0}
  <2>1. Front(name) \in Seq(Token) /\ Len(name) \in Nat \ {0} /\ Len(Front(name)) = Len(name) - 1
    BY PopShape
  <2> QED BY <2>1
<1>2. Percent \in Token
  BY PercentIsToken
<1> DEFINE s == <<Percent>>
           f == Front(name)
<1>3. s \in Seq(Token) /\ Len(s) = 1
  BY <1>2
<1> HIDE DEF s, f
<1>4. f \in Seq(Token) /\ Len(f) = Len(name) - 1
  BY <1>1 DEF f
<1>5. s \o f \in Seq(Token) /\ Len(s \o f) = Len(name)
  <2>1. s \o f \in Seq(Token) /\ Len(s \o f) = Len(s) + Len(f)
    BY <1>3, <1>4, ConcatProperties
  <2> QED BY <1>1, <1>3, <1>4, <2>1
<1>6. s \o name \in Seq(Token) /\ Len(s \o name) = Len(name) + 1
  <2>1. s \o name \in Seq(Token) /\ Len(s \o name) = Len(s) + Len(name)
    BY <1>3, ConcatProperties
  <2> QED BY <1>1, <1>3, <2>1
<1>7. (s \o name) \o s \in Seq(Token) /\ Len((s \o name) \o s) = Len(name) + 2
  BY <1>1, <1>3, <1>6
<1> QED BY <1>1, <1>5, <1>7 DEF s, f

LEMMA TokenSeqs ==
    /\ Expansion \in Seq(Token) /\ <<Percent>> \in Seq(Token) /\ <<>> \in Seq(Token)
    /\ \A t \in Token : <<t>> \in Seq(Token)
<1>1. Expansion \in Seq(ToSet(Expansion)) /\ ToSet(Expansion) \subseteq Token /\ Percent \in Token
  BY PreprocessorAssumption, PercentIsToken DEF Token
<1>2. Seq(ToSet(Expansion)) \subseteq Seq(Token)
  BY <1>1
<1> QED BY <1>1, <1>2

\* Character by character.
LEMMA LeavesAndMeans ==
    ASSUME NEW v \in Seq(Token), NEW i \in 1 .. Len(v)
    PROVE  /\ Leaves(v, i) \in Seq(Token) /\ Means(v, i) \in Seq(Token)
           /\ Len(Leaves(v, i)) <= Len(Means(v, i))
           /\ \/ Leaves(v, i) = Means(v, i) /\ i \notin Unclosed(v)
                 /\ (i \in Closing(v) => NameBefore(v, i) \in {<<>>, Variable})
              \/ Len(Leaves(v, i)) < Len(Means(v, i))
                 /\ (i \in Unclosed(v) \/ (i \in Closing(v) /\ NameBefore(v, i) \notin {<<>>, Variable}))
<1>1. <<v[i]>> \in Seq(Token) /\ Len(<<v[i]>>) = 1 /\ Len(<<>>) = 0
  BY TokenSeqs
<1>2. \A s \in Seq(Token) : Len(s) <= Len(s)
  OBVIOUS
<1>3. CASE i \in Unclosed(v)
  <2>1. i \in Nat \ {0} /\ i - 1 \in Nat /\ (i - 1) + 1 = i
    OBVIOUS
  <2>2. InName(v, i)
    BY <1>3 DEF Unclosed
  <2>3. i \notin Closing(v)
    <3> SUFFICES ASSUME i \in Closing(v) PROVE FALSE
      OBVIOUS
    <3>1. v[i] = Percent /\ InName(v, i - 1)
      BY DEF Closing
    <3> QED BY <2>1, <2>2, <3>1, InNameMore
  <2>4. Leaves(v, i) = <<>> /\ Means(v, i) = <<v[i]>>
    BY <1>3, <2>2, <2>3 DEF Leaves, Means
  <2> QED BY <1>1, <1>3, <2>4, TokenSeqs
<1>4. CASE i \notin Unclosed(v) /\ i \in Closing(v)
  <2> DEFINE name == NameBefore(v, i)
  <2>1. name \in Seq(Token)
    BY <1>4, NameFacts
  <2>2. /\ Leaves(v, i) = IF name = <<>> THEN <<Percent>>
                          ELSE IF name = Variable THEN Expansion ELSE <<Percent>> \o Front(name)
        /\ Means(v, i) = IF name = <<>> THEN <<Percent>>
                         ELSE IF name = Variable THEN Expansion ELSE <<Percent>> \o name \o <<Percent>>
    BY <1>4 DEF Leaves, Means
  <2> HIDE DEF name
  <2>3. CASE name \in {<<>>, Variable}
    <3>1. Leaves(v, i) = Means(v, i) /\ Leaves(v, i) \in Seq(Token)
      BY <2>2, <2>3, TokenSeqs
    <3> QED BY <1>2, <1>4, <2>3, <3>1 DEF name
  <2>4. CASE name \notin {<<>>, Variable}
    <3>1. Leaves(v, i) = <<Percent>> \o Front(name) /\ Means(v, i) = <<Percent>> \o name \o <<Percent>>
      BY <2>2, <2>4
    <3>2. /\ <<Percent>> \o Front(name) \in Seq(Token)
          /\ <<Percent>> \o name \o <<Percent>> \in Seq(Token)
          /\ Len(<<Percent>> \o Front(name)) < Len(<<Percent>> \o name \o <<Percent>>)
      BY <2>1, <2>4, UnknownIsShorter
    <3>3. /\ Leaves(v, i) \in Seq(Token) /\ Means(v, i) \in Seq(Token)
          /\ Len(Leaves(v, i)) < Len(Means(v, i))
      BY <3>1, <3>2
    <3>4. Len(Leaves(v, i)) <= Len(Means(v, i))
      BY <3>3
    <3> QED BY <1>4, <2>4, <3>3, <3>4 DEF name
  <2> QED BY <2>3, <2>4
<1>5. CASE i \notin Unclosed(v) /\ i \notin Closing(v)
  <2>1. Leaves(v, i) = Means(v, i) /\ Leaves(v, i) \in {<<>>, <<v[i]>>}
    BY <1>5 DEF Leaves, Means
  <2> QED BY <1>1, <1>2, <1>5, <2>1, TokenSeqs
<1> QED BY <1>3, <1>4, <1>5

\* What is left of a path is what it means exactly when its signs are closed and its names known.
LEMMA LeftIsMeant ==
    ASSUME NEW v \in Seq(Token)
    PROVE  /\ Left(v) \in Seq(Token) /\ Meant(v) \in Seq(Token)
           /\ Left(v) = Meant(v) <=> AllKnown(v)
<1> DEFINE n == Len(v)
           s == [i \in 1 .. n |-> Leaves(v, i)]
           t == [i \in 1 .. n |-> Means(v, i)]
<1>1. n \in Nat /\ s \in [1 .. n -> Seq(Token)] /\ t \in [1 .. n -> Seq(Token)]
  BY LeavesAndMeans
<1>2. Left(v) = FlattenSeq(s) /\ Meant(v) = FlattenSeq(t)
  BY LeftIs
<1>3. \A i \in 1 .. n : s[i] = Leaves(v, i) /\ t[i] = Means(v, i)
  OBVIOUS
<1>4. \A i \in 1 .. n : Len(s[i]) <= Len(t[i])
  BY <1>3, LeavesAndMeans
<1>5. ASSUME AllKnown(v)
      PROVE  s = t
  <2>1. \A i \in 1 .. n : s[i] = t[i]
    BY <1>3, <1>5, LeavesAndMeans DEF AllKnown
  <2> HIDE DEF s, t
  <2> QED BY <1>1, <2>1
<1>6. ASSUME ~AllKnown(v)
      PROVE  \E i \in 1 .. n : Len(s[i]) < Len(t[i])
  <2>1. PICK i \in 1 .. n : i \in Unclosed(v) \/ (i \in Closing(v) /\ NameBefore(v, i) \notin {<<>>, Variable})
    BY <1>6 DEF AllKnown, Unclosed, Closing
  <2>2. Len(Leaves(v, i)) < Len(Means(v, i))
    BY <2>1, LeavesAndMeans
  <2> QED BY <1>3, <2>2
<1> HIDE DEF n, s, t
<1>7. FlattenSeq(s) \in Seq(Token) /\ FlattenSeq(t) \in Seq(Token)
  BY <1>1, FlattenIsJoined
<1>8. ASSUME ~AllKnown(v)
      PROVE  FlattenSeq(s) # FlattenSeq(t)
  <2>1. \E i \in 1 .. n : Len(s[i]) < Len(t[i])
    BY <1>6, <1>8
  <2>2. Len(FlattenSeq(s)) < Len(FlattenSeq(t))
    BY <1>1, <1>4, <2>1, FlattenLength
  <2>3. Len(FlattenSeq(s)) \in Nat
    BY <1>7
  <2> QED BY <2>2, <2>3
<1> QED BY <1>2, <1>5, <1>7, <1>8
-----------------------------------------------------------------------------
(* The walk along a path *)

\* At i it has made b of the characters before; r is the sign it is behind, or 0.
Expanding(v, i, r, b) ==
    /\ i \in 1 .. Len(v) + 1 /\ r \in Nat
    /\ b = FlattenSeq([n \in 1 .. i - 1 |-> Leaves(v, n)])
    /\ r > 0 <=> InName(v, i - 1)
    /\ r > 0 => Behind(v, r, i - 1)

LEMMA LeavesUpTo ==
    ASSUME NEW v \in Seq(Token), NEW i \in 1 .. Len(v)
    PROVE  /\ FlattenSeq([n \in 1 .. i - 1 |-> Leaves(v, n)]) \in Seq(Token)
           /\ FlattenSeq([n \in 1 .. (i + 1) - 1 |-> Leaves(v, n)]) =
                  FlattenSeq([n \in 1 .. i - 1 |-> Leaves(v, n)]) \o Leaves(v, i)
<1> DEFINE m == i - 1
           s == [n \in 1 .. m |-> Leaves(v, n)]
           t == [n \in 1 .. m + 1 |-> Leaves(v, n)]
<1>1. m \in Nat /\ m + 1 = i /\ (i + 1) - 1 = i /\ i \in 1 .. m + 1
  OBVIOUS
<1>2. s \in [1 .. m -> Seq(Token)] /\ t \in [1 .. m + 1 -> Seq(Token)]
  BY LeavesAndMeans
<1>3. (\A n \in 1 .. m : s[n] = t[n]) /\ t[m + 1] = Leaves(v, i)
  BY <1>1
<1> HIDE DEF s, t
<1>4. FlattenSeq(s) \in Seq(Token)
  BY <1>1, <1>2, FlattenIsJoined
<1>5. FlattenSeq(t) = FlattenSeq(s) \o t[m + 1]
  <2>1. m \in Nat /\ s \in [1 .. m -> Seq(Token)]
    BY <1>1, <1>2
  <2>2. t \in [1 .. m + 1 -> Seq(Token)]
    BY <1>2
  <2>3. \A n \in 1 .. m : s[n] = t[n]
    BY <1>3
  <2> HIDE DEF m
  <2> QED BY <2>1, <2>2, <2>3, FlattenMore
<1>6. [n \in 1 .. (i + 1) - 1 |-> Leaves(v, n)] = t
  BY <1>1 DEF t
<1> QED BY <1>3, <1>4, <1>5, <1>6 DEF s

\* It begins.
LEMMA ExpandingBegins ==
    ASSUME NEW v \in Seq(Token)
    PROVE  Expanding(v, 1, 0, <<>>)
<1> DEFINE s == [n \in 1 .. 1 - 1 |-> Leaves(v, n)]
<1>1. s \in [1 .. 0 -> Seq(Token)]
  OBVIOUS
<1> HIDE DEF s
<1>2. FlattenSeq(s) = <<>>
  BY <1>1, FlattenIsJoined
<1>3. 1 \in 1 .. Len(v) + 1 /\ 1 - 1 = 0 /\ ~(0 > 0)
  OBVIOUS
<1>4. ~InName(v, 0)
  BY InNameMore
<1> QED BY <1>2, <1>3, <1>4 DEF Expanding, s

\* It goes on by one character.
LEMMA ExpandingMore ==
    ASSUME NEW v \in Seq(Token), NEW i, NEW r, NEW b, Expanding(v, i, r, b), i <= Len(v)
    PROVE  /\ r = 0 /\ v[i] = Percent => Expanding(v, i + 1, i, b)
           /\ r = 0 /\ v[i] # Percent => Expanding(v, i + 1, 0, Append(b, v[i]))
           /\ r > 0 /\ v[i] = Percent => Expanding(v, i + 1, 0, b \o Known(SubSeq(v, r + 1, i - 1)))
           /\ r > 0 /\ v[i] # Percent => Expanding(v, i + 1, r, b)
<1>1. /\ i \in 1 .. Len(v) /\ r \in Nat /\ i \in Nat \ {0} /\ i - 1 \in Nat /\ (i - 1) + 1 = i
      /\ i + 1 \in 1 .. Len(v) + 1 /\ (i + 1) - 1 = i /\ v[i] \in Token
      /\ (r > 0 <=> InName(v, i - 1)) /\ (r > 0 => Behind(v, r, i - 1))
  BY DEF Expanding
<1> DEFINE made(k) == FlattenSeq([n \in 1 .. k - 1 |-> Leaves(v, n)])
<1>2. b = made(i) /\ b \in Seq(Token) /\ made(i + 1) = b \o Leaves(v, i)
  BY <1>1, LeavesUpTo DEF Expanding
<1>3. \A s, c : c = made(i + 1) /\ s \in Nat /\ (s > 0 <=> InName(v, i)) /\ (s > 0 => Behind(v, s, i))
                  => Expanding(v, i + 1, s, c)
  BY <1>1 DEF Expanding
<1> HIDE DEF made
<1>4. InName(v, i) <=> IF v[i] = Percent THEN ~InName(v, i - 1) ELSE InName(v, i - 1)
  BY <1>1, InNameMore
<1>5. i \in Closing(v) <=> v[i] = Percent /\ InName(v, i - 1)
  BY <1>1 DEF Closing
<1>6. b \o <<>> = b /\ b \o <<v[i]>> = Append(b, v[i])
  BY <1>1, <1>2, AppendIsConcat, ConcatEmptySeq
<1>7. CASE r = 0 /\ v[i] = Percent
  <2>1. InName(v, i) /\ i \notin Closing(v)
    BY <1>1, <1>4, <1>5, <1>7
  <2>2. Leaves(v, i) = <<>>
    BY <2>1 DEF Leaves
  <2>3. Behind(v, i, i) /\ i > 0 /\ i \in Nat
    BY <1>1, <1>7 DEF Behind
  <2> QED BY <1>2, <1>3, <1>6, <1>7, <2>1, <2>2, <2>3
<1>8. CASE r = 0 /\ v[i] # Percent
  <2>1. ~InName(v, i) /\ i \notin Closing(v)
    BY <1>1, <1>4, <1>5, <1>8
  <2>2. Leaves(v, i) = <<v[i]>>
    BY <2>1 DEF Leaves
  <2>3. Append(b, v[i]) = made(i + 1) /\ 0 \in Nat /\ ~(0 > 0)
    BY <1>2, <1>6, <2>2
  <2>4. Expanding(v, i + 1, 0, Append(b, v[i]))
    BY <1>3, <2>1, <2>3
  <2> QED BY <1>8, <2>4
<1>9. CASE r > 0 /\ v[i] = Percent
  <2>1. ~InName(v, i) /\ i \in Closing(v)
    BY <1>1, <1>4, <1>5, <1>9
  <2>2. NameBefore(v, i) = SubSeq(v, r + 1, i - 1)
    BY <1>1, <1>9, <2>1, NameFacts
  <2>3. Leaves(v, i) = Known(SubSeq(v, r + 1, i - 1))
    <3>1. Leaves(v, i) = LET name == NameBefore(v, i)
                         IN  IF name = <<>> THEN <<Percent>>
                             ELSE IF name = Variable THEN Expansion ELSE <<Percent>> \o Front(name)
      BY <2>1 DEF Leaves
    <3>2. Variable # <<>>
      BY PreprocessorAssumption
    <3> QED BY <2>2, <3>1, <3>2 DEF Known
  <2>4. b \o Known(SubSeq(v, r + 1, i - 1)) = made(i + 1) /\ 0 \in Nat /\ ~(0 > 0)
    BY <1>2, <2>3
  <2>5. Expanding(v, i + 1, 0, b \o Known(SubSeq(v, r + 1, i - 1)))
    BY <1>3, <2>1, <2>4
  <2> QED BY <1>1, <1>9, <2>5
<1>10. CASE r > 0 /\ v[i] # Percent
  <2>1. InName(v, i) /\ i \notin Closing(v)
    BY <1>1, <1>4, <1>5, <1>10
  <2>2. Leaves(v, i) = <<>>
    BY <2>1 DEF Leaves
  <2>3. Behind(v, r, i)
    BY <1>1, <1>10 DEF Behind
  <2>4. Expanding(v, i + 1, r, b)
    BY <1>1, <1>2, <1>3, <1>6, <1>10, <2>1, <2>2, <2>3
  <2> QED BY <1>1, <1>10, <2>4
<1> QED BY <1>1, <1>7, <1>8, <1>9, <1>10

\* At the end it has made what is left of the path.
LEMMA ExpandingEnds ==
    ASSUME NEW v \in Seq(Token), NEW i, NEW r, NEW b, Expanding(v, i, r, b), i > Len(v)
    PROVE  b = Left(v) /\ b \in Seq(Token)
<1>1. i - 1 = Len(v) /\ b = FlattenSeq([n \in 1 .. i - 1 |-> Leaves(v, n)])
  BY DEF Expanding
<1>2. b = Left(v)
  BY <1>1, LeftIs
<1> QED BY <1>2, LeftIsMeant

-----------------------------------------------------------------------------
(* The invariant of the imports *)

\* Of the directives d, the paths of the imports before the k-th are expanded in f.
Expanded(d, f, k) ==
    /\ f \in Seq(Directives) /\ Len(f) = Len(d)
    /\ \A n \in 1 .. Len(d) :
          /\ f[n].directive = d[n].directive
          /\ f[n].value = IF n < k /\ d[n].directive = ImportWord THEN Left(d[n].value) ELSE d[n].value

\* Some of them were read, in their order.
ReadOf(d, f, k, s) ==
    \E read \in SUBSET {n \in 1 .. k - 1 : d[n].directive = ImportWord} :
        s = FlattenSeq([n \in 1 .. k - 1 |-> IF n \in read THEN <<f[n].value>> ELSE <<>>])

AtImport(d, k, i, r, b) ==
    /\ k <= Len(d) /\ d[k].directive = ImportWord
    /\ Expanding(d[k].value, i, r, b)

ImportInv ==
    /\ stage \in {"scan", "value", "info"} => next = 1 /\ scripts = <<>>
    /\ stage \in {"import", "expand", "done"} =>
          \E d \in Seq(Directives), k \in Nat \ {0} :
              /\ d = MeantUpTo(LineCount) /\ next = k /\ k <= Len(d) + 1
              /\ Expanded(d, found, k) /\ ReadOf(d, found, k, scripts)
              /\ stage = "expand" => AtImport(d, k, pscan, pready, buffer)

LEMMA NothingRead ==
    ASSUME NEW d, NEW f
    PROVE  ReadOf(d, f, 1, <<>>)
<1> DEFINE s == [n \in 1 .. 1 - 1 |-> IF n \in {} THEN <<f[n].value>> ELSE <<>>]
<1>1. s \in [1 .. 0 -> Seq(Token)]
  OBVIOUS
<1> HIDE DEF s
<1>2. FlattenSeq(s) = <<>>
  BY <1>1, FlattenIsJoined
<1>3. <<>> = FlattenSeq([n \in 1 .. 1 - 1 |-> IF n \in {} THEN <<f[n].value>> ELSE <<>>])
  BY <1>2 DEF s
<1>4. {} \in SUBSET {n \in 1 .. 1 - 1 : d[n].directive = ImportWord}
  OBVIOUS
<1> QED BY <1>3, <1>4 DEF ReadOf

\* What was read stays, and one more may be.
LEMMA ReadMore ==
    ASSUME NEW d \in Seq(Directives), NEW f, NEW g, NEW k \in 1 .. Len(d), NEW s,
           f \in Seq(Directives), g \in Seq(Directives), Len(f) = Len(d), Len(g) = Len(d),
           \A n \in 1 .. k - 1 : g[n] = f[n],
           ReadOf(d, f, k, s)
    PROVE  /\ ReadOf(d, g, k + 1, s)
           /\ d[k].directive = ImportWord => ReadOf(d, g, k + 1, Append(s, g[k].value))
<1>1. PICK read \in SUBSET {n \in 1 .. k - 1 : d[n].directive = ImportWord} :
          s = FlattenSeq([n \in 1 .. k - 1 |-> IF n \in read THEN <<f[n].value>> ELSE <<>>])
  BY DEF ReadOf
<1> DEFINE m == k - 1
           Part(h, w, n) == IF n \in w THEN <<h[n].value>> ELSE <<>>
           a == [n \in 1 .. m |-> Part(f, read, n)]
           c(w) == [n \in 1 .. m + 1 |-> Part(g, w, n)]
<1>2. m \in Nat /\ m + 1 = k /\ (k + 1) - 1 = k /\ k \in 1 .. m + 1 /\ k \notin 1 .. m /\ Len(d) \in Nat
      /\ \A n \in 1 .. m + 1 : n \in 1 .. m \/ n = k
  OBVIOUS
<1>3. ASSUME NEW h \in Seq(Directives), Len(h) = Len(d), NEW w, NEW n \in 1 .. m + 1
      PROVE  Part(h, w, n) \in Seq(Seq(Token))
  <2>1. h[n] \in Directives
    BY <1>2, <1>3
  <2>2. h[n].value \in Seq(Token)
    BY <2>1 DEF Directives
  <2> QED BY <2>2
<1>4. a \in [1 .. m -> Seq(Seq(Token))] /\ \A w : c(w) \in [1 .. m + 1 -> Seq(Seq(Token))]
  <2>1. \A n \in 1 .. m : n \in 1 .. m + 1
    BY <1>2
  <2> HIDE DEF m, Part
  <2> QED BY <1>3, <2>1
<1>5. s = FlattenSeq(a)
  BY <1>1
<1>6. FlattenSeq(a) \in Seq(Seq(Token))
  <2> HIDE DEF a, m
  <2> QED BY <1>2, <1>4, FlattenIsJoined
<1>7. ASSUME NEW w, \A n \in 1 .. m : n \in w <=> n \in read
      PROVE  FlattenSeq(c(w)) = s \o Part(g, w, k)
  <2>1. \A n \in 1 .. m : a[n] = c(w)[n]
    BY <1>2, <1>7
  <2>2. c(w)[m + 1] = Part(g, w, k)
    BY <1>2
  <2>3. m \in Nat /\ a \in [1 .. m -> Seq(Seq(Token))]
    BY <1>2, <1>4
  <2> DEFINE t == c(w)
  <2>4. t \in [1 .. m + 1 -> Seq(Seq(Token))]
    BY <1>4
  <2>5. \A n \in 1 .. m : a[n] = t[n]
    BY <2>1
  <2> HIDE DEF a, m, t
  <2>6. FlattenSeq(t) = FlattenSeq(a) \o t[m + 1]
    BY <2>3, <2>4, <2>5, FlattenMore
  <2> QED BY <1>5, <2>2, <2>6 DEF t
<1>8. ASSUME NEW w \in SUBSET {n \in 1 .. k : d[n].directive = ImportWord}
      PROVE  ReadOf(d, g, k + 1, FlattenSeq(c(w)))
  <2>1. FlattenSeq(c(w)) = FlattenSeq([n \in 1 .. (k + 1) - 1 |-> IF n \in w THEN <<g[n].value>> ELSE <<>>])
    BY <1>2
  <2>2. w \in SUBSET {n \in 1 .. (k + 1) - 1 : d[n].directive = ImportWord}
    BY <1>2
  <2> HIDE DEF c
  <2> QED BY <2>1, <2>2 DEF ReadOf
<1>9. ReadOf(d, g, k + 1, s)
  <2>1. read \in SUBSET {n \in 1 .. k : d[n].directive = ImportWord} /\ k \notin read
    BY <1>2
  <2>2. FlattenSeq(c(read)) = s \o Part(g, read, k)
    BY <1>7
  <2>3. Part(g, read, k) = <<>>
    BY <2>1
  <2> HIDE DEF c, Part
  <2>4. s \o <<>> = s
    BY <1>5, <1>6, ConcatEmptySeq
  <2> QED BY <1>8, <2>1, <2>2, <2>3, <2>4
<1>10. ASSUME d[k].directive = ImportWord
       PROVE  ReadOf(d, g, k + 1, Append(s, g[k].value))
  <2> DEFINE w == read \cup {k}
  <2>1. w \in SUBSET {n \in 1 .. k : d[n].directive = ImportWord} /\ k \in w
        /\ \A n \in 1 .. m : n \in w <=> n \in read
    BY <1>2, <1>10
  <2> HIDE DEF w
  <2>2. FlattenSeq(c(w)) = s \o Part(g, w, k)
    BY <1>7, <2>1
  <2>3. Part(g, w, k) = <<g[k].value>>
    BY <2>1
  <2>4. g[k].value \in Seq(Token)
    <3>1. g[k] \in Directives
      OBVIOUS
    <3> QED BY <3>1 DEF Directives
  <2> HIDE DEF c, Part
  <2>5. s \o <<g[k].value>> = Append(s, g[k].value)
    BY <1>5, <1>6, <2>4, AppendIsConcat
  <2> QED BY <1>8, <2>1, <2>2, <2>3, <2>5
<1> QED BY <1>9, <1>10

-----------------------------------------------------------------------------
(* Its steps *)

LEMMA SameMeaning ==
    ASSUME script' = script
    PROVE  MeantUpTo(LineCount)' = MeantUpTo(LineCount)
BY DEF MeantUpTo, BlockLines, LineCount, Having, LineOf, At, MeantBy, Places, OnlySpace, ClosesAt,
       Quotes, Unescaped

LEMMA MeaningType ==
    ASSUME script \in Scripts
    PROVE  MeantUpTo(LineCount) \in Seq(Directives)
<1>1. LineCount \in Nat
  <2>1. Len(script) + 1 \in Nat \ {0}
    BY ScriptFacts
  <2> QED BY <2>1, LineOfFacts DEF LineCount
<1> QED BY <1>1, MeantUpToFacts

\* What a later step starts from.
LEMMA WithinImports ==
    ASSUME ImportInv, stage \in {"import", "expand", "done"}
    PROVE  \E d \in Seq(Directives), k \in Nat \ {0} :
              /\ d = MeantUpTo(LineCount) /\ next = k /\ k <= Len(d) + 1
              /\ Expanded(d, found, k) /\ ReadOf(d, found, k, scripts)
              /\ stage = "expand" => AtImport(d, k, pscan, pready, buffer)
BY DEF ImportInv

\* What it has to end in.
LEMMA ImportsAre ==
    ASSUME script' = script, NEW d \in Seq(Directives), NEW k \in Nat \ {0}, d = MeantUpTo(LineCount),
           next' = k, k <= Len(d) + 1, Expanded(d, found', k), ReadOf(d, found', k, scripts'),
           stage' \in {"import", "expand", "done"},
           stage' = "expand" => AtImport(d, k, pscan', pready', buffer')
    PROVE  ImportInv'
<1>1. d = MeantUpTo(LineCount)'
  BY SameMeaning
<1> QED BY <1>1 DEF ImportInv

LEMMA ScanSteps ==
    ASSUME ImportInv, ScanLine \/ ValueGoesOn \/ ValueEnds \/ ValueFails \/ ScanEnds
    PROVE  ImportInv'
<1>1. stage \in {"scan", "value", "info"} /\ stage' \in {"scan", "value", "info"} /\ next' = next
      /\ scripts' = scripts
  BY DEF ScanLine, ValueGoesOn, ValueEnds, ValueFails, ScanEnds
<1> QED BY <1>1 DEF ImportInv

LEMMA ReadInfoStep == ASSUME ScanInv, ImportInv, ReadInfo PROVE ImportInv'
<1>1. /\ stage = "info" /\ stage' = "import" /\ script' = script /\ found' = found /\ next' = next
      /\ scripts' = scripts
  BY DEF ReadInfo
<1>2. script \in Scripts /\ found = MeantUpTo(LineCount) /\ next = 1 /\ scripts = <<>>
  BY <1>1 DEF ScanInv, ImportInv
<1>3. PICK d \in Seq(Directives) : d = MeantUpTo(LineCount)
  BY <1>2, MeaningType
<1>4. Expanded(d, d, 1)
  <2>1. \A n \in 1 .. Len(d) : ~(n < 1)
    OBVIOUS
  <2> QED BY <2>1 DEF Expanded
<1>5. 1 \in Nat \ {0} /\ 1 <= Len(d) + 1
  OBVIOUS
<1>6. Expanded(d, found', 1) /\ ReadOf(d, found', 1, scripts')
  BY <1>1, <1>2, <1>3, <1>4, NothingRead
<1> QED BY <1>1, <1>2, <1>3, <1>5, <1>6, ImportsAre

LEMMA NextDirectiveStep == ASSUME ImportInv, NextDirective PROVE ImportInv'
<1>1. /\ stage = "import" /\ next <= Len(found) /\ script' = script /\ found' = found
      /\ scripts' = scripts
      /\ found[next].directive = ImportWord =>
             stage' = "expand" /\ pscan' = 1 /\ pready' = 0 /\ buffer' = <<>> /\ next' = next
      /\ found[next].directive # ImportWord => next' = next + 1 /\ stage' = "import"
  BY DEF NextDirective
<1>2. PICK d \in Seq(Directives), k \in Nat \ {0} :
          /\ d = MeantUpTo(LineCount) /\ next = k /\ k <= Len(d) + 1
          /\ Expanded(d, found, k) /\ ReadOf(d, found, k, scripts)
  BY <1>1, WithinImports
<1>3. /\ k \in 1 .. Len(d) /\ k <= Len(d) /\ d[k].directive = found[k].directive /\ d[k] \in Directives
      /\ found \in Seq(Directives) /\ Len(found) = Len(d)
  BY <1>1, <1>2 DEF Expanded
<1>4. CASE found[next].directive = ImportWord
  <2>1. d[k].value \in Seq(Token)
    BY <1>3 DEF Directives
  <2>2. AtImport(d, k, 1, 0, <<>>)
    BY <1>2, <1>3, <1>4, <2>1, ExpandingBegins DEF AtImport
  <2>3. Expanded(d, found', k) /\ ReadOf(d, found', k, scripts') /\ next' = k
        /\ AtImport(d, k, pscan', pready', buffer') /\ stage' = "expand"
    BY <1>1, <1>2, <1>4, <2>2
  <2> QED BY <1>1, <1>2, <2>3, ImportsAre
<1>5. CASE found[next].directive # ImportWord
  <2>1. Expanded(d, found, k + 1)
    <3>1. \A n \in 1 .. Len(d) : d[n].directive = ImportWord => (n < k <=> n < k + 1)
      BY <1>2, <1>3, <1>5
    <3> QED BY <1>2, <3>1 DEF Expanded
  <2>2. ReadOf(d, found, k + 1, scripts)
    <3> DEFINE f == found
    <3>1. f \in Seq(Directives) /\ Len(f) = Len(d) /\ ReadOf(d, f, k, scripts)
      BY <1>2, <1>3
    <3> HIDE DEF f
    <3>2. ReadOf(d, f, k + 1, scripts)
      BY <1>3, <3>1, ReadMore
    <3> QED BY <3>2 DEF f
  <2>3. k + 1 \in Nat \ {0} /\ k + 1 <= Len(d) + 1
    BY <1>3
  <2>4. next' = k + 1 /\ stage' = "import"
    BY <1>1, <1>2, <1>5
  <2>5. Expanded(d, found', k + 1) /\ ReadOf(d, found', k + 1, scripts')
    BY <1>1, <2>1, <2>2
  <2> QED BY <1>1, <1>2, <2>3, <2>4, <2>5, ImportsAre
<1> QED BY <1>4, <1>5

\* The path that is being expanded.
LEMMA WithinPath ==
    ASSUME ImportInv, stage = "expand"
    PROVE  \E d \in Seq(Directives), k \in Nat \ {0} :
              /\ d = MeantUpTo(LineCount) /\ next = k /\ k \in 1 .. Len(d)
              /\ Expanded(d, found, k) /\ ReadOf(d, found, k, scripts)
              /\ d[k].directive = ImportWord /\ d[k].value \in Seq(Token) /\ Path = d[k].value
              /\ Expanding(d[k].value, pscan, pready, buffer)
<1>1. PICK d \in Seq(Directives), k \in Nat \ {0} :
          /\ d = MeantUpTo(LineCount) /\ next = k
          /\ Expanded(d, found, k) /\ ReadOf(d, found, k, scripts)
          /\ AtImport(d, k, pscan, pready, buffer)
  BY WithinImports
<1>2. k \in 1 .. Len(d) /\ d[k].directive = ImportWord /\ Expanding(d[k].value, pscan, pready, buffer)
  BY <1>1 DEF AtImport
<1>3. d[k].value \in Seq(Token)
  <2>1. d[k] \in Directives
    BY <1>2
  <2> QED BY <2>1 DEF Directives
<1>4. found[k].value = d[k].value
  BY <1>1, <1>2 DEF Expanded
<1> QED BY <1>1, <1>2, <1>3, <1>4 DEF Path

LEMMA ExpandStep == ASSUME ImportInv, ExpandNormal \/ ExpandPercent PROVE ImportInv'
<1>1. /\ stage = "expand" /\ stage' = "expand" /\ pscan <= Len(Path) /\ pscan' = pscan + 1
      /\ script' = script /\ found' = found /\ next' = next /\ scripts' = scripts
  BY DEF ExpandNormal, ExpandPercent
<1>2. PICK d \in Seq(Directives), k \in Nat \ {0} :
          /\ d = MeantUpTo(LineCount) /\ next = k /\ k \in 1 .. Len(d)
          /\ Expanded(d, found, k) /\ ReadOf(d, found, k, scripts)
          /\ d[k].directive = ImportWord /\ d[k].value \in Seq(Token) /\ Path = d[k].value
          /\ Expanding(d[k].value, pscan, pready, buffer)
  BY <1>1, WithinPath
<1>3. PICK v \in Seq(Token) : v = d[k].value
  BY <1>2
<1>4. PICK i, r, b : i = pscan /\ r = pready /\ b = buffer
  OBVIOUS
<1>5. Expanding(v, i, r, b) /\ i <= Len(v) /\ Path = v /\ r \in Nat
  BY <1>1, <1>2, <1>3, <1>4 DEF Expanding
<1>6. /\ r = 0 /\ v[i] = Percent => Expanding(v, i + 1, i, b)
      /\ r = 0 /\ v[i] # Percent => Expanding(v, i + 1, 0, Append(b, v[i]))
      /\ r > 0 /\ v[i] = Percent => Expanding(v, i + 1, 0, b \o Known(SubSeq(v, r + 1, i - 1)))
      /\ r > 0 /\ v[i] # Percent => Expanding(v, i + 1, r, b)
  BY <1>5, ExpandingMore
<1>7. CASE ExpandNormal
  <2>1. /\ r = 0
        /\ IF v[i] = Percent THEN pready' = i /\ buffer' = b ELSE buffer' = Append(b, v[i]) /\ pready' = 0
    BY <1>4, <1>5, <1>7 DEF ExpandNormal
  <2>2. Expanding(v, i + 1, pready', buffer')
    BY <1>6, <2>1
  <2>3. AtImport(d, k, pscan', pready', buffer')
    BY <1>1, <1>2, <1>3, <1>4, <2>2 DEF AtImport
  <2>4. Expanded(d, found', k) /\ ReadOf(d, found', k, scripts') /\ next' = k /\ k <= Len(d) + 1
    BY <1>1, <1>2
  <2> QED BY <1>1, <1>2, <2>3, <2>4, ImportsAre
<1>8. CASE ExpandPercent
  <2>1. /\ r > 0
        /\ IF v[i] = Percent THEN pready' = 0 /\ buffer' = b \o Known(SubSeq(v, r + 1, i - 1))
           ELSE pready' = r /\ buffer' = b
    BY <1>4, <1>5, <1>8 DEF ExpandPercent
  <2>2. Expanding(v, i + 1, pready', buffer')
    BY <1>6, <2>1
  <2>3. AtImport(d, k, pscan', pready', buffer')
    BY <1>1, <1>2, <1>3, <1>4, <2>2 DEF AtImport
  <2>4. Expanded(d, found', k) /\ ReadOf(d, found', k, scripts') /\ next' = k /\ k <= Len(d) + 1
    BY <1>1, <1>2
  <2> QED BY <1>1, <1>2, <2>3, <2>4, ImportsAre
<1> QED BY <1>7, <1>8

LEMMA ReadImportStep == ASSUME ImportInv, ReadImport PROVE ImportInv'
<1>1. /\ stage = "expand" /\ stage' = "import" /\ pscan > Len(Path) /\ next' = next + 1
      /\ script' = script /\ found' = [found EXCEPT ![next].value = buffer]
      /\ scripts' \in {scripts, Append(scripts, buffer)}
  BY DEF ReadImport
<1>2. PICK d \in Seq(Directives), k \in Nat \ {0} :
          /\ d = MeantUpTo(LineCount) /\ next = k /\ k \in 1 .. Len(d)
          /\ Expanded(d, found, k) /\ ReadOf(d, found, k, scripts)
          /\ d[k].directive = ImportWord /\ d[k].value \in Seq(Token) /\ Path = d[k].value
          /\ Expanding(d[k].value, pscan, pready, buffer)
  BY <1>1, WithinPath
<1>3. PICK v \in Seq(Token) : v = d[k].value
  BY <1>2
<1> PICK i, r, b : i = pscan /\ r = pready /\ b = buffer
  OBVIOUS
<1>4. Expanding(v, i, r, b) /\ i > Len(v)
  BY <1>1, <1>2, <1>3
<1>5. b = Left(v) /\ b \in Seq(Token)
  BY <1>4, ExpandingEnds
<1>6. PICK f, g, s : f = found /\ s = scripts /\ g = [f EXCEPT ![k].value = b]
  OBVIOUS
<1>7. f \in Seq(Directives) /\ Len(f) = Len(d) /\ Expanded(d, f, k) /\ ReadOf(d, f, k, s)
  BY <1>2, <1>6 DEF Expanded
<1>8. /\ g \in Seq(Directives) /\ Len(g) = Len(d)
      /\ \A n \in 1 .. Len(d) : n # k => g[n] = f[n]
      /\ g[k].directive = f[k].directive /\ g[k].value = b
  <2>1. f[k] \in Directives
    BY <1>2, <1>7
  <2>2. PICK c : c = [f[k] EXCEPT !.value = b]
    OBVIOUS
  <2>3. c \in Directives /\ c.directive = f[k].directive /\ c.value = b
    BY <1>5, <2>1, <2>2 DEF Directives
  <2>4. g = [f EXCEPT ![k] = c]
    BY <1>6, <2>2
  <2> QED BY <1>2, <1>7, <2>3, <2>4
<1>9. Expanded(d, g, k + 1)
  <2>1. ASSUME NEW n \in 1 .. Len(d)
        PROVE  /\ g[n].directive = d[n].directive
               /\ g[n].value = IF n < k + 1 /\ d[n].directive = ImportWord THEN Left(d[n].value) ELSE d[n].value
    <3>1. CASE n = k
      BY <1>2, <1>3, <1>5, <1>7, <1>8, <3>1 DEF Expanded
    <3>2. CASE n # k
      <4>1. n < k + 1 <=> n < k
        BY <1>2, <3>2
      <4> QED BY <1>7, <1>8, <3>2, <4>1 DEF Expanded
    <3> QED BY <3>1, <3>2
  <2> QED BY <1>8, <2>1 DEF Expanded
<1>10. ReadOf(d, g, k + 1, s) /\ ReadOf(d, g, k + 1, Append(s, b))
  <2>1. \A n \in 1 .. k - 1 : g[n] = f[n]
    BY <1>2, <1>8
  <2>2. /\ ReadOf(d, g, k + 1, s)
        /\ d[k].directive = ImportWord => ReadOf(d, g, k + 1, Append(s, g[k].value))
    <3>1. k \in 1 .. Len(d)
      BY <1>2
    <3> QED BY ONLY <1>7, <1>8, <2>1, <3>1, d \in Seq(Directives), ReadMore
  <2> QED BY <1>2, <1>8, <2>2
<1>11. found' = g /\ scripts' \in {s, Append(s, b)} /\ next' = k + 1
  BY <1>1, <1>2, <1>3, <1>6
<1>12. Expanded(d, found', k + 1) /\ ReadOf(d, found', k + 1, scripts')
  BY <1>9, <1>10, <1>11
<1>13. k + 1 \in Nat \ {0} /\ k + 1 <= Len(d) + 1
  BY <1>2
<1> QED BY <1>1, <1>2, <1>11, <1>12, <1>13, ImportsAre

LEMMA ImportEndsStep == ASSUME ImportInv, ImportEnds PROVE ImportInv'
<1>1. /\ stage = "import" /\ stage' = "done" /\ script' = script /\ found' = found /\ next' = next
      /\ scripts' = scripts
  BY DEF ImportEnds
<1>2. PICK d \in Seq(Directives), k \in Nat \ {0} :
          /\ d = MeantUpTo(LineCount) /\ next = k /\ k <= Len(d) + 1
          /\ Expanded(d, found, k) /\ ReadOf(d, found, k, scripts)
  BY <1>1, WithinImports
<1>3. Expanded(d, found', k) /\ ReadOf(d, found', k, scripts') /\ next' = k
  BY <1>1, <1>2
<1> QED BY <1>1, <1>2, <1>3, ImportsAre

LEMMA NoImportStep == ASSUME ImportInv, UNCHANGED preprocessorVars PROVE ImportInv'
<1>1. /\ script' = script /\ stage' = stage /\ found' = found /\ next' = next /\ scripts' = scripts
      /\ pscan' = pscan /\ pready' = pready /\ buffer' = buffer
  BY DEF preprocessorVars, expandVars
<1>2. MeantUpTo(LineCount)' = MeantUpTo(LineCount)
  BY <1>1, SameMeaning
<1>3. CASE stage \in {"import", "expand", "done"}
  <2>1. PICK d \in Seq(Directives), k \in Nat \ {0} :
            /\ d = MeantUpTo(LineCount) /\ next = k /\ k <= Len(d) + 1
            /\ Expanded(d, found, k) /\ ReadOf(d, found, k, scripts)
            /\ stage = "expand" => AtImport(d, k, pscan, pready, buffer)
    BY <1>3, WithinImports
  <2>2. Expanded(d, found', k) /\ ReadOf(d, found', k, scripts') /\ next' = k
        /\ (stage' = "expand" => AtImport(d, k, pscan', pready', buffer'))
    BY <1>1, <2>1
  <2> QED BY <1>1, <1>3, <2>1, <2>2, ImportsAre
<1>4. CASE stage \notin {"import", "expand", "done"}
  BY <1>1, <1>4 DEF ImportInv
<1> QED BY <1>3, <1>4

LEMMA ImportStep == ASSUME ScanInv, ImportInv, [PreprocessorNext]_preprocessorVars PROVE ImportInv'
BY ScanSteps, ReadInfoStep, NextDirectiveStep, ExpandStep, ReadImportStep, ImportEndsStep, NoImportStep
   DEF PreprocessorNext

LEMMA ImportInitially == PreprocessorInit => ImportInv
BY DEF PreprocessorInit, ImportInv

\* What it says of the imports is what the property says.
LEMMA ImportsMean == ImportInv => PathsAreMeant
<1> SUFFICES ASSUME ImportInv, stage \in {"import", "expand", "done"}
             PROVE  PathsAreMeant
  BY DEF PathsAreMeant
<1>1. PICK d \in Seq(Directives), k \in Nat \ {0} :
          /\ d = MeantUpTo(LineCount) /\ next = k
          /\ Expanded(d, found, k) /\ ReadOf(d, found, k, scripts)
  BY WithinImports
<1>2. MeantSoFar = d
  BY <1>1 DEF MeantSoFar
<1> DEFINE imports == {n \in 1 .. next - 1 : d[n].directive = ImportWord}
<1>3. ASSUME NEW n \in 1 .. Len(found)
      PROVE  /\ found[n].directive = d[n].directive
             /\ found[n].value = IF n \in imports THEN Left(d[n].value) ELSE d[n].value
             /\ n \in imports => (found[n].value = Meant(d[n].value) <=> AllKnown(d[n].value))
  <2>1. n \in 1 .. Len(d)
    BY <1>1, <1>3 DEF Expanded
  <2>2. n \in imports <=> n < k /\ d[n].directive = ImportWord
    BY <1>1, <2>1
  <2>3. d[n].value \in Seq(Token)
    <3>1. d[n] \in Directives
      BY <2>1
    <3> QED BY <3>1 DEF Directives
  <2>4. Left(d[n].value) = Meant(d[n].value) <=> AllKnown(d[n].value)
    BY <2>3, LeftIsMeant
  <2>5. /\ found[n].directive = d[n].directive
        /\ found[n].value = IF n \in imports THEN Left(d[n].value) ELSE d[n].value
    BY <1>1, <2>1, <2>2 DEF Expanded
  <2> HIDE DEF imports
  <2> QED BY <2>4, <2>5
<1>4. Len(found) = Len(d)
  BY <1>1 DEF Expanded
<1>5. \E read \in SUBSET imports :
          scripts = FlattenSeq([n \in 1 .. next - 1 |-> IF n \in read THEN <<found[n].value>> ELSE <<>>])
  BY <1>1 DEF ReadOf
<1> QED BY <1>2, <1>3, <1>4, <1>5 DEF PathsAreMeant

\* The paths of the imports are what is left of what they say, which is all of it exactly
\* when their percent signs are closed and their names known; the scripts read are some of
\* them in their order (expand_var, process_import).
THEOREM ImportsExpanded == PreprocessorSpec => []PathsAreMeant
<1>1. PreprocessorInit => ScanInv /\ ImportInv
  BY ScanInitially, ImportInitially
<1>2. ScanInv /\ ImportInv /\ [PreprocessorNext]_preprocessorVars => (ScanInv /\ ImportInv)'
  BY ScanStep, ImportStep
<1>3. ScanInv /\ ImportInv => PathsAreMeant
  BY ImportsMean
<1> QED BY <1>1, <1>2, <1>3, PTL DEF PreprocessorSpec

=============================================================================
