--------------------------- MODULE PanelManagerProofs ---------------------------
(***************************************************************************)
(* Proofs about PanelManager for every set of panels, of data and every    *)
(* bound.  The counters of the callback data agree with the deliveries to  *)
(* come because every loop on the stack stays inside the list it counted,  *)
(* unless a WM_DESTROY is handled above it: then its data is astray.       *)
(***************************************************************************)
EXTENDS PanelManager, SequenceFacts, FiniteSetTheorems, TLAPS

\* TypeOK, but for the sign of the counters, which TypeCorrect adds at the end.
Types ==
    /\ hwnds \in Seq(Panel) /\ windows \subseteq Panel
    /\ stack \in Seq(Call) /\ Len(stack) <= MaxDepth
    /\ posted \subseteq [to : Panel, data : Data]
    /\ IsFiniteSet(posted) /\ Cardinality(posted) <= QueueLimit
    /\ live \subseteq Data /\ refs \in [Data -> Int] /\ lost \in [Data -> Nat]
    /\ astray \subseteq Data \cup {NoData}

\* A loop ends where the list ended when it began, and the list has not shrunk, but
\* under data that is gone astray; the other calls have a panel.
Fits(c, length, gone) ==
    IF c.does = "send" THEN c.next >= 1 /\ (c.data \notin gone => c.last <= length)
    ELSE /\ c.panel \in Panel /\ c.next = 0 /\ c.last = 0
         /\ c.does # "handle" => c.data = NoData

CallsFit == \A k \in DOMAIN stack : Fits(stack[k], Len(hwnds), astray)

NoDestroyOverSend ==
    \A j, k \in DOMAIN stack :
      j < k /\ stack[j].does = "send" /\ stack[j].data \notin astray
        => stack[k].does # "destroy"

IInv == /\ Types /\ ListIsExact /\ CallsFit /\ NoDestroyOverSend
        /\ RefsMatchDeliveries /\ DataOutlivesUse

-----------------------------------------------------------------------------
(* The stack *)

\* What is listed stays where it is.
Grows ==
    /\ hwnds' \in Seq(Panel)
    /\ Len(hwnds) <= Len(hwnds')
    /\ \A i \in 1 .. Len(hwnds) : hwnds'[i] = hwnds[i]

LEMMA Domains ==
    ASSUME Types
    PROVE  /\ Len(stack) \in Nat /\ DOMAIN stack = 1 .. Len(stack)
           /\ Len(hwnds) \in Nat /\ DOMAIN hwnds = 1 .. Len(hwnds)
           /\ \A k \in 1 .. Len(stack) : stack[k] \in Call
           /\ \A i \in 1 .. Len(hwnds) : hwnds[i] \in Panel
BY DEF Types

\* The turns left are those of calls whose data is d, inside the list.
LEMMA TurnsOf ==
    ASSUME Types, NEW d
    PROVE  \A t : t \in Turns(d) <=>
             \E k \in 1 .. Len(stack), i \in 1 .. Len(hwnds) :
               t = <<k, i>> /\ LeftToDo(k, i, d)
BY Domains DEF Turns

LEMMA Finite ==
    ASSUME Types, NEW d
    PROVE  /\ IsFiniteSet(Pending(d)) /\ Cardinality(Pending(d)) \in Nat
           /\ IsFiniteSet(Handling(d)) /\ Cardinality(Handling(d)) \in Nat
           /\ IsFiniteSet(Turns(d)) /\ Cardinality(Turns(d)) \in Nat
<1>1. IsFiniteSet(DOMAIN stack) /\ IsFiniteSet(DOMAIN hwnds)
  BY Domains, FS_Interval
<1>2. IsFiniteSet((DOMAIN stack) \X (DOMAIN hwnds))
  BY <1>1, FS_Product
<1>3. Pending(d) \in SUBSET posted /\ IsFiniteSet(posted)
  BY DEF Pending, Types
<1>4. Handling(d) \in SUBSET (DOMAIN stack)
  BY DEF Handling
<1>5. Turns(d) \in SUBSET ((DOMAIN stack) \X (DOMAIN hwnds))
  BY DEF Turns
<1>. QED BY <1>1, <1>2, <1>3, <1>4, <1>5, FS_Subset, FS_CardinalityType

\* A call is pushed while the list at most grows.
LEMMA AfterPush ==
    ASSUME Types, CallsFit, NoDestroyOverSend, Room, Grows, astray \subseteq astray',
           NEW c \in Call, Fits(c, Len(hwnds'), astray'), Push(c),
           c.does = "destroy" => Sending \subseteq astray'
    PROVE  /\ stack' \in Seq(Call) /\ Len(stack') <= MaxDepth
           /\ CallsFit' /\ NoDestroyOverSend'
           /\ \A d : /\ Len(stack) + 1 \notin Handling(d)
                     /\ Handling(d)' = IF c.data = d /\ c.does # "send"
                                       THEN Handling(d) \cup {Len(stack) + 1} ELSE Handling(d)
           /\ \A d : d \notin astray' /\ (c.data # d \/ c.does # "send")
                    => Turns(d)' = Turns(d)
<1>1. /\ stack' \in Seq(Call) /\ Len(stack') = Len(stack) + 1
      /\ DOMAIN stack' = 1 .. Len(stack) + 1
      /\ \A k \in 1 .. Len(stack) : stack'[k] = stack[k]
      /\ stack'[Len(stack) + 1] = c
  BY PushShape DEF Push, Types
<1>2. Len(stack') <= MaxDepth
  BY <1>1, Domains, PanelAssumption DEF Room
<1>3. CallsFit'
  <2>1. ASSUME NEW k \in 1 .. Len(stack)
        PROVE  Fits(stack'[k], Len(hwnds'), astray')
    <3>1. stack'[k] = stack[k] /\ stack[k] \in Call /\ Fits(stack[k], Len(hwnds), astray)
      BY <1>1, Domains DEF CallsFit
    <3>2. Len(hwnds) \in Nat /\ Len(hwnds') \in Nat /\ Len(hwnds) <= Len(hwnds')
      BY Domains DEF Grows
    <3>. QED BY <3>1, <3>2 DEF Fits, Call
  <2>. QED BY <1>1, <2>1, Domains DEF CallsFit
<1>4. NoDestroyOverSend'
  <2>1. ASSUME NEW j \in DOMAIN stack', NEW k \in DOMAIN stack', j < k,
               stack'[j].does = "send", stack'[j].data \notin astray'
        PROVE  stack'[k].does # "destroy"
    <3>1. j \in DOMAIN stack /\ stack'[j] = stack[j] /\ stack[j].data \notin astray
      BY <1>1, <2>1, Domains
    <3>2. CASE k \in DOMAIN stack
      <4>1. stack'[k] = stack[k]
        BY <1>1, <3>2, Domains
      <4>. QED BY <2>1, <3>1, <3>2, <4>1 DEF NoDestroyOverSend
    <3>3. CASE k = Len(stack) + 1
      <4>1. stack[j].data \in Sending
        BY <2>1, <3>1 DEF Sending
      <4>. QED BY <1>1, <2>1, <3>1, <3>3, <4>1
    <3>. QED BY <1>1, <3>2, <3>3, Domains
  <2>. QED BY <2>1 DEF NoDestroyOverSend
<1>5. ASSUME NEW d
      PROVE  /\ Len(stack) + 1 \notin Handling(d)
             /\ Handling(d)' = IF c.data = d /\ c.does # "send"
                               THEN Handling(d) \cup {Len(stack) + 1} ELSE Handling(d)
  BY <1>1, Domains DEF Handling
<1>6. ASSUME NEW d, d \notin astray', c.data # d \/ c.does # "send"
      PROVE  Turns(d)' = Turns(d)
  <2>1. /\ Len(hwnds') \in Nat /\ DOMAIN hwnds' = 1 .. Len(hwnds')
        /\ Len(hwnds) <= Len(hwnds')
    BY DEF Grows
  <2>2. ASSUME NEW k \in 1 .. Len(stack) + 1, NEW i \in 1 .. Len(hwnds'),
               stack'[k].data = d, i \in stack'[k].next .. stack'[k].last
        PROVE  k <= Len(stack) /\ i <= Len(hwnds)
    <3>1. k # Len(stack) + 1
      BY <1>1, <1>6, <2>1, <2>2 DEF Fits
    <3>2. k \in 1 .. Len(stack) /\ stack'[k] = stack[k]
      BY <1>1, <3>1, Domains
    <3>3. /\ Fits(stack[k], Len(hwnds), astray) /\ stack[k] \in Call
          /\ stack[k].data \notin astray
      BY <1>6, <2>2, <3>2, Domains DEF CallsFit
    <3>4. i <= Len(hwnds)
      BY <2>2, <3>2, <3>3, Domains DEF Fits, Call
    <3>. QED BY <3>2, <3>4, Domains
  <2>3. ASSUME NEW k \in 1 .. Len(stack), NEW i \in 1 .. Len(hwnds)
        PROVE  stack'[k] = stack[k] /\ hwnds'[i] = hwnds[i]
    BY <1>1 DEF Grows
  <2>4. Turns(d)' = {t \in (DOMAIN stack') \X (DOMAIN hwnds') :
                       /\ stack'[t[1]].data = d
                       /\ t[2] \in stack'[t[1]].next .. stack'[t[1]].last
                       /\ hwnds'[t[2]] # stack'[t[1]].panel}
    BY DEF Turns, LeftToDo
  <2>5. Turns(d) = {t \in (DOMAIN stack) \X (DOMAIN hwnds) :
                      /\ stack[t[1]].data = d
                      /\ t[2] \in stack[t[1]].next .. stack[t[1]].last
                      /\ hwnds[t[2]] # stack[t[1]].panel}
    BY DEF Turns, LeftToDo
  <2>6. ASSUME NEW t
        PROVE  t \in Turns(d)' => t \in Turns(d)
    BY <1>1, <2>1, <2>2, <2>3, <2>4, <2>5, Domains
  <2>7. ASSUME NEW t
        PROVE  t \in Turns(d) => t \in Turns(d)'
    BY <1>1, <2>1, <2>3, <2>4, <2>5, Domains
  <2>. QED BY <2>6, <2>7
<1>. QED BY <1>1, <1>2, <1>3, <1>4, <1>5, <1>6

\* The last call returns; if the list shrinks all loops on the stack are astray.
LEMMA AfterPop ==
    ASSUME Types, CallsFit, NoDestroyOverSend, stack # <<>>, stack' = Front(stack),
           hwnds' \in Seq(Panel), Grows \/ Sending \subseteq astray, UNCHANGED astray,
           Top.does # "send" \/ ~Unfinished
    PROVE  /\ stack' \in Seq(Call) /\ Len(stack') <= MaxDepth
           /\ CallsFit' /\ NoDestroyOverSend'
           /\ \A d : Handling(d)' = Handling(d) \ {Len(stack)}
           /\ \A d : d \notin astray => Turns(d)' = Turns(d)
<1>1. /\ stack' \in Seq(Call) /\ Len(stack) \in Nat \ {0} /\ Len(stack') = Len(stack) - 1
      /\ DOMAIN stack' = 1 .. Len(stack) - 1
      /\ \A k \in 1 .. Len(stack) - 1 : stack'[k] = stack[k]
  BY PopShape DEF Types
<1>2. Len(stack') <= MaxDepth
  BY <1>1, PanelAssumption DEF Types
<1>3. /\ Len(hwnds) \in Nat /\ Len(hwnds') \in Nat
      /\ DOMAIN hwnds = 1 .. Len(hwnds) /\ DOMAIN hwnds' = 1 .. Len(hwnds')
  BY DEF Types
<1>4. ASSUME NEW k \in 1 .. Len(stack)
      PROVE  /\ stack[k] \in Call /\ Fits(stack[k], Len(hwnds), astray)
             /\ Fits(stack[k], Len(hwnds'), astray')
             /\ stack[k].does = "send" => stack[k].data \in Sending
  <2>1. /\ stack[k] \in Call /\ Fits(stack[k], Len(hwnds), astray)
        /\ stack[k].does = "send" => stack[k].data \in Sending
    BY Domains DEF CallsFit, Sending
  <2>2. CASE Grows
    BY <1>3, <2>1, <2>2 DEF Fits, Grows, Call
  <2>3. CASE Sending \subseteq astray
    BY <2>1, <2>3 DEF Fits
  <2>. QED BY <2>1, <2>2, <2>3
<1>5. CallsFit'
  BY <1>1, <1>4 DEF CallsFit
<1>6. NoDestroyOverSend'
  BY SMTT(30), <1>1, Domains DEF NoDestroyOverSend
<1>7. ASSUME NEW d
      PROVE  Handling(d)' = Handling(d) \ {Len(stack)}
  BY <1>1, Domains DEF Handling
<1>8. ASSUME NEW d, d \notin astray
      PROVE  Turns(d)' = Turns(d)
  <2>1. Turns(d)' = {t \in (DOMAIN stack') \X (DOMAIN hwnds') :
                       /\ stack'[t[1]].data = d
                       /\ t[2] \in stack'[t[1]].next .. stack'[t[1]].last
                       /\ hwnds'[t[2]] # stack'[t[1]].panel}
    BY DEF Turns, LeftToDo
  <2>2. Turns(d) = {t \in (DOMAIN stack) \X (DOMAIN hwnds) :
                      /\ stack[t[1]].data = d
                      /\ t[2] \in stack[t[1]].next .. stack[t[1]].last
                      /\ hwnds[t[2]] # stack[t[1]].panel}
    BY DEF Turns, LeftToDo
  <2>3. ASSUME NEW k \in 1 .. Len(stack), NEW i \in stack[k].next .. stack[k].last, i # 0,
               stack[k].data = d
        PROVE  k \in 1 .. Len(stack) - 1 /\ i \in 1 .. Len(hwnds) /\ Grows
    <3>1. stack[k].does = "send"
      BY <1>4, <2>3 DEF Fits
    <3>2. k # Len(stack)
      BY <1>4, <2>3, <3>1 DEF Top, Unfinished, Call
    <3>3. Grows
      BY <1>4, <1>8, <2>3, <3>1
    <3>4. i \in 1 .. Len(hwnds)
      BY <1>3, <1>4, <1>8, <2>3, <3>1 DEF Fits, Call
    <3>. QED BY <1>1, <3>2, <3>3, <3>4
  <2>4. ASSUME NEW t
        PROVE  t \in Turns(d)' => t \in Turns(d)
    <3>1. SUFFICES ASSUME t \in Turns(d)'
                   PROVE  t \in Turns(d)
      OBVIOUS
    <3>2. /\ t[1] \in 1 .. Len(stack) - 1 /\ t[1] \in 1 .. Len(stack)
          /\ t[2] \in 1 .. Len(hwnds') /\ t[2] # 0
          /\ stack'[t[1]] = stack[t[1]]
      BY <1>1, <1>3, <2>1, <3>1
    <3>3. Grows /\ t[2] \in 1 .. Len(hwnds)
      BY <2>1, <2>3, <3>1, <3>2
    <3>. QED BY <1>1, <1>3, <2>1, <2>2, <3>1, <3>2, <3>3, Domains DEF Grows
  <2>5. ASSUME NEW t
        PROVE  t \in Turns(d) => t \in Turns(d)'
    <3>1. SUFFICES ASSUME t \in Turns(d)
                   PROVE  t \in Turns(d)'
      OBVIOUS
    <3>2. t[1] \in 1 .. Len(stack) /\ t[2] \in 1 .. Len(hwnds) /\ t[2] # 0
      BY <1>3, <2>2, <3>1, Domains
    <3>3. t[1] \in 1 .. Len(stack) - 1 /\ Grows
      BY <2>2, <2>3, <3>1, <3>2
    <3>4. /\ stack'[t[1]] = stack[t[1]] /\ hwnds'[t[2]] = hwnds[t[2]]
          /\ t[2] \in 1 .. Len(hwnds')
      BY <1>1, <1>3, <3>2, <3>3 DEF Grows
    <3>5. t \in (DOMAIN stack') \X (DOMAIN hwnds')
      BY <1>1, <1>3, <2>2, <3>1, <3>3, <3>4
    <3>. QED BY <2>1, <2>2, <3>1, <3>4, <3>5
  <2>. QED BY <2>4, <2>5
<1>. QED BY <1>1, <1>2, <1>5, <1>6, <1>7, <1>8

\* A loop makes a turn: it may push the handler that SendMessage calls.
LEMMA AfterTurn ==
    ASSUME Types, CallsFit, NoDestroyOverSend, UNCHANGED <<hwnds, astray>>,
           stack # <<>>, Top.does = "send", Unfinished,
           NEW p \in Panel \cup {NoPanel}, NEW calls \in {0, 1},
           calls = 1 => Room /\ p \in Panel,
           stack' = IF calls = 1 THEN Append(Advanced, Handler(p, Top.data)) ELSE Advanced
    PROVE  /\ stack' \in Seq(Call) /\ Len(stack') <= MaxDepth
           /\ CallsFit' /\ NoDestroyOverSend'
           /\ \A d : /\ Len(stack) + 1 \notin Handling(d)
                     /\ d # NoData =>
                        Handling(d)' = IF calls = 1 /\ Top.data = d
                                       THEN Handling(d) \cup {Len(stack) + 1} ELSE Handling(d)
           /\ \A d : Turns(d)' = Turns(d) \ {<<Len(stack), Top.next>>}
<1>. DEFINE n == Len(stack)
            top == [Top EXCEPT !.next = @ + 1]
            sent == Handler(p, Top.data)
<1>. HIDE DEF n
<1>1. /\ n \in Nat \ {0} /\ DOMAIN stack = 1 .. n
      /\ \A k \in 1 .. n : stack[k] \in Call /\ Fits(stack[k], Len(hwnds), astray)
  BY Domains DEF CallsFit, Types, n
<1>2. Top \in Call /\ Top = stack[n]
  BY <1>1 DEF Top, n
<1>3. top \in Call /\ sent \in Call
  BY <1>2 DEF Call, Handler
<1>4. /\ top.does = "send" /\ top.panel = Top.panel /\ top.data = Top.data
      /\ top.next = Top.next + 1 /\ top.last = Top.last
  BY <1>2 DEF Call
<1>5. /\ sent.does = "handle"
      /\ sent.panel = p /\ sent.data = Top.data /\ sent.next = 0 /\ sent.last = 0
  BY DEF Handler
<1>6. /\ Advanced \in Seq(Call) /\ Len(Advanced) = n /\ DOMAIN Advanced = 1 .. n
      /\ \A k \in 1 .. n - 1 : Advanced[k] = stack[k]
      /\ Advanced[n] = top
  <2>1. Advanced = ReplaceAt(stack, Len(stack), top)
    BY DEF Advanced
  <2>. HIDE DEF top
  <2>2. stack \in Seq(Call)
    BY DEF Types
  <2>. DEFINE r == ReplaceAt(stack, Len(stack), top)
  <2>3. /\ r \in Seq(Call) /\ Len(r) = Len(stack) /\ DOMAIN r = 1 .. Len(stack)
        /\ \A k \in 1 .. Len(stack) - 1 : r[k] = stack[k]
        /\ r[Len(stack)] = top
    <3>. HIDE DEF n
    <3>. QED BY <1>3, <2>2, ReplaceShape
  <2>. HIDE DEF r
  <2>4. Advanced = r
    BY <2>1 DEF r
  <2>. QED BY <2>3, <2>4 DEF n
<1>. HIDE DEF top, sent
<1>7. /\ stack' \in Seq(Call) /\ Len(stack') <= MaxDepth
      /\ DOMAIN stack' = 1 .. n + calls
      /\ \A k \in 1 .. n - 1 : stack'[k] = stack[k]
      /\ stack'[n] = top
      /\ calls = 1 => stack'[n + 1] = sent
  <2>1. CASE calls = 1
    <3>1. stack' = Append(Advanced, sent)
      BY <2>1 DEF sent
    <3>2. n < MaxDepth /\ MaxDepth \in Nat
      BY <2>1, PanelAssumption DEF Room, n
    <3>. QED BY <1>1, <1>3, <1>6, <2>1, <3>1, <3>2, PushShape
  <2>2. CASE calls = 0
    <3>1. stack' = Advanced /\ n <= MaxDepth
      BY <2>2 DEF Types, n
    <3>. QED BY <1>1, <1>6, <2>2, <3>1
  <2>. QED BY <2>1, <2>2
<1>9. Len(hwnds) \in Nat
  BY DEF Types
<1>10. CallsFit'
  <2>1. Fits(top, Len(hwnds), astray)
    BY <1>1, <1>2, <1>4, <1>9 DEF Fits, Call
  <2>2. calls = 1 => Fits(sent, Len(hwnds), astray)
    BY <1>5 DEF Fits
  <2>3. ASSUME NEW k \in DOMAIN stack'
        PROVE  Fits(stack'[k], Len(hwnds), astray)
    <3>1. k \in 1 .. n - 1 \/ k = n \/ (calls = 1 /\ k = n + 1)
      BY <1>1, <1>7
    <3>. QED BY <1>1, <1>7, <2>1, <2>2, <3>1
  <2>. QED BY <2>3 DEF CallsFit
<1>11. NoDestroyOverSend'
  <2>1. ASSUME NEW j \in DOMAIN stack', NEW k \in DOMAIN stack', j < k,
               stack'[j].does = "send", stack'[j].data \notin astray
        PROVE  stack'[k].does # "destroy"
    <3>1. CASE k \in 1 .. n - 1
      <4>1. /\ j \in 1 .. n /\ k \in 1 .. n /\ stack'[k] = stack[k]
            /\ stack[j].does = "send" /\ stack[j].data \notin astray
        BY <1>1, <1>7, <2>1, <3>1
      <4>. QED BY <1>1, <2>1, <4>1 DEF NoDestroyOverSend
    <3>2. CASE k = n
      BY <1>4, <1>7, <3>2
    <3>3. CASE calls = 1 /\ k = n + 1
      BY <1>5, <1>7, <3>3
    <3>. QED BY <1>1, <1>7, <3>1, <3>2, <3>3
  <2>. QED BY <2>1 DEF NoDestroyOverSend
<1>12. ASSUME NEW d
       PROVE  /\ n + 1 \notin Handling(d)
              /\ d # NoData =>
                   Handling(d)' = IF calls = 1 /\ Top.data = d
                                  THEN Handling(d) \cup {n + 1} ELSE Handling(d)
  <2>1. n + 1 \notin Handling(d)
    BY <1>1 DEF Handling
  <2>2. Handling(d) = {k \in 1 .. n - 1 : stack[k].data = d /\ stack[k].does # "send"}
    BY <1>1, <1>2 DEF Handling
  <2>3. Handling(d)' = {k \in DOMAIN stack' : stack'[k].data = d /\ stack'[k].does # "send"}
    BY DEF Handling
  <2>4. ASSUME NEW k \in DOMAIN stack', stack'[k].data = d, stack'[k].does # "send"
        PROVE  k \in Handling(d) \/ (calls = 1 /\ k = n + 1 /\ Top.data = d)
    <3>1. k \in 1 .. n - 1 \/ k = n \/ (calls = 1 /\ k = n + 1)
      BY <1>1, <1>7
    <3>. QED BY <1>4, <1>5, <1>7, <2>2, <2>4, <3>1
  <2>5. ASSUME NEW k \in Handling(d)
        PROVE  k \in Handling(d)'
    <3>1. k \in 1 .. n - 1 /\ k \in DOMAIN stack' /\ stack'[k] = stack[k]
      BY <1>1, <1>7, <2>2
    <3>. QED BY <2>2, <2>3, <3>1
  <2>6. ASSUME d # NoData, calls = 1, Top.data = d
        PROVE  n + 1 \in Handling(d)'
    BY <1>1, <1>5, <1>7, <2>3, <2>6
  <2>. QED BY <2>1, <2>3, <2>4, <2>5, <2>6
<1>13. ASSUME NEW d
       PROVE  Turns(d)' = Turns(d) \ {<<n, Top.next>>}
  <2>1. Turns(d)' = {t \in (DOMAIN stack') \X (DOMAIN hwnds) :
                       /\ stack'[t[1]].data = d
                       /\ t[2] \in stack'[t[1]].next .. stack'[t[1]].last
                       /\ hwnds[t[2]] # stack'[t[1]].panel}
    BY DEF Turns, LeftToDo
  <2>2. Turns(d) = {t \in (DOMAIN stack) \X (DOMAIN hwnds) :
                      /\ stack[t[1]].data = d
                      /\ t[2] \in stack[t[1]].next .. stack[t[1]].last
                      /\ hwnds[t[2]] # stack[t[1]].panel}
    BY DEF Turns, LeftToDo
  <2>3. ASSUME NEW k \in 1 .. n, NEW i \in DOMAIN hwnds
        PROVE  i \in stack'[k].next .. stack'[k].last <=>
                 i \in stack[k].next .. stack[k].last /\ ~(k = n /\ i = Top.next)
    <3>1. CASE k = n
      BY SMTT(30), <1>1, <1>2, <1>4, <1>7, <1>9, <3>1, Domains DEF Call
    <3>2. CASE k # n
      BY <1>1, <1>7, <3>2
    <3>. QED BY <3>1, <3>2
  <2>4. ASSUME NEW k \in 1 .. n
        PROVE  stack'[k].data = stack[k].data /\ stack'[k].panel = stack[k].panel
    BY <1>1, <1>2, <1>4, <1>7
  <2>5. ASSUME NEW i \in DOMAIN hwnds, n + 1 \in DOMAIN stack'
        PROVE  i \notin stack'[n + 1].next .. stack'[n + 1].last
    <3>1. calls = 1
      BY <1>1, <1>7, <2>5
    <3>2. stack'[n + 1] = sent
      BY <1>7, <3>1
    <3>3. i # 0
      BY Domains
    <3>4. i \notin 0 .. 0
      BY <3>3
    <3>. QED BY <1>5, <3>2, <3>4
  <2>6. 1 .. n \subseteq DOMAIN stack' /\ DOMAIN stack' \subseteq 1 .. n + 1
    BY <1>1, <1>7
  <2>7. ASSUME NEW t
        PROVE  t \in Turns(d)' => t \in Turns(d) /\ t # <<n, Top.next>>
    <3>1. SUFFICES ASSUME t \in Turns(d)'
                   PROVE  t \in Turns(d) /\ t # <<n, Top.next>>
      OBVIOUS
    <3>2. t[1] \in 1 .. n /\ t[2] \in DOMAIN hwnds /\ t = <<t[1], t[2]>>
      BY <1>1, <2>1, <2>5, <2>6, <3>1
    <3>. QED BY <1>1, <2>1, <2>2, <2>3, <2>4, <3>1, <3>2
  <2>8. ASSUME NEW t
        PROVE  t \in Turns(d) /\ t # <<n, Top.next>> => t \in Turns(d)'
    <3>1. SUFFICES ASSUME t \in Turns(d), t # <<n, Top.next>>
                   PROVE  t \in Turns(d)'
      OBVIOUS
    <3>2. t[1] \in 1 .. n /\ t[2] \in DOMAIN hwnds /\ t = <<t[1], t[2]>>
      BY <1>1, <2>2, <3>1
    <3>. QED BY <1>1, <2>1, <2>2, <2>3, <2>4, <2>6, <3>1, <3>2
  <2>. QED BY <2>7, <2>8
<1>. QED BY <1>7, <1>10, <1>11, <1>12, <1>13 DEF n
-----------------------------------------------------------------------------
(* The counters *)

\* RefsMatchDeliveries and DataOutlivesUse, for one datum.
Right(d) ==
    IF d \in live
    THEN refs[d] = Cardinality(Pending(d)) + Cardinality(Handling(d))
                   + Cardinality(Turns(d)) + lost[d]
    ELSE Pending(d) = {} /\ Handling(d) = {} /\ Turns(d) = {}

LEMMA AllRight ==
    ASSUME live \subseteq Data
    PROVE  RefsMatchDeliveries /\ DataOutlivesUse <=> \A d \in Data \ astray : Right(d)
BY DEF RefsMatchDeliveries, DataOutlivesUse, Right

\* What a step leaves alone stays right.
LEMMA Untouched ==
    ASSUME NEW d, Right(d), refs'[d] = refs[d], lost'[d] = lost[d],
           d \in live' <=> d \in live,
           Pending(d)' = Pending(d), Handling(d)' = Handling(d), Turns(d)' = Turns(d)
    PROVE  Right(d)'
BY DEF Right

LEMMA HandlersFit ==
    ASSUME NEW p \in Panel, NEW d \in Data \cup {NoData}, NEW c,
           c \in {Handler(p, d), Destroying(p)}
    PROVE  c \in Call /\ c.does # "send" /\ \A n, gone : Fits(c, n, gone)
BY DEF Handler, Destroying, Call, Fits

\* A step that pushes a call without data, while the list at most grows, and
\* touches no data.
LEMMA PushPlain ==
    ASSUME IInv, Room, Grows, NEW c \in Call, Fits(c, Len(hwnds'), astray'),
           c.data = NoData, Push(c), c.does = "destroy" => Sending \subseteq astray',
           windows' \subseteq Panel, ListIsExact',
           astray \subseteq astray', astray' \subseteq Data \cup {NoData},
           UNCHANGED <<posted, dataVars>>
    PROVE  IInv'
<1>1. /\ stack' \in Seq(Call) /\ Len(stack') <= MaxDepth
      /\ CallsFit' /\ NoDestroyOverSend'
      /\ \A d : Handling(d)' = IF c.data = d /\ c.does # "send"
                               THEN Handling(d) \cup {Len(stack) + 1} ELSE Handling(d)
      /\ \A d : d \notin astray' /\ (c.data # d \/ c.does # "send")
               => Turns(d)' = Turns(d)
  BY AfterPush DEF IInv
<1>2. Types'
  BY <1>1 DEF IInv, Types, Grows, dataVars
<1>3. ASSUME NEW d \in Data \ astray'
      PROVE  Right(d)'
  <2>1. d # c.data
    BY PanelAssumption
  <2>2. Handling(d)' = Handling(d) /\ Turns(d)' = Turns(d)
    BY <1>1, <2>1
  <2>3. Pending(d)' = Pending(d)
    BY DEF Pending
  <2>4. Right(d)
    BY AllRight DEF IInv, Types
  <2>. QED BY <2>2, <2>3, <2>4, Untouched DEF dataVars
<1>4. live' \subseteq Data
  BY DEF IInv, Types, dataVars
<1>5. RefsMatchDeliveries' /\ DataOutlivesUse'
  BY <1>3, <1>4 DEF RefsMatchDeliveries, DataOutlivesUse, Right
<1>. QED BY <1>1, <1>2, <1>5 DEF IInv

LEMMA CreateStep ==
    ASSUME IInv, NEW p \in Panel, Create(p)
    PROVE  IInv'
<1>1. ~Exists(p) /\ ~Contains(hwnds, p) /\ hwnds \in Seq(Panel)
  BY DEF Create, IInv, ListIsExact, Types
<1>2. hwnds' = Append(hwnds, p)
  BY <1>1 DEF Create, Added
<1>3. /\ Len(hwnds) \in Nat /\ Len(hwnds') = Len(hwnds) + 1
      /\ hwnds' \in Seq(Panel)
      /\ DOMAIN hwnds = 1 .. Len(hwnds) /\ DOMAIN hwnds' = 1 .. Len(hwnds) + 1
      /\ \A i \in 1 .. Len(hwnds) : hwnds'[i] = hwnds[i]
      /\ hwnds'[Len(hwnds) + 1] = p
  BY <1>1, <1>2, PushShape
<1>4. Grows
  BY <1>3 DEF Grows
<1>5. ListIsExact'
  <2>1. \A r \in Panel : Exists(r)' <=> Exists(r) \/ r = p
    BY DEF Create, Exists, IInv, Types
  <2>2. \A r \in Panel : Contains(hwnds', r) <=> Contains(hwnds, r) \/ r = p
    BY <1>3 DEF Contains
  <2>3. IsInjective(hwnds')
    BY <1>1, <1>3 DEF IInv, ListIsExact, IsInjective, Contains
  <2>. QED BY <2>1, <2>2, <2>3 DEF ListIsExact, IInv
<1>6. windows' \subseteq Panel /\ astray' = astray /\ astray \subseteq Data \cup {NoData}
  BY DEF Create, IInv, Types
<1>7. Handler(p, NoData) \in Call /\ Fits(Handler(p, NoData), Len(hwnds'), astray')
  BY HandlersFit
<1>8. Handler(p, NoData).does = "handle" /\ Handler(p, NoData).data = NoData
  BY DEF Handler
<1>. QED BY <1>4, <1>5, <1>6, <1>7, <1>8, PushPlain DEF Create

LEMMA DestroyStep ==
    ASSUME IInv, NEW p \in Panel, BeginDestroy(p)
    PROVE  IInv'
<1>1. Grows /\ ListIsExact' /\ windows' \subseteq Panel
  BY DEF BeginDestroy, IInv, Types, Grows, ListIsExact, Exists
<1>2. Destroying(p) \in Call /\ Fits(Destroying(p), Len(hwnds'), astray')
  BY HandlersFit
<1>3. Destroying(p).does = "destroy" /\ Destroying(p).data = NoData
  BY DEF Destroying, Handler
<1>4. Sending \subseteq Data \cup {NoData}
  BY Domains DEF Sending, Call, IInv
<1>5. /\ astray \subseteq astray' /\ Sending \subseteq astray'
      /\ astray' \subseteq Data \cup {NoData}
  BY <1>4 DEF BeginDestroy, IInv, Types
<1>. QED BY <1>1, <1>2, <1>3, <1>5, PushPlain DEF BeginDestroy

LEMMA EventStep ==
    ASSUME IInv, NEW p \in Panel, Event(p)
    PROVE  IInv'
<1>1. /\ Grows /\ ListIsExact' /\ windows' \subseteq Panel
      /\ astray' = astray /\ astray \subseteq Data \cup {NoData}
  BY DEF Event, IInv, Types, Grows, ListIsExact, Exists
<1>2. Handler(p, NoData) \in Call /\ Fits(Handler(p, NoData), Len(hwnds'), astray')
  BY HandlersFit
<1>3. Handler(p, NoData).does = "handle" /\ Handler(p, NoData).data = NoData
  BY DEF Handler
<1>. QED BY <1>1, <1>2, <1>3, PushPlain DEF Event

LEMMA QuitStep ==
    ASSUME IInv, Quit
    PROVE  IInv'
<1>1. /\ Grows /\ ListIsExact' /\ windows' \subseteq Panel
      /\ astray' = astray /\ astray \subseteq Data \cup {NoData}
  BY DEF Quit, IInv, Types, Grows, ListIsExact, Exists
<1>2. Len(hwnds) \in Nat /\ hwnds' = hwnds
  BY DEF Quit, IInv, Types
<1>. DEFINE c == Loop(NoPanel, NoData)
<1>3. c \in Call /\ Fits(c, Len(hwnds'), astray') /\ c.does = "send" /\ c.data = NoData
  BY <1>2 DEF Loop, Call, Fits
<1>4. Room
  BY Domains, PanelAssumption DEF Quit, RoomToSend, Room, IInv
<1>. QED BY <1>1, <1>3, <1>4, PushPlain DEF Quit

\* A step that touches no list and no counter, and returns from a call without data
\* or from a finished loop.
LEMMA PopPlain ==
    ASSUME IInv, stack # <<>>, stack' = Front(stack), hwnds' \in Seq(Panel),
           Grows \/ Sending \subseteq astray, Top.does # "send" \/ ~Unfinished,
           Top.does = "send" \/ Top.data = NoData,
           windows' \subseteq Panel, ListIsExact',
           UNCHANGED <<posted, dataVars, astray>>
    PROVE  IInv'
<1>1. /\ stack' \in Seq(Call) /\ Len(stack') <= MaxDepth
      /\ CallsFit' /\ NoDestroyOverSend'
      /\ \A d : Handling(d)' = Handling(d) \ {Len(stack)}
      /\ \A d : d \notin astray => Turns(d)' = Turns(d)
  BY AfterPop DEF IInv
<1>2. Types'
  BY <1>1 DEF IInv, Types, dataVars
<1>3. ASSUME NEW d \in Data \ astray'
      PROVE  Right(d)'
  <2>1. Len(stack) \notin Handling(d)
    BY PanelAssumption DEF Handling, Top
  <2>2. Handling(d)' = Handling(d) /\ Turns(d)' = Turns(d)
    BY <1>1, <2>1
  <2>3. Pending(d)' = Pending(d)
    BY DEF Pending
  <2>4. Right(d)
    BY AllRight DEF IInv, Types
  <2>. QED BY <2>2, <2>3, <2>4, Untouched DEF dataVars
<1>4. live' \subseteq Data
  BY <1>2 DEF Types
<1>5. RefsMatchDeliveries' /\ DataOutlivesUse'
  BY <1>3, <1>4 DEF RefsMatchDeliveries, DataOutlivesUse, Right
<1>. QED BY <1>1, <1>2, <1>5 DEF IInv

\* A step of windows alone.
LEMMA SameCalls ==
    ASSUME IInv, UNCHANGED <<hwnds, stack, posted, live, refs, lost, astray>>, Types', ListIsExact'
    PROVE  IInv'
<1>1. CallsFit' /\ NoDestroyOverSend'
  BY DEF IInv, CallsFit, NoDestroyOverSend
<1>2. \A d : Pending(d)' = Pending(d) /\ Handling(d)' = Handling(d)
  BY DEF Pending, Handling
<1>3. \A d : Turns(d)' = Turns(d)
  BY DEF Turns, LeftToDo
<1>4. RefsMatchDeliveries' /\ DataOutlivesUse'
  BY <1>2, <1>3 DEF IInv, RefsMatchDeliveries, DataOutlivesUse
<1>. QED BY <1>1, <1>4 DEF IInv

LEMMA EndSendStep ==
    ASSUME IInv, EndSend
    PROVE  IInv'
<1>1. /\ Grows /\ ListIsExact' /\ windows' \subseteq Panel
      /\ astray' = astray /\ astray \subseteq Data \cup {NoData}
  BY DEF EndSend, IInv, Types, Grows, ListIsExact, Exists
<1>2. hwnds' \in Seq(Panel)
  BY <1>1 DEF Grows
<1>. QED BY <1>1, <1>2, PopPlain DEF EndSend

\* What a call that is no loop has.
LEMMA TopFits ==
    ASSUME Types, CallsFit, stack # <<>>
    PROVE  /\ Len(stack) \in DOMAIN stack /\ Top = stack[Len(stack)] /\ Top \in Call
           /\ Fits(Top, Len(hwnds), astray)
<1>1. Len(stack) \in DOMAIN stack /\ stack[Len(stack)] \in Call
  BY DEF Types
<1>. QED BY <1>1 DEF Top, CallsFit

LEMMA DispatchStep ==
    ASSUME IInv, NEW m \in posted, Dispatch(m)
    PROVE  IInv'
<1>. DEFINE c == Handler(m.to, m.data)
<1>1. m.to \in Panel /\ m.data \in Data /\ m.data # NoData
  BY PanelAssumption DEF IInv, Types
<1>2. /\ c \in Call /\ Fits(c, Len(hwnds'), astray') /\ c.does = "handle" /\ c.data = m.data
  BY <1>1, HandlersFit DEF Handler
<1>3. Grows /\ ListIsExact' /\ Room /\ Push(c) /\ astray' = astray
  BY DEF Dispatch, IInv, Types, Grows, ListIsExact, Exists
<1>. HIDE DEF c
<1>4. /\ stack' \in Seq(Call) /\ Len(stack') <= MaxDepth
      /\ CallsFit' /\ NoDestroyOverSend'
      /\ \A d : /\ Len(stack) + 1 \notin Handling(d)
                /\ Handling(d)' = IF c.data = d /\ c.does # "send"
                                  THEN Handling(d) \cup {Len(stack) + 1} ELSE Handling(d)
      /\ \A d : d \notin astray' /\ (c.data # d \/ c.does # "send")
               => Turns(d)' = Turns(d)
  BY <1>2, <1>3, AfterPush DEF IInv
<1>5. Types'
  <2>1. /\ posted' = posted \ {m} /\ IsFiniteSet(posted)
        /\ Cardinality(posted) \in Nat /\ Cardinality(posted) <= QueueLimit
    BY FS_CardinalityType DEF Dispatch, IInv, Types
  <2>2. IsFiniteSet(posted') /\ Cardinality(posted') = Cardinality(posted) - 1
    BY <2>1, FS_RemoveElement
  <2>3. Cardinality(posted') <= QueueLimit
    BY <2>1, <2>2, PanelAssumption
  <2>. QED BY <1>4, <2>1, <2>2, <2>3 DEF Dispatch, IInv, Types, dataVars
<1>6. ASSUME NEW d \in Data \ astray'
      PROVE  Right(d)'
  <2>1. Right(d)
    BY <1>3, AllRight DEF IInv, Types
  <2>2. Turns(d)' = Turns(d)
    BY <1>2, <1>4
  <2>3. CASE d # m.data
    <3>1. Pending(d)' = Pending(d) /\ Handling(d)' = Handling(d)
      BY <1>2, <1>4, <2>3 DEF Pending, Dispatch
    <3>. QED BY <2>1, <2>2, <3>1, Untouched DEF Dispatch, dataVars
  <2>4. CASE d = m.data
    <3>1. m \in Pending(d) /\ Pending(d)' = Pending(d) \ {m}
      BY <2>4 DEF Pending, Dispatch
    <3>2. /\ Handling(d)' = Handling(d) \cup {Len(stack) + 1}
          /\ Len(stack) + 1 \notin Handling(d)
      BY <1>2, <1>4, <2>4
    <3>3. d \in live
      BY <2>1, <3>1 DEF Right
    <3>4. /\ IsFiniteSet(Pending(d)) /\ Cardinality(Pending(d)) \in Nat
          /\ IsFiniteSet(Handling(d)) /\ Cardinality(Handling(d)) \in Nat
          /\ Cardinality(Turns(d)) \in Nat
      BY Finite DEF IInv
    <3>5. Cardinality(Pending(d)') = Cardinality(Pending(d)) - 1
      BY <3>1, <3>4, FS_RemoveElement
    <3>6. Cardinality(Handling(d)') = Cardinality(Handling(d)) + 1
      BY <3>2, <3>4, FS_AddElement
    <3>7. UNCHANGED <<live, refs, lost>> /\ lost[d] \in Nat
      BY DEF Dispatch, dataVars, IInv, Types
    <3>. QED BY <2>1, <2>2, <3>3, <3>4, <3>5, <3>6, <3>7 DEF Right
  <2>. QED BY <2>3, <2>4
<1>7. live' \subseteq Data
  BY <1>5 DEF Types
<1>8. RefsMatchDeliveries' /\ DataOutlivesUse'
  BY <1>6, <1>7 DEF RefsMatchDeliveries, DataOutlivesUse, Right
<1>. QED BY <1>3, <1>4, <1>5, <1>8 DEF IInv

LEMMA ReturnStep ==
    ASSUME IInv, Return
    PROVE  IInv'
<1>. DEFINE n == Len(stack)
            x == Top.data
<1>1. /\ n \in DOMAIN stack /\ Top = stack[n] /\ Top \in Call /\ Top.does = "handle"
  BY TopFits DEF Return, IInv
<1>2. Grows /\ ListIsExact' /\ hwnds' \in Seq(Panel)
  BY DEF Return, IInv, Types, Grows, ListIsExact, Exists
<1>3. /\ stack' \in Seq(Call) /\ Len(stack') <= MaxDepth
      /\ CallsFit' /\ NoDestroyOverSend'
      /\ \A d : Handling(d)' = Handling(d) \ {Len(stack)}
      /\ \A d : d \notin astray => Turns(d)' = Turns(d)
  BY <1>1, <1>2, AfterPop DEF IInv, Return
<1>4. UNCHANGED <<windows, posted, lost, astray>> /\ Release(x) /\ x \in Data \cup {NoData}
  BY <1>1 DEF Return, Call
<1>5. Types'
  BY <1>2, <1>3, <1>4 DEF Release, IInv, Types
<1>6. ASSUME NEW d \in Data, d \notin astray
      PROVE  Right(d)'
  <2>1. Right(d) /\ Pending(d)' = Pending(d) /\ Turns(d)' = Turns(d) /\ lost'[d] = lost[d]
    BY <1>3, <1>4, <1>6, AllRight DEF IInv, Types, Pending
  <2>2. CASE d # x
    <3>1. n \notin Handling(d)
      BY <1>1, <2>2 DEF Handling
    <3>2. Handling(d)' = Handling(d)
      BY <1>3, <3>1
    <3>3. refs'[d] = refs[d] /\ (d \in live' <=> d \in live)
      BY <1>4, <2>2 DEF Release, IInv, Types
    <3>. QED BY <2>1, <3>2, <3>3, Untouched
  <2>3. CASE d = x
    <3>1. n \in Handling(d) /\ Handling(d)' = Handling(d) \ {n}
      BY <1>1, <1>3, <2>3 DEF Handling
    <3>2. /\ IsFiniteSet(Pending(d)) /\ Cardinality(Pending(d)) \in Nat
          /\ IsFiniteSet(Handling(d)) /\ Cardinality(Handling(d)) \in Nat
          /\ IsFiniteSet(Turns(d)) /\ Cardinality(Turns(d)) \in Nat
          /\ lost[d] \in Nat /\ refs[d] \in Int
      BY Finite DEF IInv, Types
    <3>3. /\ IsFiniteSet(Handling(d)') /\ Cardinality(Handling(d)') \in Nat
          /\ Cardinality(Handling(d)') = Cardinality(Handling(d)) - 1
      BY <3>1, <3>2, FS_RemoveElement, FS_CardinalityType
    <3>4. d \in live
      BY <2>1, <3>1 DEF Right
    <3>5. refs'[d] = refs[d] - 1
      BY <1>4, <2>3, PanelAssumption DEF Release, IInv, Types
    <3>6. live' = IF refs[d] = 1 THEN live \ {d} ELSE live
      BY <1>4, <2>3, PanelAssumption DEF Release
    <3>7. CASE refs[d] = 1
      <4>. DEFINE a == Cardinality(Pending(d))
                  b == Cardinality(Handling(d))
                  e == Cardinality(Turns(d))
      <4>1. refs[d] = a + b + e + lost[d]
        BY <2>1, <3>4 DEF Right
      <4>2. a \in Nat /\ b \in Nat /\ e \in Nat /\ lost[d] \in Nat
            /\ Cardinality(Handling(d)') \in Nat /\ Cardinality(Handling(d)') = b - 1
        BY <3>2, <3>3
      <4>. HIDE DEF a, b, e
      <4>3. a = 0 /\ e = 0 /\ Cardinality(Handling(d)') = 0
        BY <3>7, <4>1, <4>2
      <4>4. /\ Cardinality(Pending(d)) = 0 /\ Cardinality(Turns(d)) = 0
            /\ Cardinality(Handling(d)') = 0
        BY <4>3 DEF a, e
      <4>5. Pending(d) = {} /\ Turns(d) = {} /\ Handling(d)' = {}
        BY <3>2, <3>3, <4>4, FS_EmptySet
      <4>. QED BY <2>1, <3>6, <3>7, <4>5 DEF Right
    <3>8. CASE refs[d] # 1
      BY <2>1, <3>2, <3>3, <3>4, <3>5, <3>6, <3>8 DEF Right
    <3>. QED BY <3>7, <3>8
  <2>. QED BY <2>2, <2>3
<1>7. live' \subseteq Data
  BY <1>5 DEF Types
<1>8. RefsMatchDeliveries' /\ DataOutlivesUse'
  BY <1>4, <1>6, <1>7 DEF RefsMatchDeliveries, DataOutlivesUse, Right
<1>. QED BY <1>2, <1>3, <1>5, <1>8 DEF IInv

LEMMA SendStep ==
    ASSUME IInv, Send
    PROVE  IInv'
<1>. DEFINE n == Len(stack)
            x == Top.data
<1>1. /\ n \in DOMAIN stack /\ Top = stack[n] /\ Top \in Call /\ Top.does = "send"
      /\ Top.next >= 1 /\ Top.next <= Top.last
      /\ x \notin astray => Top.last <= Len(hwnds)
  BY TopFits DEF Send, IInv, Fits, Unfinished
<1>2. x \notin astray =>
        Top.next \in 1 .. Len(hwnds) /\ HandlesAt(Top.next) = {hwnds[Top.next]}
  BY <1>1, Domains DEF HandlesAt, Call, IInv
<1>3. PICK p \in HandlesAt(Top.next) :
             stack' = IF p # NoPanel /\ IsOther(p) /\ Exists(p)
                      THEN Append(Advanced, Handler(p, x)) ELSE Advanced
  BY DEF Send
<1>4. /\ p \in Panel \cup {NoPanel} /\ (p # NoPanel => p \in Panel)
      /\ x \notin astray => p = hwnds[Top.next] /\ p # NoPanel /\ Exists(p)
  <2>1. p \in Panel \cup {NoPanel}
    BY <1>1, Domains DEF HandlesAt, Call, IInv
  <2>2. x \notin astray => p = hwnds[Top.next] /\ p # NoPanel /\ Exists(p)
    BY <1>2, <1>3, Domains, PanelAssumption DEF IInv, ListIsExact, Contains
  <2>. QED BY <2>1, <2>2
<1>5. PICK calls \in {0, 1} : calls = 1 <=> p # NoPanel /\ IsOther(p) /\ Exists(p)
  <2>1. CASE p # NoPanel /\ IsOther(p) /\ Exists(p)
    BY <2>1
  <2>2. CASE ~(p # NoPanel /\ IsOther(p) /\ Exists(p))
    BY <2>2
  <2>. QED BY <2>1, <2>2
<1>6. /\ stack' = IF calls = 1 THEN Append(Advanced, Handler(p, x)) ELSE Advanced
      /\ calls = 1 => Room /\ p \in Panel
      /\ UNCHANGED <<hwnds, astray>> /\ stack # <<>> /\ Top.does = "send" /\ Unfinished
  BY <1>3, <1>4, <1>5 DEF Send
<1>7. /\ stack' \in Seq(Call) /\ Len(stack') <= MaxDepth
      /\ CallsFit' /\ NoDestroyOverSend'
      /\ \A d : /\ n + 1 \notin Handling(d)
                /\ d # NoData =>
                     Handling(d)' = IF calls = 1 /\ x = d
                                    THEN Handling(d) \cup {n + 1} ELSE Handling(d)
      /\ \A d : Turns(d)' = Turns(d) \ {<<n, Top.next>>}
  BY <1>4, <1>6, AfterTurn DEF IInv
<1>8. Types' /\ ListIsExact'
  BY <1>7 DEF Send, IInv, Types, ListIsExact, Exists, dataVars
<1>9. ASSUME NEW d \in Data \ astray'
      PROVE  Right(d)'
  <2>1. Right(d) /\ Pending(d)' = Pending(d) /\ d # NoData /\ d \notin astray
    BY <1>6, AllRight, PanelAssumption DEF IInv, Types, Pending, Send
  <2>2. UNCHANGED <<live, refs, lost>>
    BY DEF Send, dataVars
  <2>3. <<n, Top.next>> \in Turns(d) <=> x = d /\ calls = 1
    <3>0. CASE x # d
      <4>. DEFINE pair == <<n, Top.next>>
      <4>1. pair[1] = n
        OBVIOUS
      <4>2. pair \in Turns(d) => stack[pair[1]].data = d
        BY DEF Turns, LeftToDo
      <4>. QED BY <1>1, <3>0, <4>1, <4>2
    <3>. SUFFICES ASSUME x = d
                  PROVE  <<n, Top.next>> \in Turns(d) <=> x = d /\ calls = 1
      BY <3>0
    <3>1. <<n, Top.next>> \in (DOMAIN stack) \X (DOMAIN hwnds)
      BY <1>1, <1>2, <2>1, Domains DEF IInv
    <3>2. Top.next \in Top.next .. Top.last
      BY <1>1 DEF Call
    <3>3. LeftToDo(n, Top.next, d) <=> x = d /\ IsOther(p)
      BY <1>1, <1>4, <2>1, <3>2 DEF LeftToDo, IsOther
    <3>4. <<n, Top.next>> \in Turns(d) <=> LeftToDo(n, Top.next, d)
      <4>. DEFINE pair == <<n, Top.next>>
      <4>1. pair[1] = n /\ pair[2] = Top.next
        OBVIOUS
      <4>2. pair \in Turns(d) <=> LeftToDo(pair[1], pair[2], d)
        BY <3>1 DEF Turns
      <4>. QED BY <4>1, <4>2
    <3>. QED BY <1>4, <1>5, <2>1, <3>3, <3>4
  <2>4. CASE ~(x = d /\ calls = 1)
    <3>1. Turns(d)' = Turns(d)
      BY <1>7, <2>3, <2>4
    <3>2. Handling(d)' = Handling(d)
      BY <1>7, <2>1, <2>4
    <3>. QED BY <2>1, <2>2, <3>1, <3>2, Untouched
  <2>5. CASE x = d /\ calls = 1
    <3>1. /\ Handling(d)' = Handling(d) \cup {n + 1} /\ n + 1 \notin Handling(d)
          /\ Turns(d)' = Turns(d) \ {<<n, Top.next>>} /\ <<n, Top.next>> \in Turns(d)
      BY <1>7, <2>1, <2>3, <2>5
    <3>2. /\ IsFiniteSet(Turns(d)) /\ Cardinality(Turns(d)) \in Nat
          /\ IsFiniteSet(Handling(d)) /\ Cardinality(Handling(d)) \in Nat
          /\ Cardinality(Pending(d)) \in Nat
      BY Finite DEF IInv
    <3>3. Cardinality(Handling(d)') = Cardinality(Handling(d)) + 1
      BY <3>1, <3>2, FS_AddElement
    <3>4. Cardinality(Turns(d)') = Cardinality(Turns(d)) - 1
      <4>. DEFINE pair == <<n, Top.next>>
      <4>1. Turns(d)' = Turns(d) \ {pair} /\ pair \in Turns(d)
        BY <3>1
      <4>. HIDE DEF pair
      <4>. QED BY <3>2, <4>1, FS_RemoveElement
    <3>5. d \in live /\ lost[d] \in Nat
      BY <2>1, <3>1 DEF Right, IInv, Types
    <3>. QED BY <2>1, <2>2, <3>2, <3>3, <3>4, <3>5 DEF Right
  <2>. QED BY <2>4, <2>5
<1>10. live' \subseteq Data
  BY <1>8 DEF Types
<1>11. RefsMatchDeliveries' /\ DataOutlivesUse'
  BY <1>9, <1>10 DEF RefsMatchDeliveries, DataOutlivesUse, Right
<1>. QED BY <1>7, <1>8, <1>11 DEF IInv

LEMMA EndDestroyStep ==
    ASSUME IInv, EndDestroy
    PROVE  IInv'
<1>. DEFINE n == Len(stack)
            p == Top.panel
<1>1. /\ n \in DOMAIN stack /\ Top = stack[n] /\ Top.does = "destroy"
      /\ p \in Panel /\ Top.data = NoData
  BY TopFits DEF EndDestroy, IInv, Fits
<1>2. Sending \subseteq astray /\ astray' = astray
  <2>1. ASSUME NEW k \in DOMAIN stack, stack[k].does = "send"
        PROVE  stack[k].data \in astray
    <3>1. k < n
      BY <1>1, <2>1, Domains DEF IInv
    <3>. QED BY <1>1, <2>1, <3>1 DEF NoDestroyOverSend, IInv
  <2>. QED BY <2>1 DEF Sending, EndDestroy
<1>3. /\ hwnds' \in Seq(Panel) /\ IsInjective(hwnds')
      /\ \A s \in Panel : Contains(hwnds', s) <=> Contains(hwnds, s) /\ s # p
  BY <1>1, RemoveShape DEF EndDestroy, Removed, IInv, Types, ListIsExact
<1>4. ListIsExact'
  <2>1. \A s \in Panel : Exists(s)' <=> Exists(s) /\ s # p
    BY <1>1 DEF EndDestroy, Exists, IInv, Types
  <2>. QED BY <1>3, <2>1 DEF ListIsExact, IInv
<1>5. /\ stack' \in Seq(Call) /\ Len(stack') <= MaxDepth
      /\ CallsFit' /\ NoDestroyOverSend'
      /\ \A d : Handling(d)' = Handling(d) \ {Len(stack)}
      /\ \A d : d \notin astray => Turns(d)' = Turns(d)
  BY <1>1, <1>2, <1>3, AfterPop DEF IInv, EndDestroy
<1>6. Types'
  <2>1. posted' \in SUBSET posted /\ IsFiniteSet(posted)
    BY DEF EndDestroy, IInv, Types
  <2>2. IsFiniteSet(posted') /\ Cardinality(posted') <= Cardinality(posted)
    BY <2>1, FS_Subset
  <2>3. Cardinality(posted') <= QueueLimit
    BY <2>1, <2>2, FS_CardinalityType, PanelAssumption DEF IInv, Types
  <2>4. lost' \in [Data -> Nat]
    BY DEF EndDestroy, IInv, Types
  <2>. QED BY <1>1, <1>3, <1>5, <2>1, <2>2, <2>3, <2>4 DEF EndDestroy, IInv, Types
<1>7. ASSUME NEW d \in Data \ astray'
      PROVE  Right(d)'
  <2>1. Right(d) /\ UNCHANGED <<live, refs>>
    BY AllRight DEF IInv, Types, EndDestroy
  <2>2. Handling(d)' = Handling(d) /\ Turns(d)' = Turns(d)
    <3>1. n \notin Handling(d)
      BY <1>1, PanelAssumption DEF Handling
    <3>. QED BY <1>2, <1>5, <3>1
  <2>. DEFINE m == Message(p, d)
  <2>3. Pending(d)' = Pending(d) \ {m}
    BY DEF Pending, EndDestroy, Message, IInv, Types
  <2>4. m \in posted <=> m \in Pending(d)
    BY DEF Pending, Message
  <2>5. lost'[d] = IF m \in Pending(d) THEN lost[d] + 1 ELSE lost[d]
    BY <2>4 DEF EndDestroy
  <2>. HIDE DEF m
  <2>6. CASE m \notin Pending(d)
    BY <2>1, <2>2, <2>3, <2>5, <2>6, Untouched
  <2>7. CASE m \in Pending(d)
    <3>1. d \in live
      BY <2>1, <2>7 DEF Right
    <3>2. /\ IsFiniteSet(Pending(d)) /\ Cardinality(Pending(d)) \in Nat
          /\ Cardinality(Handling(d)) \in Nat /\ Cardinality(Turns(d)) \in Nat
          /\ lost[d] \in Nat
      BY Finite DEF IInv, Types
    <3>3. Cardinality(Pending(d)') = Cardinality(Pending(d)) - 1
      BY <2>3, <2>7, <3>2, FS_RemoveElement
    <3>. QED BY <2>1, <2>2, <2>5, <2>7, <3>1, <3>2, <3>3 DEF Right
  <2>. QED BY <2>6, <2>7
<1>8. live' \subseteq Data
  BY <1>6 DEF Types
<1>9. RefsMatchDeliveries' /\ DataOutlivesUse'
  BY <1>7, <1>8 DEF RefsMatchDeliveries, DataOutlivesUse, Right
<1>. QED BY <1>4, <1>5, <1>6, <1>9 DEF IInv

\* As many pairs <<k, i>> as there are i.
LEMMA Pairs ==
    ASSUME NEW I, IsFiniteSet(I), NEW k
    PROVE  Cardinality({<<k, i>> : i \in I}) = Cardinality(I)
<1>. DEFINE f == [i \in I |-> <<k, i>>]
            T == {<<k, i>> : i \in I}
<1>1. f \in Bijection(I, T)
  BY DEF Bijection, Injection, Surjection, IsInjective
<1>2. ExistsBijection(I, T)
  BY <1>1 DEF ExistsBijection
<1>. QED BY <1>2, FS_Bijection

LEMMA NotifyStep ==
    ASSUME IInv, NEW x \in Data, Notify(x)
    PROVE  IInv'
<1>. DEFINE n == Len(stack)
            c == Loop(Top.panel, x)
<1>1. /\ Top.panel \in Panel /\ IsInjective(hwnds)
      /\ x \notin astray' => Contains(hwnds, Top.panel)
      /\ UNCHANGED <<hwnds, windows, posted>>
      /\ x \notin live /\ live' = live \cup {x} /\ lost' = [lost EXCEPT ![x] = 0]
      /\ x \notin astray /\ astray \subseteq astray' /\ astray' \subseteq Data \cup {NoData}
  BY TopFits DEF Notify, Fresh, Running, IInv, Types, Fits, ListIsExact
<1>2. Len(hwnds) \in Nat /\ DOMAIN hwnds = 1 .. Len(hwnds)
  BY Domains DEF IInv
<1>3. Right(x) /\ Pending(x) = {} /\ Handling(x) = {} /\ Turns(x) = {}
  BY <1>1, AllRight DEF IInv, Types, Right
<1>4. Grows /\ ListIsExact' /\ \A d : Pending(d)' = Pending(d)
  BY <1>1 DEF IInv, Types, Grows, ListIsExact, Exists, Pending
<1>5. /\ \E k \in Int : refs' = [refs EXCEPT ![x] = k]
      /\ x \notin astray' => refs'[x] = Cardinality(Turns(x)')
      /\ stack' \in Seq(Call) /\ Len(stack') <= MaxDepth
      /\ CallsFit' /\ NoDestroyOverSend'
      /\ \A d : /\ Handling(d)' = Handling(d)
                /\ d # x /\ d \notin astray' => Turns(d)' = Turns(d)
  <2>1. CASE Len(hwnds) < 2
    <3>1. refs' = [refs EXCEPT ![x] = 0] /\ UNCHANGED <<stack, hwnds>>
      BY <1>1, <2>1 DEF Notify, TakeRefs
    <3>2. \A d : Handling(d)' = Handling(d) /\ Turns(d)' = Turns(d)
      BY <3>1 DEF Handling, Turns, LeftToDo
    <3>3. Cardinality(Turns(x)') = 0
      BY <1>3, <3>2, FS_EmptySet
    <3>4. /\ stack' \in Seq(Call) /\ Len(stack') <= MaxDepth
          /\ CallsFit' /\ NoDestroyOverSend'
      BY <1>1, <3>1 DEF IInv, Types, CallsFit, NoDestroyOverSend, Fits
    <3>5. refs'[x] = 0
      BY <3>1 DEF IInv, Types
    <3>6. \E k \in Int : refs' = [refs EXCEPT ![x] = k]
      <4>1. 0 \in Int
        OBVIOUS
      <4>. QED BY <3>1, <4>1, Zenon
    <3>. QED BY <3>2, <3>3, <3>4, <3>5, <3>6
  <2>2. CASE Len(hwnds) >= 2
    <3>1. refs' = [refs EXCEPT ![x] = Len(hwnds) - 1] /\ Push(c) /\ Room
      BY <1>2, <2>2, Domains, PanelAssumption DEF Notify, TakeRefs, RoomToSend, Room, IInv
    <3>2. /\ c.does = "send" /\ c.panel = Top.panel /\ c.data = x
          /\ c.next = 1 /\ c.last = Len(hwnds)
      BY DEF Loop
    <3>3. c \in Call /\ Fits(c, Len(hwnds'), astray')
      BY <1>1, <1>2, <3>2 DEF Loop, Call, Fits
    <3>. HIDE DEF c
    <3>4. /\ stack' \in Seq(Call) /\ Len(stack') <= MaxDepth
          /\ CallsFit' /\ NoDestroyOverSend'
          /\ \A d : Handling(d)' = IF c.data = d /\ c.does # "send"
                                   THEN Handling(d) \cup {n + 1} ELSE Handling(d)
          /\ \A d : d \notin astray' /\ (c.data # d \/ c.does # "send")
                   => Turns(d)' = Turns(d)
      BY <1>1, <1>4, <3>1, <3>2, <3>3, AfterPush DEF IInv
    <3>5. \A d : /\ Handling(d)' = Handling(d)
                 /\ d # x /\ d \notin astray' => Turns(d)' = Turns(d)
      BY <3>2, <3>4
    <3>6. ASSUME x \notin astray'
          PROVE  Cardinality(Turns(x)') = Len(hwnds) - 1
      <4>1. PICK j \in 1 .. Len(hwnds) : hwnds[j] = Top.panel
        BY <1>1, <3>6 DEF Contains
      <4>. DEFINE I == (1 .. Len(hwnds)) \ {j}
      <4>2. IsFiniteSet(I) /\ Cardinality(I) = Len(hwnds) - 1
        <5>1. IsFiniteSet(1 .. Len(hwnds)) /\ Cardinality(1 .. Len(hwnds)) = Len(hwnds)
          BY <1>2, <2>2, FS_Interval
        <5>. QED BY <5>1, FS_RemoveElement
      <4>3. /\ DOMAIN stack = 1 .. n /\ n \in Nat /\ DOMAIN stack' = 1 .. n + 1
            /\ \A k \in 1 .. n : stack'[k] = stack[k]
            /\ stack'[n + 1] = c
        BY <3>1, <3>3, PushShape DEF Push, IInv, Types
      <4>. HIDE DEF n
      <4>. DEFINE AtTurn(k, i) ==
                    /\ stack'[k].data = x
                    /\ i \in stack'[k].next .. stack'[k].last
                    /\ hwnds[i] # stack'[k].panel
      <4>4. ASSUME NEW k \in 1 .. n, NEW i \in 1 .. Len(hwnds)
            PROVE  ~AtTurn(k, i)
        <5>1. ~LeftToDo(k, i, x)
          <6>1. <<k, i>> \in (DOMAIN stack) \X (DOMAIN hwnds)
            BY <1>2, <4>3
          <6>. DEFINE pair == <<k, i>>
          <6>2. pair \in Turns(x) <=> LeftToDo(pair[1], pair[2], x)
            BY <6>1 DEF Turns
          <6>3. pair[1] = k /\ pair[2] = i
            OBVIOUS
          <6>. QED BY <1>3, <6>2, <6>3
        <5>. QED BY <1>1, <4>3, <5>1 DEF LeftToDo
      <4>5. ASSUME NEW i \in 1 .. Len(hwnds)
            PROVE  AtTurn(n + 1, i) <=> i # j
        <5>1. i \in 1 .. Len(hwnds) /\ (hwnds[i] # Top.panel <=> i # j)
          BY <1>1, <1>2, <4>1 DEF IsInjective
        <5>. QED BY <1>1, <3>2, <4>3, <5>1 DEF LeftToDo
      <4>6. Turns(x)' = {<<n + 1, i>> : i \in I}
        <5>1. Turns(x)' = {t \in (1 .. n + 1) \X (1 .. Len(hwnds)) : AtTurn(t[1], t[2])}
          <6>1. Turns(x)' = {t \in (DOMAIN stack') \X (DOMAIN hwnds') :
                               /\ stack'[t[1]].data = x
                               /\ t[2] \in stack'[t[1]].next .. stack'[t[1]].last
                               /\ hwnds'[t[2]] # stack'[t[1]].panel}
            BY DEF Turns, LeftToDo
          <6>2. hwnds' = hwnds /\ DOMAIN hwnds' = 1 .. Len(hwnds)
            BY <1>1, <1>2
          <6>. QED BY <4>3, <6>1, <6>2
        <5>2. ASSUME NEW t \in Turns(x)'
              PROVE  t \in {<<n + 1, i>> : i \in I}
          <6>1. /\ t[1] \in 1 .. n + 1 /\ t[2] \in 1 .. Len(hwnds) /\ t = <<t[1], t[2]>>
                /\ AtTurn(t[1], t[2])
            BY <5>1
          <6>2. t[1] = n + 1
            BY <4>3, <4>4, <6>1
          <6>3. t[2] \in I
            BY <4>5, <6>1, <6>2
          <6>. QED BY <6>1, <6>2, <6>3
        <5>3. ASSUME NEW i \in I
              PROVE  <<n + 1, i>> \in Turns(x)'
          <6>1. i \in 1 .. Len(hwnds) /\ n + 1 \in 1 .. n + 1 /\ AtTurn(n + 1, i)
            BY <4>3, <4>5
          <6>. QED BY <5>1, <6>1
        <5>. QED BY <5>2, <5>3
      <4>. HIDE DEF I
      <4>7. Cardinality({<<n + 1, i>> : i \in I}) = Cardinality(I)
        BY <4>2, Pairs
      <4>. QED BY <4>2, <4>6, <4>7
    <3>7. refs'[x] = Len(hwnds) - 1 /\ Len(hwnds) - 1 \in Int
      BY <1>2, <3>1 DEF IInv, Types
    <3>8. \E k \in Int : refs' = [refs EXCEPT ![x] = k]
      BY <3>1, <3>7
    <3>. QED BY <3>4, <3>5, <3>6, <3>7, <3>8
  <2>. QED BY <1>2, <2>1, <2>2
<1>6. Types'
  BY <1>1, <1>5 DEF IInv, Types
<1>7. ASSUME NEW d \in Data \ astray'
      PROVE  Right(d)'
  <2>1. CASE d # x
    <3>1. /\ refs'[d] = refs[d] /\ lost'[d] = lost[d] /\ (d \in live' <=> d \in live)
          /\ Right(d)
      BY <1>1, <1>5, <2>1, AllRight DEF IInv, Types
    <3>2. Pending(d)' = Pending(d) /\ Handling(d)' = Handling(d) /\ Turns(d)' = Turns(d)
      BY <1>4, <1>5, <2>1
    <3>. QED BY <3>1, <3>2, Untouched
  <2>2. CASE d = x
    <3>1. x \in live' /\ refs'[x] = Cardinality(Turns(x)') /\ lost'[x] = 0
      BY <1>1, <1>5, <2>2 DEF IInv, Types
    <3>2. Pending(x)' = {} /\ Handling(x)' = {}
      BY <1>3, <1>4, <1>5
    <3>3. Cardinality(Pending(x)') = 0 /\ Cardinality(Handling(x)') = 0
      BY <3>2, FS_EmptySet
    <3>4. Cardinality(Turns(x)') \in Int
      BY <1>5, <3>1 DEF IInv, Types
    <3>. QED BY <2>2, <3>1, <3>3, <3>4 DEF Right
  <2>. QED BY <2>1, <2>2
<1>8. live' \subseteq Data
  BY <1>6 DEF Types
<1>9. RefsMatchDeliveries' /\ DataOutlivesUse'
  BY <1>7, <1>8 DEF RefsMatchDeliveries, DataOutlivesUse, Right
<1>. QED BY <1>4, <1>5, <1>6, <1>9 DEF IInv

\* PostMessage queues a message for each of the first n windows.
LEMMA Messages ==
    ASSUME NEW h \in Seq(Panel), IsInjective(h), NEW n \in Nat, n <= Len(h), NEW x \in Data
    PROVE  LET M == {Message(h[i], x) : i \in 1 .. n}
           IN  M \subseteq [to : Panel, data : Data] /\ IsFiniteSet(M) /\ Cardinality(M) = n
<1>. DEFINE M == {Message(h[i], x) : i \in 1 .. n}
            f == [i \in 1 .. n |-> Message(h[i], x)]
<1>1. \A i \in 1 .. n : i \in DOMAIN h /\ h[i] \in Panel
  OBVIOUS
<1>2. ASSUME NEW i \in 1 .. n, NEW j \in 1 .. n, f[i] = f[j]
      PROVE  i = j
  <2>1. Message(h[i], x).to = Message(h[j], x).to
    BY <1>2
  <2>2. h[i] = h[j]
    BY <2>1 DEF Message
  <2>. QED BY <1>1, <2>2 DEF IsInjective
<1>3. f \in Bijection(1 .. n, M)
  BY <1>2 DEF Bijection, Injection, Surjection, IsInjective
<1>4. ExistsBijection(1 .. n, M)
  BY <1>3 DEF ExistsBijection
<1>5. IsFiniteSet(1 .. n) /\ Cardinality(1 .. n) = n
  BY FS_Interval
<1>6. IsFiniteSet(M) /\ Cardinality(M) = n
  <2>. HIDE DEF M
  <2>. QED BY <1>4, <1>5, FS_Bijection
<1>7. M \subseteq [to : Panel, data : Data]
  BY <1>1 DEF Message
<1>. QED BY <1>6, <1>7

LEMMA BroadcastStep ==
    ASSUME IInv, NEW x \in Data, Broadcast(x)
    PROVE  IInv'
<1>. DEFINE room == QueueLimit - Cardinality(posted)
            n == IF room < Len(hwnds) THEN room ELSE Len(hwnds)
            M == {Message(hwnds[i], x) : i \in 1 .. n}
<1>1. /\ UNCHANGED <<hwnds, windows, stack, astray>>
      /\ x \notin live /\ x \notin astray /\ live' = live \cup {x}
      /\ refs' = [refs EXCEPT ![x] = Len(hwnds)]
      /\ posted' = posted \cup M /\ lost' = [lost EXCEPT ![x] = Len(hwnds) - n]
  BY DEF Broadcast, Fresh, TakeRefs
<1>2. /\ Len(hwnds) \in Nat /\ hwnds \in Seq(Panel) /\ IsInjective(hwnds)
      /\ IsFiniteSet(posted) /\ Cardinality(posted) \in Nat /\ Cardinality(posted) <= QueueLimit
  BY FS_CardinalityType DEF IInv, Types, ListIsExact
<1>3. room \in Nat /\ n \in Nat /\ n <= Len(hwnds) /\ n <= room /\ QueueLimit \in Nat
  BY <1>2, PanelAssumption
<1>. HIDE DEF n
<1>4. M \subseteq [to : Panel, data : Data] /\ IsFiniteSet(M) /\ Cardinality(M) = n
  BY <1>2, <1>3, Messages
<1>5. \A m \in M : m.data = x
  BY DEF Message
<1>. HIDE DEF M
<1>6. Right(x) /\ Pending(x) = {} /\ Handling(x) = {} /\ Turns(x) = {}
  BY <1>1, AllRight DEF IInv, Types, Right
<1>7. posted \cap M = {}
  BY <1>5, <1>6 DEF Pending
<1>8. IsFiniteSet(posted') /\ Cardinality(posted') <= QueueLimit
  <2>1. /\ IsFiniteSet(posted \cup M)
        /\ Cardinality(posted \cup M) = Cardinality(posted) + Cardinality(M) - Cardinality(posted \cap M)
    BY <1>2, <1>4, FS_Union
  <2>2. Cardinality(posted \cap M) = 0
    BY <1>7, FS_EmptySet
  <2>. QED BY <1>1, <1>2, <1>3, <1>4, <2>1, <2>2
<1>9. Len(hwnds) - n \in Nat
  BY <1>2, <1>3
<1>10. Types'
  BY <1>1, <1>2, <1>4, <1>8, <1>9 DEF IInv, Types
<1>11. ListIsExact' /\ CallsFit' /\ NoDestroyOverSend'
  BY <1>1 DEF IInv, ListIsExact, Exists, CallsFit, NoDestroyOverSend
<1>12. \A d : Handling(d)' = Handling(d) /\ Turns(d)' = Turns(d)
  BY <1>1 DEF Handling, Turns, LeftToDo
<1>13. ASSUME NEW d \in Data \ astray'
       PROVE  Right(d)'
  <2>1. CASE d # x
    <3>1. /\ refs'[d] = refs[d] /\ lost'[d] = lost[d] /\ (d \in live' <=> d \in live)
          /\ Right(d)
      BY <1>1, <2>1, AllRight DEF IInv, Types
    <3>2. Pending(d)' = Pending(d)
      BY <1>1, <1>5, <2>1 DEF Pending
    <3>3. Handling(d)' = Handling(d) /\ Turns(d)' = Turns(d)
      BY <1>12
    <3>. QED BY <3>1, <3>2, <3>3, Untouched
  <2>2. CASE d = x
    <3>1. x \in live' /\ refs'[x] = Len(hwnds) /\ lost'[x] = Len(hwnds) - n
      BY <1>1 DEF IInv, Types
    <3>2. Pending(x)' = M
      BY <1>1, <1>5, <1>6 DEF Pending
    <3>3. Handling(x)' = {} /\ Turns(x)' = {}
      BY <1>6, <1>12
    <3>4. Cardinality(Pending(x)') = n
      BY <1>4, <3>2
    <3>5. Cardinality(Handling(x)') = 0 /\ Cardinality(Turns(x)') = 0
      BY <3>3, FS_EmptySet
    <3>6. Len(hwnds) = n + 0 + 0 + (Len(hwnds) - n)
      BY <1>2, <1>3
    <3>. QED BY <2>2, <3>1, <3>4, <3>5, <3>6 DEF Right
  <2>. QED BY <2>1, <2>2
<1>14. live' \subseteq Data
  BY <1>10 DEF Types
<1>15. RefsMatchDeliveries' /\ DataOutlivesUse'
  BY <1>13, <1>14 DEF RefsMatchDeliveries, DataOutlivesUse, Right
<1>. QED BY <1>10, <1>11, <1>15 DEF IInv

-----------------------------------------------------------------------------
(* Theorems *)

\* The invariant holds at the start and is kept by every step.
LEMMA InitIInv == Init => IInv
<1>. SUFFICES ASSUME Init
              PROVE  IInv
  OBVIOUS
<1>1. IsFiniteSet(posted) /\ Cardinality(posted) = 0
  BY FS_EmptySet DEF Init
<1>2. Types
  BY <1>1, PanelAssumption DEF Init, Types
<1>3. ListIsExact
  BY DEF Init, ListIsExact, Exists, Contains, IsInjective
<1>4. CallsFit /\ NoDestroyOverSend
  BY DEF Init, CallsFit, NoDestroyOverSend
<1>5. RefsMatchDeliveries /\ DataOutlivesUse
  BY DEF Init, RefsMatchDeliveries, DataOutlivesUse, Pending, Handling, Turns
<1>. QED BY <1>2, <1>3, <1>4, <1>5 DEF IInv

LEMMA NextIInv ==
    ASSUME IInv, [Next]_vars
    PROVE  IInv'
<1>1. ASSUME NEW p \in Panel, Create(p)
      PROVE  IInv'
  BY <1>1, CreateStep
<1>2. ASSUME NEW p \in Panel, BeginDestroy(p)
      PROVE  IInv'
  BY <1>2, DestroyStep
<1>3. ASSUME NEW p \in Panel, Event(p)
      PROVE  IInv'
  BY <1>3, EventStep
<1>4. ASSUME NEW d \in Data, Broadcast(d)
      PROVE  IInv'
  BY <1>4, BroadcastStep
<1>5. ASSUME NEW d \in Data, Notify(d)
      PROVE  IInv'
  BY <1>5, NotifyStep
<1>6. ASSUME NEW m \in posted, Dispatch(m)
      PROVE  IInv'
  BY <1>6, DispatchStep
<1>7. CASE Quit
  BY <1>7, QuitStep
<1>8. CASE Send
  BY <1>8, SendStep
<1>9. CASE EndSend
  BY <1>9, EndSendStep
<1>10. CASE Return
  BY <1>10, ReturnStep
<1>11. CASE EndDestroy
  BY <1>11, EndDestroyStep
<1>12. ASSUME UNCHANGED vars
       PROVE  IInv'
  <2>1. UNCHANGED <<hwnds, windows, stack, posted, live, refs, lost, astray>>
    BY <1>12 DEF vars, dataVars
  <2>2. Types' /\ ListIsExact'
    BY <2>1 DEF IInv, Types, ListIsExact, Exists
  <2>. QED BY <2>1, <2>2, SameCalls
<1>. QED BY <1>1, <1>2, <1>3, <1>4, <1>5, <1>6, <1>7, <1>8, <1>9, <1>10, <1>11, <1>12 DEF Next

LEMMA SpecIInv == Spec => []IInv
<1>1. IInv /\ [Next]_vars => IInv'
  BY NextIInv
<1>. QED BY InitIInv, <1>1, PTL DEF Spec

-----------------------------------------------------------------------------
(* The sign of the counters *)

\* The counter of deleted data stays at the 0 that deleted it.
DeadCounters == \A d \in (Data \ live) \ astray : refs[d] = 0

LEMMA CountsAreNat == IInv /\ DeadCounters => \A d \in Data \ astray : refs[d] >= 0
<1>. SUFFICES ASSUME IInv, DeadCounters, NEW d \in Data, d \notin astray
              PROVE  refs[d] \in Nat
  OBVIOUS
<1>1. CASE d \in live
  <2>1. /\ Cardinality(Pending(d)) \in Nat /\ Cardinality(Handling(d)) \in Nat
        /\ Cardinality(Turns(d)) \in Nat /\ lost[d] \in Nat
    BY Finite DEF IInv, Types
  <2>2. refs[d] = Cardinality(Pending(d)) + Cardinality(Handling(d))
                  + Cardinality(Turns(d)) + lost[d]
    BY <1>1 DEF IInv, RefsMatchDeliveries
  <2>. QED BY <2>1, <2>2
<1>2. CASE d \notin live
  BY <1>2 DEF DeadCounters
<1>. QED BY <1>1, <1>2

LEMMA NextDead ==
    ASSUME IInv, DeadCounters, [Next]_vars
    PROVE  DeadCounters'
<1>1. ASSUME UNCHANGED <<live, refs>>, astray \subseteq astray'
      PROVE  DeadCounters'
  BY <1>1 DEF DeadCounters
<1>2. ASSUME NEW d \in Data, live' = live \cup {d}, NEW n, TakeRefs(d, n),
             astray \subseteq astray'
      PROVE  DeadCounters'
  BY <1>2 DEF DeadCounters, TakeRefs, IInv, Types
<1>3. CASE Return
  <2>1. Release(Top.data) /\ astray' = astray
    BY <1>3 DEF Return
  <2>2. CASE Top.data = NoData
    BY <1>1, <2>1, <2>2 DEF Release
  <2>3. CASE Top.data # NoData
    <3>1. /\ Len(stack) \in DOMAIN stack /\ Top = stack[Len(stack)]
          /\ Top \in Call /\ Top.does = "handle"
      BY <1>3, TopFits DEF Return, IInv
    <3>2. Top.data \in Data /\ Len(stack) \in Handling(Top.data)
      BY <2>3, <3>1 DEF Call, Handling
    <3>3. Top.data \in live \cup astray
      BY <3>2 DEF IInv, DataOutlivesUse
    <3>. DEFINE x == Top.data
    <3>4. /\ refs' = [refs EXCEPT ![x] = refs[x] - 1]
          /\ live' = IF refs[x] = 1 THEN live \ {x} ELSE live
      BY <2>1, <2>3 DEF Release
    <3>. HIDE DEF x
    <3>5. x \in live \cup astray /\ refs \in [Data -> Int] /\ live \subseteq Data
      BY <3>3 DEF x, IInv, Types
    <3>. QED BY <2>1, <3>4, <3>5 DEF DeadCounters
  <2>. QED BY <2>2, <2>3
<1>4. ASSUME NEW d \in Data, Broadcast(d) \/ Notify(d)
      PROVE  DeadCounters'
  BY <1>2, <1>4 DEF Broadcast, Notify
<1>5. ASSUME NEW p \in Panel, Create(p) \/ BeginDestroy(p) \/ Event(p)
      PROVE  DeadCounters'
  BY <1>1, <1>5 DEF Create, BeginDestroy, Event, dataVars
<1>6. ASSUME NEW m \in posted, Dispatch(m)
      PROVE  DeadCounters'
  BY <1>1, <1>6 DEF Dispatch, dataVars
<1>7. CASE Quit \/ Send \/ EndSend \/ EndDestroy
  BY <1>1, <1>7 DEF Quit, Send, EndSend, EndDestroy, dataVars
<1>8. CASE UNCHANGED vars
  BY <1>1, <1>8 DEF vars, dataVars
<1>. QED BY <1>3, <1>4, <1>5, <1>6, <1>7, <1>8 DEF Next

-----------------------------------------------------------------------------
\* Type correctness, among it: no counter is ever negative, so that no reference is
\* released twice, of data that did not go astray with its loop, whatever windows are
\* destroyed where; and the calls and the posted messages keep to their bounds.
THEOREM TypeCorrect == Spec => []TypeOK
<1>1. Init => DeadCounters
  BY DEF Init, DeadCounters
<1>2. IInv /\ DeadCounters /\ [Next]_vars => DeadCounters'
  BY NextDead
<1>3. IInv /\ DeadCounters => TypeOK
  BY CountsAreNat DEF IInv, Types, TypeOK
<1>. QED BY SpecIInv, <1>1, <1>2, <1>3, PTL DEF Spec

\* m_hwnds lists the existing windows, each once, however scripts create and destroy
\* panels while handlers and loops run.
THEOREM ListFollowsWindows == Spec => []ListIsExact
<1>1. IInv => ListIsExact
  BY DEF IInv
<1>. QED BY SpecIInv, <1>1, PTL

\* The counter of callback data is always the number of releases to come and of those
\* lost, unless a window went under the loop that sends it, or the script that sent it
\* had lost its own: for any number of panels, data, nested calls and queued messages.
THEOREM CountersAreExact == Spec => []RefsMatchDeliveries
<1>1. IInv => RefsMatchDeliveries
  BY DEF IInv
<1>. QED BY SpecIInv, <1>1, PTL

\* No message, handler or loop holds the address of deleted data, with the same
\* exception.
THEOREM NoUseAfterDelete == Spec => []DataOutlivesUse
<1>1. IInv => DataOutlivesUse
  BY DEF IInv
<1>. QED BY SpecIInv, <1>1, PTL

\* for_each stays inside the list unless a window goes under it.
THEOREM LoopsStayInside == Spec => []LoopsInside
<1>1. IInv => LoopsInside
  <2>1. SUFFICES ASSUME IInv, stack # <<>>, Top.does = "send", Unfinished,
                        Top.data \notin astray
                 PROVE  Top.next <= Len(hwnds)
    BY DEF LoopsInside
  <2>2. Top.last <= Len(hwnds) /\ Top.next \in Nat /\ Top.last \in Nat
    BY <2>1, TopFits DEF IInv, Fits, Call
  <2>. QED BY <2>1, <2>2, Domains DEF Unfinished, IInv
<1>. QED BY SpecIInv, <1>1, PTL
=============================================================================
