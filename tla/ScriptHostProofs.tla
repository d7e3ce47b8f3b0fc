---------------------------- MODULE ScriptHostProofs ----------------------------
(***************************************************************************)
(* Proofs about ScriptHost for every number of engines and every depth of  *)
(* nested calls: the callback map, which is filled and emptied apart from  *)
(* m_script_engine and m_has_error, never leads to another engine.         *)
(*                                                                         *)
(* The second part is about what a panel leaves behind: unless a load or   *)
(* unload begins inside another one, no engine is let go of unclosed, and  *)
(* between calls the panel keeps nothing of a script that was unloaded.    *)
(* That argument follows the one handler that may be changing the script   *)
(* (OneChange).  While top-level code runs under it, its engine is the     *)
(* panel's (ParseOwn) and need not be inited; when it is gone, an engine   *)
(* that is not inited has failed or was stopped (Pending, Settled).  An    *)
(* error's handler comes on top of that one and is gone before anything    *)
(* else runs (Shaped, Stopping).                                           *)
(***************************************************************************)
EXTENDS ScriptHost, SequenceFacts, TLAPS

\* The code of a script belongs to an engine that was made; Initialize waits below the
\* top-level code it runs, and a handler that is to load has room for it.
Fits(k) ==
    LET c == stack[k]
    IN  /\ c \in Call
        /\ c.at \in {"running", "thrown"} => c.engine \in 1 .. made
        /\ c.at = "parse" => c.does \in Handlers
        /\ c.does = "parse" => k > 1 /\ stack[k - 1].at = "parse"
        /\ c.at = "finalize" /\ c.does \in {"create", "reload"} => k < MaxDepth

CallsFit == \A k \in DOMAIN stack : Fits(k)

\* Only an engine that is connected and has not failed is without m_has_error.
EngineFits ==
    /\ engine \in 0 .. made
    /\ \A e \in Engine : e > made => state[e] = "connected"
    /\ engine # None /\ ~hasError => state[engine] = "connected" /\ engine \notin failed

IInv == TypeOK /\ CallsFit /\ EngineFits

-----------------------------------------------------------------------------
(* The stack *)

\* A new callback is one of the engine the panel has.
Reaches(k) ==
    stack[k].does \in {"callback", "unload"} /\ stack[k].at = "running" =>
      stack[k].engine = engine /\ state[engine] = "connected" /\ engine \notin failed

Reached == \A k \in DOMAIN stack' : NewCallback(k) => Reaches(k)'

LEMMA StackType ==
    ASSUME IInv
    PROVE  /\ stack \in Seq(Call) /\ Len(stack) \in Nat /\ DOMAIN stack = 1 .. Len(stack)
           /\ \A k \in 1 .. Len(stack) : stack[k] \in Call /\ Fits(k)
           /\ made \in 0 .. MaxEngines /\ MaxEngines \in Nat /\ MaxDepth \in Nat
BY HostAssumption DEF IInv, TypeOK, CallsFit

\* The calls that stay, and those after them.
LEMMA Shape ==
    ASSUME NEW base \in Seq(Call), NEW calls \in Seq(Call), stack' = base \o calls
    PROVE  /\ stack' \in Seq(Call) /\ Len(stack') = Len(base) + Len(calls)
           /\ Len(base) \in Nat /\ Len(calls) \in Nat
           /\ DOMAIN stack' = 1 .. Len(base) + Len(calls)
           /\ \A k \in 1 .. Len(base) : stack'[k] = base[k]
           /\ \A k \in Len(base) + 1 .. Len(base) + Len(calls) : stack'[k] = calls[k - Len(base)]
BY ConcatProperties

\* The calls up to n stay, those up to m are new and fit.
LEMMA CallsKept ==
    ASSUME IInv, NEW n \in Nat, NEW m \in Nat, n <= m, NEW l \in Nat, l = Len(stack), n <= l,
           DOMAIN stack' = 1 .. m, \A k \in 1 .. n : stack'[k] = stack[k],
           made' \in Nat, made <= made',
           \A k \in n + 1 .. m : Fits(k)' /\ Reaches(k)'
    PROVE  CallsFit' /\ Reached
<1>1. /\ DOMAIN stack = 1 .. l /\ made \in Nat
      /\ \A k \in 1 .. l : Fits(k)
  BY StackType
<1>2. ASSUME NEW k \in 1 .. n
      PROVE  Fits(k)' /\ ~NewCallback(k)
  <2>1. k \in 1 .. l /\ stack'[k] = stack[k] /\ k \in DOMAIN stack
    BY <1>1
  <2>2. k > 1 => stack'[k - 1] = stack[k - 1]
    OBVIOUS
  <2>3. Fits(k)
    BY <1>1, <2>1
  <2>. DEFINE c == stack[k]
  <2>4. c.engine \in 1 .. made => c.engine \in 1 .. made'
    BY <1>1
  <2>5. Fits(k)'
    BY <2>1, <2>2, <2>3, <2>4 DEF Fits
  <2>. QED BY <2>1, <2>5 DEF NewCallback
<1>3. \A k \in 1 .. m : k \in 1 .. n \/ k \in n + 1 .. m
  OBVIOUS
<1>4. CallsFit'
  BY <1>2, <1>3 DEF CallsFit
<1>5. Reached
  BY <1>2, <1>3 DEF Reached
<1>. QED BY <1>4, <1>5

LEMMA OneThenOne ==
    ASSUME NEW c \in Call, NEW d \in Call
    PROVE  <<c>> \o <<d>> = <<c, d>>
<1>1. <<c>> \in Seq(Call) /\ <<d>> \in Seq(Call) /\ Len(<<c>>) = 1 /\ Len(<<d>>) = 1
  OBVIOUS
<1>2. /\ <<c>> \o <<d>> \in Seq(Call) /\ Len(<<c>> \o <<d>>) = 2
      /\ (<<c>> \o <<d>>)[1] = c /\ (<<c>> \o <<d>>)[2] = d
  BY <1>1, ConcatProperties
<1>3. <<c, d>> \in Seq(Call) /\ Len(<<c, d>>) = 2 /\ <<c, d>>[1] = c /\ <<c, d>>[2] = d
  OBVIOUS
<1>4. \A k \in 1 .. 2 : k = 1 \/ k = 2
  OBVIOUS
<1>. QED BY <1>2, <1>3, <1>4, SeqEqual

\* Calls that fit replace those at the end of the stack.
LEMMA StackStep ==
    ASSUME IInv, NEW base \in Seq(Call), NEW calls \in Seq(Call), stack' = base \o calls,
           Len(base) <= Len(stack), \A k \in 1 .. Len(base) : base[k] = stack[k],
           Len(base) + Len(calls) <= MaxDepth, made' \in Nat, made <= made',
           \A k \in Len(base) + 1 .. Len(base) + Len(calls) : Fits(k)' /\ Reaches(k)'
    PROVE  /\ stack' \in Seq(Call) /\ Len(stack') <= MaxDepth
           /\ CallsFit' /\ Reached
<1>1. /\ stack' \in Seq(Call) /\ Len(stack') = Len(base) + Len(calls)
      /\ DOMAIN stack' = 1 .. Len(base) + Len(calls)
      /\ \A k \in 1 .. Len(base) : stack'[k] = stack[k]
  BY Shape
<1>2. /\ Len(base) \in Nat /\ Len(base) + Len(calls) \in Nat /\ Len(stack) \in Nat
      /\ Len(base) <= Len(base) + Len(calls)
  BY Shape, StackType
<1>3. CallsFit' /\ Reached
  BY <1>1, <1>2, CallsKept
<1>. QED BY <1>1, <1>3

\* The ends of the stack that the actions leave.
LEMMA Ends ==
    ASSUME IInv
    PROVE  /\ stack # <<>> =>
                /\ Front(stack) \in Seq(Call) /\ Len(Front(stack)) = Len(stack) - 1
                /\ \A k \in 1 .. Len(stack) - 1 : Front(stack)[k] = stack[k]
                /\ Len(stack) \in Nat \ {0} /\ Top \in Call /\ Fits(Len(stack))
                /\ Top.does = "parse" =>
                     /\ Front(Front(stack)) \in Seq(Call)
                     /\ Len(Front(Front(stack))) = Len(stack) - 2
                     /\ \A k \in 1 .. Len(stack) - 2 : Front(Front(stack))[k] = stack[k]
                     /\ Len(stack) > 1 /\ Below \in Call /\ Below.does \in Handlers
<1>. SUFFICES ASSUME stack # <<>>
             PROVE  /\ Front(stack) \in Seq(Call) /\ Len(Front(stack)) = Len(stack) - 1
                    /\ \A k \in 1 .. Len(stack) - 1 : Front(stack)[k] = stack[k]
                    /\ Len(stack) \in Nat \ {0} /\ Top \in Call /\ Fits(Len(stack))
                    /\ Top.does = "parse" =>
                         /\ Front(Front(stack)) \in Seq(Call)
                         /\ Len(Front(Front(stack))) = Len(stack) - 2
                         /\ \A k \in 1 .. Len(stack) - 2 : Front(Front(stack))[k] = stack[k]
                         /\ Len(stack) > 1 /\ Below \in Call /\ Below.does \in Handlers
  OBVIOUS
<1>1. /\ Front(stack) \in Seq(Call) /\ Len(Front(stack)) = Len(stack) - 1
      /\ \A k \in 1 .. Len(stack) - 1 : Front(stack)[k] = stack[k]
      /\ Len(stack) \in Nat \ {0}
  BY StackType, PopShape
<1>2. Top \in Call /\ Fits(Len(stack))
  BY <1>1, StackType DEF Top
<1>3. ASSUME Top.does = "parse"
      PROVE  /\ Front(Front(stack)) \in Seq(Call)
             /\ Len(Front(Front(stack))) = Len(stack) - 2
             /\ \A k \in 1 .. Len(stack) - 2 : Front(Front(stack))[k] = stack[k]
             /\ Len(stack) > 1 /\ Below \in Call /\ Below.does \in Handlers
  <2>1. Len(stack) > 1 /\ stack[Len(stack) - 1].at = "parse"
    BY <1>2, <1>3 DEF Fits, Top
  <2>2. Len(stack) - 1 \in 1 .. Len(stack)
    BY <1>1, <2>1
  <2>3. Below \in Call /\ Fits(Len(stack) - 1)
    BY <2>2, StackType DEF Below
  <2>4. Below.does \in Handlers
    BY <2>1, <2>3 DEF Fits, Below
  <2>5. Front(stack) # <<>>
    BY <1>1, <2>1, EmptySeq
  <2>6. /\ Front(Front(stack)) \in Seq(Call)
        /\ Len(Front(Front(stack))) = Len(Front(stack)) - 1
        /\ \A k \in 1 .. Len(Front(stack)) - 1 : Front(Front(stack))[k] = Front(stack)[k]
    BY <1>1, <2>5, PopShape
  <2>. QED BY <1>1, <2>1, <2>3, <2>4, <2>6
<1>. QED BY <1>1, <1>2, <1>3

\* What is asked of a new call c, the k-th.
Suits(c, k) ==
    /\ c.at \in {"running", "thrown"} => c.engine \in 1 .. made'
    /\ c.at = "parse" => c.does \in Handlers
    /\ c.at = "finalize" /\ c.does \in {"create", "reload"} => k < MaxDepth
    /\ c.does \in {"callback", "unload"} /\ c.at = "running" =>
         c.engine = engine' /\ state'[engine'] = "connected" /\ engine' \notin failed'

StackGoal == stack' \in Seq(Call) /\ Len(stack') <= MaxDepth /\ CallsFit' /\ Reached

\* A base of the stack.
Base(base) ==
    /\ base \in Seq(Call) /\ Len(base) <= Len(stack) /\ Len(base) <= MaxDepth
    /\ \A k \in 1 .. Len(base) : base[k] = stack[k]

LEMMA Bases ==
    ASSUME IInv
    PROVE  /\ Base(stack)
           /\ stack # <<>> => Base(Front(stack)) /\ Len(Front(stack)) < MaxDepth
           /\ stack # <<>> /\ Top.does = "parse" =>
                Base(Front(Front(stack))) /\ Len(Front(Front(stack))) + 2 <= MaxDepth
<1>1. Len(stack) <= MaxDepth
  BY DEF IInv, TypeOK
<1>2. Base(stack)
  BY <1>1, StackType DEF Base
<1>3. ASSUME stack # <<>>
      PROVE  Base(Front(stack)) /\ Len(Front(stack)) < MaxDepth
  <2>1. Len(stack) \in Nat \ {0} /\ Len(Front(stack)) = Len(stack) - 1
    BY <1>3, Ends
  <2>2. Len(Front(stack)) <= Len(stack) /\ Len(Front(stack)) < MaxDepth
    BY <1>1, <2>1, StackType
  <2>3. \A k \in 1 .. Len(Front(stack)) : Front(stack)[k] = stack[k]
    BY <1>3, <2>1, Ends
  <2>. QED BY <1>3, <2>1, <2>2, <2>3, Ends, StackType DEF Base
<1>4. ASSUME stack # <<>>, Top.does = "parse"
      PROVE  Base(Front(Front(stack))) /\ Len(Front(Front(stack))) + 2 <= MaxDepth
  <2>1. Len(stack) \in Nat \ {0} /\ Len(Front(Front(stack))) = Len(stack) - 2 /\ Len(stack) > 1
    BY <1>4, Ends
  <2>2. Len(Front(Front(stack))) <= Len(stack) /\ Len(Front(Front(stack))) + 2 <= MaxDepth
    BY <1>1, <2>1, StackType
  <2>3. \A k \in 1 .. Len(Front(Front(stack))) : Front(Front(stack))[k] = stack[k]
    BY <1>4, <2>1, Ends
  <2>. QED BY <1>4, <2>1, <2>2, <2>3, Ends, StackType DEF Base
<1>. QED BY <1>2, <1>3, <1>4

LEMMA NoCall ==
    ASSUME IInv, NEW base, Base(base), stack' = base, made' \in Nat, made <= made'
    PROVE  StackGoal
<1>1. base \in Seq(Call) /\ <<>> \in Seq(Call) /\ Len(<<>>) = 0
  BY DEF Base
<1>2. stack' = base \o <<>>
  BY <1>1, ConcatEmptySeq
<1>3. Len(base) \in Nat /\ Len(base) + Len(<<>>) = Len(base)
  BY <1>1
<1>4. \A k \in Len(base) + 1 .. Len(base) + Len(<<>>) : Fits(k)' /\ Reaches(k)'
  BY <1>3
<1>. QED BY <1>1, <1>2, <1>3, <1>4, StackStep DEF Base, StackGoal

LEMMA OneCall ==
    ASSUME IInv, NEW base, Base(base), NEW c \in Call, stack' = base \o <<c>>,
           Len(base) + 1 <= MaxDepth, made' \in Nat, made <= made',
           Suits(c, Len(base) + 1),
           c.does = "parse" => Len(base) > 0 /\ stack[Len(base)].at = "parse"
    PROVE  StackGoal
<1>1. base \in Seq(Call) /\ <<c>> \in Seq(Call) /\ Len(<<c>>) = 1 /\ <<c>>[1] = c
  BY DEF Base
<1>. DEFINE n == Len(base)
<1>2. n \in Nat /\ n + Len(<<c>>) = n + 1
  BY <1>1
<1>3. /\ \A k \in 1 .. n : stack'[k] = base[k]
      /\ \A k \in n + 1 .. n + 1 : stack'[k] = <<c>>[k - n]
  BY <1>1, <1>2, Shape
<1>4. stack'[n + 1] = c
  BY <1>1, <1>2, <1>3
<1>5. c.does = "parse" => n + 1 > 1 /\ stack'[n + 1 - 1].at = "parse"
  BY <1>2, <1>3 DEF Base
<1>6. Fits(n + 1)' /\ Reaches(n + 1)'
  BY <1>4, <1>5 DEF Fits, Reaches, Suits
<1>7. \A k \in n + 1 .. n + Len(<<c>>) : Fits(k)' /\ Reaches(k)'
  <2>1. \A k \in n + 1 .. n + Len(<<c>>) : k = n + 1
    BY <1>2
  <2>. QED BY <1>6, <2>1
<1>. QED BY <1>1, <1>2, <1>7, StackStep DEF Base, StackGoal

LEMMA TwoCalls ==
    ASSUME IInv, NEW base, Base(base), NEW c \in Call, NEW d \in Call,
           stack' = base \o <<c, d>>,
           Len(base) + 2 <= MaxDepth, made' \in Nat, made <= made',
           Suits(c, Len(base) + 1), Suits(d, Len(base) + 2),
           c.does = "parse" => Len(base) > 0 /\ stack[Len(base)].at = "parse",
           d.does = "parse" => c.at = "parse"
    PROVE  StackGoal
<1>1. base \in Seq(Call) /\ <<c, d>> \in Seq(Call) /\ Len(<<c, d>>) = 2
      /\ <<c, d>>[1] = c /\ <<c, d>>[2] = d
  BY DEF Base
<1>. DEFINE n == Len(base)
<1>2. n \in Nat /\ n + Len(<<c, d>>) = n + 2
  BY <1>1
<1>3. /\ \A k \in 1 .. n : stack'[k] = base[k]
      /\ \A k \in n + 1 .. n + 2 : stack'[k] = <<c, d>>[k - n]
  BY <1>1, <1>2, Shape
<1>4. stack'[n + 1] = c /\ stack'[n + 2] = d
  BY <1>1, <1>2, <1>3
<1>5. /\ c.does = "parse" => n + 1 > 1 /\ stack'[n + 1 - 1].at = "parse"
      /\ n + 2 > 1 /\ n + 2 - 1 = n + 1
  BY <1>2, <1>3 DEF Base
<1>6. Fits(n + 1)' /\ Reaches(n + 1)'
  BY <1>4, <1>5 DEF Fits, Reaches, Suits
<1>7. Fits(n + 2)' /\ Reaches(n + 2)'
  BY <1>4, <1>5 DEF Fits, Reaches, Suits
<1>8. \A k \in n + 1 .. n + Len(<<c, d>>) : Fits(k)' /\ Reaches(k)'
  <2>1. \A k \in n + 1 .. n + Len(<<c, d>>) : k = n + 1 \/ k = n + 2
    BY <1>2
  <2>. QED BY <1>6, <1>7, <2>1
<1>. QED BY <1>1, <1>2, <1>8, StackStep DEF Base, StackGoal

-----------------------------------------------------------------------------
(* The steps *)

Goal == IInv' /\ Reached

LEMMA Frames ==
    /\ \A op \in Handlers, at \in {"finalize", "parse", "size"} :
         /\ Handling(op, at) \in Call
         /\ Handling(op, at).does = op /\ Handling(op, at).at = at
    /\ \A e \in Engine, code \in Code :
         /\ Running(e, code) \in Call
         /\ Running(e, code).does = code /\ Running(e, code).engine = e
         /\ Running(e, code).at = "running"
BY DEF Handling, Running, Call, Handlers, Code

\* Who can be called is current.
LEMMA Callable ==
    ASSUME IInv, CanInvoke
    PROVE  /\ invoker = engine /\ engine \in Engine /\ engine \in 1 .. made
           /\ state[engine] = "connected" /\ engine \notin failed
BY StackType DEF IInv, TypeOK, EngineFits, CanInvoke, None, Engine

LEMMA EngineRange == ASSUME IInv PROVE Engine = 1 .. MaxEngines /\ 1 .. made \subseteq Engine
BY StackType DEF Engine

\* Only the stack, the window and the histories change.
Same == UNCHANGED <<hostVars, registered, timers, made, state, failed, blamed>>

LEMMA SameState ==
    ASSUME IInv, Same, StackGoal, window' \in {"none", "open", "gone"},
           late' \subseteq 1 .. made, disturbed' \in BOOLEAN
    PROVE  Goal
BY DEF IInv, Same, StackGoal, Goal, TypeOK, EngineFits, hostVars

LEMMA EventStep == ASSUME IInv, Event PROVE Goal
<1>1. /\ CanInvoke /\ stack' = stack \o <<Running(invoker, "callback")>>
      /\ Len(stack) + 1 <= MaxDepth /\ Same /\ UNCHANGED <<window, late, disturbed>>
  BY DEF Event, Callback, Room, Same, history
<1>2. Running(invoker, "callback") \in Call /\ Suits(Running(invoker, "callback"), Len(stack) + 1)
  BY <1>1, Callable, Frames DEF Suits, Same, hostVars, Code
<1>3. Running(invoker, "callback").does # "parse"
  BY DEF Running
<1>4. made' \in Nat /\ made <= made'
  BY <1>1, StackType DEF Same
<1>5. StackGoal
  BY <1>1, <1>2, <1>3, <1>4, Bases, OneCall
<1>. QED BY <1>1, <1>5, SameState DEF IInv, TypeOK

LEMMA TimerStep == ASSUME IInv, NEW e \in Engine, Timer(e) PROVE Goal
<1>1. /\ e \in timers /\ stack' = stack \o <<Running(e, "timer")>>
      /\ Len(stack) + 1 <= MaxDepth /\ Same /\ UNCHANGED <<window, late, disturbed>>
  BY DEF Timer, Room, Same, history
<1>2. e \in 1 .. made
  BY <1>1 DEF IInv, TypeOK
<1>3. Running(e, "timer") \in Call /\ Suits(Running(e, "timer"), Len(stack) + 1)
  BY <1>1, <1>2, Frames DEF Suits, Same, hostVars, Code
<1>4. Running(e, "timer").does # "parse"
  BY DEF Running
<1>5. made' \in Nat /\ made <= made'
  BY <1>1, StackType DEF Same
<1>6. StackGoal
  BY <1>1, <1>3, <1>4, <1>5, Bases, OneCall
<1>. QED BY <1>1, <1>6, SameState DEF IInv, TypeOK

LEMMA SetTimerStep == ASSUME IInv, SetTimer PROVE Goal
<1>1. Top.engine \in 1 .. made
  BY Ends DEF SetTimer, Active, Fits, Top
<1>2. StackGoal
  <2>1. stack' = stack /\ made' \in Nat /\ made <= made'
    BY StackType DEF SetTimer
  <2>. QED BY <2>1, Bases, NoCall
<1>3. timers' \subseteq 1 .. made' /\ late' \subseteq 1 .. made'
  BY <1>1 DEF IInv, TypeOK, SetTimer
<1>. QED BY <1>2, <1>3 DEF SetTimer, IInv, StackGoal, Goal, TypeOK, EngineFits, hostVars

LEMMA ReturnStep == ASSUME IInv, Return PROVE Goal
<1>1. StackGoal
  <2>1. stack # <<>> /\ stack' = Front(stack) /\ made' \in Nat /\ made <= made'
    BY StackType DEF Return
  <2>. QED BY <2>1, Bases, NoCall
<1>. QED BY <1>1, SameState DEF Return, Same, history, IInv, TypeOK

LEMMA BeginStep == ASSUME IInv, NEW op \in Handlers, Begin(op) PROVE Goal
<1>. DEFINE h == Handling(op, "finalize")
            u == Running(invoker, "unload")
<1>1. /\ Same /\ UNCHANGED late /\ window' = "open" /\ disturbed' \in BOOLEAN
      /\ made' \in Nat /\ made <= made'
  BY StackType DEF Begin, Same, IInv, TypeOK
<1>2. Len(stack) \in Nat /\ Len(stack) + 2 <= MaxDepth
      /\ Len(stack) + 1 < MaxDepth /\ Len(stack) + 1 <= MaxDepth
  BY StackType DEF Begin, Room
<1>3. h \in Call /\ h.does # "parse" /\ Suits(h, Len(stack) + 1)
  BY <1>2, Frames DEF Suits, Handlers, Handling
<1>4. CASE CanInvoke
  <2>1. stack' = stack \o <<h, u>>
    BY <1>4 DEF Begin, Finalizing, Callback
  <2>2. u \in Call /\ Suits(u, Len(stack) + 2)
    BY <1>1, <1>4, Callable, Frames DEF Suits, Same, hostVars, Code
  <2>3. u.does # "parse"
    BY DEF Running
  <2>. HIDE DEF h, u
  <2>4. StackGoal
    BY <1>1, <1>2, <1>3, <2>1, <2>2, <2>3, Bases, TwoCalls
  <2>. QED BY <1>1, <2>4, SameState DEF IInv, TypeOK
<1>5. CASE ~CanInvoke
  <2>1. stack' = stack \o <<h>>
    BY <1>5 DEF Begin, Finalizing, Callback
  <2>. HIDE DEF h
  <2>2. StackGoal
    BY <1>1, <1>2, <1>3, <2>1, Bases, OneCall
  <2>. QED BY <1>1, <2>2, SameState DEF IInv, TypeOK
<1>. QED BY <1>4, <1>5

\* Finalize closes no other engine than the one it lets go of.
LEMMA ClosedFacts ==
    ASSUME IInv
    PROVE  /\ Closed \in [Engine -> {"connected", "stopped", "closed"}]
           /\ \A e \in Engine : e > made => Closed[e] = "connected"
           /\ StillInited \in BOOLEAN
<1>1. Closed \in [Engine -> {"connected", "stopped", "closed"}] /\ StillInited \in BOOLEAN
  BY DEF Closed, StillInited, IInv, TypeOK
<1>2. ASSUME NEW e \in Engine, e > made
      PROVE  Closed[e] = "connected"
  <2>1. e # engine /\ state[e] = "connected"
    BY <1>2, StackType DEF IInv, EngineFits, Engine
  <2>. QED BY <2>1 DEF Closed, IInv, TypeOK
<1>. QED BY <1>1, <1>2

LEMMA EndHandlerStep == ASSUME IInv, EndHandler PROVE Goal
<1>1. StackGoal
  <2>1. stack # <<>> /\ stack' = Front(stack) /\ made' \in Nat /\ made <= made'
    BY StackType DEF EndHandler
  <2>. QED BY <2>1, Bases, NoCall
<1>2. TypeOK'
  BY <1>1, ClosedFacts DEF EndHandler, IInv, StackGoal, TypeOK, history, TargetAfter,
     TimersAfter, Reset, None
<1>3. EngineFits'
  BY ClosedFacts, StackType DEF EndHandler, EngineFits, None
<1>. QED BY <1>1, <1>2, <1>3 DEF StackGoal, Goal, IInv

LEMMA NoEngineStep == ASSUME IInv, StartEngine, NoEngine PROVE Goal
<1>1. /\ made' \in 0 .. MaxEngines /\ made <= made' /\ made' <= made + 1
      /\ failed' \subseteq 1 .. made' /\ engine' \in {None, made'} /\ engine' \in Engine \cup {None}
  <2>1. made \in Nat /\ MaxEngines \in Nat /\ made <= MaxEngines /\ failed \subseteq 1 .. made
    BY StackType DEF IInv, TypeOK
  <2>2. CASE engine' = None /\ UNCHANGED <<made, failed>>
    BY <2>1, <2>2
  <2>3. CASE made + 1 \in Engine /\ engine' = made + 1 /\ made' = made + 1
             /\ failed' = failed \cup {made + 1}
    BY <2>1, <2>3 DEF Engine
  <2>. QED BY <2>2, <2>3 DEF NoEngine, Fresh
<1>2. StackGoal
  <2>1. stack # <<>> /\ stack' = Front(stack) /\ made' \in Nat /\ made <= made'
    BY <1>1, StackType DEF StartEngine, NoEngine
  <2>. QED BY <2>1, Bases, NoCall
<1>3. /\ timers' \subseteq 1 .. made' /\ late' \subseteq 1 .. made'
      /\ blamed' \subseteq 1 .. made' /\ registered' \in BOOLEAN
  BY <1>1, StackType DEF StartEngine, TimersAfter, TargetAfter, IInv, TypeOK
<1>4. TypeOK'
  BY <1>1, <1>2, <1>3, ClosedFacts DEF StartEngine, NoEngine, IInv, StackGoal, TypeOK, Reset, None
<1>5. EngineFits'
  <2>1. engine' \in 0 .. made' /\ hasError'
    BY <1>1, StackType DEF NoEngine, None
  <2>2. \A e \in Engine : e > made' => state'[e] = "connected"
    BY <1>1, ClosedFacts, StackType DEF StartEngine, Engine
  <2>. QED BY <2>1, <2>2 DEF EngineFits
<1>. QED BY <1>2, <1>4, <1>5 DEF StackGoal, Goal, IInv

LEMMA NewEngineStep == ASSUME IInv, StartEngine, NewEngine PROVE Goal
<1>. DEFINE h == Handling(Top.does, "parse")
            p == Running(made + 1, "parse")
<1>1. /\ made' = made + 1 /\ made' \in 1 .. MaxEngines /\ made \in Nat
      /\ made + 1 \in Engine /\ engine' = made' /\ root' = made'
  BY StackType DEF NewEngine, Fresh, Engine
<1>2. stack # <<>> /\ Top.does \in {"create", "reload"} /\ stack' = Front(stack) \o <<h, p>>
  BY DEF StartEngine, NewEngine, Replaced, Fresh
<1>3. Len(Front(stack)) + 2 <= MaxDepth
  <2>1. Len(stack) < MaxDepth /\ Len(Front(stack)) = Len(stack) - 1 /\ Len(stack) \in Nat
    BY <1>2, Ends DEF StartEngine, Fits, Top
  <2>. QED BY <2>1, StackType
<1>4. h \in Call /\ h.does # "parse" /\ h.at = "parse" /\ Suits(h, Len(Front(stack)) + 1)
  BY <1>2, Frames DEF Suits, Handlers, Handling
<1>5. p \in Call /\ Suits(p, Len(Front(stack)) + 2)
  BY <1>1, Frames DEF Suits, Code
<1>6. StackGoal
  <2>1. Base(Front(stack)) /\ made' \in Nat /\ made <= made'
    BY <1>1, <1>2, Bases
  <2>. HIDE DEF h, p
  <2>. QED BY <1>2, <1>3, <1>4, <1>5, <2>1, TwoCalls
<1>7. /\ timers' \subseteq 1 .. made' /\ late' \subseteq 1 .. made' /\ failed' \subseteq 1 .. made'
      /\ blamed' \subseteq 1 .. made' /\ registered' \in BOOLEAN
  BY <1>1 DEF StartEngine, NewEngine, TimersAfter, TargetAfter, IInv, TypeOK
<1>8. TypeOK'
  <2>1. made' \in 0 .. MaxEngines /\ engine' \in Engine
    BY <1>1, StackType
  <2>2. /\ inited' \in BOOLEAN /\ hasError' = FALSE /\ root' = engine' /\ invoker' = None
        /\ state' \in [Engine -> {"connected", "stopped", "closed"}]
        /\ UNCHANGED <<window, disturbed>>
    BY <1>1, ClosedFacts DEF StartEngine, NewEngine, Reset
  <2>. QED BY <1>6, <1>7, <2>1, <2>2 DEF IInv, StackGoal, TypeOK
<1>9. EngineFits'
  <2>1. \A e \in Engine : e > made => state'[e] = "connected"
    BY ClosedFacts DEF StartEngine
  <2>2. state'[made + 1] = "connected" /\ \A e \in Engine : e > made' => state'[e] = "connected"
    BY <1>1, <2>1 DEF Engine
  <2>3. made + 1 \notin failed'
    BY <1>1 DEF NewEngine, IInv, TypeOK
  <2>. QED BY <1>1, <2>2, <2>3 DEF EngineFits
<1>. QED BY <1>6, <1>8, <1>9 DEF StackGoal, Goal, IInv

LEMMA EndParseStep == ASSUME IInv, EndParse PROVE Goal
<1>. DEFINE base == Front(Front(stack))
            h == Handling(Below.does, "size")
            c == Running(invoker', "callback")
<1>1. PICK ok \in BOOLEAN :
        /\ Outcome(ok)
        /\ IF ok
           THEN /\ registered' \in {registered, TRUE}
                /\ stack' = base \o <<h>> \o IF Open /\ CanInvoke' THEN <<c>> ELSE <<>>
           ELSE stack' = base /\ UNCHANGED registered
  BY DEF EndParse
<1>2. /\ UNCHANGED <<window, engine, root, timers, made, state, history>> /\ invoker' = root
      /\ inited' \in BOOLEAN /\ hasError' \in BOOLEAN /\ registered' \in BOOLEAN
      /\ ~hasError' => ~hasError
  BY <1>1 DEF EndParse, Outcome, IInv, TypeOK
<1>3. /\ Base(base) /\ Len(base) + 2 <= MaxDepth /\ Len(base) \in Nat /\ Len(base) + 1 <= MaxDepth
      /\ made' \in Nat /\ made <= made' /\ Below.does \in Handlers
  BY <1>2, Bases, Ends, StackType DEF EndParse, Base
<1>4. h \in Call /\ h.does # "parse" /\ Suits(h, Len(base) + 1)
  BY <1>3, Frames DEF Suits, Handlers, Handling
<1>5. StackGoal
  <2>1. CASE ok /\ Open /\ CanInvoke'
    <3>1. /\ engine' = engine /\ state' = state /\ failed' = failed /\ made' = made
          /\ invoker' = engine /\ engine # None /\ ~hasError
      BY <1>2, <2>1 DEF CanInvoke, history, IInv, TypeOK
    <3>2. /\ engine \in Engine /\ engine \in 1 .. made
          /\ state[engine] = "connected" /\ engine \notin failed
      BY <3>1, StackType DEF IInv, TypeOK, EngineFits, None
    <3>3. c \in Call /\ Suits(c, Len(base) + 2)
      BY <3>1, <3>2, Frames DEF Suits, Code
    <3>4. c.does # "parse"
      BY DEF Running
    <3>. HIDE DEF h, c
    <3>5. base \o <<h>> \o <<c>> = base \o <<h, c>>
      <4>1. base \in Seq(Call) /\ <<h>> \in Seq(Call) /\ <<c>> \in Seq(Call)
        BY <1>3, <1>4, <3>3 DEF Base
      <4>2. base \o <<h>> \o <<c>> = base \o (<<h>> \o <<c>>)
        BY <4>1, ConcatAssociative
      <4>. QED BY <1>4, <3>3, <4>2, OneThenOne
    <3>6. stack' = base \o <<h, c>>
      BY <1>1, <2>1, <3>5
    <3>. HIDE DEF base
    <3>. QED BY <1>3, <1>4, <3>3, <3>4, <3>6, TwoCalls
  <2>2. CASE ok /\ ~(Open /\ CanInvoke')
    <3>. HIDE DEF h
    <3>1. base \o <<h>> \o <<>> = base \o <<h>>
      BY <1>3, <1>4, ConcatEmptySeq DEF Base
    <3>2. stack' = base \o <<h>>
      BY <1>1, <2>2, <3>1
    <3>. HIDE DEF base
    <3>. QED BY <1>3, <1>4, <3>2, OneCall
  <2>3. CASE ~ok
    <3>1. stack' = base
      BY <1>1, <2>3
    <3>. HIDE DEF base
    <3>. QED BY <1>3, <3>1, NoCall
  <2>. QED BY <2>1, <2>2, <2>3
<1>6. TypeOK'
  BY <1>2, <1>5 DEF IInv, StackGoal, TypeOK, history
<1>7. EngineFits'
  BY <1>2 DEF IInv, EngineFits, history
<1>. QED BY <1>5, <1>6, <1>7 DEF StackGoal, Goal, IInv

LEMMA ThrowStep == ASSUME IInv, Throw PROVE Goal
<1>. DEFINE base == Front(stack)
            t == [Top EXCEPT !.at = "thrown"]
            h == Handling("error", "finalize")
<1>1. /\ stack # <<>> /\ Top.at = "running" /\ hasError' = TRUE
      /\ failed' = failed \cup {Top.engine}
      /\ UNCHANGED <<window, engine, root, invoker, registered, timers, made, late>>
      /\ blamed' = IF engine \in {None, Top.engine} THEN blamed ELSE blamed \cup {engine}
  BY DEF Throw
<1>2. /\ Base(base) /\ Len(base) + 1 <= MaxDepth /\ Len(base) \in Nat
      /\ Len(base) + 1 = Len(stack) /\ Len(stack) \in Nat
      /\ made' \in Nat /\ made <= made'
  BY <1>1, Bases, Ends, StackType DEF Base
<1>3. Top \in Call /\ Fits(Len(stack)) /\ Top = stack[Len(stack)] /\ Top.engine \in 1 .. made
  BY <1>1, Ends DEF Fits, Top
<1>4. t \in Call /\ t.at = "thrown" /\ t.engine = Top.engine /\ t.does = Top.does
  BY <1>3 DEF Call
<1>5. Suits(t, Len(base) + 1)
  BY <1>1, <1>3, <1>4 DEF Suits
<1>6. t.does = "parse" => Len(base) > 0 /\ stack[Len(base)].at = "parse"
  BY <1>2, <1>3, <1>4 DEF Fits
<1>7. failed' \subseteq 1 .. made' /\ blamed' \subseteq 1 .. made'
  <2>1. made \in Nat /\ engine \in 0 .. made /\ None = 0
    BY StackType DEF IInv, EngineFits, None
  <2>2. engine # None => engine \in 1 .. made
    BY <2>1
  <2>. QED BY <1>1, <1>3, <2>2 DEF IInv, TypeOK
<1>8. ASSUME stack' = base \o <<t>>, UNCHANGED <<inited, state, disturbed>>
      PROVE  Goal
  <2>. HIDE DEF base, t
  <2>1. StackGoal
    BY <1>2, <1>4, <1>5, <1>6, <1>8, OneCall
  <2>2. TypeOK'
    BY <1>1, <1>7, <1>8, <2>1 DEF IInv, TypeOK, StackGoal
  <2>3. EngineFits'
    BY <1>1, <1>8 DEF IInv, EngineFits
  <2>. QED BY <2>1, <2>2, <2>3 DEF StackGoal, Goal, IInv
<1>9. ASSUME stack' = base \o (<<t>> \o <<h>>), Room(1), inited' = FALSE,
             state' = IF engine = None THEN state ELSE [state EXCEPT ![engine] = "stopped"],
             disturbed' \in BOOLEAN
      PROVE  Goal
  <2>1. stack' = base \o <<t, h>>
    BY SMTT(30), <1>9
  <2>2. Len(base) + 2 <= MaxDepth
    BY <1>2, <1>9, StackType DEF Room
  <2>3. h \in Call /\ h.does # "parse" /\ Suits(h, Len(base) + 2)
    BY Frames DEF Suits, Handlers, Handling
  <2>. HIDE DEF base, t, h
  <2>4. StackGoal
    BY <1>2, <1>4, <1>5, <1>6, <2>1, <2>2, <2>3, TwoCalls
  <2>5. TypeOK'
    BY <1>1, <1>7, <1>9, <2>4 DEF IInv, TypeOK, StackGoal
  <2>6. \A e \in Engine : e > made => e # engine /\ state[e] = "connected"
    BY StackType DEF IInv, EngineFits, Engine
  <2>7. EngineFits'
    BY <1>1, <1>9, <2>6 DEF IInv, EngineFits, TypeOK
  <2>. QED BY <2>4, <2>5, <2>7 DEF StackGoal, Goal, IInv
<1>. QED BY <1>8, <1>9 DEF Throw, Replaced, IInv, TypeOK

-----------------------------------------------------------------------------
(* The specification *)

LEMMA InitIInv == Init => IInv
<1>. SUFFICES ASSUME Init PROVE IInv
  OBVIOUS
<1>1. stack \in Seq(Call) /\ Len(stack) = 0 /\ DOMAIN stack = {}
  BY DEF Init
<1>2. TypeOK
  <2>1. state \in [Engine -> {"connected", "stopped", "closed"}]
    BY DEF Init
  <2>2. made \in 0 .. MaxEngines /\ Len(stack) <= MaxDepth
    BY <1>1, HostAssumption DEF Init
  <2>. QED BY <1>1, <2>1, <2>2 DEF Init, TypeOK, None
<1>3. CallsFit /\ EngineFits
  BY <1>1 DEF Init, CallsFit, EngineFits, None
<1>. QED BY <1>2, <1>3 DEF IInv

LEMMA NextIInv == ASSUME IInv, Next PROVE Goal
<1>1. CASE Event
  BY <1>1, EventStep
<1>2. CASE SetTimer
  BY <1>2, SetTimerStep
<1>3. CASE Return
  BY <1>3, ReturnStep
<1>4. ASSUME NEW e \in Engine, Timer(e) PROVE Goal
  BY <1>4, TimerStep
<1>5. ASSUME NEW op \in Handlers, Begin(op) PROVE Goal
  BY <1>5, BeginStep
<1>6. CASE EndHandler
  BY <1>6, EndHandlerStep
<1>7. CASE StartEngine
  BY <1>7, NoEngineStep, NewEngineStep DEF StartEngine
<1>8. CASE EndParse
  BY <1>8, EndParseStep
<1>9. CASE Throw
  BY <1>9, ThrowStep
<1>. QED BY <1>1, <1>2, <1>3, <1>4, <1>5, <1>6, <1>7, <1>8, <1>9 DEF Next

LEMMA StepIInv == ASSUME IInv, [Next]_vars PROVE Goal
<1>1. CASE UNCHANGED vars
  <2>1. IInv'
    BY <1>1 DEF IInv, TypeOK, CallsFit, Fits, EngineFits, vars, hostVars, history
  <2>2. Reached
    BY <1>1 DEF Reached, NewCallback, vars
  <2>. QED BY <2>1, <2>2 DEF Goal
<1>. QED BY <1>1, NextIInv

LEMMA SpecIInv == Spec => []IInv
<1>1. IInv /\ [Next]_vars => IInv'
  BY StepIInv DEF Goal
<1>. QED BY InitIInv, <1>1, PTL DEF Spec

\* Every variable has its type; the map lists the functions of no engine but the one the
\* panel has (m_callbackInvokerMap, m_script_root, m_script_engine).
THEOREM TypeCorrect == Spec => []TypeOK
<1>1. IInv => TypeOK
  BY DEF IInv
<1>. QED BY <1>1, SpecIInv, PTL

\* InvokeCallback never calls an engine that was closed, stopped, replaced or has failed,
\* however loads, unloads and errors nest.
THEOREM CallbacksAreCurrent == Spec => CallbacksReachCurrent
<1>1. IInv /\ [Next]_vars =>
        [\A k \in DOMAIN stack' :
           NewCallback(k) => /\ stack'[k].engine = engine'
                             /\ state'[engine'] = "connected" /\ engine' \notin failed']_vars
  BY StepIInv DEF Goal, Reached, Reaches, NewCallback
<1>. QED BY <1>1, SpecIInv, PTL DEF Spec, CallbacksReachCurrent

-----------------------------------------------------------------------------
(* What is left behind: the invariant *)

ChangesAt(k) == stack[k].at \in {"finalize", "parse"}

\* Code runs or has thrown, handlers do not; an error's handler and WM_CREATE's
\* Finalize are never interrupted.
Shaped(k) ==
    LET c == stack[k]
    IN  /\ c.does \in Code <=> c.at \in {"running", "thrown"}
        /\ c.at = "thrown" => c.engine \in failed
        /\ c.does = "unload" => k > 1 /\ stack[k - 1].at = "finalize"
        /\ c.does = "error" => k = Len(stack) /\ c.at = "finalize"
        /\ c.does = "create" /\ c.at = "finalize" => k = Len(stack) /\ made = 0 /\ ~registered

AllShaped == \A k \in DOMAIN stack : Shaped(k)

\* Before WM_CREATE there is nothing.
Before == window = "none" => made = 0 /\ stack = <<>> /\ ~registered

\* The engine the panel has was not closed, and timers of others were set by code that
\* outlived its script.
Kept ==
    /\ engine # None => state[engine] # "closed"
    /\ timers \subseteq late \cup {engine}

\* Under an error's handler the engine was stopped.
Stopping ==
    \A k \in DOMAIN stack : stack[k].does = "error" =>
        /\ engine # None => state[engine] # "connected"
        /\ ~disturbed => \A j \in DOMAIN stack : stack[j].does = "parse" => stack[j].at = "thrown"

OneChange ==
    \A j, k \in DOMAIN stack :
        /\ ChangesAt(j) /\ stack[j].does # "error"
        /\ ChangesAt(k) /\ stack[k].does # "error"
        => j = k

\* Top-level code belongs to the panel's engine, until an error of its own unloads it.
ParseOwn ==
    \A k \in DOMAIN stack : stack[k].does = "parse" =>
        /\ engine \in {None, stack[k].engine}
        /\ stack[k].at = "running" => engine = stack[k].engine /\ root = engine

\* Only the engine of top-level code is sound and not inited.
Pending ==
    engine # None /\ ~inited /\ state[engine] = "connected" /\ engine \notin failed =>
        \E k \in DOMAIN stack : stack[k].at = "parse"

\* When no handler changes the script, its engine can be called or has failed.
Settled ==
    engine # None /\ ~Changing => engine \in failed \/ (inited /\ invoker = engine)

WindowThere == engine # None \/ Changing => Open

Unregistered == engine = None => ~registered

Undisturbed ==
    ~disturbed => /\ OneChange /\ ParseOwn /\ Pending /\ Settled /\ WindowThere
                  /\ Unregistered /\ NoEngineLost

LifeInv == AllShaped /\ Before /\ Kept /\ Stopping /\ Undisturbed

-----------------------------------------------------------------------------
(* The stack *)

LEMMA Top1 ==
    ASSUME IInv, LifeInv, stack # <<>>
    PROVE  /\ Len(stack) \in Nat \ {0} /\ DOMAIN stack = 1 .. Len(stack)
           /\ Len(stack) \in DOMAIN stack /\ Top = stack[Len(stack)]
           /\ Top \in Call /\ Fits(Len(stack)) /\ Shaped(Len(stack))
           /\ window # "none"
<1>1. Len(stack) \in Nat \ {0} /\ DOMAIN stack = 1 .. Len(stack) /\ Top \in Call /\ Fits(Len(stack))
  BY Ends, StackType
<1>2. Len(stack) \in DOMAIN stack
  BY <1>1
<1>. QED BY <1>1, <1>2 DEF Top, LifeInv, AllShaped, Before

\* Below the top there is no error's handler and no WM_CREATE that unloads.
LEMMA BelowTop ==
    ASSUME IInv, LifeInv, NEW k \in 1 .. Len(stack), k < Len(stack)
    PROVE  /\ stack[k] \in Call /\ Fits(k) /\ Shaped(k)
           /\ stack[k].does # "error"
           /\ ~(stack[k].does = "create" /\ stack[k].at = "finalize")
<1>1. k \in DOMAIN stack /\ stack[k] \in Call /\ Fits(k) /\ Len(stack) \in Nat
  BY StackType
<1>2. Shaped(k)
  BY <1>1 DEF LifeInv, AllShaped
<1>. QED BY <1>1, <1>2 DEF Shaped

\* When code runs nor is there one on top.
LEMMA NoneRuns ==
    ASSUME IInv, LifeInv, Active, NEW k \in 1 .. Len(stack)
    PROVE  /\ stack[k] \in Call /\ Fits(k) /\ Shaped(k)
           /\ stack[k].does # "error"
           /\ ~(stack[k].does = "create" /\ stack[k].at = "finalize")
<1>1. Len(stack) \in Nat /\ stack # <<>>
  BY StackType
<1>2. CASE k < Len(stack)
  BY <1>2, BelowTop
<1>3. CASE k = Len(stack)
  <2>1. Top.at = "running" /\ Top = stack[k]
    BY <1>1, <1>3 DEF Active, Top
  <2>2. stack[k] \in Call /\ Fits(k) /\ Shaped(k)
    BY <1>1, <1>3, Top1
  <2>. QED BY <2>1, <2>2 DEF Shaped
<1>. QED BY <1>1, <1>2, <1>3

\* Top-level code has its handler below it, which is changing the script.
LEMMA ParseBelow ==
    ASSUME IInv, LifeInv, NEW k \in 1 .. Len(stack), stack[k].does = "parse"
    PROVE  /\ k > 1 /\ k - 1 \in 1 .. Len(stack)
           /\ stack[k - 1].at = "parse" /\ stack[k - 1].does # "error"
<1>1. Fits(k) /\ Len(stack) \in Nat
  BY StackType
<1>2. k > 1 /\ stack[k - 1].at = "parse" /\ k - 1 \in 1 .. Len(stack) /\ k - 1 < Len(stack)
  BY <1>1 DEF Fits
<1>. QED BY <1>2, BelowTop

\* A handler that waits for Finalize is alone, if nothing was disturbed.
LEMMA Alone ==
    ASSUME IInv, LifeInv, ~disturbed, stack # <<>>, Top.at = "finalize", Top.does # "error",
           NEW k \in 1 .. Len(stack), k < Len(stack)
    PROVE  stack[k].at \notin {"finalize", "parse"} /\ stack[k].does # "parse"
<1>1. /\ Len(stack) \in Nat /\ Len(stack) \in DOMAIN stack /\ k \in DOMAIN stack
      /\ Top = stack[Len(stack)] /\ DOMAIN stack = 1 .. Len(stack)
  BY Top1
<1>2. OneChange
  BY DEF LifeInv, Undisturbed
<1>3. ASSUME NEW j \in 1 .. Len(stack), j < Len(stack)
      PROVE  stack[j].at \notin {"finalize", "parse"}
  <2>1. stack[j].does # "error" /\ j \in DOMAIN stack
    BY <1>1, <1>3, BelowTop
  <2>. QED BY <1>1, <1>2, <1>3, <2>1 DEF OneChange, ChangesAt
<1>4. stack[k].does # "parse"
  <2>1. SUFFICES ASSUME stack[k].does = "parse" PROVE FALSE
    OBVIOUS
  <2>2. k - 1 \in 1 .. Len(stack) /\ stack[k - 1].at = "parse" /\ k - 1 < Len(stack)
    BY <1>1, <2>1, ParseBelow
  <2>. QED BY <1>3, <2>2
<1>. QED BY <1>3, <1>4

\* The engine that Finalize lets go of is closed, was stopped, or has failed.
LEMMA LetGo ==
    ASSUME IInv, LifeInv, ~disturbed, stack # <<>>, Top.at = "finalize"
    PROVE  \A e \in 1 .. made : Closed[e] # "connected" \/ e \in failed
<1>. SUFFICES ASSUME NEW e \in 1 .. made, e \notin failed PROVE Closed[e] # "connected"
  OBVIOUS
<1>1. /\ engine \in Engine \cup {None} /\ e \in Engine /\ None \notin Engine /\ inited \in BOOLEAN
      /\ state \in [Engine -> {"connected", "stopped", "closed"}]
  BY EngineRange DEF IInv, TypeOK, None, Engine
<1>2. NoEngineLost /\ Pending
  BY DEF LifeInv, Undisturbed
<1>3. CASE e # engine
  BY <1>1, <1>2, <1>3 DEF NoEngineLost, Closed
<1>4. CASE e = engine /\ inited
  BY <1>1, <1>4 DEF Closed
<1>5. CASE e = engine /\ ~inited
  <2>1. Closed = state /\ engine # None
    BY <1>1, <1>5 DEF Closed
  <2>2. state[engine] # "connected"
    <3>1. CASE Top.does = "error"
      BY <2>1, <3>1, Top1 DEF LifeInv, Stopping
    <3>2. CASE Top.does # "error"
      <4>1. SUFFICES ASSUME state[engine] = "connected" PROVE FALSE
        OBVIOUS
      <4>2. PICK k \in DOMAIN stack : stack[k].at = "parse"
        BY <1>2, <1>5, <2>1, <4>1 DEF Pending
      <4>3. k \in 1 .. Len(stack) /\ k < Len(stack)
        BY <4>2, Top1
      <4>. QED BY <3>2, <4>2, <4>3, Alone
    <3>. QED BY <3>1, <3>2
  <2>. QED BY <1>5, <2>1, <2>2
<1>. QED BY <1>3, <1>4, <1>5

-----------------------------------------------------------------------------
(* Steps that leave the engine alone *)

\* The first n calls stay, and code or a waiting handler may come or go above them.
LEMMA SameFrames ==
    ASSUME IInv, LifeInv, Same, UNCHANGED <<window, late, disturbed>>, window # "none",
           NEW n \in Nat, NEW m \in Nat, n <= Len(stack), n <= m,
           DOMAIN stack' = 1 .. m, Len(stack') = m,
           \A k \in 1 .. n : stack'[k] = stack[k],
           \A k \in 1 .. n : stack[k].does # "error"
                /\ ~(stack[k].does = "create" /\ stack[k].at = "finalize"),
           \A k \in n + 1 .. m : Shaped(k)' /\ stack'[k].at \notin {"finalize", "parse"}
                /\ stack'[k].does \notin {"error", "parse"},
           \A k \in n + 1 .. Len(stack) : stack[k].at \notin {"finalize", "parse"}
    PROVE  LifeInv'
<1>1. /\ DOMAIN stack = 1 .. Len(stack) /\ Len(stack) \in Nat
      /\ \A k \in DOMAIN stack : Shaped(k)
      /\ UNCHANGED <<engine, root, inited, hasError, invoker, registered, timers, made, state, failed>>
  BY StackType DEF LifeInv, AllShaped, Same, hostVars
<1>2. AllShaped'
  <2>1. ASSUME NEW k \in 1 .. n PROVE Shaped(k)'
    <3>1. k \in DOMAIN stack /\ stack'[k] = stack[k] /\ k > 1 => stack'[k - 1] = stack[k - 1]
      BY <1>1
    <3>. QED BY <1>1, <3>1 DEF Shaped
  <2>2. \A k \in 1 .. m : k \in 1 .. n \/ k \in n + 1 .. m
    OBVIOUS
  <2>. QED BY <2>1, <2>2 DEF AllShaped
<1>3. Before' /\ Kept'
  BY <1>1 DEF LifeInv, Before, Kept
<1>4. \A k \in 1 .. m : \/ k \in 1 .. n /\ k \in 1 .. Len(stack) /\ stack'[k] = stack[k]
                        \/ k \in n + 1 .. m
  BY <1>1
<1>5. Stopping'
  <2>1. \A k \in 1 .. m : stack'[k].does # "error"
    BY <1>4
  <2>. QED BY <2>1 DEF Stopping
<1>6. Changing' <=> Changing
  <2>1. \A k \in 1 .. Len(stack) : stack[k].at \in {"finalize", "parse"} => k \in 1 .. n
    BY <1>1
  <2>2. \A k \in 1 .. n : k \in 1 .. m /\ k \in 1 .. Len(stack)
    BY <1>1
  <2>. QED BY <1>1, <1>4, <2>1, <2>2 DEF Changing
<1>7. ASSUME ~disturbed' PROVE OneChange' /\ ParseOwn'
  <2>1. OneChange /\ ParseOwn
    BY <1>7 DEF LifeInv, Undisturbed
  <2>2. OneChange'
    BY <1>1, <1>4, <2>1 DEF OneChange, ChangesAt
  <2>3. ParseOwn'
    BY <1>1, <1>4, <2>1 DEF ParseOwn
  <2>. QED BY <2>2, <2>3
<1>8. ASSUME ~disturbed' PROVE Pending'
  <2>1. Pending
    BY <1>8 DEF LifeInv, Undisturbed
  <2>2. \A k \in 1 .. Len(stack) : stack[k].at = "parse" => k \in 1 .. m /\ stack'[k] = stack[k]
    BY <1>1
  <2>. QED BY <1>1, <2>1, <2>2 DEF Pending
<1>9. ASSUME ~disturbed'
      PROVE  Settled' /\ WindowThere' /\ Unregistered' /\ NoEngineLost'
  BY <1>1, <1>6, <1>9 DEF LifeInv, Undisturbed, Settled, WindowThere, Open, Unregistered, NoEngineLost
<1>. QED BY <1>2, <1>3, <1>5, <1>7, <1>8, <1>9 DEF LifeInv, Undisturbed

\* Code of the kind the code names is called.
LEMMA CodeCalled ==
    ASSUME IInv, LifeInv, Same, UNCHANGED <<window, late, disturbed>>, Open, Active,
           NEW e \in Engine, NEW code \in {"callback", "timer"},
           stack' = stack \o <<Running(e, code)>>
    PROVE  LifeInv'
<1>. DEFINE c == Running(e, code)
            n == Len(stack)
<1>1. c \in Call /\ c.does = code /\ c.at = "running"
  BY Frames DEF Code
<1>2. stack \in Seq(Call) /\ <<c>> \in Seq(Call) /\ Len(<<c>>) = 1 /\ <<c>>[1] = c /\ n \in Nat
  BY <1>1, StackType
<1>. HIDE DEF c
<1>3. /\ Len(stack') = n + 1 /\ DOMAIN stack' = 1 .. n + 1
      /\ \A k \in 1 .. n : stack'[k] = stack[k]
      /\ \A k \in n + 1 .. n + 1 : stack'[k] = <<c>>[k - n]
  BY <1>2, Shape DEF c
<1>4. \A k \in n + 1 .. n + 1 : k = n + 1 /\ stack'[k] = c
  BY <1>2, <1>3
<1>5. \A k \in n + 1 .. n + 1 : Shaped(k)' /\ stack'[k].at \notin {"finalize", "parse"}
                /\ stack'[k].does \notin {"error", "parse"}
  BY <1>1, <1>4 DEF Shaped, Code
<1>6. \A k \in 1 .. n : stack[k].does # "error"
                /\ ~(stack[k].does = "create" /\ stack[k].at = "finalize")
  BY NoneRuns
<1>7. n + 1 \in Nat /\ n <= n + 1 /\ n <= Len(stack) /\ window # "none"
      /\ \A k \in n + 1 .. Len(stack) : stack[k].at \notin {"finalize", "parse"}
  BY <1>2 DEF Open
<1>. HIDE DEF n
<1>. QED BY <1>2, <1>3, <1>5, <1>6, <1>7, SameFrames DEF n

LEMMA EventLife == ASSUME IInv, LifeInv, Event PROVE LifeInv'
<1>1. Same /\ UNCHANGED <<window, late, disturbed>> /\ Open /\ Active
  BY DEF Event, Same, history
<1>2. invoker \in Engine /\ stack' = stack \o <<Running(invoker, "callback")>>
  BY Callable DEF Event, Callback
<1>. QED BY <1>1, <1>2, CodeCalled

LEMMA TimerLife == ASSUME IInv, LifeInv, NEW e \in Engine, Timer(e) PROVE LifeInv'
<1>1. Same /\ UNCHANGED <<window, late, disturbed>> /\ Open /\ Active
      /\ stack' = stack \o <<Running(e, "timer")>>
  BY DEF Timer, Same, history
<1>. QED BY <1>1, CodeCalled

LEMMA ReturnLife == ASSUME IInv, LifeInv, Return PROVE LifeInv'
<1>. DEFINE n == Len(stack) - 1
<1>1. Same /\ UNCHANGED <<window, late, disturbed>> /\ stack # <<>> /\ stack' = Front(stack)
  BY DEF Return, Same, history
<1>2. /\ Len(stack) \in Nat \ {0} /\ n \in Nat /\ n <= Len(stack) /\ window # "none"
      /\ stack' \in Seq(Call) /\ Len(stack') = n /\ \A k \in 1 .. n : stack'[k] = stack[k]
  BY <1>1, Ends, Top1
<1>3. DOMAIN stack' = 1 .. n
  BY <1>2
<1>4. \A k \in 1 .. n : stack[k].does # "error"
                /\ ~(stack[k].does = "create" /\ stack[k].at = "finalize")
  BY <1>2, BelowTop
<1>5. \A k \in n + 1 .. Len(stack) : stack[k].at \notin {"finalize", "parse"}
  <2>1. \A k \in n + 1 .. Len(stack) : stack[k] = Top
    BY <1>2 DEF Top
  <2>2. Top.at \notin {"finalize", "parse"}
    BY <1>1, Top1 DEF Return, Shaped, Code
  <2>. QED BY <2>1, <2>2
<1>6. \A k \in n + 1 .. n : Shaped(k)' /\ stack'[k].at \notin {"finalize", "parse"}
                /\ stack'[k].does \notin {"error", "parse"}
  BY <1>2
<1>. HIDE DEF n
<1>. QED BY <1>1, <1>2, <1>3, <1>4, <1>5, <1>6, SameFrames

\* A timer that is not the current script's is set late.
LEMMA SetTimerLife == ASSUME IInv, LifeInv, SetTimer PROVE LifeInv'
<1>1. /\ UNCHANGED <<window, engine, root, inited, hasError, invoker, registered, made, state>>
      /\ UNCHANGED <<stack, failed, disturbed>>
  BY DEF SetTimer, hostVars
<1>2. Kept'
  BY <1>1 DEF SetTimer, LifeInv, Kept
<1>3. AllShaped' /\ Before' /\ Stopping'
  BY <1>1 DEF LifeInv, AllShaped, Shaped, Before, Stopping
<1>4. Undisturbed'
  BY <1>1 DEF LifeInv, Undisturbed, OneChange, ChangesAt, ParseOwn, Pending, Settled,
     WindowThere, Changing, Open, Unregistered, NoEngineLost
<1>. QED BY <1>2, <1>3, <1>4 DEF LifeInv

-----------------------------------------------------------------------------
(* Unloading *)

\* The handler that begins is the only one that changes the script, or something was
\* disturbed.
LEMMA BeginLife ==
    ASSUME IInv, LifeInv, NEW op \in Handlers \ {"error"}, Begin(op)
    PROVE  LifeInv'
<1>. DEFINE n == Len(stack)
            h == Handling(op, "finalize")
            u == Running(invoker, "unload")
<1>1. /\ UNCHANGED <<engine, root, inited, hasError, invoker, registered, timers, made, state>>
      /\ UNCHANGED <<failed, late>>
      /\ window' = "open" /\ disturbed' = (disturbed \/ Changing) /\ Active
      /\ op = "create" => window = "none"
  BY DEF Begin, hostVars
<1>2. /\ h \in Call /\ h.does = op /\ h.at = "finalize" /\ op \notin Code
      /\ stack \in Seq(Call) /\ n \in Nat /\ DOMAIN stack = 1 .. n
  BY Frames, StackType DEF Handlers, Code
<1>3. op = "create" => n = 0 /\ made = 0 /\ ~registered /\ ~CanInvoke
  <2>1. SUFFICES ASSUME op = "create" PROVE n = 0 /\ made = 0 /\ ~registered /\ ~CanInvoke
    OBVIOUS
  <2>2. made = 0 /\ stack = <<>> /\ ~registered
    BY <1>1, <2>1 DEF LifeInv, Before
  <2>3. engine = None
    BY <2>2 DEF IInv, EngineFits, None
  <2>. QED BY <1>2, <2>2, <2>3, EmptySeq DEF CanInvoke
<1>4. CanInvoke => u \in Call /\ u.does = "unload" /\ u.at = "running"
  BY Callable, Frames DEF Code
<1>. HIDE DEF h, u
<1>5. /\ CanInvoke => /\ DOMAIN stack' = 1 .. n + 2 /\ Len(stack') = n + 2
                      /\ \A k \in 1 .. n : stack'[k] = stack[k]
                      /\ stack'[n + 1] = h /\ stack'[n + 2] = u
      /\ ~CanInvoke => /\ DOMAIN stack' = 1 .. n + 1 /\ Len(stack') = n + 1
                       /\ \A k \in 1 .. n : stack'[k] = stack[k]
                       /\ stack'[n + 1] = h
  <2>1. CASE CanInvoke
    <3>1. stack' = stack \o (<<h>> \o <<u>>)
      BY <2>1 DEF Begin, Finalizing, Callback, h, u
    <3>2. stack' = stack \o <<h, u>> /\ <<h, u>> \in Seq(Call) /\ Len(<<h, u>>) = 2
          /\ <<h, u>>[1] = h /\ <<h, u>>[2] = u
      BY <1>2, <1>4, <2>1, <3>1, OneThenOne
    <3>3. /\ Len(stack') = n + 2 /\ DOMAIN stack' = 1 .. n + 2
          /\ \A k \in 1 .. n : stack'[k] = stack[k]
          /\ \A k \in n + 1 .. n + 2 : stack'[k] = <<h, u>>[k - n]
      BY <1>2, <3>2, Shape
    <3>. QED BY <1>2, <2>1, <3>2, <3>3
  <2>2. CASE ~CanInvoke
    <3>1. stack' = stack \o <<h>>
      <4>1. stack' = stack \o (<<h>> \o <<>>)
        BY <2>2 DEF Begin, Finalizing, Callback, h
      <4>. QED BY <1>2, <4>1, ConcatEmptySeq
    <3>2. <<h>> \in Seq(Call) /\ Len(<<h>>) = 1 /\ <<h>>[1] = h
      BY <1>2
    <3>3. /\ Len(stack') = n + 1 /\ DOMAIN stack' = 1 .. n + 1
          /\ \A k \in 1 .. n : stack'[k] = stack[k]
          /\ \A k \in n + 1 .. n + 1 : stack'[k] = <<h>>[k - n]
      BY <1>2, <3>1, <3>2, Shape
    <3>. QED BY <1>2, <2>2, <3>2, <3>3
  <2>. QED BY <2>1, <2>2
<1>. HIDE DEF n
<1>6. \A k \in DOMAIN stack' :
         \/ k \in 1 .. n /\ stack'[k] = stack[k]
         \/ k = n + 1 /\ stack'[k] = h
         \/ k = n + 2 /\ stack'[k] = u /\ CanInvoke
  BY <1>2, <1>5
<1>7. n + 1 \in DOMAIN stack' /\ stack'[n + 1] = h /\ \A k \in 1 .. n : k \in DOMAIN stack'
  BY <1>2, <1>5
<1>8. AllShaped'
  <2>1. ASSUME NEW k \in 1 .. n PROVE Shaped(k)'
    <3>1. /\ stack'[k] = stack[k] /\ (k > 1 => stack'[k - 1] = stack[k - 1])
          /\ Shaped(k) /\ stack[k].does # "error"
          /\ ~(stack[k].does = "create" /\ stack[k].at = "finalize")
      <4>1. stack'[k] = stack[k] /\ (k > 1 => stack'[k - 1] = stack[k - 1])
        BY <1>2, <1>5
      <4>2. k \in 1 .. Len(stack)
        BY DEF n
      <4>. QED BY <1>1, <4>1, <4>2, NoneRuns
    <3>. QED BY <1>1, <3>1 DEF Shaped
  <2>2. ASSUME NEW k \in DOMAIN stack', k = n + 1 PROVE Shaped(k)'
    <3>1. op = "create" => k = Len(stack') /\ made' = 0 /\ ~registered'
      BY <1>1, <1>2, <1>3, <1>5, <2>2
    <3>2. op # "error" /\ op # "unload" /\ stack'[k] = h
      BY <1>7, <2>2 DEF Handlers
    <3>. QED BY <1>2, <3>1, <3>2 DEF Shaped
  <2>3. ASSUME NEW k \in DOMAIN stack', k = n + 2, CanInvoke PROVE Shaped(k)'
    <3>1. k > 1 /\ stack'[k - 1] = h /\ stack'[k] = u
      BY <1>2, <1>5, <2>3
    <3>. QED BY <1>2, <1>4, <2>3, <3>1 DEF Shaped, Code
  <2>. QED BY <1>6, <2>1, <2>2, <2>3 DEF AllShaped
<1>9. Before' /\ Kept'
  BY <1>1 DEF LifeInv, Before, Kept
<1>10. \A k \in 1 .. n : stack[k].does # "error"
  <2>1. n = Len(stack)
    BY DEF n
  <2>. QED BY <1>1, <2>1, NoneRuns
<1>11. Stopping'
  <2>1. \A k \in DOMAIN stack' : stack'[k].does # "error"
    BY <1>2, <1>4, <1>6, <1>10
  <2>. QED BY <2>1 DEF Stopping
<1>12. ASSUME ~disturbed' PROVE OneChange' /\ ParseOwn'
  <2>1. ~disturbed /\ ~Changing /\ ParseOwn
    BY <1>1, <1>12 DEF LifeInv, Undisturbed
  <2>2. \A k \in DOMAIN stack' : ChangesAt(k)' => k = n + 1
    BY <1>2, <1>4, <1>6, <2>1 DEF Changing, ChangesAt
  <2>3. ParseOwn'
    BY <1>1, <1>2, <1>4, <1>6, <2>1 DEF ParseOwn, Handlers
  <2>. QED BY <2>2, <2>3 DEF OneChange
<1>13. ASSUME ~disturbed' PROVE Pending'
  <2>1. Pending
    BY <1>1, <1>13 DEF LifeInv, Undisturbed
  <2>. QED BY <1>1, <1>2, <1>5, <1>7, <2>1 DEF Pending
<1>14. Changing'
  BY <1>2, <1>7 DEF Changing
<1>15. ASSUME ~disturbed'
       PROVE  Settled' /\ WindowThere' /\ Unregistered' /\ NoEngineLost'
  BY <1>1, <1>14, <1>15 DEF LifeInv, Undisturbed, Settled, WindowThere, Open, Unregistered,
     NoEngineLost
<1>. QED BY <1>8, <1>9, <1>11, <1>12, <1>13, <1>15 DEF LifeInv, Undisturbed

\* What the top of the stack leaves when it goes: no error's handler.
LEMMA TopGone ==
    ASSUME IInv, LifeInv, stack # <<>>, stack' = Front(stack), made' \in Nat,
           failed \subseteq failed'
    PROVE  /\ Len(stack) \in Nat \ {0}
           /\ DOMAIN stack' = 1 .. Len(stack) - 1
           /\ \A k \in 1 .. Len(stack) - 1 : k \in 1 .. Len(stack) /\ k < Len(stack)
                 /\ k \in DOMAIN stack /\ stack'[k] = stack[k]
           /\ AllShaped' /\ Stopping'
<1>1. /\ Len(stack) \in Nat \ {0}
      /\ stack' \in Seq(Call) /\ Len(stack') = Len(stack) - 1
      /\ \A k \in 1 .. Len(stack) - 1 : stack'[k] = stack[k]
  BY Ends
<1>2. DOMAIN stack' = 1 .. Len(stack) - 1 /\ DOMAIN stack = 1 .. Len(stack)
  BY <1>1, StackType
<1>3. \A k \in 1 .. Len(stack) - 1 : k \in 1 .. Len(stack) /\ k < Len(stack)
                 /\ k \in DOMAIN stack /\ stack'[k] = stack[k]
  BY <1>1, <1>2
<1>4. ASSUME NEW k \in 1 .. Len(stack) - 1 PROVE Shaped(k)' /\ stack'[k].does # "error"
  <2>1. /\ stack'[k] = stack[k] /\ (k > 1 => stack'[k - 1] = stack[k - 1])
        /\ k \in 1 .. Len(stack) /\ k < Len(stack)
    BY <1>1, <1>3
  <2>2. /\ Shaped(k) /\ stack[k].does # "error"
        /\ ~(stack[k].does = "create" /\ stack[k].at = "finalize")
    BY <2>1, BelowTop
  <2>. QED BY <2>1, <2>2 DEF Shaped
<1>. QED BY <1>1, <1>2, <1>3, <1>4 DEF AllShaped, Stopping

LEMMA EndHandlerLife == ASSUME IInv, LifeInv, EndHandler PROVE LifeInv'
<1>1. /\ stack # <<>> /\ stack' = Front(stack)
      /\ Top.at = "finalize" /\ Top.does \in {"error", "term", "destroy"}
      /\ engine' = None /\ state' = Closed /\ ~registered' /\ timers' = {}
      /\ window' = IF Top.does = "destroy" THEN "gone" ELSE window
      /\ UNCHANGED <<made, failed, late, disturbed>>
  BY DEF EndHandler, TargetAfter, TimersAfter, history
<1>2. made' \in Nat /\ failed \subseteq failed'
  BY <1>1, StackType
<1>3. /\ DOMAIN stack' = 1 .. Len(stack) - 1
      /\ \A k \in 1 .. Len(stack) - 1 : k \in 1 .. Len(stack) /\ k < Len(stack)
            /\ k \in DOMAIN stack /\ stack'[k] = stack[k]
      /\ AllShaped' /\ Stopping'
  BY <1>1, <1>2, TopGone
<1>4. Top \in Call /\ window # "none" /\ Top = stack[Len(stack)] /\ Len(stack) \in DOMAIN stack
  BY <1>1, Top1
<1>5. Before' /\ Kept'
  BY <1>1, <1>4 DEF Before, Kept
<1>6. ASSUME ~disturbed PROVE OneChange' /\ ParseOwn' /\ WindowThere'
  <2>1. OneChange /\ WindowThere
    BY <1>6 DEF LifeInv, Undisturbed
  <2>2. OneChange'
    BY <1>3, <2>1 DEF OneChange, ChangesAt
  <2>3. ASSUME NEW k \in 1 .. Len(stack) - 1, stack[k].does = "parse" PROVE stack[k].at = "thrown"
    <3>1. CASE Top.does = "error"
      BY <1>3, <1>4, <1>6, <2>3, <3>1 DEF LifeInv, Stopping
    <3>2. CASE Top.does # "error"
      BY <1>1, <1>3, <1>6, <2>3, <3>2, Alone
    <3>. QED BY <3>1, <3>2
  <2>4. ParseOwn'
    BY <1>1, <1>3, <2>3 DEF ParseOwn
  <2>5. WindowThere'
    <3>1. ASSUME Changing' PROVE Changing /\ Top.does # "destroy"
      <4>1. PICK k \in 1 .. Len(stack) - 1 : stack[k].at \in {"finalize", "parse"}
        BY <1>3, <3>1 DEF Changing
      <4>2. Top.does = "error"
        BY <1>1, <1>3, <1>6, <4>1, Alone
      <4>. QED BY <1>3, <4>1, <4>2 DEF Changing
    <3>. QED BY <1>1, <2>1, <3>1 DEF WindowThere, Open
  <2>. QED BY <2>2, <2>4, <2>5
<1>7. ASSUME ~disturbed PROVE Pending' /\ Settled' /\ Unregistered' /\ NoEngineLost'
  <2>1. Pending' /\ Settled' /\ Unregistered'
    BY <1>1 DEF Pending, Settled, Unregistered
  <2>2. NoEngineLost'
    BY <1>1, <1>7, LetGo DEF NoEngineLost
  <2>. QED BY <2>1, <2>2
<1>. QED BY <1>1, <1>3, <1>5, <1>6, <1>7 DEF LifeInv, Undisturbed

\* What StartEngine does before it makes an engine.
LEMMA Started ==
    ASSUME IInv, LifeInv, StartEngine
    PROVE  /\ stack # <<>> /\ Top.at = "finalize" /\ Top.does \in {"create", "reload"}
           /\ Len(stack) \in Nat \ {0} /\ Top = stack[Len(stack)] /\ Len(stack) \in DOMAIN stack
           /\ state' = Closed /\ timers' = {} /\ ~registered' /\ window # "none"
           /\ UNCHANGED <<window, late, disturbed>>
           /\ made \in Nat /\ made' \in Nat /\ failed \subseteq failed'
<1>1. /\ stack # <<>> /\ Top.at = "finalize" /\ Top.does \in {"create", "reload"}
      /\ state' = Closed /\ timers' = TimersAfter(Top.does) /\ registered' = TargetAfter(Top.does)
      /\ UNCHANGED <<window, late, disturbed>>
  BY DEF StartEngine
<1>2. /\ Len(stack) \in Nat \ {0} /\ Top = stack[Len(stack)] /\ Len(stack) \in DOMAIN stack
      /\ Shaped(Len(stack)) /\ window # "none"
  BY <1>1, Top1
<1>3. made \in Nat /\ made' \in Nat /\ failed \subseteq failed'
  BY StackType DEF StartEngine, NoEngine, NewEngine, Fresh
<1>4. Top.does = "create" => made = 0 /\ ~registered
  BY <1>1, <1>2 DEF Shaped
<1>5. timers' = {} /\ ~registered'
  <2>1. Top.does = "create" => timers = {}
    BY <1>4 DEF IInv, TypeOK
  <2>. QED BY <1>1, <1>4, <2>1 DEF TimersAfter, TargetAfter
<1>. QED BY <1>1, <1>2, <1>3, <1>5

LEMMA NoEngineLife == ASSUME IInv, LifeInv, StartEngine, NoEngine PROVE LifeInv'
<1>1. /\ stack # <<>> /\ Top.at = "finalize" /\ Top.does \in {"create", "reload"}
      /\ Len(stack) \in Nat \ {0} /\ Top = stack[Len(stack)] /\ Len(stack) \in DOMAIN stack
      /\ state' = Closed /\ timers' = {} /\ ~registered' /\ window # "none"
      /\ UNCHANGED <<window, late, disturbed>>
      /\ made \in Nat /\ made' \in Nat /\ failed \subseteq failed' /\ stack' = Front(stack)
  BY Started DEF NoEngine
<1>2. /\ DOMAIN stack' = 1 .. Len(stack) - 1
      /\ \A k \in 1 .. Len(stack) - 1 : k \in 1 .. Len(stack) /\ k < Len(stack)
            /\ k \in DOMAIN stack /\ stack'[k] = stack[k]
      /\ AllShaped' /\ Stopping'
  BY <1>1, TopGone
<1>3. \/ engine' = None /\ made' = made
      \/ made + 1 \in Engine /\ engine' = made + 1 /\ made' = made + 1 /\ engine' \in failed'
  BY DEF NoEngine, Fresh
<1>4. engine' # None => state'[engine'] = "connected"
  BY <1>1, <1>3, ClosedFacts
<1>5. Before' /\ Kept'
  BY <1>1, <1>4 DEF Before, Kept
<1>6. ASSUME ~disturbed PROVE OneChange' /\ ParseOwn' /\ WindowThere'
  <2>1. OneChange /\ WindowThere
    BY <1>6 DEF LifeInv, Undisturbed
  <2>2. OneChange'
    BY <1>2, <2>1 DEF OneChange, ChangesAt
  <2>3. \A k \in 1 .. Len(stack) - 1 : stack[k].does # "parse"
    BY <1>1, <1>2, <1>6, Alone
  <2>4. ParseOwn'
    BY <1>2, <2>3 DEF ParseOwn
  <2>5. Changing
    BY <1>1 DEF Changing
  <2>. QED BY <1>1, <2>1, <2>2, <2>4, <2>5 DEF WindowThere, Open
<1>7. ASSUME ~disturbed PROVE Pending' /\ Settled' /\ Unregistered' /\ NoEngineLost'
  <2>1. Pending' /\ Settled' /\ Unregistered'
    BY <1>1, <1>3 DEF Pending, Settled, Unregistered
  <2>2. \A e \in 1 .. made' : e \in 1 .. made \/ e = engine'
    BY <1>1, <1>3
  <2>3. NoEngineLost'
    BY <1>1, <1>7, <2>2, LetGo DEF NoEngineLost
  <2>. QED BY <2>1, <2>3
<1>. QED BY <1>1, <1>2, <1>5, <1>6, <1>7 DEF LifeInv, Undisturbed

-----------------------------------------------------------------------------
(* Loading *)

LEMMA NewEngineLife == ASSUME IInv, LifeInv, StartEngine, NewEngine PROVE LifeInv'
<1>. DEFINE n == Len(stack) - 1
            h == Handling(Top.does, "parse")
            p == Running(made + 1, "parse")
<1>1. /\ stack # <<>> /\ Top.at = "finalize" /\ Top.does \in {"create", "reload"}
      /\ Len(stack) \in Nat \ {0} /\ Top = stack[Len(stack)] /\ Len(stack) \in DOMAIN stack
      /\ state' = Closed /\ timers' = {} /\ ~registered' /\ window # "none"
      /\ UNCHANGED <<window, late, disturbed>>
      /\ made \in Nat /\ made' \in Nat /\ failed' = failed /\ stack' = Front(stack) \o <<h, p>>
      /\ made + 1 \in Engine /\ engine' = made + 1 /\ root' = engine' /\ made' = made + 1
  BY Started DEF NewEngine, Replaced, Fresh
<1>2. /\ h \in Call /\ h.does \in {"create", "reload"} /\ h.at = "parse"
      /\ p \in Call /\ p.does = "parse" /\ p.at = "running" /\ p.engine = made + 1
  BY <1>1, Frames DEF Handlers, Code
<1>. HIDE DEF h, p
<1>3. /\ Front(stack) \in Seq(Call) /\ Len(Front(stack)) = n /\ n \in Nat /\ n + 1 = Len(stack)
      /\ \A k \in 1 .. n : Front(stack)[k] = stack[k]
      /\ \A k \in 1 .. n : k \in 1 .. Len(stack) /\ k < Len(stack) /\ k \in DOMAIN stack
  BY <1>1, Ends, StackType
<1>4. /\ <<h, p>> \in Seq(Call) /\ Len(<<h, p>>) = 2 /\ <<h, p>>[1] = h /\ <<h, p>>[2] = p
  BY <1>2
<1>5. /\ DOMAIN stack' = 1 .. n + 2 /\ Len(stack') = n + 2
      /\ \A k \in 1 .. n : stack'[k] = stack[k]
      /\ stack'[n + 1] = h /\ stack'[n + 2] = p
  <2>1. /\ Len(stack') = n + 2 /\ DOMAIN stack' = 1 .. n + 2
        /\ \A k \in 1 .. n : stack'[k] = Front(stack)[k]
        /\ \A k \in n + 1 .. n + 2 : stack'[k] = <<h, p>>[k - n]
    BY <1>1, <1>3, <1>4, Shape
  <2>. QED BY <1>3, <1>4, <2>1
<1>. HIDE DEF n
<1>6. \A k \in DOMAIN stack' :
         \/ k \in 1 .. n /\ stack'[k] = stack[k]
         \/ k = n + 1 /\ stack'[k] = h
         \/ k = n + 2 /\ stack'[k] = p
  BY <1>3, <1>5
<1>7. n + 1 \in DOMAIN stack' /\ stack'[n + 1] = h
  BY <1>3, <1>5
<1>8. \A k \in 1 .. n : /\ Shaped(k) /\ stack[k].does # "error"
                        /\ ~(stack[k].does = "create" /\ stack[k].at = "finalize")
  BY <1>3, BelowTop
<1>9. AllShaped'
  <2>1. ASSUME NEW k \in 1 .. n PROVE Shaped(k)'
    <3>1. stack'[k] = stack[k] /\ (k > 1 => stack'[k - 1] = stack[k - 1])
      BY <1>3, <1>5
    <3>2. /\ Shaped(k) /\ stack[k].does # "error" /\ failed' = failed
          /\ ~(stack[k].does = "create" /\ stack[k].at = "finalize")
      BY <1>1, <1>8
    <3>. QED BY <3>1, <3>2 DEF Shaped
  <2>2. ASSUME NEW k \in DOMAIN stack', k = n + 1 \/ k = n + 2 PROVE Shaped(k)'
    <3>1. stack'[k] = h \/ stack'[k] = p
      BY <1>5, <2>2
    <3>. QED BY <1>2, <3>1 DEF Shaped, Code
  <2>. QED BY <1>6, <2>1, <2>2 DEF AllShaped
<1>10. engine' # None /\ state'[engine'] = "connected"
  BY <1>1, ClosedFacts DEF None
<1>11. Before' /\ Kept'
  BY <1>1, <1>10 DEF Before, Kept
<1>12. Stopping'
  <2>1. \A k \in DOMAIN stack' : stack'[k].does # "error"
    BY <1>2, <1>6, <1>8
  <2>. QED BY <2>1 DEF Stopping
<1>13. Changing'
  BY <1>2, <1>7 DEF Changing
<1>14. ASSUME ~disturbed PROVE OneChange' /\ ParseOwn'
  <2>1. \A k \in 1 .. n : stack[k].at \notin {"finalize", "parse"} /\ stack[k].does # "parse"
    BY <1>1, <1>3, <1>14, Alone
  <2>2. \A k \in DOMAIN stack' : ChangesAt(k)' => k = n + 1
    BY <1>2, <1>6, <2>1 DEF ChangesAt
  <2>3. ParseOwn'
    BY <1>1, <1>2, <1>6, <2>1 DEF ParseOwn
  <2>. QED BY <2>2, <2>3 DEF OneChange
<1>15. ASSUME ~disturbed
       PROVE  Pending' /\ Settled' /\ WindowThere' /\ Unregistered' /\ NoEngineLost'
  <2>1. Changing /\ WindowThere
    BY <1>1, <1>15 DEF Changing, LifeInv, Undisturbed
  <2>2. Pending' /\ Settled' /\ WindowThere' /\ Unregistered'
    BY <1>1, <1>2, <1>7, <1>13, <2>1 DEF Pending, Settled, WindowThere, Open, Unregistered
  <2>3. \A e \in 1 .. made' : e \in 1 .. made \/ e = engine'
    BY <1>1
  <2>4. NoEngineLost'
    BY <1>1, <1>15, <2>3, LetGo DEF NoEngineLost
  <2>. QED BY <2>2, <2>4
<1>. QED BY <1>1, <1>9, <1>11, <1>12, <1>14, <1>15 DEF LifeInv, Undisturbed

\* What is left of the panel when top-level code ends: its engine has failed, or can be
\* called.
LEMMA Parsed ==
    ASSUME IInv, LifeInv, ~disturbed, stack # <<>>, Top.does = "parse",
           NEW ok \in BOOLEAN, MayEnd(ok), engine # None \/ ok
    PROVE  engine # None /\ (engine \in failed \/ (ok /\ root = engine))
<1>1. /\ Top = stack[Len(stack)] /\ Len(stack) \in DOMAIN stack /\ Shaped(Len(stack))
      /\ Fits(Len(stack)) /\ Top \in Call
  BY Top1
<1>2. ParseOwn
  BY DEF LifeInv, Undisturbed
<1>3. /\ engine \in {None, Top.engine}
      /\ Top.at = "running" => engine = Top.engine /\ root = engine
  BY <1>1, <1>2 DEF ParseOwn
<1>4. CASE ok
  <2>1. Top.at = "running"
    BY <1>4 DEF MayEnd
  <2>2. Top.engine \in 1 .. made /\ made \in Nat
    BY <1>1, <2>1, StackType DEF Fits
  <2>. QED BY <1>3, <1>4, <2>1, <2>2 DEF None
<1>5. CASE ~ok
  <2>1. engine = Top.engine /\ engine # None
    BY <1>3, <1>5
  <2>2. Top.at = "thrown" \/ state[engine] = "closed"
    BY <1>5, <2>1 DEF MayEnd
  <2>3. state[engine] # "closed"
    BY <2>1 DEF LifeInv, Kept
  <2>. QED BY <1>1, <2>1, <2>2, <2>3 DEF Shaped
<1>. QED BY <1>4, <1>5

LEMMA EndParseLife == ASSUME IInv, LifeInv, EndParse PROVE LifeInv'
<1>. DEFINE n == Len(stack) - 2
            base == Front(Front(stack))
            h == Handling(Below.does, "size")
            c == Running(invoker', "callback")
<1>1. PICK ok \in BOOLEAN :
        /\ MayEnd(ok) /\ Outcome(ok)
        /\ IF ok
           THEN /\ registered' \in {registered, TRUE}
                /\ stack' = base \o <<h>> \o IF Open /\ CanInvoke' THEN <<c>> ELSE <<>>
           ELSE stack' = base /\ UNCHANGED registered
  BY DEF EndParse
<1>2. /\ stack # <<>> /\ Top.does = "parse" /\ invoker' = root /\ inited' = ok
      /\ UNCHANGED <<window, engine, root, timers, made, state, failed, late, disturbed>>
  BY <1>1 DEF EndParse, Outcome, history
<1>3. /\ base \in Seq(Call) /\ Len(base) = n /\ n \in Nat /\ n + 2 = Len(stack)
      /\ \A k \in 1 .. n : base[k] = stack[k]
      /\ Below.does \in Handlers
      /\ \A k \in 1 .. n : k \in 1 .. Len(stack) /\ k < Len(stack) /\ k \in DOMAIN stack
  <2>1. /\ base \in Seq(Call) /\ Len(base) = Len(stack) - 2 /\ Len(stack) \in Nat /\ Len(stack) > 1
        /\ \A k \in 1 .. Len(stack) - 2 : base[k] = stack[k]
        /\ Below.does \in Handlers
    BY <1>2, Ends
  <2>2. DOMAIN stack = 1 .. Len(stack)
    BY StackType
  <2>. HIDE DEF base
  <2>. QED BY <2>1, <2>2
<1>4. /\ n + 1 \in DOMAIN stack /\ stack[n + 1].at = "parse" /\ stack[n + 1].does # "error"
      /\ stack[n + 1] = Below /\ window # "none"
  <2>1. Len(stack) \in 1 .. Len(stack) /\ Len(stack) - 1 = n + 1 /\ stack[Len(stack)].does = "parse"
        /\ DOMAIN stack = 1 .. Len(stack) /\ window # "none"
    BY <1>2, <1>3, Top1
  <2>2. /\ Len(stack) - 1 \in 1 .. Len(stack)
        /\ stack[Len(stack) - 1].at = "parse" /\ stack[Len(stack) - 1].does # "error"
    BY <2>1, ParseBelow
  <2>. QED BY <2>1, <2>2 DEF Below
<1>5. /\ h \in Call /\ h.does \in Handlers \ {"error"} /\ h.at = "size"
  BY <1>3, <1>4, Frames
<1>6. ASSUME CanInvoke' PROVE c \in Call /\ c.does = "callback" /\ c.at = "running"
  <2>1. invoker' = engine /\ engine \in Engine
    BY <1>2, <1>6, Callable DEF CanInvoke, IInv, TypeOK
  <2>. QED BY <2>1, Frames DEF Code
<1>. HIDE DEF h, c
<1>7. \E m \in Nat :
         /\ n <= m /\ DOMAIN stack' = 1 .. m /\ Len(stack') = m
         /\ \A k \in 1 .. n : stack'[k] = stack[k]
         /\ \A k \in n + 1 .. m : stack'[k] = h \/ (stack'[k] = c /\ CanInvoke')
  <2>. HIDE DEF base, n
  <2>1. CASE ok /\ Open /\ CanInvoke'
    <3>1. base \o <<h>> \o <<c>> = base \o <<h, c>>
      <4>1. base \o <<h>> \o <<c>> = base \o (<<h>> \o <<c>>)
        BY <1>3, <1>5, <1>6, <2>1, ConcatAssociative
      <4>. QED BY <1>5, <1>6, <2>1, <4>1, OneThenOne
    <3>2. stack' = base \o <<h, c>>
      BY <1>1, <2>1, <3>1
    <3>3. <<h, c>> \in Seq(Call) /\ Len(<<h, c>>) = 2 /\ <<h, c>>[1] = h /\ <<h, c>>[2] = c
      BY <1>5, <1>6, <2>1
    <3>4. /\ Len(stack') = n + 2 /\ DOMAIN stack' = 1 .. n + 2
          /\ \A k \in 1 .. n : stack'[k] = base[k]
          /\ \A k \in n + 1 .. n + 2 : stack'[k] = <<h, c>>[k - n]
      BY <1>3, <3>2, <3>3, Shape
    <3>5. \A k \in n + 1 .. n + 2 : k - n = 1 \/ k - n = 2
      BY <1>3
    <3>6. \A k \in n + 1 .. n + 2 : stack'[k] = h \/ (stack'[k] = c /\ CanInvoke')
      BY <2>1, <3>3, <3>4, <3>5
    <3>. QED BY <1>3, <3>4, <3>6
  <2>2. CASE ok /\ ~(Open /\ CanInvoke')
    <3>1. base \o <<h>> \in Seq(Call) /\ base \o <<h>> \o <<>> = base \o <<h>>
      BY <1>3, <1>5, ConcatEmptySeq
    <3>2. stack' = base \o <<h>>
      BY <1>1, <2>2, <3>1
    <3>3. <<h>> \in Seq(Call) /\ Len(<<h>>) = 1 /\ <<h>>[1] = h
      BY <1>5
    <3>4. /\ Len(stack') = n + 1 /\ DOMAIN stack' = 1 .. n + 1
          /\ \A k \in 1 .. n : stack'[k] = base[k]
          /\ \A k \in n + 1 .. n + 1 : stack'[k] = <<h>>[k - n]
      BY <1>3, <3>2, <3>3, Shape
    <3>5. \A k \in n + 1 .. n + 1 : k - n = 1
      BY <1>3
    <3>. QED BY <1>3, <3>3, <3>4, <3>5
  <2>3. CASE ~ok
    <3>1. stack' = base
      BY <1>1, <2>3
    <3>. QED BY <1>3, <3>1
  <2>. QED BY <2>1, <2>2, <2>3
<1>. HIDE DEF n, base
<1>8. PICK m \in Nat :
         /\ n <= m /\ DOMAIN stack' = 1 .. m /\ Len(stack') = m
         /\ \A k \in 1 .. n : stack'[k] = stack[k]
         /\ \A k \in n + 1 .. m : stack'[k] = h \/ (stack'[k] = c /\ CanInvoke')
  BY <1>7
<1>9. \A k \in 1 .. m : \/ k \in 1 .. n /\ stack'[k] = stack[k]
                        \/ k \in n + 1 .. m /\ (stack'[k] = h \/ (stack'[k] = c /\ CanInvoke'))
  BY <1>3, <1>8
<1>10. \A k \in 1 .. n : /\ Shaped(k) /\ stack[k].does # "error"
                         /\ ~(stack[k].does = "create" /\ stack[k].at = "finalize")
  BY <1>3, BelowTop
<1>11. AllShaped'
  <2>1. ASSUME NEW k \in 1 .. n PROVE Shaped(k)'
    <3>1. stack'[k] = stack[k] /\ (k > 1 => stack'[k - 1] = stack[k - 1])
      BY <1>3, <1>8
    <3>2. /\ Shaped(k) /\ stack[k].does # "error" /\ failed' = failed
          /\ ~(stack[k].does = "create" /\ stack[k].at = "finalize")
      BY <1>2, <1>10
    <3>. QED BY <3>1, <3>2 DEF Shaped
  <2>2. ASSUME NEW k \in DOMAIN stack', stack'[k] = h \/ (stack'[k] = c /\ CanInvoke')
        PROVE  Shaped(k)'
    BY <1>5, <1>6, <2>2 DEF Shaped, Code, Handlers
  <2>. QED BY <1>8, <1>9, <2>1, <2>2 DEF AllShaped
<1>12. Before' /\ Kept'
  BY <1>2, <1>4 DEF LifeInv, Before, Kept
<1>13. Stopping'
  <2>1. \A k \in DOMAIN stack' : stack'[k].does # "error"
    BY <1>5, <1>6, <1>8, <1>9, <1>10
  <2>. QED BY <2>1 DEF Stopping
<1>14. ASSUME ~disturbed
       PROVE  /\ ~Changing' /\ OneChange' /\ ParseOwn'
              /\ Changing /\ WindowThere'
  <2>1. OneChange /\ Changing /\ WindowThere
    BY <1>4, <1>14 DEF LifeInv, Undisturbed, Changing
  <2>2. \A k \in 1 .. n : stack[k].at \notin {"finalize", "parse"}
    <3>1. \A k \in 1 .. n : ChangesAt(k) => k = n + 1
      BY <1>3, <1>4, <1>10, <2>1 DEF OneChange, ChangesAt
    <3>. QED BY <1>3, <3>1 DEF ChangesAt
  <2>3. \A k \in DOMAIN stack' : stack'[k].at \notin {"finalize", "parse"}
    BY <1>5, <1>6, <1>8, <1>9, <2>2
  <2>4. \A k \in 1 .. n : stack[k].does # "parse"
    <3>1. SUFFICES ASSUME NEW k \in 1 .. n, stack[k].does = "parse" PROVE FALSE
      OBVIOUS
    <3>2. k > 1 /\ stack[k - 1].at = "parse"
      BY <1>3, <3>1, ParseBelow
    <3>3. k - 1 \in 1 .. n
      BY <1>3, <3>2
    <3>. QED BY <2>2, <3>2, <3>3
  <2>5. \A k \in DOMAIN stack' : stack'[k].does # "parse"
    BY <1>5, <1>6, <1>8, <1>9, <2>4 DEF Handlers
  <2>6. WindowThere'
    BY <1>2, <2>1 DEF WindowThere, Open
  <2>. QED BY <2>1, <2>3, <2>5, <2>6 DEF Changing, OneChange, ChangesAt, ParseOwn
<1>15. ASSUME ~disturbed PROVE Pending' /\ Settled' /\ Unregistered' /\ NoEngineLost'
  <2>1. engine # None \/ ok => engine # None /\ (engine \in failed \/ (ok /\ root = engine))
    BY <1>1, <1>2, <1>15, Parsed
  <2>2. Pending' /\ Settled'
    BY <1>2, <2>1 DEF Pending, Settled
  <2>3. Unregistered'
    BY <1>1, <1>2, <1>15, <2>1 DEF LifeInv, Undisturbed, Unregistered
  <2>4. NoEngineLost'
    BY <1>2, <1>15 DEF LifeInv, Undisturbed, NoEngineLost
  <2>. QED BY <2>2, <2>3, <2>4
<1>. QED BY <1>2, <1>11, <1>12, <1>13, <1>14, <1>15 DEF LifeInv, Undisturbed

-----------------------------------------------------------------------------
(* Errors *)

\* Code that throws: the calls below it stay.  An error's handler above it finds no other
\* top-level code running, unless it disturbs.
LEMMA Thrown ==
    ASSUME IInv, LifeInv, stack # <<>>, Top.at = "running",
           UNCHANGED <<window, made, registered>>, failed' = failed \cup {Top.engine},
           NEW n \in Nat, n + 1 = Len(stack), NEW t, t = [Top EXCEPT !.at = "thrown"],
           NEW m \in {n + 1, n + 2}, DOMAIN stack' = 1 .. m, Len(stack') = m,
           \A k \in 1 .. n : stack'[k] = stack[k], stack'[n + 1] = t,
           m = n + 2 => stack'[m] = Handling("error", "finalize")
    PROVE  /\ AllShaped'
           /\ \A k \in 1 .. n : /\ k \in DOMAIN stack /\ stack'[k] = stack[k]
                                /\ k \in DOMAIN stack' /\ stack[k].does # "error"
           /\ n + 1 \in DOMAIN stack /\ stack[n + 1] = Top /\ n + 1 \in DOMAIN stack'
           /\ t.does = Top.does /\ t.engine = Top.engine /\ t.at = "thrown" /\ t.does \in Code
           /\ ~disturbed /\ (Changing => Top.does \in {"unload", "parse"}) =>
                \A k \in 1 .. n : stack[k].does # "parse"
<1>1. /\ DOMAIN stack = 1 .. n + 1 /\ n + 1 \in DOMAIN stack /\ Top = stack[n + 1]
      /\ Top \in Call /\ Fits(n + 1) /\ Shaped(n + 1)
  BY Top1
<1>2. /\ t.does = Top.does /\ t.engine = Top.engine /\ t.at = "thrown" /\ Top.does \in Code
  BY <1>1 DEF Call, Shaped
<1>3. \A k \in 1 .. n : /\ k \in 1 .. Len(stack) /\ k < Len(stack) /\ k \in DOMAIN stack
                        /\ k \in DOMAIN stack'
  BY <1>1
<1>4. \A k \in 1 .. n : /\ Shaped(k) /\ stack[k].does # "error"
                        /\ ~(stack[k].does = "create" /\ stack[k].at = "finalize")
  BY <1>3, BelowTop
<1>5. AllShaped'
  <2>1. ASSUME NEW k \in 1 .. n PROVE Shaped(k)'
    <3>1. stack'[k] = stack[k] /\ (k > 1 => stack'[k - 1] = stack[k - 1])
      OBVIOUS
    <3>2. /\ Shaped(k) /\ stack[k].does # "error" /\ failed \subseteq failed'
          /\ ~(stack[k].does = "create" /\ stack[k].at = "finalize")
      BY <1>4
    <3>. QED BY <3>1, <3>2 DEF Shaped
  <2>2. ASSUME NEW k \in DOMAIN stack', k = n + 1 PROVE Shaped(k)'
    <3>1. stack'[k] = t /\ stack[k] = Top /\ (k > 1 => stack'[k - 1] = stack[k - 1])
      BY <1>1, <2>2
    <3>2. Shaped(k)
      BY <1>1, <2>2
    <3>3. t.engine \in failed' /\ t.does \notin {"create", "error"}
      BY <1>2 DEF Code
    <3>. QED BY <1>2, <3>1, <3>2, <3>3 DEF Shaped
  <2>3. ASSUME NEW k \in DOMAIN stack', k = n + 2 PROVE Shaped(k)'
    <3>1. m = n + 2
      BY <2>3
    <3>2. k = Len(stack') /\ stack'[k] = Handling("error", "finalize")
      BY <2>3, <3>1
    <3>. QED BY <3>2, Frames DEF Shaped, Handlers, Code
  <2>4. \A k \in DOMAIN stack' : k \in 1 .. n \/ k = n + 1 \/ k = n + 2
    OBVIOUS
  <2>. QED BY <2>1, <2>2, <2>3, <2>4 DEF AllShaped
<1>6. ASSUME ~disturbed, Changing => Top.does \in {"unload", "parse"},
             NEW k \in 1 .. n, stack[k].does = "parse"
      PROVE  FALSE
  <2>1. /\ k > 1 /\ k - 1 \in DOMAIN stack
        /\ stack[k - 1].at = "parse" /\ stack[k - 1].does # "error"
    BY <1>1, <1>3, <1>6, ParseBelow
  <2>2. Top.does \in {"unload", "parse"}
    BY <1>6, <2>1 DEF Changing
  <2>3. n \in DOMAIN stack /\ n \in 1 .. n /\ stack[n].at \in {"finalize", "parse"}
    <3>1. n \in DOMAIN stack /\ n \in 1 .. n
      BY <1>1, <1>6
    <3>2. CASE Top.does = "unload"
      BY <1>1, <3>1, <3>2 DEF Shaped
    <3>3. CASE Top.does = "parse"
      BY <1>1, <3>1, <3>3 DEF Fits
    <3>. QED BY <2>2, <3>1, <3>2, <3>3
  <2>4. OneChange
    BY <1>6 DEF LifeInv, Undisturbed
  <2>5. k - 1 = n
    BY <1>4, <2>1, <2>3, <2>4 DEF OneChange, ChangesAt
  <2>. QED BY <1>6, <2>5
<1>. QED BY <1>1, <1>2, <1>3, <1>4, <1>5, <1>6

LEMMA ThrowLife == ASSUME IInv, LifeInv, Throw PROVE LifeInv'
<1>. DEFINE n == Len(stack) - 1
            base == Front(stack)
            t == [Top EXCEPT !.at = "thrown"]
            h == Handling("error", "finalize")
<1>1. /\ stack # <<>> /\ Top.at = "running"
      /\ failed' = failed \cup {Top.engine}
      /\ UNCHANGED <<window, engine, root, invoker, registered, timers, made, late>>
      /\ blamed' = IF engine \in {None, Top.engine} THEN blamed ELSE blamed \cup {engine}
  BY DEF Throw
<1>2. /\ base \in Seq(Call) /\ Len(base) = n /\ n \in Nat /\ n + 1 = Len(stack)
      /\ \A k \in 1 .. n : base[k] = stack[k]
      /\ Top \in Call /\ window # "none"
  BY <1>1, Ends, Top1
<1>3. t \in Call /\ h \in Call /\ h.does = "error" /\ h.at = "finalize"
  BY <1>2, Frames DEF Call, Handlers
<1>4. engine \in Engine \cup {None} /\ state \in [Engine -> {"connected", "stopped", "closed"}]
  BY DEF IInv, TypeOK
<1>5. Before'
  BY <1>1, <1>2 DEF Before
<1>6. ASSUME stack' = base \o <<t>>, UNCHANGED <<inited, state, disturbed>>
      PROVE  LifeInv'
  <2>1. /\ Len(stack') = n + 1 /\ DOMAIN stack' = 1 .. n + 1
        /\ \A k \in 1 .. n : stack'[k] = stack[k]
        /\ stack'[n + 1] = t
    <3>. HIDE DEF base, t, n
    <3>1. <<t>> \in Seq(Call) /\ Len(<<t>>) = 1 /\ <<t>>[1] = t
      BY <1>3
    <3>2. /\ Len(stack') = n + 1 /\ DOMAIN stack' = 1 .. n + 1
          /\ \A k \in 1 .. n : stack'[k] = base[k]
          /\ \A k \in n + 1 .. n + 1 : stack'[k] = <<t>>[k - n]
      BY <1>2, <1>6, <3>1, Shape
    <3>. QED BY <1>2, <3>1, <3>2
  <2>. HIDE DEF base, t, n
  <2>2. t = [Top EXCEPT !.at = "thrown"] /\ n + 1 # n + 2 /\ n + 1 \in {n + 1, n + 2}
    BY <1>2 DEF t
  <2>3. /\ AllShaped'
        /\ \A k \in 1 .. n : /\ k \in DOMAIN stack /\ stack'[k] = stack[k]
                             /\ k \in DOMAIN stack' /\ stack[k].does # "error"
        /\ n + 1 \in DOMAIN stack /\ stack[n + 1] = Top /\ n + 1 \in DOMAIN stack'
        /\ t.does = Top.does /\ t.engine = Top.engine /\ t.at = "thrown" /\ t.does \in Code
    BY <1>1, <1>2, <2>1, <2>2, Thrown
  <2>4. \A k \in DOMAIN stack' : \/ k \in 1 .. n /\ stack'[k] = stack[k] /\ k \in DOMAIN stack
                                 \/ k = n + 1 /\ stack'[k] = t
    BY <1>2, <2>1, <2>3
  <2>5. \A k \in DOMAIN stack : \/ k \in 1 .. n \/ (k = n + 1 /\ stack[k] = Top)
    BY <1>2, <2>3, StackType
  <2>6. Kept'
    BY <1>1, <1>6 DEF LifeInv, Kept
  <2>7. Stopping'
    <3>1. \A k \in DOMAIN stack' : stack'[k].does # "error"
      BY <2>3, <2>4 DEF Code
    <3>. QED BY <3>1 DEF Stopping
  <2>8. Changing' <=> Changing
    BY <1>1, <2>3, <2>4, <2>5 DEF Changing
  <2>9. ASSUME ~disturbed PROVE OneChange' /\ ParseOwn' /\ Pending'
    <3>1. OneChange /\ ParseOwn /\ Pending
      BY <2>9 DEF LifeInv, Undisturbed
    <3>2. OneChange'
      BY <2>3, <2>4, <3>1 DEF OneChange, ChangesAt
    <3>3. ParseOwn'
      BY <1>1, <2>3, <2>4, <3>1 DEF ParseOwn
    <3>4. Pending'
      BY <1>1, <1>6, <2>3, <2>5, <3>1 DEF Pending
    <3>. QED BY <3>2, <3>3, <3>4
  <2>10. ASSUME ~disturbed PROVE Settled' /\ WindowThere' /\ Unregistered' /\ NoEngineLost'
    BY <1>1, <1>6, <2>8, <2>10 DEF LifeInv, Undisturbed, Settled, WindowThere, Open,
       Unregistered, NoEngineLost
  <2>. QED BY <1>5, <1>6, <2>3, <2>6, <2>7, <2>9, <2>10 DEF LifeInv, Undisturbed
<1>7. ASSUME stack' = base \o (<<t>> \o <<h>>), Open, inited' = FALSE,
             state' = IF engine = None THEN state ELSE [state EXCEPT ![engine] = "stopped"],
             disturbed' = (disturbed \/ (Changing /\ Top.does \in {"callback", "timer"}))
      PROVE  LifeInv'
  <2>1. /\ Len(stack') = n + 2 /\ DOMAIN stack' = 1 .. n + 2
        /\ \A k \in 1 .. n : stack'[k] = stack[k]
        /\ stack'[n + 1] = t /\ stack'[n + 2] = h
    <3>. HIDE DEF base, t, n, h
    <3>1. stack' = base \o <<t, h>>
      BY <1>3, <1>7, OneThenOne
    <3>2. <<t, h>> \in Seq(Call) /\ Len(<<t, h>>) = 2 /\ <<t, h>>[1] = t /\ <<t, h>>[2] = h
      BY <1>3
    <3>3. /\ Len(stack') = n + 2 /\ DOMAIN stack' = 1 .. n + 2
          /\ \A k \in 1 .. n : stack'[k] = base[k]
          /\ \A k \in n + 1 .. n + 2 : stack'[k] = <<t, h>>[k - n]
      BY <1>2, <3>1, <3>2, Shape
    <3>. QED BY <1>2, <3>2, <3>3
  <2>2. t = [Top EXCEPT !.at = "thrown"] /\ n + 2 \in {n + 1, n + 2}
        /\ stack'[n + 2] = Handling("error", "finalize")
    BY <2>1
  <2>. HIDE DEF base, t, n, h
  <2>3. /\ AllShaped'
        /\ \A k \in 1 .. n : /\ k \in DOMAIN stack /\ stack'[k] = stack[k]
                             /\ k \in DOMAIN stack' /\ stack[k].does # "error"
        /\ n + 1 \in DOMAIN stack /\ stack[n + 1] = Top /\ n + 1 \in DOMAIN stack'
        /\ t.does = Top.does /\ t.engine = Top.engine /\ t.at = "thrown" /\ t.does \in Code
        /\ ~disturbed /\ (Changing => Top.does \in {"unload", "parse"}) =>
             \A k \in 1 .. n : stack[k].does # "parse"
    BY <1>1, <1>2, <2>1, <2>2, Thrown
  <2>4. \A k \in DOMAIN stack' : \/ k \in 1 .. n /\ stack'[k] = stack[k] /\ k \in DOMAIN stack
                                 \/ k = n + 1 /\ stack'[k] = t
                                 \/ k = n + 2 /\ stack'[k] = h
    BY <1>2, <2>1, <2>3
  <2>5. engine' # None => state'[engine'] = "stopped"
    BY <1>1, <1>4, <1>7
  <2>6. Kept'
    BY <1>1, <2>5 DEF LifeInv, Kept
  <2>7. ASSUME ~disturbed'
        PROVE  ~disturbed /\ \A k \in DOMAIN stack' : stack'[k].does = "parse" => stack'[k].at = "thrown"
    <3>1. Changing => Top.does \in {"unload", "parse"}
      BY <1>7, <2>3, <2>7 DEF Code
    <3>. QED BY <1>3, <1>7, <2>3, <2>4, <2>7, <3>1
  <2>8. Stopping'
    BY <2>5, <2>7 DEF Stopping
  <2>9. ASSUME ~disturbed' PROVE OneChange' /\ ParseOwn'
    <3>1. OneChange /\ ParseOwn
      BY <2>7, <2>9 DEF LifeInv, Undisturbed
    <3>2. OneChange'
      BY <1>3, <2>3, <2>4, <3>1 DEF OneChange, ChangesAt
    <3>3. ParseOwn'
      BY <1>1, <1>3, <2>3, <2>4, <2>7, <2>9, <3>1 DEF ParseOwn
    <3>. QED BY <3>2, <3>3
  <2>10. Changing'
    <3>1. n + 2 \in DOMAIN stack' /\ stack'[n + 2].at = "finalize"
      BY <1>2, <1>3, <2>1
    <3>. QED BY <3>1 DEF Changing
  <2>11. ASSUME ~disturbed'
         PROVE  Pending' /\ Settled' /\ WindowThere' /\ Unregistered' /\ NoEngineLost'
    <3>1. Unregistered /\ NoEngineLost /\ ~disturbed
      BY <2>7, <2>11 DEF LifeInv, Undisturbed
    <3>2. Pending' /\ Settled' /\ WindowThere' /\ Unregistered'
      BY <1>1, <1>7, <2>5, <2>10, <3>1 DEF Pending, Settled, WindowThere, Open, Unregistered
    <3>3. NoEngineLost'
      BY <1>1, <1>4, <1>7, <3>1 DEF NoEngineLost
    <3>. QED BY <3>2, <3>3
  <2>. QED BY <1>5, <2>3, <2>6, <2>8, <2>9, <2>11 DEF LifeInv, Undisturbed
<1>. QED BY <1>6, <1>7 DEF Throw, Replaced

-----------------------------------------------------------------------------
(* The specification *)

LEMMA InitLife == Init => LifeInv
<1>. SUFFICES ASSUME Init PROVE LifeInv
  OBVIOUS
<1>1. DOMAIN stack = {} /\ engine = None /\ timers = {} /\ ~registered /\ made = 0 /\ stack = <<>>
      /\ ~Changing
  BY DEF Init, Changing
<1>2. AllShaped /\ Before /\ Kept /\ Stopping
  BY <1>1 DEF AllShaped, Before, Kept, Stopping
<1>3. Undisturbed
  BY <1>1 DEF Undisturbed, OneChange, ParseOwn, Pending, Settled, WindowThere, Unregistered,
     NoEngineLost
<1>. QED BY <1>2, <1>3 DEF LifeInv

LEMMA NextLife == ASSUME IInv, LifeInv, Next PROVE LifeInv'
<1>1. CASE Event
  BY <1>1, EventLife
<1>2. CASE SetTimer
  BY <1>2, SetTimerLife
<1>3. CASE Return
  BY <1>3, ReturnLife
<1>4. ASSUME NEW e \in Engine, Timer(e) PROVE LifeInv'
  BY <1>4, TimerLife
<1>5. ASSUME NEW op \in Handlers \ {"error"}, Begin(op) PROVE LifeInv'
  BY <1>5, BeginLife
<1>6. CASE EndHandler
  BY <1>6, EndHandlerLife
<1>7. CASE StartEngine
  BY <1>7, NoEngineLife, NewEngineLife DEF StartEngine
<1>8. CASE EndParse
  BY <1>8, EndParseLife
<1>9. CASE Throw
  BY <1>9, ThrowLife
<1>. QED BY <1>1, <1>2, <1>3, <1>4, <1>5, <1>6, <1>7, <1>8, <1>9 DEF Next

LEMMA StepLife == ASSUME IInv, LifeInv, [Next]_vars PROVE LifeInv'
<1>1. CASE UNCHANGED vars
  <2>1. AllShaped' /\ Before' /\ Kept' /\ Stopping'
    BY <1>1 DEF LifeInv, AllShaped, Shaped, Before, Kept, Stopping, vars, hostVars, history
  <2>2. Undisturbed'
    BY <1>1 DEF LifeInv, Undisturbed, OneChange, ChangesAt, ParseOwn, Pending, Settled,
       WindowThere, Changing, Open, Unregistered, NoEngineLost, vars, hostVars, history
  <2>. QED BY <2>1, <2>2 DEF LifeInv
<1>. QED BY <1>1, NextLife

-----------------------------------------------------------------------------
(* What holds a script back *)

\* m_has_error stands against the panel's engine only when that engine failed or code of
\* another one threw.
Charged == hasError => engine \in failed \cup blamed \cup {None}

LEMMA StepCharged ==
    ASSUME IInv, LifeInv, ~disturbed => Charged, [Next]_vars, ~disturbed'
    PROVE  Charged'
<1>1. CASE UNCHANGED <<hasError, engine, failed, blamed, disturbed>>
  BY <1>1 DEF Charged
<1>2. CASE EndHandler
  BY <1>2 DEF EndHandler, Charged
<1>3. CASE StartEngine
  BY <1>3 DEF StartEngine, NoEngine, NewEngine, Charged
<1>4. CASE EndParse
  <2>1. PICK ok \in BOOLEAN : MayEnd(ok) /\ Outcome(ok)
    BY <1>4 DEF EndParse
  <2>2. /\ stack # <<>> /\ Top.does = "parse"
        /\ UNCHANGED <<engine, failed, blamed, disturbed>>
    BY <1>4 DEF EndParse, history
  <2>3. CASE ok
    BY <2>1, <2>2, <2>3 DEF Outcome, Charged
  <2>4. CASE ~ok
    <3>1. engine # None => engine \in failed
      BY <2>1, <2>2, <2>4, Parsed
    <3>. QED BY <2>2, <3>1 DEF Charged
  <2>. QED BY <2>3, <2>4
<1>5. CASE Throw
  <2>1. /\ engine' = engine /\ failed' = failed \cup {Top.engine}
        /\ blamed' = IF engine \in {None, Top.engine} THEN blamed ELSE blamed \cup {engine}
    BY <1>5 DEF Throw
  <2>. QED BY <2>1 DEF Charged
<1>6. ASSUME NEW op \in Handlers \ {"error"}, Begin(op) PROVE Charged'
  BY <1>6 DEF Begin, hostVars, Charged
<1>7. CASE Event \/ SetTimer \/ Return \/ (\E e \in Engine : Timer(e)) \/ UNCHANGED vars
  BY <1>1, <1>7 DEF Event, SetTimer, Return, Timer, vars, hostVars, history
<1>. QED BY <1>2, <1>3, <1>4, <1>5, <1>6, <1>7 DEF Next

LEMMA SpecLife == Spec => []LifeInv
<1>1. IInv /\ LifeInv /\ [Next]_vars => LifeInv'
  BY StepLife
<1>. QED BY InitLife, <1>1, SpecIInv, PTL DEF Spec

LEMMA SpecCharged == Spec => [](~disturbed => Charged)
<1>1. Init => (~disturbed => Charged)
  BY DEF Init, Charged
<1>2. IInv /\ LifeInv /\ (~disturbed => Charged) /\ [Next]_vars => (~disturbed => Charged)'
  BY StepCharged
<1>. QED BY <1>1, <1>2, SpecIInv, SpecLife, PTL DEF Spec

\* Finalize closes the engine it lets go of, or that engine failed or was stopped: no
\* script runs on unseen, unless a load or unload began inside another (host.cpp).
THEOREM NoEngineIsLost == Spec => []NoEngineLost
<1>1. IInv /\ LifeInv => NoEngineLost
  BY DEF LifeInv, Undisturbed, NoEngineLost
<1>. QED BY <1>1, SpecIInv, SpecLife, PTL

\* Between calls the panel keeps no drop target and no timer of a script it unloaded, and
\* InvokeCallback lets every call through to the script it has, unless that script failed
\* or is held to answer for an error of code that outlived its engine (script_load,
\* script_unload, OnScriptError).
THEOREM LeavesNothing == Spec => []NothingLeftBehind
<1>1. IInv /\ LifeInv /\ (~disturbed => Charged) => NothingLeftBehind
  <2>1. SUFFICES ASSUME IInv, LifeInv, Charged, stack = <<>>, ~disturbed
                 PROVE  /\ engine = None => ~registered
                        /\ timers \subseteq late \cup {engine}
                        /\ engine # None => Open
                        /\ engine \notin failed \cup {None} => inited /\ invoker = engine
                        /\ engine \notin failed \cup blamed \cup {None} => CanInvoke
    BY DEF NothingLeftBehind
  <2>2. ~Changing
    BY <2>1 DEF Changing
  <2>3. Kept /\ Settled /\ WindowThere /\ Unregistered
    BY <2>1 DEF LifeInv, Undisturbed
  <2>4. engine \notin failed \cup {None} => inited /\ invoker = engine
    BY <2>2, <2>3 DEF Settled
  <2>5. engine \notin failed \cup blamed \cup {None} => CanInvoke
    BY <2>1, <2>4 DEF Charged, CanInvoke
  <2>. QED BY <2>2, <2>3, <2>4, <2>5 DEF Kept, WindowThere, Unregistered
<1>. QED BY <1>1, SpecIInv, SpecLife, SpecCharged, PTL
=============================================================================
