--------------------------- MODULE HostTimerProofs ---------------------------
(***************************************************************************)
(* Theorems about the timer dispatcher, for every set of panels and every  *)
(* number of timers.                                                       *)
(***************************************************************************)
EXTENDS HostTimerDispatcher, SequenceFacts, TLAPS

-----------------------------------------------------------------------------
(* The inductive invariant *)

\* Nothing mentions an id that was not handed out yet, and a timer has its panel.
Born ==
    /\ \A i \in timerMap \cup taskMap \cup stopRequested \cup stopped : i < nextId
    /\ procOn < nextId
    /\ killing < nextId
    /\ \A i \in timerMap \cup taskMap : hwnd[i] \in Panel

\* invoke() is on the stack exactly while timerProc waits for its message.
Frame ==
    /\ proc = "handled" => invoking = procOn
    /\ proc # "handled" => invoking = None
    /\ proc = "free" <=> procOn = None
    /\ invoking \notin reborn
    /\ invoking = None => reborn = {}

\* A killed timer's task lives on only under its own invoke().
HeldTasks ==
    /\ \A i \in taskMap : i \in stopRequested => i = invoking
    /\ \A i \in Id \ taskMap : refs[i] = 0

\* Windows signals only timers that exist and that nobody is deleting.
Ticks == ticking \subseteq timerMap \ {killing}

\* Once its proc has told the killer thread, a timer is stopped and sends no more.
Handed ==
    /\ proc = "request" => procOn \in stopped
    /\ proc \in {"sending", "handled"} =>
          /\ procOn \notin ToSet(requests) \cup {killing}
          /\ kind[procOn] = "timeout" => procOn \in stopped
    /\ killing # None => killing \in timerMap \cap stopped

\* Without the killer thread nothing is deleted, and a task's timer is known.
NoKiller == ~Killer => killing = None /\ taskMap \subseteq timerMap

IInv ==
    /\ TypeOK
    /\ Born
    /\ Frame
    /\ RefsMatchOwners
    /\ HeldTasks
    /\ Ticks
    /\ TimerOutlivesProc
    /\ HandedOverOnce
    /\ Handed
    /\ NoKiller

LEMMA InitIInv == Init => IInv
<1> SUFFICES ASSUME Init PROVE IInv
  OBVIOUS
<1> USE TimerAssumption
<1>1. TypeOK
  BY DEF Init, TypeOK, Id, None, Kind
<1>2. HandedOverOnce /\ Handed
  BY DEF Init, HandedOverOnce, Handed, ToSet, IsInjective, None
<1>3. Born /\ Frame /\ RefsMatchOwners /\ HeldTasks /\ Ticks /\ TimerOutlivesProc /\ NoKiller
  BY DEF Init, Born, Frame, RefsMatchOwners, HeldTasks, Ticks, TimerOutlivesProc,
         NoKiller, None, Id
<1> QED
  BY <1>1, <1>2, <1>3 DEF IInv


-----------------------------------------------------------------------------
(* Every step keeps it *)

\* A task in the map has one reference or two, and the second is a call's.
LEMMA RefsRange ==
    ASSUME IInv
    PROVE  \A i \in taskMap :
              /\ i \in Id
              /\ refs[i] \in {1, 2}
              /\ refs[i] = 1 <=> (i \in stopRequested \/ i # invoking)
<1> QED
  BY DEF IInv, TypeOK, RefsMatchOwners, HeldTasks

\* Releasing tasks takes one reference of each and deletes those that had no other.
LEMMA ReleaseFacts ==
    ASSUME IInv, NEW S, Release(S)
    PROVE  /\ refs' \in [Id -> 0 .. 2]
           /\ taskMap' \subseteq taskMap
           /\ \A i \in Id \ S : refs'[i] = refs[i] /\ (i \in taskMap' <=> i \in taskMap)
           /\ \A i \in S \cap taskMap : refs'[i] = refs[i] - 1 /\ (i \in taskMap' <=> refs[i] = 2)
           /\ \A i \in Id \ taskMap : refs'[i] = 0
           /\ \A i \in Id \ taskMap' : refs'[i] = 0
<1>1. refs \in [Id -> 0 .. 2] /\ taskMap \subseteq Id
  BY DEF IInv, TypeOK
<1>2. \A i \in taskMap : refs[i] \in {1, 2}
  BY RefsRange
<1>3. \A i \in Id \ taskMap : refs[i] = 0
  BY DEF IInv, HeldTasks
<1> QED
  BY <1>1, <1>2, <1>3 DEF Release, TasksLeft

LEMMA TypeStep ==
    ASSUME IInv, [Next]_vars
    PROVE  TypeOK'
<1> USE DEF IInv
<1>1. ASSUME NEW p \in Panel, NEW k \in Kind, CreateTimer(p, k)
      PROVE  TypeOK'
  <2>1. nextId \in Id /\ nextId' \in 1 .. MaxTimers + 1
    BY <1>1, TimerAssumption DEF CreateTimer, Id
  <2>2. hwnd' \in [Id -> Panel \cup {NoPanel}] /\ kind' \in [Id -> Kind]
    BY <1>1 DEF TypeOK, CreateTimer
  <2>3. refs' \in [Id -> 0 .. 2] /\ taskMap' \subseteq Id
    <3>1. refs' = refs \/ refs' = [refs EXCEPT ![nextId] = 1]
      BY <1>1 DEF CreateTimer, taskVars
    <3>2. taskMap' = taskMap \/ taskMap' = taskMap \cup {nextId}
      BY <1>1 DEF CreateTimer, taskVars
    <3>3. refs \in [Id -> 0 .. 2] /\ taskMap \subseteq Id /\ 1 \in 0 .. 2
      BY DEF TypeOK
    <3>4. refs' \in [Id -> 0 .. 2]
      BY <3>1, <3>3
    <3> QED
      BY <2>1, <3>2, <3>3, <3>4
  <2>4. timerMap' \subseteq Id /\ ticking' \subseteq Id /\ reborn' \subseteq Id
    BY <1>1, <2>1 DEF TypeOK, CreateTimer
  <2>5. UNCHANGED <<stopRequested, stopped, window, invoking, suspended, proc, procOn,
                    requests, killing>>
    BY <1>1 DEF CreateTimer, procVars, killVars
  <2> QED
    BY <2>1, <2>2, <2>3, <2>4, <2>5 DEF TypeOK
<1>2. ASSUME NEW p \in Panel, Load(p) \/ CallbackReturns(p)
      PROVE  TypeOK'
  BY <1>2 DEF TypeOK, Load, CallbackReturns, timerVars, taskVars, procVars, killVars
<1>3. ASSUME NEW p \in Panel, Unload(p)
      PROVE  TypeOK'
  <2>1. Release(TimersOf(p))
    BY <1>3 DEF Unload, KillTimers
  <2> QED
    BY <1>3, <2>1, ReleaseFacts
       DEF TypeOK, Unload, KillTimers, TimersOf, timerVars, callVars, procVars, killVars
<1>4. ASSUME NEW i \in Id, KillTimer(i)
      PROVE  TypeOK'
  <2>1. Release({i})
    BY <1>4 DEF KillTimer, KillTimers
  <2> QED
    BY <1>4, <2>1, ReleaseFacts
       DEF TypeOK, KillTimer, KillTimers, timerVars, callVars, procVars, killVars
<1>5. CASE Invoke
  <2>1. procOn \in Id /\ procOn \in taskMap /\ invoking = None
    BY <1>5 DEF Invoke, KnownTasks, Frame, TypeOK
  <2>2. refs[procOn] \in 0 .. 1
    BY <2>1 DEF RefsMatchOwners, Id, None
  <2> QED
    BY <1>5, <2>1, <2>2 DEF TypeOK, Invoke, timerVars, killVars
<1>6. CASE NoInvoke
  BY <1>6 DEF TypeOK, NoInvoke, AfterSend, timerVars, taskVars, callVars, killVars
<1>7. CASE InvokeReturns
  <2>1. PICK S : Release(S)
    BY <1>7 DEF InvokeReturns
  <2> QED
    BY <1>7, <2>1, ReleaseFacts
       DEF TypeOK, InvokeReturns, AfterSend, timerVars, killVars
<1>8. ASSUME NEW i \in Id, Signal(i)
      PROVE  TypeOK'
  BY <1>8 DEF TypeOK, Signal, ProcBranch, timerVars, taskVars, callVars, killVars
<1>9. CASE StopRequest
  <2>1. procOn \in Id
    BY <1>9 DEF StopRequest, Frame, TypeOK
  <2> QED
    BY <1>9, <2>1, PrependFacts
       DEF TypeOK, StopRequest, WithRequest, timerVars, taskVars, callVars
<1>10. CASE ProcReturns
  BY <1>10 DEF TypeOK, ProcReturns, timerVars, taskVars, callVars, killVars
<1>11. CASE TakeRequest
  BY <1>11, TailFacts DEF TypeOK, TakeRequest, timerVars, taskVars, callVars, procVars
<1>12. CASE TimerExpire
  BY <1>12 DEF TypeOK, TimerExpire, taskVars, callVars, procVars
<1>13. CASE UNCHANGED vars
  BY <1>13 DEF TypeOK, vars, timerVars, taskVars, callVars, procVars, killVars
<1> QED
  BY <1>1, <1>2, <1>3, <1>4, <1>5, <1>6, <1>7, <1>8, <1>9, <1>10, <1>11, <1>12, <1>13
     DEF Next, MainStep, ProcStep, KillerStep

LEMMA BornStep ==
    ASSUME IInv, [Next]_vars
    PROVE  Born'
<1> USE DEF IInv
<1>1. nextId \in Nat /\ nextId' \in Nat /\ TypeOK'
  BY TypeStep DEF TypeOK, Id
<1>2. ASSUME NEW p \in Panel, NEW k \in Kind, CreateTimer(p, k)
      PROVE  Born'
  BY <1>1, <1>2 DEF Born, TypeOK, CreateTimer, Id, None, taskVars, procVars, killVars
<1>3. ASSUME NEW S, NEW T, Release(S), stopRequested' = stopRequested \cup (T \cap timerMap),
             UNCHANGED <<timerVars, stopped, procOn, killing>>
      PROVE  Born'
  BY <1>3, ReleaseFacts DEF Born, timerVars
<1>4. ASSUME NEW p \in Panel, Unload(p)
      PROVE  Born'
  BY <1>3, <1>4 DEF Unload, KillTimers, procVars, killVars
<1>5. ASSUME NEW i \in Id, KillTimer(i)
      PROVE  Born'
  BY <1>3, <1>5 DEF KillTimer, KillTimers, procVars, killVars
<1>6. CASE InvokeReturns
  BY <1>3, <1>6 DEF InvokeReturns, timerVars, killVars
<1>7. ASSUME NEW i \in Id, Signal(i)
      PROVE  Born'
  BY <1>7 DEF Born, Ticks, Signal, timerVars, taskVars, killVars
<1>8. CASE TakeRequest
  <2>1. killing' \in ToSet(requests)
    BY <1>8, TailFacts DEF TakeRequest, TypeOK
  <2> QED
    BY <1>8, <2>1 DEF Born, HandedOverOnce, TakeRequest, timerVars, taskVars, procVars
<1>9. CASE (\E p \in Panel : Load(p) \/ CallbackReturns(p)) \/ Invoke \/ NoInvoke
           \/ StopRequest \/ ProcReturns
           \/ TimerExpire \/ UNCHANGED vars
  BY <1>1, <1>9 DEF Born, TypeOK, None, Load, CallbackReturns, Invoke, NoInvoke,
                    StopRequest, ProcReturns,
              TimerExpire, vars, timerVars, taskVars, callVars, procVars, killVars, Id
<1> QED
  BY <1>2, <1>4, <1>5, <1>6, <1>7, <1>8, <1>9 DEF Next, MainStep, ProcStep, KillerStep

LEMMA FrameStep ==
    ASSUME IInv, [Next]_vars
    PROVE  Frame'
<1> USE DEF IInv
<1>1. ASSUME NEW p \in Panel, NEW k \in Kind, CreateTimer(p, k)
      PROVE  Frame'
  <2>1. invoking # nextId
    BY <1>1 DEF Frame, Born, CreateTimer, TypeOK, Id, None
  <2> QED
    BY <1>1, <2>1 DEF Frame, CreateTimer, procVars
<1>2. CASE Invoke
  <2>1. procOn # None /\ invoking' = procOn /\ proc' = "handled" /\ UNCHANGED <<procOn, reborn>>
    BY <1>2 DEF Invoke, Frame
  <2> QED
    BY <1>2, <2>1 DEF Frame, Invoke
<1>3. CASE NoInvoke \/ InvokeReturns
  BY <1>3 DEF Frame, NoInvoke, InvokeReturns, AfterSend, callVars
<1>4. ASSUME NEW i \in Id, Signal(i)
      PROVE  Frame'
  BY <1>4 DEF Frame, Signal, ProcBranch, callVars, Id, None
<1>5. CASE (\E p \in Panel : Load(p) \/ Unload(p) \/ CallbackReturns(p))
           \/ (\E i \in Id : KillTimer(i))
           \/ StopRequest \/ ProcReturns \/ TakeRequest \/ TimerExpire \/ UNCHANGED vars
  BY <1>5 DEF Frame, Load, Unload, CallbackReturns, KillTimer, StopRequest, ProcReturns,
              TakeRequest,
              TimerExpire, vars, callVars, procVars
<1> QED
  BY <1>1, <1>2, <1>3, <1>4, <1>5 DEF Next, MainStep, ProcStep, KillerStep

\* What killing timers does to the references: the step that clearing and unloading
\* share.
LEMMA KillKeepsRefs ==
    ASSUME IInv, NEW S, KillTimers(S), UNCHANGED <<timerVars, invoking, reborn>>
    PROVE  RefsMatchOwners' /\ HeldTasks'
<1> USE DEF IInv
<1>1. /\ refs' \in [Id -> 0 .. 2]
      /\ taskMap' \subseteq taskMap
      /\ \A i \in Id \ S : refs'[i] = refs[i] /\ (i \in taskMap' <=> i \in taskMap)
      /\ \A i \in S \cap taskMap : refs'[i] = refs[i] - 1 /\ (i \in taskMap' <=> refs[i] = 2)
      /\ \A i \in Id \ taskMap' : refs'[i] = 0
  BY ReleaseFacts DEF KillTimers
<1>2. stopRequested' = stopRequested \cup (S \cap timerMap) /\ invoking' = invoking
  BY DEF KillTimers
<1>3. taskMap \subseteq Id
  BY DEF TypeOK
<1>4. ASSUME NEW i \in taskMap'
      PROVE  /\ refs'[i] = (IF i \in stopRequested' THEN 0 ELSE 1) + (IF i = invoking' THEN 1 ELSE 0)
             /\ i \in stopRequested' => i = invoking'
  <2>1. i \in taskMap /\ i \in Id
    BY <1>1, <1>3
  <2>2. CASE i \in S
    <3>1. refs[i] = 2 /\ refs'[i] = 1
      BY <1>1, <2>1, <2>2
    <3>2. i = invoking /\ i \notin stopRequested
      BY <2>1, <3>1 DEF RefsMatchOwners
    <3>3. i \in timerMap
      BY <3>2, <2>1 DEF Frame, TimerOutlivesProc, None, Id
    <3> QED
      BY <1>2, <2>2, <3>1, <3>2, <3>3
  <2>3. CASE i \notin S
    BY <1>1, <1>2, <2>1, <2>3 DEF RefsMatchOwners, HeldTasks
  <2> QED
    BY <2>2, <2>3
<1> QED
  BY <1>1, <1>4 DEF RefsMatchOwners, HeldTasks

LEMMA RefsStep ==
    ASSUME IInv, [Next]_vars
    PROVE  RefsMatchOwners' /\ HeldTasks'
<1> USE DEF IInv
<1>1. ASSUME NEW p \in Panel, NEW k \in Kind, CreateTimer(p, k)
      PROVE  RefsMatchOwners' /\ HeldTasks'
  <2>1. CASE taskMap' = taskMap /\ refs' = refs
    BY <1>1, <2>1 DEF RefsMatchOwners, HeldTasks, CreateTimer
  <2>2. CASE taskMap' = taskMap \cup {nextId} /\ refs' = [refs EXCEPT ![nextId] = 1]
    <3>1. nextId \notin stopRequested /\ nextId # invoking /\ nextId \in Id
      BY <1>1 DEF CreateTimer, Born, Frame, TypeOK, Id, None
    <3>2. refs \in [Id -> 0 .. 2] /\ taskMap \subseteq Id
      BY DEF TypeOK
    <3>3. refs'[nextId] = 1 /\ \A i \in Id \ {nextId} : refs'[i] = refs[i]
      BY <2>2, <3>1, <3>2
    <3> QED
      BY <1>1, <2>2, <3>1, <3>2, <3>3 DEF RefsMatchOwners, HeldTasks, CreateTimer
  <2> QED
    BY <1>1, <2>1, <2>2 DEF CreateTimer, taskVars
<1>2. ASSUME NEW p \in Panel, Unload(p)
      PROVE  RefsMatchOwners' /\ HeldTasks'
  BY <1>2, KillKeepsRefs DEF Unload
<1>3. ASSUME NEW i \in Id, KillTimer(i)
      PROVE  RefsMatchOwners' /\ HeldTasks'
  BY <1>3, KillKeepsRefs DEF KillTimer, callVars
<1>4. CASE Invoke
  <2>1. procOn \in taskMap /\ invoking = None /\ procOn # None
    BY <1>4 DEF Invoke, KnownTasks, Frame
  <2>2. procOn \notin stopRequested
    BY <2>1 DEF HeldTasks
  <2>3. refs \in [Id -> 0 .. 2] /\ taskMap \subseteq Id
    BY DEF TypeOK
  <2>4. refs[procOn] = 1 /\ \A i \in taskMap : i # invoking
    BY <2>1, <2>2, <2>3 DEF RefsMatchOwners, Id, None
  <2>5. refs'[procOn] = 2 /\ \A i \in Id \ {procOn} : refs'[i] = refs[i]
    BY <1>4, <2>1, <2>3, <2>4 DEF Invoke
  <2>6. /\ taskMap' = taskMap /\ stopRequested' = stopRequested /\ invoking' = procOn
    BY <1>4 DEF Invoke
  <2>7. RefsMatchOwners'
    BY <2>2, <2>3, <2>4, <2>5, <2>6 DEF RefsMatchOwners
  <2>8. HeldTasks'
    BY <2>1, <2>3, <2>4, <2>5, <2>6 DEF HeldTasks
  <2> QED
    BY <2>7, <2>8
<1>5. CASE InvokeReturns
  <2>1. /\ stopRequested' = stopRequested
        /\ invoking' = None
        /\ taskMap \subseteq Id /\ refs \in [Id -> 0 .. 2]
    BY <1>5 DEF InvokeReturns, TypeOK
  <2>2. \A i \in taskMap : i # None
    BY <2>1 DEF Id, None
  <2>3. PICK S : /\ Release(S)
                 /\ invoking \in taskMap => S = {invoking}
                 /\ invoking \notin taskMap => invoking \notin S
    <3>1. CASE invoking \in taskMap
      BY <1>5, <3>1 DEF InvokeReturns
    <3>2. CASE invoking \notin taskMap
      BY <1>5, <3>2 DEF InvokeReturns, Frame
    <3> QED
      BY <3>1, <3>2
  <2>4. /\ taskMap' \subseteq taskMap
        /\ \A i \in Id \ S : refs'[i] = refs[i] /\ (i \in taskMap' <=> i \in taskMap)
        /\ \A i \in S \cap taskMap : refs'[i] = refs[i] - 1 /\ (i \in taskMap' <=> refs[i] = 2)
        /\ \A i \in Id \ taskMap' : refs'[i] = 0
    BY <2>3, ReleaseFacts
  <2>5. ASSUME NEW i \in taskMap'
        PROVE  refs'[i] = (IF i \in stopRequested' THEN 0 ELSE 1) + (IF i = invoking' THEN 1 ELSE 0)
               /\ i \notin stopRequested'
    <3>1. CASE i \in S
      BY <2>1, <2>2, <2>4, <3>1 DEF RefsMatchOwners
    <3>2. CASE i \notin S
      <4>1. i # invoking /\ i \in taskMap /\ i \in Id
        BY <2>1, <2>3, <2>4, <3>2
      <4> QED
        BY <2>1, <2>2, <2>4, <3>2, <4>1 DEF RefsMatchOwners, HeldTasks
    <3> QED
      BY <3>1, <3>2
  <2> QED
    BY <2>4, <2>5 DEF RefsMatchOwners, HeldTasks
<1>6. CASE (\E p \in Panel : Load(p) \/ CallbackReturns(p)) \/ NoInvoke
           \/ (\E i \in Id : Signal(i)) \/ StopRequest
           \/ ProcReturns \/ TakeRequest \/ TimerExpire \/ UNCHANGED vars
  BY <1>6 DEF RefsMatchOwners, HeldTasks, Load, CallbackReturns, NoInvoke, Signal,
              StopRequest, ProcReturns,
              TakeRequest, TimerExpire, vars, taskVars, callVars
<1> QED
  BY <1>1, <1>2, <1>3, <1>4, <1>5, <1>6 DEF Next, MainStep, ProcStep, KillerStep

LEMMA TimerStep ==
    ASSUME IInv, [Next]_vars
    PROVE  Ticks' /\ TimerOutlivesProc' /\ NoKiller'
<1> USE DEF IInv
<1>1. ASSUME NEW p \in Panel, NEW k \in Kind, CreateTimer(p, k)
      PROVE  Ticks' /\ TimerOutlivesProc' /\ NoKiller'
  <2>1. nextId # killing
    BY <1>1 DEF CreateTimer, Born, TypeOK, Id, None
  <2> QED
    BY <1>1, <2>1 DEF Ticks, TimerOutlivesProc, NoKiller, CreateTimer, taskVars, procVars,
                      killVars
<1>2. CASE (\E p \in Panel : Unload(p)) \/ (\E i \in Id : KillTimer(i)) \/ InvokeReturns
  <2>1. taskMap' \subseteq taskMap
    BY <1>2 DEF Unload, KillTimer, InvokeReturns, KillTimers, Release, TasksLeft
  <2>2. UNCHANGED <<timerMap, ticking, procOn, killing>>
    BY <1>2 DEF Unload, KillTimer, InvokeReturns, timerVars, procVars, killVars
  <2> QED
    BY <2>1, <2>2 DEF Ticks, TimerOutlivesProc, NoKiller
<1>3. CASE Invoke \/ NoInvoke \/ StopRequest
  BY <1>3 DEF Ticks, TimerOutlivesProc, NoKiller, Invoke, NoInvoke, StopRequest, timerVars,
              taskVars, killVars
<1>4. ASSUME NEW i \in Id, Signal(i)
      PROVE  Ticks' /\ TimerOutlivesProc' /\ NoKiller'
  BY <1>4 DEF Ticks, TimerOutlivesProc, NoKiller, Signal, timerVars, taskVars, killVars
<1>5. CASE TakeRequest
  BY <1>5 DEF Ticks, TimerOutlivesProc, NoKiller, TakeRequest, timerVars, taskVars, procVars
<1>6. CASE TimerExpire
  <2>1. None \notin ticking
    BY DEF TypeOK, Id, None
  <2> QED
    BY <1>6, <2>1 DEF Ticks, TimerOutlivesProc, NoKiller, TimerExpire, ProcDone, taskVars,
                      procVars
<1>7. CASE (\E p \in Panel : Load(p) \/ CallbackReturns(p)) \/ ProcReturns \/ UNCHANGED vars
  BY <1>7 DEF Ticks, TimerOutlivesProc, NoKiller, Load, CallbackReturns, ProcReturns, vars,
              timerVars,
              taskVars, procVars, killVars
<1> QED
  BY <1>1, <1>2, <1>3, <1>4, <1>5, <1>6, <1>7 DEF Next, MainStep, ProcStep, KillerStep

LEMMA HandedStep ==
    ASSUME IInv, [Next]_vars
    PROVE  HandedOverOnce' /\ Handed'
<1> USE DEF IInv
<1>1. ASSUME NEW p \in Panel, NEW k \in Kind, CreateTimer(p, k)
      PROVE  HandedOverOnce' /\ Handed'
  <2>1. nextId # procOn
    BY <1>1 DEF CreateTimer, Born, TypeOK, Id, None
  <2>2. /\ kind'[procOn] = kind[procOn] \/ procOn = None
        /\ timerMap \subseteq timerMap'
    BY <1>1, <2>1 DEF CreateTimer, TypeOK, Id, None
  <2>3. UNCHANGED <<stopped, proc, procOn, requests, killing>>
    BY <1>1 DEF CreateTimer, procVars, killVars
  <2> QED
    BY <2>2, <2>3 DEF HandedOverOnce, Handed, Frame
<1>2. CASE NoInvoke \/ InvokeReturns
  <2>1. UNCHANGED <<kind, timerMap, stopped, procOn, requests, killing>>
    BY <1>2 DEF NoInvoke, InvokeReturns, timerVars, killVars
  <2>2. proc \in {"sending", "handled"}
    BY <1>2 DEF NoInvoke, InvokeReturns, Frame
  <2>3. proc' = AfterSend
    BY <1>2 DEF NoInvoke, InvokeReturns
  <2> QED
    BY <2>1, <2>2, <2>3 DEF HandedOverOnce, Handed, AfterSend
<1>3. ASSUME NEW i \in Id, Signal(i)
      PROVE  HandedOverOnce' /\ Handed'
  <2>1. UNCHANGED <<kind, timerMap, requests, killing>> /\ stopped \subseteq stopped'
    BY <1>3 DEF Signal, timerVars, killVars
  <2>2. proc' # "leaving" => i \notin stopped
    BY <1>3 DEF Signal, ProcBranch
  <2>3. i \notin stopped => i \notin ToSet(requests) /\ (killing # None => killing # i)
    BY DEF HandedOverOnce, Handed
  <2>4. i # None
    BY DEF Id, None
  <2>5. procOn' = i /\ proc' \in {"leaving", "request", "sending"}
    BY <1>3 DEF Signal, ProcBranch
  <2>6. proc' = "request" \/ (proc' = "sending" /\ kind[i] = "timeout") => i \in stopped'
    BY <1>3 DEF Signal
  <2> QED
    BY <2>1, <2>2, <2>3, <2>4, <2>5, <2>6 DEF HandedOverOnce, Handed
<1>4. CASE StopRequest
  <2>1. procOn \in Id /\ requests \in Seq(Id)
    BY <1>4 DEF StopRequest, Frame, TypeOK
  <2>2. procOn \in timerMap /\ procOn \in stopped /\ procOn \notin ToSet(requests) \cup {killing}
    BY <1>4, <2>1 DEF StopRequest, TimerOutlivesProc, HandedOverOnce, Handed, Id, None
  <2>3. ToSet(requests') = ToSet(requests) \cup {procOn} /\ IsInjective(requests')
    BY <1>4, <2>1, <2>2, PrependFacts DEF StopRequest, WithRequest, HandedOverOnce
  <2>4. proc' = "leaving" /\ UNCHANGED <<kind, timerMap, stopped, procOn, killing>>
    BY <1>4 DEF StopRequest, timerVars
  <2> QED
    BY <2>2, <2>3, <2>4 DEF HandedOverOnce, Handed
<1>5. CASE TakeRequest
  <2>1. /\ IsInjective(requests')
        /\ ToSet(requests') = ToSet(requests) \ {killing'}
        /\ killing' \in ToSet(requests)
    BY <1>5, TailFacts DEF TakeRequest, TypeOK, HandedOverOnce
  <2>2. UNCHANGED <<kind, timerMap, stopped, proc, procOn>>
    BY <1>5 DEF TakeRequest, timerVars, procVars
  <2> QED
    BY <2>1, <2>2 DEF HandedOverOnce, Handed
<1>6. CASE TimerExpire
  <2>1. /\ timerMap' = timerMap \ {killing} /\ killing' = None
        /\ UNCHANGED <<kind, stopped, proc, procOn, requests>>
    BY <1>6 DEF TimerExpire, procVars
  <2>2. None \notin ToSet(requests)
    BY DEF HandedOverOnce, TypeOK, Id, None
  <2>3. proc \in {"request", "sending", "handled"} => procOn # None
    BY DEF Frame
  <2> QED
    BY <2>1, <2>2, <2>3 DEF HandedOverOnce, Handed
<1>7. CASE Invoke
  BY <1>7 DEF HandedOverOnce, Handed, Invoke, timerVars, killVars
<1>8. CASE (\E p \in Panel : Load(p) \/ Unload(p) \/ CallbackReturns(p))
           \/ (\E i \in Id : KillTimer(i))
           \/ ProcReturns \/ UNCHANGED vars
  BY <1>8 DEF HandedOverOnce, Handed, Load, Unload, CallbackReturns, KillTimer,
              ProcReturns, vars, timerVars,
              procVars, killVars
<1> QED
  BY <1>1, <1>2, <1>3, <1>4, <1>5, <1>6, <1>7, <1>8 DEF Next, MainStep, ProcStep, KillerStep

-----------------------------------------------------------------------------
(* The theorems *)

\* IInv holds in every reachable state.
THEOREM Invariance == Spec => []IInv
<1>1. IInv /\ [Next]_vars => IInv'
  BY TypeStep, BornStep, FrameStep, RefsStep, TimerStep, HandedStep DEF IInv
<1> QED
  BY InitIInv, <1>1, PTL DEF Spec

\* Type correctness: among it, that no reference count ever goes below zero or above two.
THEOREM TypeCorrect == Spec => []TypeOK
<1>1. IInv => TypeOK
  BY DEF IInv
<1> QED
  BY <1>1, Invariance, PTL

\* Reference counts are exact, whatever scripts clear and reload while a call runs.
THEOREM CountsAreExact == Spec => []RefsMatchOwners
<1>1. IInv => RefsMatchOwners
  BY DEF IInv
<1> QED
  BY <1>1, Invariance, PTL

\* The killer thread gets every timer at most once.
THEOREM HandedOver == Spec => []HandedOverOnce
<1>1. IInv => HandedOverOnce
  BY DEF IInv
<1> QED
  BY <1>1, Invariance, PTL

\* The killer thread frees no timer under its proc.
THEOREM NoFreeUnderProc == Spec => []TimerOutlivesProc
<1>1. IInv => TimerOutlivesProc
  BY DEF IInv
<1> QED
  BY <1>1, Invariance, PTL

\* A message that was under way when its timer was cleared or its script unloaded calls
\* nothing.
THEOREM NoLateCall == Spec => ClearedNeverInvoked
<1>1. IInv /\ [Next]_vars => [invoking' \notin {None, invoking} => invoking' \notin stopRequested]_vars
  <2> SUFFICES ASSUME IInv, [Next]_vars, invoking' \notin {None, invoking}
               PROVE  invoking' \notin stopRequested
    OBVIOUS
  <2>1. Invoke
    BY DEF Next, MainStep, ProcStep, KillerStep, CreateTimer, Load, Unload,
           CallbackReturns, KillTimer, NoInvoke,
           InvokeReturns, Signal, StopRequest, ProcReturns, TakeRequest, TimerExpire, vars,
           callVars
  <2>2. invoking' = procOn /\ procOn \in taskMap /\ procOn # invoking
    BY <2>1 DEF Invoke, KnownTasks
  <2> QED
    BY <2>2 DEF IInv, HeldTasks
<1> QED
  BY <1>1, Invariance, PTL DEF Spec, ClearedNeverInvoked

\* As the program runs, without the killer thread, unloading a panel's script lets go of
\* every function its timers held, but for the one on the stack.
THEOREM UnloadIsComplete ==
    ASSUME ~Killer
    PROVE  Spec => UnloadReleasesTasks
<1>1. ASSUME IInv, IInv', [Next]_vars, NEW p \in Panel,
             window'[p] \notin {window[p], "loaded"}, NEW i \in taskMap', hwnd[i] = p
      PROVE  i = invoking
  <2>1. Unload(p)
    <3>1. window' # window
      BY <1>1
    <3>2. PICK r \in Panel : Load(r) \/ Unload(r)
      BY <1>1, <3>1 DEF Next, MainStep, ProcStep, KillerStep, CreateTimer, KillTimer,
                        Invoke,
         CallbackReturns, NoInvoke, InvokeReturns, Signal, StopRequest, ProcReturns,
         TakeRequest, TimerExpire, vars
    <3>3. r = p
      BY <1>1, <3>2 DEF IInv, TypeOK, Load, Unload
    <3> QED
      BY <1>1, <3>2, <3>3 DEF IInv, TypeOK, Load
  <2>2. i \in timerMap
    BY <1>1, <2>1 DEF Unload, KillTimers, Release, TasksLeft, IInv, NoKiller
  <2>3. i \in stopRequested' /\ invoking' = invoking
    BY <1>1, <2>1, <2>2 DEF Unload, KillTimers, TimersOf, callVars
  <2> QED
    BY <1>1, <2>3 DEF IInv, HeldTasks
<1>2. IInv /\ IInv' /\ [Next]_vars =>
          [\A p \in Panel : window'[p] \notin {window[p], "loaded"} =>
               \A i \in taskMap' : hwnd[i] # p \/ i = invoking]_vars
  BY <1>1
<1> QED
  BY <1>2, Invariance, PTL DEF Spec, UnloadReleasesTasks

=============================================================================
