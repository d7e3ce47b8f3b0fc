-------------------------- MODULE ThreadPoolProofs --------------------------
(***************************************************************************)
(* Theorems about the thread pool, for every set of tasks and of worker    *)
(* objects and every limit on the number of workers.                       *)
(***************************************************************************)
EXTENDS ThreadPool, SequenceFacts, FiniteSetTheorems, SequenceTheorems, TLAPS

-----------------------------------------------------------------------------
(* The inductive invariant *)

\* Where the threads are, what they hold there, and what that says of the shared state.
Control ==
    /\ main \in {"loop", "lock", "grow"} => ~exiting
    /\ main \in {"join", "sweep", "quit"} => exiting
    /\ arg # NoTask <=> main \in {"check", "lock"}
    /\ cs = Main <=> main = "grow"
    /\ \A w \in Worker :
        /\ cs = w => pc[w] \in {"decrement", "deregister", "leave"}
        /\ pc[w] = "leave" => cs = w
        /\ pc[w] = "decrement" => exiting \/ (cs = w /\ queue = <<>>)
        /\ pc[w] \in {"run", "sending", "untrack"} => task[w] # NoTask
        /\ task[w] # NoTask => pc[w] \in {"run", "sending", "untrack", "failed"}

\* empty_worker_ is set only while no worker is counted, and the main thread is past
\* join's loop only then.
EmptyMeansNone ==
    /\ emptyWorker => numWorkers = 0
    /\ main \in {"sweep", "quit"} => numWorkers = 0

IInv ==
    /\ TypeOK
    /\ Control
    /\ WorkersCounted
    /\ EmptyMeansNone
    /\ OneOwner
    /\ EventMatchesQueue
    /\ QueuedHasWorker

-----------------------------------------------------------------------------
(* Counting and taking *)

\* acquire_task has taken the task out, so that untrack's remove_item finds nothing.
LEMMA UntrackKeeps ==
    ASSUME IInv, NEW w \in Worker, pc[w] = "untrack"
    PROVE  RemoveFirst(queue, task[w]) = queue
<1>1. task[w] \in Held
  BY DEF IInv, Control, Held
<1>2. task[w] \notin ToSet(queue)
  BY <1>1 DEF IInv, OneOwner
<1> QED
  BY <1>2, RemoveAbsent DEF IInv, TypeOK

LEMMA CountedFinite == IsFiniteSet(Counted)
BY PoolAssumption, FS_Subset DEF Counted

\* A worker that is still counted finds num_workers_ positive.
LEMMA CountedPositive ==
    ASSUME IInv, NEW w \in Counted
    PROVE  numWorkers \in 1 .. MaxWorkers
<1>1. Cardinality(Counted) \in Nat /\ Cardinality(Counted) # 0
  BY CountedFinite, FS_CardinalityType, FS_EmptySet
<1> QED
  BY <1>1 DEF IInv, TypeOK, WorkersCounted

\* Without failed workers a positive num_workers_ means a worker that will come back,
\* unless the only ones left are on their way out.
LEMMA CountedLives ==
    ASSUME IInv, numWorkers # 0, Failed = {}, ~exiting, queue # <<>>
    PROVE  Live # {}
<1>1. Counted # {}
  BY FS_EmptySet DEF IInv, WorkersCounted
<1>2. PICK w \in Worker : pc[w] \notin {"none", "deregister", "leave", "finished"}
  BY <1>1 DEF Counted
<1>3. pc[w] \in WorkerPC /\ pc[w] \notin {"failed", "decrement"}
  BY DEF IInv, TypeOK, Control, Failed
<1>4. w \in Live
  BY <1>2, <1>3 DEF Live, WorkerPC
<1> QED
  BY <1>4

-----------------------------------------------------------------------------
(* Each part of the invariant is preserved by every step *)

LEMMA TypeStep == IInv /\ [Next]_vars => TypeOK'
<1> SUFFICES ASSUME IInv, [Next]_vars PROVE TypeOK'
  OBVIOUS
<1> USE PoolAssumption DEF IInv, TypeOK, Control, MainPC, WorkerPC
<1>1. CASE Track
  <2>1. arg \in Task
    BY <1>1 DEF Track
  <2>2. Append(queue, arg) \in Seq(Task)
    BY <2>1, AppendFacts
  <2> QED
    BY <1>1, <2>2 DEF Track, Enlist, SetOnFirst
<1>2. CASE Grow
  <2>1. ASSUME NEW w \in Worker, AddWorker(w)
        PROVE  /\ numWorkers' \in 0 .. MaxWorkers
               /\ emptyWorker' \in BOOLEAN
               /\ pc' \in [Worker -> WorkerPC]
    <3>1. numWorkers' = numWorkers + 1 /\ numWorkers < MaxWorkers /\ emptyWorker' = FALSE
      BY <2>1 DEF AddWorker
    <3>3. numWorkers' \in 0 .. MaxWorkers
      BY <3>1
    <3>2. \E l \in {"top", "failed"} : pc' = [pc EXCEPT ![w] = l]
      BY <2>1 DEF AddWorker
    <3>4. pc' \in [Worker -> WorkerPC]
      BY <3>2
    <3> QED
      BY <3>1, <3>3, <3>4
  <2>2. /\ numWorkers' \in 0 .. MaxWorkers
        /\ emptyWorker' \in BOOLEAN
        /\ pc' \in [Worker -> WorkerPC]
    BY <1>2, <2>1 DEF Grow
  <2> QED
    BY <1>2, <2>2 DEF Grow
<1>3. CASE UntrackAll
  <2>1. queue # <<>> => Tail(queue) \in Seq(Task)
    BY TailFacts
  <2> QED
    BY <1>3, <2>1 DEF UntrackAll
<1>4. ASSUME NEW w \in Worker, AcquireTask(w) PROVE TypeOK'
  <2>1. CASE queue = <<>>
    BY <1>4, <2>1 DEF AcquireTask, Goto
  <2>2. CASE queue # <<>>
    <3>1. Tail(queue) \in Seq(Task) /\ Head(queue) \in Task
      BY <2>2, TailFacts
    <3>2. queue' = Tail(queue) /\ task' = [task EXCEPT ![w] = Head(queue)]
          /\ haveTask' = (haveTask /\ queue' # <<>>) /\ pc' = [pc EXCEPT ![w] = "run"]
          /\ UNCHANGED <<exiting, emptyWorker, numWorkers, cs, heap, main, arg, posted, deleting>>
      BY <1>4, <2>2 DEF AcquireTask, Goto, Unlinked, ResetOnLast
    <3>3. queue' \in Seq(Task) /\ haveTask' \in BOOLEAN
      BY <3>1, <3>2
    <3>4. /\ task' \in [Worker -> Task \cup {NoTask}]
          /\ pc' \in [Worker -> WorkerPC]
      BY <3>1, <3>2
    <3> QED
      BY <3>2, <3>3, <3>4
  <2> QED
    BY <2>1, <2>2
<1>5. ASSUME NEW w \in Worker, Untrack(w) PROVE TypeOK'
  BY <1>5, UntrackKeeps DEF Untrack, Goto, ResetOnLast
<1>6. ASSUME NEW w \in Worker, Decrement(w) PROVE TypeOK'
  <2>1. numWorkers - 1 \in 0 .. MaxWorkers
    BY <1>6, CountedPositive DEF Decrement, Counted
  <2> QED
    BY <1>6, <2>1 DEF Decrement, Goto
<1>7. CASE Refuse \/ Accept \/ DeleteWorker \/ Join \/ SeeEmpty \/ Exited \/ UNCHANGED vars
  BY <1>7 DEF Refuse, Pump, Accept, DeleteWorker, Join, Pumping, SeeEmpty, Exited, vars
<1>8. ASSUME NEW t \in Task, Submit(t) PROVE TypeOK'
  BY <1>8 DEF Submit, Pumping
<1>9. ASSUME NEW w \in Worker,
             LoopTop(w) \/ WaitTask(w) \/ RunTask(w) \/ IdleCheck(w) \/ IdleLock(w)
      PROVE  TypeOK'
  <2>1. \E l \in {"decrement", "wait", "acquire", "idle", "sending", "untrack", "top",
                  "idleLock", "failed"} : pc' = [pc EXCEPT ![w] = l]
    BY <1>9 DEF LoopTop, Goto, WaitTask, RunTask, IdleCheck, IdleLock
  <2>2. pc' \in [Worker -> WorkerPC]
    BY <2>1
  <2> QED
    BY <1>9, <2>2 DEF LoopTop, WaitTask, RunTask, IdleCheck, IdleLock
<1>10. ASSUME NEW w \in Worker,
              DispatchDone(w) \/ DispatchRemover(w) \/ Deregister(w) \/ Leave(w)
       PROVE  TypeOK'
  BY <1>10 DEF DispatchDone, Pumping, DispatchRemover, Goto, Deregister, Leave
<1> QED
  BY <1>1, <1>2, <1>3, <1>4, <1>5, <1>6, <1>7, <1>8, <1>9, <1>10 DEF Next, MainStep, WorkerStep

LEMMA ControlStep == IInv /\ [Next]_vars => Control'
<1> SUFFICES ASSUME IInv, [Next]_vars PROVE Control'
  OBVIOUS
<1> USE PoolAssumption DEF IInv, TypeOK, Control
<1>1. CASE Track
  BY <1>1 DEF Track
<1>2. CASE Grow
  BY <1>2 DEF Grow, AddWorker
<1>3. ASSUME NEW w \in Worker, AcquireTask(w) PROVE Control'
  BY <1>3, TailFacts DEF AcquireTask, Goto, Unlinked
<1>4. ASSUME NEW w \in Worker, Untrack(w) PROVE Control'
  BY <1>4 DEF Untrack, Goto
<1>5. CASE Refuse \/ Accept \/ DeleteWorker \/ Join \/ SeeEmpty \/ UntrackAll \/ Exited
     \/ UNCHANGED vars
  BY <1>5 DEF Refuse, Pump, Accept, DeleteWorker, Join, Pumping, SeeEmpty, UntrackAll,
       Exited, vars
<1>6. ASSUME NEW t \in Task, Submit(t) PROVE Control'
  BY <1>6 DEF Submit, Pumping
<1>7. ASSUME NEW w \in Worker,
             DispatchDone(w) \/ DispatchRemover(w) \/ LoopTop(w) \/ WaitTask(w) \/
                  RunTask(w) \/ IdleCheck(w) \/ IdleLock(w) \/ Decrement(w) \/
                  Deregister(w) \/ Leave(w)
      PROVE  Control'
  BY <1>7 DEF DispatchDone, Pumping, DispatchRemover, LoopTop, Goto, WaitTask, RunTask,
       IdleCheck, IdleLock, Decrement, Deregister, Leave
<1> QED
  BY <1>1, <1>2, <1>3, <1>4, <1>5, <1>6, <1>7 DEF Next, MainStep, WorkerStep

LEMMA EventStep == IInv /\ [Next]_vars => EventMatchesQueue'
<1> SUFFICES ASSUME IInv, [Next]_vars PROVE EventMatchesQueue'
  OBVIOUS
<1> USE PoolAssumption DEF IInv, TypeOK, EventMatchesQueue
<1>1. CASE Track
  <2>1. Append(queue, arg) # <<>>
    BY <1>1, AppendFacts DEF Control, Track
  <2> QED
    BY <1>1, <2>1 DEF Track, Enlist, SetOnFirst
<1>2. CASE UntrackAll
  BY <1>2 DEF UntrackAll
<1>3. ASSUME NEW w \in Worker, AcquireTask(w) PROVE EventMatchesQueue'
  BY <1>3 DEF AcquireTask, Unlinked, ResetOnLast
<1>4. ASSUME NEW w \in Worker, Untrack(w) PROVE EventMatchesQueue'
  BY <1>4, UntrackKeeps DEF Untrack, ResetOnLast
<1>5. CASE Refuse \/ Accept \/ Grow \/ DeleteWorker \/ Join \/ SeeEmpty \/ Exited \/
     UNCHANGED vars
  BY <1>5 DEF Refuse, Pump, Accept, Grow, AddWorker, DeleteWorker, Join, Pumping,
       SeeEmpty, Exited, vars
<1>6. ASSUME NEW t \in Task, Submit(t) PROVE EventMatchesQueue'
  BY <1>6 DEF Submit, Pumping
<1>7. ASSUME NEW w \in Worker,
             DispatchDone(w) \/ DispatchRemover(w) \/ LoopTop(w) \/ WaitTask(w) \/
                  RunTask(w) \/ IdleCheck(w) \/ IdleLock(w) \/ Decrement(w) \/
                  Deregister(w) \/ Leave(w)
      PROVE  EventMatchesQueue'
  BY <1>7 DEF DispatchDone, Pumping, DispatchRemover, LoopTop, Goto, WaitTask, RunTask,
       IdleCheck, IdleLock, Decrement, Deregister, Leave
<1> QED
  BY <1>1, <1>2, <1>3, <1>4, <1>5, <1>6, <1>7 DEF Next, MainStep, WorkerStep

LEMMA EmptyStep == IInv /\ [Next]_vars => EmptyMeansNone'
<1> SUFFICES ASSUME IInv, [Next]_vars PROVE EmptyMeansNone'
  OBVIOUS
<1> USE PoolAssumption DEF IInv, TypeOK, EmptyMeansNone, Control
<1>1. CASE Grow
  BY <1>1 DEF Grow, AddWorker
<1>2. ASSUME NEW w \in Worker, Decrement(w) PROVE EmptyMeansNone'
  <2>1. numWorkers # 0
    BY <1>2, CountedPositive DEF Decrement, Counted
  <2> QED
    BY <1>2, <2>1 DEF Decrement, Goto
<1>3. CASE Refuse \/ Accept \/ Track \/ DeleteWorker \/ Join \/ SeeEmpty \/ UntrackAll
     \/ Exited \/ UNCHANGED vars
  BY <1>3 DEF Refuse, Pump, Accept, Track, Enlist, SetOnFirst, DeleteWorker, Join,
       Pumping, SeeEmpty, UntrackAll, Exited, vars
<1>4. ASSUME NEW t \in Task, Submit(t) PROVE EmptyMeansNone'
  BY <1>4 DEF Submit, Pumping
<1>5. ASSUME NEW w \in Worker,
             DispatchDone(w) \/ DispatchRemover(w) \/ LoopTop(w) \/ WaitTask(w) \/
                  AcquireTask(w) \/ RunTask(w) \/ Untrack(w) \/ IdleCheck(w) \/
                  IdleLock(w) \/ Deregister(w) \/ Leave(w)
      PROVE  EmptyMeansNone'
  BY <1>5 DEF DispatchDone, Pumping, DispatchRemover, LoopTop, Goto, WaitTask,
       AcquireTask, Unlinked, ResetOnLast, RunTask, Untrack, IdleCheck, IdleLock,
       Deregister, Leave
<1> QED
  BY <1>1, <1>2, <1>3, <1>4, <1>5 DEF Next, MainStep, WorkerStep

LEMMA OwnerStep == IInv /\ [Next]_vars => OneOwner'
<1> SUFFICES ASSUME IInv, [Next]_vars PROVE OneOwner'
  OBVIOUS
<1> USE PoolAssumption DEF IInv, TypeOK, OneOwner, Control, Held, InCall
<1>1. CASE Track
  <2>1. arg \in Task /\ arg \notin ToSet(queue) /\ InCall = {arg} /\ InCall' = {}
    BY <1>1 DEF Track
  <2>2. ToSet(queue') = ToSet(queue) \cup {arg} /\ IsInjective(queue')
    BY <1>1, <2>1, AppendFacts DEF Track, Enlist
  <2> QED
    BY <1>1, <2>1, <2>2 DEF Track
<1>2. CASE Grow
  BY <1>2 DEF Grow, AddWorker
<1>3. CASE UntrackAll
  <2>1. CASE queue = <<>>
    BY <1>3, <2>1 DEF UntrackAll
  <2>2. CASE queue # <<>>
    <3>0. queue' = Tail(queue)
      BY <1>3, <2>2 DEF UntrackAll
    <3>1. /\ Head(queue) \in ToSet(queue)
          /\ IsInjective(queue')
          /\ ToSet(queue') = ToSet(queue) \ {Head(queue)}
      <4> HIDE DEF Held, InCall, Control
      <4> QED
        BY <2>2, <3>0, TailFacts
    <3> QED
      BY <1>3, <2>2, <3>1 DEF UntrackAll
  <2> QED
    BY <2>1, <2>2
<1>4. ASSUME NEW w \in Worker, AcquireTask(w) PROVE OneOwner'
  <2>1. CASE queue = <<>>
    BY <1>4, <2>1 DEF AcquireTask, Goto
  <2>2. CASE queue # <<>>
    <3>0. queue' = Tail(queue)
      BY <1>4, <2>2 DEF AcquireTask, Unlinked
    <3>1. /\ Head(queue) \in ToSet(queue) \cap Task
          /\ IsInjective(queue')
          /\ ToSet(queue') = ToSet(queue) \ {Head(queue)}
      <4> HIDE DEF Held, InCall, Control
      <4> QED
        BY <2>2, <3>0, TailFacts
    <3>2. task' = [task EXCEPT ![w] = Head(queue)] /\ task[w] = NoTask
      BY <1>4, <2>2 DEF AcquireTask
    <3>3. Held' = Held \cup {Head(queue)}
      BY <3>1, <3>2
    <3>4. \A u, v \in Worker : task'[u] = task'[v] /\ task'[u] # NoTask => u = v
      BY <3>1, <3>2
    <3>5. heap' = heap /\ InCall' = InCall
      BY <1>4 DEF AcquireTask
    <3> HIDE DEF Held, InCall, Control
    <3> QED
      BY <3>1, <3>3, <3>4, <3>5
  <2> QED
    BY <2>1, <2>2
<1>5. ASSUME NEW w \in Worker, Untrack(w) PROVE OneOwner'
  <2>1. /\ queue' = queue /\ InCall' = InCall
        /\ task' = [task EXCEPT ![w] = NoTask]
        /\ heap' = heap \ {task[w]}
    BY <1>5, UntrackKeeps DEF Untrack
  <2>2. task[w] # NoTask
    BY <1>5 DEF Untrack
  <2>3. Held' = Held \ {task[w]}
    BY <2>1, <2>2
  <2>4. \A u, v \in Worker : task'[u] = task'[v] /\ task'[u] # NoTask => u = v
    BY <2>1
  <2>5. task[w] \in Held
    BY <2>2
  <2> HIDE DEF Held, InCall, Control
  <2> QED
    BY <2>1, <2>3, <2>4, <2>5
<1>6. CASE Refuse \/ Accept \/ DeleteWorker \/ Join \/ SeeEmpty \/ Exited \/ UNCHANGED vars
  BY <1>6 DEF Refuse, Pump, Accept, DeleteWorker, Join, Pumping, SeeEmpty, Exited, vars
<1>7. ASSUME NEW t \in Task, Submit(t) PROVE OneOwner'
  BY <1>7 DEF Submit, Pumping
<1>8. ASSUME NEW w \in Worker,
             DispatchDone(w) \/ DispatchRemover(w) \/ LoopTop(w) \/ WaitTask(w) \/
                  RunTask(w) \/ IdleCheck(w) \/ IdleLock(w) \/ Decrement(w) \/
                  Deregister(w) \/ Leave(w)
      PROVE  OneOwner'
  BY <1>8 DEF DispatchDone, Pumping, DispatchRemover, LoopTop, Goto, WaitTask, RunTask,
       IdleCheck, IdleLock, Decrement, Deregister, Leave
<1> QED
  BY <1>1, <1>2, <1>3, <1>4, <1>5, <1>6, <1>7, <1>8 DEF Next, MainStep, WorkerStep

LEMMA QueuedStep == IInv /\ [Next]_vars => QueuedHasWorker'
<1> SUFFICES ASSUME IInv, [Next]_vars PROVE QueuedHasWorker'
  OBVIOUS
<1> USE PoolAssumption DEF IInv, TypeOK, QueuedHasWorker, Control, Live, Failed
<1>1. CASE Grow
  <2>1. CASE \E w \in Worker : AddWorker(w)
    BY <1>1, <2>1 DEF Grow, AddWorker
  <2>2. CASE numWorkers >= MaxWorkers /\ UNCHANGED <<numWorkers, emptyWorker, pc>>
    <3>1. numWorkers # 0
      BY <2>2
    <3> QED
      BY <1>1, <2>2, <3>1, CountedLives DEF Grow
  <2> QED
    BY <1>1, <2>1, <2>2 DEF Grow
<1>2. ASSUME NEW w \in Worker, AcquireTask(w) PROVE QueuedHasWorker'
  BY <1>2 DEF AcquireTask, Goto, Unlinked
<1>3. ASSUME NEW w \in Worker, Untrack(w) PROVE QueuedHasWorker'
  BY <1>3, UntrackKeeps DEF Untrack, Goto
<1>4. CASE Refuse \/ Accept \/ Track \/ DeleteWorker \/ Join \/ SeeEmpty \/ UntrackAll
     \/ Exited \/ UNCHANGED vars
  BY <1>4 DEF Refuse, Pump, Accept, Track, Enlist, SetOnFirst, DeleteWorker, Join,
       Pumping, SeeEmpty, UntrackAll, Exited, vars
<1>5. ASSUME NEW t \in Task, Submit(t) PROVE QueuedHasWorker'
  BY <1>5 DEF Submit, Pumping
<1>6. ASSUME NEW w \in Worker,
             DispatchDone(w) \/ DispatchRemover(w) \/ LoopTop(w) \/ WaitTask(w) \/
                  RunTask(w) \/ IdleCheck(w) \/ IdleLock(w) \/ Decrement(w) \/
                  Deregister(w) \/ Leave(w)
      PROVE  QueuedHasWorker'
  BY <1>6 DEF DispatchDone, Pumping, DispatchRemover, LoopTop, Goto, WaitTask, RunTask,
       IdleCheck, IdleLock, Decrement, Deregister, Leave
<1> QED
  BY <1>1, <1>2, <1>3, <1>4, <1>5, <1>6 DEF Next, MainStep, WorkerStep

LEMMA CountStep == IInv /\ [Next]_vars => WorkersCounted'
<1> SUFFICES ASSUME IInv, [Next]_vars PROVE WorkersCounted'
  OBVIOUS
<1> USE PoolAssumption DEF IInv, TypeOK, WorkersCounted, Control, Counted
<1>1. CASE Grow
  <2>1. ASSUME NEW w \in Worker, AddWorker(w) PROVE WorkersCounted'
    <3>1. w \notin Counted /\ Counted' = Counted \cup {w} /\ numWorkers' = numWorkers + 1
      BY <2>1 DEF AddWorker
    <3> HIDE DEF Counted
    <3> QED
      BY <3>1, CountedFinite, FS_AddElement
  <2>2. CASE UNCHANGED <<numWorkers, emptyWorker, pc>>
    BY <2>2
  <2> QED
    BY <1>1, <2>1, <2>2 DEF Grow
<1>2. ASSUME NEW w \in Worker, Decrement(w) PROVE WorkersCounted'
  <2>1. w \in Counted /\ Counted' = Counted \ {w} /\ numWorkers' = numWorkers - 1
    BY <1>2 DEF Decrement, Goto
  <2> HIDE DEF Counted
  <2> QED
    BY <2>1, CountedFinite, FS_RemoveElement
<1>3. CASE Refuse \/ Accept \/ Track \/ DeleteWorker \/ Join \/ SeeEmpty \/ UntrackAll
     \/ Exited \/ UNCHANGED vars
  <2>1. CASE DeleteWorker
    <3>1. Counted' = Counted /\ numWorkers' = numWorkers
      BY <2>1 DEF DeleteWorker, Pumping
    <3> QED
      BY <3>1
  <2>2. CASE UNCHANGED <<numWorkers, pc>>
    BY <2>2
  <2> QED
    BY <1>3, <2>1, <2>2 DEF Refuse, Pump, Accept, Track, Join, SeeEmpty, UntrackAll, Exited, vars
<1>4. ASSUME NEW t \in Task, Submit(t) PROVE WorkersCounted'
  BY <1>4 DEF Submit, Pumping
<1>5. ASSUME NEW w \in Worker,
             DispatchDone(w) \/ DispatchRemover(w) \/ LoopTop(w) \/ WaitTask(w) \/
                  AcquireTask(w) \/ RunTask(w)
      PROVE  WorkersCounted'
  <2>1. Counted' = Counted /\ numWorkers' = numWorkers
    BY <1>5 DEF DispatchDone, DispatchRemover, LoopTop, Goto, WaitTask, AcquireTask, RunTask
  <2> QED
    BY <2>1
<1>6. ASSUME NEW w \in Worker,
             Untrack(w) \/ IdleCheck(w) \/ IdleLock(w) \/ Deregister(w) \/ Leave(w)
      PROVE  WorkersCounted'
  <2>1. Counted' = Counted /\ numWorkers' = numWorkers
    BY <1>6 DEF Untrack, IdleCheck, IdleLock, Deregister, Leave, Goto
  <2> QED
    BY <2>1
<1> QED
  BY <1>1, <1>2, <1>3, <1>4, <1>5, <1>6 DEF Next, MainStep, WorkerStep

-----------------------------------------------------------------------------
(* The theorems *)

\* The invariant holds at the start, every step keeps it, hence it always holds.
THEOREM Invariance == Spec => []IInv
<1>1. Init => IInv
  <2> SUFFICES ASSUME Init PROVE IInv
    OBVIOUS
  <2> USE PoolAssumption DEF Init
  <2>1. Counted = {} /\ Held = {} /\ InCall = {} /\ ToSet(queue) = {} /\ IsInjective(queue)
    BY DEF Counted, Held, InCall, ToSet, IsInjective
  <2>2. TypeOK
    <3>1. pc \in [Worker -> WorkerPC] /\ task \in [Worker -> Task \cup {NoTask}]
      BY DEF WorkerPC
    <3>2. queue \in Seq(Task) /\ numWorkers \in 0 .. MaxWorkers
      BY EmptySeq
    <3> QED
      BY <3>1, <3>2 DEF TypeOK, MainPC
  <2>5. Control
    BY DEF Control
  <2>3. WorkersCounted /\ EmptyMeansNone
    BY <2>1, FS_EmptySet DEF WorkersCounted, EmptyMeansNone
  <2>4. OneOwner /\ EventMatchesQueue /\ QueuedHasWorker
    BY <2>1 DEF OneOwner, EventMatchesQueue, QueuedHasWorker
  <2> QED
    BY <2>2, <2>3, <2>4, <2>5 DEF IInv
<1>2. IInv /\ [Next]_vars => IInv'
  BY TypeStep, ControlStep, CountStep, EmptyStep, OwnerStep, EventStep, QueuedStep DEF IInv
<1> QED
  BY <1>1, <1>2, PTL DEF Spec

\* num_workers_ stays within 0 .. MaxWorkers and every variable within its type.
THEOREM TypeCorrect == Spec => []TypeOK
<1>1. IInv => TypeOK
  BY DEF IInv
<1> QED
  BY <1>1, Invariance, PTL

\* No task is leaked, shared or used after its deletion, whatever the interleaving of
\* enqueue, acquire_task, untrack, the retirements and join.
THEOREM TasksHaveOneOwner == Spec => []OneOwner
<1>1. IInv => OneOwner
  BY DEF IInv
<1> QED
  BY <1>1, Invariance, PTL

\* have_task_ is set exactly while tasks are queued.
THEOREM EventIsExact == Spec => []EventMatchesQueue
<1>1. IInv => EventMatchesQueue
  BY DEF IInv
<1> QED
  BY <1>1, Invariance, PTL

\* num_workers_ counts the workers that have not retired.
THEOREM CountIsExact == Spec => []WorkersCounted
<1>1. IInv => WorkersCounted
  BY DEF IInv
<1> QED
  BY <1>1, Invariance, PTL

\* Until a worker fails, a queued task always has a worker that will come for it.
THEOREM NoTaskStranded == Spec => []QueuedHasWorker
<1>1. IInv => QueuedHasWorker
  BY DEF IInv
<1> QED
  BY <1>1, Invariance, PTL

\* When join has left its loop, every worker is past its last use of the queue.
THEOREM JoinWaitsForAll == Spec => []JoinIsQuiet
<1>1. IInv => JoinIsQuiet
  <2> SUFFICES ASSUME IInv, main \in {"sweep", "quit"} PROVE Live = {} /\ Held = {}
    BY DEF JoinIsQuiet
  <2>1. Counted = {}
    BY CountedFinite, FS_EmptySet DEF IInv, EmptyMeansNone, WorkersCounted
  <2>2. \A w \in Worker : pc[w] \in {"none", "deregister", "leave", "finished"}
    BY <2>1 DEF Counted
  <2> QED
    BY <2>2 DEF Live, Held, IInv, Control
<1> QED
  BY <1>1, Invariance, PTL

-----------------------------------------------------------------------------
(* Refinement *)

\* What acquire_task and untrack do to the set of running tasks.
LEMMA HeldMoves ==
    ASSUME IInv, NEW w \in Worker
    PROVE  /\ AcquireTask(w) /\ queue # <<>> => Held' = Held \cup {Head(queue)}
           /\ Untrack(w) => Held' = Held \ {task[w]} /\ task[w] \in Held
<1> USE PoolAssumption DEF IInv, TypeOK, Control
<1>1. ASSUME AcquireTask(w), queue # <<>>
      PROVE  Held' = Held \cup {Head(queue)}
  <2>1. task' = [task EXCEPT ![w] = Head(queue)] /\ task[w] = NoTask
    BY <1>1 DEF AcquireTask
  <2>2. Head(queue) # NoTask
    BY <1>1, TailFacts
  <2> QED
    BY <2>1, <2>2 DEF Held
<1>2. ASSUME Untrack(w)
      PROVE  Held' = Held \ {task[w]} /\ task[w] \in Held
  <2>1. task' = [task EXCEPT ![w] = NoTask] /\ task[w] # NoTask
    BY <1>2 DEF Untrack
  <2> QED
    BY <2>1 DEF Held, OneOwner
<1> QED
  BY <1>1, <1>2

\* The concrete steps that are steps of TaskPool; the others leave its view alone.
LEMMA StepRefines == IInv /\ JoinIsQuiet /\ [Next]_vars => [Abstract!Next]_(Abstract!vars)
<1> SUFFICES ASSUME IInv, JoinIsQuiet, [Next]_vars
             PROVE  [Abstract!Next]_(Abstract!vars)
  OBVIOUS
<1> USE PoolAssumption DEF IInv, TypeOK, Control
<1>1. CASE Track
  <2>1. /\ arg \in Task /\ main' = "grow" /\ ~exiting /\ ~exiting'
        /\ queue' = Append(queue, arg) /\ Held' = Held
    BY <1>1 DEF Track, Enlist, Held
  <2>2. arg \notin ToSet(queue) \cup Held
    BY <2>1 DEF OneOwner, InCall
  <2>3. Abstract!Submit(arg)
    BY <1>1, <2>1, <2>2 DEF Track, ToSet, Abstract!ToSet, Abstract!Submit
  <2> QED
    BY <2>1, <2>3 DEF Abstract!Next
<1>2. ASSUME NEW w \in Worker, AcquireTask(w)
      PROVE  [Abstract!Next]_(Abstract!vars)
  <2>1. main' = main /\ exiting' = exiting /\ main # "quit"
    BY <1>2 DEF AcquireTask, JoinIsQuiet, Live
  <2>2. CASE queue = <<>>
    BY <1>2, <2>1, <2>2 DEF AcquireTask, Held, Abstract!vars
  <2>3. CASE queue # <<>>
    <3>1. queue' = Tail(queue) /\ Held' = Held \cup {Head(queue)}
      BY <1>2, <2>3, HeldMoves DEF AcquireTask, Unlinked
    <3>2. Abstract!Start
      BY <2>1, <2>3, <3>1 DEF Abstract!Start
    <3> QED
      BY <3>2 DEF Abstract!Next
  <2> QED
    BY <2>2, <2>3
<1>3. ASSUME NEW w \in Worker, Untrack(w)
      PROVE  [Abstract!Next]_(Abstract!vars)
  <2>1. main' = main /\ exiting' = exiting /\ queue' = queue
    BY <1>3, UntrackKeeps DEF Untrack
  <2>2. Held' = Held \ {task[w]} /\ task[w] \in Held /\ task[w] \in Task
    BY <1>3, HeldMoves DEF Held
  <2>3. Abstract!Finish(task[w])
    BY <2>1, <2>2 DEF Abstract!Finish
  <2> QED
    BY <2>2, <2>3 DEF Abstract!Next
<1>4. CASE Join
  <2>1. Abstract!Close
    BY <1>4 DEF Join, Pumping, Held, Abstract!Close
  <2> QED
    BY <2>1 DEF Abstract!Next
<1>5. CASE UntrackAll
  <2>1. /\ main = "sweep" /\ main' = "quit" /\ exiting /\ Held = {} /\ Held' = Held
    <3>1. main = "sweep" /\ main' = "quit" /\ UNCHANGED task
      BY <1>5 DEF UntrackAll
    <3>2. exiting /\ Held = {}
      BY <3>1 DEF JoinIsQuiet
    <3>3. Held' = Held
      BY ONLY <3>1 DEF Held
    <3> QED
      BY ONLY <3>1, <3>2, <3>3
  <2>2. \E k \in 0 .. Len(queue) : queue' = SubSeq(queue, k + 1, Len(queue))
    <3>1. CASE queue = <<>>
      <4>1. queue' = SubSeq(queue, 0 + 1, Len(queue)) /\ 0 \in 0 .. Len(queue)
        BY <1>5, <3>1, SubSeqFull, EmptySeq DEF UntrackAll
      <4> QED
        BY <4>1
    <3>2. CASE queue # <<>>
      <4>1. queue' = SubSeq(queue, 1 + 1, Len(queue)) /\ 1 \in 0 .. Len(queue)
        BY <1>5, <3>2, TailIsSubSeq, EmptySeq, LenProperties DEF UntrackAll
      <4> QED
        BY <4>1
    <3> QED
      BY <3>1, <3>2
  <2>3. Abstract!Discard
    BY <2>1, <2>2 DEF Abstract!Discard
  <2> QED
    BY <2>3 DEF Abstract!Next
<1>6. CASE Refuse \/ Accept \/ Grow \/ DeleteWorker \/ SeeEmpty \/ Exited \/ UNCHANGED vars
  BY <1>6 DEF Refuse, Pump, Accept, Grow, DeleteWorker, SeeEmpty, Exited, vars, Held,
              Abstract!vars
<1>7. ASSUME NEW t \in Task, Submit(t)
      PROVE  [Abstract!Next]_(Abstract!vars)
  BY <1>7 DEF Submit, Pumping, Held, Abstract!vars
<1>8. ASSUME NEW w \in Worker,
             DispatchDone(w) \/ DispatchRemover(w) \/ LoopTop(w) \/ WaitTask(w) \/
                  RunTask(w) \/ IdleCheck(w) \/ IdleLock(w) \/ Decrement(w) \/
                  Deregister(w) \/ Leave(w)
      PROVE  [Abstract!Next]_(Abstract!vars)
  BY <1>8 DEF DispatchDone, DispatchRemover, LoopTop, WaitTask, RunTask, IdleCheck,
              IdleLock, Decrement, Deregister, Leave, Held, Abstract!vars
<1> QED
  BY <1>1, <1>2, <1>3, <1>4, <1>5, <1>6, <1>7, <1>8 DEF Next, MainStep, WorkerStep

\* The pool with its locks, events and counters implements the FIFO pool of TaskPool.
THEOREM Refinement == Spec => ImplementsTaskPool
<1>1. Init => Abstract!Init
  <2> SUFFICES ASSUME Init PROVE Abstract!Init
    OBVIOUS
  <2>1. Held = {}
    BY DEF Init, Held
  <2> QED
    BY <2>1 DEF Init, Abstract!Init
<1>2. IInv /\ JoinIsQuiet /\ [Next]_vars => [Abstract!Next]_(Abstract!vars)
  BY StepRefines
<1> QED
  BY <1>1, <1>2, Invariance, JoinWaitsForAll, PTL DEF Spec, Abstract!Spec, ImplementsTaskPool

=============================================================================
