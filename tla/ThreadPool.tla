----------------------------- MODULE ThreadPool -----------------------------
(***************************************************************************)
(* simple_thread_pool (src/src/thread_pool.h, thread_pool.cpp): the pool   *)
(* that runs the tasks of gdi.LoadImageAsync and utils.GetAlbumArtAsync.   *)
(*                                                                         *)
(* Threads.  The main thread submits tasks (enqueue), dispatches window    *)
(* messages and main-thread callbacks, and at exit closes the pool (join). *)
(* Each worker thread loops in threadProc.  They share task_list_ and      *)
(* num_workers_, the critical section cs_ and three manual-reset events.   *)
(*                                                                         *)
(* Atomicity.  One step is one wait or one stretch of code that no other   *)
(* thread can observe half-done: the body of a critical section is one     *)
(* step, except where the code does something inside it that the rest of   *)
(* the program sees before the section ends (enqueue, which lets a woken   *)
(* worker look at have_task_ before the new worker exists, and the         *)
(* retirement of an idle worker).                                          *)
(***************************************************************************)
EXTENDS Integers, FiniteSets, SequencesExt

CONSTANTS Task,         \* task objects; a deleted one may be allocated again
          Worker,       \* worker objects, likewise
          MaxWorkers,   \* pfc::getOptimalWorkerThreadCount()
          Main,         \* the main thread, as the owner of cs_
          NoOne,        \* cs_ is free; no worker object is being deleted
          NoTask        \* a thread holds no task

ASSUME PoolAssumption ==
    /\ IsFiniteSet(Worker)
    /\ MaxWorkers \in Nat \ {0}
    /\ {Main, NoOne} \cap Worker = {}
    /\ Main # NoOne
    /\ NoTask \notin Task

VARIABLES
    queue,       \* task_list_
    haveTask,    \* the event have_task_
    exiting,     \* the event exiting_
    emptyWorker, \* the event empty_worker_
    numWorkers,  \* num_workers_
    cs,          \* the owner of cs_
    heap,        \* the task objects that are allocated
    main,        \* where the main thread is
    arg,         \* the task enqueue was called with
    pc,          \* where each worker thread is; "none": no such object
    task,        \* the task each worker has in hand
    posted,      \* workers whose simple_thread_worker_remover is posted
    deleting     \* the worker object the main thread is deleting

vars == <<queue, haveTask, exiting, emptyWorker, numWorkers, cs, heap, main, arg,
          pc, task, posted, deleting>>

\* "loop" and "join" are the two message pumps, foobar2000's and the one in join().
MainPC == {"loop", "check", "lock", "grow", "join", "sweep", "quit"}

WorkerPC == {"none", "failed", "top", "wait", "acquire", "run", "sending",
             "untrack", "idle", "idleLock", "decrement", "deregister",
             "leave", "finished"}

\* Worker objects that num_workers_ counts: from add_worker_ to the decrement in
\* remove_worker_.
Counted == {w \in Worker : pc[w] \notin {"none", "deregister", "leave", "finished"}}

\* Worker objects whose thread did not start, or ended in a task that threw: nobody
\* uncounts or deletes them.
Failed == {w \in Worker : pc[w] = "failed"}

\* Workers that will look at the queue again.
Live == {w \in Worker : pc[w] \in {"top", "wait", "acquire", "run", "sending",
                                   "untrack", "idle", "idleLock"}}

\* Mutant: join waits without dispatching messages.
DeafJoin == main = "loop" /\ deleting = NoOne

\* The main thread is at a point where it takes the next message.
Pumping == main \in {"loop", "join"} /\ deleting = NoOne

\* The pump a call made from a message handler returns to.
Pump == IF exiting THEN "join" ELSE "loop"

\* The tasks in the hands of the workers, and the one enqueue was called with.
Held == {task[w] : w \in Worker} \ {NoTask}
InCall == {arg} \ {NoTask}

Init ==
    /\ queue = <<>>
    /\ haveTask = FALSE
    /\ exiting = FALSE
    /\ emptyWorker = TRUE
    /\ numWorkers = 0
    /\ cs = NoOne
    /\ heap = {}
    /\ main = "loop"
    /\ arg = NoTask
    /\ pc = [w \in Worker |-> "none"]
    /\ task = [w \in Worker |-> NoTask]
    /\ posted = {}
    /\ deleting = NoOne

\* Mutant: the list is tested after the item was added.
NeverFirst(q) == haveTask

\* have_task_ after an item was added to a list that was q, and after one was taken
\* and left q: set on the first, reset after the last.
SetOnFirst(q) == haveTask \/ q = <<>>

\* Mutant: the event stays set.
KeepSet(q) == haveTask

ResetOnLast(q) == haveTask /\ q # <<>>

-----------------------------------------------------------------------------
(* The main thread: enqueue *)

\* A script calls LoadImageAsync or GetAlbumArtAsync: new task, then enqueue(task).
\* A free worker object stands for the unbounded heap (the bound of the model).
Submit(t) ==
    /\ Pumping
    /\ t \notin heap
    /\ \E w \in Worker : pc[w] = "none"
    /\ heap' = heap \cup {t}
    /\ arg' = t
    /\ main' = "check"
    /\ UNCHANGED <<queue, haveTask, exiting, emptyWorker, numWorkers, cs, pc, task,
                   posted, deleting>>

\* After exiting_ is set enqueue returns false and the caller deletes the task.
Refuse ==
    /\ main = "check"
    /\ exiting
    /\ heap' = heap \ {arg}
    /\ arg' = NoTask
    /\ main' = Pump
    /\ UNCHANGED <<queue, haveTask, exiting, emptyWorker, numWorkers, cs, pc, task,
                   posted, deleting>>

Accept ==
    /\ main = "check"
    /\ ~exiting
    /\ main' = "lock"
    /\ UNCHANGED <<queue, haveTask, exiting, emptyWorker, numWorkers, cs, heap, arg,
                   pc, task, posted, deleting>>

\* Mutant: the list is a stack.
Push(q, t) == <<t>> \o q

\* add_item
Enlist(q, t) == Append(q, t)

\* insync(cs_) and track(task): the event is set when the list was empty.
Track ==
    /\ main = "lock"
    /\ cs = NoOne
    /\ cs' = Main
    /\ queue' = Enlist(queue, arg)
    /\ haveTask' = SetOnFirst(queue)
    /\ arg' = NoTask
    /\ main' = "grow"
    /\ UNCHANGED <<exiting, emptyWorker, numWorkers, heap, pc, task, posted, deleting>>

\* num_workers_ < max_count: add_worker_, then start().  When _beginthreadex fails
\* start() throws out of enqueue, which unwinds cs_ and nothing else.
AddWorker(w) ==
    /\ numWorkers < MaxWorkers
    /\ pc[w] = "none"
    /\ numWorkers' = numWorkers + 1
    /\ emptyWorker' = FALSE
    /\ \E l \in {"top", "failed"} : pc' = [pc EXCEPT ![w] = l]

Grow ==
    /\ main = "grow"
    /\ \/ \E w \in Worker : AddWorker(w)
       \/ numWorkers >= MaxWorkers /\ UNCHANGED <<numWorkers, emptyWorker, pc>>
    /\ cs' = NoOne
    /\ main' = "loop"
    /\ UNCHANGED <<queue, haveTask, exiting, heap, arg, task, posted, deleting>>

-----------------------------------------------------------------------------
(* The main thread: messages and callbacks, dispatched by either pump *)

\* The panel handles UWM_..._DONE and the task's SendMessage returns.
DispatchDone(w) ==
    /\ Pumping
    /\ pc[w] = "sending"
    /\ pc' = [pc EXCEPT ![w] = "untrack"]
    /\ UNCHANGED <<queue, haveTask, exiting, emptyWorker, numWorkers, cs, heap, main,
                   arg, task, posted, deleting>>

\* simple_thread_worker_remover::callback_run: delete worker_, ...
DispatchRemover(w) ==
    /\ Pumping
    /\ w \in posted
    /\ posted' = posted \ {w}
    /\ deleting' = w
    /\ UNCHANGED <<queue, haveTask, exiting, emptyWorker, numWorkers, cs, heap, main,
                   arg, pc, task>>

\* ... whose destructor waits for the thread.
DeleteWorker ==
    /\ deleting # NoOne
    /\ pc[deleting] = "finished"
    /\ pc' = [pc EXCEPT ![deleting] = "none"]
    /\ deleting' = NoOne
    /\ UNCHANGED <<queue, haveTask, exiting, emptyWorker, numWorkers, cs, heap, main,
                   arg, task, posted>>

-----------------------------------------------------------------------------
(* The main thread: join *)

Join ==
    /\ Pumping
    /\ ~exiting
    /\ exiting' = TRUE
    /\ main' = "join"
    /\ UNCHANGED <<queue, haveTask, emptyWorker, numWorkers, cs, heap, arg, pc, task,
                   posted, deleting>>

\* Mutant: join does not wait.
SeeEmptyMutant ==
    /\ main = "join"
    /\ deleting = NoOne
    /\ main' = "sweep"
    /\ UNCHANGED <<queue, haveTask, exiting, emptyWorker, numWorkers, cs, heap, arg,
                   pc, task, posted, deleting>>

\* The loop of join ends when empty_worker_ is found set.
SeeEmpty ==
    /\ main = "join"
    /\ deleting = NoOne
    /\ emptyWorker
    /\ main' = "sweep"
    /\ UNCHANGED <<queue, haveTask, exiting, emptyWorker, numWorkers, cs, heap, arg,
                   pc, task, posted, deleting>>

\* untrack_all.  Removing the item the iterator stands on cuts its links, so the
\* ++iter that follows ends the loop: it deletes the first task only.
UntrackAll ==
    /\ main = "sweep"
    /\ cs = NoOne
    /\ IF queue = <<>>
       THEN UNCHANGED <<queue, heap>>
       ELSE /\ queue' = Tail(queue)
            /\ heap' = heap \ {Head(queue)}
    /\ haveTask' = FALSE
    /\ main' = "quit"
    /\ UNCHANGED <<exiting, emptyWorker, numWorkers, cs, arg, pc, task, posted, deleting>>

-----------------------------------------------------------------------------
(* A worker thread: simple_thread_worker::threadProc *)

Goto(w, l) == pc' = [pc EXCEPT ![w] = l]

\* while (WaitForSingleObject(exiting_, 0) == WAIT_TIMEOUT)
LoopTop(w) ==
    /\ pc[w] = "top"
    /\ Goto(w, IF exiting THEN "decrement" ELSE "wait")
    /\ UNCHANGED <<queue, haveTask, exiting, emptyWorker, numWorkers, cs, heap, main,
                   arg, task, posted, deleting>>

\* The wait for have_task_ ends at once when it is set and after 1 s when it is not.
WaitTask(w) ==
    /\ pc[w] = "wait"
    /\ Goto(w, IF haveTask THEN "acquire" ELSE "idle")
    /\ UNCHANGED <<queue, haveTask, exiting, emptyWorker, numWorkers, cs, heap, main,
                   arg, task, posted, deleting>>

\* Mutant: the task stays in the list while it runs, as untrack supposes.
StillLinked(q) == q

\* task_list_.remove(first)
Unlinked(q) == Tail(q)

\* acquire_task: another worker may have been here first.
AcquireTask(w) ==
    /\ pc[w] = "acquire"
    /\ cs = NoOne
    /\ IF queue = <<>>
       THEN /\ haveTask' = FALSE
            /\ Goto(w, "idle")
            /\ UNCHANGED <<queue, task>>
       ELSE /\ queue' = Unlinked(queue)
            /\ task' = [task EXCEPT ![w] = Head(queue)]
            /\ haveTask' = ResetOnLast(queue')
            /\ Goto(w, "run")
    /\ UNCHANGED <<exiting, emptyWorker, numWorkers, cs, heap, main, arg, posted, deleting>>

\* task->run() ends in a SendMessage to the panel's window: it blocks until the main
\* thread dispatches it, or returns at once when that window is gone.  When it throws,
\* entry() catches and the thread ends there, its task and its count left behind.
RunTask(w) ==
    /\ pc[w] = "run"
    /\ \E l \in {"sending", "untrack", "failed"} : Goto(w, l)
    /\ UNCHANGED <<queue, haveTask, exiting, emptyWorker, numWorkers, cs, heap, main,
                   arg, task, posted, deleting>>

\* untrack: remove_item finds nothing when acquire_task has taken the task out.
Untrack(w) ==
    /\ pc[w] = "untrack"
    /\ cs = NoOne
    /\ queue' = RemoveFirst(queue, task[w])
    /\ heap' = heap \ {task[w]}
    /\ haveTask' = ResetOnLast(queue')
    /\ task' = [task EXCEPT ![w] = NoTask]
    /\ Goto(w, "top")
    /\ UNCHANGED <<exiting, emptyWorker, numWorkers, cs, main, arg, posted, deleting>>

\* Mutant: last_tick is refreshed by every wait.
IdleCheckMutant(w) ==
    /\ pc[w] = "idle"
    /\ Goto(w, "top")
    /\ UNCHANGED <<queue, haveTask, exiting, emptyWorker, numWorkers, cs, heap, main,
                   arg, task, posted, deleting>>

\* 10 s since the last task, or not yet.
IdleCheck(w) ==
    /\ pc[w] = "idle"
    /\ \E l \in {"top", "idleLock"} : Goto(w, l)
    /\ UNCHANGED <<queue, haveTask, exiting, emptyWorker, numWorkers, cs, heap, main,
                   arg, task, posted, deleting>>

\* Mutant: cs_ is left before the worker retires.
IdleLockMutant(w) ==
    /\ pc[w] = "idleLock"
    /\ cs = NoOne
    /\ Goto(w, IF queue = <<>> THEN "decrement" ELSE "top")
    /\ UNCHANGED <<queue, haveTask, exiting, emptyWorker, numWorkers, cs, heap, main, arg,
                   task, posted, deleting>>

\* insync(cs_), held until the worker has retired; released when there is work.
IdleLock(w) ==
    /\ pc[w] = "idleLock"
    /\ cs = NoOne
    /\ IF queue = <<>>
       THEN cs' = w /\ Goto(w, "decrement")
       ELSE cs' = cs /\ Goto(w, "top")
    /\ UNCHANGED <<queue, haveTask, exiting, emptyWorker, numWorkers, heap, main, arg,
                   task, posted, deleting>>

\* Mutant: the worker goes without being uncounted.
DecrementMutant(w) ==
    /\ pc[w] = "decrement"
    /\ Goto(w, "deregister")
    /\ UNCHANGED <<queue, haveTask, exiting, emptyWorker, numWorkers, cs, heap, main, arg,
                   task, posted, deleting>>

\* remove_worker_ decrements before it enters cs_.
Decrement(w) ==
    /\ pc[w] = "decrement"
    /\ numWorkers' = numWorkers - 1
    /\ Goto(w, "deregister")
    /\ UNCHANGED <<queue, haveTask, exiting, emptyWorker, cs, heap, main, arg, task,
                   posted, deleting>>

\* The rest of remove_worker_: a worker that retires idle holds cs_ already.
Deregister(w) ==
    /\ pc[w] = "deregister"
    /\ cs \in {NoOne, w}
    /\ cs' = w
    /\ emptyWorker' = (emptyWorker \/ numWorkers = 0)
    /\ posted' = posted \cup {w}
    /\ Goto(w, "leave")
    /\ UNCHANGED <<queue, haveTask, exiting, numWorkers, heap, main, arg, task, deleting>>

\* Mutant: no return after the idle exit, so that the thread retires twice.
LeaveMutant(w) ==
    /\ pc[w] = "leave"
    /\ cs' = NoOne
    /\ Goto(w, "decrement")
    /\ UNCHANGED <<queue, haveTask, exiting, emptyWorker, numWorkers, heap, main, arg,
                   task, posted, deleting>>

\* The thread returns from threadProc: cs_ is free again.
Leave(w) ==
    /\ pc[w] = "leave"
    /\ cs' = NoOne
    /\ Goto(w, "finished")
    /\ UNCHANGED <<queue, haveTask, exiting, emptyWorker, numWorkers, heap, main, arg,
                   task, posted, deleting>>

-----------------------------------------------------------------------------

MainStep ==
    \/ \E t \in Task : Submit(t)
    \/ Refuse \/ Accept \/ Track \/ Grow
    \/ \E w \in Worker : DispatchDone(w) \/ DispatchRemover(w)
    \/ DeleteWorker
    \/ Join \/ SeeEmpty \/ UntrackAll

WorkerStep(w) ==
    \/ LoopTop(w) \/ WaitTask(w) \/ AcquireTask(w) \/ RunTask(w) \/ Untrack(w)
    \/ IdleCheck(w) \/ IdleLock(w)
    \/ Decrement(w) \/ Deregister(w) \/ Leave(w)

\* After join the process exits.
Exited ==
    /\ main = "quit"
    /\ \A w \in Worker : pc[w] \in {"none", "failed", "finished"}
    /\ UNCHANGED vars

Next == MainStep \/ (\E w \in Worker : WorkerStep(w)) \/ Exited

Spec == Init /\ [][Next]_vars

(***************************************************************************)
(* Fairness.  A worker is at one place at a time, so one condition says    *)
(* what each place needs: the thread is scheduled; when it waits for cs_   *)
(* it gets it, since every owner leaves; when it waits for the pump, which *)
(* stops nowhere for long, its message or callback has its turn.  The same *)
(* for the main thread inside a call.  join's test of empty_worker_ comes  *)
(* up however many messages there are, and ten seconds do pass.  Scripts   *)
(* need not submit anything and foobar2000 need not exit.                  *)
(***************************************************************************)
Retire(w) == IdleCheck(w) /\ pc'[w] = "idleLock"

Fairness ==
    /\ SF_vars(Refuse \/ Accept \/ Track \/ Grow \/ DeleteWorker \/ UntrackAll)
    /\ SF_vars(SeeEmpty)
    /\ \A w \in Worker : /\ SF_vars(WorkerStep(w) \/ DispatchDone(w) \/ DispatchRemover(w))
                         /\ SF_vars(Retire(w))

FairSpec == Spec /\ Fairness

-----------------------------------------------------------------------------
(* Properties *)

\* Types; among them, that num_workers_ stays between 0 and the limit of enqueue.
TypeOK ==
    /\ queue \in Seq(Task)
    /\ haveTask \in BOOLEAN
    /\ exiting \in BOOLEAN
    /\ emptyWorker \in BOOLEAN
    /\ numWorkers \in 0 .. MaxWorkers
    /\ cs \in Worker \cup {Main, NoOne}
    /\ heap \subseteq Task
    /\ main \in MainPC
    /\ arg \in Task \cup {NoTask}
    /\ pc \in [Worker -> WorkerPC]
    /\ task \in [Worker -> Task \cup {NoTask}]
    /\ posted \subseteq Worker
    /\ deleting \in Worker \cup {NoOne}

\* have_task_ tells the truth: it is set exactly while tasks are queued, so no worker
\* spins on an empty list and none sleeps over a full one (track, acquire_task, untrack).
EventMatchesQueue == main # "quit" => (haveTask <=> queue # <<>>)

\* A queued task never depends on the next enqueue: outside enqueue, until exit, and
\* unless a worker failed, some worker will come back to the queue.  This is why the
\* idle worker tests the queue and retires inside one critical section.
QueuedHasWorker ==
    queue # <<>> /\ main # "grow" /\ ~exiting /\ Failed = {} => Live # {}

\* num_workers_ is exactly the number of workers that have not retired, although
\* remove_worker_ changes it outside the lock that enqueue reads it under.
WorkersCounted == numWorkers = Cardinality(Counted)

\* Once join has left its loop no worker holds a task or will look for one: the list
\* untrack_all walks is the main thread's alone.
JoinIsQuiet == main \in {"sweep", "quit"} => Live = {} /\ Held = {}

\* Every allocated task has one owner, and nobody holds a task that was deleted: it is
\* in the list once, or in the hands of one worker, or the argument of enqueue.
OneOwner ==
    /\ heap = ToSet(queue) \cup Held \cup InCall
    /\ IsInjective(queue)
    /\ \A v, w \in Worker : task[v] = task[w] /\ task[v] # NoTask => v = w
    /\ ToSet(queue) \cap Held = {}
    /\ InCall \cap (ToSet(queue) \cup Held) = {}

Abstract == INSTANCE TaskPool WITH
    pending <- queue,
    running <- Held,
    phase   <- IF main = "quit" THEN "closed" ELSE IF exiting THEN "closing" ELSE "open"

\* The pool implements TaskPool: tasks start in the order of the calls, each once, and
\* none starts after join has discarded what was left.
ImplementsTaskPool == Abstract!Spec

\* What the name untrack_all promises: join leaves no task behind.
NothingLeftBehind == main = "quit" => heap = {}

\* A queued task is taken, or the program exits, or a worker fails.
TaskTaken ==
    \A t \in Task :
      t \in ToSet(queue) ~> (t \notin ToSet(queue) \/ exiting \/ Failed # {})

\* join ends.
JoinEnds == exiting ~> main = "quit"

\* join ends unless a worker has failed, although tasks in progress block in
\* SendMessage to the thread that joins.
JoinTerminates == exiting ~> (main = "quit" \/ Failed # {})

\* When no more tasks come, every worker thread ends (the ten-second rule), and
\* num_workers_ is left to those that failed.
IdleWorkersRetire ==
    <>[](InCall = {} /\ queue = <<>>) => <>[](numWorkers = Cardinality(Failed))

=============================================================================
