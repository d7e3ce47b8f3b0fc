------------------------- MODULE HostTimerDispatcher -------------------------
(***************************************************************************)
(* HostTimerDispatcher (src/src/host_timer_dispatcher.h, .cpp): the timers *)
(* behind window.SetInterval, SetTimeout, ClearInterval and ClearTimeout.  *)
(*                                                                         *)
(* Threads.  The main thread runs the scripts and owns m_taskMap.  The     *)
(* thread of the Windows timer queue runs HostTimer::timerProc, one timer  *)
(* at a time, and blocks in SendMessage until the main thread has handled  *)
(* UWM_TIMER.  The killer thread (threadMain) deletes stopped timers; the  *)
(* program never calls createThread, so Killer = FALSE is the code as it   *)
(* runs and Killer = TRUE the design its header describes.                 *)
(*                                                                         *)
(* Atomicity.  m_timerMap and m_threadTaskList are read and written inside *)
(* short critical sections that never wait: each is part of one step.      *)
(* m_taskMap is the main thread's alone; a handler that does not pump      *)
(* messages is one step, and invoke(), whose script may pump, is two.      *)
(***************************************************************************)
EXTENDS Integers, SequencesExt

CONSTANTS Panel,     \* window handles; a destroyed window's may be used again
          MaxTimers, \* bound: calls of createTimer (ids are 32 bits in the code)
          Killer,    \* createThread was called
          NoPanel    \* the handle of a timer that was not created yet

ASSUME TimerAssumption ==
    /\ MaxTimers \in Nat
    /\ Killer \in BOOLEAN
    /\ NoPanel \notin Panel

VARIABLES
    nextId,        \* m_curTimerId
    timerMap,      \* the keys of m_timerMap: the HostTimer objects
    hwnd,          \* HostTimer::m_hWnd
    kind,          \* HostTimer::m_isRepeated, and whether m_delay is 0
    stopRequested, \* timers with m_isStopRequested
    stopped,       \* timers with m_isStopped
    ticking,       \* timers that Windows will signal again
    taskMap,       \* the keys of m_taskMap: the HostTimerTask objects
    refs,          \* HostTimerTask::m_refCount
    window,        \* each panel: no window, its script unloaded, or loaded
    invoking,      \* the task whose invoke() is on the main thread's stack
    reborn,        \* tasks allocated since that task was deleted under it
    suspended,     \* panels without a script, a callback of which is still on the
                   \* stack: it pumps messages, and was unloaded under that
    proc,          \* where timerProc is
    procOn,        \* the timer it was called with
    requests,      \* m_threadTaskList
    killing        \* the timer the killer thread is deleting

timerVars == <<nextId, timerMap, hwnd, kind>>
taskVars  == <<taskMap, refs>>
callVars  == <<invoking, reborn, suspended>>
procVars  == <<proc, procOn>>
killVars  == <<requests, killing>>
vars == <<timerVars, stopRequested, stopped, ticking, taskVars, window, callVars,
          procVars, killVars>>

\* Ids count up from 1; MaxTimers stays far below the 2^32 calls after which the
\* loop of createTimer would skip used ids, so it never turns here.
Id == 1 .. MaxTimers
None == 0

\* A timeout, an interval, and an interval of 0 ms: a Windows timer of period 0
\* is signaled once, although m_isRepeated is set.
Kind == {"timeout", "interval", "interval0"}

Init ==
    /\ nextId = 1
    /\ timerMap = {} /\ taskMap = {}
    /\ hwnd = [i \in Id |-> NoPanel]
    /\ kind = [i \in Id |-> "timeout"]
    /\ refs = [i \in Id |-> 0]
    /\ stopRequested = {} /\ stopped = {} /\ ticking = {}
    /\ window = [p \in Panel |-> "none"]
    /\ invoking = None /\ reborn = {} /\ suspended = {}
    /\ proc = "free" /\ procOn = None
    /\ requests = <<>> /\ killing = None

-----------------------------------------------------------------------------
(* The main thread: what scripts call *)

\* A function of p's script may be running: the script is loaded, or it was unloaded
\* under a callback or a timer function of its own.
Running(p) ==
    \/ window[p] = "loaded"
    \/ p \in suspended
    \/ invoking # None /\ hwnd[invoking] = p

\* createTimer, with start(): when Windows refuses the timer both entries go again
\* and the script gets 0.
CreateTimer(p, k) ==
    /\ Running(p)
    /\ nextId \in Id
    /\ nextId' = nextId + 1
    /\ \/ /\ timerMap' = timerMap \cup {nextId}
          /\ hwnd' = [hwnd EXCEPT ![nextId] = p]
          /\ kind' = [kind EXCEPT ![nextId] = k]
          /\ ticking' = ticking \cup {nextId}
          /\ taskMap' = taskMap \cup {nextId}
          /\ refs' = [refs EXCEPT ![nextId] = 1]
          /\ reborn' = IF invoking \in taskMap \cup {None} THEN reborn
                       ELSE reborn \cup {nextId}
       \/ UNCHANGED <<timerMap, hwnd, kind, ticking, taskVars, reborn>>
    /\ UNCHANGED <<stopRequested, stopped, window, invoking, suspended, procVars, killVars>>

\* Mutant: a task stays in the map when its last reference goes.
KeepTasks(S) == taskMap

\* The tasks left after each task of S released a reference (onTaskComplete).
TasksLeft(S) == taskMap \ {i \in S : refs[i] = 1}

\* HostTimerTask::release for every task of S that exists.
Release(S) ==
    /\ refs' = [i \in Id |-> IF i \in S \cap taskMap THEN refs[i] - 1 ELSE refs[i]]
    /\ taskMap' = TasksLeft(S)

\* Mutant: a timer that exists is stopped and its task is left to it.
KillMutant(S) ==
    /\ stopRequested' = stopRequested \cup (S \cap timerMap)
    /\ Release(S \ timerMap)

\* killTimer for every id of S: the timer is told to stop and the task is released,
\* each if it exists.
KillTimers(S) ==
    /\ stopRequested' = stopRequested \cup (S \cap timerMap)
    /\ Release(S)

\* ClearInterval, ClearTimeout: of any id, its own panel's or not, cleared or not.
KillTimer(i) ==
    /\ \E p \in Panel : Running(p)
    /\ KillTimers({i})
    /\ UNCHANGED <<timerVars, stopped, ticking, window, callVars, procVars, killVars>>

-----------------------------------------------------------------------------
(* The main thread: panels *)

\* A window is created or its script reloaded: script_load.
Load(p) ==
    /\ window[p] # "loaded"
    /\ window' = [window EXCEPT ![p] = "loaded"]
    /\ suspended' = suspended \ {p}
    /\ UNCHANGED <<timerVars, stopRequested, stopped, ticking, taskVars, invoking, reborn,
                   procVars, killVars>>

\* Mutant: a timer that has stopped has nothing left to kill.
RunningTimersOf(p) == {i \in timerMap : hwnd[i] = p /\ i \notin stopped}

\* timersToDelete of onPanelUnload
TimersOf(p) == {i \in timerMap : hwnd[i] = p}

\* script_unload, on a script error, a reload or UWM_SCRIPT_TERM, and on WM_DESTROY,
\* after which the window is gone.
Unload(p) ==
    /\ window[p] # "none"
    /\ \E s \in {"unloaded", "none"} : window' = [window EXCEPT ![p] = s]
    /\ KillTimers(TimersOf(p))
    /\ \/ UNCHANGED suspended
       \/ window[p] = "loaded" /\ suspended' = suspended \cup {p}
    /\ UNCHANGED <<timerVars, stopped, ticking, invoking, reborn, procVars, killVars>>

\* The callback that p's script was unloaded under returns.
CallbackReturns(p) ==
    /\ p \in suspended
    /\ suspended' = suspended \ {p}
    /\ UNCHANGED <<timerVars, stopRequested, stopped, ticking, taskVars, window, invoking,
                   reborn, procVars, killVars>>

-----------------------------------------------------------------------------
(* The main thread: UWM_TIMER *)

\* What timerProc does after its SendMessage: a timeout asks to be deleted.
AfterSend == IF kind[procOn] = "timeout" THEN "request" ELSE "leaving"

\* Mutant: messages of a timer that has stopped are ignored.
Invocable == taskMap \ stopped

\* The ids whose message leads to a call.
KnownTasks == taskMap

\* Mutant: invoke() relies on the reference of the map.
InvokeMutant ==
    /\ proc = "sending"
    /\ window[hwnd[procOn]] # "none"
    /\ procOn \in taskMap
    /\ invoking' = procOn
    /\ proc' = "handled"
    /\ UNCHANGED <<timerVars, stopRequested, stopped, ticking, taskVars, window, reborn,
                   suspended, procOn, killVars>>

\* onInvokeMessage finds the task: invoke() acquires it and calls the script.
Invoke ==
    /\ proc = "sending"
    /\ window[hwnd[procOn]] # "none"
    /\ procOn \in KnownTasks
    /\ refs' = [refs EXCEPT ![procOn] = @ + 1]
    /\ invoking' = procOn
    /\ proc' = "handled"
    /\ UNCHANGED <<timerVars, stopRequested, stopped, ticking, taskMap, window, reborn,
                   suspended, procOn, killVars>>

\* onInvokeMessage finds no task, or there is no such window any more and SendMessage
\* returns by itself.
NoInvoke ==
    /\ proc = "sending"
    /\ window[hwnd[procOn]] = "none" \/ procOn \notin KnownTasks
    /\ proc' = AfterSend
    /\ UNCHANGED <<timerVars, stopRequested, stopped, ticking, taskVars, window, callVars,
                   procOn, killVars>>

\* The script's function returns and invoke() releases the task.  When the task was
\* deleted meanwhile release() works on freed memory: it finds a zero count there, or
\* the count of a task allocated at the same address.
InvokeReturns ==
    /\ invoking # None
    /\ IF invoking \in taskMap
       THEN Release({invoking})
       ELSE \E S \in {{}} \cup {{j} : j \in reborn} : Release(S)
    /\ invoking' = None
    /\ reborn' = {}
    /\ proc' = AfterSend
    /\ UNCHANGED <<timerVars, stopRequested, stopped, ticking, window, suspended, procOn,
                   killVars>>

-----------------------------------------------------------------------------
(* The thread of the timer queue: HostTimer::timerProc *)

\* Mutant: m_isStopRequested is not looked at.
DeafProc(i) ==
    IF i \in stopped THEN "leaving" ELSE "sending"

\* Mutant: m_isStopped is not looked at.
ForgetfulProc(i) ==
    IF i \in stopRequested THEN "request" ELSE "sending"

\* Where timerProc goes from its two tests.
ProcBranch(i) ==
    IF i \in stopped THEN "leaving"
    ELSE IF i \in stopRequested THEN "request"
    ELSE "sending"

\* Windows signals a timer: only the intervals are signaled again.  m_isStopped is
\* set by a timer that found a stop request and by a timeout.
Signal(i) ==
    /\ proc = "free"
    /\ i \in ticking
    /\ procOn' = i
    /\ proc' = ProcBranch(i)
    /\ stopped' = IF proc' = "request" \/ kind[i] = "timeout"
                  THEN stopped \cup {i} ELSE stopped
    /\ ticking' = IF kind[i] = "interval" THEN ticking ELSE ticking \ {i}
    /\ UNCHANGED <<timerVars, stopRequested, taskVars, window, callVars, killVars>>

\* Mutant: the request is forgotten.
NoRequest(i) == requests

\* push_front
WithRequest(i) == <<i>> \o requests

\* onTimerStopRequest
StopRequest ==
    /\ proc = "request"
    /\ requests' = WithRequest(procOn)
    /\ proc' = "leaving"
    /\ UNCHANGED <<timerVars, stopRequested, stopped, ticking, taskVars, window, callVars,
                   procOn, killing>>

\* timerProc returns.
ProcReturns ==
    /\ proc = "leaving"
    /\ proc' = "free"
    /\ procOn' = None
    /\ UNCHANGED <<timerVars, stopRequested, stopped, ticking, taskVars, window, callVars,
                   killVars>>

-----------------------------------------------------------------------------
(* The killer thread: threadMain *)

\* It takes the newest request and calls DeleteTimerQueueTimer: no more signals ...
TakeRequest ==
    /\ Killer
    /\ killing = None
    /\ requests # <<>>
    /\ killing' = Head(requests)
    /\ requests' = Tail(requests)
    /\ ticking' = ticking \ {killing'}
    /\ UNCHANGED <<timerVars, stopRequested, stopped, taskVars, window, callVars, procVars>>

\* Mutant: DeleteTimerQueueTimer does not wait.
Hasty == TRUE

\* ... and, with INVALID_HANDLE_VALUE, wait for the timer's proc to end.
ProcDone == procOn # killing

\* onTimerExpire
TimerExpire ==
    /\ killing # None
    /\ ProcDone
    /\ timerMap' = timerMap \ {killing}
    /\ killing' = None
    /\ UNCHANGED <<nextId, hwnd, kind, stopRequested, stopped, ticking, taskVars, window,
                   callVars, procVars, requests>>

-----------------------------------------------------------------------------

MainStep ==
    \/ \E p \in Panel : \/ \E k \in Kind : CreateTimer(p, k)
                        \/ Load(p) \/ Unload(p) \/ CallbackReturns(p)
    \/ \E i \in Id : KillTimer(i)
    \/ Invoke \/ NoInvoke \/ InvokeReturns

ProcStep == (\E i \in Id : Signal(i)) \/ StopRequest \/ ProcReturns

KillerStep == TakeRequest \/ TimerExpire

Next == MainStep \/ ProcStep \/ KillerStep

Spec == Init /\ [][Next]_vars

(***************************************************************************)
(* Fairness.  Both threads are scheduled.  The main thread gets to the     *)
(* messages other threads send it, since every message loop handles those  *)
(* first, and scripts return.  Windows signals a timer that is due however *)
(* many others are: the queue is ordered by due time.                      *)
(***************************************************************************)
Fairness ==
    /\ WF_vars(Invoke \/ NoInvoke \/ InvokeReturns \/ StopRequest \/ ProcReturns)
    /\ \A i \in Id : SF_vars(Signal(i))
    /\ WF_vars(TakeRequest)
    /\ SF_vars(TimerExpire)

FairSpec == Spec /\ Fairness

-----------------------------------------------------------------------------
(* Properties *)

\* Types; among them, that a task's reference count stays between 0 and 2.
TypeOK ==
    /\ nextId \in 1 .. MaxTimers + 1
    /\ timerMap \subseteq Id
    /\ hwnd \in [Id -> Panel \cup {NoPanel}]
    /\ kind \in [Id -> Kind]
    /\ stopRequested \subseteq Id
    /\ stopped \subseteq Id
    /\ ticking \subseteq Id
    /\ taskMap \subseteq Id
    /\ refs \in [Id -> 0 .. 2]
    /\ window \in [Panel -> {"none", "unloaded", "loaded"}]
    /\ invoking \in Id \cup {None}
    /\ reborn \subseteq Id
    /\ suspended \subseteq Panel
    /\ proc \in {"free", "sending", "handled", "request", "leaving"}
    /\ procOn \in Id \cup {None}
    /\ requests \in Seq(Id)
    /\ killing \in Id \cup {None}

\* A task in the map is referenced by its timer, until the timer is killed, and by
\* the invoke() that runs it, whatever scripts clear and reload in between.
RefsMatchOwners ==
    \A i \in taskMap :
        refs[i] = (IF i \in stopRequested THEN 0 ELSE 1) + (IF i = invoking THEN 1 ELSE 0)

\* When a panel's script is unloaded or its window destroyed no timer keeps a function
\* of it, except for the call that is still on the stack (onPanelUnload).
UnloadReleasesTasks ==
    [][\A p \in Panel : window'[p] \notin {window[p], "loaded"} =>
           \A i \in taskMap' : hwnd[i] # p \/ i = invoking]_vars

\* A function is never called after its timer was cleared, by a script or with its
\* panel's, although the timer thread may have sent UWM_TIMER before.
ClearedNeverInvoked ==
    [][invoking' \notin {None, invoking} => invoking' \notin stopRequested]_vars

\* A timer is handed to the killer thread at most once, by a proc that will not run
\* the script again: deleting a Windows timer twice is an error.
HandedOverOnce ==
    /\ IsInjective(requests)
    /\ ToSet(requests) \subseteq (timerMap \cap stopped) \ {killing}
    /\ proc = "request" => procOn \notin ToSet(requests) \cup {killing}

\* The killer thread frees no HostTimer whose proc is running.
TimerOutlivesProc == procOn # None => procOn \in timerMap

\* While a task's function runs the task exists ("Adds task reference on enter and
\* removes on exit", HostTimerTask::invoke).
RunningTaskExists == invoking # None => invoking \in taskMap

\* A timer that was cleared finds out and stops, unless it is an interval of 0 ms,
\* which Windows never signals again.
ClearedTimerStops ==
    \A i \in Id : i \in stopRequested /\ kind[i] # "interval0" ~> i \in stopped

Homeless(i) == \E p \in Panel : hwnd[i] = p /\ window[p] = "none"

\* A timeout calls its function unless it is cleared or its window destroyed, whatever
\* becomes of other timers.  The exception is a timeout set between the moment a task is
\* deleted under its own function and that function's return: invoke() may release the
\* new task in the deleted one's place.
TimeoutRuns ==
    \A i \in Id : [](i \notin reborn) =>
      (i \in ticking /\ kind[i] = "timeout" ~>
         invoking = i \/ i \in stopRequested \/ Homeless(i))

\* A stopped timer is deleted ("Timer destruction: a separate 'killer' thread
\* handles this").  The killer thread takes the newest request first: with a bounded
\* number of timers the oldest has its turn in the end, under an unending flow of new
\* ones it might not.
StoppedTimerErased == \A i \in Id : i \in stopped ~> i \notin timerMap

=============================================================================
