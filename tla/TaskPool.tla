------------------------------ MODULE TaskPool ------------------------------
(***************************************************************************)
(* What the thread pool promises its callers (src/src/thread_pool.h): the  *)
(* tasks accepted before the pool is closed start in the order they were   *)
(* accepted, each at most once; and once the pool is closed the rest is    *)
(* discarded, at a moment when no task runs, and none starts any more.     *)
(***************************************************************************)
EXTENDS SequencesExt

CONSTANT Task

VARIABLES pending,  \* the tasks accepted and not started, in order
          running,  \* the tasks started and not done
          phase     \* "open", "closing", "closed"

vars == <<pending, running, phase>>

Init == pending = <<>> /\ running = {} /\ phase = "open"

Submit(t) ==
    /\ phase = "open"
    /\ t \notin ToSet(pending) \cup running
    /\ pending' = Append(pending, t)
    /\ UNCHANGED <<running, phase>>

Start ==
    /\ phase # "closed"
    /\ pending # <<>>
    /\ pending' = Tail(pending)
    /\ running' = running \cup {Head(pending)}
    /\ UNCHANGED phase

Finish(t) ==
    /\ t \in running
    /\ running' = running \ {t}
    /\ UNCHANGED <<pending, phase>>

Close ==
    /\ phase = "open"
    /\ phase' = "closing"
    /\ UNCHANGED <<pending, running>>

Discard ==
    /\ phase = "closing"
    /\ running = {}
    /\ phase' = "closed"
    /\ \E k \in 0 .. Len(pending) : pending' = SubSeq(pending, k + 1, Len(pending))
    /\ UNCHANGED running

Next ==
    \/ \E t \in Task : Submit(t) \/ Finish(t)
    \/ Start \/ Close \/ Discard

Spec == Init /\ [][Next]_vars

=============================================================================
