------------------------------- MODULE DelayLoader -------------------------------
(***************************************************************************)
(* Messages to the user (src/src/popup_msg.h).  Until the player has       *)
(* started its services they wait in a list; on_init then shows them.  To  *)
(* show a message opens a window, which takes the focus: a panel's handler *)
(* for that may fail and ask for a further message within the loop that    *)
(* shows the waiting ones.                                                 *)
(***************************************************************************)
EXTENDS Naturals, Sequences, SequencesExt

CONSTANT Message

VARIABLES
    ready,      \* services_initialized_
    callbacks,  \* callbacks_
    at,         \* the index of g_set_ready's loop, from 1 on; 0 outside of it
    shown,      \* the messages shown
    (* history *)
    requested,      \* the messages g_show was called with
    early       \* how many of them before the services were ready

delayVars == <<ready, callbacks, at, shown, requested, early>>

DelayInit ==
    /\ ready = FALSE /\ callbacks = <<>> /\ at = 0
    /\ shown = <<>> /\ requested = <<>> /\ early = 0

\* Mutant: every message waits.
NeverReady == FALSE

ExecuteNow == ready

\* g_show, g_enqueue: a script's error, fb.ShowPopupMessage, check_error in on_init.
Show(m) ==
    /\ m \notin ToSet(requested)
    /\ requested' = Append(requested, m)
    /\ IF ExecuteNow
       THEN shown' = Append(shown, m) /\ UNCHANGED callbacks
       ELSE callbacks' = Append(callbacks, m) /\ UNCHANGED shown
    /\ UNCHANGED <<ready, at, early>>

\* g_set_ready
SetReady ==
    /\ ~ready
    /\ ready' = TRUE /\ at' = 1 /\ early' = Len(requested)
    /\ UNCHANGED <<callbacks, shown, requested>>

\* One turn of its loop, which reads the list's length each time.
ExecuteNext ==
    /\ at \in 1 .. Len(callbacks)
    /\ shown' = Append(shown, callbacks[at])
    /\ at' = at + 1
    /\ UNCHANGED <<ready, callbacks, requested, early>>

RemoveAll ==
    /\ at > Len(callbacks)
    /\ callbacks' = <<>> /\ at' = 0
    /\ UNCHANGED <<ready, shown, requested, early>>

DelayNext == (\E m \in Message : Show(m)) \/ SetReady \/ ExecuteNext \/ RemoveAll

DelaySpec == DelayInit /\ [][DelayNext]_delayVars

-----------------------------------------------------------------------------
\* What will still be shown: behind the loop of g_set_ready nothing of the list.
Waiting ==
    CASE ~ready          -> callbacks
      [] ready /\ at = 0 -> <<>>
      [] OTHER           -> SubSeq(callbacks, at, Len(callbacks))

\* Both are among the messages that waited, or neither is.
SameSide(m, n) == (ready /\ m > early) <=> (ready /\ n > early)

\* No message is shown before the services are ready, none is lost or shown twice, also
\* when one is asked for within the loop of g_set_ready, and those that waited are shown
\* in the order they were asked for, and so are those that did not (g_enqueue, g_set_ready).
ShownOnceInOrder ==
    LET order == shown \o Waiting
    IN  /\ ~ready => shown = <<>>
        /\ IsInjective(order)
        /\ ToSet(order) = ToSet(requested)
        /\ \A i, j \in 1 .. Len(order), m, n \in 1 .. Len(requested) :
               order[i] = requested[m] /\ order[j] = requested[n] /\ SameSide(m, n)
                   => (i < j <=> m < n)
=============================================================================
