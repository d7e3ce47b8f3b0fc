----------------------------- MODULE PanelManager -----------------------------
(***************************************************************************)
(* panel_manager (src/src/panel_manager.h, .cpp): the list of panel        *)
(* windows, and the messages sent and posted to all of them.  A message    *)
(* may carry a pointer to reference-counted data: the sender takes one     *)
(* reference for each window it counted, and each handler releases one     *)
(* (simple_callback_data_scope_releaser) when it returns.                  *)
(*                                                                         *)
(* All of it runs on the main thread, so the interleavings are those of    *)
(* re-entrancy: stack is the stack of calls.  SendMessage calls the        *)
(* handler at once; a handler runs a script, and a script may notify other *)
(* panels, show a dialog or a menu that pumps messages, or run a command   *)
(* that changes the layout and so creates and destroys panels.  Which      *)
(* windows have a script is left out: a handler without one only returns,  *)
(* as any handler may.                                                     *)
(***************************************************************************)
EXTENDS Integers, SequencesExt

CONSTANTS Panel,      \* window handles
          Data,       \* the addresses of callback data
          MaxDepth,   \* bound: calls on the stack
          QueueLimit, \* bound: posted messages with data, PostMessage then fails
          NoPanel, NoData

ASSUME PanelAssumption ==
    /\ MaxDepth \in Nat /\ QueueLimit \in Nat
    /\ NoPanel \notin Panel /\ NoData \notin Data

VARIABLES
    hwnds,   \* m_hwnds
    windows, \* the windows that exist, from WM_CREATE to the end of WM_DESTROY
    stack,   \* the calls on the main thread's stack, the running one last
    posted,  \* the posted messages that carry data; their order plays no part
    live,    \* the data allocated and not deleted
    refs,    \* refcounted_object_root::m_counter
    lost,    \* how many references went with a message Windows did not deliver
    astray   \* history: the data (NoData: of on_quit) of the loops under which a window
             \* went, or that were begun for a script whose window was gone

dataVars == <<live, refs, lost>>
vars == <<hwnds, windows, stack, posted, dataVars, astray>>

Call == [does : {"handle", "destroy", "send"}, panel : Panel \cup {NoPanel},
         data : Data \cup {NoData}, next : Nat, last : Nat]

\* A handler of p, which owns one reference to d if it has data.
Handler(p, d) == [does |-> "handle", panel |-> p, data |-> d, next |-> 0, last |-> 0]
Destroying(p) == [Handler(p, NoData) EXCEPT !.does = "destroy"]

\* list_t::for_each takes the count before its first turn.
Loop(except, d) ==
    [does |-> "send", panel |-> except, data |-> d, next |-> 1, last |-> Len(hwnds)]

Init ==
    /\ hwnds = <<>> /\ posted = {} /\ stack = <<>>
    /\ windows = {}
    /\ live = {}
    /\ refs = [d \in Data |-> 0]
    /\ lost = [d \in Data |-> 0]
    /\ astray = {}

-----------------------------------------------------------------------------
(* Calls *)

Exists(p) == p \in windows
Top == stack[Len(stack)]
Room == Len(stack) < MaxDepth
RoomToSend == Len(stack) + 1 < MaxDepth

\* The data of the loops on the stack.
Sending == {stack[k].data : k \in {j \in DOMAIN stack : stack[j].does = "send"}}

\* A script may run in the call, even when its window went under it.
Running(c) == c.does # "send"

\* The main loop, or a script that pumps messages or calls the program.
Active == stack # <<>> => Running(Top)

Push(c) == stack' = Append(stack, c)

-----------------------------------------------------------------------------
(* Windows *)

\* add_window: no handle is listed twice.
Added(p) == IF Contains(hwnds, p) THEN hwnds ELSE Append(hwnds, p)

\* WM_CREATE: the window is listed before its script loads, whose top-level code
\* may notify already.
Create(p) ==
    /\ ~Exists(p) /\ Active /\ Room
    /\ \A k \in DOMAIN stack : stack[k].panel # p
    /\ hwnds' = Added(p)
    /\ windows' = windows \cup {p}
    /\ Push(Handler(p, NoData))
    /\ UNCHANGED <<posted, dataVars, astray>>

\* WM_DESTROY: script_unload calls on_script_unload, the window still listed.
BeginDestroy(p) ==
    /\ Exists(p) /\ Active /\ Room
    /\ \A k \in DOMAIN stack : stack[k].panel = p => stack[k].does # "destroy"
    /\ Push(Destroying(p))
    /\ astray' = astray \cup Sending
    /\ UNCHANGED <<hwnds, windows, posted, dataVars>>

-----------------------------------------------------------------------------
(* Data *)

\* Mutant: one reference too few.
TakeFew(d, n) == refs' = [refs EXCEPT ![d] = IF n > 1 THEN n - 1 ELSE n]

\* refcount_add_ref, n times, on data whose counter is still 0.
TakeRefs(d, n) == refs' = [refs EXCEPT ![d] = n]

\* Mutant: handlers keep their reference.
Keep(d) == UNCHANGED <<live, refs>>

\* refcount_release: the object deletes itself when the counter reaches 0.
Release(d) ==
    IF d = NoData THEN UNCHANGED <<live, refs>>
    ELSE /\ refs' = [refs EXCEPT ![d] = @ - 1]
         /\ live' = IF refs[d] = 1 THEN live \ {d} ELSE live

\* Memory for new data.  Bound: data that went astray keeps its address.
Fresh(d) == d \notin live \cup astray

Message(p, d) == [to |-> p, data |-> d]

\* A callback of the player: its data is posted to every window.  With no window
\* the data has no reference and stays allocated.
Broadcast(d) ==
    LET room == QueueLimit - Cardinality(posted)
        n == IF room < Len(hwnds) THEN room ELSE Len(hwnds)
    IN  /\ Active
        /\ Fresh(d)
        /\ live' = live \cup {d}
        /\ TakeRefs(d, Len(hwnds))
        /\ posted' = posted \cup {Message(hwnds[i], d) : i \in 1 .. n}
        /\ lost' = [lost EXCEPT ![d] = Len(hwnds) - n]
        /\ UNCHANGED <<hwnds, windows, stack, astray>>

\* window.NotifyOthers in the script of the running call: one reference for every
\* window but one, whether or not the caller's own window is listed.
Notify(d) ==
    /\ stack # <<>> /\ Running(Top) /\ RoomToSend
    /\ Fresh(d)
    /\ live' = live \cup {d}
    /\ lost' = [lost EXCEPT ![d] = 0]
    /\ IF Len(hwnds) < 2
       THEN TakeRefs(d, 0) /\ UNCHANGED stack
       ELSE TakeRefs(d, Len(hwnds) - 1) /\ Push(Loop(Top.panel, d))
    /\ astray' = IF Exists(Top.panel) THEN astray ELSE astray \cup {d}
    /\ UNCHANGED <<hwnds, windows, posted>>

\* on_quit: UWM_SCRIPT_TERM is sent to every window.
Quit ==
    /\ stack = <<>> /\ RoomToSend
    /\ Push(Loop(NoPanel, NoData))
    /\ UNCHANGED <<hwnds, windows, posted, dataVars, astray>>

-----------------------------------------------------------------------------
(* The loop of send_msg_to_all and send_msg_to_others_pointer *)

Advanced == ReplaceAt(stack, Len(stack), [Top EXCEPT !.next = @ + 1])

\* Mutant: the notifying panel is not left out.
Everyone(p) == TRUE

\* The test of send_msg_to_others_pointer.
IsOther(p) == p # Top.panel

\* Mutant: the loop goes one turn too far.
OneMore == Top.next <= Top.last + 1

Unfinished == Top.next <= Top.last

\* get_item(next); beyond the end of the list it reads what memory holds there,
\* the handle of any window or of none.
HandlesAt(k) == IF k <= Len(hwnds) THEN {hwnds[k]} ELSE Panel \cup {NoPanel}

\* One turn of the loop; SendMessage to a handle that is no window does nothing.
Send ==
    /\ stack # <<>> /\ Top.does = "send" /\ Unfinished /\ Room
    /\ \E p \in HandlesAt(Top.next) :
         stack' = IF p # NoPanel /\ IsOther(p) /\ Exists(p)
                  THEN Append(Advanced, Handler(p, Top.data)) ELSE Advanced
    /\ UNCHANGED <<hwnds, windows, posted, dataVars, astray>>

EndSend ==
    /\ stack # <<>> /\ Top.does = "send" /\ ~Unfinished
    /\ stack' = Front(stack)
    /\ UNCHANGED <<hwnds, windows, posted, dataVars, astray>>

-----------------------------------------------------------------------------
(* Handlers *)

\* The main loop, or a dialog or menu, dispatches a posted message.
Dispatch(m) ==
    /\ Active /\ Room
    /\ posted' = posted \ {m}
    /\ Push(Handler(m.to, m.data))
    /\ UNCHANGED <<hwnds, windows, dataVars, astray>>

\* A handler without data (mouse, keys, timers, painting, reload) runs the script.
Event(p) ==
    /\ Exists(p) /\ Active /\ Room
    /\ Push(Handler(p, NoData))
    /\ UNCHANGED <<hwnds, windows, posted, dataVars, astray>>

Return ==
    /\ stack # <<>> /\ Top.does = "handle"
    /\ stack' = Front(stack)
    /\ Release(Top.data)
    /\ UNCHANGED <<hwnds, windows, posted, lost, astray>>

\* Mutant: WM_DESTROY leaves the window in the list.
Forget(p) == hwnds

\* remove_window: add_window listed p once at most.
Removed(p) == RemoveFirst(hwnds, p)

\* The end of WM_DESTROY: Windows drops the messages posted to the windows, and
\* nobody releases the references they carry.
EndDestroy ==
    /\ stack # <<>> /\ Top.does = "destroy"
    /\ stack' = Front(stack)
    /\ hwnds' = Removed(Top.panel)
    /\ windows' = windows \ {Top.panel}
    /\ posted' = {m \in posted : m.to # Top.panel}
    /\ lost' = [d \in Data |->
                  IF Message(Top.panel, d) \in posted THEN lost[d] + 1 ELSE lost[d]]
    /\ UNCHANGED <<live, refs, astray>>

-----------------------------------------------------------------------------
Next ==
    \/ \E p \in Panel : Create(p) \/ BeginDestroy(p) \/ Event(p)
    \/ \E d \in Data : Broadcast(d) \/ Notify(d)
    \/ \E m \in posted : Dispatch(m)
    \/ Quit \/ Send \/ EndSend \/ Return \/ EndDestroy

Spec == Init /\ [][Next]_vars

-----------------------------------------------------------------------------
(* Properties *)

\* Types; among them, that no counter of callback data goes below 0 (refcount_release),
\* but of data that went astray.
TypeOK ==
    /\ hwnds \in Seq(Panel) /\ windows \subseteq Panel
    /\ stack \in Seq(Call) /\ Len(stack) <= MaxDepth
    /\ posted \subseteq [to : Panel, data : Data] /\ Cardinality(posted) <= QueueLimit
    /\ live \subseteq Data /\ refs \in [Data -> Int] /\ lost \in [Data -> Nat]
    /\ astray \subseteq Data \cup {NoData}
    /\ \A d \in Data \ astray : refs[d] >= 0

\* m_hwnds lists each existing window once, and no window that is gone: between
\* WM_CREATE and WM_DESTROY, whatever panels scripts create and destroy meanwhile.
ListIsExact ==
    /\ \A p \in Panel : Exists(p) <=> Contains(hwnds, p)
    /\ IsInjective(hwnds)

\* What will release a reference to d: the posted messages, the handlers on the
\* stack, and the turns that send loops have left.
Pending(d) == {m \in posted : m.data = d}
Handling(d) == {k \in DOMAIN stack : stack[k].data = d /\ stack[k].does # "send"}
LeftToDo(k, i, d) ==
    stack[k].data = d /\ i \in stack[k].next .. stack[k].last /\ hwnds[i] # stack[k].panel
Turns(d) == {t \in (DOMAIN stack) \X (DOMAIN hwnds) : LeftToDo(t[1], t[2], d)}

\* The counter of live data is the number of releases to come, and of the references
\* lost with messages that Windows dropped, so that the last release deletes it: for
\* all data but that which went astray, windows destroyed elsewhere or not.
RefsMatchDeliveries ==
    \A d \in live \ astray :
        refs[d] = Cardinality(Pending(d)) + Cardinality(Handling(d))
                  + Cardinality(Turns(d)) + lost[d]

\* Data is not deleted while a message, a handler or a send loop holds its address
\* (post_msg_to_all_pointer and NotifyOthers keep no reference of their own), unless
\* it went astray.
DataOutlivesUse ==
    \A d \in (Data \ live) \ astray :
        Pending(d) = {} /\ Handling(d) = {} /\ Turns(d) = {}

\* for_each counts the list once, and the handlers it calls may create panels: a loop
\* under which no window goes stays inside the list.
LoopsInside ==
    stack # <<>> /\ Top.does = "send" /\ Unfinished /\ Top.data \notin astray
        => Top.next <= Len(hwnds)

\* The assertion of get_item_ex, n < get_size() (src/pfc/list.h:346), for every loop.
IndexInRange ==
    stack # <<>> /\ Top.does = "send" /\ Unfinished => Top.next <= Len(hwnds)
=============================================================================
