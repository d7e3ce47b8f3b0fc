------------------------------ MODULE ScriptHost ------------------------------
(***************************************************************************)
(* ScriptHost, ScriptCallbackInvoker (src/src/host.cpp,                    *)
(* script_callback_invoker.cpp) and the part of js_panel_window that loads *)
(* and unloads a script: the life of one panel's scripting engines.        *)
(*                                                                         *)
(* All of it runs on the main thread.  stack is the stack of calls: code   *)
(* of a script, and the handlers that load or unload a script and wait for *)
(* such code (WM_CREATE, update_script, UWM_SCRIPT_ERROR, UWM_SCRIPT_TERM, *)
(* WM_DESTROY).  A script may show a dialog or a menu, which pumps         *)
(* messages, so that each of these handlers may run above any script code, *)
(* and code of a closed engine goes on when the calls above it return.     *)
(*                                                                         *)
(* An engine is the Windows scripting engine, an external object.  What a  *)
(* handler does between two calls of script code is one step.              *)
(***************************************************************************)
EXTENDS Integers, SequencesExt

CONSTANTS MaxEngines, \* bound: engines created
          MaxDepth    \* bound: calls on the stack

ASSUME HostAssumption == MaxEngines \in Nat /\ MaxDepth \in Nat

VARIABLES
    window,     \* the panel's window: "none" yet, "open", or "gone"
    engine,     \* m_script_engine
    root,       \* m_script_root, as the engine it belongs to
    inited,     \* m_engine_inited
    hasError,   \* m_has_error
    invoker,    \* the engine whose functions m_callbackInvokerMap lists
    registered, \* m_is_droptarget_registered
    timers,     \* the engines whose functions the panel's timers call
    made,       \* how many engines were created
    state,      \* each engine: connected, disconnected ("stopped"), or closed
    stack,      \* the calls on the main thread's stack, the running one last
    (* history *)
    failed,     \* the engines that reported an error or did not start
    late,       \* the engines that set a timer when they were not current any more
    blamed,     \* the engines that were current when code of another engine threw
    disturbed   \* a load or unload, for another reason than its own error, began inside another

hostVars == <<engine, root, inited, hasError, invoker>>
history  == <<failed, late, blamed, disturbed>>
vars == <<window, hostVars, registered, timers, made, state, stack, history>>

None == 0
Engine == 1 .. MaxEngines

\* A handler is at "finalize" while on_script_unload runs, at "parse" while the
\* script's top-level code runs, at "size" while its first on_size runs.
Handlers == {"create", "reload", "error", "term", "destroy"}
Code     == {"callback", "unload", "parse", "timer"}
Call == [does : Handlers \cup Code, engine : Engine \cup {None},
         at : {"finalize", "parse", "size", "running", "thrown"}]

Handling(op, at) == [does |-> op, engine |-> None, at |-> at]
Running(e, code) == [does |-> code, engine |-> e, at |-> "running"]

Init ==
    /\ window = "none"
    /\ engine = None /\ root = None /\ invoker = None
    /\ inited = FALSE /\ hasError = FALSE
    /\ registered = FALSE /\ timers = {}
    /\ made = 0 /\ state = [e \in Engine |-> "connected"]
    /\ stack = <<>>
    /\ failed = {} /\ late = {} /\ blamed = {} /\ disturbed = FALSE

-----------------------------------------------------------------------------
(* Calls *)

Top == stack[Len(stack)]
Below == stack[Len(stack) - 1]
Room(n) == Len(stack) + n <= MaxDepth

Open == window = "open"

\* The main loop, or a script that pumps messages.
Active == stack # <<>> => Top.at = "running"

\* A handler waits for the code that ends or begins a script's life.
Changing == \E k \in DOMAIN stack : stack[k].at \in {"finalize", "parse"}

Replaced(calls) == Front(stack) \o calls

-----------------------------------------------------------------------------
(* Callbacks *)

\* Mutant: a failed engine is called.
ReadyOnly == inited /\ engine # None /\ invoker # None

\* InvokeCallback passes HasError and Ready, and the map is filled.
CanInvoke == ~hasError /\ inited /\ engine # None /\ invoker # None

\* The call that InvokeCallback makes, if any.
Callback(code) == IF CanInvoke THEN <<Running(invoker, code)>> ELSE <<>>

\* A message whose handler calls the script.
Event ==
    /\ Open /\ Active /\ Room(1) /\ CanInvoke
    /\ stack' = stack \o Callback("callback")
    /\ UNCHANGED <<window, hostVars, registered, timers, made, state, history>>

\* UWM_TIMER: HostTimerTask::invoke asks neither HasError nor Ready; an engine that
\* was closed refuses the call itself.
Timer(e) ==
    /\ Open /\ Active /\ Room(1)
    /\ e \in timers /\ state[e] # "closed"
    /\ stack' = stack \o <<Running(e, "timer")>>
    /\ UNCHANGED <<window, hostVars, registered, timers, made, state, history>>

\* window.SetTimeout, SetInterval.
SetTimer ==
    /\ stack # <<>> /\ Active
    /\ timers' = timers \cup {Top.engine}
    /\ late' = IF Top.engine = engine THEN late ELSE late \cup {Top.engine}
    /\ UNCHANGED <<window, hostVars, registered, made, state, stack, failed, blamed,
                   disturbed>>

\* A callback or a timer's function returns, or the handler that waits for on_size.
Return ==
    /\ stack # <<>>
    /\ Top.does \in {"callback", "unload", "timer"} \/ Top.at = "size"
    /\ stack' = Front(stack)
    /\ UNCHANGED <<window, hostVars, registered, timers, made, state, history>>

-----------------------------------------------------------------------------
(* Unloading: Finalize and the rest of script_unload *)

\* Finalize calls on_script_unload, the handler op waits for it.
Finalizing(op) == <<Handling(op, "finalize")>> \o Callback("unload")

\* The handler op begins: WM_CREATE, update_script, UWM_SCRIPT_TERM, WM_DESTROY.
Begin(op) ==
    /\ Active /\ Room(2)
    /\ window = IF op = "create" THEN "none" ELSE "open"
    /\ op = "destroy" => \A k \in DOMAIN stack : stack[k].does # "destroy"
    /\ window' = "open"
    /\ stack' = stack \o Finalizing(op)
    /\ disturbed' = (disturbed \/ Changing)
    /\ UNCHANGED <<hostVars, registered, timers, made, state, failed, late, blamed>>

\* Mutant: Finalize does not close the engine.
LeftOpen == state

\* Finalize closes an engine that is Ready; one that failed or was stopped is let go.
Closed == IF inited /\ engine # None THEN [state EXCEPT ![engine] = "closed"] ELSE state

\* Only a Ready engine makes Finalize reset m_engine_inited.
StillInited == inited /\ engine = None

\* Mutant: the map keeps the functions of the script before.
KeptMap == invoker

\* Finalize resets m_callbackInvokerMap.
Reset == None

\* Mutant: the timers of a script that failed go on.
KeptTimers(op) == IF op \in {"create", "error"} THEN timers ELSE {}

\* script_unload takes away what the script has; Initialize's own Finalize does not.
TimersAfter(op) == IF op = "create" THEN timers ELSE {}

TargetAfter(op) == registered /\ op = "create"

\* The handler ends with an unloaded script, and with it the window on WM_DESTROY.
EndHandler ==
    /\ stack # <<>>
    /\ Top.at = "finalize" /\ Top.does \in {"error", "term", "destroy"}
    /\ state' = Closed /\ inited' = StillInited
    /\ engine' = None /\ root' = None /\ invoker' = Reset
    /\ registered' = TargetAfter(Top.does) /\ timers' = TimersAfter(Top.does)
    /\ window' = IF Top.does = "destroy" THEN "gone" ELSE window
    /\ stack' = Front(stack)
    /\ UNCHANGED <<hasError, made, history>>

-----------------------------------------------------------------------------
(* Loading: Initialize and the rest of script_load *)

Fresh == made + 1

\* The engine cannot be created, or not be set up.
NoEngine ==
    /\ \/ engine' = None /\ UNCHANGED <<made, failed>>
       \/ Fresh \in Engine /\ engine' = Fresh /\ made' = Fresh /\ failed' = failed \cup {Fresh}
    /\ root' = None
    /\ inited' = FALSE /\ hasError' = TRUE
    /\ stack' = Front(stack)

\* The engine runs the imports and the script's top-level code.
NewEngine ==
    /\ Fresh \in Engine
    /\ engine' = Fresh /\ root' = Fresh /\ made' = Fresh
    /\ inited' = StillInited /\ hasError' = FALSE
    /\ stack' = Replaced(<<Handling(Top.does, "parse"), Running(Fresh, "parse")>>)
    /\ UNCHANGED failed

\* From the end of the old script to the beginning of the new one.
StartEngine ==
    /\ stack # <<>>
    /\ Top.at = "finalize" /\ Top.does \in {"create", "reload"}
    /\ state' = Closed /\ invoker' = Reset
    /\ registered' = TargetAfter(Top.does) /\ timers' = TimersAfter(Top.does)
    /\ NoEngine \/ NewEngine
    /\ UNCHANGED <<window, late, blamed, disturbed>>

\* ParseScriptText has returned: m_engine_inited, m_has_error.
Outcome(ok) == inited' = ok /\ hasError' = (hasError \/ ~ok)

\* Code that threw fails, and so may imports that a closed engine is still to parse.
MayEnd(ok) == IF ok THEN Top.at = "running"
              ELSE Top.at = "thrown" \/ state[Top.engine] = "closed"

\* The end of Initialize.  A script that loaded gets its drop target, if it asks for
\* one, and on_size, if it can be called.
EndParse ==
    /\ stack # <<>> /\ Top.does = "parse"
    /\ UNCHANGED <<window, engine, root, timers, made, state, history>>
    /\ invoker' = root
    /\ \E ok \in BOOLEAN :
          /\ MayEnd(ok) /\ Outcome(ok)
          /\ IF ok
             THEN /\ registered' \in {registered, TRUE}
                  /\ stack' = Front(Front(stack)) \o <<Handling(Below.does, "size")>> \o
                              IF Open /\ CanInvoke' THEN <<Running(invoker', "callback")>> ELSE <<>>
             ELSE stack' = Front(Front(stack)) /\ UNCHANGED registered

-----------------------------------------------------------------------------
(* Errors *)

\* OnScriptError for the running code.  ReportError returns early when the engine has
\* no exception information; UWM_SCRIPT_ERROR stops and unloads the current script.
Throw ==
    /\ stack # <<>> /\ Top.at = "running"
    /\ failed' = failed \cup {Top.engine}
    /\ hasError' = TRUE
    /\ blamed' = IF engine \in {None, Top.engine} THEN blamed ELSE blamed \cup {engine}
    /\ LET thrown == <<[Top EXCEPT !.at = "thrown"]>>
       IN  \/ stack' = Replaced(thrown) /\ UNCHANGED <<inited, state, disturbed>>
           \/ /\ Open /\ Room(1)
              /\ inited' = FALSE
              /\ state' = IF engine = None THEN state
                          ELSE [state EXCEPT ![engine] = "stopped"]
              /\ stack' = Replaced(thrown \o <<Handling("error", "finalize")>>)
              /\ disturbed' = (disturbed \/ (Changing /\ Top.does \in {"callback", "timer"}))
    /\ UNCHANGED <<window, engine, root, invoker, registered, timers, made, late>>

-----------------------------------------------------------------------------
Next ==
    \/ Event \/ SetTimer \/ Return
    \/ \E e \in Engine : Timer(e)
    \/ \E op \in Handlers \ {"error"} : Begin(op)
    \/ EndHandler \/ StartEngine \/ EndParse \/ Throw

Spec == Init /\ [][Next]_vars

-----------------------------------------------------------------------------
(* Properties *)

\* Types; among them, that m_callbackInvokerMap, m_script_root and m_script_engine are of
\* one script.
TypeOK ==
    /\ window \in {"none", "open", "gone"} /\ inited \in BOOLEAN /\ hasError \in BOOLEAN
    /\ engine \in Engine \cup {None} /\ root \in {None, engine} /\ invoker \in {None, root}
    /\ registered \in BOOLEAN /\ timers \subseteq 1 .. made
    /\ made \in 0 .. MaxEngines /\ state \in [Engine -> {"connected", "stopped", "closed"}]
    /\ stack \in Seq(Call) /\ Len(stack) <= MaxDepth
    /\ failed \subseteq 1 .. made /\ late \subseteq 1 .. made /\ blamed \subseteq 1 .. made
    /\ disturbed \in BOOLEAN

\* The step calls the script: a callback is on the stack that was not there.
NewCallback(k) ==
    /\ stack'[k].does \in {"callback", "unload"} /\ stack'[k].at = "running"
    /\ k \in DOMAIN stack => stack[k] # stack'[k]

\* A callback goes only to the engine the panel has now, never to one that was closed
\* or stopped or has reported an error: whatever handlers nest (InvokeCallback,
\* ScriptCallbackInvoker).
CallbacksReachCurrent ==
    [][\A k \in DOMAIN stack' :
          NewCallback(k) => /\ stack'[k].engine = engine'
                            /\ state'[engine'] = "connected" /\ engine' \notin failed']_vars

\* An engine that the panel has let go of was closed, or stopped after an error, or
\* failed: no script goes on running events unseen.  For this no load or unload may
\* begin inside another.
NoEngineLost ==
    ~disturbed => \A e \in 1 .. made : e = engine \/ state[e] # "connected" \/ e \in failed

\* Between calls, an unloaded script has left nothing in the panel, and a script that
\* is there and has not failed can be called.  The exceptions are those of code that
\* outlived its engine: it may have set timers, and an error of it is held against the
\* engine that is current then (OnScriptError).
NothingLeftBehind ==
    stack = <<>> /\ ~disturbed =>
        /\ engine = None => ~registered
        /\ timers \subseteq late \cup {engine}
        /\ engine # None => Open
        /\ engine \notin failed \cup {None} => inited /\ invoker = engine
        /\ engine \notin failed \cup blamed \cup {None} => CanInvoke
=============================================================================
