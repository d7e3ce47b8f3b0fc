-------------------------------- MODULE DropTarget --------------------------------
(***************************************************************************)
(* The drop target of one panel (src/src/host_drop_target.cpp,             *)
(* drop_impl.h): its registration with the system as scripts are loaded    *)
(* and unloaded, and a drag over it.                                       *)
(*                                                                         *)
(* A target is counted: the panel holds one (m_drop_target), the system    *)
(* holds the one that is registered for the window, and for as long as the *)
(* pointer is over the window the one it found there.  The last release    *)
(* destroys a target, and its destructor takes away whatever registration  *)
(* the window has, be it this target's or another's.  A drag goes on while *)
(* scripts are replaced: a callback of the drag, a timer or the source's   *)
(* message loop may do that.  The panel is taken to outlive the drag.      *)
(***************************************************************************)
EXTENDS Naturals

CONSTANTS
    Target, NoTarget,
    Choice, Default,  \* what a script may choose for a drop; what m_action begins with
    Nothing,
    MaxLoads          \* bound on script_load calls inside one another

ASSUME DropAssumption ==
    /\ NoTarget \notin Target
    /\ Default \in Choice /\ Nothing \notin Choice
    /\ MaxLoads \in Nat

VARIABLES
    windowOpen,
    loads,       \* script_load calls under way
    current,     \* m_drop_target
    flag,        \* m_is_droptarget_registered
    registered,  \* the window's target, for the system
    drag,        \* the target under the pointer of a drag
    chosen,      \* m_action of each target: playlist, position and selection
    inserted,    \* what the last drop went to, or Nothing
    (* history *)
    wanted,       \* what the script chose in the present drag
    outlived     \* a target destroyed at the end of a drag took away another's registration

dropVars == <<windowOpen, loads, current, flag, registered, drag, chosen, inserted, wanted, outlived>>

DropInit ==
    /\ windowOpen = TRUE /\ loads = 0
    /\ current = NoTarget /\ flag = FALSE /\ registered = NoTarget
    /\ drag = NoTarget /\ chosen = [t \in Target |-> Default] /\ inserted = Nothing
    /\ wanted = Default /\ outlived = FALSE

Alive == {current, registered, drag} \ {NoTarget}

\* The registration that is left when only those references stay: ~IDropTargetImpl.
AfterRelease(references, registration) ==
    IF Alive \subseteq references THEN registration ELSE NoTarget

-----------------------------------------------------------------------------
(* The panel *)

\* script_unload
Unload ==
    /\ registered' = IF flag THEN NoTarget ELSE registered
    /\ flag' = FALSE

\* WM_CREATE and update_script, up to the script's top-level code.
BeginLoad ==
    /\ windowOpen /\ loads < MaxLoads
    /\ Unload
    /\ loads' = loads + 1
    /\ UNCHANGED <<windowOpen, current, drag, chosen, inserted, wanted, outlived>>

\* UWM_SCRIPT_ERROR, UWM_SCRIPT_TERM
EndScript ==
    /\ windowOpen
    /\ Unload
    /\ UNCHANGED <<windowOpen, loads, current, drag, chosen, inserted, wanted, outlived>>

\* Mutant: the new target is registered before the panel lets the old one go.
RegisteredFirst(t) ==
    LET first == IF registered = NoTarget THEN t ELSE registered
    IN  AfterRelease({t, first, drag}, first)

\* Attach releases the panel's old target; RegisterDragDrop then fails if the window has
\* one, or is gone.
Registered(t) ==
    LET left == AfterRelease({t, registered, drag}, registered)
    IN  IF left = NoTarget /\ windowOpen THEN t ELSE left

\* The rest of script_load, for a script that did not fail and wants drops.
MakeTarget(t) ==
    /\ loads > 0 /\ t \notin Alive
    /\ loads' = loads - 1
    /\ current' = t /\ flag' = TRUE
    /\ registered' = Registered(t)
    /\ chosen' = [chosen EXCEPT ![t] = Default]
    /\ outlived' = FALSE
    /\ UNCHANGED <<windowOpen, drag, inserted, wanted>>

\* The script failed, or does not want drops.
NoTargetWanted ==
    /\ loads > 0
    /\ loads' = loads - 1
    /\ UNCHANGED <<windowOpen, current, flag, registered, drag, chosen, inserted, wanted, outlived>>

\* WM_DESTROY
CloseWindow ==
    /\ windowOpen
    /\ windowOpen' = FALSE
    /\ Unload
    /\ UNCHANGED <<loads, current, drag, chosen, inserted, wanted, outlived>>

-----------------------------------------------------------------------------
(* A drag *)

\* Mutant: the choice made in an earlier drag stays.
NoReset(t) == chosen[t]

\* m_action->Reset()
ResetChoice(t) == Default

DragEnter ==
    /\ drag = NoTarget /\ registered # NoTarget
    /\ drag' = registered
    /\ chosen' = [chosen EXCEPT ![registered] = ResetChoice(registered)]
    /\ wanted' = Default
    /\ UNCHANGED <<windowOpen, loads, current, flag, registered, inserted, outlived>>

\* A script sets action.Playlist, Base or ToSelect, in a callback of the drag or later, if
\* it kept the action.
Choose(t, choice) ==
    /\ t \in Alive
    /\ chosen' = [chosen EXCEPT ![t] = choice]
    /\ wanted' = IF t = drag THEN choice ELSE wanted
    /\ UNCHANGED <<windowOpen, loads, current, flag, registered, drag, inserted, outlived>>

\* The pointer leaves, and the system lets the target go.
EndDrag ==
    LET left == AfterRelease({current, registered}, registered)
    IN  /\ drag # NoTarget
        /\ drag' = NoTarget
        /\ registered' = left
        /\ outlived' = (outlived \/ left # registered)
        /\ UNCHANGED <<windowOpen, loads, current, flag, chosen, wanted>>

DragLeave == EndDrag /\ UNCHANGED inserted

\* The script may refuse the drop by its effect, and the data may not be readable.
Drop == EndDrag /\ inserted' \in {chosen[drag], Nothing}

DropNext ==
    \/ BeginLoad \/ EndScript \/ NoTargetWanted \/ CloseWindow
    \/ \E t \in Target : MakeTarget(t) \/ \E choice \in Choice : Choose(t, choice)
    \/ DragEnter \/ DragLeave \/ Drop

DropSpec == DropInit /\ [][DropNext]_dropVars

-----------------------------------------------------------------------------
(* Properties *)

\* A panel that counts its target as registered has one registered with the system, also
\* after a load inside a load, unless a target that outlived its script in a drag took the
\* registration away; one that does not has none (script_load, script_unload, Attach).
TargetRegistered ==
    /\ registered # NoTarget => flag
    /\ flag /\ windowOpen => registered # NoTarget \/ outlived

\* A drop goes where the script said in this drag, or to the default, never where an
\* earlier drag went, also when the script was replaced under the drag (OnDragEnter).
DropAsWanted == [][Drop => inserted' \in {wanted, Nothing}]_dropVars
=============================================================================
