# foo_jscript_panel in TLA+

JScript Panel is a component of the foobar2000 player: a panel of the player's window whose
content a script draws (GDI+) and whose behaviour it defines. The component hosts the
Windows scripting engine, passes the player's events to the scripts, and offers them timers,
asynchronous image loading, messages to other panels and the player's own services.

These modules specify the parts of `src/src` where something can go wrong that no test
reaches: where threads meet, where a handler is entered again from inside itself, where an
object's life depends on counts kept in several places. TLC checks them on small instances;
TLAPS proves the safety properties for all values of the constants.

    tlc -config ThreadPool.cfg ThreadPool            (and so on: see "Runs")
    tlapm ThreadPoolProofs.tla                       (and the other modules named *Proofs)

## The system

Everything but two kinds of thread runs on the player's main thread, in window procedures and
in callbacks of the player. The other threads are the workers of the task pool and the thread
of the Windows timer queue. They talk to the main thread with `SendMessage` and
`main_thread_callback`, so they wait for it; it waits for them only at exit, in `join`.

The main thread is sequential and still the hardest part: a script called from a handler may
show a dialog or a menu, which pumps messages, or run a command of the player that changes the
layout. So nearly any handler can run inside nearly any other one.

| Part | State | Operations | Talks to | Correct when |
|---|---|---|---|---|
| Task pool: `thread_pool.*`, tasks in `helpers.*` | `task_list_`, `num_workers_`, `cs_`, three events, worker objects | `enqueue`, `track`, `acquire_task`, `untrack`, `join`, `untrack_all`, `add_worker_`, `remove_worker_`, `threadProc` | scripts (two entry points), `SendMessage` to the panel, main-thread callbacks, `on_quit` | each task has one owner, none is stranded, the count is exact, `join` ends |
| Timers: `host_timer_dispatcher.*` | `m_timerMap`, `m_taskMap`, `m_threadTaskList`, each timer's two flags, each task's count | `createTimer`, `killTimer`, `onPanelUnload`, `onInvokeMessage`, `invoke`, `timerProc`, `threadMain` | scripts, the panel's load and unload, the timer queue | no call after a clear, none with a dead script, counts exact, stopped timers deleted |
| Broadcast: `panel_manager.*` | `m_hwnds`, reference counts of callback data | `add_window`, `remove_window`, `post_msg_to_all*`, `send_msg_to_*`, the handlers' releasers | about forty callbacks of the player, `NotifyOthers`, all panels | the list is the list of windows; data lives exactly as long as somebody will use it |
| Script host: `host.*`, `script_callback_invoker.*` | engine, root object, `m_engine_inited`, `m_has_error`, map of callbacks | `Initialize`, `Finalize`, `InvokeCallback`, `OnScriptError`, `ReportError`, `Stop` | the scripting engine, the panel (by `SendMessage`), the preprocessor | callbacks reach the current engine only, a failed engine gets none, `Finalize` undoes `Initialize` however they nest |
| Panel: `js_panel_window*` | window, device context, drop target flag, paint flags, tooltip | `on_message`, `script_load`, `script_unload`, `update_script`, painting | all of the above | what `script_load` takes `script_unload` gives back |
| Drop target: `host_drop_target.*`, `drop_impl.h` | registration, effect, the action object | register, revoke, drag events | panel, script | registered exactly while a script wants it; a drop goes where the script said |
| Configuration: `config.*`, `ui_property.*`, `ui_conf.*` | property map, window settings, script text, the dialogs' copies | load, save, `GetProperty`, `SetProperty`, the dialogs' edit and apply | panel, script, the player's configuration | what is written is read back, no update is lost unseen, what runs is what is saved |
| Preprocessor: `script_preprocessor.*` | the directives found, the scan's position | find the block, scan a line, expand paths, read imports | script host | the directives of the block's lines, the imports named, in order |
| Deferred messages: `popup_msg.h` | a list of actions and a ready flag | enqueue, set ready | `on_init`, error reports | each action runs once and in order, none before the player is ready |
| Editor, dialogs: `editorctrl.*`, `ui_*` | Scintilla documents | search, indentation, settings | panel | |
| API wrappers: `script_interface_impl.*`, `helpers.*`, `stats.h`, `mainmenu.*` | the object each wraps | some four hundred methods | GDI+, the player's SDK | those that compute return what they mean, others forward |

pfc, the SDKs of foobar2000 and Columns UI, Scintilla and `includes/` are vendored.
`PROJECT.json` lists the parts with their status, and every hazard of the code with its line
and the property that watches it.

## Modules

### ThreadPool, TaskPool, ThreadPoolProofs

`ThreadPool` has one program counter for the main thread (`main`) and one per worker (`pc`).
The main thread's actions are those of `enqueue` (`Submit`, `Refuse`, `Accept`, `Track`, `Grow`),
of the message pump (`DispatchDone` answers a worker's `SendMessage`; `DispatchRemover` and
`DeleteWorker` run a worker's removal callback, which waits for its thread) and of exit (`Join`,
`SeeEmpty`, `UntrackAll`). A worker's actions follow `threadProc` line by line. A critical section
is one step unless something of it shows before it ends: `enqueue` sets the event before the
new worker exists, and an idle worker holds `cs_` until it is gone. The decrement of
`num_workers_`, which the code does outside the lock, is its own step. `pfc::chain_list_v2` is a
sequence; `untrack_all`, which removes what its iterator stands on, therefore deletes one task.

`TaskPool` is what callers are promised: tasks start in order, each at most once, and after the
pool is closed none starts. `ThreadPool` implements it (`ImplementsTaskPool`): a task is pending
while it is in the list, running while a worker has it.

Any thread may fail to start, and any task may throw: `Failed` are the worker objects of which that
is true. What `join` and the liveness properties promise then is little, and they say so.

### HostTimerDispatcher, HostTimerProofs

A timer and its task are known by their id. `timerMap` and `taskMap` are the keys of the two
maps, `refs` the tasks' counts, `stopRequested` and `stopped` the two flags of a `HostTimer`,
`ticking` the timers that Windows will signal again. The timer thread is at `proc`, with timer
`procOn`; while it is `"sending"` or `"handled"` it waits in `SendMessage`. `invoke()` is two steps
(`Invoke`, `InvokeReturns`), because the script between them may clear any timer, start others,
pump messages and have its own script reloaded. A script that was unloaded under another of its callbacks
goes on too, until that callback returns (`suspended`). When the task was deleted meanwhile,
`InvokeReturns` releases freed memory: it finds nothing there, or a task allocated at that
address since (`reborn`).

`Killer = FALSE` is the program as it is: nothing calls `createThread`, so no timer object is ever
deleted. `Killer = TRUE` is the design that the header describes. Under it
`UnloadReleasesTasks` would not hold: the timer of a timeout that fired is deleted, and
`onPanelUnload`, which finds tasks through timers, would miss its task. It is
checked and proved for the code as it is.

### PanelManager, MCPanelManager, PanelManagerProofs

`stack` is the main thread's stack of calls: handlers of a panel (which may own a reference to
data), `WM_DESTROY` handlers, and send loops with their position and the count they
captured. `Send` is a turn of `for_each`; it pushes the handler that `SendMessage` calls. While a
handler is on top its script may do anything: `Notify`, `Create`, `BeginDestroy`, `Broadcast`,
`Dispatch` a posted message. Posted messages are a set: nothing depends on their order. A
message that Windows does not deliver (the queue is full, the window went) loses its reference,
which `lost` counts.

Nothing in the code keeps a window from being destroyed under a send loop, or a script from notifying
after its window was destroyed. In the first case the loop reads beyond the list (`PanelManagerChurn`), in the
second `NotifyOthers` takes `count - 1` references for `count` deliveries; the counters of the data
go wrong and it is used after its deletion. The model contains both. `astray` is the history of the data to
which one of the two happened, with `NoData` for the loop of `on_quit`; the properties of counters and loops
except that data and nothing else, and the list of windows is exact without exception. An address that went
astray is not given to new data again (`Fresh`), which bounds the states and takes nothing from the
properties, as they would except that data too.

Broadcast data is freed by its last handler. When no panel exists, or one only for
`NotifyOthers`, the early return leaves it allocated with count 0: `RefsMatchDeliveries` has that
leak as live data with no delivery to come.

### ScriptHost, ScriptHostProofs

One panel and the engines it makes. `engine`, `root`, `inited`, `hasError` are the members of
`ScriptHost`; `invoker` is the engine whose functions the callback map lists, which is filled and emptied
apart from them. `blamed` is the history of engines that were current when code of another one
threw, whose error the panel then holds against them. `stack` holds script code (`callback`,
`unload`, `timer`, and `parse`, the top-level code with its imports) and the handlers that wait for it: WM_CREATE, `update_script`,
UWM_SCRIPT_ERROR, UWM_SCRIPT_TERM, WM_DESTROY, each at the call it waits in. Script code that runs
may pump messages, so any handler may start above it (`Begin`, `Event`, `Timer`), and it goes on in an
engine that was closed meanwhile. `Throw` is `OnScriptError` with the whole of `ReportError`: `Stop`
and `script_unload` for whatever script the panel has then, or the early return without them.

The Windows engine is external: a fresh one is connected, a closed one refuses calls, code on
the stack goes on. Its creation may fail. Timers appear as the engines whose functions they hold; how they
are run and cleared is `HostTimerDispatcher`'s matter. The window is made once.

`CallbacksReachCurrent` holds for any nesting. `NothingLeftBehind` says that an engine that is there and
has not failed can be called: but for those in `blamed`, which `m_has_error` may keep from every callback
when `ReportError` returned early. This and `NoEngineLost` except
behaviours in which a load or unload begins inside another one for another reason than its own
error (`disturbed`): a script that pumps messages in its top-level code and is reloaded there
loses an engine unclosed, and one that a timer's error unloads there gets its drop target registered
after it is gone. Both are among the hazards of `PROJECT.json`.

### PanelSettings

The fields of `js_panel_vars` (`props`, `code`, `transparent`), the text the running script was
loaded from, the open dialog with its copy, and the configuration the player keeps. A property is absent
or has a value of some type; the types in `Odd` are those that `g_is_allowed_type` refuses, for
which `g_save` would write a type and no value. A script may call `SetProperty` whenever it runs:
`update_script` is therefore two steps, begun by a dialog's Apply, a reload or a load of the
configuration (`phase = "updating"`) and ended by `UpdateEnds`, which gives control back to the Apply that
waits; between them the old script's `on_script_unload` and the new one's top-level code write.
`Load(cut)` reads data that ends in field number `cut`: `g_load` keeps what it has read and says
nothing, any other field's error resets text and setting but not the properties, and what could not be told apart
is read as anything. `Written` is what saving makes of a value: `string_utf8_from_wide` ends a string at
its first NUL and has no code for a lone surrogate. `Utf8` is that conversion, of which nothing is assumed but that
it keeps the type; in the run it makes a string with a NUL another one. `SavedIsReadBack` says what is left of
"what is saved is read back". The history variables say who gave a property its value last.

A dialog is opened from the panel's own messages here, and not by a script that pumps messages in
its top-level code. In the default user interface the configuration may change under a running
script and an open dialog; in Columns UI before the window exists.

### Preprocessor, PreprocessorProofs

A script is a sequence of tokens: the markers, line ends, `//`, `@word`, quotes, other characters.
`ScanLine` is a turn of `preprocess`'s loop at position `p`, up to the value of a directive;
`ValueGoesOn`, `ValueEnds` and `ValueFails` are the turns of `scan_value`'s loop and its ends. In
`process_import`, `ExpandNormal` and `ExpandPercent` are a turn of `expand_var`'s loop in either
state, and `ReadImport` puts the expanded path in the directive's place and reads the script. The
second half of the module says what should be found without a walk: which lines of the script lie
strictly between the two markers, where on a line a directive's parts are (`Places`), what the text of
a value is (`Unescaped`), what each character of a path stands for (`Stands`). The properties compare
the two at every line and for every import. Spaces and tabs are one token, line ends another, and
apostrophes, which the code skips before the slashes only (`Indent`, `Blanks`), a third; carriage
returns are left out.

### DropTarget

Three references keep a target alive: the panel's, that of the system's registration of the window, and
that of a drag whose pointer is over the window. The last release runs `~IDropTargetImpl`, which
revokes the *window's* registration, whosever it is (`AfterRelease`). `MakeTarget` is the end of
`script_load`: the old target is released, then the new one registered, which fails while the window has one.
The order matters (mutant `RegisteredFirst`), and a target that a drag keeps alive is destroyed after its successor
was registered: the panel then takes no drop until the next load (`outlived`). What a script
chooses for a drop is one value for playlist, position and selection. Loads nest as in `ScriptHost`.

### DelayLoader

`g_enqueue`, and `g_set_ready` with one turn of its loop per step (`ExecuteNext`): showing a
message opens a window, and what that starts may ask for another message. `Waiting` is what will
still be shown: all of the list at first, in the loop the rest of it, afterwards nothing.

### ScriptApi, ScriptApiProofs

The calls of the API that compute. A turn of the loop of `MakeDifference` or `MakeIntersection` is a
step (`WalkLists`); `WrapLine` is one item of `EstimateLineWrap`: a call of `estimate_line_wrap_recur`,
and the loop over the line feeds around it. An item is the place in the text where it begins, its length
and its width. `Fitting` is the estimate in proportion to the line's width and the walk from there,
`LastWrap` the way back to a wrap character. `ResultsAreMeant` compares with definitions that walk over
nothing: sets, and for each item the longest length allowed (`LengthIsMeant`) and where the next one begins
(`GoesOn`). It holds of what a call has found so far as well as of what it returns. `MakeDifference`
and `MakeIntersection` want sorted lists, as the docs say; `MakeUnion` takes any.

`MakeDifference` does not do what `docs/Interfaces.txt:1728` says ("only contains handles that were
unique to "one""): the loop ends with whichever list ends first, so the handles of the first list that are
above all of the second, by address, are lost. `DifferenceIsComplete` is what the docs say, and the run
`DifferenceIncomplete` shows that it fails. `ResultsAreMeant` measures the difference with the same meaning, and
allows it to lose handles above all of the second list and no others.

Assumed: characters have a positive width, and the width of a text is the sum of
theirs (no kerning); a line's length times the width asked for stays below 2^31, where the code's `int` would overflow.

### MCPanelParts

The five modules above for TLC, which share no variable. `part` says which one moves; the others
keep one initial state, so that the state space is the sum of the five and not their product. The
theorems are about each module's own specification.

### SequenceFacts

Facts that the proofs share and the library does not state: of appending, removing and replacing in
sequences, of the least and the greatest number of a set, and of what `FlattenSeq` makes of one
sequence more, of empty ones, of longer ones. `AllNumbers` is induction without an operator as its parameter:
a set of numbers that has 0 and with each the next has all; with it the recursive functions that
`FlattenSeq` and `WidthOf` choose are shown to exist.

## Runs

| Run | Shows |
|---|---|
| `ThreadPool` | two tasks, at most two of three workers, failures everywhere: events, count and owners are exact, `join` is quiet, `TaskPool` is implemented; unless a worker has failed, every queued task is taken, `join` ends although workers wait for the thread that joins, idle workers retire and strand nothing |
| `ThreadPoolLeftovers` | finding: `untrack_all` deletes one task of those left |
| `ThreadPoolJoinHangs` | finding: a thread that does not start, or a task that throws, leaves `num_workers_` too high and `join` waits for ever |
| `TimerShipped` | the program as it is: counts exact, no call after a clear, unload complete, timeouts run, cleared timers stop |
| `TimerKillerThread` | the design with the killer thread: each stopped timer is deleted in the end, and not under its own proc |
| `TimerDangling` | finding: clearing a timer twice from its own function deletes the task that runs |
| `TimerNeverErased` | finding: without the killer thread stopped timers stay |
| `PanelManager` | the list is exact; under nested loops so are counts and lives of data, but of data that went astray; the loops that did not stay inside the list |
| `PanelManagerChurn` | finding: a panel destroyed inside a send loop makes the loop read beyond the list |
| `ScriptHost` | however loads, unloads, errors and script code nest, callbacks reach the current, sound engine; undisturbed, no engine is lost and nothing of a script is left |
| `PanelParts` | settings: the open dialog is true, only what is written behind it can be lost, what runs is what is saved, nothing is half loaded; preprocessor: finds what the lines mean; drop target: flag and registration agree, drops go where they were sent; messages: each shown once, in order; API: set operations, but for what the difference loses, and the wrap of text return what they mean |
| `DifferenceIncomplete` | finding: `MakeDifference` loses handles of the first list |

Bounds. Two workers at once and a third object are enough for one worker to retire while another
takes its task and a third is created; two tasks are one that is taken and one that waits, and three,
in `ThreadPoolLeftovers`, a list with a middle.
Two timers are enough for one to be cleared, stopped or unloaded from the function of the other,
and for a new task at a freed address, and in the killer thread's list for one to wait while the other is
deleted. That list is last in, first out: with ever new requests the oldest might wait for ever, which a
bounded number of timers excludes. Three panels and five nested calls allow a loop inside a handler inside a
loop, with a delivery in the inner one, and a panel created under both; a limit of two posted messages makes
`PostMessage` fail. Three engines are one that is replaced, one that fails and one after both; four calls
are a reload inside a callback with the error of its top-level code, or a reload inside
`on_script_unload`. One property with two values of its type, one of which does not survive its saving, and
one of a refused type, and two texts, let all parties of `PanelSettings` differ; properties do not depend on each other.
The preprocessor gets every sequence of up to six of markers, line ends and directives,
every line of up to five tokens behind the slashes, every place of up to two spaces and apostrophes
around and between the parts of a directive, and every path of up to six of
quote, percent sign and two letters. The API gets every two sorted lists over four handles and every
two lists of up to three of three handles, in any order, and, at widths 0 to 5,
every text of up to four of six kinds of characters and of up to six of a wide, a narrow and a blank one:
the estimate is then too long, too short and right, with and without a place to wrap. Three targets are one that a drag keeps, the panel's and the next, with a load inside a load; four
messages are two that wait and two asked for in the loop. Bounds are the constants `MaxTimers`, `MaxEngines`, `MaxDepth`, `MaxLoads` and
`QueueLimit`, and the sizes of the sets; the proofs do without them. Panels and data are symmetric in
`MCPanelManager`; no run with liveness uses symmetry.

Fairness. Threads are scheduled (weak fairness of their steps) and get a lock that every
owner gives back, or the message pump's attention, when they wait for it often enough (strong
fairness). The pump handles sent messages before all others, and scripts return. Ten seconds
pass, so an idle worker's test succeeds in the end. The timer queue is ordered by due time, so a
due timer is signaled whatever others do. Nothing makes scripts submit work or the player exit:
`join` ends *if* it begins. `ClearedTimerStops` excepts intervals of 0 ms: Windows signals a timer
of period 0 once, and it never finds the stop request. `TimeoutRuns` excepts timers that were
cleared, windows that were destroyed, and a task in the place of one deleted under its own function (`reborn`).

Deadlock is checked in all runs but those where the system may really stop: `ThreadPool`,
`ThreadPoolLeftovers` and `ThreadPoolJoinHangs` (the program quits, or `join` waits for ever), `ScriptHost` (the window is gone) and `PanelParts` and
`DifferenceIncomplete` (the preprocessor, the messages and an API call come to their end).

## Proofs

For every value of the constants, from their stated assumptions:

* `ThreadPoolProofs`: `TypeOK`, `OneOwner`, `EventMatchesQueue`, `WorkersCounted`,
  `QueuedHasWorker`, `JoinIsQuiet`, and the refinement of `TaskPool`. The
  invariant adds where each thread may be and what it holds there (`Control`): who owns `cs_`, that
  an idle worker retires over an empty list, that only workers between `acquire_task` and `untrack`
  have a task. `JoinIsQuiet` needs `EmptyMeansNone`: the event says that no worker is counted, also
  when a late `remove_worker_` sets it.
* `HostTimerProofs`: `TypeOK`, `RefsMatchOwners`, `HandedOverOnce`, `TimerOutlivesProc`,
  `ClearedNeverInvoked`, and, without the killer thread, `UnloadReleasesTasks`. The invariant adds
  that a killed task lives under its own `invoke()` only (`HeldTasks`), which is why no message
  that was under way can call it; that a timer handed over sends no more (`Handed`); and that every
  task's timer is known (`NoKiller`), which is why unload finds them all.
* `PanelManagerProofs`: `TypeOK`, `ListIsExact`, `RefsMatchDeliveries`, `DataOutlivesUse`,
  `LoopsInside`. Each step changes the three sets that make up a counter by at most
  one element; the invariant adds that every loop on the stack whose data is not astray ends inside the
  list (`CallsFit`), which needs that no `WM_DESTROY` is above such a loop (`NoDestroyOverSend`).
  `TypeCorrect` adds that deleted data has counter 0, so that no counter but of astray data is ever negative.
* `ScriptHostProofs`: all four properties. That callbacks reach the current engine needs that the
  engine is connected and sound whenever `m_has_error` is false (`EngineFits`), that engines not yet made are
  connected, and the shape of the stack (`CallsFit`): top-level code lies above the `Initialize` that
  waits for it, and running code belongs to an engine that was made. `NoEngineLost` and
  `NothingLeftBehind` speak of the panel when handlers have ended; their invariant says what holds
  while they wait. Undisturbed, at most one handler but an error's is changing the script
  (`OneChange`); top-level code under it is the panel's engine's (`ParseOwn`); an engine that is not
  inited and neither failed nor was stopped has its top-level code under way (`Pending`); when nothing
  changes, the engine failed or can be called (`Settled`). An error's handler is on top of the stack, over a
  stopped engine (`Shaped`, `Stopping`), which is why its `Finalize` may skip the close. Without
  `~disturbed`, `OneChange` fails at once.
* `PanelPartsProofs`: the properties of `PanelSettings`, `DropTarget` and `DelayLoader`, the two
  action properties among them. `UpdatesKept` needs `DialogShowsPanel`: what Apply writes back over a
  property the user did not edit is what the panel has, unless the property was written behind the
  dialog. `DropAsWanted` needs that the target under a drag has the choice made in that
  drag (`DragIsFresh`). `ShownOnceInOrder` needs that the list is the messages asked for before
  the player was ready (`Phases`), that exactly those of them before the loop's index, and all that came
  later, were shown (`ShownAreDone`), and the order of the two kinds apart (`ShownInOrder`).
* `ScriptApiProofs`: `ResultsAreMeant`, with its exception for the difference. Of sorted lists, what a walk has passed of one list lies below all
  that is left of the other (`Passed`), so what it has taken is what it should of what it has passed
  (`TakenSoFar`). Of the wrap: widths rise with the length (`WidthsRise`), so the walk from the estimate, up or
  down, ends at the greatest length that fits (`FittingIsGreatest`) and the way back at the last place to
  wrap; hence each item is as long as meant (`ItemIsMeant`), and the next begins where this one ends
  or behind its line (`WrapInv`).
* `PreprocessorProofs`: `FoundAreMeant` and `PathsAreMeant`. The block's lines are those from behind
  `BlockBegin`'s to that of `BlockEnd` (`BlockLinesAre`). At the start of a line the directives found are those
  of the lines before (`AtLine`); within a value, at `k`, the line's first parts are where the
  definition has them, no quote up to `k` closes the value, the quotes passed are even in number, and the value
  so far is the text up to `k` with one quote of each two (`AtValue`, `Reading`). So the quote that ends
  the walk is the one place at which the definition lets the value end (`ClosesOnce`), and a walk that
  reaches the line's end leaves a line with no such place. Of a path, the buffer is what its characters up to
  `pscan` leave, and `pready` is the last percent sign while their number is odd (`Expanding`). A
  character never leaves more than it means, and less where a sign is not closed or a name is not known:
  hence the path is what it means only if there is none (`LeftIsMeant`).

Only model-checked: everything with fairness (`TaskTaken`, `JoinTerminates`, `IdleWorkersRetire`,
`ClearedTimerStops`, `TimeoutRuns`, `StoppedTimerErased`), which the prover does not reach.

## Not modelled

Of the modelled parts: the dispatcher's destructor and `stopThread`, which run when `m_thread` is
NULL; ids after 2^32 timers, whose loop for a free one joins two tests by `&&`; the contents
of tasks, messages and data; which panels have a script, in `PanelManager`; which
of a script's timers are set, and the window's re-creation, in `ScriptHost`. A timer set by a
script that goes on after its window was destroyed is in the model (`Running`); nothing unloads it.

Of the newer parts: the exception that `_variant_t::ChangeType` throws when a value of the
properties dialog cannot be converted (`ui_property.cpp:111`, `156`, `162`); a drop's effect and its asynchronous end (`js_process_locations` keeps the
number of a playlist, and inserts into whichever playlist has that number by then); a panel that is
destroyed under a drag, whose target would then call it; the editor's document; the files that
imports are read from.

Not modelled at all: painting and mouse state of the panel, which the plan has; the editor's search
and indentation, `stats.h` and `mainmenu.cpp`, which run from end to end without another party; and the other API wrappers,
which keep nothing but the object they wrap. Most of the repository's lines are vendored (Scintilla,
WTL, JSON, pfc, the SDKs): they are the environment of these modules and not their subject.

## Plan

1. `Painting`: `m_paint_pending`, the back buffer and the pseudo-transparent redraw; nested
   painting and destruction under `on_paint`.
2. An abstract settings store (a map of last writers) that `PanelSettings` implements while no dialog
   is open, and an abstract timer service that `HostTimerDispatcher` implements.
3. The asynchronous end of a drop, with playlists that come and go.
4. The editor's indentation and search: functions against a reference definition.
