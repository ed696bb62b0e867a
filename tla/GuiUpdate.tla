------------------------------- MODULE GuiUpdate -------------------------------
(****************************************************************************)
(* The live core of gnwinfo: the UI thread (wWinMain and window_proc) and   *)
(* the update thread share the node trees of g_ctx.  Requests travel from   *)
(* the UI thread through update_mask and an auto-reset event; the update    *)
(* thread gathers a new tree without the lock, swaps it in under the SRW    *)
(* lock, and frees the old one after releasing it.  The UI thread draws     *)
(* every frame under the exclusive lock.  When the thread could not be      *)
(* created, gnwinfo_ctx_update runs the handlers on the caller instead.     *)
(* A handler that runs out of memory ends the program, after a message box. *)
(*                                                                          *)
(* A tree is an address the heap hands out again after it was freed; what a *)
(* tree contains is left out.  "network" stands for all that the summary    *)
(* branch of update_1s swaps together (network, audio, cpu_info).           *)
(****************************************************************************)
EXTENDS Naturals, FiniteSets

CONSTANTS
    Jobs,       \* the update timers in use, a subset of the code's seven
    Trees,      \* heap addresses
    Malloc(_),  \* the addresses an allocation may return, given those in use
    NULL,       \* the null pointer
    MayFail     \* whether creating the events and the thread may fail

JobTable == <<"1S", "1M", "DISK", "DISPLAY", "POWER", "SMB", "SPD">>

JobName == { JobTable[i] : i \in 1..7 }

Slots == {"network", "sensors", "disk", "smb", "spd", "battery", "edid", "gpu"}

ASSUME JobsAssumption == Jobs \subseteq JobName
ASSUME NullAssumption == NULL \notin Trees
ASSUME MallocAssumption == \A S \in SUBSET Trees : Malloc(S) \subseteq Trees \ S
ASSUME MayFailAssumption == MayFail \in BOOLEAN

VARIABLES
    ui,          \* where the UI thread is
    calls,       \* gnwinfo_ctx_update calls the UI thread has yet to make
    signal,      \* it has set the mask bit and SetEvent is next
    menuRef,     \* the battery tree the systray menu is reading, or NULL
    running,     \* the local variable of wWinMain
    quit,        \* WM_QUIT is in the message queue
    exitPending, \* g_ctx.exit_pending
    window,      \* "open" or "destroyed"
    timers,      \* SetTimer done and KillTimer not
    view,        \* g_ctx.display_view
    initDone,    \* g_ctx.init_done
    mask,        \* g_ctx.update_mask
    updateEvent, \* g_ctx.update_event is signalled
    stopEvent,   \* g_ctx.stop_event is signalled
    worker,      \* where the update thread is
    inRun,       \* a thread is inside gnwinfo_ctx_run_mask
    todo,        \* the bits of that call's mask still to be run
    hpc,         \* where the running handler is, "none" between handlers
    job,         \* the timer whose handler runs
    slot,        \* the field of g_ctx the handler replaces
    fresh,       \* the tree it has built
    old,         \* the tree it has taken out and not freed yet
    lock,        \* the exclusive owner of g_ctx.lock
    slots,       \* the pointers in g_ctx
    live         \* addresses allocated and not freed

callVars == <<calls, signal, menuRef>>
windowVars == <<running, quit, exitPending, window, timers, view>>
uiVars == <<ui, callVars, windowVars>>
queueVars == <<mask, updateEvent, stopEvent>>
workerVars == <<worker, inRun, todo>>
handlerVars == <<hpc, job, slot, fresh, old>>
heapVars == <<slots, live>>
engineVars == <<queueVars, workerVars, handlerVars, heapVars>>
vars == <<uiVars, engineVars, initDone, lock>>

Exiting == {"exit", "stop", "join", "free", "destroy", "done"}

\* ctx_init could create the events and the thread.
Threaded == worker # "none"

\* The thread that executes the update handlers.
Runner == IF Threaded THEN "worker" ELSE "ui"

Pointers == Trees \cup {NULL}

----------------------------------------------------------------------------
(* Which bit is next: the loop over g_update_table, the calls of ctx_init   *)
(* and those of the refresh button each have an order of their own.         *)

RunRank == [j \in JobName |-> CHOOSE i \in 1..7 : JobTable[i] = j]

InitRank == [j \in JobName |->
    CASE j = "DISPLAY" -> 1 [] j = "1S" -> 2 [] j = "1M" -> 3 [] j = "DISK" -> 4
      [] j = "SMB" -> 5 [] j = "SPD" -> 6 [] j = "POWER" -> 7]

InitCalls == Jobs \ {"POWER"}
RefreshCalls == Jobs \cap {"1M", "DISK", "DISPLAY", "SMB"}

FirstIn(j, S, rank) == j \in S /\ \A k \in S : rank[j] <= rank[k]

NextCall(j) == FirstIn(j, calls, IF ui = "init" THEN InitRank ELSE RunRank)

SlotOf(j) ==
    CASE j = "1S" -> "network"
      [] j \in {"1M", "POWER"} -> "battery"
      [] j = "DISK" -> "disk"
      [] j = "DISPLAY" -> "edid"
      [] j = "SMB" -> "smb"
      [] j = "SPD" -> "spd"

----------------------------------------------------------------------------
Init ==
    /\ ui = "init"
    /\ calls = InitCalls
    /\ signal = FALSE
    /\ menuRef = NULL
    /\ running = TRUE
    /\ quit = FALSE
    /\ exitPending = FALSE
    /\ window = "open"
    /\ timers = FALSE
    /\ view = "summary"
    /\ initDone = FALSE
    /\ mask = {}
    /\ updateEvent = FALSE
    /\ stopEvent = FALSE
    /\ worker \in {"wait"} \cup IF MayFail THEN {"none"} ELSE {}
    /\ inRun = FALSE
    /\ todo = {}
    /\ hpc = "none"
    /\ job = "none"
    /\ slot = "none"
    /\ fresh = NULL
    /\ old = NULL
    /\ lock = "none"
    /\ slots = [s \in Slots |-> NULL]
    /\ live = {}

----------------------------------------------------------------------------
(* gnwinfo_ctx_update, called by the UI thread only.                        *)

\* The UI thread is between two calls: it may take its next step.
Idle == calls = {} /\ ~signal /\ menuRef = NULL /\ (Threaded \/ ~inRun)

PostRequest_NoSignal(j) ==
    /\ Threaded /\ ~signal /\ NextCall(j)
    /\ mask' = mask \cup {j}
    /\ calls' = calls \ {j}
    /\ UNCHANGED <<ui, signal, menuRef, windowVars, updateEvent, stopEvent, workerVars, handlerVars, heapVars, initDone, lock>>

\* InterlockedOr(&g_ctx.update_mask, wparam)
PostRequest(j) ==
    /\ Threaded /\ ~signal /\ NextCall(j)
    /\ mask' = mask \cup {j}
    /\ calls' = calls \ {j}
    /\ signal' = TRUE
    /\ UNCHANGED <<ui, menuRef, windowVars, updateEvent, stopEvent, workerVars, handlerVars, heapVars, initDone, lock>>

\* SetEvent(g_ctx.update_event)
SignalWorker ==
    /\ signal
    /\ updateEvent' = TRUE
    /\ signal' = FALSE
    /\ UNCHANGED <<ui, calls, menuRef, windowVars, mask, stopEvent, workerVars, handlerVars, heapVars, initDone, lock>>

\* Without a thread the caller runs the mask itself.
RunOnCaller(j) ==
    /\ ~Threaded /\ ~inRun /\ NextCall(j)
    /\ calls' = calls \ {j}
    /\ inRun' = TRUE
    /\ todo' = {j}
    /\ UNCHANGED <<ui, signal, menuRef, windowVars, queueVars, worker, handlerVars, heapVars, initDone, lock>>

----------------------------------------------------------------------------
(* The UI thread: the end of ctx_init, the message loop, one frame, the     *)
(* modal dialogs a frame can open while it holds the lock.                  *)

FinishInit ==
    /\ ui = "init" /\ Idle
    /\ initDone' = (initDone \/ ~Threaded)
    /\ timers' = TRUE
    /\ ui' = "pump"
    /\ UNCHANGED <<callVars, running, quit, exitPending, window, view, engineVars, lock>>

\* window_proc runs for wWinMain's loop and for the loop of a modal dialog.
Dispatching == ui \in {"pump", "dialog"} /\ Idle /\ window = "open"

\* WM_TIMER, WM_DEVICECHANGE, WM_POWERBROADCAST, WM_DISPLAYCHANGE
RequestMessage(j) ==
    /\ Dispatching
    /\ j \in Jobs \cap ({"DISK", "POWER", "DISPLAY"} \cup IF timers THEN {"1S", "1M"} ELSE {})
    /\ calls' = {j}
    /\ UNCHANGED <<ui, signal, menuRef, windowVars, engineVars, initDone, lock>>

\* IDM_EXIT in the menu of the notification icon
TrayExit ==
    /\ Dispatching
    /\ exitPending' = TRUE
    /\ UNCHANGED <<ui, callVars, running, quit, window, timers, view, engineVars, initDone, lock>>

\* The menu and its power scheme commands take g_ctx.battery without the lock.
OpenMenu ==
    /\ Dispatching
    /\ slots["battery"] # NULL
    /\ menuRef' = slots["battery"]
    /\ UNCHANGED <<ui, calls, signal, windowVars, engineVars, initDone, lock>>

MenuRead ==
    /\ menuRef # NULL
    /\ menuRef' = NULL
    /\ UNCHANGED <<ui, calls, signal, windowVars, engineVars, initDone, lock>>

\* WM_CLOSE destroys the window and with it the dialogs it owns and its timers.
CloseWindow ==
    /\ Dispatching
    /\ window' = "destroyed"
    /\ quit' = TRUE
    /\ timers' = FALSE
    /\ ui' = IF ui = "dialog" THEN "drawn" ELSE ui
    /\ UNCHANGED <<callVars, running, exitPending, view, engineVars, initDone, lock>>

\* PeekMessage finds the queue empty; WM_QUIT, always the last, was seen.
EndInput ==
    /\ ui = "pump" /\ Idle
    /\ running' = ~quit
    /\ ui' = "frame"
    /\ UNCHANGED <<callVars, quit, exitPending, window, timers, view, engineVars, initDone, lock>>

BeginDraw ==
    /\ ui = "frame" /\ lock = "none"
    /\ lock' = "ui"
    /\ ui' = "draw"
    /\ UNCHANGED <<callVars, windowVars, engineVars, initDone>>

\* A frame sees at most one click; the buttons are there once init_done is set.
ClickRefresh ==
    /\ ui = "draw" /\ initDone
    /\ calls' = RefreshCalls
    /\ ui' = "drawn"
    /\ UNCHANGED <<signal, menuRef, windowVars, engineVars, initDone, lock>>

ClickView ==
    /\ ui = "draw" /\ initDone
    /\ view' = IF view = "summary" THEN "sensor" ELSE "summary"
    /\ ui' = "drawn"
    /\ UNCHANGED <<callVars, running, quit, exitPending, window, timers, engineVars, initDone, lock>>

ClickClose ==
    /\ ui = "draw"
    /\ exitPending' = TRUE
    /\ ui' = "drawn"
    /\ UNCHANGED <<callVars, running, quit, window, timers, view, engineVars, initDone, lock>>

\* GetSaveFileName and the message boxes run a message loop inside the frame.
OpenDialog ==
    /\ ui = "draw"
    /\ ui' = "dialog"
    /\ UNCHANGED <<callVars, windowVars, engineVars, initDone, lock>>

CloseDialog ==
    /\ ui = "dialog" /\ Idle
    /\ ui' = "drawn"
    /\ UNCHANGED <<callVars, windowVars, engineVars, initDone, lock>>

EndDraw ==
    /\ ui \in {"draw", "drawn"} /\ Idle
    /\ lock' = "none"
    /\ ui' = IF exitPending \/ ~running THEN "exit" ELSE "pump"
    /\ UNCHANGED <<callVars, windowVars, engineVars, initDone>>

----------------------------------------------------------------------------
(* gnwinfo_ctx_exit and what wWinMain does after it.                        *)

BeginExit ==
    /\ ui = "exit"
    /\ timers' = FALSE
    /\ updateEvent' = TRUE
    /\ ui' = "stop"
    /\ UNCHANGED <<callVars, running, quit, exitPending, window, view, mask, stopEvent, workerVars, handlerVars, heapVars, initDone, lock>>

SignalStop_Forgotten ==
    /\ ui = "stop"
    /\ ui' = "join"
    /\ UNCHANGED <<callVars, windowVars, engineVars, initDone, lock>>

SignalStop ==
    /\ ui = "stop"
    /\ stopEvent' = TRUE
    /\ ui' = "join"
    /\ UNCHANGED <<callVars, windowVars, mask, updateEvent, workerVars, handlerVars, heapVars, initDone, lock>>

Join_NoWait ==
    /\ ui = "join"
    /\ ui' = "free"
    /\ UNCHANGED <<callVars, windowVars, engineVars, initDone, lock>>

\* WaitForSingleObject(g_ctx.update_thread, INFINITE)
Join ==
    /\ ui = "join"
    /\ worker \in {"done", "none"}
    /\ ui' = "free"
    /\ UNCHANGED <<callVars, windowVars, engineVars, initDone, lock>>

\* Every tree of g_ctx, and in NW_Fini the GPU list; the pointers stay.
FreeAll ==
    /\ ui = "free"
    /\ live' = live \ { slots[s] : s \in Slots }
    /\ ui' = "destroy"
    /\ UNCHANGED <<callVars, windowVars, queueVars, workerVars, handlerVars, slots, initDone, lock>>

DestroyWindow ==
    /\ ui = "destroy"
    /\ window' = "destroyed"
    /\ ui' = "done"
    /\ UNCHANGED <<callVars, running, quit, exitPending, timers, view, engineVars, initDone, lock>>

----------------------------------------------------------------------------
(* gnwinfo_ctx_update_thread.                                               *)

\* WaitForMultipleObjects consumes the auto-reset event, and reports the
\* lowest index when both are signalled.
WakeUpdate ==
    /\ worker = "wait" /\ updateEvent
    /\ updateEvent' = FALSE
    /\ worker' = "drain"
    /\ UNCHANGED <<uiVars, mask, stopEvent, inRun, todo, handlerVars, heapVars, initDone, lock>>

WakeStop_First ==
    /\ worker = "wait" /\ stopEvent
    /\ worker' = "done"
    /\ UNCHANGED <<uiVars, queueVars, inRun, todo, handlerVars, heapVars, initDone, lock>>

WakeStop ==
    /\ worker = "wait" /\ ~updateEvent /\ stopEvent
    /\ worker' = "done"
    /\ UNCHANGED <<uiVars, queueVars, inRun, todo, handlerVars, heapVars, initDone, lock>>

\* InterlockedExchange(&g_ctx.update_mask, 0)
TakeMask ==
    /\ worker = "drain" /\ ~inRun /\ mask # {}
    /\ todo' = mask
    /\ mask' = {}
    /\ inRun' = TRUE
    /\ UNCHANGED <<uiVars, updateEvent, stopEvent, worker, handlerVars, heapVars, initDone, lock>>

Drained_StillLoading ==
    /\ worker = "drain" /\ ~inRun /\ mask = {}
    /\ worker' = "wait"
    /\ UNCHANGED <<uiVars, queueVars, inRun, todo, handlerVars, heapVars, initDone, lock>>

Drained ==
    /\ worker = "drain" /\ ~inRun /\ mask = {}
    /\ initDone' = TRUE
    /\ worker' = "wait"
    /\ UNCHANGED <<uiVars, queueVars, inRun, todo, handlerVars, heapVars, lock>>

----------------------------------------------------------------------------
(* gnwinfo_ctx_run_mask and the handlers, on whichever thread runs them.    *)
(* A shared acquisition reads a flag and releases at once: it only waits    *)
(* for the exclusive owner.                                                 *)

StartHandler(j) ==
    /\ inRun /\ hpc = "none" /\ FirstIn(j, todo, RunRank)
    /\ todo' = todo \ {j}
    /\ job' = j
    /\ slot' = SlotOf(j)
    /\ hpc' = CASE j = "1S" -> "view"
                [] j \in {"DISK", "SPD"} -> "loading"
                [] OTHER -> "gather"
    /\ UNCHANGED <<uiVars, queueVars, worker, inRun, fresh, old, heapVars, initDone, lock>>

MaskDone ==
    /\ inRun /\ hpc = "none" /\ todo = {}
    /\ inRun' = FALSE
    /\ UNCHANGED <<uiVars, queueVars, worker, todo, handlerVars, heapVars, initDone, lock>>

\* update_1s: the sensor view wants the sensors and nothing else.
ReadView ==
    /\ hpc = "view" /\ lock = "none"
    /\ slot' = IF view = "sensor" THEN "sensors" ELSE slot
    /\ hpc' = IF view = "sensor" THEN "gather" ELSE "flags"
    /\ UNCHANGED <<uiVars, queueVars, workerVars, job, fresh, old, heapVars, initDone, lock>>

BeginLoading_NoReset ==
    /\ hpc = "loading"
    /\ hpc' = IF job = "DISPLAY" THEN "acquire" ELSE "flags"
    /\ UNCHANGED <<uiVars, queueVars, workerVars, job, slot, fresh, old, heapVars, initDone, lock>>

\* InterlockedExchange(&g_ctx.init_done, 0)
BeginLoading ==
    /\ hpc = "loading"
    /\ initDone' = FALSE
    /\ hpc' = IF job = "DISPLAY" THEN "acquire" ELSE "flags"
    /\ UNCHANGED <<uiVars, queueVars, workerVars, job, slot, fresh, old, heapVars, lock>>

ReadFlags ==
    /\ hpc = "flags" /\ lock = "none"
    /\ hpc' = "gather"
    /\ UNCHANGED <<uiVars, queueVars, workerVars, job, slot, fresh, old, heapVars, initDone, lock>>

Gather_FreeFirst ==
    /\ hpc = "gather"
    /\ \E t \in Malloc(live \ {slots[slot]}) :
        /\ fresh' = t
        /\ live' = (live \ {slots[slot]}) \cup {t}
    /\ hpc' = IF job = "DISPLAY" THEN "loading" ELSE "acquire"
    /\ UNCHANGED <<uiVars, queueVars, workerVars, job, slot, old, slots, initDone, lock>>

\* NW_Network, NW_Sensors, NW_Battery, NW_Disk, NW_NetShare, NW_Edid, NW_Spd
Gather ==
    /\ hpc = "gather"
    /\ \E t \in Malloc(live) :
        /\ fresh' = t
        /\ live' = live \cup {t}
    /\ hpc' = IF job = "DISPLAY" THEN "loading" ELSE "acquire"
    /\ UNCHANGED <<uiVars, queueVars, workerVars, job, slot, old, slots, initDone, lock>>

\* update_spd under MAIN_SMBUS_SPD shows no SPD data.
GatherNothing ==
    /\ hpc = "gather" /\ job = "SPD"
    /\ hpc' = "acquire"
    /\ UNCHANGED <<uiVars, queueVars, workerVars, job, slot, fresh, old, heapVars, initDone, lock>>

\* The GPU sensor provider makes the list when there is none.
GatherInitGpu ==
    /\ hpc = "gather" /\ slot = "sensors" /\ slots["gpu"] = NULL
    /\ \E g \in Malloc(live) :
        /\ slots' = [slots EXCEPT !["gpu"] = g]
        /\ live' = live \cup {g}
    /\ UNCHANGED <<uiVars, queueVars, workerVars, handlerVars, initDone, lock>>

\* NWL_ErrExit when the nodes of a tree cannot be allocated: the handler shows the
\* message box of gnwinfo_ctx_error_callback, whose owner is the window of the UI thread.
ErrorBox ==
    /\ hpc = "gather"
    /\ hpc' = "box"
    /\ UNCHANGED <<uiVars, queueVars, workerVars, job, slot, fresh, old, heapVars, initDone, lock>>

\* The user answers the box and NWL_ErrExit ends the process.  A box of the update thread
\* needs the thread of its owner to take messages; one of the UI thread takes its own.
AnswerBox ==
    /\ hpc = "box"
    /\ Threaded => ui \in {"pump", "dialog"} /\ Idle
    /\ ui' = "aborted"
    /\ lock' = "none"
    /\ UNCHANGED <<callVars, windowVars, engineVars, initDone>>

Acquire ==
    /\ hpc = "acquire" /\ lock = "none"
    /\ lock' = Runner
    /\ hpc' = "swap"
    /\ UNCHANGED <<uiVars, queueVars, workerVars, job, slot, fresh, old, heapVars, initDone>>

Swap_KeepGpu ==
    /\ hpc = "swap"
    /\ old' = slots[slot]
    /\ slots' = [slots EXCEPT ![slot] = fresh]
    /\ live' = IF job = "DISPLAY" THEN live \ {slots["gpu"]} ELSE live
    /\ fresh' = NULL
    /\ lock' = "none"
    /\ hpc' = IF job = "DISPLAY" THEN "gpu" ELSE "free"
    /\ UNCHANGED <<uiVars, queueVars, workerVars, job, slot, initDone>>

\* The display handler also frees the GPU list here, under the lock.
Swap ==
    /\ hpc = "swap"
    /\ old' = slots[slot]
    /\ slots' = [s \in Slots |-> IF s = slot THEN fresh
                                 ELSE IF s = "gpu" /\ job = "DISPLAY" THEN NULL
                                 ELSE slots[s]]
    /\ live' = IF job = "DISPLAY" THEN live \ {slots["gpu"]} ELSE live
    /\ fresh' = NULL
    /\ lock' = "none"
    /\ hpc' = IF job = "DISPLAY" THEN "gpu" ELSE "free"
    /\ UNCHANGED <<uiVars, queueVars, workerVars, job, slot, initDone>>

\* g_ctx.lib.NwGpu = NWL_InitGpu(), without the lock; it may return NULL.
StoreGpu ==
    /\ hpc = "gpu"
    /\ \/ \E g \in Malloc(live) :
            /\ slots' = [slots EXCEPT !["gpu"] = g]
            /\ live' = live \cup {g}
       \/ UNCHANGED heapVars
    /\ hpc' = "free"
    /\ UNCHANGED <<uiVars, queueVars, workerVars, job, slot, fresh, old, initDone, lock>>

\* NWL_NodeFree of the tree that was replaced
FreeOld ==
    /\ hpc = "free"
    /\ live' = live \ {old}
    /\ old' = NULL
    /\ hpc' = "none"
    /\ job' = "none"
    /\ slot' = "none"
    /\ UNCHANGED <<uiVars, queueVars, workerVars, fresh, slots, initDone, lock>>

----------------------------------------------------------------------------
UpdateCall ==
    \/ \E j \in Jobs : PostRequest(j)
    \/ SignalWorker
    \/ \E j \in Jobs : RunOnCaller(j)

Message ==
    \/ \E j \in Jobs : RequestMessage(j)
    \/ TrayExit \/ OpenMenu \/ MenuRead \/ CloseWindow \/ AnswerBox

Frame ==
    \/ EndInput \/ BeginDraw \/ ClickRefresh \/ ClickView \/ ClickClose
    \/ OpenDialog \/ CloseDialog \/ EndDraw

Exit == BeginExit \/ SignalStop \/ Join \/ FreeAll \/ DestroyWindow

UpdateThread == WakeUpdate \/ WakeStop \/ TakeMask \/ Drained

Handler ==
    \/ \E j \in Jobs : StartHandler(j)
    \/ MaskDone \/ ReadView \/ BeginLoading \/ ReadFlags
    \/ Gather \/ GatherNothing \/ GatherInitGpu \/ ErrorBox
    \/ Acquire \/ Swap \/ StoreGpu \/ FreeOld

\* Without a thread a request made inside a frame waits for the lock that frame holds,
\* for ever (context.c:260).
WaitsForItself ==
    /\ ~Threaded /\ lock = "ui" /\ hpc \in {"view", "flags", "acquire"}
    /\ UNCHANGED vars

\* The UI thread waits for the update thread without taking messages (context.c:411), and
\* the message box of the update thread waits for the UI thread (context.c:40).
WaitsForBox ==
    /\ ui = "join" /\ hpc = "box"
    /\ UNCHANGED vars

Terminated == ui \in {"done", "aborted"} /\ UNCHANGED vars

Next ==
    \/ UpdateCall \/ FinishInit \/ Message \/ Frame \/ Exit
    \/ UpdateThread \/ Handler \/ WaitsForItself \/ WaitsForBox \/ Terminated

Spec == Init /\ [][Next]_vars

\* Every thread goes on with what it has begun; a waiter for the lock, which is
\* free again and again, gets it in the end, and the message queue is empty
\* again and again.  The calls a handler makes return, but one.  The user owes
\* nothing: dialogs and the message box may stay open and no request has to arrive.
Fairness ==
    /\ WF_vars(UpdateCall)
    /\ WF_vars(MenuRead)
    /\ WF_vars(FinishInit)
    /\ SF_vars(EndInput)
    /\ SF_vars(BeginDraw)
    /\ WF_vars(EndDraw)
    /\ WF_vars(Exit)
    /\ WF_vars(UpdateThread)
    /\ WF_vars(Handler)
    /\ SF_vars(ReadView)
    /\ SF_vars(ReadFlags)
    /\ SF_vars(Acquire)

FairSpec == Spec /\ Fairness

----------------------------------------------------------------------------
\* Every variable holds a value of its kind.
TypeOK ==
    /\ ui \in {"init", "pump", "frame", "draw", "drawn", "dialog", "aborted"} \cup Exiting
    /\ calls \subseteq Jobs
    /\ signal \in BOOLEAN
    /\ menuRef \in Pointers
    /\ running \in BOOLEAN
    /\ quit \in BOOLEAN
    /\ exitPending \in BOOLEAN
    /\ window \in {"open", "destroyed"}
    /\ timers \in BOOLEAN
    /\ view \in {"summary", "sensor"}
    /\ initDone \in BOOLEAN
    /\ mask \subseteq Jobs
    /\ updateEvent \in BOOLEAN
    /\ stopEvent \in BOOLEAN
    /\ worker \in {"none", "wait", "drain", "done"}
    /\ inRun \in BOOLEAN
    /\ todo \subseteq Jobs
    /\ hpc \in {"none", "view", "loading", "flags", "gather", "box", "acquire", "swap", "gpu", "free"}
    /\ job \in Jobs \cup {"none"}
    /\ slot \in (Slots \ {"gpu"}) \cup {"none"}
    /\ fresh \in Pointers
    /\ old \in Pointers
    /\ lock \in {"none", "ui", "worker"}
    /\ slots \in [Slots -> Pointers]
    /\ live \subseteq Trees

(* Heap discipline of context.c.                                            *)

\* No pointer dangles, no tree has two owners.
OneOwner ==
    /\ \A s \in Slots : slots[s] # NULL =>
        /\ slots[s] \in live
        /\ slots[s] \notin {fresh, old}
        /\ \A r \in Slots \ {s} : slots[r] # slots[s]
    /\ fresh # NULL => fresh \in live /\ fresh # old
    /\ old # NULL => old \in live

\* Every allocated tree can still be reached by somebody who will free it.
NoLeak == live \subseteq { slots[s] : s \in Slots } \cup {fresh, old}

\* Until ctx_exit has freed the trees each has exactly one owner, so none is
\* freed twice, used after free or leaked by a swap; afterwards none is left.
HeapOwned == IF ui \in {"destroy", "done"} THEN live = {} ELSE OneOwner /\ NoLeak

\* What a frame reads under the lock stays where it is and stays allocated; only
\* an absent GPU list may appear (update_display and the sensors store it unlocked).
DrawSeesStableTrees ==
    [][lock = "ui" /\ lock' = "ui" =>
        \A s \in Slots : slots[s] # NULL => slots'[s] = slots[s] /\ slots[s] \in live']_vars

\* A bit set in update_mask is never left behind with the update thread asleep
\* and nobody about to wake it (InterlockedOr before SetEvent, auto-reset event).
NoLostWakeup == mask # {} /\ worker = "wait" => updateEvent \/ signal

\* When ctx_exit frees the trees the update thread has ended, no handler is under
\* way, and every request posted before the exit has been served.
ExitServesAll ==
    ui \in {"free", "destroy", "done"} =>
        worker \in {"done", "none"} /\ mask = {} /\ ~inRun /\ todo = {} /\ fresh = NULL /\ old = NULL

\* The toolbar (refresh, view switch, report) is hidden while a disk, SPD or
\* display update is replacing its data.
ToolbarHidden ==
    initDone => ~ \/ job \in {"DISK", "SPD"} /\ hpc \in {"flags", "gather", "box", "acquire", "swap", "free"}
                  \/ job = "DISPLAY" /\ hpc \in {"acquire", "swap", "gpu", "free"}

\* A menu opened while a dialog holds the frame's lock reads a live tree.
LockedMenuSafe == lock = "ui" /\ menuRef # NULL => menuRef \in live

(* The abstract queue this implements when there is an update thread.       *)
Queue == INSTANCE UpdateQueue WITH
    pending <- mask,
    batch <- todo,
    serving <- IF hpc = "none" THEN {} ELSE {job},
    accepting <- ui \notin Exiting,
    stopped <- worker = "done"

\* Mask, event and handler table together are the queue UpdateQueue promises.
ImplementsQueue == Queue!Spec

(* Liveness, as long as the user does not leave a dialog open for ever, and *)
(* up to the end of the program for want of memory.                         *)
DialogsClose == []<>(ui # "dialog")
OutOfMemory == hpc = "box"

\* Every request put in update_mask has its handler run.
RequestServed ==
    DialogsClose => \A j \in Jobs : (j \in mask ~> (job = j /\ hpc # "none") \/ OutOfMemory)

\* Once requests stop arriving the "loading" state ends and does not come back.
LoadingEnds ==
    DialogsClose /\ <>[](calls = {} /\ ~signal) => <>[](initDone \/ ui \in Exiting \/ OutOfMemory)

\* Exit requested from the tray, the close button or WM_CLOSE ends the program, if no
\* handler runs out of memory: the update thread always comes to the end of its queue and
\* sees the stop event.  One that has run out of memory may hold up the join for ever: its
\* message box is owned by the window of the thread that waits for it (WaitsForBox).
ExitTerminates == DialogsClose => (exitPending \/ quit ~> ui = "done" \/ OutOfMemory)

================================================================================
