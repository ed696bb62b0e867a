---------------------------- MODULE GuiUpdateProofs ----------------------------
(****************************************************************************)
(* Proofs, for every set of timers, every heap and with or without an       *)
(* update thread, of the type invariant and the safety properties of        *)
(* GuiUpdate.                                                               *)
(****************************************************************************)
EXTENDS GuiUpdate, TLAPS

\* Whether there is an update thread is to be seen from where it is.
USE DEF Threaded

InFrame == ui \in {"draw", "drawn", "dialog"}

\* Who is where: a handler runs inside run_mask, run_mask on the thread that
\* owns the work, and nothing of it outlives the exit.
ThreadShape ==
    /\ MayFail \/ Threaded
    /\ inRun => IF Threaded THEN worker = "drain" ELSE ui \notin Exiting
    /\ todo # {} => inRun
    /\ hpc # "none" => inRun /\ slot # "none"

\* What the two locals of a handler hold at each of its steps.
HandlerShape ==
    /\ hpc \in {"none", "view", "flags", "gather", "gpu", "free"} => fresh = NULL
    /\ hpc = "loading" /\ job # "DISPLAY" => fresh = NULL
    /\ hpc \notin {"gpu", "free"} => old = NULL
    /\ hpc = "gpu" => job = "DISPLAY" /\ slots["gpu"] = NULL
    /\ hpc = "view" => job = "1S"

\* The frame and the swap each hold the lock, never together.
LockShape ==
    /\ InFrame => lock = "ui" /\ hpc # "swap"
    /\ hpc = "swap" => lock = Runner
    /\ lock = "ui" => InFrame \/ hpc = "swap"

\* The exit sequence, and what must be over at each of its steps.
ExitShape ==
    /\ ui \in Exiting => calls = {} /\ ~signal /\ menuRef = NULL
    /\ stopEvent => ui \in {"join", "free", "destroy", "done"}
    /\ worker = "done" => stopEvent /\ mask = {}
    /\ ui \in {"free", "destroy", "done"} => worker \in {"done", "none"}
    /\ ~Threaded => mask = {}
    /\ NoLostWakeup

Shape == TypeOK /\ ThreadShape /\ HandlerShape /\ LockShape /\ ExitShape

IInv == Shape /\ HeapOwned

----------------------------------------------------------------------------
(* Types.                                                                   *)

\* The names in g_update_table.
LEMMA JobNames == JobName = {"1S", "1M", "DISK", "DISPLAY", "POWER", "SMB", "SPD"}
  BY DEF JobName, JobTable

\* No handler swaps the GPU list the way it swaps its own tree.
LEMMA SlotTyping == \A j \in Jobs : SlotOf(j) \in Slots \ {"gpu"} /\ SlotOf(j) # "none"
  BY JobNames, JobsAssumption DEF SlotOf, Slots

\* The initial state has the right types.
LEMMA TypeInit == Init => TypeOK
  BY MayFailAssumption DEF Init, TypeOK, InitCalls, Pointers, Slots

\* Every step keeps the types.
LEMMA TypeStep == TypeOK /\ ThreadShape /\ [Next]_vars => TypeOK'
<1> SUFFICES ASSUME TypeOK, ThreadShape, [Next]_vars PROVE TypeOK'
  OBVIOUS
<1> USE DEF TypeOK, Pointers, Exiting, callVars, windowVars, uiVars, queueVars, workerVars, handlerVars, heapVars, engineVars
<1>1. CASE UpdateCall
  <2>1. ASSUME NEW j \in Jobs, PostRequest(j) PROVE TypeOK'
    BY <2>1 DEF PostRequest
  <2>2. CASE SignalWorker
    <3>1. signal' \in BOOLEAN
      BY <2>2, Zenon DEF SignalWorker
    <3> QED
      BY <2>2, <3>1 DEF SignalWorker
  <2>3. ASSUME NEW j \in Jobs, RunOnCaller(j) PROVE TypeOK'
    BY <2>3 DEF RunOnCaller
  <2> QED
    BY <1>1, <2>1, <2>2, <2>3 DEF UpdateCall
<1>2. CASE FinishInit
  <2>1. initDone' \in BOOLEAN
    BY <1>2, Zenon DEF FinishInit
  <2> QED
    BY <1>2, <2>1 DEF FinishInit
<1>3. CASE Message
  <2>1. ASSUME NEW j \in Jobs, RequestMessage(j) PROVE TypeOK'
    BY <2>1 DEF RequestMessage
  <2>2. CASE TrayExit
    BY <2>2 DEF TrayExit
  <2>3. CASE OpenMenu
    BY <2>3 DEF OpenMenu, Slots
  <2>4. CASE MenuRead
    BY <2>4 DEF MenuRead
  <2>5. CASE CloseWindow
    <3>1. timers' \in BOOLEAN
      BY <2>5, Zenon DEF CloseWindow
    <3> QED
      BY <2>5, <3>1 DEF CloseWindow
  <2>6. CASE AnswerBox
    BY <2>6 DEF AnswerBox
  <2> QED
    BY <1>3, <2>1, <2>2, <2>3, <2>4, <2>5, <2>6 DEF Message
<1>4. CASE Frame
  <2>1. CASE EndInput
    <3>1. running' \in BOOLEAN
      BY <2>1, Zenon DEF EndInput
    <3> QED
      BY <2>1, <3>1 DEF EndInput
  <2>2. CASE BeginDraw
    BY <2>2 DEF BeginDraw
  <2>3. CASE ClickRefresh
    BY <2>3 DEF ClickRefresh, RefreshCalls
  <2>4. CASE ClickView
    BY <2>4 DEF ClickView
  <2>5. CASE ClickClose
    BY <2>5 DEF ClickClose
  <2>6. CASE OpenDialog
    BY <2>6 DEF OpenDialog
  <2>7. CASE CloseDialog
    BY <2>7 DEF CloseDialog
  <2>8. CASE EndDraw
    BY <2>8 DEF EndDraw
  <2> QED
    BY <1>4, <2>1, <2>2, <2>3, <2>4, <2>5, <2>6, <2>7, <2>8 DEF Frame
<1>5. CASE Exit
  <2>1. CASE BeginExit
    <3>1. timers' \in BOOLEAN
      BY <2>1, Zenon DEF BeginExit
    <3> QED
      BY <2>1, <3>1 DEF BeginExit
  <2>2. CASE SignalStop
    BY <2>2 DEF SignalStop
  <2>3. CASE Join
    BY <2>3 DEF Join
  <2>4. CASE FreeAll
    BY <2>4 DEF FreeAll
  <2>5. CASE DestroyWindow
    BY <2>5 DEF DestroyWindow
  <2> QED
    BY <1>5, <2>1, <2>2, <2>3, <2>4, <2>5 DEF Exit
<1>6. CASE UpdateThread
  <2>1. CASE WakeUpdate
    <3>1. updateEvent' \in BOOLEAN
      BY <2>1, Zenon DEF WakeUpdate
    <3> QED
      BY <2>1, <3>1 DEF WakeUpdate
  <2>2. CASE WakeStop
    BY <2>2 DEF WakeStop
  <2>3. CASE TakeMask
    BY <2>3 DEF TakeMask
  <2>4. CASE Drained
    BY <2>4 DEF Drained
  <2> QED
    BY <1>6, <2>1, <2>2, <2>3, <2>4 DEF UpdateThread
<1>7. CASE Handler
  <2>1. ASSUME NEW j \in Jobs, StartHandler(j) PROVE TypeOK'
    BY <2>1, SlotTyping DEF StartHandler
  <2>2. CASE MaskDone
    <3>1. inRun' \in BOOLEAN
      BY <2>2, Zenon DEF MaskDone
    <3> QED
      BY <2>2, <3>1 DEF MaskDone
  <2>3. CASE BeginLoading
    <3>1. initDone' \in BOOLEAN
      BY <2>3, Zenon DEF BeginLoading
    <3> QED
      BY <2>3, <3>1 DEF BeginLoading
  <2>4. CASE ReadView \/ ReadFlags
    BY <2>4 DEF ReadView, ReadFlags, Slots
  <2>5. CASE Gather \/ GatherNothing
    BY <2>5, MallocAssumption DEF Gather, GatherNothing
  <2>6. CASE GatherInitGpu
    <3> PICK g \in Malloc(live) : slots' = [slots EXCEPT !["gpu"] = g] /\ live' = live \cup {g}
      BY <2>6 DEF GatherInitGpu
    <3>1. g \in Trees
      BY MallocAssumption
    <3>2. slots' \in [Slots -> Pointers]
      BY <3>1
    <3> QED
      BY <2>6, <3>1, <3>2 DEF GatherInitGpu
  <2>7. CASE Acquire
    BY <2>7 DEF Acquire, Runner
  <2>8. CASE Swap
    <3>1. slots' \in [Slots -> Pointers]
      BY <2>8 DEF Swap
    <3>2. slot \in Slots
      BY <2>8 DEF Swap, ThreadShape
    <3>3. old' \in Pointers
      BY <2>8, <3>2 DEF Swap
    <3> QED
      BY <2>8, <3>1, <3>3 DEF Swap
  <2>9. CASE StoreGpu
    BY <2>9, MallocAssumption DEF StoreGpu
  <2>10. CASE FreeOld
    BY <2>10 DEF FreeOld
  <2>11. CASE ErrorBox
    BY <2>11 DEF ErrorBox
  <2> QED
    BY <1>7, <2>1, <2>2, <2>3, <2>4, <2>5, <2>6, <2>7, <2>8, <2>9, <2>10, <2>11 DEF Handler
<1>8. CASE WaitsForItself \/ WaitsForBox \/ Terminated \/ UNCHANGED vars
  BY <1>8 DEF WaitsForItself, WaitsForBox, Terminated, vars
<1> QED
  BY <1>1, <1>2, <1>3, <1>4, <1>5, <1>6, <1>7, <1>8 DEF Next

\* Every step keeps what is known of the threads: run_mask runs on Runner alone.
LEMMA ThreadStep == Shape /\ [Next]_vars => ThreadShape'
<1> SUFFICES ASSUME Shape, [Next]_vars PROVE ThreadShape'
  OBVIOUS
<1> USE DEF Shape, TypeOK, ThreadShape, Exiting, callVars, windowVars, uiVars, queueVars, workerVars, handlerVars, heapVars, engineVars
<1>1. CASE UpdateCall
  BY <1>1 DEF UpdateCall, PostRequest, SignalWorker, RunOnCaller, ExitShape, NextCall, FirstIn
<1>2. CASE FinishInit
  BY <1>2 DEF FinishInit
<1>3. CASE Message
  BY <1>3 DEF Message, RequestMessage, TrayExit, OpenMenu, MenuRead, CloseWindow, AnswerBox
<1>4. CASE Frame
  BY <1>4 DEF Frame, EndInput, BeginDraw, ClickRefresh, ClickView, ClickClose, OpenDialog, CloseDialog, EndDraw, Idle
<1>5. CASE Exit
  BY <1>5 DEF Exit, BeginExit, SignalStop, Join, FreeAll, DestroyWindow
<1>6. CASE UpdateThread
  BY <1>6 DEF UpdateThread, WakeUpdate, WakeStop, TakeMask, Drained
<1>7. CASE Handler
  <2>1. ASSUME NEW j \in Jobs, StartHandler(j) PROVE ThreadShape'
    BY <2>1, SlotTyping DEF StartHandler
  <2>2. CASE MaskDone
    BY <2>2 DEF MaskDone
  <2>3. CASE ReadView
    BY <2>3 DEF ReadView
  <2>4. CASE BeginLoading
    BY <2>4 DEF BeginLoading
  <2>5. CASE ReadFlags
    BY <2>5 DEF ReadFlags
  <2>6. CASE Gather
    BY <2>6 DEF Gather
  <2>7. CASE GatherNothing
    BY <2>7 DEF GatherNothing
  <2>8. CASE GatherInitGpu
    BY <2>8 DEF GatherInitGpu
  <2>9. CASE Acquire
    BY <2>9 DEF Acquire
  <2>10. CASE Swap
    BY <2>10 DEF Swap
  <2>11. CASE StoreGpu
    BY <2>11 DEF StoreGpu
  <2>12. CASE FreeOld
    BY <2>12 DEF FreeOld
  <2>13. CASE ErrorBox
    BY <2>13 DEF ErrorBox
  <2> QED
    BY <1>7, <2>1, <2>2, <2>3, <2>4, <2>5, <2>6, <2>7, <2>8, <2>9, <2>10, <2>11, <2>12, <2>13 DEF Handler
<1>8. CASE WaitsForItself \/ WaitsForBox \/ Terminated \/ UNCHANGED vars
  BY <1>8 DEF WaitsForItself, WaitsForBox, Terminated, vars
<1> QED
  BY <1>1, <1>2, <1>3, <1>4, <1>5, <1>6, <1>7, <1>8 DEF Next

\* Every step keeps what is known of a handler: what it holds at each point.
LEMMA HandlerStep == Shape /\ [Next]_vars => HandlerShape'
<1> SUFFICES ASSUME Shape, [Next]_vars PROVE HandlerShape'
  OBVIOUS
<1> USE DEF Shape, TypeOK, ThreadShape, HandlerShape, LockShape, Slots, callVars, windowVars, uiVars, queueVars, workerVars, handlerVars, heapVars, engineVars
<1>1. CASE UpdateCall
  BY <1>1 DEF UpdateCall, PostRequest, SignalWorker, RunOnCaller, Idle
<1>2. CASE FinishInit
  BY <1>2 DEF FinishInit
<1>3. CASE Message
  BY <1>3 DEF Message, RequestMessage, TrayExit, OpenMenu, MenuRead, CloseWindow, AnswerBox
<1>4. CASE Frame
  BY <1>4 DEF Frame, EndInput, BeginDraw, ClickRefresh, ClickView, ClickClose, OpenDialog, CloseDialog, EndDraw
<1>5. CASE Exit
  BY <1>5 DEF Exit, BeginExit, SignalStop, Join, FreeAll, DestroyWindow
<1>6. CASE UpdateThread
  BY <1>6 DEF UpdateThread, WakeUpdate, WakeStop, TakeMask, Drained
<1>7. CASE Handler
  <2>1. ASSUME NEW j \in Jobs, StartHandler(j) PROVE HandlerShape'
    BY <2>1 DEF StartHandler
  <2>2. CASE MaskDone
    BY <2>2 DEF MaskDone
  <2>3. CASE ReadView
    BY <2>3 DEF ReadView
  <2>4. CASE BeginLoading
    BY <2>4 DEF BeginLoading
  <2>5. CASE ReadFlags
    BY <2>5 DEF ReadFlags
  <2>6. CASE Gather
    BY <2>6 DEF Gather
  <2>7. CASE GatherNothing
    BY <2>7 DEF GatherNothing
  <2>8. CASE GatherInitGpu
    BY <2>8 DEF GatherInitGpu
  <2>9. CASE Acquire
    BY <2>9 DEF Acquire
  <2>10. CASE Swap
    BY <2>10 DEF Swap
  <2>11. CASE StoreGpu
    BY <2>11 DEF StoreGpu
  <2>12. CASE FreeOld
    BY <2>12 DEF FreeOld
  <2>13. CASE ErrorBox
    BY <2>13 DEF ErrorBox
  <2> QED
    BY <1>7, <2>1, <2>2, <2>3, <2>4, <2>5, <2>6, <2>7, <2>8, <2>9, <2>10, <2>11, <2>12, <2>13 DEF Handler
<1>8. CASE WaitsForItself \/ WaitsForBox \/ Terminated \/ UNCHANGED vars
  BY <1>8 DEF WaitsForItself, WaitsForBox, Terminated, vars
<1> QED
  BY <1>1, <1>2, <1>3, <1>4, <1>5, <1>6, <1>7, <1>8 DEF Next

\* Every step keeps the owner of the lock and the places where it is held in step.
LEMMA LockStep == Shape /\ [Next]_vars => LockShape'
<1> SUFFICES ASSUME Shape, [Next]_vars PROVE LockShape'
  OBVIOUS
<1> USE DEF Shape, TypeOK, ThreadShape, LockShape, InFrame, Exiting, Runner, callVars, windowVars, uiVars, queueVars, workerVars, handlerVars, heapVars, engineVars
<1>1. CASE UpdateCall
  BY <1>1 DEF UpdateCall, PostRequest, SignalWorker, RunOnCaller
<1>2. CASE FinishInit
  BY <1>2 DEF FinishInit
<1>3. CASE Message
  BY <1>3 DEF Message, RequestMessage, TrayExit, OpenMenu, MenuRead, CloseWindow, AnswerBox
<1>4. CASE Frame
  BY <1>4 DEF Frame, EndInput, BeginDraw, ClickRefresh, ClickView, ClickClose, OpenDialog, CloseDialog, EndDraw
<1>5. CASE Exit
  BY <1>5 DEF Exit, BeginExit, SignalStop, Join, FreeAll, DestroyWindow
<1>6. CASE UpdateThread
  BY <1>6 DEF UpdateThread, WakeUpdate, WakeStop, TakeMask, Drained
<1>7. CASE Handler
  <2>1. ASSUME NEW j \in Jobs, StartHandler(j) PROVE LockShape'
    BY <2>1 DEF StartHandler
  <2>2. CASE MaskDone
    BY <2>2 DEF MaskDone
  <2>3. CASE ReadView
    BY <2>3 DEF ReadView
  <2>4. CASE BeginLoading
    BY <2>4 DEF BeginLoading
  <2>5. CASE ReadFlags
    BY <2>5 DEF ReadFlags
  <2>6. CASE Gather
    BY <2>6 DEF Gather
  <2>7. CASE GatherNothing
    BY <2>7 DEF GatherNothing
  <2>8. CASE GatherInitGpu
    BY <2>8 DEF GatherInitGpu
  <2>9. CASE Acquire
    BY <2>9 DEF Acquire
  <2>10. CASE Swap
    BY <2>10 DEF Swap
  <2>11. CASE StoreGpu
    BY <2>11 DEF StoreGpu
  <2>12. CASE FreeOld
    BY <2>12 DEF FreeOld
  <2>13. CASE ErrorBox
    BY <2>13 DEF ErrorBox
  <2> QED
    BY <1>7, <2>1, <2>2, <2>3, <2>4, <2>5, <2>6, <2>7, <2>8, <2>9, <2>10, <2>11, <2>12, <2>13 DEF Handler
<1>8. CASE WaitsForItself \/ WaitsForBox \/ Terminated \/ UNCHANGED vars
  BY <1>8 DEF WaitsForItself, WaitsForBox, Terminated, vars
<1> QED
  BY <1>1, <1>2, <1>3, <1>4, <1>5, <1>6, <1>7, <1>8 DEF Next

\* Every step of gnwinfo_ctx_exit finds what its predecessors left.
LEMMA ExitStep == Shape /\ [Next]_vars => ExitShape'
<1> SUFFICES ASSUME Shape, [Next]_vars PROVE ExitShape'
  OBVIOUS
<1> USE DEF Shape, TypeOK, ThreadShape, ExitShape, NoLostWakeup, Exiting, callVars, windowVars, uiVars, queueVars, workerVars, handlerVars, heapVars, engineVars
<1>1. CASE UpdateCall
  <2>1. ASSUME NEW j \in Jobs, PostRequest(j) PROVE ExitShape'
    BY <2>1 DEF PostRequest, NextCall, FirstIn
  <2>2. CASE SignalWorker
    BY <2>2 DEF SignalWorker
  <2>3. ASSUME NEW j \in Jobs, RunOnCaller(j) PROVE ExitShape'
    BY <2>3 DEF RunOnCaller, NextCall, FirstIn
  <2> QED
    BY <1>1, <2>1, <2>2, <2>3 DEF UpdateCall
<1>2. CASE FinishInit
  BY <1>2 DEF FinishInit
<1>3. CASE Message
  BY <1>3 DEF Message, RequestMessage, Dispatching, Idle, TrayExit, OpenMenu, MenuRead, CloseWindow, AnswerBox
<1>4. CASE Frame
  BY <1>4 DEF Frame, EndInput, Idle, BeginDraw, ClickRefresh, RefreshCalls, ClickView, ClickClose, OpenDialog, CloseDialog, EndDraw
<1>5. CASE Exit
  <2>1. CASE BeginExit
    BY <2>1 DEF BeginExit
  <2>2. CASE SignalStop
    BY <2>2 DEF SignalStop
  <2>3. CASE Join
    BY <2>3 DEF Join
  <2>4. CASE FreeAll
    BY <2>4 DEF FreeAll
  <2>5. CASE DestroyWindow
    BY <2>5 DEF DestroyWindow
  <2> QED
    BY <1>5, <2>1, <2>2, <2>3, <2>4, <2>5 DEF Exit
<1>6. CASE UpdateThread
  <2>1. CASE WakeUpdate
    BY <2>1 DEF WakeUpdate
  <2>2. CASE WakeStop
    BY <2>2 DEF WakeStop
  <2>3. CASE TakeMask
    BY <2>3 DEF TakeMask
  <2>4. CASE Drained
    BY <2>4 DEF Drained
  <2> QED
    BY <1>6, <2>1, <2>2, <2>3, <2>4 DEF UpdateThread
<1>7. CASE Handler
  <2>1. ASSUME NEW j \in Jobs, StartHandler(j) PROVE ExitShape'
    BY <2>1 DEF StartHandler
  <2>2. CASE MaskDone
    BY <2>2 DEF MaskDone
  <2>3. CASE ReadView
    BY <2>3 DEF ReadView
  <2>4. CASE BeginLoading
    BY <2>4 DEF BeginLoading
  <2>5. CASE ReadFlags
    BY <2>5 DEF ReadFlags
  <2>6. CASE Gather
    BY <2>6 DEF Gather
  <2>7. CASE GatherNothing
    BY <2>7 DEF GatherNothing
  <2>8. CASE GatherInitGpu
    BY <2>8 DEF GatherInitGpu
  <2>9. CASE Acquire
    BY <2>9 DEF Acquire
  <2>10. CASE Swap
    BY <2>10 DEF Swap
  <2>11. CASE StoreGpu
    BY <2>11 DEF StoreGpu
  <2>12. CASE FreeOld
    BY <2>12 DEF FreeOld
  <2>13. CASE ErrorBox
    BY <2>13 DEF ErrorBox
  <2> QED
    BY <1>7, <2>1, <2>2, <2>3, <2>4, <2>5, <2>6, <2>7, <2>8, <2>9, <2>10, <2>11, <2>12, <2>13 DEF Handler
<1>8. CASE WaitsForItself \/ WaitsForBox \/ Terminated \/ UNCHANGED vars
  BY <1>8 DEF WaitsForItself, WaitsForBox, Terminated, vars
<1> QED
  BY <1>1, <1>2, <1>3, <1>4, <1>5, <1>6, <1>7, <1>8 DEF Next

----------------------------------------------------------------------------
(* The heap.                                                                *)

\* While run_mask runs, ctx_exit has not come to freeing anything.
LEMMA RunBeforeFree == Shape /\ inRun => ui \notin {"free", "destroy", "done"}
  BY DEF Shape, ThreadShape, ExitShape, Exiting

\* Every step gives each tree exactly one owner, and none once ctx_exit has freed them.
LEMMA HeapStep == Shape /\ HeapOwned /\ [Next]_vars => HeapOwned'
<1> SUFFICES ASSUME Shape, HeapOwned, [Next]_vars PROVE HeapOwned'
  OBVIOUS
<1> USE DEF HeapOwned, OneOwner, NoLeak, callVars, windowVars, uiVars, queueVars, workerVars, handlerVars, heapVars, engineVars
<1>1. CASE UpdateCall
  BY <1>1 DEF UpdateCall, PostRequest, SignalWorker, RunOnCaller
<1>2. CASE FinishInit
  BY <1>2 DEF FinishInit
<1>3. CASE Message
  <2>1. ASSUME AnswerBox PROVE HeapOwned'
    <3>1. ui \notin {"destroy", "done"} /\ ui' = "aborted" /\ UNCHANGED <<slots, live, fresh, old>>
      BY <2>1, RunBeforeFree DEF AnswerBox, Shape, ThreadShape
    <3> QED
      BY <3>1
  <2> QED
    BY <1>3, <2>1 DEF Message, RequestMessage, TrayExit, OpenMenu, MenuRead, CloseWindow, Dispatching
<1>4. CASE Frame
  BY <1>4 DEF Frame, EndInput, BeginDraw, ClickRefresh, ClickView, ClickClose, OpenDialog, CloseDialog, EndDraw
<1>5. CASE Exit
  <2>1. CASE BeginExit \/ SignalStop \/ Join \/ DestroyWindow
    BY <2>1 DEF BeginExit, SignalStop, Join, DestroyWindow
  <2>2. CASE FreeAll
    <3>1. fresh = NULL /\ old = NULL
      BY <2>2, RunBeforeFree DEF FreeAll, Shape, ThreadShape, HandlerShape
    <3>2. live \subseteq { slots[s] : s \in Slots } \cup {NULL}
      BY <2>2, <3>1 DEF FreeAll
    <3>3. NULL \notin live
      BY NullAssumption DEF Shape, TypeOK
    <3> QED
      BY <2>2, <3>2, <3>3 DEF FreeAll
  <2> QED
    BY <1>5, <2>1, <2>2 DEF Exit
<1>6. CASE UpdateThread
  BY <1>6 DEF UpdateThread, WakeUpdate, WakeStop, TakeMask, Drained
<1>7. CASE Handler
  <2>1. CASE (\E j \in Jobs : StartHandler(j)) \/ MaskDone \/ ReadView \/ BeginLoading \/ ReadFlags \/ GatherNothing \/ ErrorBox \/ Acquire
    BY <2>1 DEF StartHandler, MaskDone, ReadView, BeginLoading, ReadFlags, GatherNothing, ErrorBox, Acquire
  <2>2. ASSUME hpc # "none" PROVE ui \notin {"destroy", "done"}
    BY <2>2, RunBeforeFree DEF Shape, ThreadShape
  <2>3. CASE Gather
    <3>1. PICK t \in Malloc(live) : fresh' = t /\ live' = live \cup {t}
      BY <2>3 DEF Gather
    <3>2. t \in Trees \ live
      BY MallocAssumption DEF Shape, TypeOK
    <3>3. fresh = NULL /\ old = NULL
      BY <2>3 DEF Gather, Shape, HandlerShape
    <3> QED
      BY <2>2, <2>3, <3>1, <3>2, <3>3, NullAssumption DEF Gather
  <2>4. CASE GatherInitGpu \/ StoreGpu
    <3>1. CASE UNCHANGED <<slots, live>>
      BY <2>2, <2>4, <3>1 DEF GatherInitGpu, StoreGpu
    <3>2. CASE \E g \in Malloc(live) : slots' = [slots EXCEPT !["gpu"] = g] /\ live' = live \cup {g}
      <4>1. PICK g \in Malloc(live) : slots' = [slots EXCEPT !["gpu"] = g] /\ live' = live \cup {g}
        BY <3>2
      <4>2. g \in Trees \ live
        BY MallocAssumption DEF Shape, TypeOK
      <4>3. slots["gpu"] = NULL
        BY <2>4 DEF GatherInitGpu, StoreGpu, Shape, HandlerShape
      <4>4. fresh' = fresh /\ old' = old /\ ui' = ui /\ hpc # "none"
        BY <2>4 DEF GatherInitGpu, StoreGpu
      <4>5. slots \in [Slots -> Pointers] /\ "gpu" \in Slots
        BY DEF Shape, TypeOK, Slots
      <4>6. slots'["gpu"] = g /\ \A s \in Slots \ {"gpu"} : slots'[s] = slots[s]
        BY <4>1, <4>5
      <4>7. OneOwner'
        BY <2>2, <4>1, <4>2, <4>4, <4>6, NullAssumption
      <4>8. NoLeak'
        BY <2>2, <4>1, <4>2, <4>3, <4>4, <4>5, <4>6, NullAssumption DEF Shape, TypeOK
      <4> QED
        BY <2>2, <4>4, <4>7, <4>8
    <3> QED
      BY <2>4, <3>1, <3>2 DEF GatherInitGpu, StoreGpu
  <2>5. CASE Swap
    <3>1. slot \in Slots \ {"gpu"} /\ slots \in [Slots -> Pointers] /\ "gpu" \in Slots
      BY <2>5 DEF Swap, Shape, TypeOK, ThreadShape, Slots
    <3>2. old = NULL /\ OneOwner /\ NoLeak
      BY <2>2, <2>5 DEF Swap, Shape, HandlerShape
    <3>3. ui' = ui /\ hpc # "none" /\ fresh' = NULL /\ old' = slots[slot]
      BY <2>5 DEF Swap
    <3>4. CASE job = "DISPLAY"
      <4>1. live' = live \ {slots["gpu"]} /\ slots'[slot] = fresh /\ slots'["gpu"] = NULL
            /\ \A s \in Slots \ {slot, "gpu"} : slots'[s] = slots[s]
        BY <2>5, <3>1, <3>4 DEF Swap
      <4>2. OneOwner'
        BY <3>1, <3>2, <3>3, <4>1, NullAssumption
      <4>3. NoLeak'
        BY <3>1, <3>2, <3>3, <4>1, NullAssumption DEF Shape, TypeOK
      <4> QED
        BY <2>2, <3>3, <4>2, <4>3
    <3>5. CASE job # "DISPLAY"
      <4>1. live' = live /\ slots'[slot] = fresh
            /\ \A s \in Slots \ {slot} : slots'[s] = slots[s]
        BY <2>5, <3>1, <3>5 DEF Swap
      <4>2. OneOwner'
        BY <3>1, <3>2, <3>3, <4>1, NullAssumption
      <4>3. NoLeak'
        BY <3>1, <3>2, <3>3, <4>1, NullAssumption DEF Shape, TypeOK
      <4> QED
        BY <2>2, <3>3, <4>2, <4>3
    <3> QED
      BY <3>4, <3>5
  <2>6. CASE FreeOld
    <3>1. live' = live \ {old} /\ old' = NULL /\ UNCHANGED <<fresh, slots, ui>> /\ hpc # "none"
      BY <2>6 DEF FreeOld
    <3>2. NULL \notin live
      BY NullAssumption DEF Shape, TypeOK
    <3> QED
      BY <2>2, <3>1, <3>2
  <2> QED
    BY <1>7, <2>1, <2>3, <2>4, <2>5, <2>6 DEF Handler
<1>8. CASE WaitsForItself \/ WaitsForBox \/ Terminated \/ UNCHANGED vars
  BY <1>8 DEF WaitsForItself, WaitsForBox, Terminated, vars
<1> QED
  BY <1>1, <1>2, <1>3, <1>4, <1>5, <1>6, <1>7, <1>8 DEF Next

----------------------------------------------------------------------------
(* The inductive invariant.                                                 *)

\* The invariant holds at the start.
LEMMA InvInit == Init => IInv
<1> SUFFICES ASSUME Init PROVE IInv
  OBVIOUS
<1>1. TypeOK
  BY TypeInit
<1>2. ThreadShape /\ HandlerShape /\ LockShape /\ ExitShape
  BY MayFailAssumption DEF Init, ThreadShape, HandlerShape, LockShape, ExitShape, NoLostWakeup, InFrame, Exiting, Slots
<1>3. HeapOwned
  BY DEF Init, HeapOwned, OneOwner, NoLeak
<1> QED
  BY <1>1, <1>2, <1>3 DEF IInv, Shape

\* The invariant is inductive.
LEMMA InvStep == IInv /\ [Next]_vars => IInv'
  BY TypeStep, ThreadStep, HandlerStep, LockStep, ExitStep, HeapStep DEF IInv, Shape

\* The invariant holds always.
LEMMA Inductive == Spec => []IInv
  BY InvInit, InvStep, PTL DEF Spec

\* Every variable always holds a value of its kind.
THEOREM TypeCorrect == Spec => []TypeOK
<1>1. IInv => TypeOK
  BY DEF IInv, Shape
<1> QED
  BY <1>1, Inductive, PTL

\* No tree of g_ctx is freed twice, used after it was freed, or leaked, whatever
\* the two threads do and whatever addresses the heap hands out.
THEOREM HeapCorrect == Spec => []HeapOwned
<1>1. IInv => HeapOwned
  BY DEF IInv
<1> QED
  BY <1>1, Inductive, PTL

\* The order InterlockedOr, SetEvent loses no request (gnwinfo_ctx_update).
THEOREM WakeupCorrect == Spec => []NoLostWakeup
<1>1. IInv => NoLostWakeup
  BY DEF IInv, Shape, ExitShape
<1> QED
  BY <1>1, Inductive, PTL

\* gnwinfo_ctx_exit frees the trees after everything that was asked for is done.
THEOREM ExitCorrect == Spec => []ExitServesAll
<1>1. ASSUME IInv, ui \in {"free", "destroy", "done"}
      PROVE  worker \in {"done", "none"} /\ mask = {} /\ ~inRun /\ todo = {} /\ fresh = NULL /\ old = NULL
  <2>1. worker \in {"done", "none"} /\ ~inRun /\ todo = {} /\ hpc = "none"
    BY <1>1, RunBeforeFree DEF IInv, Shape, ThreadShape, ExitShape
  <2>2. mask = {}
    BY <1>1, <2>1 DEF IInv, Shape, ThreadShape, ExitShape
  <2> QED
    BY <1>1, <2>1, <2>2 DEF IInv, Shape, HandlerShape
<1>2. IInv => ExitServesAll
  BY <1>1 DEF ExitServesAll
<1> QED
  BY <1>2, Inductive, PTL

----------------------------------------------------------------------------
(* The toolbar, the menu, the frame.                                        *)

\* init_done stays clear from the reset in a handler to the end of the drain.
LEMMA ToolbarStep == Shape /\ ToolbarHidden /\ [Next]_vars => ToolbarHidden'
<1> SUFFICES ASSUME Shape, ToolbarHidden, [Next]_vars PROVE ToolbarHidden'
  OBVIOUS
<1> USE DEF ToolbarHidden, callVars, windowVars, uiVars, queueVars, workerVars, handlerVars, heapVars, engineVars
<1>1. CASE UpdateCall
  BY <1>1 DEF UpdateCall, PostRequest, SignalWorker, RunOnCaller
<1>2. CASE FinishInit
  BY <1>2 DEF FinishInit, Idle, Shape, ThreadShape
<1>3. CASE Message
  BY <1>3 DEF Message, RequestMessage, TrayExit, OpenMenu, MenuRead, CloseWindow, AnswerBox
<1>4. CASE Frame
  BY <1>4 DEF Frame, EndInput, BeginDraw, ClickRefresh, ClickView, ClickClose, OpenDialog, CloseDialog, EndDraw
<1>5. CASE Exit
  BY <1>5 DEF Exit, BeginExit, SignalStop, Join, FreeAll, DestroyWindow
<1>6. CASE UpdateThread
  BY <1>6 DEF UpdateThread, WakeUpdate, WakeStop, TakeMask, Drained, Shape, ThreadShape
<1>7. CASE Handler
  <2>1. ASSUME NEW j \in Jobs, StartHandler(j) PROVE ToolbarHidden'
    BY <2>1 DEF StartHandler
  <2>2. CASE BeginLoading
    BY <2>2 DEF BeginLoading
  <2>3. CASE MaskDone \/ ReadView \/ ReadFlags
    BY <2>3 DEF MaskDone, ReadView, ReadFlags, Shape, HandlerShape
  <2>4. CASE Gather \/ GatherNothing \/ GatherInitGpu \/ ErrorBox
    BY <2>4 DEF Gather, GatherNothing, GatherInitGpu, ErrorBox
  <2>5. CASE Acquire \/ Swap
    BY <2>5 DEF Acquire, Swap
  <2>6. CASE StoreGpu \/ FreeOld
    BY <2>6 DEF StoreGpu, FreeOld, Shape, HandlerShape
  <2> QED
    BY <1>7, <2>1, <2>2, <2>3, <2>4, <2>5, <2>6 DEF Handler
<1>8. CASE WaitsForItself \/ WaitsForBox \/ Terminated \/ UNCHANGED vars
  BY <1>8 DEF WaitsForItself, WaitsForBox, Terminated, vars
<1> QED
  BY <1>1, <1>2, <1>3, <1>4, <1>5, <1>6, <1>7, <1>8 DEF Next

\* No button of the toolbar is drawn while its data is being replaced.
THEOREM ToolbarCorrect == Spec => []ToolbarHidden
<1>1. Init => ToolbarHidden
  BY DEF Init, ToolbarHidden
<1>2. IInv => Shape
  BY DEF IInv
<1> QED
  BY <1>1, <1>2, ToolbarStep, Inductive, PTL DEF Spec

\* The frame holds the lock for all it reads, and the swaps need the lock; the
\* stores of the GPU list, which take no lock, only ever fill an empty field.
LEMMA FrameStep ==
  IInv /\ [Next]_vars =>
    (lock = "ui" /\ lock' = "ui" =>
       \A s \in Slots : slots[s] # NULL => slots'[s] = slots[s] /\ slots[s] \in live')
<1> SUFFICES ASSUME IInv, [Next]_vars, lock = "ui", lock' = "ui", NEW s \in Slots, slots[s] # NULL
             PROVE  slots'[s] = slots[s] /\ slots[s] \in live'
  OBVIOUS
<1> USE DEF callVars, windowVars, uiVars, queueVars, workerVars, handlerVars, heapVars, engineVars
<1>1. ui \notin {"free", "destroy", "done"} /\ OneOwner
  BY RunBeforeFree DEF IInv, Shape, LockShape, InFrame, HeapOwned, ThreadShape
<1>2. slots[s] \in live /\ slots[s] # old
  BY <1>1 DEF OneOwner
<1>3. slots \in [Slots -> Pointers]
  BY DEF IInv, Shape, TypeOK
<1>4. CASE UpdateCall \/ FinishInit \/ WaitsForItself \/ WaitsForBox \/ Terminated \/ UNCHANGED vars
  BY <1>2, <1>4 DEF UpdateCall, PostRequest, SignalWorker, RunOnCaller, FinishInit, WaitsForItself, WaitsForBox, Terminated, vars
<1>5. CASE Message \/ Frame
  BY <1>2, <1>5 DEF Message, RequestMessage, TrayExit, OpenMenu, MenuRead, CloseWindow, AnswerBox, Frame, EndInput, BeginDraw, ClickRefresh, ClickView, ClickClose, OpenDialog, CloseDialog, EndDraw
<1>6. CASE Exit \/ UpdateThread
  BY <1>1, <1>2, <1>6 DEF Exit, BeginExit, SignalStop, Join, FreeAll, DestroyWindow, UpdateThread, WakeUpdate, WakeStop, TakeMask, Drained
<1>7. CASE Handler
  <2>1. CASE (\E j \in Jobs : StartHandler(j)) \/ MaskDone \/ ReadView \/ BeginLoading \/ ReadFlags \/ GatherNothing \/ ErrorBox \/ Acquire
    BY <1>2, <2>1 DEF StartHandler, MaskDone, ReadView, BeginLoading, ReadFlags, GatherNothing, ErrorBox, Acquire
  <2>2. CASE Gather
    BY <1>2, <2>2 DEF Gather
  <2>3. CASE GatherInitGpu \/ StoreGpu
    <3>1. slots["gpu"] = NULL
      BY <2>3 DEF GatherInitGpu, StoreGpu, IInv, Shape, HandlerShape
    <3> QED
      BY <1>2, <1>3, <2>3, <3>1 DEF GatherInitGpu, StoreGpu
  <2>4. CASE Swap
    BY <2>4 DEF Swap
  <2>5. CASE FreeOld
    BY <1>2, <2>5 DEF FreeOld
  <2> QED
    BY <1>7, <2>1, <2>2, <2>3, <2>4, <2>5 DEF Handler
<1> QED
  BY <1>4, <1>5, <1>6, <1>7 DEF Next

\* Nothing a frame reads is replaced or freed before the frame is over.
THEOREM FramesStable == Spec => DrawSeesStableTrees
<1>1. IInv /\ [Next]_vars =>
        [lock = "ui" /\ lock' = "ui" =>
           \A s \in Slots : slots[s] # NULL => slots'[s] = slots[s] /\ slots[s] \in live']_vars
  BY FrameStep
<1> QED
  BY <1>1, Inductive, PTL DEF Spec, DrawSeesStableTrees

----------------------------------------------------------------------------
(* The menu of the notification icon while a dialog holds the lock.         *)

\* While a menu reads the battery tree the UI thread does nothing else.
MenuShape ==
    menuRef # NULL =>
        /\ ui \in {"pump", "dialog"} /\ calls = {} /\ ~signal /\ (Threaded \/ ~inRun)
        /\ lock = "ui" => menuRef = slots["battery"]

\* A menu that a dialog's message loop opened keeps reading an allocated tree.
LEMMA MenuStep == IInv /\ MenuShape /\ [Next]_vars => MenuShape'
<1> SUFFICES ASSUME IInv, MenuShape, [Next]_vars, menuRef' # NULL PROVE MenuShape'
  BY DEF MenuShape
<1> USE DEF MenuShape, callVars, windowVars, uiVars, queueVars, workerVars, handlerVars, heapVars, engineVars
<1>1. CASE OpenMenu
  BY <1>1 DEF OpenMenu, Dispatching, Idle
<1>2. ASSUME menuRef # NULL, menuRef' = menuRef PROVE MenuShape'
  <2>1. ui \in {"pump", "dialog"} /\ calls = {} /\ ~signal /\ (Threaded \/ ~inRun)
    BY <1>2
  <2>2. lock = "ui" => ui = "dialog" /\ hpc # "swap"
    BY <1>2, <2>1 DEF IInv, Shape, LockShape, ThreadShape, InFrame, Runner
  <2>3. CASE UpdateCall \/ FinishInit
    BY <2>1, <2>3 DEF UpdateCall, PostRequest, SignalWorker, RunOnCaller, NextCall, FirstIn, FinishInit, Idle
  <2>4. CASE Message
    BY <1>2, <2>1, <2>4 DEF Message, RequestMessage, TrayExit, OpenMenu, MenuRead, CloseWindow, AnswerBox, Dispatching, Idle, IInv, Shape, ThreadShape
  <2>5. CASE Frame \/ Exit
    BY <1>2, <2>1, <2>5 DEF Frame, EndInput, BeginDraw, ClickRefresh, ClickView, ClickClose, OpenDialog, CloseDialog, EndDraw, Idle, Exit, BeginExit, SignalStop, Join, FreeAll, DestroyWindow
  <2>6. CASE UpdateThread \/ WaitsForItself \/ WaitsForBox \/ Terminated \/ UNCHANGED vars
    BY <1>2, <2>1, <2>6 DEF UpdateThread, WakeUpdate, WakeStop, TakeMask, Drained, WaitsForItself, WaitsForBox, Terminated, vars, IInv, Shape, ThreadShape
  <2>7. CASE Handler
    <3>1. ui' = ui /\ calls' = calls /\ signal' = signal /\ (Threaded \/ ~inRun)'
      BY <2>1, <2>7 DEF Handler, StartHandler, MaskDone, ReadView, BeginLoading, ReadFlags, Gather, GatherNothing, GatherInitGpu, ErrorBox, Acquire, Swap, StoreGpu, FreeOld
    <3>2. lock' = "ui" => lock = "ui" /\ slots'["battery"] = slots["battery"]
      <4>1. CASE Acquire
        BY <2>1, <4>1 DEF Acquire, Runner, IInv, Shape, ThreadShape
      <4>2. CASE Swap
        BY <4>2 DEF Swap
      <4>3. CASE GatherInitGpu \/ StoreGpu
        BY <4>3 DEF GatherInitGpu, StoreGpu, IInv, Shape, TypeOK, Slots
      <4> QED
        BY <2>7, <4>1, <4>2, <4>3 DEF Handler, StartHandler, MaskDone, ReadView, BeginLoading, ReadFlags, Gather, GatherNothing, ErrorBox, FreeOld
    <3> QED
      BY <1>2, <2>1, <3>1, <3>2
  <2> QED
    BY <2>3, <2>4, <2>5, <2>6, <2>7 DEF Next
<1>3. menuRef' = menuRef \/ OpenMenu \/ MenuRead
  BY DEF Next, UpdateCall, PostRequest, SignalWorker, RunOnCaller, FinishInit, Message, RequestMessage, TrayExit, CloseWindow, AnswerBox, Frame, EndInput, BeginDraw, ClickRefresh, ClickView, ClickClose, OpenDialog, CloseDialog, EndDraw, Exit, BeginExit, SignalStop, Join, FreeAll, DestroyWindow, UpdateThread, WakeUpdate, WakeStop, TakeMask, Drained, Handler, StartHandler, MaskDone, ReadView, BeginLoading, ReadFlags, Gather, GatherNothing, GatherInitGpu, ErrorBox, Acquire, Swap, StoreGpu, FreeOld, WaitsForItself, WaitsForBox, Terminated, vars
<1> QED
  BY <1>1, <1>2, <1>3 DEF MenuRead

\* The power menu a dialog's message loop opens reads a tree that stays allocated.
THEOREM MenuCorrect == Spec => []LockedMenuSafe
<1>1. Init => MenuShape
  BY DEF Init, MenuShape
<1>2. IInv /\ MenuShape => LockedMenuSafe
  <2> SUFFICES ASSUME IInv, MenuShape, lock = "ui", menuRef # NULL PROVE menuRef \in live
    BY DEF LockedMenuSafe
  <2>1. menuRef = slots["battery"] /\ ui \notin {"destroy", "done"}
    BY DEF MenuShape
  <2> QED
    BY <2>1 DEF IInv, HeapOwned, OneOwner, Slots
<1> QED
  BY <1>1, <1>2, MenuStep, Inductive, PTL DEF Spec

----------------------------------------------------------------------------
(* The mask, the events and the run loop implement UpdateQueue.             *)

\* The program starts as an empty queue.
LEMMA QueueInit == ~MayFail /\ Init => Queue!Init
  BY DEF Init, Queue!Init, Exiting

\* Every step is a step of the queue or leaves it alone.
LEMMA QueueStep == ~MayFail /\ IInv /\ [Next]_vars => [Queue!Next]_(Queue!qvars)
<1> SUFFICES ASSUME ~MayFail, IInv, [Next]_vars, ~UNCHANGED (Queue!qvars) PROVE Queue!Next
  OBVIOUS
<1> USE DEF IInv, Shape, callVars, windowVars, uiVars, queueVars, workerVars, handlerVars, heapVars, engineVars
<1>1. CASE UpdateCall
  <2>1. ASSUME NEW j \in Jobs, PostRequest(j) PROVE Queue!Request(j)
    <3>1. ui \notin Exiting
      BY <2>1 DEF PostRequest, NextCall, FirstIn, ExitShape
    <3> QED
      BY <2>1, <3>1 DEF PostRequest, Queue!Request
  <2>2. ASSUME NEW j \in Jobs PROVE ~RunOnCaller(j)
    BY DEF RunOnCaller, ThreadShape
  <2>3. CASE SignalWorker
    BY <2>3 DEF SignalWorker, Queue!qvars
  <2> QED
    BY <1>1, <2>1, <2>2, <2>3 DEF UpdateCall, Queue!Next
<1>2. CASE FinishInit \/ Message
  BY <1>2 DEF FinishInit, Message, RequestMessage, TrayExit, OpenMenu, MenuRead, CloseWindow, AnswerBox, ThreadShape, Dispatching, Exiting, Queue!qvars
<1>3. CASE Frame
  <2>1. CASE EndDraw
    BY <2>1 DEF EndDraw, Exiting, Queue!qvars, Queue!Close, Queue!Next
  <2> QED
    BY <1>3, <2>1 DEF Frame, EndInput, BeginDraw, ClickRefresh, ClickView, ClickClose, OpenDialog, CloseDialog, Exiting, Queue!qvars
<1>4. CASE Exit
  BY <1>4 DEF Exit, BeginExit, SignalStop, Join, FreeAll, DestroyWindow, Exiting, Queue!qvars
<1>5. CASE UpdateThread
  <2>1. CASE WakeUpdate \/ Drained
    BY <2>1 DEF WakeUpdate, Drained, ThreadShape, Queue!qvars
  <2>2. CASE TakeMask
    BY <2>2 DEF TakeMask, ThreadShape, Queue!Take, Queue!Next
  <2>3. CASE WakeStop
    <3>1. ui \in Exiting /\ mask = {} /\ todo = {} /\ hpc = "none"
      BY <2>3 DEF WakeStop, ThreadShape, ExitShape, NoLostWakeup, Exiting
    <3> QED
      BY <2>3, <3>1 DEF WakeStop, Queue!Stop, Queue!Next
  <2> QED
    BY <1>5, <2>1, <2>2, <2>3 DEF UpdateThread
<1>6. CASE Handler
  <2>1. ASSUME NEW j \in Jobs, StartHandler(j) PROVE Queue!Start(j)
    BY <2>1, JobNames, JobsAssumption DEF StartHandler, FirstIn, Queue!Start
  <2>2. CASE FreeOld
    BY <2>2 DEF FreeOld, Queue!Finish, Queue!Next
  <2>3. CASE MaskDone \/ ReadView \/ BeginLoading \/ ReadFlags \/ Gather \/ GatherNothing \/ ErrorBox
    BY <2>3 DEF MaskDone, ReadView, BeginLoading, ReadFlags, Gather, GatherNothing, ErrorBox, Queue!qvars
  <2>4. CASE GatherInitGpu \/ Acquire \/ Swap \/ StoreGpu
    BY <2>4 DEF GatherInitGpu, Acquire, Swap, StoreGpu, Queue!qvars
  <2> QED
    BY <1>6, <2>1, <2>2, <2>3, <2>4 DEF Handler, Queue!Next
<1>7. CASE WaitsForItself \/ WaitsForBox \/ Terminated \/ UNCHANGED vars
  BY <1>7 DEF WaitsForItself, WaitsForBox, Terminated, vars, Queue!qvars
<1> QED
  BY <1>1, <1>2, <1>3, <1>4, <1>5, <1>6, <1>7 DEF Next

\* With an update thread, every behaviour of the code is one of UpdateQueue:
\* what was asked for is served batch by batch and nothing is left when it stops.
THEOREM QueueImplemented == ASSUME ~MayFail PROVE Spec => ImplementsQueue
  BY QueueInit, QueueStep, Inductive, PTL DEF Spec, ImplementsQueue, Queue!Spec
================================================================================
