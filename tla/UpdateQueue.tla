------------------------------ MODULE UpdateQueue ------------------------------
(****************************************************************************)
(* What gnwinfo's update thread promises the UI thread, whatever the mask,  *)
(* the events and the lock do: requests are a set (asking twice before it   *)
(* is served is asking once), each batch is served completely before the    *)
(* next is taken, every timer has one handler running at a time, and the    *)
(* server stops only when it was told to and nothing is left to serve.      *)
(****************************************************************************)
CONSTANT Jobs

VARIABLES
    pending,    \* requested and not taken yet
    batch,      \* taken and not started yet
    serving,    \* the handlers running: none or one
    accepting,  \* requests are accepted
    stopped     \* the server has ended

qvars == <<pending, batch, serving, accepting, stopped>>

Init ==
    /\ pending = {}
    /\ batch = {}
    /\ serving = {}
    /\ accepting = TRUE
    /\ stopped = FALSE

Request(j) ==
    /\ accepting
    /\ pending' = pending \cup {j}
    /\ UNCHANGED <<batch, serving, accepting, stopped>>

Take ==
    /\ batch = {} /\ serving = {} /\ pending # {} /\ ~stopped
    /\ batch' = pending
    /\ pending' = {}
    /\ UNCHANGED <<serving, accepting, stopped>>

Start(j) ==
    /\ serving = {} /\ j \in batch
    /\ batch' = batch \ {j}
    /\ serving' = {j}
    /\ UNCHANGED <<pending, accepting, stopped>>

Finish ==
    /\ serving # {}
    /\ serving' = {}
    /\ UNCHANGED <<pending, batch, accepting, stopped>>

Close ==
    /\ accepting' = FALSE
    /\ UNCHANGED <<pending, batch, serving, stopped>>

Stop ==
    /\ ~accepting /\ ~stopped
    /\ pending = {} /\ batch = {} /\ serving = {}
    /\ stopped' = TRUE
    /\ UNCHANGED <<pending, batch, serving, accepting>>

Next ==
    \/ \E j \in Jobs : Request(j) \/ Start(j)
    \/ Take \/ Finish \/ Close \/ Stop

Spec == Init /\ [][Next]_qvars
================================================================================
