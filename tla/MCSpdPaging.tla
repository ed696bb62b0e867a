------------------------------ MODULE MCSpdPaging ------------------------------
(****************************************************************************)
(* A board takes modules of one kind, so a behaviour is one of a board with *)
(* the modules the configuration names or one of a board with DDR5 modules. *)
(****************************************************************************)
EXTENDS MCSpdModules

VARIABLES board, hProc, hOwner, hPage4, hReg11, hCrashes, hFaults, hTimeouts, hLate, hDisturbed

hubVars == <<hProc, hOwner, hPage4, hReg11, hCrashes, hFaults, hTimeouts, hLate, hDisturbed>>
H == INSTANCE SpdPaging WITH
        Ops <- BothOps, LastSlot <- 1, Module <- AllDDR5, Byte11 <- Zero,
        HubPages <- {0, 1, 4, 5, 6}, MaxTimeouts <- 0, MaxCrashes <- 1, MaxFaults <- 0,
        proc <- hProc, owner <- hOwner, page4 <- hPage4, reg11 <- hReg11,
        crashes <- hCrashes, faults <- hFaults, timeouts <- hTimeouts,
        late <- hLate, disturbed <- hDisturbed

MCInit == board \in {"named", "DDR5"} /\ Init /\ H!Init

\* The properties claim nothing once a transaction has failed and something else went wrong.
FaultAlone == faults' = 0 \/ crashes' + timeouts' = 0

MCNext ==
    \/ board = "named" /\ Next /\ FaultAlone /\ UNCHANGED <<board, hubVars>>
    \/ board = "DDR5" /\ H!Next /\ UNCHANGED <<board, vars>>

MCSpec == MCInit /\ [][MCNext]_<<board, vars, hubVars>>

\* SpdPaging.Recognised for the board with hubs.
HubsRecognised == H!Recognised
================================================================================
