----------------------------- MODULE MCSmbusHosts ------------------------------
(****************************************************************************)
(* The two SMBus hosts SM_Init chooses from, for TLC: a machine has one of  *)
(* them, so a behaviour is one of I801Host or one of Piix4Host.             *)
(****************************************************************************)
EXTENDS I801Host

VARIABLES host, pPc, pOwner, pBusy, pFlags, pCommand, pAnswer, pCrashes, disturbed

piix4Vars == <<pPc, pOwner, pBusy, pFlags, pCommand, pAnswer, pCrashes, disturbed>>
P == INSTANCE Piix4Host WITH
        pc <- pPc, owner <- pOwner, busy <- pBusy, flags <- pFlags, command <- pCommand,
        answer <- pAnswer, crashes <- pCrashes

OnI801(action) == host = "i801" /\ action /\ UNCHANGED <<host, piix4Vars>>
OnPiix4(action) == host = "piix4" /\ action /\ UNCHANGED <<host, vars>>

MCInit == host \in {"i801", "piix4"} /\ Init /\ P!Init
MCNext == OnI801(Next) \/ OnPiix4(P!Next)
allVars == <<host, vars, piix4Vars>>

\* The fairness of I801Host, for both.
MCFairness ==
    /\ WF_allVars(OnI801(\E p \in Procs : Wait(p)))
    /\ WF_allVars(OnPiix4(\E p \in Procs : P!Wait(p)))
    /\ \A p \in Procs :
          /\ WF_allVars(OnI801(Xfer(p)))
          /\ WF_allVars(OnI801(Again(p) \/ Release(p)))
          /\ WF_allVars(OnPiix4(P!Xfer(p)))
          /\ WF_allVars(OnPiix4(P!Again(p) \/ P!Release(p)))
    /\ WF_allVars(OnI801(Finish))
    /\ WF_allVars(OnPiix4(P!Finish))

MCSpec == MCInit /\ [][MCNext]_allVars /\ MCFairness

\* See Piix4Host.OwnTransaction.
OwnTransaction == P!OwnTransaction
\* See BusRecovers of the two modules.
BusesRecover == []<>(busy # None \/ pBusy # None)
================================================================================
