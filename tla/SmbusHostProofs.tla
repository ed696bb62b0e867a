----------------------------- MODULE SmbusHostProofs -----------------------------
(****************************************************************************)
(* Proofs about the two SMBus hosts, for any number of processes and of     *)
(* early ends: of the Intel host where every wait for the mutex ends with   *)
(* the mutex, of the AMD host also where it does not.                       *)
(*                                                                          *)
(* A user of the AMD host that nobody disturbs gets the answer to its own   *)
(* command.  Its own steps are not enough for that: the host may still      *)
(* execute the command of somebody who gave up, and Mine says at which      *)
(* places it cannot any more.                                               *)
(****************************************************************************)
EXTENDS MCSmbusHosts, TLAPS

----------------------------------------------------------------------------
(* The Intel host.                                                          *)

\* Whoever is at work holds the mutex, so one process at a time touches the host.
MutexHeld == \A p \in Procs : pc[p] # "idle" => owner = p

\* What the process at work may rely on, stage by stage; a flag means that the
\* host is idle, and INTR that the answer to its command is there.
Stage(p) ==
    /\ pc[p] = "setup" => busy = None /\ flags = {}
    /\ pc[p] = "start" => busy = None /\ flags = {} /\ command = p
    /\ pc[p] = "poll" =>
        /\ command = p
        /\ busy \in {p, None}
        /\ flags # {} => busy = None
        /\ flags = {"INTR"} => answer = p
    /\ pc[p] = "kill" => busy \in {p, None}
    /\ pc[p] = "collect" => busy = None /\ answer = p

IInv == TypeOK /\ MutexHeld /\ \A p \in Procs : Stage(p)

\* Goto and Return keep the types.
LEMMA GotoTyping ==
    ASSUME TypeOK, NEW p \in Procs, NEW to \in States, Goto(p, to)
    PROVE  /\ pc' \in [Procs -> States]
           /\ pc'[p] = to
           /\ \A q \in Procs : q # p => pc'[q] = pc[q]
  BY DEF TypeOK, Goto

\* Return keeps the type of rc.
LEMMA ReturnTyping ==
    ASSUME TypeOK, NEW p \in Procs, NEW status \in {"OK", "TIMEOUT", "ERROR"}, Return(p, status)
    PROVE  rc' \in [Procs -> {"OK", "TIMEOUT", "ERROR"}]
  BY DEF TypeOK, Return

\* Every step of one process or of the host keeps the types, whatever the mutex does.
LEMMA TypeStep == TypeOK /\ [Next]_vars => TypeOK'
<1> SUFFICES ASSUME TypeOK, [Next]_vars PROVE TypeOK'
  OBVIOUS
<1>n. MaxCrashes \in Nat
  BY SwitchAssumption
<1>1. ASSUME NEW p \in Procs, Wait(p) PROVE TypeOK'
  <2>1. pc' \in [Procs -> States]
    BY <1>1, GotoTyping DEF Wait, States
  <2>2. owner' \in Procs \cup {None}
    BY <1>1 DEF Wait, TypeOK
  <2> QED BY <1>1, <2>1, <2>2 DEF Wait, TypeOK, hostVars
<1>2. ASSUME NEW p \in Procs, Xfer(p) PROVE TypeOK'
  <2>1. ASSUME Acquire(p) PROVE TypeOK'
    <3>1. pc' \in [Procs -> States] /\ rc' \in [Procs -> {"OK", "TIMEOUT", "ERROR"}]
      BY <2>1, GotoTyping, ReturnTyping DEF Acquire, States
    <3> QED BY <2>1, <3>1 DEF Acquire, TypeOK
  <2>2. ASSUME AcquireTimeout(p) PROVE TypeOK'
    <3>1. pc' \in [Procs -> States] /\ rc' \in [Procs -> {"OK", "TIMEOUT", "ERROR"}]
      BY <2>2, GotoTyping, ReturnTyping DEF AcquireTimeout, States
    <3> QED BY <2>2, <3>1 DEF AcquireTimeout, TypeOK, hostVars
  <2>3. ASSUME CheckPre(p) PROVE TypeOK'
    <3>1. pc' \in [Procs -> States] /\ rc' \in [Procs -> {"OK", "TIMEOUT", "ERROR"}]
      BY <2>3, GotoTyping, ReturnTyping DEF CheckPre, States
    <3> QED BY <2>3, <3>1 DEF CheckPre, TypeOK
  <2>4. ASSUME Setup(p) PROVE TypeOK'
    <3>1. pc' \in [Procs -> States]
      BY <2>4, GotoTyping DEF Setup, States
    <3> QED BY <2>4, <3>1 DEF Setup, TypeOK
  <2>5. ASSUME Start(p) PROVE TypeOK'
    <3>1. pc' \in [Procs -> States]
      BY <2>5, GotoTyping DEF Start, States
    <3> QED BY <2>5, <3>1 DEF Start, TypeOK
  <2>6. ASSUME SeeFlags(p) PROVE TypeOK'
    <3>1. pc' \in [Procs -> States] /\ rc' \in [Procs -> {"OK", "TIMEOUT", "ERROR"}]
      BY <2>6, GotoTyping, ReturnTyping DEF SeeFlags, States
    <3> QED BY <2>6, <3>1 DEF SeeFlags, TypeOK
  <2>7. ASSUME PollTimeout(p) PROVE TypeOK'
    <3>1. pc' \in [Procs -> States] /\ rc' \in [Procs -> {"OK", "TIMEOUT", "ERROR"}]
      BY <2>7, GotoTyping, ReturnTyping DEF PollTimeout, States
    <3> QED BY <2>7, <3>1 DEF PollTimeout, TypeOK
  <2>8. ASSUME Kill(p) PROVE TypeOK'
    <3>1. pc' \in [Procs -> States]
      BY <2>8, GotoTyping DEF Kill, States
    <3>2. flags' \subseteq Flags
      BY <2>8 DEF Kill, TypeOK, Flags
    <3> QED BY <2>8, <3>1, <3>2 DEF Kill, TypeOK
  <2>9. ASSUME Collect(p) PROVE TypeOK'
    <3>1. pc' \in [Procs -> States]
      BY <2>9, GotoTyping DEF Collect, States
    <3> QED BY <2>9, <3>1 DEF Collect, TypeOK, hostVars
  <2>10. ASSUME Unlock(p) PROVE TypeOK'
    <3>1. pc' \in [Procs -> States]
      BY <2>10, GotoTyping DEF Unlock, States
    <3> QED BY <2>10, <3>1 DEF Unlock, TypeOK, ClearStatus
  <2> QED BY <1>2, <2>1, <2>2, <2>3, <2>4, <2>5, <2>6, <2>7, <2>8, <2>9, <2>10 DEF Xfer
<1>3. ASSUME NEW p \in Procs, Again(p) PROVE TypeOK'
  <2>1. pc' \in [Procs -> States]
    BY <1>3, GotoTyping DEF Again, States
  <2> QED BY <1>3, <2>1 DEF Again, TypeOK, hostVars
<1>4. ASSUME NEW p \in Procs, Release(p) PROVE TypeOK'
  <2>1. pc' \in [Procs -> States] /\ rc' \in [Procs -> {"OK", "TIMEOUT", "ERROR"}]
    BY <1>4, GotoTyping, ReturnTyping DEF Release, States
  <2> QED BY <1>4, <2>1 DEF Release, TypeOK, hostVars
<1>5. ASSUME NEW p \in Procs, Crash(p) PROVE TypeOK'
  <2>1. pc' \in [Procs -> States] /\ rc' \in [Procs -> {"OK", "TIMEOUT", "ERROR"}]
    BY <1>5, GotoTyping, ReturnTyping DEF Crash, States
  <2>2. crashes' \in 0..MaxCrashes
    BY <1>5, <1>n DEF Crash, TypeOK
  <2> QED BY <1>5, <2>1, <2>2 DEF Crash, TypeOK, hostVars
<1>6. ASSUME Finish PROVE TypeOK'
  <2>1. flags' \subseteq Flags
    BY <1>6 DEF Finish, TypeOK, Flags
  <2> QED BY <1>6, <2>1 DEF Finish, TypeOK, procVars
<1>7. ASSUME UNCHANGED vars PROVE TypeOK'
  BY <1>7 DEF vars, procVars, hostVars, TypeOK
<1> QED BY <1>1, <1>2, <1>3, <1>4, <1>5, <1>6, <1>7 DEF Next

\* A step of Xfer is taken by the owner of the mutex, who keeps it.
LEMMA XferOwner ==
    ASSUME TypeOK, MutexHeld, NEW p \in Procs, Xfer(p)
    PROVE  /\ owner' = owner /\ owner = p
           /\ pc[p] # "idle" /\ pc'[p] # "idle"
           /\ \A q \in Procs : q # p => pc'[q] = "idle" /\ pc[q] = "idle"
<1>1. /\ owner' = owner
      /\ pc[p] \in States \ {"idle"}
      /\ \E to \in States \ {"idle"} : Goto(p, to)
  BY DEF Xfer, Acquire, AcquireTimeout, CheckPre, Setup, Start, SeeFlags, PollTimeout, Kill, Collect, Unlock, States
<1>2. owner = p
  BY <1>1 DEF MutexHeld
<1>3. \A q \in Procs : q # p => pc[q] = "idle"
  BY <1>2 DEF MutexHeld
<1> QED BY <1>1, <1>2, <1>3, GotoTyping

\* Each step of a transaction leads its process to a stage whose conditions hold.
LEMMA XferStage ==
    ASSUME IInv, NEW p \in Procs, Xfer(p)
    PROVE  Stage(p)'
<1> USE DEF IInv
<1>n. None \notin Procs
  BY NoneAssumption
<1>1. ASSUME Acquire(p) PROVE Stage(p)'
  <2>1. pc'[p] = "pre"
    BY <1>1, GotoTyping DEF Acquire, States
  <2> QED BY <2>1 DEF Stage
<1>2. ASSUME AcquireTimeout(p) PROVE Stage(p)'
  <2>1. pc'[p] = "unlock"
    BY <1>2, GotoTyping DEF AcquireTimeout, States
  <2> QED BY <2>1 DEF Stage
<1>3. ASSUME CheckPre(p) PROVE Stage(p)'
  <2>1. pc'[p] = IF busy = None THEN "setup" ELSE "unlock"
    BY <1>3, GotoTyping DEF CheckPre, States
  <2>2. busy' = busy /\ (busy = None => flags' = {})
    BY <1>3 DEF CheckPre
  <2> QED BY <2>1, <2>2 DEF Stage
<1>4. ASSUME Setup(p) PROVE Stage(p)'
  <2>1. pc'[p] = "start"
    BY <1>4, GotoTyping DEF Setup, States
  <2>2. busy' = None /\ flags' = {} /\ command' = p
    BY <1>4 DEF Setup, Stage
  <2> QED BY <2>1, <2>2 DEF Stage
<1>5. ASSUME Start(p) PROVE Stage(p)'
  <2>1. pc'[p] = "poll"
    BY <1>5, GotoTyping DEF Start, States
  <2>2. busy' = p /\ flags' = {} /\ command' = p
    BY <1>5 DEF Start, Stage
  <2> QED BY <2>1, <2>2 DEF Stage
<1>6. ASSUME SeeFlags(p) PROVE Stage(p)'
  <2>1. pc'[p] = IF flags = {"INTR"} THEN "collect" ELSE "unlock"
    BY <1>6, GotoTyping DEF SeeFlags, States
  <2>2. busy' = None /\ (flags = {"INTR"} => answer' = p)
    BY <1>6 DEF SeeFlags, Stage
  <2> QED BY <2>1, <2>2 DEF Stage
<1>7. ASSUME PollTimeout(p) PROVE Stage(p)'
  <2>1. pc'[p] = "kill"
    BY <1>7, GotoTyping DEF PollTimeout, States
  <2>2. busy' \in {p, None}
    BY <1>7 DEF PollTimeout, Stage
  <2> QED BY <2>1, <2>2 DEF Stage
<1>8. ASSUME Kill(p) PROVE Stage(p)'
  <2>1. pc'[p] = "unlock"
    BY <1>8, GotoTyping DEF Kill, States
  <2> QED BY <2>1 DEF Stage
<1>9. ASSUME Collect(p) PROVE Stage(p)'
  <2>1. pc'[p] = "unlock"
    BY <1>9, GotoTyping DEF Collect, States
  <2> QED BY <2>1 DEF Stage
<1>10. ASSUME Unlock(p) PROVE Stage(p)'
  <2>1. pc'[p] = "return"
    BY <1>10, GotoTyping DEF Unlock, States
  <2> QED BY <2>1 DEF Stage
<1> QED BY <1>1, <1>2, <1>3, <1>4, <1>5, <1>6, <1>7, <1>8, <1>9, <1>10 DEF Xfer

\* The host finishing a command serves the process that polls for it.
LEMMA FinishStage ==
    ASSUME IInv, Finish, NEW p \in Procs
    PROVE  Stage(p)'
<1> USE DEF IInv
<1>1. pc' = pc /\ command' = command /\ busy # None /\ busy' = None
  BY DEF Finish, procVars
<1>2. Stage(p)
  OBVIOUS
<1>3. pc[p] \notin {"setup", "start", "collect"}
  BY <1>1, <1>2 DEF Stage
<1>4. ASSUME pc[p] = "poll" PROVE flags' = {"INTR"} => answer' = p
  <2>1. busy = p /\ flags = {}
    BY <1>1, <1>2, <1>4 DEF Stage
  <2> QED BY <2>1 DEF Finish
<1> QED BY <1>1, <1>2, <1>3, <1>4 DEF Stage

\* With the mutex respected the invariant is kept by every step.
LEMMA IInvStep ==
    ASSUME ~Timeouts
    PROVE  IInv /\ [Next]_vars => IInv'
<1> SUFFICES ASSUME IInv, [Next]_vars PROVE IInv'
  OBVIOUS
<1> USE DEF IInv
<1>t. TypeOK'
  BY TypeStep
<1>n. None \notin Procs
  BY NoneAssumption
<1>1. ASSUME NEW p \in Procs, Wait(p) PROVE MutexHeld' /\ \A q \in Procs : Stage(q)'
  <2>1. owner = None /\ owner' = p
    BY <1>1 DEF Wait
  <2>2. pc'[p] = "inuse" /\ \A q \in Procs : q # p => pc'[q] = pc[q]
    BY <1>1, GotoTyping DEF Wait, States
  <2>3. \A q \in Procs : pc[q] = "idle"
    BY <2>1, <1>n DEF MutexHeld
  <2>4. \A q \in Procs : pc'[q] \in {"idle", "inuse"} /\ (pc'[q] # "idle" => q = p)
    BY <2>2, <2>3
  <2> QED BY <2>1, <2>4 DEF MutexHeld, Stage
<1>2. ASSUME NEW p \in Procs, Xfer(p) PROVE MutexHeld' /\ \A q \in Procs : Stage(q)'
  <2>1. owner' = p /\ \A q \in Procs : q # p => pc'[q] = "idle"
    BY <1>2, XferOwner
  <2>2. \A q \in Procs : q # p => Stage(q)'
    BY <2>1 DEF Stage
  <2>3. Stage(p)'
    BY <1>2, XferStage
  <2> QED BY <2>1, <2>2, <2>3 DEF MutexHeld
<1>3. ASSUME NEW p \in Procs, Again(p) PROVE MutexHeld' /\ \A q \in Procs : Stage(q)'
  <2>1. owner' = owner /\ pc[p] = "return"
    BY <1>3 DEF Again
  <2>2. owner = p /\ \A q \in Procs : q # p => pc[q] = "idle"
    BY <2>1 DEF MutexHeld
  <2>3. pc'[p] = "inuse" /\ \A q \in Procs : q # p => pc'[q] = pc[q]
    BY <1>3, GotoTyping DEF Again, States
  <2>4. \A q \in Procs : pc'[q] \in {"idle", "inuse"} /\ (pc'[q] # "idle" => q = p)
    BY <2>2, <2>3
  <2> QED BY <2>1, <2>2, <2>4 DEF MutexHeld, Stage
<1>4. ASSUME NEW p \in Procs, Release(p) \/ Crash(p) PROVE MutexHeld' /\ \A q \in Procs : Stage(q)'
  <2>1. pc[p] # "idle"
    BY <1>4 DEF Release, Crash
  <2>2. \A q \in Procs : q # p => pc[q] = "idle"
    BY <2>1 DEF MutexHeld
  <2>3. pc'[p] = "idle" /\ \A q \in Procs : q # p => pc'[q] = pc[q]
    BY <1>4, GotoTyping DEF Release, Crash, States
  <2>4. \A q \in Procs : pc'[q] = "idle"
    BY <2>2, <2>3
  <2> QED BY <2>4 DEF MutexHeld, Stage
<1>5. ASSUME Finish PROVE MutexHeld' /\ \A q \in Procs : Stage(q)'
  <2>1. pc' = pc /\ owner' = owner
    BY <1>5 DEF Finish, procVars
  <2>2. \A q \in Procs : Stage(q)'
    BY <1>5, FinishStage
  <2> QED BY <2>1, <2>2 DEF MutexHeld
<1>6. ASSUME UNCHANGED vars PROVE MutexHeld' /\ \A q \in Procs : Stage(q)'
  BY <1>6 DEF vars, procVars, hostVars, MutexHeld, Stage
<1> QED BY <1>t, <1>1, <1>2, <1>3, <1>4, <1>5, <1>6 DEF Next

\* A host at rest satisfies it.
LEMMA IInvInit == Init => IInv
<1> SUFFICES ASSUME Init PROVE IInv
  OBVIOUS
<1>1. TypeOK
  <2>1. inuse \in BOOLEAN
    BY Zenon DEF Init
  <2> QED BY <2>1, SwitchAssumption DEF Init, TypeOK, States, Flags
<1>2. \A p \in Procs : pc[p] = "idle"
  BY DEF Init
<1> QED BY <1>1, <1>2 DEF IInv, MutexHeld, Stage

\* Every variable keeps its kind, also when waits for the mutex expire.
THEOREM HostTyped == Spec => []TypeOK
<1>1. Init => TypeOK
  BY IInvInit DEF IInv
<1> QED BY <1>1, TypeStep, PTL DEF Spec

\* While WR0_WaitSmBus delivers the mutex, the data a transaction returns is the
\* answer to its own command, whatever processes ended before it and wherever.
THEOREM AnswersMatch == ASSUME ~Timeouts PROVE Spec => []OwnAnswer
<1>1. IInv => OwnAnswer
  BY DEF IInv, OwnAnswer, Stage
<1> QED BY <1>1, IInvInit, IInvStep, PTL DEF Spec

\* Under the same condition commands start on an idle host with the registers their
\* process wrote, and I801Kill aborts nobody else's.
THEOREM CommandsKeptApart == ASSUME ~Timeouts PROVE Spec => []OwnCommand
<1>1. IInv => OwnCommand
  BY DEF IInv, OwnCommand, Stage
<1> QED BY <1>1, IInvInit, IInvStep, PTL DEF Spec

----------------------------------------------------------------------------
(* The AMD host.                                                            *)

\* A process nobody disturbed is the only one in a session, and what it has seen
\* of the host still holds.
Mine(p) ==
    /\ \A q \in Procs : pPc[q] # "idle" => q = p
    /\ pPc[p] \in {"setup", "start"} => pBusy = None /\ pFlags = {}
    /\ pPc[p] = "start" => pCommand = p
    /\ pPc[p] = "poll" =>
          \/ pBusy = p /\ pFlags = {}
          \/ pBusy = None /\ (pFlags = {"INTR"} => pAnswer = p)
    /\ pPc[p] = "collect" => pBusy = None /\ pAnswer = p

Piix4Inv == P!TypeOK /\ \A p \in Procs \ disturbed : pPc[p] # "idle" => Mine(p)

LEMMA Piix4TypeInit == ASSUME P!Init PROVE P!TypeOK
  BY SwitchAssumption DEF P!Init, P!TypeOK

\* No step leaves the types.
LEMMA Piix4TypeStep == ASSUME P!TypeOK, [P!Next]_P!vars PROVE P!TypeOK'
<1>1. ASSUME NEW p \in Procs, P!Wait(p) PROVE P!TypeOK'
  <2>1. disturbed' \subseteq Procs
    BY <1>1 DEF P!Wait, P!TypeOK, P!Active
  <2> QED
    BY <1>1, <2>1 DEF P!Wait, P!TypeOK, P!Goto, P!hostVars
<1>2. ASSUME NEW p \in Procs, P!Xfer(p) PROVE P!TypeOK'
  <2>1. CASE P!CheckBusy(p)
    BY <2>1 DEF P!CheckBusy, P!TypeOK, P!Goto
  <2>2. CASE P!Recheck(p)
    BY <2>2 DEF P!Recheck, P!TypeOK, P!Goto, P!hostVars
  <2>3. CASE P!Setup(p)
    BY <2>3 DEF P!Setup, P!TypeOK, P!Goto
  <2>4. CASE P!Start(p)
    BY <2>4 DEF P!Start, P!TypeOK, P!Goto
  <2>5. CASE P!Poll(p)
    BY <2>5 DEF P!Poll, P!TypeOK, P!Goto
  <2>6. CASE P!Collect(p)
    BY <2>6 DEF P!Collect, P!TypeOK, P!Goto, P!hostVars
  <2> QED
    BY <1>2, <2>1, <2>2, <2>3, <2>4, <2>5, <2>6 DEF P!Xfer
<1>3. ASSUME NEW p \in Procs, P!Again(p) \/ P!Release(p) PROVE P!TypeOK'
  BY <1>3 DEF P!Again, P!Release, P!TypeOK, P!Goto, P!hostVars
<1>4. ASSUME NEW p \in Procs, P!Crash(p) PROVE P!TypeOK'
  <2>1. pCrashes' \in 0..MaxCrashes
    BY <1>4, SwitchAssumption DEF P!Crash, P!TypeOK
  <2> QED
    BY <1>4, <2>1 DEF P!Crash, P!TypeOK, P!Goto, P!hostVars
<1>5. CASE P!Finish
  <2>1. pFlags' \subseteq {"INTR", "ERROR"} /\ pAnswer' \in Procs \cup {None}
    BY <1>5 DEF P!Finish, P!TypeOK
  <2> QED
    BY <1>5, <2>1 DEF P!Finish, P!TypeOK
<1>6. CASE UNCHANGED P!vars
  BY <1>6 DEF P!vars, P!hostVars, P!TypeOK
<1> QED
  BY <1>1, <1>2, <1>3, <1>4, <1>5, <1>6 DEF P!Next

\* IInv is inductive: only a step of the process itself or of the host can touch
\* what Mine says, since anybody else's first step counts as a disturbance.
LEMMA MineStep ==
    ASSUME Piix4Inv, [P!Next]_P!vars, NEW p \in Procs, p \notin disturbed', pPc'[p] # "idle"
    PROVE  Mine(p)'
<1> USE DEF Piix4Inv
<1>1. ASSUME NEW q \in Procs, P!Wait(q) PROVE Mine(p)'
  <2>1. pPc[q] = "idle" /\ pPc'[q] = "check" /\ \A r \in Procs \ {q} : pPc'[r] = pPc[r]
    BY <1>1 DEF P!Wait, P!Goto, P!TypeOK
  <2>2. P!Active = {}
    BY <1>1, <2>1 DEF P!Wait, P!Active
  <2> QED
    BY <2>1, <2>2 DEF Mine, P!Active
<1>2. CASE \/ \E q \in Procs : P!Xfer(q) \/ P!Again(q) \/ P!Release(q) \/ P!Crash(q)
           \/ P!Finish \/ UNCHANGED P!vars
  <2>1. disturbed' = disturbed /\ \A r \in Procs : pPc[r] = "idle" => pPc'[r] = "idle"
    BY <1>2 DEF P!Xfer, P!CheckBusy, P!Recheck, P!Setup, P!Start, P!Poll, P!Collect, P!Again, P!Release, P!Crash, P!Finish,
                P!vars, P!Goto, P!TypeOK
  <2>2. Mine(p) /\ pPc[p] # "idle"
    BY <2>1
  <2>3. \A q \in Procs : pPc'[q] # "idle" => q = p
    BY <2>1, <2>2 DEF Mine
  <2>4. ASSUME NEW q \in Procs, P!Xfer(q) \/ P!Again(q) \/ P!Release(q) \/ P!Crash(q) PROVE Mine(p)'
    <3>1. pPc[q] # "idle"
      BY <2>4 DEF P!Xfer, P!CheckBusy, P!Recheck, P!Setup, P!Start, P!Poll, P!Collect, P!Again, P!Release, P!Crash
    <3>2. q = p
      BY <2>2, <3>1 DEF Mine
    <3>3. CASE P!CheckBusy(p)
      BY <2>3, <3>3 DEF P!CheckBusy, Mine, P!Goto, P!TypeOK
    <3>4. CASE P!Recheck(p)
      BY <2>3, <3>4 DEF P!Recheck, Mine, P!Goto, P!TypeOK, P!hostVars
    <3>5. CASE P!Setup(p)
      BY <2>2, <2>3, <3>5 DEF P!Setup, Mine, P!Goto, P!TypeOK
    <3>6. CASE P!Start(p)
      BY <2>2, <2>3, <3>6 DEF P!Start, Mine, P!Goto, P!TypeOK
    <3>7. CASE P!Poll(p)
      BY <2>2, <2>3, <3>7 DEF P!Poll, Mine, P!Goto, P!TypeOK
    <3>8. CASE P!Collect(p)
      BY <2>3, <3>8 DEF P!Collect, Mine, P!Goto, P!TypeOK, P!hostVars
    <3>9. CASE P!Again(p) \/ P!Release(p) \/ P!Crash(p)
      BY <2>3, <3>9 DEF P!Again, P!Release, P!Crash, Mine, P!Goto, P!TypeOK, P!hostVars
    <3> QED
      BY <2>4, <3>2, <3>3, <3>4, <3>5, <3>6, <3>7, <3>8, <3>9 DEF P!Xfer
  <2>5. CASE P!Finish
    <3>1. pPc' = pPc /\ pCommand' = pCommand /\ pBusy # None /\ pBusy' = None
      BY <2>5 DEF P!Finish
    <3>2. pPc[p] \notin {"setup", "start", "collect"}
      BY <2>2, <3>1 DEF Mine
    <3>3. pPc[p] = "poll" => (pFlags' = {"INTR"} => pAnswer' = p)
      BY <2>2, <2>5, <3>1 DEF P!Finish, Mine
    <3> QED
      BY <2>3, <3>1, <3>2, <3>3 DEF Mine
  <2>6. CASE UNCHANGED P!vars
    BY <2>2, <2>6 DEF P!vars, P!hostVars, Mine
  <2> QED
    BY <1>2, <2>4, <2>5, <2>6
<1> QED
  BY <1>1, <1>2 DEF P!Next

\* Every process that nobody disturbs gives its commands to an idle host and takes
\* the answer to its own command (smbus_piix4.c:309-422).
THEOREM UndisturbedIsOwn == P!Spec => []OwnTransaction
<1>1. P!Init => Piix4Inv
  <2> SUFFICES ASSUME P!Init PROVE Piix4Inv
    OBVIOUS
  <2>1. P!TypeOK
    BY Piix4TypeInit
  <2> QED
    BY <2>1 DEF P!Init, Piix4Inv
<1>2. Piix4Inv /\ [P!Next]_P!vars => Piix4Inv'
  <2> SUFFICES ASSUME Piix4Inv, [P!Next]_P!vars PROVE Piix4Inv'
    OBVIOUS
  <2>1. P!TypeOK'
    BY Piix4TypeStep DEF Piix4Inv
  <2>2. \A p \in Procs \ disturbed' : pPc'[p] # "idle" => Mine(p)'
    BY MineStep
  <2> QED
    BY <2>1, <2>2 DEF Piix4Inv
<1>3. Piix4Inv => OwnTransaction
  BY DEF Piix4Inv, Mine, OwnTransaction, P!OwnTransaction
<1> QED
  BY <1>1, <1>2, <1>3, PTL DEF P!Spec

\* Every variable of the host stays in its type.
THEOREM Piix4TypeCorrect == P!Spec => []P!TypeOK
<1>1. P!Init => P!TypeOK
  BY Piix4TypeInit
<1>2. P!TypeOK /\ [P!Next]_P!vars => P!TypeOK'
  BY Piix4TypeStep
<1> QED
  BY <1>1, <1>2, PTL DEF P!Spec

==================================================================================
