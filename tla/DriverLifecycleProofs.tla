------------------------- MODULE DriverLifecycleProofs --------------------------
(****************************************************************************)
(* Proofs about the life of the drivers, for any number of processes, any   *)
(* list of drivers and any number of crashes.                               *)
(*                                                                          *)
(* Safe says where a process may be with which driver, and that a driver    *)
(* somebody has installed has its record.  Left says who still has to       *)
(* remove what is in the system; it rests on Safe.  Solitude says that a    *)
(* process that is alone has passed over no driver it could have had; it    *)
(* rests on both.                                                           *)
(****************************************************************************)
EXTENDS DriverLifecycle, TLAPS

Active == States \ {"idle", "end", "without"}

\* A process works on a driver of the list, and on one of the right kind.
Placed ==
    \A p \in Procs :
        /\ pc[p] \in Active => at[p] \in DOMAIN DrvList
        /\ pc[p] \in {"create", "open", "start", "undo", "stop", "delete"} => Current(p) \in Services
        /\ pc[p] \in {"check", "setup", "remove"} => Current(p) = PawnIO
        /\ pc[p] \in {"stop", "delete", "remove"} => Current(p) \in installed[p]

\* A service some process has installed has its record, and that process has it open.
Owned == \A p \in Procs : \A d \in installed[p] \cap Services : svc[d] = "exists" /\ d \in sch[p]

Safe == TypeOK /\ Placed /\ Owned /\ OneCreator

\* What a process has installed and is not excused for is what it works on, and
\* where it does not work on it any more, it has removed it.
Busy ==
    \A p \in Procs : \A d \in installed[p] \ excused :
        d = Current(p) /\ pc[p] \in {"start", "undo", "reload", "using", "stop", "delete", "remove"}

\* An undo follows a start Windows refused; a delete follows a stop.
Refused ==
    /\ \A d \in blocked : dev[d] = "off"
    /\ \A p \in Procs : pc[p] = "undo" /\ Current(p) \in installed[p] => Current(p) \in blocked
    /\ \A p \in Procs : pc[p] = "delete" /\ Current(p) \notin excused => dev[Current(p)] # "on"

\* Nothing in the system is without a process that keeps it there.
Kept ==
    /\ pawnio /\ PawnIO \notin excused => \E p \in Procs : PawnIO \in installed[p]
    /\ \A d \in Services :
        /\ d \notin excused /\ (svc[d] = "exists" \/ dev[d] = "on") => \E p \in Procs : d \in installed[p]
        /\ svc[d] = "deleted" /\ dev[d] = "off" => \E p \in Procs : d \in sch[p]
        /\ dev[d] = "ending" => \E p \in Procs : d \in device[p]

Left == Busy /\ Refused /\ Kept

----------------------------------------------------------------------------
(* The operators the actions are made of.                                   *)

\* Where Try leaves a process, and that it moves no other one.
LEMMA TryMoves ==
    ASSUME TypeOK, NEW p \in Procs, NEW from, NEW allowed, Try(p, from, allowed)
    PROVE  /\ pc' \in [Procs -> States] /\ at' \in [Procs -> Nat]
           /\ pc'[p] \in {"without", "load"}
           /\ pc'[p] = "load" => at'[p] \in DOMAIN DrvList
           /\ \A q \in Procs \ {p} : pc'[q] = pc[q] /\ at'[q] = at[q]
<1> DEFINE left == {i \in DOMAIN DrvList : i >= from /\ DrvList[i] \in allowed}
<1>0. DOMAIN DrvList \subseteq Nat
  BY DriverAssumption
<1>1. CASE left = {} /\ Goto(p, "without") /\ UNCHANGED at
  BY <1>1 DEF Goto, TypeOK, States
<1>2. CASE \E i \in left : Goto(p, "load") /\ at' = [at EXCEPT ![p] = i]
  BY <1>0, <1>2 DEF Goto, TypeOK, States
<1> QED
  BY <1>1, <1>2 DEF Try

\* What is there after Settle, and what keeps it there.
LEMMA SettleLeaves ==
    ASSUME NEW newDevice \in [Procs -> SUBSET Drivers], NEW newSch \in [Procs -> SUBSET Services],
           NEW newDev \in [Services -> {"off", "on", "ending"}],
           NEW newSvc \in [Services -> {"none", "exists", "deleted"}],
           Settle(newDevice, newSch, newDev, newSvc)
    PROVE  /\ device' = newDevice /\ sch' = newSch
           /\ dev' \in [Services -> {"off", "on", "ending"}]
           /\ svc' \in [Services -> {"none", "exists", "deleted"}]
           /\ \A d \in Services :
                /\ dev'[d] # newDev[d] => dev'[d] = "off" /\ newDev[d] = "ending"
                /\ svc'[d] # newSvc[d] => svc'[d] = "none" /\ newSvc[d] = "deleted"
                /\ svc'[d] = "deleted" /\ dev'[d] = "off" => \E p \in Procs : d \in sch'[p]
                /\ dev'[d] = "ending" => \E p \in Procs : d \in device'[p]
<1> DEFINE off(d) == \/ newDev[d] = "off"
                     \/ newDev[d] = "ending" /\ \A p \in Procs : d \notin newDevice[p]
           gone(d) == newSvc[d] = "deleted" /\ off(d) /\ \A p \in Procs : d \notin newSch[p]
<1>1. device' = newDevice /\ sch' = newSch
  BY DEF Settle
<1>2. dev' = [d \in Services |-> IF off(d) THEN "off" ELSE newDev[d]]
  BY DEF Settle
<1>3. svc' = [d \in Services |-> IF gone(d) THEN "none" ELSE newSvc[d]]
  BY DEF Settle
<1>4. /\ dev' \in [Services -> {"off", "on", "ending"}]
      /\ svc' \in [Services -> {"none", "exists", "deleted"}]
  BY <1>2, <1>3
<1>5. ASSUME NEW d \in Services
      PROVE  /\ dev'[d] # newDev[d] => dev'[d] = "off" /\ newDev[d] = "ending"
             /\ svc'[d] # newSvc[d] => svc'[d] = "none" /\ newSvc[d] = "deleted"
             /\ svc'[d] = "deleted" /\ dev'[d] = "off" => \E p \in Procs : d \in sch'[p]
             /\ dev'[d] = "ending" => \E p \in Procs : d \in device'[p]
  <2>1. dev'[d] = IF off(d) THEN "off" ELSE newDev[d]
    BY <1>2
  <2>2. svc'[d] = IF gone(d) THEN "none" ELSE newSvc[d]
    BY <1>3
  <2> QED
    BY <1>1, <2>1, <2>2
<1> QED
  BY <1>1, <1>4, <1>5

LEMMA CurrentIsADriver ==
    ASSUME NEW p \in Procs, at[p] \in DOMAIN DrvList
    PROVE  Current(p) \in Drivers
  BY DriverAssumption DEF Current

----------------------------------------------------------------------------

LEMMA SafeInit == Init => Safe
<1> SUFFICES ASSUME Init PROVE Safe
  OBVIOUS
<1>1. TypeOK
  <2>1. crashes \in 0..MaxCrashes
    BY CrashAssumption DEF Init
  <2>2. excused \subseteq Drivers
    BY DEF Init, Drivers
  <2> QED
    BY <2>1, <2>2 DEF Init, TypeOK, States
<1>2. Placed /\ Owned /\ OneCreator
  BY DEF Init, Placed, Owned, OneCreator, Active
<1> QED
  BY <1>1, <1>2 DEF Safe

\* Safe is inductive.  The steps that could break it are Create, which claims a
\* record only where there is none, and Undo and Delete, whose record only their
\* own process may have claimed.
LEMMA SafeStep ==
    ASSUME Safe, [Next]_vars
    PROVE  Safe'
<1> USE DEF Safe
<1>1. ASSUME NEW p \in Procs, Begin(p) PROVE Safe'
  <2>1. PICK allowed \in {Drivers} \cup {{d} : d \in Drivers} :
            only' = [only EXCEPT ![p] = allowed] /\ Try(p, 1, allowed)
    BY <1>1 DEF Begin
  <2>2. /\ pc' \in [Procs -> States] /\ at' \in [Procs -> Nat]
        /\ pc'[p] \in {"without", "load"}
        /\ pc'[p] = "load" => at'[p] \in DOMAIN DrvList
        /\ \A q \in Procs \ {p} : pc'[q] = pc[q] /\ at'[q] = at[q]
    BY <2>1, TryMoves
  <2>3. UNCHANGED <<device, sch, installed, svc, dev, pawnio, beside, blocked, library, crashes, excused>>
    BY <1>1 DEF Begin, systemVars, fixedVars
  <2>4. alone' \subseteq Procs
    BY <1>1 DEF Begin
  <2>5. only' \in [Procs -> SUBSET Drivers]
    BY <2>1 DEF TypeOK
  <2>6. TypeOK'
    BY <2>2, <2>3, <2>4, <2>5 DEF TypeOK
  <2>7. Placed'
    BY <2>2, <2>3 DEF Placed, Current, Active
  <2> QED
    BY <2>3, <2>6, <2>7 DEF Owned, OneCreator
<1>2. ASSUME NEW p \in Procs, Load(p) PROVE Safe'
  <2>1. Current(p) \in Drivers /\ at[p] \in DOMAIN DrvList
    BY <1>2, CurrentIsADriver DEF Load, Placed, Active, States
  <2>2. TypeOK'
    BY <1>2, <2>1 DEF Load, TypeOK, Goto, States, systemVars, fixedVars, historyVars
  <2>3. Placed'
    BY <1>2, <2>1 DEF Load, Placed, Current, Goto, Active, TypeOK, Drivers, States
  <2> QED
    BY <1>2, <2>2, <2>3 DEF Load, Owned, OneCreator, systemVars
<1>3. ASSUME NEW p \in Procs, Create(p) PROVE Safe'
  <2> DEFINE d == Current(p)
  <2>1. d \in Services /\ at[p] \in DOMAIN DrvList
    BY <1>3 DEF Create, Placed, Active, States
  <2>2. UNCHANGED <<only, device, dev, pawnio, beside, blocked, library, crashes, alone, excused>>
    BY <1>3 DEF Create, fixedVars, historyVars
  <2>3. CASE /\ svc[d] = "none" /\ svc' = [svc EXCEPT ![d] = "exists"]
             /\ sch' = [sch EXCEPT ![p] = @ \cup {d}]
             /\ installed' = [installed EXCEPT ![p] = @ \cup {d}]
             /\ Goto(p, "start") /\ UNCHANGED at
    <3>1. TypeOK'
      BY <2>1, <2>2, <2>3 DEF TypeOK, Goto, States, Drivers
    <3>2. Placed'
      BY <2>1, <2>3 DEF Placed, Goto, Current, TypeOK, Active, States
    <3>3. \A q \in Procs : d \notin installed[q]
      BY <2>1, <2>3 DEF Owned
    <3>4. Owned' /\ OneCreator'
      BY <2>1, <2>3, <3>3 DEF Owned, OneCreator, TypeOK
    <3> QED
      BY <3>1, <3>2, <3>4
  <2>4. CASE Goto(p, "open") /\ UNCHANGED <<at, svc, sch, installed>>
    BY <2>1, <2>2, <2>4 DEF TypeOK, Goto, States, Placed, Current, Active, Owned, OneCreator
  <2>5. CASE Skip(p) /\ UNCHANGED <<svc, sch, installed>>
    <3>1. /\ pc' \in [Procs -> States] /\ at' \in [Procs -> Nat]
          /\ pc'[p] \in {"without", "load"}
          /\ pc'[p] = "load" => at'[p] \in DOMAIN DrvList
          /\ \A q \in Procs \ {p} : pc'[q] = pc[q] /\ at'[q] = at[q]
      BY <2>5, TryMoves DEF Skip
    <3>2. Placed'
      BY <2>5, <3>1 DEF Placed, Current, Active
    <3> QED
      BY <2>2, <2>5, <3>1, <3>2 DEF TypeOK, Owned, OneCreator
  <2> QED
    BY <1>3, <2>3, <2>4, <2>5 DEF Create
<1>4. ASSUME NEW p \in Procs, Open(p) PROVE Safe'
  <2> DEFINE d == Current(p)
  <2>1. d \in Services /\ at[p] \in DOMAIN DrvList
    BY <1>4 DEF Open, Placed, Active, States
  <2>2. UNCHANGED <<only, device, installed, svc, dev, pawnio, beside, blocked, library, crashes, alone, excused>>
    BY <1>4 DEF Open, systemVars, fixedVars, historyVars
  <2>3. CASE sch' = [sch EXCEPT ![p] = @ \cup {d}] /\ Goto(p, "start") /\ UNCHANGED at
    BY <2>1, <2>2, <2>3 DEF TypeOK, Goto, States, Placed, Current, Active, Owned, OneCreator
  <2>4. CASE Skip(p) /\ UNCHANGED sch
    <3>1. /\ pc' \in [Procs -> States] /\ at' \in [Procs -> Nat]
          /\ pc'[p] \in {"without", "load"}
          /\ pc'[p] = "load" => at'[p] \in DOMAIN DrvList
          /\ \A q \in Procs \ {p} : pc'[q] = pc[q] /\ at'[q] = at[q]
      BY <2>4, TryMoves DEF Skip
    <3>2. Placed'
      BY <2>2, <3>1 DEF Placed, Current, Active
    <3> QED
      BY <2>2, <2>4, <3>1, <3>2 DEF TypeOK, Owned, OneCreator
  <2> QED
    BY <1>4, <2>3, <2>4 DEF Open
<1>5. ASSUME NEW p \in Procs, Start(p) PROVE Safe'
  <2> DEFINE d == Current(p)
             starts == svc[d] = "exists" /\ dev[d] = "off" /\ d \notin blocked
  <2>1. d \in Services /\ at[p] \in DOMAIN DrvList
    BY <1>5 DEF Start, Placed, Active, States
  <2>2. UNCHANGED <<at, only, device, sch, installed, svc, pawnio, beside, blocked, library, crashes, alone>>
    BY <1>5 DEF Start, fixedVars
  <2>3. excused' = IF starts /\ d \notin installed[p] THEN excused \cup {d} ELSE excused
    BY <1>5 DEF Start
  <2>4. dev' = [dev EXCEPT ![d] = IF starts THEN "on" ELSE @]
    BY <1>5 DEF Start
  <2>5. Goto(p, "reload") \/ Goto(p, "undo")
    BY <1>5 DEF Start
  <2>6. excused' \subseteq Drivers /\ dev' \in [Services -> {"off", "on", "ending"}]
    BY <2>1, <2>3, <2>4 DEF TypeOK, Drivers
  <2> QED
    BY <2>1, <2>2, <2>5, <2>6 DEF TypeOK, Goto, States, Placed, Current, Active, Owned, OneCreator
<1>6. ASSUME NEW p \in Procs, Undo(p) PROVE Safe'
  <2> DEFINE d == Current(p)
             newSch == [sch EXCEPT ![p] = @ \ {d}]
             newSvc == [svc EXCEPT ![d] = IF d \in installed[p] THEN "deleted" ELSE @]
  <2>1. d \in Services /\ at[p] \in DOMAIN DrvList
    BY <1>6 DEF Undo, Placed, Active, States
  <2>2. /\ newSch \in [Procs -> SUBSET Services]
        /\ newSvc \in [Services -> {"none", "exists", "deleted"}]
    BY <2>1 DEF TypeOK
  <2>3. /\ device' = device /\ sch' = newSch
        /\ dev' \in [Services -> {"off", "on", "ending"}]
        /\ svc' \in [Services -> {"none", "exists", "deleted"}]
        /\ \A e \in Services : svc'[e] = newSvc[e] \/ newSvc[e] = "deleted"
    <3>1. Settle(device, newSch, dev, newSvc)
      BY <1>6 DEF Undo
    <3> HIDE DEF newSch, newSvc
    <3> QED
      BY <2>2, <3>1, SettleLeaves DEF TypeOK
  <2>4. installed' = [installed EXCEPT ![p] = @ \ {d}]
        /\ UNCHANGED <<only, pawnio, beside, blocked, library, crashes, alone, excused>>
    BY <1>6 DEF Undo, fixedVars, historyVars
  <2>5. /\ pc' \in [Procs -> States] /\ at' \in [Procs -> Nat]
        /\ pc'[p] \in {"without", "load"}
        /\ pc'[p] = "load" => at'[p] \in DOMAIN DrvList
        /\ \A q \in Procs \ {p} : pc'[q] = pc[q] /\ at'[q] = at[q]
    BY <1>6, TryMoves DEF Undo, Skip
  <2>6. TypeOK'
    BY <2>2, <2>3, <2>4, <2>5 DEF TypeOK
  <2>7. Placed'
    BY <2>4, <2>5 DEF Placed, Current, Active, TypeOK
  <2>8. OneCreator'
    BY <2>4 DEF OneCreator, TypeOK
  <2>9. Owned'
    <3> SUFFICES ASSUME NEW q \in Procs, NEW e \in installed'[q] \cap Services
                 PROVE  svc'[e] = "exists" /\ e \in sch'[q]
      BY DEF Owned
    <3>1. e \in installed[q] /\ svc[e] = "exists" /\ e \in sch[q]
      BY <2>4 DEF Owned, TypeOK
    <3>2. ~(q = p /\ e = d)
      BY <2>4 DEF TypeOK
    <3>3. e \in sch'[q]
      BY <2>3, <3>1, <3>2 DEF TypeOK
    <3>4. newSvc[e] = "exists"
      BY <2>1, <3>1, <3>2 DEF TypeOK, OneCreator
    <3> QED
      BY <2>3, <3>3, <3>4
  <2> QED
    BY <2>6, <2>7, <2>8, <2>9
<1>7. ASSUME NEW p \in Procs, Check(p) PROVE Safe'
  <2>1. Current(p) = PawnIO /\ at[p] \in DOMAIN DrvList
    BY <1>7 DEF Check, Placed, Active, States
  <2>2. UNCHANGED <<only, device, sch, installed, svc, dev, pawnio, beside, blocked, library, crashes, alone, excused>>
    BY <1>7 DEF Check, systemVars, fixedVars, historyVars
  <2>3. CASE (Goto(p, "reload") \/ Goto(p, "setup")) /\ UNCHANGED at
    BY <2>1, <2>2, <2>3 DEF TypeOK, Goto, States, Placed, Current, Active, Owned, OneCreator
  <2>4. CASE Skip(p)
    <3>1. /\ pc' \in [Procs -> States] /\ at' \in [Procs -> Nat]
          /\ pc'[p] \in {"without", "load"}
          /\ pc'[p] = "load" => at'[p] \in DOMAIN DrvList
          /\ \A q \in Procs \ {p} : pc'[q] = pc[q] /\ at'[q] = at[q]
      BY <2>4, TryMoves DEF Skip
    <3>2. Placed'
      BY <2>2, <3>1 DEF Placed, Current, Active
    <3> QED
      BY <2>2, <3>1, <3>2 DEF TypeOK, Owned, OneCreator
  <2> QED
    BY <1>7, <2>3, <2>4 DEF Check
<1>8. ASSUME NEW p \in Procs, Setup(p) PROVE Safe'
  <2>1. Current(p) = PawnIO /\ at[p] \in DOMAIN DrvList
    BY <1>8 DEF Setup, Placed, Active, States
  <2>2. TypeOK'
    BY <1>8 DEF Setup, TypeOK, Goto, States, Drivers, fixedVars, historyVars
  <2>3. Placed'
    BY <1>8, <2>1 DEF Setup, Placed, Goto, Current, Active, TypeOK
  <2> QED
    BY <1>8, <2>2, <2>3, DriverAssumption DEF Setup, Owned, OneCreator, TypeOK
<1>9. ASSUME NEW p \in Procs, Reload(p) PROVE Safe'
  <2>1. Current(p) \in Drivers /\ at[p] \in DOMAIN DrvList
    BY <1>9, CurrentIsADriver DEF Reload, Placed, Active, States
  <2>2. UNCHANGED <<only, sch, installed, svc, dev, pawnio, beside, blocked, library, crashes, alone>>
    BY <1>9 DEF Reload, systemVars, fixedVars
  <2>3. CASE /\ device' = [device EXCEPT ![p] = @ \cup {Current(p)}]
             /\ Goto(p, "using") /\ UNCHANGED <<at, excused>>
    BY <2>1, <2>2, <2>3 DEF TypeOK, Goto, States, Placed, Current, Active, Owned, OneCreator
  <2>4. CASE /\ Skip(p) /\ excused' = excused \cup ({Current(p)} \cap installed[p])
             /\ UNCHANGED device
    <3>1. /\ pc' \in [Procs -> States] /\ at' \in [Procs -> Nat]
          /\ pc'[p] \in {"without", "load"}
          /\ pc'[p] = "load" => at'[p] \in DOMAIN DrvList
          /\ \A q \in Procs \ {p} : pc'[q] = pc[q] /\ at'[q] = at[q]
      BY <2>4, TryMoves DEF Skip
    <3>2. Placed'
      BY <2>2, <3>1 DEF Placed, Current, Active
    <3>3. excused' \subseteq Drivers
      BY <2>1, <2>4 DEF TypeOK
    <3> QED
      BY <2>2, <2>4, <3>1, <3>2, <3>3 DEF TypeOK, Owned, OneCreator
  <2> QED
    BY <1>9, <2>3, <2>4 DEF Reload
<1>10. ASSUME NEW p \in Procs, Close(p) PROVE Safe'
  <2> DEFINE d == Current(p)
             newDevice == [device EXCEPT ![p] = @ \ {d}]
             newSch == IF d \in installed[p] THEN sch ELSE [sch EXCEPT ![p] = @ \ {d}]
             to == IF d \notin installed[p] THEN "end" ELSE IF d = PawnIO THEN "remove" ELSE "stop"
  <2>1. d \in Drivers /\ at[p] \in DOMAIN DrvList
    BY <1>10, CurrentIsADriver DEF Close, Placed, Active, States
  <2>2. newDevice \in [Procs -> SUBSET Drivers] /\ newSch \in [Procs -> SUBSET Services]
    BY DEF TypeOK
  <2>3. /\ device' = newDevice /\ sch' = newSch
        /\ dev' \in [Services -> {"off", "on", "ending"}]
        /\ svc' \in [Services -> {"none", "exists", "deleted"}]
        /\ \A e \in Services : svc'[e] = svc[e] \/ svc[e] = "deleted"
    <3>1. Settle(newDevice, newSch, dev, svc)
      BY <1>10 DEF Close
    <3> HIDE DEF newDevice, newSch
    <3> QED
      BY <2>2, <3>1, SettleLeaves DEF TypeOK
  <2>4. UNCHANGED <<at, only, installed, pawnio, beside, blocked, library, crashes, alone, excused>>
    BY <1>10 DEF Close, fixedVars, historyVars
  <2>5. Goto(p, to)
    BY <1>10 DEF Close
  <2>6. TypeOK'
    BY <2>2, <2>3, <2>4, <2>5 DEF TypeOK, Goto, States
  <2>7. Placed'
    BY <2>1, <2>4, <2>5 DEF Placed, Current, Goto, Active, TypeOK, Drivers, States
  <2>8. Owned'
    BY <2>3, <2>4 DEF Owned, TypeOK
  <2> QED
    BY <2>4, <2>6, <2>7, <2>8 DEF OneCreator
<1>11. ASSUME NEW p \in Procs, Stop(p) PROVE Safe'
  <2> DEFINE newDev == [dev EXCEPT ![Current(p)] = IF @ = "on" THEN "ending" ELSE @]
  <2>1. Current(p) \in Services /\ at[p] \in DOMAIN DrvList
    BY <1>11 DEF Stop, Placed, Active, States
  <2>2. newDev \in [Services -> {"off", "on", "ending"}]
    BY <2>1 DEF TypeOK
  <2>3. /\ device' = device /\ sch' = sch
        /\ dev' \in [Services -> {"off", "on", "ending"}]
        /\ svc' \in [Services -> {"none", "exists", "deleted"}]
        /\ \A e \in Services : svc'[e] = svc[e] \/ svc[e] = "deleted"
    <3>1. Settle(device, sch, newDev, svc)
      BY <1>11 DEF Stop
    <3> HIDE DEF newDev
    <3> QED
      BY <2>2, <3>1, SettleLeaves DEF TypeOK
  <2>4. UNCHANGED <<at, only, installed, pawnio, beside, blocked, library, crashes, alone, excused>>
        /\ Goto(p, "delete") /\ pc[p] = "stop"
    BY <1>11 DEF Stop, fixedVars, historyVars
  <2>5. TypeOK'
    BY <2>3, <2>4 DEF TypeOK, Goto, States
  <2>6. Placed'
    BY <2>1, <2>4 DEF Placed, Current, Goto, Active, TypeOK
  <2>7. Owned'
    BY <2>3, <2>4 DEF Owned, TypeOK
  <2> QED
    BY <2>4, <2>5, <2>6, <2>7 DEF OneCreator
<1>12. ASSUME NEW p \in Procs, Delete(p) PROVE Safe'
  <2> DEFINE d == Current(p)
             newSch == [sch EXCEPT ![p] = @ \ {d}]
             newSvc == [svc EXCEPT ![d] = "deleted"]
  <2>1. d \in Services /\ d \in installed[p]
    BY <1>12 DEF Delete, Placed
  <2>2. /\ newSch \in [Procs -> SUBSET Services]
        /\ newSvc \in [Services -> {"none", "exists", "deleted"}]
    BY <2>1 DEF TypeOK
  <2>3. /\ device' = device /\ sch' = newSch
        /\ dev' \in [Services -> {"off", "on", "ending"}]
        /\ svc' \in [Services -> {"none", "exists", "deleted"}]
        /\ \A e \in Services : svc'[e] = newSvc[e] \/ newSvc[e] = "deleted"
    <3>1. Settle(device, newSch, dev, newSvc)
      BY <1>12 DEF Delete
    <3> HIDE DEF newSch, newSvc
    <3> QED
      BY <2>2, <3>1, SettleLeaves DEF TypeOK
  <2>4. /\ installed' = [installed EXCEPT ![p] = @ \ {d}] /\ Goto(p, "end")
        /\ UNCHANGED <<at, only, pawnio, beside, blocked, library, crashes, alone, excused>>
    BY <1>12 DEF Delete, fixedVars, historyVars
  <2>5. TypeOK'
    BY <2>2, <2>3, <2>4 DEF TypeOK, Goto, States
  <2>6. Placed'
    BY <2>4 DEF Placed, Current, Goto, Active, TypeOK
  <2>7. OneCreator'
    BY <2>4 DEF OneCreator, TypeOK
  <2>8. Owned'
    <3> SUFFICES ASSUME NEW q \in Procs, NEW e \in installed'[q] \cap Services
                 PROVE  svc'[e] = "exists" /\ e \in sch'[q]
      BY DEF Owned
    <3>1. e \in installed[q] /\ svc[e] = "exists" /\ e \in sch[q]
      BY <2>4 DEF Owned, TypeOK
    <3>2. ~(q = p /\ e = d)
      BY <2>4 DEF TypeOK
    <3>3. e # d
      BY <2>1, <3>1, <3>2 DEF OneCreator
    <3> QED
      BY <2>3, <3>1, <3>3 DEF TypeOK
  <2> QED
    BY <2>5, <2>6, <2>7, <2>8
<1>13. ASSUME NEW p \in Procs, Remove(p) PROVE Safe'
  <2>1. TypeOK'
    BY <1>13 DEF Remove, TypeOK, Goto, States, fixedVars, historyVars
  <2>2. Placed'
    BY <1>13 DEF Remove, Placed, Current, Goto, Active, TypeOK
  <2> QED
    BY <1>13, <2>1, <2>2 DEF Remove, Owned, OneCreator, TypeOK
<1>14. ASSUME NEW p \in Procs, Keep(p) PROVE Safe'
  <2>1. TypeOK'
    BY <1>14 DEF Keep, TypeOK, Drivers, systemVars, fixedVars
  <2>2. Placed'
    BY <1>14 DEF Keep, Placed, Current, TypeOK
  <2> QED
    BY <1>14, <2>1, <2>2 DEF Keep, Owned, OneCreator, TypeOK, systemVars
<1>15. ASSUME NEW p \in Procs, Gone(p), crashes' \in 0..MaxCrashes, excused' \subseteq Drivers PROVE Safe'
  <2> DEFINE newDevice == [device EXCEPT ![p] = {}]
             newSch == [sch EXCEPT ![p] = {}]
  <2>2. newDevice \in [Procs -> SUBSET Drivers] /\ newSch \in [Procs -> SUBSET Services]
    BY DEF TypeOK
  <2>3. /\ device' = newDevice /\ sch' = newSch
        /\ dev' \in [Services -> {"off", "on", "ending"}]
        /\ svc' \in [Services -> {"none", "exists", "deleted"}]
        /\ \A e \in Services : svc'[e] = svc[e] \/ svc[e] = "deleted"
    <3>1. Settle(newDevice, newSch, dev, svc)
      BY <1>15 DEF Gone
    <3> HIDE DEF newDevice, newSch
    <3> QED
      BY <2>2, <3>1, SettleLeaves DEF TypeOK
  <2>4. /\ installed' = [installed EXCEPT ![p] = {}] /\ Goto(p, "idle")
        /\ UNCHANGED <<at, only, pawnio, beside, blocked, library, alone>>
    BY <1>15 DEF Gone, fixedVars
  <2>5. TypeOK'
    BY <1>15, <2>2, <2>3, <2>4 DEF TypeOK, Goto, States
  <2>6. Placed'
    BY <2>4 DEF Placed, Current, Goto, Active, TypeOK
  <2>7. Owned' /\ OneCreator'
    BY <2>3, <2>4 DEF Owned, OneCreator, TypeOK
  <2> QED
    BY <2>5, <2>6, <2>7
<1>16. ASSUME NEW p \in Procs, End(p) PROVE Safe'
  BY <1>15, <1>16 DEF End, TypeOK
<1>17. ASSUME NEW p \in Procs, Crash(p) PROVE Safe'
  <2>1. crashes' \in 0..MaxCrashes
    BY <1>17, CrashAssumption DEF Crash, TypeOK
  <2>2. excused' \subseteq Drivers
    BY <1>17 DEF Crash, TypeOK
  <2> QED
    BY <1>15, <1>17, <2>1, <2>2 DEF Crash
<1>18. CASE UNCHANGED vars
  BY <1>18 DEF vars, procVars, systemVars, fixedVars, historyVars, TypeOK, Placed, Current, Owned, OneCreator
<1> QED
  BY <1>1, <1>2, <1>3, <1>4, <1>5, <1>6, <1>7, <1>8, <1>9, <1>10, <1>11, <1>12, <1>13, <1>14,
     <1>16, <1>17, <1>18 DEF Next, OpenDriver, CloseDriver

----------------------------------------------------------------------------

LEMMA SafeAlways == Spec => []Safe
  BY SafeInit, SafeStep, PTL DEF Spec

\* Every variable stays in its type.
THEOREM TypeCorrect == Spec => []TypeOK
<1>1. Safe => TypeOK
  BY DEF Safe
<1> QED
  BY SafeAlways, <1>1, PTL

\* Two processes never take the same service record for their own, so nobody
\* deletes a service another process has created (ioctl.c:22-48, 80-104).
THEOREM CreatorsAreUnique == Spec => []OneCreator
<1>1. Safe => OneCreator
  BY DEF Safe
<1> QED
  BY SafeAlways, <1>1, PTL

----------------------------------------------------------------------------
(* Left.                                                                    *)

\* Steps that leave the system alone, and take no flag of a driver that is not
\* excused from a process, keep Kept.
LEMMA KeptByGrowth ==
    ASSUME Kept, UNCHANGED <<svc, dev, pawnio>>, excused \subseteq excused',
           \A q \in Procs : /\ installed[q] \ excused' \subseteq installed'[q]
                           /\ sch[q] \subseteq sch'[q] /\ device[q] \subseteq device'[q]
    PROVE  Kept'
<1>1. pawnio' /\ PawnIO \notin excused' => \E p \in Procs : PawnIO \in installed'[p]
  BY DEF Kept
<1>2. ASSUME NEW d \in Services
      PROVE  /\ d \notin excused' /\ (svc'[d] = "exists" \/ dev'[d] = "on") => \E p \in Procs : d \in installed'[p]
             /\ svc'[d] = "deleted" /\ dev'[d] = "off" => \E p \in Procs : d \in sch'[p]
             /\ dev'[d] = "ending" => \E p \in Procs : d \in device'[p]
  BY DEF Kept
<1> QED
  BY <1>1, <1>2 DEF Kept

\* A step that ends in Settle keeps Kept if it leaves a flag for whatever it
\* leaves there.
LEMMA KeptAfterSettle ==
    ASSUME NEW newDevice \in [Procs -> SUBSET Drivers], NEW newSch \in [Procs -> SUBSET Services],
           NEW newDev \in [Services -> {"off", "on", "ending"}],
           NEW newSvc \in [Services -> {"none", "exists", "deleted"}],
           Settle(newDevice, newSch, newDev, newSvc),
           pawnio' /\ PawnIO \notin excused' => \E p \in Procs : PawnIO \in installed'[p],
           \A d \in Services \ excused' :
               newSvc[d] = "exists" \/ newDev[d] = "on" => \E p \in Procs : d \in installed'[p]
    PROVE  Kept'
<1>1. \A d \in Services :
        /\ dev'[d] # newDev[d] => dev'[d] = "off" /\ newDev[d] = "ending"
        /\ svc'[d] # newSvc[d] => svc'[d] = "none" /\ newSvc[d] = "deleted"
        /\ svc'[d] = "deleted" /\ dev'[d] = "off" => \E p \in Procs : d \in sch'[p]
        /\ dev'[d] = "ending" => \E p \in Procs : d \in device'[p]
  BY SettleLeaves
<1> QED
  BY <1>1 DEF Kept

\* The states of drivers after a step that ends in Settle.
LEMMA DevAfterSettle ==
    ASSUME NEW newDevice \in [Procs -> SUBSET Drivers], NEW newSch \in [Procs -> SUBSET Services],
           NEW newDev \in [Services -> {"off", "on", "ending"}],
           NEW newSvc \in [Services -> {"none", "exists", "deleted"}],
           Settle(newDevice, newSch, newDev, newSvc),
           NEW d \in Services
    PROVE  /\ newDev[d] = "off" => dev'[d] = "off"
           /\ newDev[d] # "on" => dev'[d] # "on"
<1>1. dev'[d] # newDev[d] => dev'[d] = "off" /\ newDev[d] = "ending"
  BY SettleLeaves
<1> QED
  BY <1>1

LEMMA LeftInit == Init => Left
<1> SUFFICES ASSUME Init PROVE Left
  OBVIOUS
<1>1. Busy
  BY DEF Init, Busy
<1>2. Refused
  BY DEF Init, Refused
<1>3. Kept
  BY DEF Init, Kept
<1> QED
  BY <1>1, <1>2, <1>3 DEF Left

LEMMA LeftStep ==
    ASSUME Safe, Left, [Next]_vars
    PROVE  Left'
<1> USE DEF Safe, Left
<1>1. ASSUME NEW p \in Procs, NEW from, NEW allowed, Try(p, from, allowed),
             UNCHANGED <<sch, svc, dev, pawnio, blocked, installed, device>>, excused \subseteq excused',
             installed[p] \subseteq excused'
      PROVE  Left'
  <2>1. /\ pc' \in [Procs -> States] /\ pc'[p] \in {"without", "load"}
        /\ \A q \in Procs \ {p} : pc'[q] = pc[q] /\ at'[q] = at[q]
    BY <1>1, TryMoves
  <2>2. Busy'
    BY <1>1, <2>1 DEF Busy, Current
  <2>3. Refused'
    BY <1>1, <2>1 DEF Refused, Current
  <2>4. Kept'
    BY <1>1, KeptByGrowth
  <2> QED
    BY <2>2, <2>3, <2>4
<1>2. ASSUME NEW p \in Procs, pc[p] \notin {"start", "undo", "reload", "using", "stop", "delete", "remove"}
      PROVE  installed[p] \subseteq excused
  BY <1>2 DEF Busy
<1>3. ASSUME NEW p \in Procs, Begin(p) PROVE Left'
  <2>1. PICK allowed : Try(p, 1, allowed)
    BY <1>3 DEF Begin
  <2>2. UNCHANGED <<sch, svc, dev, pawnio, blocked, installed, device, excused>> /\ pc[p] = "idle"
    BY <1>3 DEF Begin, systemVars, fixedVars
  <2> QED
    BY <1>1, <1>2, <2>1, <2>2
<1>4. ASSUME NEW p \in Procs, Load(p) PROVE Left'
  <2>1. UNCHANGED <<at, sch, installed, svc, dev, pawnio, blocked, excused>>
    BY <1>4 DEF Load, systemVars, fixedVars, historyVars
  <2>2. pc[p] = "load" /\ (Goto(p, "using") \/ Goto(p, "check") \/ Goto(p, "create"))
    BY <1>4 DEF Load
  <2>3. \A q \in Procs : device[q] \subseteq device'[q]
    BY <1>4 DEF Load, TypeOK
  <2>4. Busy' /\ Refused'
    BY <1>2, <2>1, <2>2 DEF Busy, Refused, Current, Goto, TypeOK
  <2>5. Kept'
    BY <2>1, <2>3, KeptByGrowth
  <2> QED
    BY <2>4, <2>5
<1>5. ASSUME NEW p \in Procs, Create(p) PROVE Left'
  <2> DEFINE d == Current(p)
  <2>1. d \in Services /\ pc[p] = "create" /\ installed[p] \subseteq excused
    BY <1>2, <1>5 DEF Create, Placed
  <2>2. UNCHANGED <<only, device, dev, pawnio, blocked, excused>>
    BY <1>5 DEF Create, fixedVars, historyVars
  <2>3. CASE /\ svc' = [svc EXCEPT ![d] = "exists"]
             /\ sch' = [sch EXCEPT ![p] = @ \cup {d}]
             /\ installed' = [installed EXCEPT ![p] = @ \cup {d}]
             /\ Goto(p, "start") /\ UNCHANGED at
    <3>1. Busy' /\ Refused'
      BY <2>1, <2>2, <2>3 DEF Busy, Refused, Current, Goto, TypeOK
    <3>2. \A q \in Procs : installed[q] \subseteq installed'[q] /\ sch[q] \subseteq sch'[q]
      BY <2>3 DEF TypeOK
    <3>3. d \in installed'[p]
      BY <2>3 DEF TypeOK
    <3>4. \A e \in Services \ {d} : svc'[e] = svc[e]
      BY <2>1, <2>3 DEF TypeOK
    <3>5. svc'[d] = "exists"
      BY <2>1, <2>3 DEF TypeOK
    <3>6. ASSUME NEW e \in Services
          PROVE /\ e \notin excused' /\ (svc'[e] = "exists" \/ dev'[e] = "on") => \E q \in Procs : e \in installed'[q]
                /\ svc'[e] = "deleted" /\ dev'[e] = "off" => \E q \in Procs : e \in sch'[q]
                /\ dev'[e] = "ending" => \E q \in Procs : e \in device'[q]
      BY <2>2, <3>2, <3>3, <3>4, <3>5 DEF Kept
    <3>7. Kept'
      BY <2>2, <3>2, <3>6 DEF Kept
    <3> QED
      BY <3>1, <3>7
  <2>4. CASE Goto(p, "open") /\ UNCHANGED <<at, svc, sch, installed>>
    <3>1. Busy' /\ Refused'
      BY <2>1, <2>2, <2>4 DEF Busy, Refused, Current, Goto, TypeOK
    <3>2. Kept'
      BY <2>2, <2>4, KeptByGrowth
    <3> QED
      BY <3>1, <3>2
  <2>5. CASE Skip(p) /\ UNCHANGED <<svc, sch, installed>>
    BY <1>1, <2>1, <2>2, <2>5 DEF Skip
  <2> QED
    BY <1>5, <2>3, <2>4, <2>5 DEF Create
<1>6. ASSUME NEW p \in Procs, Open(p) PROVE Left'
  <2> DEFINE d == Current(p)
  <2>1. pc[p] = "open" /\ installed[p] \subseteq excused
    BY <1>2, <1>6 DEF Open
  <2>2. UNCHANGED <<device, installed, svc, dev, pawnio, blocked, excused>>
    BY <1>6 DEF Open, systemVars, fixedVars, historyVars
  <2>3. CASE sch' = [sch EXCEPT ![p] = @ \cup {d}] /\ Goto(p, "start") /\ UNCHANGED at
    <3>1. Busy' /\ Refused'
      BY <2>1, <2>2, <2>3 DEF Busy, Refused, Current, Goto, TypeOK
    <3>2. \A q \in Procs : sch[q] \subseteq sch'[q]
      BY <2>3 DEF TypeOK
    <3>3. Kept'
      BY <2>2, <3>2, KeptByGrowth
    <3> QED
      BY <3>1, <3>3
  <2>4. CASE Skip(p) /\ UNCHANGED sch
    BY <1>1, <2>1, <2>2, <2>4 DEF Skip
  <2> QED
    BY <1>6, <2>3, <2>4 DEF Open
<1>7. ASSUME NEW p \in Procs, Start(p) PROVE Left'
  <2> DEFINE d == Current(p)
             starts == svc[d] = "exists" /\ dev[d] = "off" /\ d \notin blocked
  <2>1. d \in Services /\ pc[p] = "start"
    BY <1>7 DEF Start, Placed
  <2>2. UNCHANGED <<at, device, sch, installed, svc, pawnio, blocked>>
    BY <1>7 DEF Start, fixedVars
  <2>3. excused' = IF starts /\ d \notin installed[p] THEN excused \cup {d} ELSE excused
    BY <1>7 DEF Start
  <2>4. dev' = [dev EXCEPT ![d] = IF starts THEN "on" ELSE @]
    BY <1>7 DEF Start
  <2>5. pc' = [pc EXCEPT ![p] = IF starts \/ (svc[d] = "exists" /\ dev[d] # "off") THEN "reload" ELSE "undo"]
    BY <1>7 DEF Start, Goto
  <2>6. excused \subseteq excused' /\ (starts /\ d \notin excused' => d \in installed[p])
    BY <2>3
  <2>7. dev' \in [Services -> {"off", "on", "ending"}] /\ \A e \in Services \ {d} : dev'[e] = dev[e]
    BY <2>1, <2>4 DEF TypeOK
  <2>8. dev'[d] = IF starts THEN "on" ELSE dev[d]
    BY <2>1, <2>4 DEF TypeOK
  <2>9. /\ pc'[p] = IF starts \/ (svc[d] = "exists" /\ dev[d] # "off") THEN "reload" ELSE "undo"
        /\ \A q \in Procs \ {p} : pc'[q] = pc[q]
        /\ \A q \in Procs : Current(q)' = Current(q)
    BY <2>2, <2>5 DEF TypeOK, Current
  <2>10. Busy'
    BY <2>1, <2>2, <2>6, <2>9 DEF Busy
  <2>11. Refused'
    <3>1. ASSUME NEW e \in blocked' PROVE dev'[e] = "off"
      <4>1. e \in Services
        BY <2>2, <3>1 DEF TypeOK
      <4> QED
        BY <2>2, <2>7, <2>8, <3>1, <4>1 DEF Refused
    <3>2. ASSUME NEW q \in Procs, pc'[q] = "undo", Current(q)' \in installed'[q]
          PROVE  Current(q)' \in blocked'
      <4>1. CASE q = p
        <5>1. svc[d] = "exists"
          BY <2>1, <2>2, <2>9, <3>2, <4>1 DEF Owned
        <5> QED
          BY <2>1, <2>2, <2>9, <3>2, <4>1, <5>1
      <4>2. CASE q # p
        BY <2>2, <2>9, <3>2, <4>2 DEF Refused
      <4> QED
        BY <4>1, <4>2
    <3>3. ASSUME NEW q \in Procs, pc'[q] = "delete", Current(q)' \notin excused'
          PROVE  dev'[Current(q)'] # "on"
      <4>1. q # p /\ pc[q] = "delete" /\ Current(q) \notin excused /\ Current(q)' = Current(q)
        BY <2>6, <2>9, <3>3
      <4>2. dev[Current(q)] # "on" /\ Current(q) \in Services /\ Current(q) \in installed[q]
        BY <4>1 DEF Refused, Placed
      <4>3. CASE Current(q) = d
        <5>1. ~starts
          BY <2>6, <3>3, <4>1, <4>2, <4>3 DEF OneCreator
        <5> QED
          BY <2>8, <4>1, <4>2, <4>3, <5>1
      <4>4. CASE Current(q) # d
        BY <2>7, <4>1, <4>2, <4>4
      <4> QED
        BY <4>3, <4>4
    <3> QED
      BY <3>1, <3>2, <3>3 DEF Refused
  <2>12. Kept'
    <3>1. ASSUME NEW e \in Services
          PROVE /\ e \notin excused' /\ (svc'[e] = "exists" \/ dev'[e] = "on") => \E q \in Procs : e \in installed'[q]
                /\ svc'[e] = "deleted" /\ dev'[e] = "off" => \E q \in Procs : e \in sch'[q]
                /\ dev'[e] = "ending" => \E q \in Procs : e \in device'[q]
      BY <2>2, <2>6, <2>7, <2>8 DEF Kept
    <3> QED
      BY <2>2, <2>6, <3>1 DEF Kept
  <2> QED
    BY <2>10, <2>11, <2>12
<1>8. ASSUME NEW p \in Procs, Undo(p) PROVE Left'
  <2> DEFINE d == Current(p)
             newSch == [sch EXCEPT ![p] = @ \ {d}]
             newSvc == [svc EXCEPT ![d] = IF d \in installed[p] THEN "deleted" ELSE @]
  <2>1. d \in Services /\ pc[p] = "undo"
    BY <1>8 DEF Undo, Placed
  <2>2. /\ newSch \in [Procs -> SUBSET Services]
        /\ newSvc \in [Services -> {"none", "exists", "deleted"}]
    BY <2>1 DEF TypeOK
  <2>3. installed' = [installed EXCEPT ![p] = @ \ {d}] /\ UNCHANGED <<pawnio, blocked, excused>>
    BY <1>8 DEF Undo, fixedVars, historyVars
  <2>4. Settle(device, newSch, dev, newSvc)
    BY <1>8 DEF Undo
  <2>5. /\ pc' \in [Procs -> States] /\ pc'[p] \in {"without", "load"}
        /\ \A q \in Procs \ {p} : pc'[q] = pc[q] /\ at'[q] = at[q]
    BY <1>8, TryMoves DEF Undo, Skip
  <2>6. /\ installed'[p] = installed[p] \ {d}
        /\ \A q \in Procs \ {p} : installed'[q] = installed[q]
    BY <2>3 DEF TypeOK
  <2>7. Busy'
    BY <2>3, <2>5, <2>6 DEF Busy, Current
  <2>8. \A e \in Services : (dev[e] = "off" => dev'[e] = "off") /\ (dev[e] # "on" => dev'[e] # "on")
    <3> HIDE DEF newSch, newSvc
    <3> QED
      BY <2>2, <2>4, DevAfterSettle DEF TypeOK
  <2>9. Refused'
    <3>1. \A q \in Procs : pc'[q] = "undo" \/ pc'[q] = "delete" => q # p /\ pc[q] = pc'[q] /\ Current(q)' = Current(q)
      BY <2>5 DEF Current
    <3>2. blocked \subseteq Services /\ \A q \in Procs : pc[q] = "delete" => Current(q) \in Services
      BY DEF TypeOK, Placed
    <3> QED
      BY <2>3, <2>6, <2>8, <3>1, <3>2 DEF Refused
  <2>10. ASSUME NEW e \in Services \ excused', newSvc[e] = "exists" \/ dev[e] = "on"
         PROVE  \E q \in Procs : e \in installed'[q]
    <3>1. svc[e] = "exists" \/ dev[e] = "on"
      BY <2>1, <2>10 DEF TypeOK
    <3>2. PICK q \in Procs : e \in installed[q]
      BY <2>3, <3>1 DEF Kept
    <3>3. ~(q = p /\ e = d)
      <4> SUFFICES ASSUME q = p, e = d PROVE FALSE
        OBVIOUS
      <4>1. newSvc[e] = "deleted"
        BY <2>1, <3>2 DEF TypeOK
      <4>2. dev[e] = "off"
        BY <2>1, <3>2 DEF Refused
      <4> QED
        BY <2>10, <4>1, <4>2
    <3> QED
      BY <2>6, <3>2, <3>3
  <2>11. pawnio' /\ PawnIO \notin excused' => \E q \in Procs : PawnIO \in installed'[q]
    BY <2>1, <2>3, <2>6, DriverAssumption DEF Kept
  <2>12. Kept'
    <3> HIDE DEF newSch, newSvc
    <3> QED
      BY <2>2, <2>4, <2>10, <2>11, KeptAfterSettle DEF TypeOK
  <2> QED
    BY <2>7, <2>9, <2>12
<1>9. ASSUME NEW p \in Procs, Check(p) PROVE Left'
  <2>1. pc[p] = "check" /\ installed[p] \subseteq excused
    BY <1>2, <1>9 DEF Check
  <2>2. UNCHANGED <<device, sch, installed, svc, dev, pawnio, blocked, excused>>
    BY <1>9 DEF Check, systemVars, fixedVars, historyVars
  <2>3. CASE (Goto(p, "reload") \/ Goto(p, "setup")) /\ UNCHANGED at
    <3>1. Busy' /\ Refused'
      BY <2>1, <2>2, <2>3 DEF Busy, Refused, Current, Goto, TypeOK
    <3>2. Kept'
      BY <2>2, KeptByGrowth
    <3> QED
      BY <3>1, <3>2
  <2>4. CASE Skip(p)
    BY <1>1, <2>1, <2>2, <2>4 DEF Skip
  <2> QED
    BY <1>9, <2>3, <2>4 DEF Check
<1>10. ASSUME NEW p \in Procs, Setup(p) PROVE Left'
  <2>1. /\ pc[p] = "setup" /\ Goto(p, "reload") /\ Current(p) = PawnIO
        /\ installed' = [installed EXCEPT ![p] = @ \cup {PawnIO}]
        /\ UNCHANGED <<at, device, sch, svc, dev, blocked, excused>>
    BY <1>10 DEF Setup, Placed, fixedVars, historyVars
  <2>2. installed[p] \subseteq excused
    BY <1>2, <2>1
  <2>3. Busy' /\ Refused'
    BY <2>1, <2>2 DEF Busy, Refused, Current, Goto, TypeOK
  <2>4. PawnIO \in installed'[p] /\ \A q \in Procs : installed[q] \subseteq installed'[q]
    BY <2>1 DEF TypeOK
  <2>5. Kept'
    BY <2>1, <2>4 DEF Kept
  <2> QED
    BY <2>3, <2>5
<1>11. ASSUME NEW p \in Procs, Reload(p) PROVE Left'
  <2>1. pc[p] = "reload" /\ UNCHANGED <<sch, installed, svc, dev, pawnio, blocked>>
    BY <1>11 DEF Reload, systemVars, fixedVars
  <2>2. CASE /\ device' = [device EXCEPT ![p] = @ \cup {Current(p)}]
             /\ Goto(p, "using") /\ UNCHANGED <<at, excused>>
    <3>1. Busy' /\ Refused'
      BY <2>1, <2>2 DEF Busy, Refused, Current, Goto, TypeOK
    <3>2. \A q \in Procs : device[q] \subseteq device'[q]
      BY <2>2 DEF TypeOK
    <3>3. Kept'
      BY <2>1, <2>2, <3>2, KeptByGrowth
    <3> QED
      BY <3>1, <3>3
  <2>3. CASE /\ Skip(p) /\ excused' = excused \cup ({Current(p)} \cap installed[p])
             /\ UNCHANGED device
    <3>1. installed[p] \subseteq excused'
      BY <2>3 DEF Busy
    <3> QED
      BY <1>1, <2>1, <2>3, <3>1 DEF Skip
  <2> QED
    BY <1>11, <2>2, <2>3 DEF Reload
<1>12. ASSUME NEW p \in Procs, Close(p) PROVE Left'
  <2> DEFINE d == Current(p)
             newDevice == [device EXCEPT ![p] = @ \ {d}]
             newSch == IF d \in installed[p] THEN sch ELSE [sch EXCEPT ![p] = @ \ {d}]
  <2>1. newDevice \in [Procs -> SUBSET Drivers] /\ newSch \in [Procs -> SUBSET Services]
    BY DEF TypeOK
  <2>2. Settle(newDevice, newSch, dev, svc)
    BY <1>12 DEF Close
  <2>3. pc[p] = "using" /\ UNCHANGED <<at, installed, pawnio, blocked, excused>>
    BY <1>12 DEF Close, fixedVars, historyVars
  <2>4. \/ d \notin installed[p] /\ Goto(p, "end")
        \/ d \in installed[p] /\ (Goto(p, "remove") \/ Goto(p, "stop"))
    BY <1>12 DEF Close
  <2>5. \A e \in Services : (dev[e] = "off" => dev'[e] = "off") /\ (dev[e] # "on" => dev'[e] # "on")
    <3> HIDE DEF newDevice, newSch
    <3> QED
      BY <2>1, <2>2, DevAfterSettle DEF TypeOK
  <2>6. Busy'
    BY <2>3, <2>4 DEF Busy, Current, Goto, TypeOK
  <2>7. Refused'
    <3>1. \A q \in Procs : pc'[q] = "undo" \/ pc'[q] = "delete" => pc[q] = pc'[q] /\ Current(q)' = Current(q)
      BY <2>3, <2>4 DEF Goto, Current, TypeOK
    <3>2. blocked \subseteq Services /\ \A q \in Procs : pc[q] = "delete" => Current(q) \in Services
      BY DEF TypeOK, Placed
    <3> QED
      BY <2>3, <2>5, <3>1, <3>2 DEF Refused
  <2>8. Kept'
    <3>1. \A e \in Services \ excused' : svc[e] = "exists" \/ dev[e] = "on" => \E q \in Procs : e \in installed'[q]
      BY <2>3 DEF Kept
    <3>2. pawnio' /\ PawnIO \notin excused' => \E q \in Procs : PawnIO \in installed'[q]
      BY <2>3 DEF Kept
    <3> HIDE DEF newDevice, newSch
    <3> QED
      BY <2>1, <2>2, <3>1, <3>2, KeptAfterSettle DEF TypeOK
  <2> QED
    BY <2>6, <2>7, <2>8
<1>13. ASSUME NEW p \in Procs, Stop(p) PROVE Left'
  <2> DEFINE d == Current(p)
             newDev == [dev EXCEPT ![d] = IF @ = "on" THEN "ending" ELSE @]
  <2>1. d \in Services /\ d \in installed[p]
    BY <1>13 DEF Stop, Placed
  <2>2. newDev \in [Services -> {"off", "on", "ending"}] /\ newDev[d] # "on"
        /\ \A e \in Services : (dev[e] = "off" => newDev[e] = "off") /\ (newDev[e] = "on" => dev[e] = "on")
    BY <2>1 DEF TypeOK
  <2>3. Settle(device, sch, newDev, svc)
    BY <1>13 DEF Stop
  <2>4. UNCHANGED <<at, installed, pawnio, blocked, excused>> /\ Goto(p, "delete") /\ pc[p] = "stop"
    BY <1>13 DEF Stop, fixedVars, historyVars
  <2>5. \A e \in Services : (newDev[e] = "off" => dev'[e] = "off") /\ (newDev[e] # "on" => dev'[e] # "on")
    <3> HIDE DEF newDev
    <3> QED
      BY <2>2, <2>3, DevAfterSettle DEF TypeOK
  <2>6. Busy'
    BY <2>4 DEF Busy, Current, Goto, TypeOK
  <2>7. Refused'
    <3>1. /\ \A q \in Procs : Current(q)' = Current(q)
          /\ \A q \in Procs \ {p} : pc'[q] = pc[q]
          /\ pc'[p] = "delete"
      BY <2>4 DEF Goto, Current, TypeOK
    <3>2. blocked \subseteq Services /\ \A q \in Procs : pc[q] = "delete" => Current(q) \in Services
      BY DEF TypeOK, Placed
    <3>3. \A e \in Services : (dev[e] = "off" => dev'[e] = "off") /\ (dev[e] # "on" => dev'[e] # "on") /\ dev'[d] # "on"
      <4> HIDE DEF newDev
      <4> QED
        BY <2>1, <2>2, <2>5
    <3>4. ASSUME NEW q \in Procs, pc'[q] = "delete", Current(q)' \notin excused'
          PROVE  dev'[Current(q)'] # "on"
      <4>1. CASE q = p
        BY <2>1, <3>1, <3>3, <4>1
      <4>2. CASE q # p
        BY <2>4, <3>1, <3>2, <3>3, <3>4, <4>2 DEF Refused
      <4> QED
        BY <4>1, <4>2
    <3>5. \A e \in blocked' : dev'[e] = "off"
      BY <2>4, <3>2, <3>3 DEF Refused
    <3>6. ASSUME NEW q \in Procs, pc'[q] = "undo", Current(q)' \in installed'[q]
          PROVE  Current(q)' \in blocked'
      BY <2>4, <3>1, <3>6 DEF Refused
    <3> QED
      BY <3>4, <3>5, <3>6 DEF Refused
  <2>8. Kept'
    <3>1. \A e \in Services \ excused' : svc[e] = "exists" \/ newDev[e] = "on" => \E q \in Procs : e \in installed'[q]
      BY <2>2, <2>4 DEF Kept
    <3>2. pawnio' /\ PawnIO \notin excused' => \E q \in Procs : PawnIO \in installed'[q]
      BY <2>4 DEF Kept
    <3> HIDE DEF newDev
    <3> QED
      BY <2>2, <2>3, <3>1, <3>2, KeptAfterSettle DEF TypeOK
  <2> QED
    BY <2>6, <2>7, <2>8
<1>14. ASSUME NEW p \in Procs, Delete(p) PROVE Left'
  <2> DEFINE d == Current(p)
             newSch == [sch EXCEPT ![p] = @ \ {d}]
             newSvc == [svc EXCEPT ![d] = "deleted"]
  <2>1. d \in Services /\ d \in installed[p] /\ pc[p] = "delete"
    BY <1>14 DEF Delete, Placed
  <2>2. /\ newSch \in [Procs -> SUBSET Services]
        /\ newSvc \in [Services -> {"none", "exists", "deleted"}]
    BY <2>1 DEF TypeOK
  <2>3. Settle(device, newSch, dev, newSvc)
    BY <1>14 DEF Delete
  <2>4. /\ installed' = [installed EXCEPT ![p] = @ \ {d}] /\ Goto(p, "end")
        /\ UNCHANGED <<at, pawnio, blocked, excused>>
    BY <1>14 DEF Delete, fixedVars, historyVars
  <2>5. /\ installed'[p] = installed[p] \ {d}
        /\ \A q \in Procs \ {p} : installed'[q] = installed[q] /\ pc'[q] = pc[q]
        /\ \A q \in Procs : Current(q)' = Current(q)
        /\ pc'[p] = "end"
    BY <2>4 DEF Goto, TypeOK, Current
  <2>6. Busy'
    BY <2>4, <2>5 DEF Busy
  <2>7. \A e \in Services : (dev[e] = "off" => dev'[e] = "off") /\ (dev[e] # "on" => dev'[e] # "on")
    <3> HIDE DEF newSch, newSvc
    <3> QED
      BY <2>2, <2>3, DevAfterSettle DEF TypeOK
  <2>8. Refused'
    <3>1. blocked \subseteq Services /\ \A q \in Procs : pc[q] = "delete" => Current(q) \in Services
      BY DEF TypeOK, Placed
    <3> QED
      BY <2>4, <2>5, <2>7, <3>1 DEF Refused
  <2>9. ASSUME NEW e \in Services \ excused', newSvc[e] = "exists" \/ dev[e] = "on"
        PROVE  \E q \in Procs : e \in installed'[q]
    <3>1. e # d
      BY <2>1, <2>4, <2>9 DEF Refused, TypeOK
    <3>2. PICK q \in Procs : e \in installed[q]
      BY <2>4, <2>9, <3>1 DEF Kept, TypeOK
    <3> QED
      BY <2>5, <3>1, <3>2
  <2>10. pawnio' /\ PawnIO \notin excused' => \E q \in Procs : PawnIO \in installed'[q]
    BY <2>1, <2>4, <2>5, DriverAssumption DEF Kept
  <2>11. Kept'
    <3> HIDE DEF newSch, newSvc
    <3> QED
      BY <2>2, <2>3, <2>9, <2>10, KeptAfterSettle DEF TypeOK
  <2> QED
    BY <2>6, <2>8, <2>11
<1>15. ASSUME NEW p \in Procs, Remove(p) PROVE Left'
  <2>1. /\ pc[p] = "remove" /\ ~pawnio' /\ Goto(p, "end") /\ Current(p) = PawnIO
        /\ installed' = [installed EXCEPT ![p] = @ \ {PawnIO}]
        /\ UNCHANGED <<at, device, sch, svc, dev, blocked, excused>>
    BY <1>15 DEF Remove, Placed, fixedVars, historyVars
  <2>2. Busy' /\ Refused'
    BY <2>1 DEF Busy, Refused, Current, Goto, TypeOK
  <2>3. \A q \in Procs : installed[q] \ {PawnIO} \subseteq installed'[q]
    BY <2>1 DEF TypeOK
  <2>4. \A e \in Services : e # PawnIO
    BY DriverAssumption
  <2>5. ASSUME NEW e \in Services
        PROVE /\ e \notin excused' /\ (svc'[e] = "exists" \/ dev'[e] = "on") => \E q \in Procs : e \in installed'[q]
              /\ svc'[e] = "deleted" /\ dev'[e] = "off" => \E q \in Procs : e \in sch'[q]
              /\ dev'[e] = "ending" => \E q \in Procs : e \in device'[q]
    BY <2>1, <2>3, <2>4 DEF Kept
  <2>6. Kept'
    BY <2>1, <2>5 DEF Kept
  <2> QED
    BY <2>2, <2>6
<1>16. ASSUME NEW p \in Procs, Keep(p) PROVE Left'
  <2>1. /\ installed' = [installed EXCEPT ![p] = @ \ {PawnIO}]
        /\ excused' = excused \cup {PawnIO}
        /\ UNCHANGED <<pc, at, device, sch, svc, dev, pawnio, blocked>>
    BY <1>16 DEF Keep, systemVars, fixedVars
  <2>2. Busy' /\ Refused'
    BY <2>1 DEF Busy, Refused, Current, TypeOK
  <2>3. Kept'
    BY <2>1, KeptByGrowth DEF TypeOK
  <2> QED
    BY <2>2, <2>3
<1>17. ASSUME NEW p \in Procs, Gone(p), excused \cup installed[p] \subseteq excused', blocked' = blocked PROVE Left'
  <2> DEFINE newDevice == [device EXCEPT ![p] = {}]
             newSch == [sch EXCEPT ![p] = {}]
  <2>1. newDevice \in [Procs -> SUBSET Drivers] /\ newSch \in [Procs -> SUBSET Services]
    BY DEF TypeOK
  <2>2. Settle(newDevice, newSch, dev, svc)
    BY <1>17 DEF Gone
  <2>3. installed' = [installed EXCEPT ![p] = {}] /\ Goto(p, "idle") /\ UNCHANGED <<at, pawnio>>
    BY <1>17 DEF Gone
  <2>4. /\ installed'[p] = {} /\ pc'[p] = "idle"
        /\ \A q \in Procs \ {p} : installed'[q] = installed[q] /\ pc'[q] = pc[q]
        /\ \A q \in Procs : Current(q)' = Current(q)
    BY <2>3 DEF Goto, TypeOK, Current
  <2>5. Busy'
    BY <1>17, <2>4 DEF Busy
  <2>6. \A e \in Services : (dev[e] = "off" => dev'[e] = "off") /\ (dev[e] # "on" => dev'[e] # "on")
    <3> HIDE DEF newDevice, newSch
    <3> QED
      BY <2>1, <2>2, DevAfterSettle DEF TypeOK
  <2>7. Refused'
    <3>1. blocked \subseteq Services /\ \A q \in Procs : pc[q] = "delete" => Current(q) \in Services
      BY DEF TypeOK, Placed
    <3> QED
      BY <1>17, <2>4, <2>6, <3>1 DEF Refused
  <2>8. \A e \in Services \ excused' : svc[e] = "exists" \/ dev[e] = "on" => \E q \in Procs : e \in installed'[q]
    BY <1>17, <2>4 DEF Kept
  <2>9. pawnio' /\ PawnIO \notin excused' => \E q \in Procs : PawnIO \in installed'[q]
    BY <1>17, <2>3, <2>4 DEF Kept
  <2>10. Kept'
    <3> HIDE DEF newDevice, newSch
    <3> QED
      BY <2>1, <2>2, <2>8, <2>9, KeptAfterSettle DEF TypeOK
  <2> QED
    BY <2>5, <2>7, <2>10
<1>18. ASSUME NEW p \in Procs, End(p) PROVE Left'
  <2>1. installed[p] \subseteq excused
    BY <1>2, <1>18 DEF End
  <2> QED
    BY <1>17, <1>18, <2>1 DEF End, Gone, fixedVars
<1>19. ASSUME NEW p \in Procs, Crash(p) PROVE Left'
  BY <1>17, <1>19 DEF Crash, Gone, fixedVars
<1>20. CASE UNCHANGED vars
  BY <1>20 DEF vars, procVars, systemVars, fixedVars, historyVars, Busy, Refused, Kept, Current
<1> QED
  BY <1>3, <1>4, <1>5, <1>6, <1>7, <1>8, <1>9, <1>10, <1>11, <1>12, <1>13, <1>14, <1>15, <1>16,
     <1>18, <1>19, <1>20 DEF Next, OpenDriver, CloseDriver

\* Whatever is in the system - a service record, a running driver, PawnIO - some
\* process is still to remove, unless one died, gave a driver up or started a
\* service that is not its own (ioctl.c:22-109, 241-297, 361).
THEOREM NothingUnattended == Spec => []SomebodyRemoves
<1>1. Safe /\ Left => SomebodyRemoves
  <2> SUFFICES ASSUME Safe, Left, NEW d \in Drivers \ excused
               PROVE  /\ d = PawnIO /\ pawnio => \E p \in Procs : d \in installed[p]
                      /\ d \in Services /\ svc[d] = "exists" => \E p \in Procs : d \in installed[p]
                      /\ d \in Services /\ (svc[d] = "deleted" \/ dev[d] # "off") =>
                            \E p \in Procs : d \in installed[p] \cup sch[p] \cup device[p]
    BY DEF SomebodyRemoves
  <2>1. Kept
    BY DEF Left
  <2>2. d \in Services => dev[d] \in {"off", "on", "ending"}
    BY DEF Safe, TypeOK
  <2> QED
    BY <2>1, <2>2 DEF Kept
<1>2. Init => Safe /\ Left
  BY SafeInit, LeftInit
<1>3. (Safe /\ Left) /\ [Next]_vars => (Safe /\ Left)'
  BY SafeStep, LeftStep
<1> QED
  BY <1>1, <1>2, <1>3, PTL DEF Spec

----------------------------------------------------------------------------
(* A process that has the system for itself.                                *)

\* Why a driver cannot be had, whatever is tried.
Hopeless(d) ==
    \/ d = PawnIO /\ ~pawnio /\ (d \notin beside \/ library)
    \/ d \in Services /\ dev[d] # "on" /\ (d \notin beside \/ d \in blocked)

Opening == {"load", "create", "open", "start", "undo", "check", "setup", "reload"}

\* Who does nothing has nothing.
Empty == \A q \in Procs : pc[q] = "idle" => installed[q] = {} /\ sch[q] = {} /\ device[q] = {}

\* The drivers before the one at hand cannot be had, and what was found about that one
\* is still so.
Trying(p) ==
    /\ pc[p] \in Opening =>
         /\ device[p] = {}
         /\ sch[p] \subseteq (IF pc[p] \in {"start", "undo", "reload"} THEN {Current(p)} ELSE {})
         /\ \A i \in DOMAIN DrvList : i < at[p] /\ DrvList[i] \in only[p] => Hopeless(DrvList[i])
    /\ pc[p] = "without" => \A i \in DOMAIN DrvList : DrvList[i] \in only[p] => Hopeless(DrvList[i])
    /\ pc[p] \in {"create", "open", "start", "undo"} => dev[Current(p)] # "on"
    /\ pc[p] \in {"open", "start"} => svc[Current(p)] = "exists" /\ Current(p) \in beside
    /\ pc[p] = "undo" => Current(p) \in blocked
    /\ pc[p] = "reload" => Available(Current(p)) \/ (Current(p) = PawnIO /\ ~pawnio /\ library)
    /\ pc[p] \in {"check", "setup"} => ~pawnio
    /\ pc[p] = "setup" => PawnIO \in beside /\ ~library

Lonely(p) == \A q \in Procs \ {p} : pc[q] = "idle"

Solitude == \A p \in alone : Lonely(p) /\ Trying(p)

Acts(p) == Begin(p) \/ OpenDriver(p) \/ CloseDriver(p) \/ Keep(p) \/ End(p) \/ Crash(p)

\* What Try has passed over is not allowed.
LEMMA TryPasses ==
    ASSUME TypeOK, NEW p \in Procs, NEW from, NEW allowed, Try(p, from, allowed)
    PROVE  /\ pc'[p] \in {"load", "without"}
           /\ pc'[p] = "load" =>
                 \A j \in DOMAIN DrvList : j >= from /\ j < at'[p] => DrvList[j] \notin allowed
           /\ pc'[p] = "without" => \A j \in DOMAIN DrvList : j >= from => DrvList[j] \notin allowed
<1> DEFINE left == {i \in DOMAIN DrvList : i >= from /\ DrvList[i] \in allowed}
<1>0. DOMAIN DrvList \subseteq Nat
  BY DriverAssumption
<1>1. CASE left = {} /\ Goto(p, "without") /\ UNCHANGED at
  BY <1>1 DEF Goto, TypeOK
<1>2. ASSUME NEW i \in left, \A j \in left : i <= j, Goto(p, "load"), at' = [at EXCEPT ![p] = i]
      PROVE  pc'[p] = "load" /\ \A j \in DOMAIN DrvList : j >= from /\ j < at'[p] => DrvList[j] \notin allowed
  <2>1. pc'[p] = "load" /\ at'[p] = i
    BY <1>2 DEF Goto, TypeOK
  <2> QED
    BY <1>0, <1>2, <2>1
<1> QED
  BY <1>1, <1>2 DEF Try

\* A process leaves the handles and flags of the others alone, is idle only when it is
\* gone, and starts only when it was idle.
LEMMA ActsAlone ==
    ASSUME Safe, NEW p \in Procs, Acts(p)
    PROVE  /\ \A q \in Procs \ {p} : /\ pc'[q] = pc[q] /\ installed'[q] = installed[q]
                                     /\ sch'[q] = sch[q] /\ device'[q] = device[q]
           /\ pc'[p] = "idle" => installed'[p] = {} /\ sch'[p] = {} /\ device'[p] = {}
           /\ Begin(p) \/ (pc[p] # "idle" /\ alone' = alone)
<1> USE DEF Safe
<1>0. \A from, allowed : Try(p, from, allowed) =>
          pc'[p] # "idle" /\ \A q \in Procs \ {p} : pc'[q] = pc[q]
  BY TryMoves
<1>1. \A to : Goto(p, to) => pc'[p] = to /\ \A q \in Procs \ {p} : pc'[q] = pc[q]
  BY DEF Goto, TypeOK
<1>2. \A newDevice, newSch, newDev, newSvc :
          Settle(newDevice, newSch, newDev, newSvc) => device' = newDevice /\ sch' = newSch
  BY DEF Settle
<1>3. CASE Begin(p)
  BY <1>0, <1>3 DEF Begin
<1>4. CASE Load(p) \/ Create(p) \/ Open(p)
  BY <1>0, <1>1, <1>4 DEF Load, Create, Open, Skip, TypeOK, historyVars
<1>5. CASE Start(p) \/ Setup(p) \/ Reload(p) \/ Check(p)
  BY <1>0, <1>1, <1>5 DEF Start, Setup, Reload, Check, Skip, TypeOK, historyVars
<1>6. CASE Undo(p)
  <2> DEFINE newSch == [sch EXCEPT ![p] = @ \ {Current(p)}]
             newSvc == [svc EXCEPT ![Current(p)] = IF Current(p) \in installed[p] THEN "deleted" ELSE @]
  <2>1. Settle(device, newSch, dev, newSvc)
    BY <1>6 DEF Undo
  <2>2. device' = device /\ sch' = newSch
    BY <2>1 DEF Settle
  <2>3. Try(p, at[p] + 1, only[p])
    BY <1>6 DEF Undo, Skip
  <2>4. pc'[p] # "idle" /\ \A q \in Procs \ {p} : pc'[q] = pc[q]
    BY <1>0, <2>3
  <2>5. installed' = [installed EXCEPT ![p] = @ \ {Current(p)}] /\ alone' = alone /\ pc[p] = "undo"
    BY <1>6 DEF Undo, historyVars
  <2> QED
    BY <2>2, <2>4, <2>5 DEF TypeOK
<1>7. CASE Close(p)
  <2>1. device' = [device EXCEPT ![p] = @ \ {Current(p)}]
        /\ (sch' = sch \/ sch' = [sch EXCEPT ![p] = @ \ {Current(p)}])
    BY <1>7 DEF Close, Settle
  <2>2. pc'[p] # "idle" /\ \A q \in Procs \ {p} : pc'[q] = pc[q]
    BY <1>1, <1>7 DEF Close
  <2> QED
    BY <1>7, <2>1, <2>2 DEF Close, TypeOK, historyVars
<1>8. CASE Stop(p)
  <2>1. device' = device /\ sch' = sch
    BY <1>8 DEF Stop, Settle
  <2>2. /\ pc' = [pc EXCEPT ![p] = "delete"] /\ pc[p] = "stop"
        /\ installed' = installed /\ alone' = alone
    BY <1>8 DEF Stop, Goto, historyVars
  <2> QED
    BY <2>1, <2>2 DEF TypeOK
<1>10. CASE Delete(p)
  <2>1. device' = device /\ sch' = [sch EXCEPT ![p] = @ \ {Current(p)}]
    BY <1>10 DEF Delete, Settle
  <2>2. /\ pc' = [pc EXCEPT ![p] = "end"] /\ pc[p] = "delete" /\ alone' = alone
        /\ installed' = [installed EXCEPT ![p] = @ \ {Current(p)}]
    BY <1>10 DEF Delete, Goto, historyVars
  <2> QED
    BY <2>1, <2>2 DEF TypeOK
<1>11. CASE Remove(p)
  BY <1>1, <1>11 DEF Remove, TypeOK, historyVars
<1>12. CASE Keep(p)
  BY <1>12 DEF Keep, TypeOK
<1>9. CASE End(p) \/ Crash(p)
  <2>1. Gone(p) /\ pc[p] # "idle"
    BY <1>9 DEF End, Crash
  <2>2. /\ device' = [device EXCEPT ![p] = {}] /\ sch' = [sch EXCEPT ![p] = {}]
        /\ installed' = [installed EXCEPT ![p] = {}] /\ alone' = alone
    BY <1>2, <2>1 DEF Gone
  <2> QED
    BY <1>1, <2>1, <2>2 DEF Gone, TypeOK
<1> QED
  BY <1>3, <1>4, <1>5, <1>6, <1>7, <1>8, <1>9, <1>10, <1>11, <1>12 DEF Acts, OpenDriver, CloseDriver

\* A driver is passed over once it cannot be had.
LEMMA SkipTries ==
    ASSUME TypeOK, NEW p \in Procs, pc[p] \in Opening, Trying(p), Skip(p), UNCHANGED only,
           device'[p] = {}, sch'[p] = {}, NEW CONSTANT c, c = Current(p), Hopeless(c)',
           \A d \in Drivers : Hopeless(d) => Hopeless(d)'
    PROVE  Trying(p)'
<1> DEFINE i0 == at[p]
<1>0. /\ DOMAIN DrvList \subseteq Nat /\ \A i \in DOMAIN DrvList : DrvList[i] \in Drivers
      /\ i0 \in Nat
  BY DriverAssumption DEF TypeOK
<1>1. Try(p, i0 + 1, only[p])
  BY DEF Skip
<1>2. /\ pc'[p] \in {"load", "without"}
      /\ pc'[p] = "load" =>
            \A j \in DOMAIN DrvList : j >= i0 + 1 /\ j < at'[p] => DrvList[j] \notin only[p]
      /\ pc'[p] = "without" => \A j \in DOMAIN DrvList : j >= i0 + 1 => DrvList[j] \notin only[p]
  BY <1>1, TryPasses
<1>3. ASSUME NEW j \in DOMAIN DrvList, j < i0 + 1, DrvList[j] \in only[p] PROVE Hopeless(DrvList[j])'
  <2>1. CASE j = i0
    <3>1. DrvList[j] = c
      BY <2>1 DEF Current
    <3> QED
      BY <3>1
  <2>2. CASE j # i0
    <3>1. j < i0
      <4> HIDE DEF i0
      <4>1. j \in Nat /\ i0 \in Nat
        BY <1>0
      <4> QED
        BY <1>3, <2>2, <4>1
    <3>2. Hopeless(DrvList[j])
      BY <1>3, <3>1 DEF Trying
    <3> QED
      BY <1>0, <3>2
  <2> QED
    BY <2>1, <2>2
<1>4. \A j \in DOMAIN DrvList :
          DrvList[j] \in only[p] /\ (pc'[p] = "load" => j < at'[p]) => Hopeless(DrvList[j])'
  <2> SUFFICES ASSUME NEW j \in DOMAIN DrvList, DrvList[j] \in only[p], pc'[p] = "load" => j < at'[p]
               PROVE  Hopeless(DrvList[j])'
    OBVIOUS
  <2>1. j < i0 + 1
    <3> HIDE DEF i0
    <3>1. j \in Nat /\ i0 \in Nat
      BY <1>0
    <3>2. ~(j >= i0 + 1)
      BY <1>2
    <3> QED
      BY <3>1, <3>2
  <2> QED
    BY <1>3, <2>1
<1> QED
  BY <1>2, <1>4 DEF Trying, Opening

\* Given Safe and what Left says of the system, Solitude is inductive: a process that is
\* alone passes over no driver it could have had.
LEMMA TryingStep ==
    ASSUME Safe, Kept, Empty, NEW p \in Procs, Lonely(p), Trying(p), Acts(p), ~Begin(p)
    PROVE  Trying(p)'
<1> DEFINE d == Current(p)
<1>0. /\ TypeOK /\ Placed
      /\ \A q \in Procs \ {p} : installed[q] = {} /\ sch[q] = {} /\ device[q] = {}
      /\ PawnIO \notin Services
  BY DriverAssumption DEF Safe, Lonely, Empty
<1>1. ASSUME NEW e \in Services
      PROVE  /\ svc[e] \in {"none", "exists", "deleted"}
             /\ dev[e] \in {"off", "on", "ending"}
             /\ svc[e] = "deleted" /\ dev[e] = "off" => e \in sch[p]
             /\ dev[e] = "ending" => e \in device[p]
  BY <1>0 DEF Kept, TypeOK
<1>2. CASE Load(p)
  <2>1. pc[p] = "load" /\ UNCHANGED <<at, only, sch, svc, dev, pawnio, beside, blocked, library>>
    BY <1>2 DEF Load, systemVars, fixedVars
  <2>2. \A e : Hopeless(e)' <=> Hopeless(e)
    BY <2>1 DEF Hopeless
  <2>3. d' = d /\ at[p] \in DOMAIN DrvList /\ d \in Drivers
    BY <1>0, <2>1, CurrentIsADriver DEF Placed, Active, States, Current
  <2>4. \/ pc'[p] = "using"
        \/ pc'[p] = "check" /\ d = PawnIO /\ ~pawnio /\ device' = device
        \/ pc'[p] = "create" /\ dev[d] # "on" /\ device' = device
    BY <1>0, <1>2 DEF Load, Goto, TypeOK, Available
  <2> QED
    BY <2>1, <2>2, <2>3, <2>4 DEF Trying, Opening
<1>3. CASE Create(p)
  <2>1. pc[p] = "create" /\ UNCHANGED <<only, device, dev, pawnio, beside, blocked, library>> /\ d \in Services
    BY <1>0, <1>3 DEF Create, fixedVars, Placed
  <2>2. \A e : Hopeless(e)' <=> Hopeless(e)
    BY <2>1 DEF Hopeless
  <2>3. device[p] = {} /\ sch[p] = {} /\ dev[d] # "on"
    BY <2>1 DEF Trying, Opening
  <2>4. CASE /\ d \in beside /\ svc' = [svc EXCEPT ![d] = "exists"] /\ sch' = [sch EXCEPT ![p] = @ \cup {d}]
             /\ Goto(p, "start") /\ UNCHANGED at
    <3>1. d' = d /\ pc'[p] = "start" /\ svc'[d] = "exists" /\ sch'[p] = {d}
      BY <1>0, <2>1, <2>3, <2>4 DEF Goto, TypeOK, Current
    <3> QED
      BY <2>1, <2>2, <2>3, <2>4, <3>1 DEF Trying, Opening
  <2>5. CASE d \in beside /\ svc[d] = "exists" /\ Goto(p, "open") /\ UNCHANGED <<at, svc, sch>>
    <3>1. d' = d /\ pc'[p] = "open"
      BY <1>0, <2>5 DEF Goto, TypeOK, Current
    <3> QED
      BY <2>1, <2>2, <2>3, <2>5, <3>1 DEF Trying, Opening
  <2>6. CASE (d \notin beside \/ svc[d] = "deleted") /\ Skip(p) /\ UNCHANGED sch
    <3>1. svc[d] # "deleted"
      <4>1. svc[d] = "deleted" /\ dev[d] = "off" => d \in sch[p]
        BY <1>1, <2>1
      <4>2. dev[d] = "ending" => d \in device[p]
        BY <1>1, <2>1
      <4>3. dev[d] \in {"off", "on", "ending"}
        BY <1>1, <2>1
      <4> QED
        BY <2>3, <4>1, <4>2, <4>3
    <3>2. Hopeless(d)
      BY <2>1, <2>3, <2>6, <3>1 DEF Hopeless
    <3> QED
      BY <1>0, <2>1, <2>2, <2>3, <2>6, <3>2, SkipTries DEF Opening
  <2> QED
    BY <1>3, <2>4, <2>5, <2>6 DEF Create
<1>4. CASE Open(p)
  <2>1. /\ pc[p] = "open" /\ UNCHANGED <<only, device, svc, dev, pawnio, beside, blocked, library>>
    BY <1>4 DEF Open, systemVars, fixedVars
  <2>2. \A e : Hopeless(e)' <=> Hopeless(e)
    BY <2>1 DEF Hopeless
  <2>3. device[p] = {} /\ sch[p] = {} /\ dev[d] # "on" /\ svc[d] = "exists" /\ d \in beside
    BY <2>1 DEF Trying, Opening
  <2>4. sch' = [sch EXCEPT ![p] = @ \cup {d}] /\ Goto(p, "start") /\ UNCHANGED at
    BY <1>4, <2>3 DEF Open
  <2>5. d' = d /\ pc'[p] = "start" /\ sch'[p] = {d}
    BY <1>0, <2>3, <2>4 DEF Goto, TypeOK, Current
  <2> QED
    BY <2>1, <2>2, <2>3, <2>4, <2>5 DEF Trying, Opening
<1>5. CASE Start(p)
  <2>1. /\ pc[p] = "start" /\ UNCHANGED <<at, only, device, sch, svc, pawnio, beside, blocked, library>> /\ d \in Services
    BY <1>0, <1>5 DEF Start, fixedVars, Placed
  <2>2. device[p] = {} /\ sch[p] \subseteq {d} /\ dev[d] # "on" /\ svc[d] = "exists" /\ d \in beside
    BY <2>1 DEF Trying, Opening
  <2>3. dev[d] = "off"
    <3>1. dev[d] = "ending" => d \in device[p]
      BY <1>1, <2>1
    <3>2. dev[d] \in {"off", "on", "ending"}
      BY <1>1, <2>1
    <3> QED
      BY <2>2, <3>1, <3>2
  <2>4. d' = d
    BY <2>1 DEF Current
  <2>5. CASE d \in blocked
    <3>1. pc'[p] = "undo" /\ dev' = dev
      BY <1>0, <1>5, <2>3, <2>5 DEF Start, Goto, TypeOK
    <3>2. \A e : Hopeless(e)' <=> Hopeless(e)
      BY <2>1, <3>1 DEF Hopeless
    <3> QED
      BY <2>1, <2>2, <2>4, <2>5, <3>1, <3>2 DEF Trying, Opening
  <2>6. CASE d \notin blocked
    <3>1. pc'[p] = "reload" /\ dev' = [dev EXCEPT ![d] = "on"]
      BY <1>0, <1>5, <2>2, <2>3, <2>6 DEF Start, Goto, TypeOK
    <3>2. \A e : Hopeless(e) => Hopeless(e)'
      BY <1>0, <2>1, <2>2, <2>6, <3>1 DEF Hopeless, TypeOK
    <3>3. Available(d)'
      BY <1>0, <2>1, <2>4, <3>1 DEF Available, TypeOK
    <3>4. pc'[p] \in Opening /\ pc[p] \in Opening
      BY <2>1, <3>1 DEF Opening
    <3> QED
      BY <2>1, <2>2, <2>4, <3>1, <3>2, <3>3, <3>4 DEF Trying
  <2> QED
    BY <2>5, <2>6
<1>6. CASE Undo(p)
  <2> DEFINE newSch == [sch EXCEPT ![p] = @ \ {d}]
             newSvc == [svc EXCEPT ![d] = IF d \in installed[p] THEN "deleted" ELSE @]
  <2>1. pc[p] = "undo" /\ d \in Services /\ UNCHANGED <<only, pawnio, beside, blocked, library>> /\ Skip(p)
    BY <1>0, <1>6 DEF Undo, fixedVars, Placed
  <2>2. device[p] = {} /\ sch[p] \subseteq {d} /\ dev[d] # "on" /\ d \in blocked
    BY <2>1 DEF Trying, Opening
  <2>3. /\ newSch \in [Procs -> SUBSET Services]
        /\ newSvc \in [Services -> {"none", "exists", "deleted"}]
        /\ newSch[p] = {}
    BY <1>0, <2>1, <2>2 DEF TypeOK
  <2>4. Settle(device, newSch, dev, newSvc)
    BY <1>6 DEF Undo
  <2>5. device' = device /\ sch' = newSch /\ \A e \in Services : dev[e] # "on" => dev'[e] # "on"
    <3> HIDE DEF newSch, newSvc
    <3> QED
      BY <1>0, <2>3, <2>4, SettleLeaves DEF TypeOK
  <2>6. \A e : Hopeless(e) => Hopeless(e)'
    BY <2>1, <2>5 DEF Hopeless
  <2>7. Hopeless(d)
    BY <2>1, <2>2 DEF Hopeless
  <2>8. device'[p] = {} /\ sch'[p] = {}
    BY <2>2, <2>3, <2>5
  <2> QED
    BY <1>0, <2>1, <2>6, <2>7, <2>8, SkipTries DEF Opening
<1>7. CASE Check(p)
  <2>1. /\ pc[p] = "check" /\ UNCHANGED <<only, device, sch, svc, dev, pawnio, beside, blocked, library>> /\ d = PawnIO
    BY <1>0, <1>7 DEF Check, systemVars, fixedVars, Placed
  <2>2. \A e : Hopeless(e)' <=> Hopeless(e)
    BY <2>1 DEF Hopeless
  <2>3. device[p] = {} /\ sch[p] = {} /\ ~pawnio
    BY <2>1 DEF Trying, Opening
  <2>4. CASE PawnIO \in beside /\ ~library
    <3>1. Goto(p, "setup") /\ UNCHANGED at
      BY <1>7, <2>3, <2>4 DEF Check
    <3>2. pc'[p] = "setup" /\ d' = d
      BY <1>0, <3>1 DEF Goto, TypeOK, Current
    <3> QED
      BY <2>1, <2>2, <2>3, <2>4, <3>1, <3>2 DEF Trying, Opening
  <2>5. CASE PawnIO \notin beside /\ ~library
    <3>1. Skip(p) /\ Hopeless(d)
      BY <1>7, <2>1, <2>3, <2>5 DEF Check, Hopeless
    <3> QED
      BY <1>0, <2>1, <2>2, <2>3, <3>1, SkipTries DEF Opening
  <2>6. CASE library
    <3>1. Goto(p, "reload") /\ UNCHANGED at
      BY <1>7, <2>6 DEF Check
    <3>2. pc'[p] = "reload" /\ d' = d
      BY <1>0, <3>1 DEF Goto, TypeOK, Current
    <3> QED
      BY <2>1, <2>2, <2>3, <2>6, <3>1, <3>2 DEF Trying, Opening
  <2> QED
    BY <1>0, <2>4, <2>5, <2>6 DEF TypeOK
<1>8. CASE Setup(p)
  <2>1. /\ pc[p] = "setup" /\ pc'[p] = "reload" /\ pawnio' = TRUE
        /\ UNCHANGED <<at, only, device, sch, svc, dev, beside, blocked, library>> /\ d = PawnIO /\ d' = d
    BY <1>0, <1>8 DEF Setup, fixedVars, Placed, Goto, TypeOK, Current
  <2>2. device[p] = {} /\ sch[p] = {} /\ PawnIO \in beside /\ ~library
    BY <2>1 DEF Trying, Opening
  <2>3. \A e : Hopeless(e) => Hopeless(e)'
    BY <2>1, <2>2 DEF Hopeless
  <2>4. Available(d)'
    BY <2>1 DEF Available
  <2> QED
    BY <2>1, <2>2, <2>3, <2>4 DEF Trying, Opening
<1>9. CASE Reload(p)
  <2>1. /\ pc[p] = "reload" /\ UNCHANGED <<only, sch, svc, dev, pawnio, beside, blocked, library>>
        /\ Available(d) \/ (d = PawnIO /\ ~pawnio /\ library)
    BY <1>9 DEF Reload, Trying, systemVars, fixedVars
  <2>2. CASE Available(d)
    <3>1. pc'[p] = "using"
      BY <1>0, <1>9, <2>2 DEF Reload, Goto, TypeOK
    <3> QED
      BY <3>1 DEF Trying, Opening
  <2>3. CASE ~Available(d)
    <3>1. Skip(p) /\ UNCHANGED device /\ Hopeless(d) /\ d = PawnIO
      BY <1>9, <2>1, <2>3 DEF Reload, Hopeless
    <3>2. \A e : Hopeless(e)' <=> Hopeless(e)
      BY <2>1 DEF Hopeless
    <3>3. device[p] = {}
      BY <2>1 DEF Trying, Opening
    <3>4. sch[p] = {}
      <4>1. sch[p] \subseteq {PawnIO}
        BY <2>1, <3>1 DEF Trying, Opening
      <4>2. sch[p] \subseteq Services /\ PawnIO \notin Services
        BY <1>0, DriverAssumption DEF TypeOK
      <4> QED
        BY <4>1, <4>2
    <3> QED
      BY <1>0, <2>1, <3>1, <3>2, <3>3, <3>4, SkipTries DEF Opening
  <2> QED
    BY <2>2, <2>3
<1>10. CASE CloseDriver(p) \/ Keep(p) \/ End(p) \/ Crash(p)
  <2>1. \A to : Goto(p, to) => pc'[p] = to
    BY <1>0 DEF Goto, TypeOK
  <2>2. pc'[p] \in {"idle", "using", "stop", "delete", "remove", "end"}
    <3>1. CASE CloseDriver(p)
      <4>1. CASE Close(p)
        BY <2>1, <4>1 DEF Close
      <4>2. CASE Stop(p) \/ Delete(p) \/ Remove(p)
        BY <2>1, <4>2 DEF Stop, Delete, Remove
      <4> QED
        BY <3>1, <4>1, <4>2 DEF CloseDriver
    <3>2. CASE Keep(p)
      BY <3>2 DEF Keep
    <3>3. CASE End(p) \/ Crash(p)
      BY <2>1, <3>3 DEF End, Crash, Gone
    <3> QED
      BY <1>10, <3>1, <3>2, <3>3
  <2> QED
    BY <2>2 DEF Trying, Opening
<1> QED
  BY <1>2, <1>3, <1>4, <1>5, <1>6, <1>7, <1>8, <1>9, <1>10 DEF Acts, OpenDriver

\* A process that begins alone has passed over what its filter excludes, and nothing else.
LEMMA TryingBegins ==
    ASSUME Safe, Empty, NEW p \in Procs, Begin(p) PROVE Trying(p)'
<1>1. PICK allowed \in {Drivers} \cup {{d} : d \in Drivers} :
          only' = [only EXCEPT ![p] = allowed] /\ Try(p, 1, allowed)
  BY DEF Begin
<1>2. only'[p] = allowed /\ device'[p] = {} /\ sch'[p] = {}
  BY <1>1 DEF Begin, Empty, Safe, TypeOK
<1>3. /\ pc'[p] \in {"load", "without"}
      /\ pc'[p] = "load" => \A j \in DOMAIN DrvList : j >= 1 /\ j < at'[p] => DrvList[j] \notin allowed
      /\ pc'[p] = "without" => \A j \in DOMAIN DrvList : j >= 1 => DrvList[j] \notin allowed
  BY <1>1, TryPasses DEF Safe
<1>4. \A j \in DOMAIN DrvList : j >= 1
  BY DriverAssumption
<1> QED
  BY <1>2, <1>3, <1>4 DEF Trying, Opening

\* Given Safe and Left, Empty and Solitude are inductive.
LEMMA SolitudeStep == ASSUME Safe, Left, Empty, Solitude, [Next]_vars PROVE Empty' /\ Solitude'
<1>1. CASE UNCHANGED vars
  <2>1. Empty'
    BY <1>1 DEF vars, procVars, Empty
  <2>2. alone' = alone /\ \A p \in alone : (Lonely(p)' <=> Lonely(p)) /\ (Trying(p)' <=> Trying(p))
    BY <1>1 DEF vars, procVars, systemVars, fixedVars, historyVars, Lonely, Trying, Hopeless, Available, Current
  <2> QED
    BY <2>1, <2>2 DEF Solitude
<1>2. ASSUME NEW p \in Procs, Acts(p) PROVE Empty' /\ Solitude'
  <2>1. /\ \A q \in Procs \ {p} : /\ pc'[q] = pc[q] /\ installed'[q] = installed[q]
                                  /\ sch'[q] = sch[q] /\ device'[q] = device[q]
        /\ pc'[p] = "idle" => installed'[p] = {} /\ sch'[p] = {} /\ device'[p] = {}
        /\ Begin(p) \/ (pc[p] # "idle" /\ alone' = alone)
    BY <1>2, ActsAlone
  <2>2. Empty'
    BY <2>1 DEF Empty
  <2>3. ASSUME NEW r \in alone' PROVE (Lonely(r) /\ Trying(r))'
    <3>1. CASE Begin(p)
      <4>1. r = p /\ \A q \in Procs : pc[q] = "idle"
        BY <2>3, <3>1 DEF Begin
      <4> QED
        BY <2>1, <3>1, <4>1, TryingBegins DEF Lonely
    <3>2. CASE ~Begin(p) /\ pc[p] # "idle" /\ alone' = alone
      <4>1. r \in alone /\ Lonely(r) /\ Trying(r)
        BY <2>3, <3>2 DEF Solitude
      <4>2. r = p
        BY <3>2, <4>1 DEF Lonely
      <4>3. Lonely(p)'
        BY <2>1, <4>1, <4>2 DEF Lonely
      <4>4. Trying(p)'
        BY <1>2, <3>2, <4>1, <4>2, TryingStep DEF Left
      <4> QED
        BY <4>2, <4>3, <4>4
    <3> QED
      BY <2>1, <3>1, <3>2
  <2> QED
    BY <2>2, <2>3 DEF Solitude
<1> QED
  BY <1>1, <1>2 DEF Next, Acts

\* Whatever processes that crashed or gave up have left of records, drivers and PawnIO, a
\* process that has the system for itself ends without a driver only if none of those its
\* filter allows is there, beside the program and accepted by Windows (ioctl.c:300-358).
THEOREM NobodyIsLockedOut == Spec => []ServedAfterAnything
<1>1. Init => Empty /\ Solitude
  BY DEF Init, Empty, Solitude
<1>2. Safe /\ Solitude => ServedAfterAnything
  <2> SUFFICES ASSUME Safe, Solitude, NEW p \in alone, pc[p] = "without", NEW d \in only[p]
               PROVE  \/ \A i \in DOMAIN DrvList : DrvList[i] # d
                      \/ Hopeless(d)
    BY DEF ServedAfterAnything, Hopeless
  <2> QED
    BY DEF Solitude, Trying
<1>3. Init => Safe /\ Left
  BY SafeInit, LeftInit
<1>4. (Safe /\ Left /\ Empty /\ Solitude) /\ [Next]_vars => (Safe /\ Left /\ Empty /\ Solitude)'
  BY SafeStep, LeftStep, SolitudeStep
<1> QED
  BY <1>1, <1>2, <1>3, <1>4, PTL DEF Spec

================================================================================
