---------------------------- MODULE DriverLifecycle ----------------------------
(****************************************************************************)
(* How a libnw process gets and gives up its kernel driver (ioctl.c,        *)
(* pawnio.c).  WR0_OpenDriver tries the drivers in order: open the device,  *)
(* else install the service, start it and open again.  WR0_CloseDriver      *)
(* stops and deletes the service only where this process created it.        *)
(* Several processes (gnwinfo, nwinfo, started by hand or by scripts) do    *)
(* this at the same time and may end anywhere.                              *)
(*                                                                          *)
(* Of Windows the model has the service records (a deleted one stays while  *)
(* it is running or open), the devices (a driver that is stopped while      *)
(* somebody has it open ends with the last handle) and the PawnIO setup.    *)
(****************************************************************************)
EXTENDS Naturals, Sequences

CONSTANTS
    Procs,     \* libnw processes
    Services,  \* the drivers installed as a service of their own
    PawnIO,    \* the driver with a setup program
    DrvList,   \* drv_list: the order they are tried in
    MaxCrashes \* bound: processes that end in the middle of something

Drivers == Services \cup {PawnIO}

ASSUME DriverAssumption == PawnIO \notin Services /\ DrvList \in Seq(Drivers)
ASSUME CrashAssumption == MaxCrashes \in Nat

VARIABLES
    pc,        \* where each process is
    at,        \* the loop variable of WR0_OpenDriver
    only,      \* the drivers NWLC->DriverName allows
    device,    \* the devices each process has open (drv->handle)
    sch,       \* the services each process has open (drv->sch)
    installed, \* the drivers each process has to remove (drv->installed)
    svc,       \* the service records: none, exists, deleted
    dev,       \* the drivers: off, on, ending
    pawnio,    \* PawnIO is set up: its device and its library are there
    beside,    \* the driver files and setup programs next to the executable
    blocked,   \* services Windows refuses to start
    library,   \* a PawnIO library is there without the device (its driver does not run)
    crashes,   \* processes that have ended early so far
    alone,     \* history: processes that have had the system for themselves
    excused    \* history: drivers that a process left behind on purpose or by dying

procVars == <<pc, at, only, device, sch, installed>>
systemVars == <<svc, dev, pawnio>>
fixedVars == <<beside, blocked, library>>
historyVars == <<crashes, alone, excused>>
vars == <<procVars, systemVars, fixedVars, historyVars>>

Init ==
    /\ pc = [p \in Procs |-> "idle"]
    /\ at = [p \in Procs |-> 1]
    /\ only = [p \in Procs |-> Drivers]
    /\ device = [p \in Procs |-> {}]
    /\ sch = [p \in Procs |-> {}]
    /\ installed = [p \in Procs |-> {}]
    /\ svc = [d \in Services |-> "none"]
    /\ dev = [d \in Services |-> "off"]
    /\ pawnio \in BOOLEAN
    /\ beside \in SUBSET Drivers
    /\ blocked \in SUBSET Services
    /\ library \in BOOLEAN /\ ~(library /\ pawnio)
    /\ crashes = 0
    /\ alone = {}
    /\ excused = IF pawnio THEN {PawnIO} ELSE {}

Goto(p, to) == pc' = [pc EXCEPT ![p] = to]
Current(p) == DrvList[at[p]]

\* The next driver the filter allows, or WR0_OpenDriver returns NULL.
Try(p, from, allowed) ==
    LET left == {i \in DOMAIN DrvList : i >= from /\ DrvList[i] \in allowed}
    IN \/ /\ left = {}
          /\ Goto(p, "without")
          /\ UNCHANGED at
       \/ \E i \in left :
          /\ \A j \in left : i <= j
          /\ Goto(p, "load")
          /\ at' = [at EXCEPT ![p] = i]

Skip(p) == Try(p, at[p] + 1, only[p])

\* The handles and services after a step: a stopped driver ends with its last
\* handle, a deleted record goes when the driver is off and nobody has it open.
Settle(newDevice, newSch, newDev, newSvc) ==
    LET off(d) == \/ newDev[d] = "off"
                  \/ newDev[d] = "ending" /\ \A p \in Procs : d \notin newDevice[p]
        gone(d) == newSvc[d] = "deleted" /\ off(d) /\ \A p \in Procs : d \notin newSch[p]
    IN /\ device' = newDevice
       /\ sch' = newSch
       /\ dev' = [d \in Services |-> IF off(d) THEN "off" ELSE newDev[d]]
       /\ svc' = [d \in Services |-> IF gone(d) THEN "none" ELSE newSvc[d]]

\* CreateFile finds the device.
Available(d) == IF d = PawnIO THEN pawnio ELSE dev[d] = "on"

----------------------------------------------------------------------------
(* WR0_OpenDriver *)

Begin(p) ==
    /\ pc[p] = "idle"
    /\ alone' = IF \A q \in Procs : pc[q] = "idle" THEN {p} ELSE {}
    /\ \E allowed \in {Drivers} \cup {{d} : d \in Drivers} :
          /\ only' = [only EXCEPT ![p] = allowed]
          /\ Try(p, 1, allowed)
    /\ UNCHANGED <<device, sch, installed, systemVars, fixedVars, crashes, excused>>

\* load_wr0, load_pio: the device may be there already.
Load(p) ==
    /\ pc[p] = "load"
    /\ IF Available(Current(p))
         THEN /\ device' = [device EXCEPT ![p] = @ \cup {Current(p)}]
              /\ Goto(p, "using")
         ELSE /\ Goto(p, IF Current(p) = PawnIO THEN "check" ELSE "create")
              /\ UNCHANGED device
    /\ UNCHANGED <<at, only, sch, installed, systemVars, fixedVars, historyVars>>

Create_ExistsFails(p) ==
    /\ pc[p] = "create"
    /\ LET d == Current(p)
       IN IF d \in beside /\ svc[d] = "none"
            THEN /\ svc' = [svc EXCEPT ![d] = "exists"]
                 /\ sch' = [sch EXCEPT ![p] = @ \cup {d}]
                 /\ installed' = [installed EXCEPT ![p] = @ \cup {d}]
                 /\ Goto(p, "start")
                 /\ UNCHANGED at
            ELSE Skip(p) /\ UNCHANGED <<svc, sch, installed>>
    /\ UNCHANGED <<only, device, dev, pawnio, fixedVars, historyVars>>

Create_Claims(p) ==
    /\ pc[p] = "create"
    /\ LET d == Current(p)
       IN IF d \in beside /\ svc[d] # "deleted"
            THEN /\ svc' = [svc EXCEPT ![d] = "exists"]
                 /\ sch' = [sch EXCEPT ![p] = @ \cup {d}]
                 /\ installed' = [installed EXCEPT ![p] = @ \cup {d}]
                 /\ Goto(p, "start")
                 /\ UNCHANGED at
            ELSE Skip(p) /\ UNCHANGED <<svc, sch, installed>>
    /\ UNCHANGED <<only, device, dev, pawnio, fixedVars, historyVars>>

\* install_wr0 up to CreateService
Create(p) ==
    /\ pc[p] = "create"
    /\ LET d == Current(p)
       IN \/ /\ d \in beside /\ svc[d] = "none"
             /\ svc' = [svc EXCEPT ![d] = "exists"]
             /\ sch' = [sch EXCEPT ![p] = @ \cup {d}]
             /\ installed' = [installed EXCEPT ![p] = @ \cup {d}]
             /\ Goto(p, "start")
             /\ UNCHANGED at
          \/ /\ d \in beside /\ svc[d] = "exists"
             /\ Goto(p, "open")
             /\ UNCHANGED <<at, svc, sch, installed>>
          \/ /\ d \notin beside \/ svc[d] = "deleted"
             /\ Skip(p)
             /\ UNCHANGED <<svc, sch, installed>>
    /\ UNCHANGED <<only, device, dev, pawnio, fixedVars, historyVars>>

\* OpenService; the record may be gone again.
Open(p) ==
    /\ pc[p] = "open"
    /\ LET d == Current(p)
       IN IF svc[d] = "none"
            THEN Skip(p) /\ UNCHANGED sch
            ELSE sch' = [sch EXCEPT ![p] = @ \cup {d}] /\ Goto(p, "start") /\ UNCHANGED at
    /\ UNCHANGED <<only, device, installed, systemVars, fixedVars, historyVars>>

\* StartService: a driver that is on or ending counts as running.
Start(p) ==
    /\ pc[p] = "start"
    /\ LET d == Current(p)
           starts == svc[d] = "exists" /\ dev[d] = "off" /\ d \notin blocked
       IN /\ dev' = [dev EXCEPT ![d] = IF starts THEN "on" ELSE @]
          /\ excused' = IF starts /\ d \notin installed[p] THEN excused \cup {d} ELSE excused
          /\ Goto(p, IF starts \/ (svc[d] = "exists" /\ dev[d] # "off") THEN "reload" ELSE "undo")
    /\ UNCHANGED <<at, only, device, sch, installed, svc, pawnio, fixedVars, crashes, alone>>

Undo_Keeps(p) ==
    /\ pc[p] = "undo"
    /\ LET d == Current(p)
       IN /\ installed' = [installed EXCEPT ![p] = @ \ {d}]
          /\ Settle(device, [sch EXCEPT ![p] = @ \ {d}], dev, svc)
    /\ Skip(p)
    /\ UNCHANGED <<only, pawnio, fixedVars, historyVars>>

\* StartService failed: DeleteService if it was created here.
Undo(p) ==
    /\ pc[p] = "undo"
    /\ LET d == Current(p)
       IN /\ installed' = [installed EXCEPT ![p] = @ \ {d}]
          /\ Settle(device, [sch EXCEPT ![p] = @ \ {d}], dev,
                    [svc EXCEPT ![d] = IF d \in installed[p] THEN "deleted" ELSE @])
    /\ Skip(p)
    /\ UNCHANGED <<only, pawnio, fixedVars, historyVars>>

\* install_pio: PawnIO may have been set up meanwhile.  WR0_CheckPawnIO takes the library
\* for the driver, and nothing is set up then.
Check(p) ==
    /\ pc[p] = "check"
    /\ IF pawnio \/ library THEN Goto(p, "reload") /\ UNCHANGED at
       ELSE IF PawnIO \in beside THEN Goto(p, "setup") /\ UNCHANGED at
       ELSE Skip(p)
    /\ UNCHANGED <<only, device, sch, installed, systemVars, fixedVars, historyVars>>

\* WR0_InstallPawnIO runs the setup program and waits for it.
Setup(p) ==
    /\ pc[p] = "setup"
    /\ pawnio' = TRUE
    /\ installed' = [installed EXCEPT ![p] = @ \cup {PawnIO}]
    /\ Goto(p, "reload")
    /\ UNCHANGED <<at, only, device, sch, svc, dev, fixedVars, historyVars>>

\* The second load; when it fails, handles and services are kept and the next
\* driver is tried.
Reload(p) ==
    /\ pc[p] = "reload"
    /\ IF Available(Current(p))
         THEN /\ device' = [device EXCEPT ![p] = @ \cup {Current(p)}]
              /\ Goto(p, "using")
              /\ UNCHANGED <<at, excused>>
         ELSE /\ Skip(p)
              /\ excused' = excused \cup ({Current(p)} \cap installed[p])
              /\ UNCHANGED device
    /\ UNCHANGED <<only, sch, installed, systemVars, fixedVars, crashes, alone>>

----------------------------------------------------------------------------
(* WR0_CloseDriver *)

\* The device handle is closed first, and the service handle if that is all.
Close(p) ==
    /\ pc[p] = "using"
    /\ LET d == Current(p)
       IN /\ Settle([device EXCEPT ![p] = @ \ {d}],
                    IF d \in installed[p] THEN sch ELSE [sch EXCEPT ![p] = @ \ {d}], dev, svc)
          /\ Goto(p, IF d \notin installed[p] THEN "end"
                     ELSE IF d = PawnIO THEN "remove" ELSE "stop")
    /\ UNCHANGED <<at, only, installed, pawnio, fixedVars, historyVars>>

Stop(p) ==
    /\ pc[p] = "stop"
    /\ Settle(device, sch, [dev EXCEPT ![Current(p)] = IF @ = "on" THEN "ending" ELSE @], svc)
    /\ Goto(p, "delete")
    /\ UNCHANGED <<at, only, installed, pawnio, fixedVars, historyVars>>

Delete(p) ==
    /\ pc[p] = "delete"
    /\ installed' = [installed EXCEPT ![p] = @ \ {Current(p)}]
    /\ Settle(device, [sch EXCEPT ![p] = @ \ {Current(p)}], dev,
              [svc EXCEPT ![Current(p)] = "deleted"])
    /\ Goto(p, "end")
    /\ UNCHANGED <<at, only, pawnio, fixedVars, historyVars>>

\* uninstall_pio runs the setup program with -uninstall.
Remove(p) ==
    /\ pc[p] = "remove"
    /\ pawnio' = FALSE
    /\ installed' = [installed EXCEPT ![p] = @ \ {PawnIO}]
    /\ Goto(p, "end")
    /\ UNCHANGED <<at, only, device, sch, svc, dev, fixedVars, historyVars>>

\* The menu command that keeps PawnIO; it clears the flag of whatever is in use.
Keep(p) ==
    /\ pc[p] = "using"
    /\ Current(p) = PawnIO /\ PawnIO \in installed[p]
    /\ installed' = [installed EXCEPT ![p] = @ \ {PawnIO}]
    /\ excused' = excused \cup {PawnIO}
    /\ UNCHANGED <<pc, at, only, device, sch, systemVars, fixedVars, crashes, alone>>

\* The process is gone, and with it its handles and flags.
Gone(p) ==
    /\ Settle([device EXCEPT ![p] = {}], [sch EXCEPT ![p] = {}], dev, svc)
    /\ installed' = [installed EXCEPT ![p] = {}]
    /\ Goto(p, "idle")
    /\ UNCHANGED <<at, only, pawnio, fixedVars, alone>>

End(p) ==
    /\ pc[p] \in {"end", "without"}
    /\ Gone(p)
    /\ UNCHANGED <<crashes, excused>>

Crash(p) ==
    /\ pc[p] # "idle"
    /\ crashes < MaxCrashes
    /\ crashes' = crashes + 1
    /\ excused' = excused \cup installed[p]
    /\ Gone(p)

OpenDriver(p) ==
    \/ Load(p) \/ Create(p) \/ Open(p) \/ Start(p) \/ Undo(p)
    \/ Check(p) \/ Setup(p) \/ Reload(p)
CloseDriver(p) == Close(p) \/ Stop(p) \/ Delete(p) \/ Remove(p)

Next == \E p \in Procs : Begin(p) \/ OpenDriver(p) \/ CloseDriver(p) \/ Keep(p) \/ End(p) \/ Crash(p)

Spec == Init /\ [][Next]_vars

----------------------------------------------------------------------------
States == {"idle", "load", "create", "open", "start", "undo", "check", "setup", "reload",
           "using", "stop", "delete", "remove", "end", "without"}

TypeOK ==
    /\ pc \in [Procs -> States]
    /\ at \in [Procs -> Nat]
    /\ only \in [Procs -> SUBSET Drivers]
    /\ device \in [Procs -> SUBSET Drivers]
    /\ sch \in [Procs -> SUBSET Services]
    /\ installed \in [Procs -> SUBSET Drivers]
    /\ svc \in [Services -> {"none", "exists", "deleted"}]
    /\ dev \in [Services -> {"off", "on", "ending"}]
    /\ pawnio \in BOOLEAN
    /\ beside \subseteq Drivers
    /\ blocked \subseteq Services
    /\ library \in BOOLEAN
    /\ crashes \in 0..MaxCrashes
    /\ alone \subseteq Procs
    /\ excused \subseteq Drivers

\* A service record that is not marked has at most one process that takes it for its
\* own, so nobody deletes the service another process has created after it.
OneCreator ==
    \A p, q \in Procs : \A d \in Services :
        d \in installed[p] /\ d \in installed[q] => p = q

\* Nothing stays in the system unattended: unless a process died, gave up on a driver
\* it had installed or started a service that was not its own, every record, running
\* driver and PawnIO setup is there because of a process that is still to remove it.
SomebodyRemoves ==
    \A d \in Drivers \ excused :
        /\ d = PawnIO /\ pawnio => \E p \in Procs : d \in installed[p]
        /\ d \in Services /\ svc[d] = "exists" => \E p \in Procs : d \in installed[p]
        /\ d \in Services /\ (svc[d] = "deleted" \/ dev[d] # "off") =>
              \E p \in Procs : d \in installed[p] \cup sch[p] \cup device[p]

\* Whatever earlier processes left behind, one that starts with no other running gets
\* a driver as long as one of those it may use is there or can be installed.  Where a
\* library of PawnIO is there without its device PawnIO cannot (pawnio.c:22-31).
ServedAfterAnything ==
    \A p \in alone : pc[p] = "without" =>
        \A d \in only[p] : \/ \A i \in DOMAIN DrvList : DrvList[i] # d
                           \/ d = PawnIO /\ ~pawnio /\ (d \notin beside \/ library)
                           \/ d \in Services /\ dev[d] # "on" /\ (d \notin beside \/ d \in blocked)

================================================================================
