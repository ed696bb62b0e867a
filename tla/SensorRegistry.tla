----------------------------- MODULE SensorRegistry -----------------------------
(****************************************************************************)
(* The sensor registry of libnw and the resources of NWLIB_CONTEXT that its *)
(* twelve providers share with the other collectors: NwMsr, NwSmbus, NwGpu, *)
(* NwNetAdapters, the libcdi table behind NwSmart.  One thread makes every  *)
(* library call; disks come and go between any two of its steps, and an     *)
(* allocation may fail wherever the code expects it to.                     *)
(*                                                                          *)
(* What a sensor reads is left out.  A provider's context is reduced to the *)
(* resources it holds, an array to its length.                              *)
(****************************************************************************)
EXTENDS Naturals, FiniteSets

CONSTANTS
    Disks,          \* the disks that can be plugged in
    SensorFlags,    \* NwSensorFlags as a set of providers, empty for the default
    OutOfMemory,    \* whether an allocation can fail
    MaxChanges      \* bound on plugging and unplugging

ASSUME DisksAssumption == IsFiniteSet(Disks)
ASSUME OutOfMemoryAssumption == OutOfMemory \in BOOLEAN
ASSUME MaxChangesAssumption == MaxChanges \in Nat

SensorList == <<"LHM", "HWINFO", "GPUZ", "CPU", "DIMM", "GPU", "SMART", "DISKIO",
                "NET", "IMC", "INTEL", "ZEN">>

Providers == { SensorList[i] : i \in 1..12 }

\* Providers whose context is one thing of their own: a DLL, a mapped view, an SMU
\* handle, a function; it counts as one resource.
Private == {"LHM", "HWINFO", "GPUZ", "IMC", "INTEL", "ZEN"}

\* What NW_Fini frees itself, and what the providers free.
Shared == {"msr", "smbus", "gpu", "net"}
Resources == Shared \cup Private \cup {"list", "stats", "names"}

VARIABLES
    lib,         \* "open" from NW_Init to NW_Fini, then "closed", or "crashed"
    host,        \* what NW_Init found: the driver, libcdi, the CPU
    present,     \* the disks Windows enumerates
    changes,     \* plugs and unplugs so far
    oom,         \* an allocation has failed
    smartInit,   \* NWLC->NwSmartInit
    table,       \* the disks in libcdi's table
    initialized, \* sensor_initialized
    enabled,     \* the enabled field of each provider
    ctx,         \* the private providers whose context is set
    io,          \* ctx of disk_io.c: count, drive list ({} for NULL), length of stats
    smart,       \* ctx of disk_smart.c: count, length of disks (0 for NULL)
    cpuMsr,      \* ctx.msr of cpu_sensors.c is set
    held,        \* the shared pointers of NWLIB_CONTEXT that are not NULL
    live,        \* allocations not yet freed, per resource
    pc,          \* "idle", "init", "get" or, inside disk_io's get, "relist"
    turn         \* the provider the loop is at

hostVars == <<host, oom>>
deviceVars == <<present, changes>>
smartTable == <<smartInit, table>>
registry == <<initialized, enabled>>
contexts == <<ctx, io, smart, cpuMsr>>
memory == <<held, live>>
control == <<pc, turn>>
vars == <<lib, hostVars, deviceVars, smartTable, registry, contexts, memory, control>>

NoIo == [count |-> 0, drives |-> {}, stats |-> 0]
NoSmart == [count |-> 0, disks |-> 0]

At(p) == turn \in 1..12 /\ SensorList[turn] = p

\* calloc may fail, and that it did is remembered.
Allocates(ok) ==
    /\ ok \in BOOLEAN
    /\ ~ok => OutOfMemory
    /\ oom' = (oom \/ ~ok)

Adjust(r, n) == [live EXCEPT ![r] = n]
Take(r) == [live EXCEPT ![r] = @ + 1]
Drop(r) == [live EXCEPT ![r] = IF @ = 0 THEN 0 ELSE @ - 1]

----------------------------------------------------------------------------
(* NW_Init: which driver, libcdi and CPU there are stays as it is found.    *)

\* smbus: the driver finds a controller that SM_Init knows
Hosts == { h \in [drv : BOOLEAN, smart : BOOLEAN, smbus : BOOLEAN, vendor : {"intel", "amd", "unknown"}] :
            h.smbus => h.drv }

Init ==
    /\ lib = "open"
    /\ host \in Hosts
    /\ present \in SUBSET Disks
    /\ changes = 0
    /\ oom = FALSE
    /\ smartInit = FALSE
    /\ table = {}
    /\ initialized = FALSE
    /\ enabled = [p \in Providers |-> FALSE]
    /\ ctx = {}
    /\ io = NoIo
    /\ smart = NoSmart
    /\ cpuMsr = FALSE
    /\ held = {}
    /\ live = [r \in Resources |-> 0]
    /\ pc = "idle"
    /\ turn = 0

\* NWL_GetCpuid keeps its verdict; an unidentified CPU has no vendor.
Cpuid == host.vendor # "unknown"

----------------------------------------------------------------------------
(* The resources every collector creates when it needs them and finds NULL. *)

Ensure(r) ==
    IF r \in held THEN UNCHANGED memory
    ELSE /\ held' = held \cup {r}
         /\ live' = Take(r)

Idle == lib = "open" /\ pc = "idle"

\* PrintCpuidMachine
CollectCpuid ==
    /\ Idle /\ Cpuid
    /\ \E ok \in BOOLEAN :
        /\ Allocates(ok)
        /\ IF ok THEN Ensure("msr") ELSE "msr" \notin held /\ UNCHANGED memory
    /\ UNCHANGED <<lib, host, deviceVars, smartTable, registry, contexts, control>>

\* NW_Spd: SM_Init needs the driver and a controller it knows.
CollectSpd ==
    /\ Idle /\ host.smbus
    /\ \E ok \in BOOLEAN :
        /\ Allocates(ok)
        /\ IF ok THEN Ensure("smbus") ELSE "smbus" \notin held /\ UNCHANGED memory
    /\ UNCHANGED <<lib, host, deviceVars, smartTable, registry, contexts, control>>

CollectGpu ==
    /\ Idle
    /\ \E ok \in BOOLEAN :
        /\ Allocates(ok)
        /\ IF ok THEN Ensure("gpu") ELSE "gpu" \notin held /\ UNCHANGED memory
    /\ UNCHANGED <<lib, host, deviceVars, smartTable, registry, contexts, control>>

\* NW_Network: the adapter map is made with the first adapter and then kept.
CollectNetwork ==
    /\ Idle
    /\ Ensure("net")
    /\ UNCHANGED <<lib, hostVars, deviceVars, smartTable, registry, contexts, control>>

UpdateDisplay_NoInit ==
    /\ Idle
    /\ held' = held \ {"gpu"}
    /\ live' = IF "gpu" \in held THEN Drop("gpu") ELSE live
    /\ UNCHANGED <<lib, hostVars, deviceVars, smartTable, registry, contexts, control>>

\* gnwinfo_ctx_update_display frees the GPU list and makes a new one.
UpdateDisplay ==
    /\ Idle
    /\ \E ok \in BOOLEAN :
        /\ Allocates(ok)
        /\ held' = IF ok THEN held \cup {"gpu"} ELSE held \ {"gpu"}
        /\ live' = Adjust("gpu", IF ok THEN 1 ELSE 0)
    /\ UNCHANGED <<lib, host, deviceVars, smartTable, registry, contexts, control>>

\* NW_Disk, unless DiskFlags says NW_DISK_NO_SMART; gnwinfo_ctx_update_disk
\* clears NwSmartInit first.
CollectDisk(reset, wanted) ==
    /\ Idle
    /\ LET scan == wanted /\ host.smart /\ (reset \/ ~smartInit)
       IN /\ smartInit' = (scan \/ (smartInit /\ ~reset))
          /\ table' = IF scan THEN present ELSE table
    /\ UNCHANGED <<lib, hostVars, deviceVars, registry, contexts, memory, control>>

----------------------------------------------------------------------------
(* NW_Sensors: NWL_InitSensors the first time, then NWL_GetSensors.         *)

Sensors ==
    /\ Idle
    /\ pc' = IF initialized THEN "get" ELSE "init"
    /\ turn' = 1
    /\ UNCHANGED <<lib, hostVars, deviceVars, smartTable, registry, contexts, memory>>

Wanted(p) == SensorFlags = {} \/ p \in SensorFlags

InitTurn(p) == lib = "open" /\ pc = "init" /\ At(p)

Advance(p, ok) ==
    /\ enabled' = [enabled EXCEPT ![p] = ok]
    /\ turn' = turn + 1
    /\ UNCHANGED <<lib, host, deviceVars, initialized, pc>>

SkipInit(p) ==
    /\ InitTurn(p) /\ ~Wanted(p)
    /\ turn' = turn + 1
    /\ UNCHANGED <<lib, hostVars, deviceVars, smartTable, registry, contexts, memory, pc>>

CanInit(p) ==
    CASE p \in {"LHM", "HWINFO", "GPUZ"} -> TRUE
      [] p = "IMC" -> host.drv /\ Cpuid
      [] p = "INTEL" -> host.drv /\ host.vendor = "intel"
      [] p = "ZEN" -> host.drv /\ host.vendor = "amd"

InitPrivate_Ignored(p) ==
    /\ InitTurn(p) /\ Wanted(p) /\ p \in Private
    /\ \E ok \in BOOLEAN :
        /\ ok => CanInit(p)
        /\ ctx' = IF ok THEN ctx \cup {p} ELSE ctx
        /\ live' = IF ok THEN Take(p) ELSE live
    /\ Advance(p, TRUE)
    /\ UNCHANGED <<oom, smartTable, io, smart, cpuMsr, held>>

\* A failing init releases what it has and clears its context.
InitPrivate(p) ==
    /\ InitTurn(p) /\ Wanted(p) /\ p \in Private
    /\ \E ok \in BOOLEAN :
        /\ ok => CanInit(p)
        /\ ctx' = IF ok THEN ctx \cup {p} ELSE ctx \ {p}
        /\ live' = IF ok THEN Take(p) ELSE live
        /\ Advance(p, ok)
    /\ UNCHANGED <<oom, smartTable, io, smart, cpuMsr, held>>

InitCpu ==
    /\ InitTurn("CPU") /\ Wanted("CPU")
    /\ \E ok \in BOOLEAN :
        /\ Allocates(ok)
        /\ IF host.drv /\ Cpuid /\ ok
             THEN Ensure("msr") /\ cpuMsr' = TRUE /\ Advance("CPU", TRUE)
             ELSE /\ ok \/ (host.drv /\ Cpuid /\ "msr" \notin held)
                  /\ UNCHANGED <<memory, cpuMsr>>
                  /\ Advance("CPU", FALSE)
    /\ UNCHANGED <<smartTable, ctx, io, smart>>

InitDimm ==
    /\ InitTurn("DIMM") /\ Wanted("DIMM")
    /\ \E ok \in BOOLEAN :
        /\ Allocates(ok)
        /\ IF host.smbus /\ ok
             THEN Ensure("smbus")
             ELSE /\ ok \/ (host.drv /\ "smbus" \notin held)
                  /\ UNCHANGED memory
    /\ Advance("DIMM", TRUE)
    /\ UNCHANGED <<smartTable, contexts>>

InitGpu ==
    /\ InitTurn("GPU") /\ Wanted("GPU")
    /\ \E ok \in BOOLEAN :
        /\ Allocates(ok)
        /\ IF ok THEN Ensure("gpu") ELSE "gpu" \notin held /\ UNCHANGED memory
        /\ Advance("GPU", ok)
    /\ UNCHANGED <<smartTable, contexts>>

InitNet ==
    /\ InitTurn("NET") /\ Wanted("NET")
    /\ \/ Ensure("net") /\ Advance("NET", TRUE)
       \/ "net" \notin held /\ UNCHANGED memory /\ Advance("NET", FALSE)
    /\ UNCHANGED <<oom, smartTable, contexts>>

\* disk_init of disk_smart.c: the table is filled when nobody did it yet.
InitSmart ==
    /\ InitTurn("SMART") /\ Wanted("SMART")
    /\ IF ~host.smart
         THEN UNCHANGED <<oom, smartTable, smart, memory>> /\ Advance("SMART", FALSE)
         ELSE /\ smartInit' = TRUE
              /\ table' = IF smartInit THEN table ELSE present
              /\ held' = held
              /\ \E ok \in BOOLEAN :
                  /\ Allocates(ok)
                  /\ LET n == Cardinality(table')
                         enough == ok /\ n > 0
                     IN /\ ok \/ n > 0
                        /\ smart' = IF enough THEN [count |-> n, disks |-> n] ELSE NoSmart
                        /\ live' = IF enough THEN Take("names") ELSE live
                        /\ Advance("SMART", enough)
    /\ UNCHANGED <<ctx, io, cpuMsr>>

\* disk_init of disk_io.c.  NWL_GetDriveInfoList opens every disk it lists;
\* without disks or memory there is no list, and without stats it is destroyed.
OpenDrives(ok) ==
    LET n == Cardinality(present) IN
    /\ Allocates(ok)
    /\ IF ok /\ n > 0
         THEN /\ io' = [count |-> n, drives |-> present, stats |-> n]
              /\ live' = [live EXCEPT !["list"] = @ + 1, !["stats"] = @ + 1]
         ELSE /\ ok \/ n > 0
              /\ io' = NoIo
              /\ live' = live

InitDiskIo ==
    /\ InitTurn("DISKIO") /\ Wanted("DISKIO")
    /\ \E ok \in BOOLEAN : OpenDrives(ok)
    /\ Advance("DISKIO", io'.count > 0)
    /\ UNCHANGED <<smartTable, ctx, smart, cpuMsr, held>>

InitDone ==
    /\ lib = "open" /\ pc = "init" /\ turn = 13
    /\ initialized' = TRUE
    /\ pc' = "get"
    /\ turn' = 1
    /\ UNCHANGED <<lib, hostVars, deviceVars, smartTable, enabled, contexts, memory>>

----------------------------------------------------------------------------
(* NWL_GetSensors.                                                          *)

GetTurn(p) == lib = "open" /\ pc = "get" /\ At(p) /\ enabled[p]

SkipGet(p) ==
    /\ lib = "open" /\ pc = "get" /\ At(p) /\ ~enabled[p]
    /\ turn' = turn + 1
    /\ UNCHANGED <<lib, hostVars, deviceVars, smartTable, registry, contexts, memory, pc>>

\* get of a provider that only reads through its context
GetPlain(p) ==
    /\ GetTurn(p) /\ p \in Private \cup {"CPU", "DIMM"}
    /\ turn' = turn + 1
    /\ UNCHANGED <<lib, hostVars, deviceVars, smartTable, registry, contexts, memory, pc>>

\* NWL_GetGpuInfo tolerates a NULL list, the loop after it does not.
GetGpu ==
    /\ GetTurn("GPU")
    /\ lib' = IF "gpu" \in held THEN "open" ELSE "crashed"
    /\ turn' = turn + 1
    /\ UNCHANGED <<hostVars, deviceVars, smartTable, registry, contexts, memory, pc>>

GetNet ==
    /\ GetTurn("NET")
    /\ Ensure("net")
    /\ turn' = turn + 1
    /\ UNCHANGED <<lib, hostVars, deviceVars, smartTable, registry, contexts, pc>>

\* disk_get of disk_smart.c: the count follows the table, the array does not.
\* What an index beyond the array reads may be garbage or end the process.
GetSmart ==
    /\ GetTurn("SMART")
    /\ smart' = [smart EXCEPT !.count = Cardinality(table)]
    /\ lib' \in {"open"} \cup (IF smart'.count > smart.disks THEN {"crashed"} ELSE {})
    /\ turn' = turn + 1
    /\ UNCHANGED <<hostVars, deviceVars, smartTable, registry, ctx, io, cpuMsr, memory, pc>>

GetDiskIo_CountOnly ==
    /\ GetTurn("DISKIO")
    /\ io' = [io EXCEPT !.count = Cardinality(present)]
    /\ turn' = turn + 1
    /\ UNCHANGED <<lib, hostVars, deviceVars, smartTable, registry, ctx, smart, cpuMsr, memory, pc>>

GetDiskIo_NoFini ==
    /\ GetTurn("DISKIO")
    /\ IF Cardinality(present) = io.count
         THEN turn' = turn + 1 /\ pc' = pc
         ELSE pc' = "relist" /\ turn' = turn
    /\ UNCHANGED <<lib, hostVars, deviceVars, smartTable, registry, contexts, memory>>

\* disk_get of disk_io.c: NWL_GetDriveCount, and disk_fini when it differs.
GetDiskIo ==
    /\ GetTurn("DISKIO")
    /\ IF Cardinality(present) = io.count
         THEN /\ turn' = turn + 1
              /\ UNCHANGED <<pc, io, live>>
         ELSE /\ pc' = "relist"
              /\ io' = NoIo
              /\ live' = IF io.drives = {} THEN live
                         ELSE [live EXCEPT !["list"] = @ - 1, !["stats"] = @ - 1]
              /\ turn' = turn
    /\ UNCHANGED <<lib, hostVars, deviceVars, smartTable, registry, ctx, smart, cpuMsr, held>>

\* ... then disk_init, on the disks that are there by now.
Relist ==
    /\ lib = "open" /\ pc = "relist"
    /\ \E ok \in BOOLEAN : OpenDrives(ok)
    /\ pc' = "get"
    /\ turn' = turn + 1
    /\ UNCHANGED <<lib, host, deviceVars, smartTable, registry, ctx, smart, cpuMsr, held>>

GetDone ==
    /\ lib = "open" /\ pc = "get" /\ turn = 13
    /\ pc' = "idle"
    /\ turn' = 0
    /\ UNCHANGED <<lib, hostVars, deviceVars, smartTable, registry, contexts, memory>>

----------------------------------------------------------------------------
(* Disks come and go; NW_Fini.                                              *)

Plug(d) ==
    /\ lib = "open" /\ changes < MaxChanges
    /\ present' = IF d \in present THEN present \ {d} ELSE present \cup {d}
    /\ changes' = changes + 1
    /\ UNCHANGED <<lib, hostVars, smartTable, registry, contexts, memory, control>>

\* What the fini functions of the enabled providers free.
FreedBy(p) ==
    CASE p \in Private -> {p} \cap ctx
      [] p = "SMART" -> {"names"}
      [] p = "DISKIO" -> IF io.drives = {} THEN {} ELSE {"list", "stats"}
      [] OTHER -> {}

FreedBySensors ==
    IF initialized THEN UNION { FreedBy(p) : p \in { q \in Providers : enabled[q] } } ELSE {}

\* NW_Fini frees the shared resources, then NWL_FreeSensors runs.
Fini ==
    /\ Idle
    /\ live' = [r \in Resources |-> IF r \in held \cup FreedBySensors THEN live[r] - 1 ELSE live[r]]
    /\ held' = {}
    /\ initialized' = FALSE
    /\ ctx' = {}
    /\ io' = NoIo
    /\ smart' = NoSmart
    /\ cpuMsr' = FALSE
    /\ smartInit' = FALSE
    /\ table' = {}
    /\ lib' = "closed"
    /\ UNCHANGED <<hostVars, deviceVars, enabled, control>>

----------------------------------------------------------------------------
Collect ==
    \/ CollectCpuid \/ CollectSpd \/ CollectGpu \/ CollectNetwork
    \/ UpdateDisplay
    \/ \E reset, wanted \in BOOLEAN : CollectDisk(reset, wanted)

InitSensors ==
    \/ \E p \in Providers : SkipInit(p) \/ InitPrivate(p)
    \/ InitCpu \/ InitDimm \/ InitGpu \/ InitNet \/ InitSmart \/ InitDiskIo \/ InitDone

GetSensors ==
    \/ \E p \in Providers : SkipGet(p) \/ GetPlain(p)
    \/ GetGpu \/ GetNet \/ GetSmart \/ GetDiskIo \/ Relist \/ GetDone

Terminated == lib # "open" /\ UNCHANGED vars

Next ==
    \/ Collect \/ Sensors \/ InitSensors \/ GetSensors \/ Fini
    \/ \E d \in Disks : Plug(d)
    \/ Terminated

Spec == Init /\ [][Next]_vars

----------------------------------------------------------------------------
\* Every variable holds a value of its kind.
TypeOK ==
    /\ lib \in {"open", "closed", "crashed"}
    /\ host \in Hosts
    /\ present \subseteq Disks /\ table \subseteq Disks
    /\ changes \in 0..MaxChanges
    /\ oom \in BOOLEAN /\ smartInit \in BOOLEAN /\ initialized \in BOOLEAN /\ cpuMsr \in BOOLEAN
    /\ enabled \in [Providers -> BOOLEAN]
    /\ ctx \subseteq Private
    /\ io \in [count : Nat, drives : SUBSET Disks, stats : Nat]
    /\ smart \in [count : Nat, disks : Nat]
    /\ held \subseteq Shared
    /\ live \in [Resources -> Nat]
    /\ pc \in {"idle", "init", "get", "relist"}
    /\ turn \in 0..13

\* The I/O rates are taken over a list that is allocated and as long as the count
\* says, whatever was plugged between NWL_GetDriveCount and NWL_GetDriveInfoList.
IoInBounds ==
    io.count = Cardinality(io.drives) /\ io.stats = io.count

\* What a resource's owner still points to.
Owned(r) ==
    \/ r \in held \cup ctx
    \/ r = "names" /\ smart.disks > 0
    \/ r \in {"list", "stats"} /\ io.drives # {}

\* Every resource is allocated exactly as long as its owner points to it: no
\* second NwMsr, no lost drive list, and nothing is left after NW_Fini.
OneOfEach == \A r \in Resources : live[r] = IF Owned(r) THEN 1 ELSE 0

\* A provider is read only in a context its init has set up (the function
\* pointers of lhm.c, the mapped views, ctx.msr, ctx.get).
EnabledHasContext ==
    initialized =>
        /\ \A p \in Private : enabled[p] <=> p \in ctx
        /\ enabled["CPU"] => cpuMsr /\ "msr" \in held
        /\ enabled["NET"] => "net" \in held
        /\ enabled["SMART"] => smart.disks > 0

\* Only a failed allocation or the SMART index out of bounds can end the process.
CrashExplained == lib = "crashed" => oom \/ smart.count > smart.disks

\* The disk index of the SMART provider stays inside the array of its names.
SmartInBounds == smart.count <= smart.disks
================================================================================
