-------------------------- MODULE SensorRegistryProofs --------------------------
(* Proofs, for every set of disks, every choice of providers and with or      *)
(* without failing allocations, of the type invariant and the safety          *)
(* properties of SensorRegistry that hold.                                    *)
EXTENDS SensorRegistry, FiniteSetTheorems, TLAPS

\* The place of a provider in sensor_list.
Rank(p) ==
    CASE p = "LHM" -> 1 [] p = "HWINFO" -> 2 [] p = "GPUZ" -> 3 [] p = "CPU" -> 4
      [] p = "DIMM" -> 5 [] p = "GPU" -> 6 [] p = "SMART" -> 7 [] p = "DISKIO" -> 8
      [] p = "NET" -> 9 [] p = "IMC" -> 10 [] p = "INTEL" -> 11 [] p = "ZEN" -> 12

\* NWL_InitSensors has passed the provider, and NW_Fini has not been called.
Passed(p) == initialized \/ (pc = "init" /\ Rank(p) < turn)

On(p) == Passed(p) /\ enabled[p]

\* Where the registry is.
PhaseShape ==
    /\ initialized => pc # "init" /\ lib # "closed"
    /\ ~initialized => pc \in {"idle", "init"} /\ lib # "crashed"
    /\ lib = "closed" => pc = "idle"
    /\ lib = "open" => \A p \in Providers : enabled[p] => Passed(p)
    /\ pc = "init" => turn # 0

\* What is set up for a provider that is passed and enabled, and for no other.
ContextShape ==
    /\ \A p \in Private : p \in ctx <=> On(p)
    /\ smart.disks > 0 <=> On("SMART")
    /\ io.drives # {} => On("DISKIO")
    /\ pc = "relist" => io = NoIo /\ At("DISKIO") /\ On("DISKIO")
    /\ On("CPU") => cpuMsr /\ "msr" \in held
    /\ On("NET") => "net" \in held
    /\ On("GPU") => "gpu" \in held \/ oom

IInv == TypeOK /\ PhaseShape /\ ContextShape /\ OneOfEach /\ IoInBounds /\ CrashExplained

----------------------------------------------------------------------------
\* The providers in sensor_list.
LEMMA ProviderNames ==
    /\ Providers = {"LHM", "HWINFO", "GPUZ", "CPU", "DIMM", "GPU", "SMART", "DISKIO", "NET", "IMC", "INTEL", "ZEN"}
    /\ Private \subseteq Providers
<1>1. 1..12 = {1, 2, 3, 4, 5, 6, 7, 8, 9, 10, 11, 12}
  OBVIOUS
<1> QED
  BY <1>1 DEF Providers, SensorList, Private

\* Rank counts the providers as NWL_InitSensors does.
LEMMA RankTyping == \A p \in Providers : Rank(p) \in 1..12
  BY ProviderNames DEF Rank

\* The loop is at the provider whose rank it counts.
LEMMA AtRank == \A p \in Providers : At(p) => turn = Rank(p)
<1> SUFFICES ASSUME NEW p \in Providers, At(p) PROVE turn = Rank(p)
  OBVIOUS
<1>1. turn \in {1, 2, 3, 4, 5, 6, 7, 8, 9, 10, 11, 12} /\ SensorList[turn] = p
  BY DEF At
<1> QED
  BY <1>1 DEF SensorList, Rank

\* No two providers share a place.
LEMMA RankInjective == \A p, q \in Providers : Rank(p) = Rank(q) => p = q
  BY ProviderNames DEF Rank

\* Cardinalities of sets of disks are numbers, positive unless the set is empty.
LEMMA DiskCount ==
    ASSUME NEW S \in SUBSET Disks
    PROVE  Cardinality(S) \in Nat /\ (Cardinality(S) = 0 <=> S = {})
  BY DisksAssumption, FS_Subset, FS_CardinalityType, FS_EmptySet

\* The resources, by name.
LEMMA ResourceNames ==
    Resources = {"msr", "smbus", "gpu", "net", "LHM", "HWINFO", "GPUZ", "IMC", "INTEL", "ZEN", "list", "stats", "names"}
  BY DEF Resources, Shared, Private

\* The steps that create a shared resource when it is missing.
LEMMA EnsureTyping ==
    ASSUME held \subseteq Shared, live \in [Resources -> Nat], NEW r \in Shared, Ensure(r)
    PROVE  /\ held' = held \cup {r} /\ held' \subseteq Shared
           /\ live' = [live EXCEPT ![r] = IF r \in held THEN @ ELSE @ + 1]
           /\ live' \in [Resources -> Nat]
  BY DEF Ensure, memory, Take, Resources

\* A failed allocation is remembered.
LEMMA AllocatesTyping ==
    ASSUME oom \in BOOLEAN, NEW ok \in BOOLEAN, Allocates(ok)
    PROVE  oom' \in BOOLEAN
  BY DEF Allocates

\* What one turn of NWL_InitSensors changes of the registry.
LEMMA AdvanceTyping ==
    ASSUME TypeOK, NEW p \in Providers, NEW ok \in BOOLEAN, InitTurn(p), Advance(p, ok)
    PROVE  /\ enabled' \in [Providers -> BOOLEAN] /\ enabled' = [enabled EXCEPT ![p] = ok]
           /\ turn' \in 0..13 /\ turn' = turn + 1 /\ turn = Rank(p)
           /\ lib' = lib /\ host' = host /\ present' = present /\ changes' = changes
           /\ initialized' = initialized /\ pc' = pc /\ pc = "init" /\ lib = "open"
<1>1. turn = Rank(p) /\ turn \in 1..12
  BY AtRank DEF InitTurn, At
<1> QED
  BY <1>1 DEF TypeOK, InitTurn, Advance, deviceVars

\* The lists a disk_init that succeeds or fails leaves.
LEMMA OpenTyping ==
    ASSUME present \subseteq Disks, live \in [Resources -> Nat], oom \in BOOLEAN, NEW ok \in BOOLEAN, OpenDrives(ok)
    PROVE  /\ io' \in [count : Nat, drives : SUBSET Disks, stats : Nat]
           /\ io'.count = Cardinality(io'.drives) /\ io'.stats = io'.count
           /\ live' = [live EXCEPT !["list"] = @ + (IF io'.drives = {} THEN 0 ELSE 1),
                                   !["stats"] = @ + (IF io'.drives = {} THEN 0 ELSE 1)]
           /\ live' \in [Resources -> Nat]
           /\ oom' \in BOOLEAN
           /\ io'.count > 0 <=> io'.drives # {}
<1>1. Cardinality(present) \in Nat /\ (Cardinality(present) = 0 <=> present = {}) /\ Cardinality({}) = 0
  BY DiskCount, FS_EmptySet
<1>2. CASE ok /\ Cardinality(present) > 0
  BY <1>1, <1>2, ResourceNames DEF OpenDrives, Allocates
<1>3. CASE ~(ok /\ Cardinality(present) > 0)
  BY <1>1, <1>3, ResourceNames DEF OpenDrives, Allocates, NoIo
<1> QED
  BY <1>2, <1>3

----------------------------------------------------------------------------
(* Which providers are passed and on.                                       *)

\* A turn of NWL_InitSensors passes one provider and no other.
LEMMA TurnPasses ==
    ASSUME TypeOK, PhaseShape, NEW p \in Providers, InitTurn(p),
           turn' = turn + 1, pc' = pc, initialized' = initialized
    PROVE  /\ ~Passed(p) /\ ~enabled[p] /\ Passed(p)'
           /\ \A q \in Providers : q # p => (Passed(q)' <=> Passed(q))
<1>1. turn = Rank(p) /\ pc = "init" /\ ~initialized /\ lib = "open"
  BY AtRank DEF InitTurn, PhaseShape
<1>2. Rank(p) \in Nat /\ ~(Rank(p) < Rank(p)) /\ Rank(p) < Rank(p) + 1
  BY RankTyping
<1>3. ~Passed(p) /\ ~enabled[p] /\ Passed(p)'
  BY <1>1, <1>2 DEF Passed, PhaseShape, Rank
<1>4. ASSUME NEW q \in Providers, q # p PROVE Passed(q)' <=> Passed(q)
  <2>1. Rank(q) \in Nat /\ Rank(q) # Rank(p)
    BY <1>4, RankTyping, RankInjective
  <2>2. Rank(q) < turn + 1 <=> Rank(q) < turn
    BY <1>1, <1>2, <2>1
  <2> QED
    BY <1>1, <2>2 DEF Passed
<1> QED
  BY <1>3, <1>4

\* A provider is on after its turn exactly when its init succeeded.
LEMMA TurnSwitches ==
    ASSUME TypeOK, PhaseShape, NEW p \in Providers, NEW ok \in BOOLEAN, InitTurn(p), Advance(p, ok)
    PROVE  /\ ~On(p) /\ (On(p)' <=> ok)
           /\ \A q \in Providers : q # p => (On(q)' <=> On(q))
           /\ PhaseShape'
           /\ pc' = "init" /\ lib' = "open"
<1>1. enabled' = [enabled EXCEPT ![p] = ok] /\ turn' = turn + 1 /\ pc' = pc /\ initialized' = initialized
      /\ lib' = lib /\ pc = "init" /\ lib = "open"
  BY AdvanceTyping
<1>2. /\ ~Passed(p) /\ ~enabled[p] /\ Passed(p)'
      /\ \A q \in Providers : q # p => (Passed(q)' <=> Passed(q))
  BY <1>1, TurnPasses
<1>3. enabled'[p] = ok /\ \A q \in Providers : q # p => enabled'[q] = enabled[q]
  BY <1>1 DEF TypeOK
<1>4. PhaseShape'
  BY <1>1, <1>2, <1>3 DEF PhaseShape, TypeOK
<1> QED
  BY <1>1, <1>2, <1>3, <1>4 DEF On

\* Nothing else switches a provider on or off before NW_Fini.
LEMMA OnKept ==
    ASSUME TypeOK, PhaseShape,
           \/ Sensors \/ InitDone \/ (\E p \in Providers : SkipInit(p))
           \/ initialized /\ UNCHANGED registry
           \/ UNCHANGED <<registry, control>>
    PROVE  \A p \in Providers : On(p)' <=> On(p)
<1> SUFFICES ASSUME NEW p \in Providers PROVE On(p)' <=> On(p)
  OBVIOUS
<1>r. Rank(p) \in 1..12
  BY RankTyping
<1>1. CASE Sensors
  <2>1. enabled' = enabled /\ initialized' = initialized /\ turn' = 1 /\ pc = "idle" /\ (~initialized => pc' = "init")
    BY <1>1 DEF Sensors, Idle, registry
  <2>2. ~(Rank(p) < 1)
    BY <1>r
  <2> QED
    BY <2>1, <2>2 DEF On, Passed
<1>2. CASE InitDone
  <2>1. enabled' = enabled /\ initialized' /\ pc = "init" /\ turn = 13 /\ Rank(p) < 13
    BY <1>2, <1>r DEF InitDone
  <2> QED
    BY <2>1 DEF On, Passed
<1>3. ASSUME NEW q \in Providers, SkipInit(q) PROVE On(p)' <=> On(p)
  <2>1. InitTurn(q) /\ turn' = turn + 1 /\ pc' = pc /\ initialized' = initialized /\ enabled' = enabled
    BY <1>3 DEF SkipInit, registry
  <2> QED
    BY <2>1, TurnPasses DEF On
<1>4. CASE initialized /\ UNCHANGED registry
  BY <1>4 DEF On, Passed, registry
<1>5. CASE UNCHANGED <<registry, control>>
  BY <1>5 DEF On, Passed, registry, control
<1> QED
  BY <1>1, <1>2, <1>3, <1>4, <1>5

----------------------------------------------------------------------------
(* What NW_Fini frees.                                                      *)

\* Between two calls, what NW_Fini and the fini functions free is what is owned.
LEMMA FiniFrees ==
    ASSUME IInv, Idle
    PROVE  /\ FreedBySensors \subseteq Resources
           /\ \A r \in Resources : r \in held \cup FreedBySensors <=> Owned(r)
<1> USE DEF IInv, TypeOK, Idle
<1>1. CASE ~initialized
  <2>1. \A p \in Providers : ~On(p)
    BY <1>1 DEF On, Passed
  <2>2. ctx = {} /\ ~(smart.disks > 0) /\ io.drives = {}
    BY <2>1, ProviderNames DEF ContextShape
  <2>3. FreedBySensors = {}
    BY <1>1 DEF FreedBySensors
  <2>4. \A r \in Resources : Owned(r) <=> r \in Shared /\ r \in held
    BY <2>2, ResourceNames DEF Owned, Shared, Private
  <2> QED
    BY <2>3, <2>4
<1>2. CASE initialized
  <2>1. \A p \in Providers : On(p) <=> enabled[p]
    BY <1>2 DEF On, Passed
  <2>2. \A x : x \in FreedBySensors <=> \E p \in Providers : enabled[p] /\ x \in FreedBy(p)
    BY <1>2 DEF FreedBySensors
  <2>3. ASSUME NEW x, x \in FreedBySensors PROVE x \in Resources /\ Owned(x) /\ x \notin Shared
    <3>1. PICK p \in Providers : enabled[p] /\ x \in FreedBy(p)
      BY <2>2, <2>3
    <3>2. CASE p \in Private
      BY <3>1, <3>2 DEF FreedBy, Owned, Resources, Private, Shared
    <3>3. CASE p = "SMART"
      BY <2>1, <3>1, <3>3, ResourceNames DEF FreedBy, Owned, Private, Shared, ContextShape
    <3>4. CASE p = "DISKIO"
      BY <3>1, <3>4, ResourceNames DEF FreedBy, Owned, Private, Shared
    <3> QED
      BY <3>1, <3>2, <3>3, <3>4 DEF FreedBy
  <2>4. ASSUME NEW r \in Resources, Owned(r), r \notin Shared PROVE r \in FreedBySensors
    <3>1. CASE r \in Private
      <4>1. r \in ctx
        BY <2>4, <3>1 DEF Owned, Private, Shared
      <4>2. r \in Providers /\ enabled[r]
        BY <2>1, <3>1, <4>1, ProviderNames DEF ContextShape
      <4>3. r \in FreedBy(r)
        BY <3>1, <4>1 DEF FreedBy, Private
      <4> QED
        BY <2>2, <4>2, <4>3
    <3>2. CASE r = "names"
      <4>1. "SMART" \in Providers /\ enabled["SMART"]
        BY <2>1, <2>4, <3>2, ProviderNames DEF Owned, Private, Shared, ContextShape
      <4>2. r \in FreedBy("SMART")
        BY <3>2 DEF FreedBy, Private
      <4> QED
        BY <2>2, <4>1, <4>2
    <3>3. CASE r \in {"list", "stats"}
      <4>1. io.drives # {}
        BY <2>4, <3>3 DEF Owned, Private, Shared
      <4>2. "DISKIO" \in Providers /\ enabled["DISKIO"]
        BY <2>1, <4>1, ProviderNames DEF ContextShape
      <4>3. r \in FreedBy("DISKIO")
        BY <3>3, <4>1 DEF FreedBy, Private
      <4> QED
        BY <2>2, <4>2, <4>3
    <3> QED
      BY <2>4, <3>1, <3>2, <3>3 DEF Resources
  <2>5. ASSUME NEW r \in Shared PROVE Owned(r) <=> r \in held
    BY DEF Owned, Shared, Private
  <2> QED
    BY <2>3, <2>4, <2>5 DEF Resources
<1> QED
  BY <1>1, <1>2

----------------------------------------------------------------------------
(* Types.                                                                   *)

\* The initial state has the right types.
LEMMA TypeInit == Init => TypeOK
<1> SUFFICES ASSUME Init PROVE TypeOK
  OBVIOUS
<1>1. io \in [count : Nat, drives : SUBSET Disks, stats : Nat] /\ smart \in [count : Nat, disks : Nat]
  BY DEF Init, NoIo, NoSmart
<1>2. enabled \in [Providers -> BOOLEAN] /\ live \in [Resources -> Nat]
  BY DEF Init
<1>3. changes \in 0..MaxChanges
  BY MaxChangesAssumption DEF Init
<1>4. oom \in BOOLEAN /\ smartInit \in BOOLEAN /\ initialized \in BOOLEAN /\ cpuMsr \in BOOLEAN
  BY DEF Init
<1>5. lib \in {"open", "closed", "crashed"} /\ pc \in {"idle", "init", "get", "relist"} /\ turn \in 0..13
  BY DEF Init
<1>6. host \in Hosts /\ present \subseteq Disks /\ table \subseteq Disks /\ ctx \subseteq Private /\ held \subseteq Shared
  BY DEF Init
<1> QED
  BY <1>1, <1>2, <1>3, <1>4, <1>5, <1>6 DEF TypeOK

\* Every step keeps the types.
LEMMA TypeStep == IInv /\ [Next]_vars => TypeOK'
<1> SUFFICES ASSUME IInv, TypeOK, OneOfEach, PhaseShape, ContextShape, [Next]_vars PROVE TypeOK'
  BY DEF IInv
<1> USE DEF TypeOK, hostVars, deviceVars, smartTable, registry, contexts, memory, control, Idle, Allocates
<1>1. CASE CollectCpuid
  BY <1>1, EnsureTyping DEF CollectCpuid, Shared
<1>2. CASE CollectSpd
  BY <1>2, EnsureTyping DEF CollectSpd, Shared
<1>3. CASE CollectGpu
  BY <1>3, EnsureTyping DEF CollectGpu, Shared
<1>4. CASE CollectNetwork
  BY <1>4, EnsureTyping DEF CollectNetwork, Shared
<1>5. CASE UpdateDisplay
  BY <1>5 DEF UpdateDisplay, Shared, Adjust, Resources
<1>6. ASSUME NEW reset \in BOOLEAN, NEW wanted \in BOOLEAN, CollectDisk(reset, wanted) PROVE TypeOK'
  BY <1>6 DEF CollectDisk
<1>7. CASE Sensors
  BY <1>7 DEF Sensors
<1>8. ASSUME NEW p \in Providers, SkipInit(p) PROVE TypeOK'
  BY <1>8 DEF SkipInit, InitTurn, At
<1>9. ASSUME NEW p \in Providers, InitPrivate(p) PROVE TypeOK'
  BY <1>9 DEF InitPrivate, InitTurn, At, Advance, Take, Resources
<1>10. CASE InitCpu
  <2>1. PICK ok \in BOOLEAN : Allocates(ok)
    BY <1>10 DEF InitCpu
  <2>2. InitTurn("CPU") /\ \E b \in BOOLEAN : Advance("CPU", b)
    BY <1>10 DEF InitCpu
  <2>3. held' \subseteq Shared /\ live' \in [Resources -> Nat] /\ cpuMsr' \in BOOLEAN
    BY <1>10, EnsureTyping DEF InitCpu, Shared
  <2> QED
    BY <1>10, <2>1, <2>2, <2>3, AllocatesTyping, AdvanceTyping, ProviderNames DEF InitCpu
<1>11. CASE InitDimm
  <2>1. PICK ok \in BOOLEAN : Allocates(ok)
    BY <1>11 DEF InitDimm
  <2>2. InitTurn("DIMM") /\ \E b \in BOOLEAN : Advance("DIMM", b)
    BY <1>11 DEF InitDimm
  <2>3. held' \subseteq Shared /\ live' \in [Resources -> Nat]
    BY <1>11, EnsureTyping DEF InitDimm, Shared
  <2> QED
    BY <1>11, <2>1, <2>2, <2>3, AllocatesTyping, AdvanceTyping, ProviderNames DEF InitDimm
<1>12. CASE InitGpu
  <2>1. PICK ok \in BOOLEAN : Allocates(ok)
    BY <1>12 DEF InitGpu
  <2>2. InitTurn("GPU") /\ \E b \in BOOLEAN : Advance("GPU", b)
    BY <1>12 DEF InitGpu
  <2>3. held' \subseteq Shared /\ live' \in [Resources -> Nat]
    BY <1>12, EnsureTyping DEF InitGpu, Shared
  <2> QED
    BY <1>12, <2>1, <2>2, <2>3, AllocatesTyping, AdvanceTyping, ProviderNames DEF InitGpu
<1>13. CASE InitNet
  <2>1. InitTurn("NET") /\ \E b \in BOOLEAN : Advance("NET", b)
    BY <1>13 DEF InitNet
  <2>2. held' \subseteq Shared /\ live' \in [Resources -> Nat]
    BY <1>13, EnsureTyping DEF InitNet, Shared
  <2> QED
    BY <1>13, <2>1, <2>2, AdvanceTyping, ProviderNames DEF InitNet
<1>14. CASE InitSmart
  <2>1. table' \subseteq Disks
    BY <1>14 DEF InitSmart
  <2>2. Cardinality(table') \in Nat
    BY <2>1, DiskCount
  <2>3. smart' \in [count : Nat, disks : Nat] /\ live' \in [Resources -> Nat] /\ held' \subseteq Shared
    <3>1. CASE ~host.smart
      BY <1>14, <3>1 DEF InitSmart
    <3>2. CASE host.smart
      <4>1. smart' \in {NoSmart, [count |-> Cardinality(table'), disks |-> Cardinality(table')]}
        BY <1>14, <3>2 DEF InitSmart
      <4>2. live' \in {live, Take("names")} /\ held' = held
        BY <1>14, <3>2 DEF InitSmart
      <4> QED
        BY <2>2, <4>1, <4>2, ResourceNames DEF NoSmart, Take
    <3> QED
      BY <3>1, <3>2
  <2>4. InitTurn("SMART") /\ \E b \in BOOLEAN : Advance("SMART", b)
    BY <1>14 DEF InitSmart
  <2>5. oom' \in BOOLEAN /\ smartInit' \in BOOLEAN
    BY <1>14 DEF InitSmart
  <2> QED
    BY <1>14, <2>1, <2>3, <2>4, <2>5, AdvanceTyping, ProviderNames DEF InitSmart
<1>15. CASE InitDiskIo
  <2>1. PICK ok \in BOOLEAN : OpenDrives(ok)
    BY <1>15 DEF InitDiskIo
  <2>2. io' \in [count : Nat, drives : SUBSET Disks, stats : Nat] /\ live' \in [Resources -> Nat] /\ oom' \in BOOLEAN
    BY <2>1, OpenTyping
  <2>3. InitTurn("DISKIO") /\ Advance("DISKIO", io'.count > 0)
    BY <1>15 DEF InitDiskIo
  <2>4. (io'.count > 0) \in BOOLEAN
    BY <2>2
  <2>5. /\ enabled' \in [Providers -> BOOLEAN] /\ turn' \in 0..13
        /\ UNCHANGED <<lib, host, present, changes, initialized, pc>>
    BY <2>3, <2>4, AdvanceTyping, ProviderNames
  <2>6. UNCHANGED <<table, smartInit, ctx, smart, cpuMsr, held>>
    BY <1>15 DEF InitDiskIo, smartTable
  <2> QED
    BY <2>2, <2>5, <2>6 DEF TypeOK
<1>16. CASE InitDone
  BY <1>16 DEF InitDone
<1>17. ASSUME NEW p \in Providers, SkipGet(p) PROVE TypeOK'
  BY <1>17 DEF SkipGet, At
<1>18. ASSUME NEW p \in Providers, GetPlain(p) PROVE TypeOK'
  BY <1>18 DEF GetPlain, GetTurn, At
<1>19. CASE GetGpu
  BY <1>19 DEF GetGpu, GetTurn, At
<1>20. CASE GetNet
  BY <1>20, EnsureTyping DEF GetNet, GetTurn, At, Shared
<1>21. CASE GetSmart
  <2>1. Cardinality(table) \in Nat
    BY DiskCount
  <2> QED
    BY <1>21, <2>1 DEF GetSmart, GetTurn, At
<1>22. CASE GetDiskIo
  <2>1. live' \in [Resources -> Nat]
    BY <1>22, ResourceNames DEF GetDiskIo, OneOfEach, Owned, Shared, Private
  <2> QED
    BY <1>22, <2>1 DEF GetDiskIo, GetTurn, At, NoIo
<1>23. CASE Relist
  <2>1. turn + 1 \in 0..13
    BY <1>23 DEF Relist, ContextShape, At
  <2> QED
    BY <1>23, <2>1, OpenTyping DEF Relist
<1>24. CASE GetDone
  BY <1>24 DEF GetDone
<1>25. CASE Fini
  <2>1. \A r \in Resources : r \in held \cup FreedBySensors => live[r] = 1
    BY <1>25, FiniFrees DEF Fini, OneOfEach
  <2>2. \A r \in Resources : live'[r] \in Nat
    BY <1>25, <2>1 DEF Fini
  <2>3. live' \in [Resources -> Nat]
    BY <1>25, <2>2 DEF Fini
  <2>4. io' \in [count : Nat, drives : SUBSET Disks, stats : Nat] /\ smart' \in [count : Nat, disks : Nat]
    BY <1>25 DEF Fini, NoIo, NoSmart
  <2> QED
    BY <1>25, <2>3, <2>4 DEF Fini
<1>26. ASSUME NEW d \in Disks, Plug(d) PROVE TypeOK'
  BY <1>26, MaxChangesAssumption DEF Plug
<1>27. CASE UNCHANGED vars
  BY <1>27 DEF vars
<1> QED
  BY <1>1, <1>2, <1>3, <1>4, <1>5, <1>6, <1>7, <1>8, <1>9, <1>10, <1>11, <1>12, <1>13, <1>14, <1>15, <1>16,
     <1>17, <1>18, <1>19, <1>20, <1>21, <1>22, <1>23, <1>24, <1>25, <1>26, <1>27
     DEF Next, Collect, InitSensors, GetSensors, Terminated

----------------------------------------------------------------------------
(* Phases.                                                                  *)

\* Every step leaves the registry in one of its phases.
LEMMA PhaseStep == IInv /\ [Next]_vars => PhaseShape'
<1> SUFFICES ASSUME TypeOK, PhaseShape, [Next]_vars PROVE PhaseShape'
  BY DEF IInv
<1> USE DEF TypeOK, hostVars, deviceVars, smartTable, registry, contexts, memory, control, Idle
<1>1. CASE Collect \/ (\E d \in Disks : Plug(d)) \/ UNCHANGED vars
  BY <1>1 DEF Collect, CollectCpuid, CollectSpd, CollectGpu, CollectNetwork, UpdateDisplay, CollectDisk,
              Plug, vars, PhaseShape, Passed
<1>2. CASE Sensors
  BY <1>2 DEF Sensors, PhaseShape, Passed
<1>3. ASSUME NEW p \in Providers, SkipInit(p) PROVE PhaseShape'
  <2>1. InitTurn(p) /\ turn' = turn + 1 /\ pc' = pc /\ initialized' = initialized /\ enabled' = enabled /\ lib' = lib
    BY <1>3 DEF SkipInit
  <2> QED
    BY <2>1, TurnPasses DEF PhaseShape
<1>4. ASSUME NEW p \in Providers, NEW ok \in BOOLEAN, InitTurn(p), Advance(p, ok) PROVE PhaseShape'
  BY <1>4, TurnSwitches
<1>5. CASE InitDiskIo
  <2>1. PICK ok \in BOOLEAN : OpenDrives(ok)
    BY <1>5 DEF InitDiskIo
  <2>2. (io'.count > 0) \in BOOLEAN
    BY <2>1, OpenTyping
  <2> QED
    BY <1>4, <1>5, <2>2, ProviderNames DEF InitDiskIo
<1>6. CASE (\E p \in Providers : InitPrivate(p)) \/ InitCpu \/ InitDimm \/ InitGpu \/ InitNet
  <2>1. ASSUME NEW p \in Providers, InitPrivate(p) PROVE \E ok \in BOOLEAN : InitTurn(p) /\ Advance(p, ok)
    BY <2>1 DEF InitPrivate
  <2>2. CASE InitCpu
    <3>1. \E ok \in BOOLEAN : InitTurn("CPU") /\ Advance("CPU", ok)
      BY <2>2 DEF InitCpu
    <3> QED
      BY <1>4, <3>1, ProviderNames
  <2>3. CASE InitDimm
    <3>1. \E ok \in BOOLEAN : InitTurn("DIMM") /\ Advance("DIMM", ok)
      BY <2>3 DEF InitDimm
    <3> QED
      BY <1>4, <3>1, ProviderNames
  <2>4. CASE InitGpu
    <3>1. \E ok \in BOOLEAN : InitTurn("GPU") /\ Advance("GPU", ok)
      BY <2>4 DEF InitGpu
    <3> QED
      BY <1>4, <3>1, ProviderNames
  <2>5. CASE InitNet
    <3>1. \E ok \in BOOLEAN : InitTurn("NET") /\ Advance("NET", ok)
      BY <2>5 DEF InitNet
    <3> QED
      BY <1>4, <3>1, ProviderNames
  <2> QED
    BY <1>4, <1>6, <2>1, <2>2, <2>3, <2>4, <2>5
<1>7. CASE InitSmart
  <2>1. InitTurn("SMART") /\ \E b \in BOOLEAN : Advance("SMART", b)
    BY <1>7 DEF InitSmart
  <2> QED
    BY <1>4, <2>1, ProviderNames
<1>8. CASE InitDone
  BY <1>8 DEF InitDone, PhaseShape, Passed
<1>9. CASE GetSensors
  BY <1>9 DEF GetSensors, SkipGet, GetPlain, GetGpu, GetNet, GetSmart, GetDiskIo, Relist, GetDone, GetTurn,
              PhaseShape, Passed
<1>10. CASE Fini
  BY <1>10 DEF Fini, PhaseShape
<1> QED
  BY <1>1, <1>2, <1>3, <1>5, <1>6, <1>7, <1>8, <1>9, <1>10 DEF Next, InitSensors, Terminated

----------------------------------------------------------------------------
(* Contexts.                                                                *)

\* What is set up stays so when no provider is switched and no resource given back.
LEMMA ContextKept ==
    ASSUME ContextShape, \A p \in Providers : On(p)' <=> On(p),
           ctx' = ctx, smart'.disks = smart.disks, io'.drives # {} => On("DISKIO"),
           pc' = "relist" => io' = NoIo /\ At("DISKIO")' /\ On("DISKIO"),
           cpuMsr' = cpuMsr, held \ {"gpu"} \subseteq held', "gpu" \in held => "gpu" \in held' \/ oom', oom => oom'
    PROVE  ContextShape'
<1>1. \A p \in Private : p \in ctx' <=> On(p)'
  BY ProviderNames DEF ContextShape
<1>2. (smart.disks > 0 <=> On("SMART"))' /\ (io.drives # {} => On("DISKIO"))'
  BY ProviderNames DEF ContextShape
<1>3. (pc = "relist" => io = NoIo /\ At("DISKIO") /\ On("DISKIO"))'
  BY ProviderNames DEF NoIo
<1>4. (On("CPU") => cpuMsr /\ "msr" \in held)' /\ (On("NET") => "net" \in held)'
  BY ProviderNames DEF ContextShape
<1>5. (On("GPU") => "gpu" \in held \/ oom)'
  BY ProviderNames DEF ContextShape
<1> QED
  BY <1>1, <1>2, <1>3, <1>4, <1>5 DEF ContextShape
\* Every step keeps what is set up in step with the providers that are on.
LEMMA ContextStep == IInv /\ [Next]_vars => ContextShape'
<1> SUFFICES ASSUME TypeOK, PhaseShape, ContextShape, [Next]_vars PROVE ContextShape'
  BY DEF IInv
<1> USE DEF TypeOK, hostVars, deviceVars, smartTable, registry, contexts, memory, control, Idle
<1>c. ctx \subseteq Private /\ "DISKIO" \in Providers /\ "SMART" \in Providers
  BY ProviderNames
<1>1. CASE Collect \/ (\E d \in Disks : Plug(d)) \/ UNCHANGED vars
  <2>1. UNCHANGED <<registry, control>> /\ UNCHANGED contexts
    BY <1>1 DEF Collect, CollectCpuid, CollectSpd, CollectGpu, CollectNetwork, UpdateDisplay, CollectDisk, Plug, vars
  <2>2. \A p \in Providers : On(p)' <=> On(p)
    BY <2>1, OnKept
  <2>3. oom => oom'
    BY <1>1 DEF Collect, CollectCpuid, CollectSpd, CollectGpu, CollectNetwork, UpdateDisplay, CollectDisk, Plug, vars, Allocates
  <2>4. held \ {"gpu"} \subseteq held' /\ ("gpu" \in held => "gpu" \in held' \/ oom')
    BY <1>1 DEF Collect, CollectCpuid, CollectSpd, CollectGpu, CollectNetwork, UpdateDisplay, CollectDisk, Plug, vars,
                Allocates, Ensure
  <2>5. pc' = "relist" => io' = NoIo /\ At("DISKIO")' /\ On("DISKIO")
    BY <2>1 DEF ContextShape, At
  <2> QED
    BY <2>1, <2>2, <2>3, <2>4, <2>5, ContextKept DEF ContextShape
<1>2. CASE Sensors \/ InitDone \/ (\E p \in Providers : SkipInit(p))
  <2>1. \A p \in Providers : On(p)' <=> On(p)
    BY <1>2, OnKept
  <2>2. UNCHANGED contexts /\ held' = held /\ oom' = oom /\ pc' # "relist"
    BY <1>2 DEF Sensors, InitDone, SkipInit, InitTurn
  <2> QED
    BY <2>1, <2>2, ContextKept DEF ContextShape
<1>3. CASE (\E p \in Providers : SkipGet(p) \/ GetPlain(p)) \/ GetGpu \/ GetNet \/ GetSmart \/ GetDone
  <2>1. initialized /\ UNCHANGED registry
    BY <1>3 DEF SkipGet, GetPlain, GetGpu, GetNet, GetSmart, GetDone, GetTurn, PhaseShape
  <2>2. \A p \in Providers : On(p)' <=> On(p)
    BY <2>1, OnKept
  <2>3. ctx' = ctx /\ smart'.disks = smart.disks /\ io' = io /\ cpuMsr' = cpuMsr /\ oom' = oom /\ pc' # "relist"
    BY <1>3 DEF SkipGet, GetPlain, GetGpu, GetNet, GetSmart, GetDone, GetTurn
  <2>4. held \subseteq held'
    BY <1>3 DEF SkipGet, GetPlain, GetGpu, GetNet, GetSmart, GetDone, Ensure
  <2> QED
    BY <2>2, <2>3, <2>4, ContextKept DEF ContextShape
<1>4. CASE GetDiskIo
  <2>1. initialized /\ UNCHANGED registry /\ enabled["DISKIO"]
    BY <1>4 DEF GetDiskIo, GetTurn, PhaseShape
  <2>2. \A p \in Providers : On(p)' <=> On(p)
    BY <2>1, OnKept
  <2>3. On("DISKIO")
    BY <2>1 DEF On, Passed
  <2>4. pc' = "relist" => io' = NoIo /\ At("DISKIO")'
    BY <1>4 DEF GetDiskIo, GetTurn, At
  <2>5. ctx' = ctx /\ smart' = smart /\ cpuMsr' = cpuMsr /\ held' = held /\ oom' = oom
    BY <1>4 DEF GetDiskIo
  <2> QED
    BY <2>2, <2>3, <2>4, <2>5, ContextKept
<1>5. CASE Relist
  <2>1. initialized /\ UNCHANGED registry
    BY <1>5 DEF Relist, PhaseShape
  <2>2. \A p \in Providers : On(p)' <=> On(p)
    BY <2>1, OnKept
  <2>3. On("DISKIO") /\ pc' # "relist"
    BY <1>5 DEF Relist, ContextShape
  <2>4. ctx' = ctx /\ smart' = smart /\ cpuMsr' = cpuMsr /\ held' = held /\ (oom => oom')
    BY <1>5 DEF Relist, OpenDrives, Allocates
  <2> QED
    BY <2>2, <2>3, <2>4, ContextKept
<1>6. ASSUME NEW p \in Providers, InitPrivate(p) PROVE ContextShape'
  <2>1. PICK ok \in BOOLEAN :
          InitTurn(p) /\ p \in Private /\ Advance(p, ok) /\ ctx' = IF ok THEN ctx \cup {p} ELSE ctx \ {p}
    BY <1>6 DEF InitPrivate
  <2>2. ~On(p) /\ (On(p)' <=> ok) /\ (\A q \in Providers : q # p => (On(q)' <=> On(q))) /\ pc' = "init"
    BY <2>1, TurnSwitches
  <2>3. UNCHANGED <<oom, io, smart, cpuMsr, held>>
    BY <1>6 DEF InitPrivate
  <2>4. \A q \in Private : q \in ctx' <=> On(q)'
    BY <2>1, <2>2, ProviderNames DEF ContextShape
  <2>5. \A q \in {"SMART", "DISKIO", "CPU", "NET", "GPU"} : On(q)' <=> On(q)
    BY <2>1, <2>2, ProviderNames DEF Private
  <2> QED
    BY <2>2, <2>3, <2>4, <2>5 DEF ContextShape
<1>7. CASE InitCpu
  <2>1. PICK ok \in BOOLEAN : /\ Advance("CPU", ok)
                              /\ ok => cpuMsr' /\ "msr" \in held'
                              /\ held \subseteq held'
    BY <1>7 DEF InitCpu, Ensure
  <2>2. InitTurn("CPU") /\ UNCHANGED <<ctx, io, smart>> /\ (oom => oom')
    BY <1>7 DEF InitCpu, Allocates
  <2>3. (On("CPU")' <=> ok) /\ (\A q \in Providers : q # "CPU" => (On(q)' <=> On(q))) /\ pc' = "init"
    BY <2>1, <2>2, TurnSwitches, ProviderNames
  <2>4. \A q \in Private \cup {"SMART", "DISKIO", "NET", "GPU"} : On(q)' <=> On(q)
    BY <2>3, ProviderNames DEF Private
  <2> QED
    BY <2>1, <2>2, <2>3, <2>4 DEF ContextShape
<1>8. CASE InitDimm
  <2>1. InitTurn("DIMM") /\ Advance("DIMM", TRUE) /\ UNCHANGED contexts /\ held \subseteq held' /\ (oom => oom')
    BY <1>8 DEF InitDimm, Allocates, Ensure
  <2>2. (\A q \in Providers : q # "DIMM" => (On(q)' <=> On(q))) /\ pc' = "init"
    BY <2>1, TurnSwitches, ProviderNames
  <2>3. \A q \in Private \cup {"SMART", "DISKIO", "NET", "GPU", "CPU"} : On(q)' <=> On(q)
    BY <2>2, ProviderNames DEF Private
  <2> QED
    BY <2>1, <2>2, <2>3 DEF ContextShape
<1>9. CASE InitGpu
  <2>1. PICK ok \in BOOLEAN : Advance("GPU", ok) /\ (ok => "gpu" \in held') /\ held \subseteq held'
    BY <1>9 DEF InitGpu, Ensure
  <2>2. InitTurn("GPU") /\ UNCHANGED contexts /\ (oom => oom')
    BY <1>9 DEF InitGpu, Allocates
  <2>3. (On("GPU")' <=> ok) /\ (\A q \in Providers : q # "GPU" => (On(q)' <=> On(q))) /\ pc' = "init"
    BY <2>1, <2>2, TurnSwitches, ProviderNames
  <2>4. \A q \in Private \cup {"SMART", "DISKIO", "NET", "CPU"} : On(q)' <=> On(q)
    BY <2>3, ProviderNames DEF Private
  <2> QED
    BY <2>1, <2>2, <2>3, <2>4 DEF ContextShape
<1>10. CASE InitNet
  <2>1. PICK ok \in BOOLEAN : Advance("NET", ok) /\ (ok => "net" \in held') /\ held \subseteq held'
    BY <1>10 DEF InitNet, Ensure
  <2>2. InitTurn("NET") /\ UNCHANGED contexts /\ oom' = oom
    BY <1>10 DEF InitNet
  <2>3. (On("NET")' <=> ok) /\ (\A q \in Providers : q # "NET" => (On(q)' <=> On(q))) /\ pc' = "init"
    BY <2>1, <2>2, TurnSwitches, ProviderNames
  <2>4. \A q \in Private \cup {"SMART", "DISKIO", "GPU", "CPU"} : On(q)' <=> On(q)
    BY <2>3, ProviderNames DEF Private
  <2> QED
    BY <2>1, <2>2, <2>3, <2>4 DEF ContextShape
<1>11. CASE InitSmart
  <2>1. InitTurn("SMART") /\ UNCHANGED <<ctx, io, cpuMsr>> /\ held' = held /\ (oom => oom')
    BY <1>11 DEF InitSmart, Allocates
  <2>2. PICK ok \in BOOLEAN : Advance("SMART", ok) /\ (smart'.disks > 0 <=> ok)
    <3>1. CASE ~host.smart
      <4>1. smart' = smart /\ Advance("SMART", FALSE)
        BY <1>11, <3>1 DEF InitSmart
      <4>2. ~On("SMART")
        BY <2>1, <4>1, <1>c, TurnSwitches
      <4> QED
        BY <4>1, <4>2 DEF ContextShape
    <3>2. CASE host.smart
      <4>1. PICK ok \in BOOLEAN :
              LET n == Cardinality(table')
                  enough == ok /\ n > 0
              IN  smart' = (IF enough THEN [count |-> n, disks |-> n] ELSE NoSmart) /\ Advance("SMART", enough)
        BY <1>11, <3>2 DEF InitSmart
      <4>2. table' \subseteq Disks
        BY <1>11 DEF InitSmart
      <4>3. Cardinality(table') \in Nat
        BY <4>2, DiskCount
      <4>4. (smart'.disks > 0 <=> ok /\ Cardinality(table') > 0) /\ (ok /\ Cardinality(table') > 0) \in BOOLEAN
        BY <4>1, <4>3 DEF NoSmart
      <4> QED
        BY <4>1, <4>4
    <3> QED
      BY <3>1, <3>2
  <2>3. (On("SMART")' <=> ok) /\ (\A q \in Providers : q # "SMART" => (On(q)' <=> On(q))) /\ pc' = "init"
    BY <2>1, <2>2, TurnSwitches, ProviderNames
  <2>4. \A q \in Private \cup {"NET", "DISKIO", "GPU", "CPU"} : On(q)' <=> On(q)
    BY <2>3, ProviderNames DEF Private
  <2> QED
    BY <2>1, <2>2, <2>3, <2>4 DEF ContextShape
<1>12. CASE InitDiskIo
  <2>1. InitTurn("DISKIO") /\ Advance("DISKIO", io'.count > 0) /\ UNCHANGED <<ctx, smart, cpuMsr, held>>
    BY <1>12 DEF InitDiskIo
  <2>2. PICK ok \in BOOLEAN : OpenDrives(ok)
    BY <1>12 DEF InitDiskIo
  <2>3. (io'.count > 0 <=> io'.drives # {}) /\ (io'.count > 0) \in BOOLEAN /\ (oom => oom')
    BY <2>2, OpenTyping DEF OpenDrives, Allocates
  <2>4. (On("DISKIO")' <=> io'.count > 0) /\ (\A q \in Providers : q # "DISKIO" => (On(q)' <=> On(q))) /\ pc' = "init"
    BY <2>1, <2>3, <1>c, TurnSwitches
  <2>5. \A q \in Private \cup {"NET", "SMART", "GPU", "CPU"} : On(q)' <=> On(q)
    BY <2>4, ProviderNames DEF Private
  <2> QED
    BY <2>1, <2>3, <2>4, <2>5 DEF ContextShape
<1>13. CASE Fini
  <2>1. \A p \in Providers : ~On(p)'
    BY <1>13 DEF Fini, On, Passed
  <2>2. ctx' = {} /\ io' = NoIo /\ smart' = NoSmart /\ pc' = "idle"
    BY <1>13 DEF Fini
  <2> QED
    BY <2>1, <2>2, ProviderNames DEF ContextShape, NoIo, NoSmart
<1> QED
  BY <1>1, <1>2, <1>3, <1>4, <1>5, <1>6, <1>7, <1>8, <1>9, <1>10, <1>11, <1>12, <1>13
     DEF Next, InitSensors, GetSensors, Terminated

----------------------------------------------------------------------------
(* Ownership.                                                               *)

\* Nothing is allocated, freed, taken or given up.
LEMMA OwnedKept ==
    ASSUME OneOfEach, live' = live, held' = held, ctx' = ctx,
           smart'.disks = smart.disks, io'.drives = io.drives
    PROVE  OneOfEach'
  BY DEF OneOfEach, Owned

\* A collector creates a shared resource it finds missing.
LEMMA OwnedEnsured ==
    ASSUME OneOfEach, TypeOK, NEW r \in Shared, Ensure(r), ctx' = ctx,
           smart'.disks = smart.disks, io'.drives = io.drives
    PROVE  OneOfEach'
<1>1. held' = held \cup {r} /\ live' = [live EXCEPT ![r] = IF r \in held THEN @ ELSE @ + 1]
  BY EnsureTyping DEF TypeOK
<1>2. r \in held <=> Owned(r)
  BY DEF Owned, Shared, TypeOK, Private
<1>3. live'[r] = 1 /\ Owned(r)'
  BY <1>1, <1>2 DEF OneOfEach, TypeOK, Owned, Resources
<1>4. ASSUME NEW q \in Resources, q # r PROVE live'[q] = live[q] /\ (Owned(q)' <=> Owned(q))
  BY <1>1, <1>4 DEF TypeOK, Owned
<1> QED
  BY <1>3, <1>4 DEF OneOfEach

\* The drive list and its stats are made where there are none.
LEMMA OwnedOpened ==
    ASSUME OneOfEach, TypeOK, io.drives = {}, NEW ok \in BOOLEAN, OpenDrives(ok),
           ctx' = ctx, smart'.disks = smart.disks, held' = held
    PROVE  OneOfEach'
<1>1. live' = [live EXCEPT !["list"] = @ + (IF io'.drives = {} THEN 0 ELSE 1),
                           !["stats"] = @ + (IF io'.drives = {} THEN 0 ELSE 1)]
  BY OpenTyping DEF TypeOK
<1>2. ASSUME NEW q \in {"list", "stats"} PROVE live[q] = 0 /\ (Owned(q)' <=> io'.drives # {}) /\ q \in Resources
  BY ResourceNames DEF OneOfEach, TypeOK, Owned, Shared, Private
<1>3. ASSUME NEW q \in {"list", "stats"} PROVE live'[q] = IF Owned(q)' THEN 1 ELSE 0
  BY <1>1, <1>2 DEF TypeOK
<1>4. ASSUME NEW q \in Resources, q \notin {"list", "stats"} PROVE live'[q] = live[q] /\ (Owned(q)' <=> Owned(q))
  BY <1>1, <1>4 DEF TypeOK, Owned
<1> QED
  BY <1>3, <1>4 DEF OneOfEach

\* Every step leaves one allocation for each resource that is owned.
LEMMA OwnStep == IInv /\ [Next]_vars => OneOfEach'
<1> SUFFICES ASSUME IInv, TypeOK, PhaseShape, ContextShape, OneOfEach, [Next]_vars PROVE OneOfEach'
  BY DEF IInv
<1> USE DEF hostVars, deviceVars, smartTable, registry, contexts, memory, control
<1>c. {"SMART", "DISKIO"} \subseteq Providers /\ Shared = {"msr", "smbus", "gpu", "net"}
  BY ProviderNames DEF Shared
<1>1. CASE \/ Sensors \/ InitDone \/ GetGpu \/ GetSmart \/ GetDone \/ UNCHANGED vars
           \/ (\E p \in Providers : SkipInit(p) \/ SkipGet(p) \/ GetPlain(p))
           \/ (\E d \in Disks : Plug(d))
           \/ (\E reset, wanted \in BOOLEAN : CollectDisk(reset, wanted))
  <2>1. live' = live /\ held' = held /\ ctx' = ctx /\ io' = io
    BY <1>1 DEF Sensors, InitDone, GetGpu, GetSmart, GetDone, SkipInit, SkipGet, GetPlain, Plug, CollectDisk, vars
  <2>2. smart' = smart \/ smart' = [smart EXCEPT !.count = Cardinality(table)]
    BY <1>1 DEF Sensors, InitDone, GetGpu, GetSmart, GetDone, SkipInit, SkipGet, GetPlain, Plug, CollectDisk, vars
  <2>3. smart'.disks = smart.disks
    BY <2>2 DEF TypeOK
  <2> QED
    BY <2>1, <2>3, OwnedKept
<1>2. CASE CollectCpuid \/ CollectSpd \/ CollectGpu \/ CollectNetwork \/ InitDimm \/ InitGpu \/ InitNet \/ GetNet
  <2>1. (\E r \in Shared : Ensure(r)) \/ UNCHANGED memory
    BY <1>2, <1>c DEF CollectCpuid, CollectSpd, CollectGpu, CollectNetwork, InitDimm, InitGpu, InitNet, GetNet
  <2>2. UNCHANGED contexts
    BY <1>2 DEF CollectCpuid, CollectSpd, CollectGpu, CollectNetwork, InitDimm, InitGpu, InitNet, GetNet
  <2> QED
    BY <2>1, <2>2, OwnedEnsured, OwnedKept
<1>3. CASE InitCpu
  <2>1. Ensure("msr") \/ UNCHANGED memory
    BY <1>3 DEF InitCpu
  <2>2. UNCHANGED <<ctx, io, smart>>
    BY <1>3 DEF InitCpu
  <2> QED
    BY <1>c, <2>1, <2>2, OwnedEnsured, OwnedKept
<1>4. CASE UpdateDisplay
  <2>1. PICK ok \in BOOLEAN : /\ held' = IF ok THEN held \cup {"gpu"} ELSE held \ {"gpu"}
                              /\ live' = Adjust("gpu", IF ok THEN 1 ELSE 0)
    BY <1>4 DEF UpdateDisplay
  <2>2. UNCHANGED contexts
    BY <1>4 DEF UpdateDisplay
  <2>3. live'["gpu"] = (IF ok THEN 1 ELSE 0) /\ (Owned("gpu")' <=> ok) /\ "gpu" \in Resources
    BY <2>1, <2>2, ResourceNames DEF TypeOK, Adjust, Owned, Private
  <2>4. ASSUME NEW r \in Resources, r # "gpu" PROVE live'[r] = live[r] /\ (Owned(r)' <=> Owned(r))
    BY <2>1, <2>2, <2>4 DEF TypeOK, Adjust, Owned
  <2> QED
    BY <2>3, <2>4 DEF OneOfEach
<1>5. ASSUME NEW p \in Providers, InitPrivate(p) PROVE OneOfEach'
  <2>1. PICK ok \in BOOLEAN : /\ InitTurn(p) /\ p \in Private /\ Advance(p, ok)
                              /\ ctx' = IF ok THEN ctx \cup {p} ELSE ctx \ {p}
                              /\ live' = IF ok THEN Take(p) ELSE live
    BY <1>5 DEF InitPrivate
  <2>2. UNCHANGED <<io, smart, held>>
    BY <1>5 DEF InitPrivate
  <2>3. p \notin ctx /\ p \notin held /\ p \in Resources /\ p # "names" /\ p \notin {"list", "stats"}
    BY <2>1, TurnSwitches DEF ContextShape, TypeOK, Shared, Private, Resources
  <2>4. live[p] = 0
    BY <2>3 DEF OneOfEach, Owned
  <2>5. live'[p] = (IF ok THEN 1 ELSE 0) /\ (Owned(p)' <=> ok)
    BY <2>1, <2>2, <2>3, <2>4 DEF Take, TypeOK, Owned
  <2>6. ASSUME NEW r \in Resources, r # p PROVE live'[r] = live[r] /\ (Owned(r)' <=> Owned(r))
    BY <2>1, <2>2, <2>6 DEF TypeOK, Take, Owned
  <2> QED
    BY <2>5, <2>6 DEF OneOfEach
<1>6. CASE InitSmart
  <2>1. InitTurn("SMART") /\ UNCHANGED <<ctx, io, held>> /\ \E b \in BOOLEAN : Advance("SMART", b)
    BY <1>6 DEF InitSmart
  <2>2. ~(smart.disks > 0)
    BY <1>c, <2>1, TurnSwitches DEF ContextShape
  <2>3. CASE ~host.smart
    BY <1>6, <2>1, <2>3, OwnedKept DEF InitSmart
  <2>4. CASE host.smart
    <3>1. PICK ok \in BOOLEAN :
            LET n == Cardinality(table')
                enough == ok /\ n > 0
            IN  /\ smart' = IF enough THEN [count |-> n, disks |-> n] ELSE NoSmart
                /\ live' = IF enough THEN Take("names") ELSE live
      BY <1>6, <2>4 DEF InitSmart
    <3>2. live["names"] = 0 /\ "names" \in Resources
      BY <2>2, ResourceNames DEF OneOfEach, Owned, TypeOK, Shared, Private
    <3>3. table' \subseteq Disks
      BY <1>6 DEF InitSmart, TypeOK
    <3>4. Cardinality(table') \in Nat
      BY <3>3, DiskCount
    <3>5. live'["names"] = IF Owned("names")' THEN 1 ELSE 0
      BY <2>1, <3>1, <3>2, <3>4 DEF Take, TypeOK, Owned, Shared, Private, NoSmart
    <3>6. ASSUME NEW r \in Resources, r # "names" PROVE live'[r] = live[r] /\ (Owned(r)' <=> Owned(r))
      BY <2>1, <3>1, <3>6 DEF TypeOK, Take, Owned
    <3> QED
      BY <3>5, <3>6 DEF OneOfEach
  <2> QED
    BY <2>3, <2>4
<1>7. CASE InitDiskIo
  <2>1. InitTurn("DISKIO") /\ Advance("DISKIO", io'.count > 0) /\ UNCHANGED <<ctx, smart, held>>
    BY <1>7 DEF InitDiskIo
  <2>2. PICK ok \in BOOLEAN : OpenDrives(ok)
    BY <1>7 DEF InitDiskIo
  <2>3. (io'.count > 0) \in BOOLEAN
    BY <2>2, OpenTyping DEF TypeOK
  <2>4. io.drives = {}
    BY <1>c, <2>1, <2>3, TurnSwitches DEF ContextShape
  <2> QED
    BY <2>1, <2>2, <2>4, OwnedOpened
<1>8. CASE Relist
  <2>1. io.drives = {} /\ UNCHANGED <<ctx, smart, held>> /\ \E ok \in BOOLEAN : OpenDrives(ok)
    BY <1>8 DEF Relist, ContextShape, NoIo
  <2> QED
    BY <2>1, OwnedOpened
<1>9. CASE GetDiskIo
  <2>1. UNCHANGED <<ctx, smart, held>>
    BY <1>9 DEF GetDiskIo
  <2>2. CASE live' = live /\ io'.drives = io.drives
    BY <2>1, <2>2, OwnedKept
  <2>3. CASE io.drives # {} /\ io' = NoIo /\ live' = [live EXCEPT !["list"] = @ - 1, !["stats"] = @ - 1]
    <3>1. ASSUME NEW q \in {"list", "stats"} PROVE live[q] = 1 /\ ~Owned(q)' /\ q \in Resources
      BY <2>1, <2>3, ResourceNames DEF OneOfEach, TypeOK, Owned, Shared, Private, NoIo
    <3>2. ASSUME NEW q \in {"list", "stats"} PROVE live'[q] = 0
      BY <2>3, <3>1 DEF TypeOK
    <3>3. ASSUME NEW q \in Resources, q \notin {"list", "stats"} PROVE live'[q] = live[q] /\ (Owned(q)' <=> Owned(q))
      BY <2>1, <2>3, <3>3 DEF TypeOK, Owned
    <3> QED
      BY <3>1, <3>2, <3>3 DEF OneOfEach
  <2> QED
    BY <1>9, <2>2, <2>3 DEF GetDiskIo, NoIo
<1>10. CASE Fini
  <2>1. \A r \in Resources : r \in held \cup FreedBySensors <=> Owned(r)
    BY <1>10, FiniFrees DEF Fini
  <2>2. \A r \in Resources : live'[r] = 0
    BY <1>10, <2>1 DEF Fini, OneOfEach
  <2>3. \A r \in Resources : ~Owned(r)'
    BY <1>10 DEF Fini, Owned, NoIo, NoSmart
  <2> QED
    BY <2>2, <2>3 DEF OneOfEach
<1> QED
  BY <1>1, <1>2, <1>3, <1>4, <1>5, <1>6, <1>7, <1>8, <1>9, <1>10
     DEF Next, Collect, InitSensors, GetSensors, Terminated

----------------------------------------------------------------------------
(* The I/O arrays, and what can end the process.                            *)

\* Every step leaves the I/O arrays as long as the count says.
LEMMA IoStep == IInv /\ [Next]_vars => IoInBounds'
<1> SUFFICES ASSUME TypeOK, IoInBounds, [Next]_vars PROVE IoInBounds'
  BY DEF IInv
<1>1. CASE \E ok \in BOOLEAN : OpenDrives(ok)
  BY <1>1, OpenTyping DEF IoInBounds, TypeOK
<1>2. CASE io' = io
  BY <1>2 DEF IoInBounds
<1>3. CASE io' = NoIo
  BY <1>3, FS_EmptySet DEF IoInBounds, NoIo
<1>4. io' = io \/ io' = NoIo \/ \E ok \in BOOLEAN : OpenDrives(ok)
  <2> USE DEF contexts
  <2>1. CASE Collect \/ Sensors \/ Fini \/ (\E d \in Disks : Plug(d)) \/ Terminated \/ UNCHANGED vars
    BY <2>1 DEF Collect, CollectCpuid, CollectSpd, CollectGpu, CollectNetwork, UpdateDisplay, CollectDisk,
                Sensors, Fini, Plug, Terminated, vars
  <2>2. CASE InitSensors
    BY <2>2 DEF InitSensors, SkipInit, InitPrivate, InitCpu, InitDimm, InitGpu, InitNet, InitSmart, InitDiskIo, InitDone
  <2>3. CASE GetSensors
    BY <2>3 DEF GetSensors, SkipGet, GetPlain, GetGpu, GetNet, GetSmart, GetDiskIo, Relist, GetDone
  <2> QED
    BY <2>1, <2>2, <2>3 DEF Next
<1> QED
  BY <1>1, <1>2, <1>3, <1>4

\* A step that ends the process is one that CrashExplained allows.
LEMMA CrashStep == IInv /\ [Next]_vars => CrashExplained'
<1> SUFFICES ASSUME TypeOK, PhaseShape, ContextShape, CrashExplained, [Next]_vars PROVE CrashExplained'
  BY DEF IInv
<1>1. CASE GetGpu
  <2>1. On("GPU") /\ oom' = oom /\ (lib' = "crashed" => "gpu" \notin held)
    BY <1>1 DEF GetGpu, GetTurn, PhaseShape, On, Passed, hostVars
  <2> QED
    BY <2>1 DEF ContextShape, CrashExplained
<1>2. CASE GetSmart
  <2>1. smart'.disks = smart.disks /\ (lib' = "crashed" => smart'.count > smart.disks)
    BY <1>2 DEF GetSmart, GetTurn, TypeOK
  <2> QED
    BY <2>1 DEF CrashExplained
<1>3. CASE Terminated \/ UNCHANGED vars
  BY <1>3 DEF Terminated, vars, hostVars, contexts, CrashExplained
<1>4. CASE Collect \/ Sensors \/ Fini \/ (\E d \in Disks : Plug(d))
  <2>1. lib' # "crashed"
    BY <1>4 DEF Collect, CollectCpuid, CollectSpd, CollectGpu, CollectNetwork, UpdateDisplay, CollectDisk,
                Sensors, Fini, Plug, Idle
  <2> QED
    BY <2>1 DEF CrashExplained
<1>5. CASE InitSensors
  <2>1. lib' # "crashed"
    BY <1>5 DEF InitSensors, SkipInit, InitPrivate, InitCpu, InitDimm, InitGpu, InitNet, InitSmart, InitDiskIo, InitDone,
                InitTurn, Advance
  <2> QED
    BY <2>1 DEF CrashExplained
<1>6. CASE (\E p \in Providers : SkipGet(p) \/ GetPlain(p)) \/ GetNet \/ GetDiskIo \/ Relist \/ GetDone
  <2>1. lib' # "crashed"
    BY <1>6 DEF SkipGet, GetPlain, GetNet, GetDiskIo, Relist, GetDone, GetTurn
  <2> QED
    BY <2>1 DEF CrashExplained
<1> QED
  BY <1>1, <1>2, <1>3, <1>4, <1>5, <1>6 DEF Next, GetSensors

----------------------------------------------------------------------------
(* The invariant, and what follows from it.                                 *)

\* The invariant holds after NW_Init.
LEMMA InvInit == Init => IInv
<1> SUFFICES ASSUME Init PROVE IInv
  OBVIOUS
<1>1. TypeOK
  BY TypeInit
<1>2. \A p \in Providers : ~On(p) /\ ~enabled[p]
  BY DEF Init, On, Passed
<1>3. PhaseShape
  BY <1>2 DEF Init, PhaseShape
<1>4. ContextShape
  BY <1>2, ProviderNames DEF Init, ContextShape, NoIo, NoSmart
<1>5. OneOfEach
  BY DEF Init, OneOfEach, Owned, NoIo, NoSmart
<1>6. IoInBounds
  BY FS_EmptySet DEF Init, IoInBounds, NoIo
<1>7. CrashExplained
  BY DEF Init, CrashExplained
<1> QED
  BY <1>1, <1>3, <1>4, <1>5, <1>6, <1>7 DEF IInv

\* Every step keeps it.
LEMMA InvStep == IInv /\ [Next]_vars => IInv'
  BY TypeStep, PhaseStep, ContextStep, OwnStep, IoStep, CrashStep DEF IInv

\* In every reachable state of the library, IInv holds.
THEOREM Inductive == Spec => []IInv
  BY InvInit, InvStep, PTL DEF Spec

\* In every execution every variable of the registry holds a value of its kind.
THEOREM TypeCorrect == Spec => []TypeOK
<1>1. IInv => TypeOK
  BY DEF IInv
<1> QED
  BY <1>1, Inductive, PTL

\* Whatever is collected, initialised, read, plugged, unplugged or fails to be
\* allocated, each resource of NWLIB_CONTEXT and of the providers is allocated once
\* while its owner points to it and not at all otherwise: none is lost or made
\* twice, and NW_Fini leaves none.
THEOREM OneAllocationEach == Spec => []OneOfEach
<1>1. IInv => OneOfEach
  BY DEF IInv
<1> QED
  BY <1>1, Inductive, PTL

\* disk_get of disk_io.c never reads past its drive list or its stats, though disks
\* come and go between NWL_GetDriveCount and NWL_GetDriveInfoList.
THEOREM IoStaysInBounds == Spec => []IoInBounds
<1>1. IInv => IoInBounds
  BY DEF IInv
<1> QED
  BY <1>1, Inductive, PTL

\* Once NWL_InitSensors has run, each provider NWL_GetSensors would call has the
\* context its get reads through.
THEOREM ProvidersHaveContext == Spec => []EnabledHasContext
<1>1. IInv => EnabledHasContext
  BY ProviderNames DEF IInv, ContextShape, EnabledHasContext, On, Passed, TypeOK
<1> QED
  BY <1>1, Inductive, PTL

\* Only a failed allocation, or the index past the names of the SMART provider, can
\* end the process in a collector or a sensor.
THEOREM CrashesExplained == Spec => []CrashExplained
<1>1. IInv => CrashExplained
  BY DEF IInv
<1> QED
  BY <1>1, Inductive, PTL
================================================================================
