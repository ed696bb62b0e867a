------------------------------- MODULE SpdPaging -------------------------------
(****************************************************************************)
(* Reading memory modules over the SMBus (libnw/smbus/smbus.c, NW_Spd of    *)
(* spd.c).  An SPD device shows one page of its data at a time: all DDR4    *)
(* devices change page together, a DDR5 hub has a page register of its own, *)
(* older devices have no pages.  libnw remembers a page and an address, and *)
(* skips a selection it takes for redundant.  Processes share the bus: the  *)
(* mutex Access_SMBUS is waited for with a timeout nobody looks at, and the *)
(* pages a process has left selected survive its end.                       *)
(*                                                                          *)
(* A step is one SMBus transaction (or a skipped one).  Of the data only    *)
(* the memory type and the page register's byte 11 are kept.                *)
(****************************************************************************)
EXTENDS Naturals

CONSTANTS
    Procs,      \* processes that use libnw
    Free,       \* no owner
    Ops(_),     \* what a process may do: "spd" (NW_Spd), "sensors" (NWL_GetMemSensors)
    LastSlot,   \* slots are 0..LastSlot; the code has SPD_MAX_SLOT = 8
    Module(_),  \* what a slot holds
    Byte11(_),  \* the low bits of byte 11 of a device that is not a hub
    Byte130,    \* what byte 130 of a device without pages says as a memory type
    HubPages,   \* pages of a DDR5 module the report needs
    MaxTimeouts,\* bound: waits of WR0_WaitSmBus that give up
    MaxCrashes, \* bound: processes that end in the middle of something and start again
    MaxFaults   \* bound: transactions that fail although the device is there

Slot == 0..LastSlot
Page == 0..7
Unset == 255
Pages == [DDR4 |-> {0, 1}, DDR5 |-> HubPages]

ASSUME FreeAssumption == Free \notin Procs
ASSUME OpsAssumption == \A p \in Procs : Ops(p) \subseteq {"spd", "sensors"}
ASSUME LastSlotAssumption == LastSlot \in 0..7
ASSUME ModuleAssumption == \A s \in Slot : Module(s) \in {"DDR4", "DDR5", "flat", "empty"}
ASSUME Byte11Assumption == \A s \in Slot : Byte11(s) \in Page
ASSUME Byte130Assumption == Byte130 \in {"unknown", "other"}
ASSUME HubPagesAssumption == HubPages \subseteq Page /\ 0 \in HubPages
ASSUME BusAssumption == MaxTimeouts \in Nat /\ MaxCrashes \in Nat /\ MaxFaults \in Nat

VARIABLES
    proc,    \* what each process does, its smbus_context and its sensor list
    owner,   \* the owner of the mutex Access_SMBUS
    page4,   \* the page all DDR4 devices show
    reg11,   \* MR11, the page, of a hub; byte 11 of another device
    crashes, \* processes that have ended early so far
    faults,  \* failed transactions so far
    timeouts,   \* waits given up so far
    late,       \* history: processes that use the bus after a wait given up
    disturbed   \* history: processes about to read, for whom another has selected another
                \* page since, one of the two without the mutex

counts == <<crashes, timeouts>>
race == <<late, disturbed>>
vars == <<proc, owner, page4, reg11, crashes, faults, timeouts, late, disturbed>>

\* A process that holds nothing: SM_Init leaves 0xFF in the page cache.
Started == [pc |-> "idle", op |-> "none", slot |-> 0, proto |-> "none", want |-> 0,
            form |-> "none", ok |-> TRUE, page |-> Unset, addr |-> Unset,
            inited |-> FALSE, hot |-> [s \in Slot |-> "none"]]

\* Between two operations only the context and the sensor list are kept.
AtRest(me) == [Started EXCEPT !.page = me.page, !.addr = me.addr, !.inited = me.inited, !.hot = me.hot]

Init ==
    /\ proc = [p \in Procs |-> Started]
    /\ owner = Free
    /\ page4 = 0
    /\ reg11 = [s \in Slot |-> IF Module(s) = "DDR5" THEN 0 ELSE Byte11(s)]
    /\ crashes = 0 /\ faults = 0 /\ timeouts = 0
    /\ late = {} /\ disturbed = {}

----------------------------------------------------------------------------
(* The devices.                                                             *)

Present(s) == Module(s) # "empty"
AnyDDR4 == \E s \in Slot : Module(s) = "DDR4"

\* A transaction some device answers succeeds, or fails as one of MaxFaults.
Outcome(answered, ok) ==
    /\ ok => answered
    /\ answered /\ ~ok => faults < MaxFaults
    /\ faults' = IF answered /\ ~ok THEN faults + 1 ELSE faults

\* The type a read of offset 2 ("low") or 2 | 0x80 ("high") finds: a hub shows
\* its page in the upper half, byte 130 and later pages are not the type.
TypeAt(s, half) ==
    CASE Module(s) = "DDR5" /\ half = "high" /\ reg11[s] = 0 -> "DDR5"
      [] Module(s) = "DDR4" /\ half = "low" /\ page4 = 0 -> "DDR4"
      [] Module(s) = "flat" -> IF half = "low" THEN "flat" ELSE Byte130
      [] OTHER -> "other"

\* Byte 11 as read: in the second page of a DDR4 device it is a reserved zero.
ReadReg11(s) == IF Module(s) = "DDR4" /\ page4 = 1 THEN 0 ELSE reg11[s]

\* The remembered page and address are compared, and updated nowhere but in the
\* DDR5 probe.
Redundant(me, n) == n = me.page /\ me.slot = me.addr

\* All DDR4 devices listen.  A write that failed may have reached them.
SetDDR4Page(p, n, ok) ==
    /\ UNCHANGED reg11
    /\ IF Redundant(proc[p], n) THEN ok /\ UNCHANGED <<page4, faults>>
       ELSE /\ Outcome(AnyDDR4, ok)
            /\ page4' \in (IF ok THEN {} ELSE {page4}) \cup (IF AnyDDR4 THEN {n} ELSE {})

\* Offset 0x0B of the device itself, be it a hub or not.
SetDDR5Page(p, n, ok) ==
    LET s == proc[p].slot
        reached == Present(s) /\ ~(Module(s) = "DDR4" /\ page4 = 1)
    IN  /\ UNCHANGED page4
        /\ IF Redundant(proc[p], n) THEN ok /\ UNCHANGED <<reg11, faults>>
           ELSE /\ Outcome(Present(s), ok)
                /\ reg11' \in (IF ok /\ reached THEN {} ELSE {reg11})
                                \cup (IF reached THEN {[reg11 EXCEPT ![s] = n]} ELSE {})

\* NW_Spd asks for a module's temperature once it has released the mutex.
Outside(q) == q \in late \/ (proc[q].op = "spd" /\ proc[q].pc \in {"tsset", "tsread", "temp"})

Reads(q) == proc[q].pc \in {"read", "tsread"}

Disturbs(p, n) ==
    disturbed' = disturbed \cup
        { q \in Procs \ {p} : Reads(q) /\ proc[q].want # n /\ (Outside(p) \/ Outside(q)) }

SetPage(p, proto, n, ok) ==
    /\ IF proto = "DDR4" THEN SetDDR4Page(p, n, ok) ELSE SetDDR5Page(p, n, ok)
    /\ Disturbs(p, n)

----------------------------------------------------------------------------
(* How an operation goes on.                                                *)

NextSlot(me) ==
    IF me.slot < LastSlot
    THEN [me EXCEPT !.slot = @ + 1, !.pc = IF me.op = "spd" THEN "wait" ELSE "quick",
                    !.proto = "none", !.want = 0, !.form = "none", !.ok = TRUE]
    ELSE IF me.op = "spd" THEN AtRest(me)
    ELSE [me EXCEPT !.slot = 0, !.pc = "poll", !.proto = "none", !.inited = TRUE]

Fail(me) == [me EXCEPT !.pc = "release", !.ok = FALSE]

\* The switch on spd_type; the sensors go by the branch that answered.
Detected(me, branch, type) ==
    IF me.op = "sensors" THEN [me EXCEPT !.pc = "tsset", !.proto = branch]
    ELSE IF type = "unknown" THEN Fail(me)
    ELSE IF type \in {"DDR4", "DDR5"} THEN [me EXCEPT !.pc = "set", !.proto = type]
    ELSE [me EXCEPT !.pc = "raw"]

Undetected(me) == IF me.op = "spd" THEN [me EXCEPT !.pc = "plain"] ELSE NextSlot(me)

\* The next page in ascending order, or the end of the list.
Advance(me) ==
    LET later == { n \in Pages[me.proto] : n > me.want }
    IN  IF later = {} THEN [me EXCEPT !.pc = "home"]
        ELSE [me EXCEPT !.pc = "set", !.want = CHOOSE n \in later : \A k \in later : n <= k]

Become(p, me) == proc' = [proc EXCEPT ![p] = me]

----------------------------------------------------------------------------
Begin(p, op) ==
    /\ proc[p].pc = "idle"
    /\ Become(p, [proc[p] EXCEPT !.pc = "wait", !.op = op])
    /\ UNCHANGED <<owner, page4, reg11, faults, counts, race>>

Wait_Unlocked(p) ==
    /\ proc[p].pc = "wait"
    /\ Become(p, [proc[p] EXCEPT !.pc = IF proc[p].op = "sensors" /\ proc[p].inited THEN "poll" ELSE "quick"])
    /\ UNCHANGED <<owner, page4, reg11, faults, counts, race>>

\* WR0_WaitSmBus: its result is ignored.
Wait(p) ==
    /\ proc[p].pc = "wait"
    /\ \/ owner = Free /\ owner' = p /\ UNCHANGED <<late, timeouts>>
       \/ /\ owner # Free /\ timeouts < MaxTimeouts
          /\ late' = late \cup {p} /\ timeouts' = timeouts + 1
          /\ UNCHANGED owner
    /\ Become(p, [proc[p] EXCEPT !.pc = IF proc[p].op = "sensors" /\ proc[p].inited THEN "poll" ELSE "quick"])
    /\ UNCHANGED <<page4, reg11, crashes, faults, disturbed>>

Quick_HubFirst(p) ==
    /\ proc[p].pc = "quick"
    /\ Become(p, [proc[p] EXCEPT !.pc = "mr11"])
    /\ UNCHANGED <<owner, page4, reg11, faults, counts, race>>

\* SM_DDR4_IsAvailable: any DDR4 device answers to 0x36.
Quick(p) ==
    /\ proc[p].pc = "quick"
    /\ \E ok \in BOOLEAN :
        /\ Outcome(AnyDDR4, ok)
        /\ Become(p, [proc[p] EXCEPT !.pc = IF ok THEN "set4" ELSE "mr11"])
    /\ UNCHANGED <<owner, page4, reg11, counts, race>>

Set4_Skipped(p) ==
    /\ proc[p].pc = "set4"
    /\ Become(p, [proc[p] EXCEPT !.pc = "type4"])
    /\ UNCHANGED <<owner, page4, reg11, faults, counts, race>>

Set4(p) ==
    /\ proc[p].pc = "set4"
    /\ \E ok \in BOOLEAN :
        /\ SetPage(p, "DDR4", 0, ok)
        /\ Become(p, [proc[p] EXCEPT !.pc = IF ok THEN "type4" ELSE "mr11"])
    /\ UNCHANGED <<owner, counts, late>>

Type4(p) ==
    /\ proc[p].pc = "type4"
    /\ \E ok \in BOOLEAN :
        /\ Outcome(Present(proc[p].slot), ok)
        /\ Become(p, IF ok THEN Detected(proc[p], "DDR4", TypeAt(proc[p].slot, "low"))
                           ELSE [proc[p] EXCEPT !.pc = "mr11"])
    /\ UNCHANGED <<owner, page4, reg11, counts, race>>

\* SM_DDR5_IsAvailable: the only place that fills the cache.
ReadMR11(p) ==
    /\ proc[p].pc = "mr11"
    /\ \E ok \in BOOLEAN :
        /\ Outcome(Present(proc[p].slot), ok)
        /\ Become(p, IF ok THEN [proc[p] EXCEPT !.pc = "set5", !.page = ReadReg11(proc[p].slot),
                                                 !.addr = proc[p].slot]
                           ELSE Undetected(proc[p]))
    /\ UNCHANGED <<owner, page4, reg11, counts, race>>

Set5_Skipped(p) ==
    /\ proc[p].pc = "set5"
    /\ Become(p, [proc[p] EXCEPT !.pc = "type5"])
    /\ UNCHANGED <<owner, page4, reg11, faults, counts, race>>

Set5(p) ==
    /\ proc[p].pc = "set5"
    /\ \E ok \in BOOLEAN :
        /\ SetPage(p, "DDR5", 0, ok)
        /\ Become(p, IF ok THEN [proc[p] EXCEPT !.pc = "type5"] ELSE Undetected(proc[p]))
    /\ UNCHANGED <<owner, counts, late>>

Type5(p) ==
    /\ proc[p].pc = "type5"
    /\ \E ok \in BOOLEAN :
        /\ Outcome(Present(proc[p].slot), ok)
        /\ Become(p, IF ok THEN Detected(proc[p], "DDR5", TypeAt(proc[p].slot, "high"))
                           ELSE Undetected(proc[p]))
    /\ UNCHANGED <<owner, page4, reg11, counts, race>>

\* The last resort of SM_GetSpd
Plain(p) ==
    /\ proc[p].pc = "plain"
    /\ \E ok \in BOOLEAN :
        /\ Outcome(Present(proc[p].slot), ok)
        /\ Become(p, IF ok THEN Detected(proc[p], "none", TypeAt(proc[p].slot, "low")) ELSE Fail(proc[p]))
    /\ UNCHANGED <<owner, page4, reg11, counts, race>>

----------------------------------------------------------------------------
\* SM_DDR4_ReadByteAt and SM_DDR5_ReadByteAt: select, then read.
Select(p) ==
    /\ proc[p].pc = "set"
    /\ \E ok \in BOOLEAN :
        /\ SetPage(p, proc[p].proto, proc[p].want, ok)
        /\ Become(p, IF ok THEN [proc[p] EXCEPT !.pc = "read"] ELSE Fail(proc[p]))
    /\ UNCHANGED <<owner, counts, late>>

\* One of the bytes needed from this page; byte 2 is what ParseSpd will go by.
Read(p) ==
    LET me == proc[p]
        half == IF me.proto = "DDR5" THEN "high" ELSE "low"
        got == IF me.want = 0 THEN [me EXCEPT !.form = TypeAt(me.slot, half)] ELSE me
    IN  /\ me.pc = "read"
        /\ \E ok \in BOOLEAN :
            /\ Outcome(Present(me.slot), ok)
            /\ \/ ok /\ Become(p, [got EXCEPT !.pc = "set"])
               \/ ok /\ Become(p, Advance(got))
               \/ ~ok /\ Become(p, Fail(me))
        /\ disturbed' = disturbed \ {p}
        /\ UNCHANGED <<owner, page4, reg11, counts, late>>

Home_Forgotten(p) ==
    /\ proc[p].pc = "home"
    /\ Become(p, [proc[p] EXCEPT !.pc = "release"])
    /\ UNCHANGED <<owner, page4, reg11, faults, counts, race>>

\* Page 0 is selected again, whatever comes of it.
Home(p) ==
    /\ proc[p].pc = "home"
    /\ \E ok \in BOOLEAN : SetPage(p, proc[p].proto, 0, ok)
    /\ Become(p, [proc[p] EXCEPT !.pc = "release"])
    /\ UNCHANGED <<owner, counts, late>>

\* All other types: every byte is read without selecting a page.
RawRead(p) ==
    LET me == proc[p]
    IN  /\ me.pc = "raw"
        /\ \E ok \in BOOLEAN :
            /\ Outcome(Present(me.slot), ok)
            /\ Become(p, IF ok THEN [me EXCEPT !.pc = "release", !.form = TypeAt(me.slot, "low")] ELSE Fail(me))
        /\ UNCHANGED <<owner, page4, reg11, counts, race>>

\* WR0_ReleaseSmBus; then ParseSpd asks DDR4 and DDR5 modules for their
\* temperature without the mutex.
Release(p) ==
    LET me == proc[p]
    IN  /\ me.pc = "release"
        /\ owner' = IF owner = p THEN Free ELSE owner
        /\ Become(p, IF me.op = "sensors" THEN AtRest(me)
                     ELSE IF me.ok /\ me.form \in {"DDR4", "DDR5"}
                     THEN [me EXCEPT !.pc = "tsset", !.proto = me.form, !.want = 0]
                     ELSE NextSlot(me))
        /\ late' = late \ {p}
        /\ UNCHANGED <<page4, reg11, faults, counts, disturbed>>

\* SM_DDR4_IsThermalSensorPresent, SM_DDR5_IsThermalSensorPresent
SensorSelect(p) ==
    /\ proc[p].pc = "tsset"
    /\ \E ok \in BOOLEAN :
        /\ SetPage(p, proc[p].proto, 0, ok)
        /\ Become(p, IF ok THEN [proc[p] EXCEPT !.pc = "tsread"] ELSE NextSlot(proc[p]))
    /\ UNCHANGED <<owner, counts, late>>

SensorRead(p) ==
    LET me == proc[p]
        found == IF me.op = "spd" THEN [me EXCEPT !.pc = "temp"]
                 ELSE NextSlot([me EXCEPT !.hot[me.slot] = me.proto])
    IN  /\ me.pc = "tsread"
        /\ \E ok \in BOOLEAN, present \in BOOLEAN :
            /\ Outcome(Present(me.slot), ok)
            /\ Become(p, IF ok /\ present THEN found ELSE NextSlot(me))
        /\ disturbed' = disturbed \ {p}
        /\ UNCHANGED <<owner, page4, reg11, counts, late>>

\* SM_DDR4_GetTemperature, SM_DDR5_GetTemperature for ParseSpd
Temperature(p) ==
    /\ proc[p].pc = "temp"
    /\ \E ok \in BOOLEAN : SetPage(p, proc[p].proto, 0, ok)
    /\ Become(p, NextSlot(proc[p]))
    /\ UNCHANGED <<owner, counts, late>>

\* The same for every sensor NWL_GetMemSensors knows
Poll(p) ==
    LET me == proc[p]
    IN  /\ me.pc = "poll"
        /\ IF me.hot[me.slot] = "none" THEN UNCHANGED <<page4, reg11, faults, disturbed>>
           ELSE \E ok \in BOOLEAN : SetPage(p, me.hot[me.slot], 0, ok)
        /\ Become(p, IF me.slot < LastSlot THEN [me EXCEPT !.slot = @ + 1] ELSE [me EXCEPT !.pc = "release"])
        /\ UNCHANGED <<owner, counts, late>>

\* The process ends; an abandoned mutex goes to the next that waits for it.
Restart(p) ==
    /\ proc[p] # Started
    /\ proc[p].pc # "idle" => crashes < MaxCrashes
    /\ crashes' = IF proc[p].pc = "idle" THEN crashes ELSE crashes + 1
    /\ Become(p, Started)
    /\ owner' = IF owner = p THEN Free ELSE owner
    /\ late' = late \ {p}
    /\ disturbed' = disturbed \ {p}
    /\ UNCHANGED <<page4, reg11, faults, timeouts>>

Step(p) ==
    \/ \E op \in Ops(p) : Begin(p, op)
    \/ Wait(p) \/ Quick(p) \/ Set4(p) \/ Type4(p)
    \/ ReadMR11(p) \/ Set5(p) \/ Type5(p) \/ Plain(p)
    \/ Select(p) \/ Read(p) \/ Home(p) \/ RawRead(p) \/ Release(p)
    \/ SensorSelect(p) \/ SensorRead(p) \/ Temperature(p) \/ Poll(p)
    \/ Restart(p)

Next == \E p \in Procs : Step(p)

Spec == Init /\ [][Next]_vars

----------------------------------------------------------------------------
Process ==
    [pc : {"idle", "wait", "quick", "set4", "type4", "mr11", "set5", "type5", "plain", "set", "read",
           "home", "raw", "release", "tsset", "tsread", "temp", "poll"},
     op : {"none", "spd", "sensors"}, slot : Slot, proto : {"none", "DDR4", "DDR5"}, want : Page,
     form : {"none", "DDR4", "DDR5", "flat", "unknown", "other"}, ok : BOOLEAN,
     page : Page \cup {Unset}, addr : Slot \cup {Unset},
     inited : BOOLEAN, hot : [Slot -> {"none", "DDR4", "DDR5"}]]

\* Every variable holds a value of its kind.
TypeOK ==
    /\ owner \in Procs \cup {Free}
    /\ page4 \in {0, 1}
    /\ reg11 \in [Slot -> Page]
    /\ crashes \in 0..MaxCrashes /\ faults \in 0..MaxFaults /\ timeouts \in 0..MaxTimeouts
    /\ late \subseteq Procs /\ disturbed \subseteq Procs
    /\ proc \in [Procs -> Process]

Selected(s) == IF Module(s) = "DDR4" THEN page4 ELSE IF Module(s) = "DDR5" THEN reg11[s] ELSE 0

\* When a byte of a paged device is read the device shows the page it was asked for: no
\* selection was wrongly skipped or undone (SM_DDR4_ReadByteAt, SM_DDR5_ReadByteAt).  Only
\* a process without the mutex can undo it, after a wait given up (smbus.c:315) or for the
\* temperature in NW_Spd (spd.c:1026), and only for the read it comes in between of.
\* Claimed whatever ends and gives up, and for one failed transaction where nothing else
\* goes wrong: a page left selected makes a failed DDR4 probe remember a wrong page.
RightPage ==
    faults = 0 \/ crashes + faults + timeouts = 1 =>
        \A p \in Procs \ disturbed : LET me == proc[p] IN
            (me.pc = "read" \/ (me.pc = "tsread" /\ me.proto = "DDR4")) => Selected(me.slot) = me.want

\* Only devices without pages are read without selecting any: what the pages of a
\* DDR4 or DDR5 module hold is never taken for something else (SM_GetSpd), unless
\* the transactions that would have told failed or the bus was used without the mutex.
Recognised ==
    faults = 0 /\ timeouts = 0 => \A p \in Procs : proc[p].pc = "raw" => Module(proc[p].slot) = "flat"

\* Whoever gets the mutex next finds every device at page 0, as programs that do
\* not select pages expect it (SetDDR4Page(ctx, slave_addr, 0) ends SM_GetSpd);
\* goto fail, a process that ends and one that did not get the mutex leave the page as it is.
PagesRestored ==
    owner = Free /\ crashes = 0 /\ faults = 0 /\ timeouts = 0 => \A s \in Slot : Selected(s) = 0

\* Where no DDR4 device answers for a module without pages, the DDR5 probe writes 0 to its
\* byte 11, which is 0 in many modules and not in all (smbus.c:258).
Exposed(s) == Module(s) = "flat" /\ ~AnyDDR4 /\ Byte11(s) # 0

\* Page selections write to page registers, never to the bytes of another SPD, be it
\* read before, after or by mistake for a hub, unless the transaction that would have
\* told the module's type failed.
OnlyHubsWritten ==
    [][faults' = 0 => \A s \in Slot : Module(s) # "DDR5" /\ ~Exposed(s) => reg11'[s] = reg11[s]]_vars

================================================================================
