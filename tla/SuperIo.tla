-------------------------------- MODULE SuperIo --------------------------------
(****************************************************************************)
(* Looking for Super-I/O chips (libnw/lpc): NWL_InitLpc takes the mutex     *)
(* Access_ISABUS and lets four drivers try the two slots.  A driver opens   *)
(* the chip's configuration mode by writing a key to the index port, reads  *)
(* the id, selects the hardware monitor and reads its base address twice;   *)
(* the ITE driver then does the same with the general-purpose i/o device.   *)
(* Chips have one configuration mode and one selected logical device for    *)
(* everybody, and keep both when a process ends in between.                 *)
(****************************************************************************)
EXTENDS Naturals, Sequences

CONSTANTS
    Procs,     \* libnw processes
    Chips,     \* the chips a slot may hold, as records.  maker: whose key opens it, "none" for
               \* an empty slot; known: its id is in the driver's list; base: the address of
               \* its monitor; steady: it reads the same twice; gpio, gpioSteady: the same
               \* of its general-purpose i/o; locked: the i/o space of a NCT679x is locked
    MaxCrashes \* bound: processes that end in the middle of something

\* lpc_drivers, in the order they try
Drivers == <<"fintek", "winbond", "nuvoton", "ite">>
\* LPCIO_SLOT_0 at 0x2E and LPCIO_SLOT_1 at 0x4E
Slots == 1..2

Monitor == "monitor"   \* the hardware monitor's logical device
Gpio == "gpio"         \* an ITE chip's general-purpose i/o
Other == "other"       \* any other
Nowhere == [maker |-> "none", base |-> 0, gpio |-> 0]

VARIABLES
    pc,      \* where each process is
    slot,    \* the slot it looks at
    driver,  \* the driver it lets try
    address, \* the first reading of the base address
    verify,  \* the second
    gpioAddress, gpioVerify, \* the same of the general-purpose i/o
    found,   \* lpc->slots
    holder,  \* the owner of Access_ISABUS, as a set of at most one
    chip,    \* what each slot holds
    open,    \* its configuration mode is open
    ldn,     \* its selected logical device
    crashes  \* processes that have ended early so far

gpioVars == <<gpioAddress, gpioVerify>>
procVars == <<pc, slot, driver, address, verify, gpioVars, found>>
chipVars == <<chip, open, ldn>>
vars == <<procVars, holder, chipVars, crashes>>

\* A chip on 0x4E may be open from the start: nobody closes an ITE chip there.
Init ==
    /\ pc = [p \in Procs |-> "idle"]
    /\ slot = [p \in Procs |-> 1]
    /\ driver = [p \in Procs |-> 1]
    /\ address = [p \in Procs |-> 0]
    /\ verify = [p \in Procs |-> 0]
    /\ gpioAddress = [p \in Procs |-> 0]
    /\ gpioVerify = [p \in Procs |-> 0]
    /\ found = [p \in Procs |-> [s \in Slots |-> Nowhere]]
    /\ holder = {}
    /\ chip \in [Slots -> Chips]
    /\ open \in {[s \in Slots |-> FALSE], [s \in Slots |-> s = 2 /\ chip[s].maker = "ite"]}
    /\ ldn = [s \in Slots |-> Other]
    /\ crashes = 0

Goto(p, to) == pc' = [pc EXCEPT ![p] = to]
Maker(p) == Drivers[driver[p]]
Here(p) == chip[slot[p]]

\* The key of this driver is the key of the chip in the slot.
KeyFits(p) ==
    \/ Maker(p) = "ite" /\ Here(p).maker = "ite"
    \/ Maker(p) # "ite" /\ Here(p).maker \in {"fintek", "winbond", "nuvoton"}

\* it87_exit leaves a chip on 0x4E open; the other drivers' exit closes all but ITE.
ClosedBy(p) ==
    \/ Maker(p) = "ite" /\ Here(p).maker = "ite" /\ slot[p] = 1
    \/ Maker(p) # "ite" /\ Here(p).maker \in {"fintek", "winbond", "nuvoton"}

Exit(p) == open' = [open EXCEPT ![slot[p]] = @ /\ ~ClosedBy(p)]

----------------------------------------------------------------------------
Wait_Ignored(p) ==
    /\ pc[p] = "idle"
    /\ holder' = IF holder = {} THEN {p} ELSE holder
    /\ slot' = [slot EXCEPT ![p] = 1]
    /\ driver' = [driver EXCEPT ![p] = 1]
    /\ found' = [found EXCEPT ![p] = [s \in Slots |-> Nowhere]]
    /\ Goto(p, "enter")
    /\ UNCHANGED <<address, verify, gpioVars, chipVars, crashes>>

\* WR0_WaitIsaBus; NWL_InitLpc gives up when it takes too long.
Wait(p) ==
    /\ pc[p] = "idle"
    /\ holder = {}
    /\ holder' = {p}
    /\ slot' = [slot EXCEPT ![p] = 1]
    /\ driver' = [driver EXCEPT ![p] = 1]
    /\ found' = [found EXCEPT ![p] = [s \in Slots |-> Nowhere]]
    /\ Goto(p, "enter")
    /\ UNCHANGED <<address, verify, gpioVars, chipVars, crashes>>

\* The key is written.  On 0x4E the ITE driver reads the id before and writes the
\* key only where something answers.
Enter(p) ==
    /\ pc[p] = "enter"
    /\ ~(Maker(p) = "ite" /\ slot[p] = 2)
    /\ open' = [open EXCEPT ![slot[p]] = @ \/ KeyFits(p)]
    /\ Goto(p, "identify")
    /\ UNCHANGED <<slot, driver, address, verify, gpioVars, found, holder, chip, ldn, crashes>>

EnterIte4E(p) ==
    /\ pc[p] = "enter"
    /\ Maker(p) = "ite" /\ slot[p] = 2
    /\ Goto(p, IF open[2] THEN "reenter" ELSE "identify")
    /\ UNCHANGED <<slot, driver, address, verify, gpioVars, found, holder, chipVars, crashes>>

\* Entering an ITE chip on 0x4E that is open makes it report another id.
ReenterIte4E(p) ==
    /\ pc[p] = "reenter"
    /\ chip' = [chip EXCEPT ![2].known = @ /\ chip[2].maker # "ite"]
    /\ Goto(p, "identify")
    /\ UNCHANGED <<slot, driver, address, verify, gpioVars, found, holder, open, ldn, crashes>>

NextDriver(p) ==
    IF driver[p] < Len(Drivers)
      THEN /\ driver' = [driver EXCEPT ![p] = @ + 1]
           /\ Goto(p, "enter")
           /\ UNCHANGED slot
      ELSE /\ driver' = [driver EXCEPT ![p] = 1]
           /\ slot' = [slot EXCEPT ![p] = IF @ = 1 THEN 2 ELSE @]
           /\ Goto(p, IF slot[p] = 1 THEN "enter" ELSE "release")

Recognised(p) == open[slot[p]] /\ Here(p).maker = Maker(p) /\ Here(p).known

Identify_NoExit(p) ==
    /\ pc[p] = "identify"
    /\ IF Recognised(p)
         THEN /\ Goto(p, "select")
              /\ ldn' = [ldn EXCEPT ![slot[p]] = Other]
              /\ UNCHANGED <<slot, driver>>
         ELSE NextDriver(p) /\ UNCHANGED ldn
    /\ UNCHANGED <<address, verify, gpioVars, found, holder, chip, open, crashes>>

\* The id decides; an unknown chip is left again.  lpcio_find_bars then selects
\* every logical device in turn.
Identify(p) ==
    /\ pc[p] = "identify"
    /\ IF Recognised(p)
         THEN /\ Goto(p, "select")
              /\ ldn' = [ldn EXCEPT ![slot[p]] = Other]
              /\ UNCHANGED <<slot, driver, open>>
         ELSE NextDriver(p) /\ Exit(p) /\ UNCHANGED ldn
    /\ UNCHANGED <<address, verify, gpioVars, found, holder, chip, crashes>>

Select(p) ==
    /\ pc[p] = "select"
    /\ ldn' = [ldn EXCEPT ![slot[p]] = Monitor]
    /\ Goto(p, "read")
    /\ UNCHANGED <<slot, driver, address, verify, gpioVars, found, holder, chip, open, crashes>>

\* What a base address register reads: another device's is taken for a valid one.
Base(p) ==
    IF ~open[slot[p]] THEN 65535
    ELSE IF ldn[slot[p]] = Monitor THEN Here(p).base
    ELSE IF ldn[slot[p]] = Gpio THEN Here(p).gpio ELSE 1016

Read(p) ==
    /\ pc[p] = "read"
    /\ address' = [address EXCEPT ![p] = Base(p)]
    /\ Goto(p, "verify")
    /\ UNCHANGED <<slot, driver, verify, gpioVars, found, holder, chipVars, crashes>>

\* The second reading, and on a NCT679x the i/o space lock is taken off.
Verify(p) ==
    /\ pc[p] = "verify"
    /\ LET value == IF Here(p).steady THEN Base(p) ELSE 0
       IN /\ verify' = [verify EXCEPT ![p] = value]
          /\ chip' = [chip EXCEPT ![slot[p]].locked =
                        @ /\ ~(Maker(p) = "nuvoton" /\ open[slot[p]] /\ value = address[p])]
    /\ Goto(p, IF Maker(p) = "ite" THEN "gpio" ELSE "exit")
    /\ UNCHANGED <<slot, driver, address, gpioVars, found, holder, open, ldn, crashes>>

\* The ITE driver goes on to the general-purpose i/o and reads its base twice as well.
SelectGpio(p) ==
    /\ pc[p] = "gpio"
    /\ ldn' = [ldn EXCEPT ![slot[p]] = Gpio]
    /\ Goto(p, "readgpio")
    /\ UNCHANGED <<slot, driver, address, verify, gpioVars, found, holder, chip, open, crashes>>

ReadGpio(p) ==
    /\ pc[p] = "readgpio"
    /\ gpioAddress' = [gpioAddress EXCEPT ![p] = Base(p)]
    /\ Goto(p, "verifygpio")
    /\ UNCHANGED <<slot, driver, address, verify, gpioVerify, found, holder, chipVars, crashes>>

VerifyGpio(p) ==
    /\ pc[p] = "verifygpio"
    /\ gpioVerify' = [gpioVerify EXCEPT ![p] = IF Here(p).gpioSteady THEN Base(p) ELSE 0]
    /\ Goto(p, "exit")
    /\ UNCHANGED <<slot, driver, address, verify, gpioAddress, found, holder, chipVars, crashes>>

\* A multiple of 8 from 0x100 to 0xFFF; Fintek chips may have added 5.
Adjusted(p) ==
    IF Maker(p) = "fintek" /\ address[p] % 8 = 5 THEN address[p] - 5 ELSE address[p]
Plausible(a) == a >= 256 /\ a < 4096 /\ a % 8 = 0

\* The readings agree and are plausible, at an ITE chip those of both devices.
Verified(p) ==
    /\ address[p] = verify[p] /\ Plausible(Adjusted(p))
    /\ Maker(p) = "ite" => gpioAddress[p] = gpioVerify[p] /\ Plausible(gpioAddress[p])

\* What the driver stores in the slot.
Found(p) ==
    [maker |-> Maker(p), base |-> Adjusted(p), gpio |-> IF Maker(p) = "ite" THEN gpioAddress[p] ELSE 0]

\* The chip is left; a verified one fills the slot and the next slot is tried, else
\* the next driver.
Leave(p) ==
    /\ pc[p] = "exit"
    /\ Exit(p)
    /\ IF Verified(p)
         THEN /\ found' = [found EXCEPT ![p][slot[p]] = Found(p)]
              /\ driver' = [driver EXCEPT ![p] = 1]
              /\ slot' = [slot EXCEPT ![p] = IF @ = 1 THEN 2 ELSE @]
              /\ Goto(p, IF slot[p] = 1 THEN "enter" ELSE "release")
         ELSE NextDriver(p) /\ UNCHANGED found
    /\ UNCHANGED <<address, verify, gpioVars, holder, chip, ldn, crashes>>

Release(p) ==
    /\ pc[p] = "release"
    /\ holder' = holder \ {p}
    /\ Goto(p, "idle")
    /\ UNCHANGED <<slot, driver, address, verify, gpioVars, found, chipVars, crashes>>

\* The process ends; Windows passes the mutex on, the chip stays as it is.
Crash(p) ==
    /\ pc[p] # "idle"
    /\ crashes < MaxCrashes
    /\ crashes' = crashes + 1
    /\ holder' = holder \ {p}
    /\ Goto(p, "idle")
    /\ UNCHANGED <<slot, driver, address, verify, gpioVars, found, chipVars>>

Detect(p) ==
    \/ Enter(p) \/ EnterIte4E(p) \/ ReenterIte4E(p) \/ Identify(p)
    \/ Select(p) \/ Read(p) \/ Verify(p)
    \/ SelectGpio(p) \/ ReadGpio(p) \/ VerifyGpio(p) \/ Leave(p)

Next == \E p \in Procs : Wait(p) \/ Detect(p) \/ Release(p) \/ Crash(p)

Spec == Init /\ [][Next]_vars

----------------------------------------------------------------------------
Makers == {"none", "fintek", "winbond", "nuvoton", "ite"}
ChipKind ==
    [maker : Makers, known : BOOLEAN, base : Nat, steady : BOOLEAN, gpio : Nat, gpioSteady : BOOLEAN,
     locked : BOOLEAN]
FoundKind == [maker : Makers, base : Nat, gpio : Nat]
Places ==
    {"idle", "enter", "reenter", "identify", "select", "read", "verify", "gpio", "readgpio", "verifygpio",
     "exit", "release"}

\* Every variable holds a value of its kind.
TypeOK ==
    /\ pc \in [Procs -> Places]
    /\ slot \in [Procs -> Slots]
    /\ driver \in [Procs -> 1..4]
    /\ address \in [Procs -> Nat]
    /\ verify \in [Procs -> Nat]
    /\ gpioAddress \in [Procs -> Nat]
    /\ gpioVerify \in [Procs -> Nat]
    /\ found \in [Procs -> [Slots -> FoundKind]]
    /\ holder \subseteq Procs
    /\ chip \in [Slots -> ChipKind]
    /\ open \in [Slots -> BOOLEAN]
    /\ ldn \in [Slots -> {Monitor, Gpio, Other}]
    /\ crashes \in 0..MaxCrashes

\* What a chip should be found as: Nowhere if its id is unknown or one of its addresses
\* is unsteady or implausible, at an ITE chip those of the general-purpose i/o too.
Expected(c) ==
    LET base == IF c.maker = "fintek" /\ c.base % 8 = 5 THEN c.base - 5 ELSE c.base
        works == c.known /\ c.steady /\ Plausible(base) /\ (c.maker = "ite" => c.gpioSteady /\ Plausible(c.gpio))
    IN IF works THEN [maker |-> c.maker, base |-> base, gpio |-> IF c.maker = "ite" THEN c.gpio ELSE 0]
                ELSE Nowhere

\* When a process has looked through the slots it has found the chips that are there,
\* each by its own driver, with the monitor's address (and an ITE chip's address of the
\* general-purpose i/o) and the monitor unlocked, and no other: whatever device another
\* process had selected and wherever it ended.  A chip that a driver has reason to refuse
\* is not taken by another one either.  Only of ITE chips on 0x4E this is not claimed.
FoundWhatIsThere ==
    \A p \in Procs : pc[p] = "release" =>
        \A s \in Slots : ~(s = 2 /\ chip[s].maker = "ite") =>
            /\ found[p][s] = IF chip[s].maker = "none" THEN Nowhere ELSE Expected(chip[s])
            /\ found[p][s].maker = "nuvoton" => ~chip[s].locked

\* It has also closed every chip again, those included that another process died in.
\* An ITE chip on 0x4E stays as it was.
ConfigurationClosed ==
    \A p \in Procs : pc[p] = "release" =>
        \A s \in Slots : open[s] => s = 2 /\ chip[s].maker = "ite"

\* An ITE chip on 0x4E that has already been entered is most likely bugged, and no
\* probe makes it report anything else, as the comment in lpc_ite.c has it.
LeftAlone == [][open[2] /\ chip[2].maker = "ite" => chip'[2] = chip[2]]_vars

================================================================================
