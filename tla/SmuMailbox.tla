------------------------------ MODULE SmuMailbox -------------------------------
(****************************************************************************)
(* AMD's system management network through index/data pairs in PCI          *)
(* configuration space (ioctl.c, driver NwHwIo), and the mailbox of the     *)
(* Ryzen SMU behind one of them: wait until the response is not zero, clear *)
(* it, write arguments and command, wait for the response, read the         *)
(* arguments back (WR0_SendSmuCmd, ryzen_smu.c).                            *)
(*                                                                          *)
(* Every access is two PCI accesses.  Most callers hold the mutex           *)
(* Access_PCI, but they ignore that waiting for it failed; smn_init of the  *)
(* ZEN provider and the IMC provider do not take it at all.  Processes may  *)
(* end anywhere, and a command may be answered late or refused.             *)
(*                                                                          *)
(* Arguments, commands and answers are known by who wrote them for which    *)
(* command; the six argument registers are one.                             *)
(****************************************************************************)
EXTENDS Naturals, Sequences

CONSTANTS
    Procs,     \* libnw processes
    None,      \* no process
    Registers, \* what is read through 0x60/0x64: temperatures, voltages, UMC
    Commands,  \* the commands of ryzen_smu_init, then the one of update_pm_table
    MaxCrashes \* bound: processes that end in the middle of something

ASSUME NoneAssumption == None \notin Procs \cup Registers
ASSUME CommandsAssumption == Len(Commands) \in Nat \ {0}
ASSUME CrashAssumption == MaxCrashes \in Nat

VARIABLES
    pc,        \* where each process is
    half,      \* the index register has been written, the data access is next
    want,      \* the register a process is reading through 0x60/0x64
    at,        \* the position in Commands
    handle,    \* the process has its ry_handle_t
    owner,     \* the owner of the mutex Access_PCI
    thmIndex,  \* PCI register 0x60
    smuIndex,  \* PCI register 0xC4
    rsp,       \* the response register is not zero
    args,      \* the argument registers
    executing, \* the command the SMU works on, or Nothing
    crashes,   \* processes that have ended early so far
    disturbed, \* history: sessions another one overlapped, or begun on a mailbox such a one had spoilt
    spoilt     \* history: sessions overlapped, or one ended between clearing and commanding

procVars == <<pc, half, want, at, handle>>
smuVars == <<rsp, args, executing>>
historyVars == <<crashes, disturbed, spoilt>>
vars == <<procVars, owner, thmIndex, smuIndex, smuVars, historyVars>>

Positions == 1..Len(Commands)
Nothing == [by |-> None, at |-> 0, args |-> None]
Stages == {"wait", "clear", "arg", "cmd", "poll", "result"}

Init ==
    /\ pc = [p \in Procs |-> "idle"]
    /\ half = [p \in Procs |-> FALSE]
    /\ want = [p \in Procs |-> None]
    /\ at = [p \in Procs |-> 1]
    /\ handle = [p \in Procs |-> FALSE]
    /\ owner = None
    /\ thmIndex \in Registers
    /\ smuIndex \in {"rsp", "arg", "cmd"}
    /\ rsp = TRUE
    /\ args = [by |-> None, at |-> 0]
    /\ executing = Nothing
    /\ crashes = 0
    /\ disturbed = {}
    /\ spoilt = FALSE

Goto(p, to) == pc' = [pc EXCEPT ![p] = to]
Active == {p \in Procs : pc[p] # "idle"}

\* No answer is under way that the next user could take for his own.
Calm == executing # Nothing => ~rsp

----------------------------------------------------------------------------
(* Sessions: the calls of a provider between waiting for the mutex and giving it up *)

\* A wait for the mutex that fails is not noticed, and some callers do not wait.
Enter(p) ==
    /\ pc[p] = "idle"
    /\ \/ owner = None /\ owner' = p
       \/ UNCHANGED owner
    /\ disturbed' = IF Active = {} /\ Calm THEN disturbed \ {p} ELSE disturbed \cup Active \cup {p}
    /\ spoilt' = (spoilt \/ Active # {})
    /\ Goto(p, "ready")
    /\ UNCHANGED <<half, want, at, handle, thmIndex, smuIndex, smuVars, crashes>>

Leave(p) ==
    /\ pc[p] = "ready"
    /\ owner' = IF owner = p THEN None ELSE owner
    /\ Goto(p, "idle")
    /\ UNCHANGED <<half, want, at, handle, thmIndex, smuIndex, smuVars, historyVars>>

\* The process ends: the mutex is abandoned, the registers stay.
Crash(p) ==
    /\ pc[p] # "idle"
    /\ crashes < MaxCrashes
    /\ crashes' = crashes + 1
    /\ owner' = IF owner = p THEN None ELSE owner
    /\ half' = [half EXCEPT ![p] = FALSE]
    /\ want' = [want EXCEPT ![p] = None]
    /\ handle' = [handle EXCEPT ![p] = FALSE]
    /\ spoilt' = (spoilt \/ pc[p] \in {"arg", "cmd"})
    /\ Goto(p, "idle")
    /\ UNCHANGED <<at, thmIndex, smuIndex, smuVars, disturbed>>

----------------------------------------------------------------------------
(* WR0_RdAmdSmn through 0x60/0x64 *)

SelectRegister_Skipped(p) ==
    /\ pc[p] = "ready"
    /\ \E r \in Registers : want' = [want EXCEPT ![p] = r]
    /\ Goto(p, "read")
    /\ UNCHANGED <<half, at, handle, owner, thmIndex, smuIndex, smuVars, historyVars>>

SelectRegister(p) ==
    /\ pc[p] = "ready"
    /\ \E r \in Registers :
          /\ want' = [want EXCEPT ![p] = r]
          /\ thmIndex' = r
    /\ Goto(p, "read")
    /\ UNCHANGED <<half, at, handle, owner, smuIndex, smuVars, historyVars>>

ReadRegister(p) ==
    /\ pc[p] = "read"
    /\ want' = [want EXCEPT ![p] = None]
    /\ Goto(p, "ready")
    /\ UNCHANGED <<half, at, handle, owner, thmIndex, smuIndex, smuVars, historyVars>>

----------------------------------------------------------------------------
(* WR0_SendSmuCmd through 0xC4/0xC8 *)

\* ryzen_smu_init unless the handle is there, then ryzen_smu_update_pm_table
Begin(p) ==
    /\ pc[p] = "ready"
    /\ at' = [at EXCEPT ![p] = IF handle[p] THEN Len(Commands) ELSE 1]
    /\ Goto(p, "wait")
    /\ UNCHANGED <<half, want, handle, owner, thmIndex, smuIndex, smuVars, historyVars>>

RegisterOf(stage) ==
    CASE stage \in {"wait", "clear", "poll"} -> "rsp"
      [] stage \in {"arg", "result"} -> "arg"
      [] stage = "cmd" -> "cmd"

Select(p) ==
    /\ pc[p] \in Stages
    /\ ~half[p]
    /\ half' = [half EXCEPT ![p] = TRUE]
    /\ smuIndex' = RegisterOf(pc[p])
    /\ UNCHANGED <<pc, want, at, handle, owner, thmIndex, smuVars, historyVars>>

Access(p) == half[p] /\ half' = [half EXCEPT ![p] = FALSE]

ReadResponse_NoWait(p) ==
    /\ pc[p] \in {"wait", "poll"}
    /\ Access(p)
    /\ \/ /\ smuIndex = "rsp" /\ pc[p] = "poll" => rsp
          /\ Goto(p, IF pc[p] = "wait" THEN "clear" ELSE "result")
       \/ /\ smuIndex = "rsp" => ~rsp
          /\ Goto(p, pc[p]) \/ Goto(p, "ready")
    /\ UNCHANGED <<want, at, handle, owner, thmIndex, smuIndex, smuVars, historyVars>>

\* The response is polled: another round, the next stage, or the time is up.
\* A register other than the response register may hold anything.
ReadResponse(p) ==
    /\ pc[p] \in {"wait", "poll"}
    /\ Access(p)
    /\ \/ /\ smuIndex = "rsp" => rsp
          /\ Goto(p, IF pc[p] = "wait" THEN "clear" ELSE "result")
       \/ /\ smuIndex = "rsp" => ~rsp
          /\ Goto(p, pc[p]) \/ Goto(p, "ready")
    /\ UNCHANGED <<want, at, handle, owner, thmIndex, smuIndex, smuVars, historyVars>>

\* read_smn returns FALSE for 0xFFFFFFFF.
ReadError(p) ==
    /\ pc[p] \in {"wait", "poll", "result"}
    /\ Access(p)
    /\ Goto(p, "ready")
    /\ UNCHANGED <<want, at, handle, owner, thmIndex, smuIndex, smuVars, historyVars>>

\* A write to the command register starts a command with the arguments that are there.
Started(p) == [by |-> p, at |-> IF pc[p] = "cmd" THEN at[p] ELSE 0, args |-> args.by]

Write_CommandFirst(p) ==
    /\ pc[p] \in {"clear", "arg", "cmd"}
    /\ Access(p)
    /\ \/ smuIndex = "rsp" /\ rsp' \in (IF pc[p] = "clear" THEN {FALSE} ELSE BOOLEAN)
       \/ smuIndex # "rsp" /\ UNCHANGED rsp
    /\ args' = IF smuIndex = "arg" THEN [by |-> p, at |-> at[p]] ELSE args
    /\ executing' = IF smuIndex = "cmd" THEN Started(p) ELSE executing
    /\ Goto(p, CASE pc[p] = "clear" -> "cmd" [] pc[p] = "arg" -> "poll" [] pc[p] = "cmd" -> "arg")
    /\ UNCHANGED <<want, at, handle, owner, thmIndex, smuIndex, historyVars>>

Write_GivesUp(p) ==
    /\ pc[p] \in {"clear", "arg", "cmd"}
    /\ Access(p)
    /\ \/ smuIndex = "rsp" /\ rsp' \in (IF pc[p] = "clear" THEN {FALSE} ELSE BOOLEAN)
       \/ smuIndex # "rsp" /\ UNCHANGED rsp
    /\ args' = IF smuIndex = "arg" THEN [by |-> p, at |-> at[p]] ELSE args
    /\ executing' = IF smuIndex = "cmd" THEN Started(p) ELSE executing
    /\ \/ Goto(p, CASE pc[p] = "clear" -> "arg" [] pc[p] = "arg" -> "cmd" [] pc[p] = "cmd" -> "poll")
       \/ pc[p] = "arg" /\ Goto(p, "ready")
    /\ UNCHANGED <<want, at, handle, owner, thmIndex, smuIndex, historyVars>>

Write(p) ==
    /\ pc[p] \in {"clear", "arg", "cmd"}
    /\ Access(p)
    /\ \/ smuIndex = "rsp" /\ rsp' \in (IF pc[p] = "clear" THEN {FALSE} ELSE BOOLEAN)
       \/ smuIndex # "rsp" /\ UNCHANGED rsp
    /\ args' = IF smuIndex = "arg" THEN [by |-> p, at |-> at[p]] ELSE args
    /\ executing' = IF smuIndex = "cmd" THEN Started(p) ELSE executing
    /\ Goto(p, CASE pc[p] = "clear" -> "arg" [] pc[p] = "arg" -> "cmd" [] pc[p] = "cmd" -> "poll")
    /\ UNCHANGED <<want, at, handle, owner, thmIndex, smuIndex, historyVars>>

\* The arguments are read back, whatever the response said; then the next command.
\* ryzen_smu_init has its handle before the last one.
Collect(p) ==
    /\ pc[p] = "result"
    /\ Access(p)
    /\ IF at[p] < Len(Commands)
         THEN /\ at' = [at EXCEPT ![p] = at[p] + 1]
              /\ handle' = [handle EXCEPT ![p] = at[p] + 1 = Len(Commands)]
              /\ Goto(p, "wait")
         ELSE /\ Goto(p, "ready")
              /\ UNCHANGED <<at, handle>>
    /\ UNCHANGED <<want, owner, thmIndex, smuIndex, smuVars, historyVars>>

\* The SMU answers, or refuses and leaves the arguments as they are.
Answer ==
    /\ executing # Nothing
    /\ rsp' = TRUE
    /\ args' \in {args, [by |-> executing.by, at |-> executing.at]}
    /\ executing' = Nothing
    /\ UNCHANGED <<procVars, owner, thmIndex, smuIndex, historyVars>>

SendSmuCmd(p) == Select(p) \/ ReadResponse(p) \/ ReadError(p) \/ Write(p) \/ Collect(p)

Next ==
    \/ \E p \in Procs : Enter(p) \/ Leave(p) \/ Crash(p) \/ SelectRegister(p) \/ ReadRegister(p)
                        \/ Begin(p) \/ SendSmuCmd(p)
    \/ Answer

Spec == Init /\ [][Next]_vars

----------------------------------------------------------------------------
TypeOK ==
    /\ pc \in [Procs -> {"idle", "ready", "read"} \cup Stages]
    /\ half \in [Procs -> BOOLEAN]
    /\ want \in [Procs -> Registers \cup {None}]
    /\ at \in [Procs -> Positions]
    /\ handle \in [Procs -> BOOLEAN]
    /\ owner \in Procs \cup {None}
    /\ thmIndex \in Registers
    /\ smuIndex \in {"rsp", "arg", "cmd"}
    /\ rsp \in BOOLEAN
    /\ args \in [by : Procs \cup {None}, at : {0} \cup Positions]
    /\ executing \in [by : Procs \cup {None}, at : {0} \cup Positions, args : Procs \cup {None}]
    /\ crashes \in 0..MaxCrashes
    /\ disturbed \subseteq Procs
    /\ spoilt \in BOOLEAN

\* A process whose session nobody overlapped reads the register it selected, whoever
\* ended between the two accesses of his own read before.
OwnRegister == \A p \in Procs \ disturbed : pc[p] = "read" => thmIndex = want[p]

\* What such a process reads back from the argument registers is for the command it
\* sent: a command given up or left behind by a dead process is not answered into it.
OwnAnswer ==
    \A p \in Procs \ disturbed :
        pc[p] = "result" => args = [by |-> p, at |-> at[p]] /\ (half[p] => smuIndex = "arg")

\* While such a process waits for an answer, the SMU executes the command it meant with
\* the arguments it wrote, and nothing else.
OwnCommand ==
    \A p \in Procs \ disturbed : pc[p] = "poll" =>
        executing \in {Nothing, [by |-> p, at |-> at[p], args |-> p]}

\* A mailbox whose response is zero with no command under way answers nobody any more;
\* only overlapping sessions, or a process ended between clearing and commanding, do that.
MailboxAlive ==
    ~rsp /\ executing = Nothing /\ ~spoilt => \E p \in Procs : pc[p] \in {"arg", "cmd"}

================================================================================
