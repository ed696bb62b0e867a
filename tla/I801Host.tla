------------------------------- MODULE I801Host -------------------------------
(****************************************************************************)
(* One SMBus transaction on an Intel host controller (smbus_i801.c): the    *)
(* registers are shared, a hardware semaphore INUSE_STS and the mutex       *)
(* Access_SMBUS are to keep users apart, every wait is bounded.  SpdPaging  *)
(* takes a transaction for one atomic step; this module shows what that     *)
(* rests on.  The processes are libnw processes (I801Xfer between           *)
(* WR0_WaitSmBus and WR0_ReleaseSmBus); they may end at any point.          *)
(*                                                                          *)
(* A command or an answer in the registers is known by the process it is    *)
(* for.  The waits count time, so here they may end at any iteration.       *)
(****************************************************************************)
EXTENDS Naturals

CONSTANTS
    Procs,     \* libnw processes
    None,      \* no process
    Timeouts,  \* WR0_WaitSmBus may give up; its result is ignored
    MaxCrashes \* bound: processes that end in the middle of something

ASSUME NoneAssumption == None \notin Procs
ASSUME SwitchAssumption == Timeouts \in BOOLEAN /\ MaxCrashes \in Nat

Flags == {"INTR", "ERROR", "FAILED"}

VARIABLES
    pc,      \* where each process is
    rc,      \* what I801Xfer is going to return
    crashes, \* processes that have ended early so far
    owner,   \* the owner of the mutex Access_SMBUS
    inuse,   \* INUSE_STS; reading HSTSTS sets it, writing a one clears it
    busy,    \* HOST_BUSY: the process whose command is executed, or None
    flags,   \* the other bits of HSTSTS
    command, \* SMBHSTADD, SMBHSTCMD and SMBHSTDAT0 as written last
    answer   \* SMBHSTDAT0 as read: whose command it answers

procVars == <<pc, rc>>
hostVars == <<inuse, busy, flags, command, answer>>
vars == <<procVars, crashes, owner, hostVars>>

Init ==
    /\ pc = [p \in Procs |-> "idle"]
    /\ rc = [p \in Procs |-> "OK"]
    /\ crashes = 0
    /\ owner = None
    /\ inuse = FALSE
    /\ busy = None
    /\ flags = {}
    /\ command = None
    /\ answer = None

Goto(p, to) == pc' = [pc EXCEPT ![p] = to]
Return(p, status) == rc' = [rc EXCEPT ![p] = status]

\* I801InUse(ctx, false): clears the semaphore and every flag it can clear.
ClearStatus == inuse' = FALSE /\ flags' = {}

----------------------------------------------------------------------------
\* WR0_WaitSmBus
Wait(p) ==
    /\ pc[p] = "idle"
    /\ IF owner = None THEN owner' = p ELSE Timeouts /\ UNCHANGED owner
    /\ Goto(p, "inuse")
    /\ UNCHANGED <<rc, crashes, hostVars>>

\* I801InUse(ctx, true): a read that finds the bit clear has set it.
Acquire(p) ==
    /\ pc[p] = "inuse"
    /\ ~inuse
    /\ inuse' = TRUE
    /\ Return(p, "OK")
    /\ Goto(p, "pre")
    /\ UNCHANGED <<crashes, owner, busy, flags, command, answer>>

AcquireTimeout_Keeps(p) ==
    /\ pc[p] = "inuse"
    /\ inuse
    /\ Return(p, "TIMEOUT")
    /\ Goto(p, "return")
    /\ UNCHANGED <<crashes, owner, hostVars>>

\* All retries found it set; the exit path clears it all the same.
AcquireTimeout(p) ==
    /\ pc[p] = "inuse"
    /\ inuse
    /\ Return(p, "TIMEOUT")
    /\ Goto(p, "unlock")
    /\ UNCHANGED <<crashes, owner, hostVars>>

CheckPre_NoClear(p) ==
    /\ pc[p] = "pre"
    /\ inuse' = TRUE
    /\ Return(p, IF busy = None THEN "OK" ELSE "TIMEOUT")
    /\ Goto(p, IF busy = None THEN "setup" ELSE "unlock")
    /\ UNCHANGED <<crashes, owner, busy, flags, command, answer>>

CheckPre_BusyOrNot(p) ==
    /\ pc[p] = "pre"
    /\ inuse' = TRUE
    /\ flags' = {}
    /\ Return(p, "OK")
    /\ Goto(p, "setup")
    /\ UNCHANGED <<crashes, owner, busy, command, answer>>

\* I801CheckPre: gives up when busy, clears what earlier commands left.
CheckPre(p) ==
    /\ pc[p] = "pre"
    /\ inuse' = TRUE
    /\ flags' = IF busy = None THEN {} ELSE flags
    /\ Return(p, IF busy = None THEN "OK" ELSE "TIMEOUT")
    /\ Goto(p, IF busy = None THEN "setup" ELSE "unlock")
    /\ UNCHANGED <<crashes, owner, busy, command, answer>>

\* The register writes of I801SimpleTransaction
Setup(p) ==
    /\ pc[p] = "setup"
    /\ command' = p
    /\ Goto(p, "start")
    /\ UNCHANGED <<rc, crashes, owner, inuse, busy, flags, answer>>

\* I801Transaction; the host takes a command only when it is not busy.
Start(p) ==
    /\ pc[p] = "start"
    /\ busy' = IF busy = None THEN command ELSE busy
    /\ Goto(p, "poll")
    /\ UNCHANGED <<rc, crashes, owner, inuse, flags, command, answer>>

\* I801WaitIntr sees INTR or an error.
SeeFlags(p) ==
    /\ pc[p] = "poll"
    /\ flags # {}
    /\ inuse' = TRUE
    /\ Return(p, IF flags = {"INTR"} THEN "OK" ELSE "ERROR")
    /\ Goto(p, IF flags = {"INTR"} THEN "collect" ELSE "unlock")
    /\ UNCHANGED <<crashes, owner, busy, flags, command, answer>>

\* The command did not end in time.
PollTimeout(p) ==
    /\ pc[p] = "poll"
    /\ flags = {}
    /\ inuse' = TRUE
    /\ Return(p, "TIMEOUT")
    /\ Goto(p, "kill")
    /\ UNCHANGED <<crashes, owner, busy, flags, command, answer>>

\* I801Kill: whatever is executed is aborted.
Kill(p) ==
    /\ pc[p] = "kill"
    /\ busy' = None
    /\ flags' = IF busy = None THEN flags ELSE flags \cup {"FAILED"}
    /\ inuse' = TRUE
    /\ Goto(p, "unlock")
    /\ UNCHANGED <<rc, crashes, owner, command, answer>>

\* SMBHSTDAT0 and SMBHSTDAT1 are read after the command has ended.
Collect(p) ==
    /\ pc[p] = "collect"
    /\ Goto(p, "unlock")
    /\ UNCHANGED <<rc, crashes, owner, hostVars>>

\* The exit path of I801Xfer
Unlock(p) ==
    /\ pc[p] = "unlock"
    /\ ClearStatus
    /\ Goto(p, "return")
    /\ UNCHANGED <<rc, crashes, owner, busy, command, answer>>

\* The next transaction under the same mutex, or WR0_ReleaseSmBus
Again(p) ==
    /\ pc[p] = "return"
    /\ Goto(p, "inuse")
    /\ UNCHANGED <<rc, crashes, owner, hostVars>>

Release(p) ==
    /\ pc[p] = "return"
    /\ owner' = IF owner = p THEN None ELSE owner
    /\ Return(p, "OK")
    /\ Goto(p, "idle")
    /\ UNCHANGED <<crashes, hostVars>>

\* The process ends and abandons the mutex; the host goes on as it is.
Crash(p) ==
    /\ pc[p] # "idle"
    /\ crashes < MaxCrashes
    /\ crashes' = crashes + 1
    /\ Goto(p, "idle")
    /\ Return(p, "OK")
    /\ owner' = IF owner = p THEN None ELSE owner
    /\ UNCHANGED hostVars

\* The host ends the command it executes; only an answer fills SMBHSTDAT0.
Finish ==
    /\ busy # None
    /\ \/ flags' = flags \cup {"INTR"} /\ answer' = busy
       \/ flags' = flags \cup {"ERROR"} /\ UNCHANGED answer
    /\ busy' = None
    /\ UNCHANGED <<procVars, crashes, owner, inuse, command>>

Xfer(p) ==
    \/ Acquire(p) \/ AcquireTimeout(p) \/ CheckPre(p) \/ Setup(p) \/ Start(p)
    \/ SeeFlags(p) \/ PollTimeout(p) \/ Kill(p) \/ Collect(p) \/ Unlock(p)

Next ==
    \/ \E p \in Procs : Wait(p) \/ Xfer(p) \/ Again(p) \/ Release(p) \/ Crash(p)
    \/ Finish

Spec == Init /\ [][Next]_vars

\* Somebody keeps using the bus, as gnwinfo does every second, a process that is
\* not ended goes on, and the device answers or refuses in the end.
Fairness ==
    /\ WF_vars(\E p \in Procs : Wait(p))
    /\ \A p \in Procs : WF_vars(Xfer(p)) /\ WF_vars(Again(p) \/ Release(p))
    /\ WF_vars(Finish)

FairSpec == Spec /\ Fairness

----------------------------------------------------------------------------
States == {"idle", "inuse", "pre", "setup", "start", "poll", "kill", "collect", "unlock", "return"}

\* Every variable holds a value of its kind.
TypeOK ==
    /\ pc \in [Procs -> States]
    /\ rc \in [Procs -> {"OK", "TIMEOUT", "ERROR"}]
    /\ crashes \in 0..MaxCrashes
    /\ owner \in Procs \cup {None}
    /\ inuse \in BOOLEAN
    /\ busy \in Procs \cup {None}
    /\ flags \subseteq Flags
    /\ command \in Procs \cup {None}
    /\ answer \in Procs \cup {None}

\* The data I801SimpleTransaction takes from the registers answers the command the
\* same process gave, also after another one ended in the middle of its own.
OwnAnswer == \A p \in Procs : pc[p] = "collect" => answer = p

\* A command is started on an idle host with the registers its process wrote, and
\* I801Kill aborts nobody else's command.
OwnCommand ==
    \A p \in Procs :
        /\ pc[p] = "start" => busy = None /\ command = p
        /\ pc[p] = "kill" => busy \in {p, None}

\* A process that ends with the semaphore set does not lock the bus for ever: the
\* exit path of those who waited for it in vain clears it, and commands are executed again.
BusRecovers == []<>(busy # None)

================================================================================
