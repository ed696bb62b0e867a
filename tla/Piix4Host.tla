------------------------------- MODULE Piix4Host -------------------------------
(****************************************************************************)
(* One SMBus transaction on an AMD host controller (smbus_piix4.c).  It has *)
(* no semaphore: the mutex Access_SMBUS alone keeps processes apart, and    *)
(* the result of waiting for it is ignored.  The status register is cleared *)
(* before a command and after a good answer; a command that takes too long  *)
(* is not aborted, and error flags are left for the next user to clear.     *)
(*                                                                          *)
(* As in I801Host, a command or an answer in the registers is known by the  *)
(* process it is for, and a wait may end at any iteration.                  *)
(****************************************************************************)
EXTENDS Naturals

CONSTANTS
    Procs,     \* libnw processes
    None,      \* no process
    MaxCrashes \* bound: processes that end in the middle of something

VARIABLES
    pc,       \* where each process is
    owner,    \* the owner of the mutex Access_SMBUS
    busy,     \* HOST_BUSY: the process whose command is executed, or None
    flags,    \* the other bits of SMBHSTSTS
    command,  \* SMBHSTADD, SMBHSTCMD, SMBHSTDAT0 and SMBHSTCNT as written last
    answer,   \* SMBHSTDAT0 as read: whose command it answers
    crashes,  \* processes that have ended early so far
    disturbed \* history: sessions that another one overlapped

hostVars == <<busy, flags, command, answer>>
vars == <<pc, owner, hostVars, crashes, disturbed>>

Init ==
    /\ pc = [p \in Procs |-> "idle"]
    /\ owner = None
    /\ busy = None
    /\ flags = {}
    /\ command = None
    /\ answer = None
    /\ crashes = 0
    /\ disturbed = {}

Goto(p, to) == pc' = [pc EXCEPT ![p] = to]
Active == {p \in Procs : pc[p] # "idle"}

----------------------------------------------------------------------------
\* WR0_WaitSmBus; after a timeout the caller goes on all the same.
Wait(p) ==
    /\ pc[p] = "idle"
    /\ owner' = IF owner = None THEN p ELSE owner
    /\ disturbed' = IF Active = {} THEN disturbed \ {p} ELSE disturbed \cup Active \cup {p}
    /\ Goto(p, "check")
    /\ UNCHANGED <<hostVars, crashes>>

CheckBusy_Once(p) ==
    /\ pc[p] = "check"
    /\ flags' = {}
    /\ Goto(p, "setup")
    /\ UNCHANGED <<owner, busy, command, answer, crashes, disturbed>>

\* PIIX4CheckBusy: a status that is not zero is written back, which clears all but busy.
CheckBusy(p) ==
    /\ pc[p] = "check"
    /\ flags' = {}
    /\ Goto(p, IF busy = None /\ flags = {} THEN "setup" ELSE "recheck")
    /\ UNCHANGED <<owner, busy, command, answer, crashes, disturbed>>

\* It must be zero then, or the transaction ends with a timeout.
Recheck(p) ==
    /\ pc[p] = "recheck"
    /\ Goto(p, IF busy = None /\ flags = {} THEN "setup" ELSE "return")
    /\ UNCHANGED <<owner, hostVars, crashes, disturbed>>

\* The register writes of PIIX4SimpleTransaction
Setup(p) ==
    /\ pc[p] = "setup"
    /\ command' = p
    /\ Goto(p, "start")
    /\ UNCHANGED <<owner, busy, flags, answer, crashes, disturbed>>

\* PIIX4Transaction; the host takes a command only when it is not busy.
Start(p) ==
    /\ pc[p] = "start"
    /\ busy' = IF busy = None THEN command ELSE busy
    /\ Goto(p, "poll")
    /\ UNCHANGED <<owner, flags, command, answer, crashes, disturbed>>

\* Polling ends: the host is done, or still busy after MAX_RETRIES.  A good answer
\* is acknowledged, everything else is left in the status register.
Poll(p) ==
    /\ pc[p] = "poll"
    /\ IF busy = None /\ flags = {"INTR"}
         THEN flags' = {} /\ Goto(p, "collect")
         ELSE UNCHANGED flags /\ Goto(p, "return")
    /\ UNCHANGED <<owner, busy, command, answer, crashes, disturbed>>

\* SMBHSTDAT0 and SMBHSTDAT1 are read.
Collect(p) ==
    /\ pc[p] = "collect"
    /\ Goto(p, "return")
    /\ UNCHANGED <<owner, hostVars, crashes, disturbed>>

\* The next transaction under the same mutex, or WR0_ReleaseSmBus
Again(p) ==
    /\ pc[p] = "return"
    /\ Goto(p, "check")
    /\ UNCHANGED <<owner, hostVars, crashes, disturbed>>

Release(p) ==
    /\ pc[p] = "return"
    /\ owner' = IF owner = p THEN None ELSE owner
    /\ Goto(p, "idle")
    /\ UNCHANGED <<hostVars, crashes, disturbed>>

\* The process ends and abandons the mutex; the host goes on as it is.
Crash(p) ==
    /\ pc[p] # "idle"
    /\ crashes < MaxCrashes
    /\ crashes' = crashes + 1
    /\ owner' = IF owner = p THEN None ELSE owner
    /\ Goto(p, "idle")
    /\ UNCHANGED <<hostVars, disturbed>>

\* The host ends the command it executes; only an answer fills SMBHSTDAT0.
Finish ==
    /\ busy # None
    /\ \/ flags' = flags \cup {"INTR"} /\ answer' = busy
       \/ flags' = flags \cup {"ERROR"} /\ UNCHANGED answer
    /\ busy' = None
    /\ UNCHANGED <<pc, owner, command, crashes, disturbed>>

Xfer(p) == CheckBusy(p) \/ Recheck(p) \/ Setup(p) \/ Start(p) \/ Poll(p) \/ Collect(p)

Next ==
    \/ \E p \in Procs : Wait(p) \/ Xfer(p) \/ Again(p) \/ Release(p) \/ Crash(p)
    \/ Finish

Spec == Init /\ [][Next]_vars

----------------------------------------------------------------------------
TypeOK ==
    /\ pc \in [Procs -> {"idle", "check", "recheck", "setup", "start", "poll", "collect", "return"}]
    /\ owner \in Procs \cup {None}
    /\ busy \in Procs \cup {None}
    /\ flags \subseteq {"INTR", "ERROR"}
    /\ command \in Procs \cup {None}
    /\ answer \in Procs \cup {None}
    /\ crashes \in 0..MaxCrashes
    /\ disturbed \subseteq Procs

\* A process whose session nobody overlapped gives its commands to an idle host and
\* takes the answer to its own command, although earlier users may have given up on
\* theirs, left error flags behind or ended at any point.
OwnTransaction ==
    \A p \in Procs \ disturbed :
        /\ pc[p] = "start" => busy = None /\ flags = {} /\ command = p
        /\ pc[p] = "collect" => answer = p

\* No state the host is left in stops commands for ever.
BusRecovers == []<>(busy # None)

================================================================================
