----------------------------- MODULE RegisterProofs -----------------------------
(****************************************************************************)
(* Proofs about the two places where libnw goes through an index and a data *)
(* register, for any number of processes and crashes: the SMN with the SMU  *)
(* mailbox, and the search for Super-I/O chips.                             *)
(*                                                                          *)
(* Mine says what holds of the mailbox's registers at each place of a       *)
(* session nobody has disturbed.  Its heart is Calm: as long as a command   *)
(* is under way the response register is zero, so that the wait at the      *)
(* beginning of the next command ends only when its answer has been given.  *)
(*                                                                          *)
(* Looking says what holds of the chips while a process searches.  Others   *)
(* may have died in any configuration mode, so its part about the slot at   *)
(* hand, Probing, says why each driver finds out for itself, and that a     *)
(* driver that gave up had nothing to find.                                 *)
(****************************************************************************)
EXTENDS MCRegisters, TLAPS

----------------------------------------------------------------------------
(* The SMU mailbox.                                                         *)

Mine(p) ==
    /\ \A q \in Procs : pc[q] # "idle" => q = p
    /\ Calm
    /\ half[p] => smuIndex = RegisterOf(pc[p])
    /\ pc[p] = "read" => thmIndex = want[p]
    /\ pc[p] \in {"clear", "arg", "cmd", "result"} => executing = Nothing
    /\ pc[p] \in {"arg", "cmd"} => ~rsp
    /\ pc[p] \in {"cmd", "poll", "result"} => args = [by |-> p, at |-> at[p]]
    /\ pc[p] = "poll" => executing \in {Nothing, [by |-> p, at |-> at[p], args |-> p]}

\* Only a process inside a command is between its two accesses.
Halves == \A p \in Procs : half[p] => pc[p] \in Stages

\* As long as nothing has been spoilt, nobody is disturbed and the mailbox lives.
Clean == ~spoilt => Calm /\ Active \cap disturbed = {} /\ MailboxAlive

IInv == TypeOK /\ Halves /\ Clean /\ \A p \in Procs \ disturbed : pc[p] # "idle" => Mine(p)

LEMMA TypeInit == Init => TypeOK /\ Halves
<1> SUFFICES ASSUME Init PROVE TypeOK /\ Halves
  OBVIOUS
<1>1. crashes \in 0..MaxCrashes /\ 1 \in Positions
  BY CrashAssumption, CommandsAssumption DEF Init, Positions
<1> QED
  BY <1>1 DEF Init, TypeOK, Halves, Nothing

\* No step leaves the types, nor leaves a process halfway where it cannot be.
LEMMA TypeStep ==
    ASSUME TypeOK, Halves, [Next]_vars
    PROVE  TypeOK' /\ Halves'
<1> USE DEF procVars, smuVars, historyVars
<1>1. ASSUME NEW p \in Procs, Enter(p) PROVE TypeOK' /\ Halves'
  <2>1. disturbed' \subseteq Procs /\ owner' \in Procs \cup {None} /\ spoilt' \in BOOLEAN
    BY <1>1 DEF Enter, TypeOK, Active
  <2> QED
    BY <1>1, <2>1 DEF Enter, TypeOK, Halves, Goto, Stages
<1>2. ASSUME NEW p \in Procs, Leave(p) PROVE TypeOK' /\ Halves'
  BY <1>2 DEF Leave, TypeOK, Halves, Goto, Stages
<1>3. ASSUME NEW p \in Procs, Crash(p) PROVE TypeOK' /\ Halves'
  <2>1. crashes' \in 0..MaxCrashes
    BY <1>3, CrashAssumption DEF Crash, TypeOK
  <2>2. spoilt' \in BOOLEAN
    BY <1>3 DEF Crash, TypeOK
  <2> QED
    BY <1>3, <2>1, <2>2 DEF Crash, TypeOK, Halves, Goto
<1>4. ASSUME NEW p \in Procs, SelectRegister(p) \/ ReadRegister(p) PROVE TypeOK' /\ Halves'
  BY <1>4 DEF SelectRegister, ReadRegister, TypeOK, Halves, Goto, Stages
<1>5. ASSUME NEW p \in Procs, Begin(p) PROVE TypeOK' /\ Halves'
  <2>1. at' \in [Procs -> Positions]
    BY <1>5, CommandsAssumption DEF Begin, TypeOK, Positions
  <2> QED
    BY <1>5, <2>1 DEF Begin, TypeOK, Halves, Goto, Stages
<1>6. ASSUME NEW p \in Procs, Select(p) PROVE TypeOK' /\ Halves'
  <2>1. smuIndex' \in {"rsp", "arg", "cmd"}
    BY <1>6 DEF Select, RegisterOf, Stages
  <2> QED
    BY <1>6, <2>1 DEF Select, TypeOK, Halves
<1>7. ASSUME NEW p \in Procs, ReadResponse(p) \/ ReadError(p) PROVE TypeOK' /\ Halves'
  <2>1. PICK to \in {"ready"} \cup Stages : Goto(p, to)
    BY <1>7 DEF ReadResponse, ReadError, Stages
  <2> QED
    BY <1>7, <2>1 DEF ReadResponse, ReadError, Access, TypeOK, Halves, Goto
<1>8. ASSUME NEW p \in Procs, Write(p) PROVE TypeOK' /\ Halves'
  <2>1. PICK to \in Stages : Goto(p, to)
    BY <1>8 DEF Write, Stages
  <2>2. rsp' \in BOOLEAN
    BY <1>8 DEF Write, TypeOK
  <2>3. args' \in [by : Procs \cup {None}, at : {0} \cup Positions]
    BY <1>8 DEF Write, TypeOK
  <2>4. executing' \in [by : Procs \cup {None}, at : {0} \cup Positions, args : Procs \cup {None}]
    BY <1>8 DEF Write, TypeOK, Started
  <2> QED
    BY <1>8, <2>1, <2>2, <2>3, <2>4 DEF Write, Access, TypeOK, Halves, Goto
<1>9. ASSUME NEW p \in Procs, Collect(p) PROVE TypeOK' /\ Halves'
  <2>1. at' \in [Procs -> Positions] /\ handle' \in [Procs -> BOOLEAN]
    <3>1. CASE at[p] < Len(Commands)
      <4>1. at[p] \in 1..Len(Commands) /\ at[p] + 1 \in Positions
        BY <3>1, CommandsAssumption DEF TypeOK, Positions
      <4>2. at' \in [Procs -> Positions]
        BY <1>9, <3>1, <4>1 DEF Collect, TypeOK
      <4>3. PICK b \in BOOLEAN : handle' = [handle EXCEPT ![p] = b]
        BY <1>9, <3>1 DEF Collect
      <4> QED
        BY <4>2, <4>3 DEF TypeOK
    <3>2. CASE ~(at[p] < Len(Commands))
      BY <1>9, <3>2 DEF Collect, TypeOK
    <3> QED
      BY <3>1, <3>2
  <2>2. PICK to \in {"wait", "ready"} : Goto(p, to)
    BY <1>9 DEF Collect
  <2>3. Access(p) /\ UNCHANGED <<want, owner, thmIndex, smuIndex, smuVars, historyVars>>
    BY <1>9 DEF Collect
  <2>4. pc' \in [Procs -> {"idle", "ready", "read"} \cup Stages]
    BY <2>2 DEF TypeOK, Goto, Stages
  <2>5. half' \in [Procs -> BOOLEAN] /\ Halves'
    BY <2>2, <2>3 DEF TypeOK, Access, Halves, Goto, Stages
  <2> QED
    BY <2>1, <2>3, <2>4, <2>5 DEF TypeOK
<1>10. CASE Answer
  <2>1. args' \in [by : Procs \cup {None}, at : {0} \cup Positions]
    BY <1>10 DEF Answer, TypeOK
  <2>2. executing' \in [by : Procs \cup {None}, at : {0} \cup Positions, args : Procs \cup {None}]
    BY <1>10 DEF Answer, Nothing
  <2> QED
    BY <1>10, <2>1, <2>2 DEF Answer, TypeOK, Halves
<1>11. CASE UNCHANGED vars
  BY <1>11 DEF vars, TypeOK, Halves
<1> QED
  BY <1>1, <1>2, <1>3, <1>4, <1>5, <1>6, <1>7, <1>8, <1>9, <1>10, <1>11 DEF Next, SendSmuCmd

\* The steps of a session keep what it has seen of the registers.
LEMMA OwnStepKeepsMine ==
    ASSUME TypeOK, Halves, NEW p \in Procs, Mine(p), pc[p] # "idle", pc'[p] # "idle",
           \/ SelectRegister(p) \/ ReadRegister(p) \/ Begin(p) \/ SendSmuCmd(p) \/ Answer
    PROVE  Mine(p)'
<1> USE DEF procVars, smuVars, historyVars
<1>0. \A q \in Procs : pc'[q] # "idle" => q = p
  <2>1. \A q \in Procs \ {p} : pc'[q] = pc[q]
    BY DEF SelectRegister, ReadRegister, Begin, SendSmuCmd, Answer, Goto, TypeOK,
           Select, ReadResponse, ReadError, Write, Collect
  <2> QED
    BY <2>1 DEF Mine
<1>1. CASE SelectRegister(p)
  <2>1. pc'[p] = "read" /\ thmIndex' = want'[p] /\ half'[p] = FALSE
    BY <1>1 DEF SelectRegister, Goto, TypeOK, Halves, Stages
  <2> QED
    BY <1>0, <1>1, <2>1 DEF SelectRegister, Mine, Calm
<1>2. CASE ReadRegister(p)
  <2>1. pc'[p] = "ready" /\ half'[p] = FALSE
    BY <1>2 DEF ReadRegister, Goto, TypeOK, Halves, Stages
  <2> QED
    BY <1>0, <1>2, <2>1 DEF ReadRegister, Mine, Calm
<1>3. CASE Begin(p)
  <2>1. pc'[p] = "wait" /\ half'[p] = FALSE
    BY <1>3 DEF Begin, Goto, TypeOK, Halves, Stages
  <2> QED
    BY <1>0, <1>3, <2>1 DEF Begin, Mine, Calm
<1>4. CASE Select(p)
  <2>1. pc' = pc /\ smuIndex' = RegisterOf(pc[p])
    BY <1>4 DEF Select
  <2> QED
    BY <1>0, <1>4, <2>1 DEF Select, Mine, Calm, RegisterOf
<1>5. CASE ReadResponse(p)
  <2>1. half[p] /\ half'[p] = FALSE /\ smuIndex = "rsp" /\ pc[p] \in {"wait", "poll"}
    BY <1>5 DEF ReadResponse, Access, Mine, RegisterOf, TypeOK
  <2>2. \/ rsp /\ pc[p] = "wait" /\ pc'[p] = "clear"
        \/ rsp /\ pc[p] = "poll" /\ pc'[p] = "result"
        \/ pc'[p] \in {pc[p], "ready"}
    BY <1>5, <2>1 DEF ReadResponse, Goto, TypeOK
  <2>3. UNCHANGED <<want, at, thmIndex, smuIndex, rsp, args, executing>>
    BY <1>5 DEF ReadResponse
  <2> QED
    BY <1>0, <2>1, <2>2, <2>3 DEF Mine, Calm
<1>6. CASE ReadError(p)
  <2>1. pc'[p] = "ready" /\ half'[p] = FALSE
    BY <1>6 DEF ReadError, Access, Goto, TypeOK
  <2> QED
    BY <1>0, <1>6, <2>1 DEF ReadError, Mine, Calm
<1>7. CASE Write(p)
  <2>1. half[p] /\ half'[p] = FALSE /\ smuIndex = RegisterOf(pc[p])
    BY <1>7 DEF Write, Access, Mine, TypeOK
  <2>2. UNCHANGED <<want, at, thmIndex, smuIndex>>
    BY <1>7 DEF Write
  <2>3. CASE pc[p] = "clear"
    <3>1. smuIndex = "rsp" /\ pc'[p] = "arg"
      BY <1>7, <2>1, <2>3 DEF Write, RegisterOf, Goto, TypeOK
    <3>2. ~rsp' /\ UNCHANGED <<args, executing>>
      BY <1>7, <2>3, <3>1 DEF Write
    <3> QED
      BY <1>0, <2>1, <2>2, <2>3, <3>1, <3>2 DEF Mine, Calm
  <2>4. CASE pc[p] = "arg"
    <3>1. smuIndex = "arg" /\ pc'[p] = "cmd"
      BY <1>7, <2>1, <2>4 DEF Write, RegisterOf, Goto, TypeOK
    <3>2. args' = [by |-> p, at |-> at[p]] /\ UNCHANGED <<rsp, executing>>
      BY <1>7, <3>1 DEF Write
    <3> QED
      BY <1>0, <2>1, <2>2, <2>4, <3>1, <3>2 DEF Mine, Calm
  <2>5. CASE pc[p] = "cmd"
    <3>1. smuIndex = "cmd" /\ pc'[p] = "poll"
      BY <1>7, <2>1, <2>5 DEF Write, RegisterOf, Goto, TypeOK
    <3>2. executing' = [by |-> p, at |-> at[p], args |-> p] /\ UNCHANGED <<rsp, args>>
      BY <1>7, <2>5, <3>1 DEF Write, Started, Mine
    <3> QED
      BY <1>0, <2>1, <2>2, <2>5, <3>1, <3>2 DEF Mine, Calm
  <2> QED
    BY <1>7, <2>3, <2>4, <2>5 DEF Write
<1>8. CASE Collect(p)
  <2>1. pc'[p] \in {"wait", "ready"} /\ half'[p] = FALSE
    BY <1>8 DEF Collect, Access, Goto, TypeOK
  <2> QED
    BY <1>0, <1>8, <2>1 DEF Collect, Mine, Calm
<1>9. CASE Answer
  <2>1. /\ executing # Nothing /\ executing' = Nothing /\ rsp'
        /\ args' \in {args, [by |-> executing.by, at |-> executing.at]}
        /\ UNCHANGED <<pc, half, want, at, thmIndex, smuIndex>>
    BY <1>9 DEF Answer
  <2>2. pc[p] \notin {"clear", "arg", "cmd", "result"}
    BY <2>1 DEF Mine
  <2>3. pc[p] = "poll" => args' = [by |-> p, at |-> at[p]]
    BY <2>1 DEF Mine
  <2> QED
    BY <1>0, <2>1, <2>2, <2>3 DEF Mine, Calm
<1> QED
  BY <1>1, <1>2, <1>3, <1>4, <1>5, <1>6, <1>7, <1>8, <1>9 DEF SendSmuCmd

\* Of the processes nobody disturbed only one can be in a session, and somebody
\* else's first step disturbs it.
LEMMA MineStep ==
    ASSUME IInv, [Next]_vars, NEW p \in Procs, p \notin disturbed', pc'[p] # "idle"
    PROVE  Mine(p)'
<1> USE DEF IInv, procVars, smuVars, historyVars
<1>1. ASSUME NEW q \in Procs, Enter(q) PROVE Mine(p)'
  <2>1. pc[q] = "idle" /\ pc'[q] = "ready" /\ \A r \in Procs \ {q} : pc'[r] = pc[r]
    BY <1>1 DEF Enter, Goto, TypeOK
  <2>2. Active = {} /\ Calm
    BY <1>1, <2>1 DEF Enter, Active
  <2>3. p = q /\ half'[p] = FALSE
    BY <1>1, <2>1, <2>2 DEF Enter, Active, Halves, Stages, TypeOK
  <2>4. UNCHANGED <<smuIndex, rsp, args, executing>>
    BY <1>1 DEF Enter
  <2> QED
    BY <2>1, <2>2, <2>3, <2>4 DEF Mine, Active, Calm
<1>2. ASSUME ~\E q \in Procs : Enter(q) PROVE Mine(p)'
  <2>1. disturbed' = disturbed /\ \A r \in Procs : pc[r] = "idle" => pc'[r] = "idle"
    <3>1. CASE Answer \/ UNCHANGED vars
      BY <3>1 DEF Answer, vars
    <3>2. ASSUME NEW q \in Procs, Leave(q) \/ Crash(q) \/ SelectRegister(q) \/ ReadRegister(q) \/ Begin(q)
          PROVE  disturbed' = disturbed /\ \A r \in Procs : pc[r] = "idle" => pc'[r] = "idle"
      BY <3>2 DEF Leave, Crash, SelectRegister, ReadRegister, Begin, Goto, TypeOK
    <3>3. ASSUME NEW q \in Procs, SendSmuCmd(q)
          PROVE  disturbed' = disturbed /\ \A r \in Procs : pc[r] = "idle" => pc'[r] = "idle"
      BY <3>3 DEF SendSmuCmd, Select, ReadResponse, ReadError, Write, Collect, Stages, Goto, TypeOK
    <3> QED
      BY <1>2, <3>1, <3>2, <3>3 DEF Next
  <2>2. Mine(p) /\ pc[p] # "idle"
    BY <2>1
  <2>3. ASSUME NEW q \in Procs,
               Leave(q) \/ Crash(q) \/ SelectRegister(q) \/ ReadRegister(q) \/ Begin(q) \/ SendSmuCmd(q)
        PROVE  Mine(p)'
    <3>1. pc[q] # "idle"
      BY <2>3 DEF Leave, Crash, SelectRegister, ReadRegister, Begin, SendSmuCmd, Select, ReadResponse,
                  ReadError, Write, Collect, Stages
    <3>2. q = p
      BY <2>2, <3>1 DEF Mine
    <3>3. ~Leave(p) /\ ~Crash(p)
      BY DEF Leave, Crash, Goto, TypeOK
    <3> QED
      BY <2>2, <2>3, <3>2, <3>3, OwnStepKeepsMine
  <2>4. CASE Answer
    BY <2>2, <2>4, OwnStepKeepsMine
  <2>5. CASE UNCHANGED vars
    BY <2>2, <2>5 DEF vars, Mine, Calm
  <2> QED
    BY <1>2, <2>3, <2>4, <2>5 DEF Next
<1> QED
  BY <1>1, <1>2

\* While nothing is spoilt a session is by itself, and it leaves the stages in which
\* the response is zero without a command only by commanding or by a crash that spoils.
LEMMA CleanStep ==
    ASSUME IInv, [Next]_vars
    PROVE  Clean'
<1> USE DEF IInv, procVars, smuVars, historyVars
<1> SUFFICES ASSUME ~spoilt' PROVE Calm' /\ (Active \cap disturbed = {})' /\ MailboxAlive'
  BY DEF Clean
<1>1. ~spoilt
  <2>1. ASSUME spoilt PROVE spoilt'
    BY <2>1 DEF Next, Enter, Leave, Crash, SelectRegister, ReadRegister, Begin, SendSmuCmd, Select,
                ReadResponse, ReadError, Write, Collect, Answer, vars
  <2> QED
    BY <2>1
<1>2. Calm /\ Active \cap disturbed = {} /\ MailboxAlive
  BY <1>1 DEF Clean
<1>3. ASSUME NEW p \in Procs, Enter(p) PROVE Calm' /\ (Active \cap disturbed = {})' /\ MailboxAlive'
  <2>1. Active = {}
    BY <1>1, <1>3 DEF Enter
  <2>2. disturbed' = disturbed \ {p} /\ UNCHANGED <<rsp, executing>>
    BY <1>2, <1>3, <2>1 DEF Enter
  <2>3. \A q \in Procs : pc'[q] # "idle" => q = p
    BY <1>3, <2>1 DEF Enter, Active, Goto, TypeOK
  <2>4. ~(~rsp /\ executing = Nothing)
    BY <1>1, <1>2, <2>1 DEF MailboxAlive, Active
  <2> QED
    BY <1>2, <2>2, <2>3, <2>4 DEF Calm, Active, MailboxAlive
<1>4. ASSUME NEW p \in Procs, Leave(p) \/ Crash(p)
      PROVE Calm' /\ (Active \cap disturbed = {})' /\ MailboxAlive'
  <2>1. UNCHANGED <<rsp, executing, disturbed>> /\ pc'[p] = "idle" /\ \A q \in Procs \ {p} : pc'[q] = pc[q]
    BY <1>4 DEF Leave, Crash, Goto, TypeOK
  <2>2. pc[p] \notin {"arg", "cmd"}
    BY <1>4 DEF Leave, Crash
  <2> QED
    BY <1>1, <1>2, <2>1, <2>2 DEF Calm, Active, MailboxAlive
<1>5. ASSUME NEW p \in Procs, SelectRegister(p) \/ ReadRegister(p) \/ Begin(p) \/ SendSmuCmd(p)
      PROVE Calm' /\ (Active \cap disturbed = {})' /\ MailboxAlive'
  <2>1. pc[p] # "idle" /\ disturbed' = disturbed
    BY <1>5 DEF SelectRegister, ReadRegister, Begin, SendSmuCmd, Select, ReadResponse, ReadError, Write,
                Collect, Stages
  <2>2. p \notin disturbed /\ Mine(p)
    BY <1>2, <2>1 DEF Active
  <2>3. \A q \in Procs \ {p} : pc'[q] = pc[q]
    BY <1>5 DEF SelectRegister, ReadRegister, Begin, SendSmuCmd, Select, ReadResponse, ReadError, Write,
                Collect, Goto, TypeOK
  <2>4. pc'[p] # "idle"
    BY <1>5 DEF SelectRegister, ReadRegister, Begin, SendSmuCmd, Select, ReadResponse, ReadError, Write,
                Collect, Goto, Stages, TypeOK
  <2>5. Mine(p)'
    BY <2>1, <2>2, <2>4, MineStep
  <2>6. (Active \cap disturbed = {})'
    BY <1>2, <2>1, <2>2, <2>3 DEF Active
  <2>7. MailboxAlive'
    <3>1. CASE Write(p)
      <4>1. pc[p] = "cmd" => executing' # Nothing
        BY <2>2, <3>1, NoneAssumption DEF Write, Access, Mine, RegisterOf, Started, Nothing, TypeOK
      <4>2. pc[p] # "cmd" => pc'[p] \in {"arg", "cmd"}
        BY <3>1 DEF Write, Goto, TypeOK
      <4> QED
        BY <4>1, <4>2 DEF MailboxAlive
    <3>2. CASE ~Write(p)
      <4>1. UNCHANGED <<rsp, executing>>
        BY <1>5, <3>2 DEF SelectRegister, ReadRegister, Begin, SendSmuCmd, Select, ReadResponse, ReadError, Collect
      <4>2. pc[p] \in {"arg", "cmd"} => pc'[p] = pc[p]
        BY <1>5, <3>2 DEF SelectRegister, ReadRegister, Begin, SendSmuCmd, Select, ReadResponse, ReadError, Collect
      <4> QED
        BY <1>1, <1>2, <2>3, <4>1, <4>2 DEF MailboxAlive
    <3> QED
      BY <3>1, <3>2
  <2> QED
    BY <2>5, <2>6, <2>7 DEF Mine
<1>6. CASE Answer
  BY <1>2, <1>6 DEF Answer, Calm, Active, MailboxAlive
<1>7. CASE UNCHANGED vars
  BY <1>1, <1>2, <1>7 DEF vars, Calm, Active, MailboxAlive
<1> QED
  BY <1>3, <1>4, <1>5, <1>6, <1>7 DEF Next

LEMMA IInvAlways == Spec => []IInv
<1>1. Init => IInv
  <2> SUFFICES ASSUME Init PROVE IInv
    OBVIOUS
  <2>1. TypeOK /\ Halves
    BY TypeInit
  <2>2. Clean
    BY DEF Init, Clean, Calm, Active, MailboxAlive
  <2> QED
    BY <2>1, <2>2 DEF Init, IInv
<1>2. IInv /\ [Next]_vars => IInv'
  <2> SUFFICES ASSUME IInv, [Next]_vars PROVE IInv'
    OBVIOUS
  <2>1. TypeOK' /\ Halves'
    BY TypeStep DEF IInv
  <2>2. \A p \in Procs \ disturbed' : pc'[p] # "idle" => Mine(p)'
    BY MineStep
  <2> QED
    BY <2>1, <2>2, CleanStep DEF IInv
<1> QED
  BY <1>1, <1>2, PTL DEF Spec

\* Every variable stays in its type.
THEOREM SmuTypeCorrect == Spec => []TypeOK
<1>1. IInv => TypeOK
  BY DEF IInv
<1> QED
  BY IInvAlways, <1>1, PTL

\* A session nobody overlaps reads the register it has selected (ioctl.c:1131-1219).
THEOREM ReadsOwnRegister == Spec => []OwnRegister
<1>1. IInv => OwnRegister
  BY DEF IInv, Mine, OwnRegister
<1> QED
  BY IInvAlways, <1>1, PTL

\* It reads back the arguments of the command it sent, never a late answer to one
\* that was given up (ioctl.c:1221, ryzen_smu.c:325).
THEOREM ReadsOwnAnswer == Spec => []OwnAnswer
<1>1. IInv => OwnAnswer
  BY DEF IInv, Mine, OwnAnswer, RegisterOf
<1> QED
  BY IInvAlways, <1>1, PTL

\* While it waits, the SMU works on its command with its arguments or on nothing.
THEOREM SendsOwnCommand == Spec => []OwnCommand
<1>1. IInv => OwnCommand
  BY DEF IInv, Mine, OwnCommand
<1> QED
  BY IInvAlways, <1>1, PTL

\* The mailbox goes on answering, unless two sessions overlapped or a process died
\* between clearing the response and commanding.
THEOREM MailboxStaysAlive == Spec => []MailboxAlive
<1>1. IInv => MailboxAlive
  BY DEF IInv, Clean, MailboxAlive
<1> QED
  BY IInvAlways, <1>1, PTL

----------------------------------------------------------------------------
(* The Super-I/O chips.                                                     *)

\* A chip on 0x4E that answers to ITE's key is exempt: nobody closes it there.
Exempt(s) == s = 2 /\ chip[s].maker = "ite"

\* Its configuration mode is closed.
Shut(s) == open[s] => Exempt(s)

\* What a process has found in a slot is what is there.
Solved(p, s) ==
    /\ found[p][s] = IF chip[s].maker = "none" THEN S!Nowhere ELSE S!Expected(chip[s])
    /\ found[p][s].maker = "nuvoton" => ~chip[s].locked

\* The slots a process has done with, and those it has still to look at.
Slotwise(p) ==
    /\ \A s \in S!Slots : s < slot[p] \/ ioPc[p] = "release" =>
          Shut(s) /\ (~Exempt(s) => Solved(p, s))
    /\ ioPc[p] # "release" => \A s \in S!Slots : s >= slot[p] => found[p][s] = S!Nowhere

\* The places where the ITE driver looks at the general-purpose i/o.
AtGpio == {"gpio", "readgpio", "verifygpio"}

\* There it has an ITE chip in front of it, with the device it wants selected.
ProbingGpio(p) ==
    LET s == slot[p]
    IN  /\ ioPc[p] \in AtGpio => chip[s].maker = "ite"
        /\ ioPc[p] \in {"readgpio", "verifygpio"} => ldn[s] = S!Gpio
        /\ ioPc[p] \in {"verifygpio", "exit"} /\ chip[s].maker = "ite" => gpioAddress[p] = chip[s].gpio
        /\ ioPc[p] = "exit" /\ chip[s].maker = "ite" =>
              gpioVerify[p] = IF chip[s].gpioSteady THEN chip[s].gpio ELSE 0

\* The slot a process looks at: no driver it has tried would have found a monitor, and
\* the one it tries now has the chip where it thinks it has.
Probing(p) ==
    LET s == slot[p]
    IN  /\ \A i \in 1..4 : i < driver[p] /\ S!Drivers[i] = chip[s].maker => S!Expected(chip[s]) = S!Nowhere
        /\ ioPc[p] # "reenter"
        /\ ioPc[p] = "enter" /\ driver[p] > 1 /\ open[s] => chip[s].maker = "ite"
        /\ ioPc[p] = "identify" =>
              /\ S!KeyFits(p) => open[s]
              /\ open[s] => S!KeyFits(p) \/ chip[s].maker = "ite"
        /\ ioPc[p] \in {"select", "read", "verify", "exit"} \cup AtGpio => S!Recognised(p)
        /\ ioPc[p] \in {"read", "verify"} => ldn[s] = S!Monitor
        /\ ioPc[p] \in {"verify", "exit"} \cup AtGpio => address[p] = chip[s].base
        /\ ioPc[p] \in {"exit"} \cup AtGpio =>
              /\ verify[p] = IF chip[s].steady THEN chip[s].base ELSE 0
              /\ chip[s].maker = "nuvoton" /\ chip[s].steady => ~chip[s].locked
        /\ ProbingGpio(p)

\* A process that looks holds the mutex.
Looking(p) ==
    ioPc[p] # "idle" =>
        /\ holder = {p}
        /\ Slotwise(p)
        /\ ioPc[p] # "release" /\ ~Exempt(slot[p]) => Probing(p)

\* The types, no key without a chip, and what holds of each process.
LpcInv ==
    /\ S!TypeOK
    /\ \A s \in S!Slots : open[s] => chip[s].maker # "none"
    /\ \A p \in Procs : Looking(p)
\* What Fintek's adjustment leaves is an address again.
LEMMA LpcWords == \A w \in Nat : w % 8 = 5 => w - 5 \in Nat
<1> SUFFICES ASSUME NEW w \in Nat, w % 8 = 5, w < 5 PROVE FALSE
  OBVIOUS
<1>1. w = 0 \/ w = 1 \/ w = 2 \/ w = 3 \/ w = 4
  OBVIOUS
<1> QED
  BY <1>1

\* The drivers and the order they try in.
LEMMA LpcDrivers ==
    /\ Len(S!Drivers) = 4 /\ S!Slots = {1, 2} /\ S!Monitor # S!Gpio
    /\ S!Drivers[1] = "fintek" /\ S!Drivers[2] = "winbond" /\ S!Drivers[3] = "nuvoton" /\ S!Drivers[4] = "ite"
  BY DEF S!Drivers, S!Slots, S!Monitor, S!Gpio

\* Going on to the next driver or slot keeps the types.
LEMMA NextDriverTyping ==
    ASSUME S!TypeOK, NEW p \in Procs, S!NextDriver(p)
    PROVE  /\ ioPc' \in [Procs -> S!Places] /\ slot' \in [Procs -> S!Slots] /\ driver' \in [Procs -> 1..4]
           /\ \A q \in Procs \ {p} : ioPc'[q] = ioPc[q] /\ slot'[q] = slot[q] /\ driver'[q] = driver[q]
           /\ \/ /\ driver[p] < 4 /\ driver'[p] = driver[p] + 1 /\ slot'[p] = slot[p] /\ ioPc'[p] = "enter"
              \/ driver[p] = 4 /\ slot[p] = 1 /\ driver'[p] = 1 /\ slot'[p] = 2 /\ ioPc'[p] = "enter"
              \/ driver[p] = 4 /\ slot[p] = 2 /\ driver'[p] = 1 /\ slot'[p] = 2 /\ ioPc'[p] = "release"
<1>1. driver[p] \in 1..4 /\ slot[p] \in {1, 2}
  BY LpcDrivers DEF S!TypeOK
<1>2. CASE driver[p] < 4
  <2>1. /\ driver' = [driver EXCEPT ![p] = @ + 1] /\ ioPc' = [ioPc EXCEPT ![p] = "enter"] /\ slot' = slot
    BY <1>2, LpcDrivers DEF S!NextDriver, S!Goto
  <2>2. driver[p] + 1 \in 1..4
    BY <1>1, <1>2
  <2> QED
    BY <1>2, <2>1, <2>2 DEF S!TypeOK, S!Places
<1>3. CASE driver[p] = 4
  <2>1. /\ driver' = [driver EXCEPT ![p] = 1]
        /\ slot' = [slot EXCEPT ![p] = IF @ = 1 THEN 2 ELSE @]
        /\ ioPc' = [ioPc EXCEPT ![p] = IF slot[p] = 1 THEN "enter" ELSE "release"]
    BY <1>3, LpcDrivers DEF S!NextDriver, S!Goto
  <2> QED
    BY <1>1, <1>3, <2>1, LpcDrivers DEF S!TypeOK, S!Places
<1> QED
  BY <1>1, <1>2, <1>3

\* No step of the search leaves the types.
LEMMA LpcTypeStep == ASSUME S!TypeOK, [S!Next]_S!vars PROVE S!TypeOK'
<1> USE DEF S!Places, S!gpioVars
<1>1. ASSUME NEW p \in Procs, S!Wait(p) PROVE S!TypeOK'
  <2>1. S!Nowhere \in S!FoundKind /\ 1 \in S!Slots
    BY LpcDrivers, LpcWords DEF S!Nowhere, S!Makers, S!FoundKind
  <2> QED
    BY <1>1, <2>1 DEF S!Wait, S!Goto, S!chipVars, S!gpioVars, S!TypeOK
<1>2. ASSUME NEW p \in Procs, S!Enter(p) PROVE S!TypeOK'
  <2>1. open' \in [S!Slots -> BOOLEAN]
    BY <1>2 DEF S!Enter, S!TypeOK, S!KeyFits
  <2> QED
    BY <1>2, <2>1 DEF S!Enter, S!Goto, S!TypeOK
<1>3. ASSUME NEW p \in Procs, S!EnterIte4E(p) PROVE S!TypeOK'
  BY <1>3 DEF S!EnterIte4E, S!Goto, S!chipVars, S!gpioVars, S!TypeOK
<1>4. ASSUME NEW p \in Procs, S!ReenterIte4E(p) PROVE S!TypeOK'
  <2> DEFINE new == [chip[2] EXCEPT !.known = chip[2].known /\ chip[2].maker # "ite"]
  <2>1. chip' = [chip EXCEPT ![2] = new]
    BY <1>4 DEF S!ReenterIte4E
  <2>2. new \in S!ChipKind
    <3>1. chip[2] \in S!ChipKind
      BY LpcDrivers DEF S!TypeOK
    <3> QED
      BY <3>1 DEF S!ChipKind
  <2> HIDE DEF new
  <2>3. chip' \in [S!Slots -> S!ChipKind]
    BY <2>1, <2>2, LpcDrivers DEF S!TypeOK
  <2> QED
    BY <1>4, <2>3 DEF S!ReenterIte4E, S!Goto, S!TypeOK
<1>5. ASSUME NEW p \in Procs, S!Identify(p) PROVE S!TypeOK'
  <2>1. /\ ioPc' \in [Procs -> S!Places] /\ slot' \in [Procs -> S!Slots] /\ driver' \in [Procs -> 1..4]
        /\ ldn' \in [S!Slots -> {S!Monitor, S!Gpio, S!Other}] /\ open' \in [S!Slots -> BOOLEAN]
    <3>1. CASE S!Recognised(p)
      BY <1>5, <3>1 DEF S!Identify, S!Goto, S!TypeOK
    <3>2. CASE ~S!Recognised(p)
      <4>1. S!NextDriver(p) /\ S!Exit(p) /\ ldn' = ldn
        BY <1>5, <3>2 DEF S!Identify
      <4> QED
        BY <4>1, NextDriverTyping DEF S!Exit, S!ClosedBy, S!TypeOK
    <3> QED
      BY <3>1, <3>2
  <2> QED
    BY <1>5, <2>1 DEF S!Identify, S!TypeOK
<1>6. ASSUME NEW p \in Procs, S!Select(p) PROVE S!TypeOK'
  BY <1>6 DEF S!Select, S!Goto, S!TypeOK
<1>7. ASSUME NEW p \in Procs PROVE S!Base(p) \in Nat
  <2>1. slot[p] \in S!Slots /\ chip[slot[p]].base \in Nat /\ chip[slot[p]].gpio \in Nat
    BY DEF S!TypeOK, S!ChipKind
  <2> QED
    BY <2>1, LpcWords DEF S!Base, S!Here
<1>8. ASSUME NEW p \in Procs, S!Read(p) PROVE S!TypeOK'
  BY <1>7, <1>8 DEF S!Read, S!Goto, S!chipVars, S!gpioVars, S!TypeOK
<1>9. ASSUME NEW p \in Procs, S!Verify(p) PROVE S!TypeOK'
  <2> DEFINE value == IF S!Here(p).steady THEN S!Base(p) ELSE 0
             old == chip[slot[p]]
             new == [old EXCEPT !.locked =
                        old.locked /\ ~(S!Maker(p) = "nuvoton" /\ open[slot[p]] /\ value = address[p])]
  <2>1. verify' = [verify EXCEPT ![p] = value] /\ chip' = [chip EXCEPT ![slot[p]] = new]
    BY <1>9 DEF S!Verify
  <2>2. old \in S!ChipKind /\ slot[p] \in S!Slots
    BY DEF S!TypeOK
  <2>3. new \in S!ChipKind
    <3> HIDE DEF old, value
    <3> QED
      BY <2>2 DEF S!ChipKind
  <2>5. value \in Nat
    BY <1>7, LpcWords
  <2> HIDE DEF new, value
  <2>4. chip' \in [S!Slots -> S!ChipKind] /\ verify' \in [Procs -> Nat]
    BY <2>1, <2>2, <2>3, <2>5 DEF S!TypeOK
  <2> QED
    BY <1>9, <2>4 DEF S!Verify, S!Goto, S!TypeOK
<1>10. ASSUME NEW p \in Procs, S!Leave(p) PROVE S!TypeOK'
  <2>1. open' \in [S!Slots -> BOOLEAN]
    BY <1>10 DEF S!Leave, S!Exit, S!ClosedBy, S!TypeOK
  <2>2. /\ ioPc' \in [Procs -> S!Places] /\ slot' \in [Procs -> S!Slots] /\ driver' \in [Procs -> 1..4]
        /\ found' \in [Procs -> [S!Slots -> S!FoundKind]]
    <3>1. CASE S!Verified(p)
      <4>1. S!Adjusted(p) \in Nat
        <5>1. address[p] \in Nat /\ (address[p] % 8 = 5 => address[p] - 5 \in Nat)
          BY LpcWords DEF S!TypeOK
        <5> QED
          BY <5>1 DEF S!Adjusted
      <4>2. S!Maker(p) \in S!Makers
        <5>1. driver[p] \in 1..4
          BY DEF S!TypeOK
        <5>2. driver[p] = 1 \/ driver[p] = 2 \/ driver[p] = 3 \/ driver[p] = 4
          BY <5>1
        <5> QED
          BY <5>2, LpcDrivers DEF S!Maker, S!Makers
      <4>3. S!Found(p) \in S!FoundKind
        <5>1. gpioAddress[p] \in Nat /\ 0 \in Nat
          BY LpcWords DEF S!TypeOK
        <5> QED
          BY <4>1, <4>2, <5>1 DEF S!Found, S!FoundKind
      <4> DEFINE here == S!Found(p)
                 all == [found[p] EXCEPT ![slot[p]] = here]
      <4>4. /\ found' = [found EXCEPT ![p] = all]
            /\ driver' = [driver EXCEPT ![p] = 1]
            /\ slot' = [slot EXCEPT ![p] = IF slot[p] = 1 THEN 2 ELSE slot[p]]
            /\ ioPc' = [ioPc EXCEPT ![p] = IF slot[p] = 1 THEN "enter" ELSE "release"]
        BY <1>10, <3>1 DEF S!Leave, S!Goto
      <4> HIDE DEF here
      <4>5. all \in [S!Slots -> S!FoundKind]
        BY <4>3 DEF S!TypeOK, here
      <4> HIDE DEF all
      <4>6. found' \in [Procs -> [S!Slots -> S!FoundKind]]
        BY <4>4, <4>5 DEF S!TypeOK
      <4>7. /\ ioPc' \in [Procs -> S!Places] /\ slot' \in [Procs -> S!Slots] /\ driver' \in [Procs -> 1..4]
        BY <4>4, LpcDrivers DEF S!TypeOK
      <4> QED
        BY <4>6, <4>7
    <3>2. CASE ~S!Verified(p)
      BY <1>10, <3>2, NextDriverTyping DEF S!Leave, S!TypeOK
    <3> QED
      BY <3>1, <3>2
  <2> QED
    BY <1>10, <2>1, <2>2 DEF S!Leave, S!TypeOK
<1>13. ASSUME NEW p \in Procs, S!SelectGpio(p) \/ S!ReadGpio(p) \/ S!VerifyGpio(p) PROVE S!TypeOK'
  <2>1. CASE S!SelectGpio(p)
    BY <2>1 DEF S!SelectGpio, S!Goto, S!TypeOK
  <2>2. CASE S!ReadGpio(p)
    BY <1>7, <2>2 DEF S!ReadGpio, S!Goto, S!chipVars, S!TypeOK
  <2>3. CASE S!VerifyGpio(p)
    <3> DEFINE value == IF S!Here(p).gpioSteady THEN S!Base(p) ELSE 0
    <3>1. value \in Nat /\ gpioVerify' = [gpioVerify EXCEPT ![p] = value]
      BY <1>7, <2>3, LpcWords DEF S!VerifyGpio
    <3> HIDE DEF value
    <3> QED
      BY <2>3, <3>1 DEF S!VerifyGpio, S!Goto, S!chipVars, S!TypeOK
  <2> QED
    BY <1>13, <2>1, <2>2, <2>3
<1>11. ASSUME NEW p \in Procs, S!Release(p) \/ S!Crash(p) PROVE S!TypeOK'
  <2>1. ioCrashes' \in 0..MaxCrashes
    BY <1>11, CrashAssumption DEF S!Release, S!Crash, S!TypeOK
  <2> QED
    BY <1>11, <2>1 DEF S!Release, S!Crash, S!Goto, S!chipVars, S!gpioVars, S!TypeOK
<1>12. CASE UNCHANGED S!vars
  BY <1>12 DEF S!vars, S!procVars, S!chipVars, S!gpioVars, S!TypeOK
<1> QED
  BY <1>1, <1>2, <1>3, <1>4, <1>5, <1>6, <1>8, <1>9, <1>10, <1>11, <1>12, <1>13 DEF S!Next, S!Detect

\* A step changes what is known of a chip at most at an exempt one, and never locks one.
SameChips ==
    \A s \in S!Slots :
        /\ chip'[s].maker = chip[s].maker /\ chip'[s].base = chip[s].base /\ chip'[s].steady = chip[s].steady
        /\ chip'[s].gpio = chip[s].gpio /\ chip'[s].gpioSteady = chip[s].gpioSteady
        /\ ~Exempt(s) => chip'[s].known = chip[s].known
        /\ chip'[s].locked => chip[s].locked

\* Every step of a search is such a step.
LEMMA ChipsStay == ASSUME S!TypeOK, NEW p \in Procs, S!Detect(p) PROVE SameChips
<1>1. CASE S!ReenterIte4E(p)
  <2> DEFINE new == [chip[2] EXCEPT !.known = chip[2].known /\ chip[2].maker # "ite"]
  <2>1. chip' = [chip EXCEPT ![2] = new]
    BY <1>1 DEF S!ReenterIte4E
  <2>2. chip[2] \in S!ChipKind
    BY LpcDrivers DEF S!TypeOK
  <2>3. /\ new.maker = chip[2].maker /\ new.base = chip[2].base /\ new.steady = chip[2].steady
        /\ new.gpio = chip[2].gpio /\ new.gpioSteady = chip[2].gpioSteady
        /\ new.locked = chip[2].locked /\ (chip[2].maker # "ite" => new.known = chip[2].known)
    BY <2>2 DEF S!ChipKind
  <2> HIDE DEF new
  <2> QED
    BY <2>1, <2>3, LpcDrivers DEF SameChips, Exempt, S!TypeOK
<1>2. CASE S!Verify(p)
  <2> DEFINE old == chip[slot[p]]
             opened == S!Maker(p) = "nuvoton" /\ open[slot[p]]
                       /\ (IF S!Here(p).steady THEN S!Base(p) ELSE 0) = address[p]
             new == [old EXCEPT !.locked = old.locked /\ ~opened]
  <2>1. chip' = [chip EXCEPT ![slot[p]] = new]
    BY <1>2 DEF S!Verify
  <2>2. old \in S!ChipKind /\ slot[p] \in S!Slots
    BY DEF S!TypeOK
  <2>3. /\ new.maker = old.maker /\ new.base = old.base /\ new.steady = old.steady
        /\ new.gpio = old.gpio /\ new.gpioSteady = old.gpioSteady
        /\ new.known = old.known /\ (new.locked => old.locked)
    <3> HIDE DEF old, opened
    <3> QED
      BY <2>2 DEF S!ChipKind
  <2> HIDE DEF new
  <2> QED
    BY <2>1, <2>2, <2>3 DEF SameChips, S!TypeOK
<1>3. CASE \/ S!Enter(p) \/ S!EnterIte4E(p) \/ S!Identify(p) \/ S!Select(p) \/ S!Read(p) \/ S!Leave(p)
           \/ S!SelectGpio(p) \/ S!ReadGpio(p) \/ S!VerifyGpio(p)
  <2>1. chip' = chip
    BY <1>3 DEF S!Enter, S!EnterIte4E, S!Identify, S!Select, S!Read, S!Leave,
                S!SelectGpio, S!ReadGpio, S!VerifyGpio, S!chipVars, S!gpioVars
  <2> QED
    BY <2>1 DEF SameChips
<1> QED
  BY <1>1, <1>2, <1>3 DEF S!Detect

\* What is exempt, and what should be found, stays so.
LEMMA ExpectationsStay ==
    ASSUME SameChips, NEW s \in S!Slots
    PROVE  /\ Exempt(s)' <=> Exempt(s)
           /\ ~Exempt(s) => S!Expected(chip[s])' = S!Expected(chip[s])
           /\ ~Exempt(s) /\ chip'[s].maker = "none" => chip[s].maker = "none"
  BY DEF SameChips, Exempt, S!Expected

\* A step that stays in its slot leaves the other slots as they were.
LEMMA SlotwiseStays ==
    ASSUME LpcInv, NEW p \in Procs, SameChips, ioPc[p] \notin {"idle", "release"}, ioPc'[p] # "release",
           slot' = slot, found' = found, \A s \in S!Slots \ {slot[p]} : open'[s] = open[s]
    PROVE  Slotwise(p)'
<1>1. Slotwise(p) /\ slot[p] \in Nat
  BY LpcDrivers DEF LpcInv, Looking, S!TypeOK
<1>2. ASSUME NEW s \in S!Slots, s < slot[p] PROVE Shut(s)' /\ (~Exempt(s)' => Solved(p, s)')
  <2>1. open'[s] = open[s]
    BY <1>1, <1>2, LpcDrivers
  <2>2. Shut(s) /\ (~Exempt(s) => Solved(p, s))
    BY <1>1, <1>2 DEF Slotwise
  <2>3. Exempt(s)' <=> Exempt(s)
    BY ExpectationsStay
  <2>4. ASSUME ~Exempt(s) PROVE Solved(p, s)'
    <3>1. S!Expected(chip[s])' = S!Expected(chip[s])
      BY <2>4, ExpectationsStay
    <3>2. chip'[s].maker = chip[s].maker /\ (chip'[s].locked => chip[s].locked)
      BY DEF SameChips
    <3> QED
      BY <2>2, <2>4, <3>1, <3>2 DEF Solved, S!Nowhere
  <2> QED
    BY <2>1, <2>2, <2>3, <2>4 DEF Shut
<1>3. \A s \in S!Slots : s >= slot'[p] => found'[p][s] = S!Nowhere
  BY <1>1 DEF Slotwise
<1> QED
  BY <1>2, <1>3 DEF Slotwise, S!Nowhere

\* Whose key opens which chip, and whose exit closes it.
LEMMA Keys ==
    ASSUME LpcInv, NEW p \in Procs
    PROVE  LET s == slot[p]
               m == S!Drivers[driver[p]]
           IN  /\ s \in S!Slots /\ driver[p] \in 1..4 /\ m \in S!Makers \ {"none"}
               /\ chip[s].maker \in S!Makers /\ (open[s] => chip[s].maker # "none")
               /\ S!KeyFits(p) <=> IF m = "ite" THEN chip[s].maker = "ite"
                                              ELSE chip[s].maker \in {"fintek", "winbond", "nuvoton"}
               /\ ~Exempt(s) /\ S!KeyFits(p) => S!ClosedBy(p)
               /\ chip[s].maker = m => S!KeyFits(p)
               /\ driver[p] = 4 <=> m = "ite"
               /\ \A i \in 1..4 : S!Drivers[i] \in S!Makers \ {"none"}
               /\ \A maker \in S!Makers \ {"none"} : \E i \in 1..4 : S!Drivers[i] = maker
<1>1. slot[p] \in S!Slots /\ driver[p] \in 1..4 /\ chip[slot[p]] \in S!ChipKind
  BY DEF LpcInv, S!TypeOK
<1>2. /\ driver[p] = 1 \/ driver[p] = 2 \/ driver[p] = 3 \/ driver[p] = 4
      /\ slot[p] = 1 \/ slot[p] = 2
      /\ \A i \in 1..4 : i = 1 \/ i = 2 \/ i = 3 \/ i = 4
  BY <1>1, LpcDrivers
<1>3. chip[slot[p]].maker \in S!Makers /\ (open[slot[p]] => chip[slot[p]].maker # "none")
  BY <1>1 DEF LpcInv, S!ChipKind
<1>4. /\ \A i \in 1..4 : S!Drivers[i] \in S!Makers \ {"none"}
      /\ \A maker \in S!Makers \ {"none"} : \E i \in 1..4 : S!Drivers[i] = maker
  BY <1>2, LpcDrivers DEF S!Makers
<1>5. /\ S!KeyFits(p) <=> IF S!Drivers[driver[p]] = "ite" THEN chip[slot[p]].maker = "ite"
                           ELSE chip[slot[p]].maker \in {"fintek", "winbond", "nuvoton"}
      /\ ~Exempt(slot[p]) /\ S!KeyFits(p) => S!ClosedBy(p)
  BY <1>2, <1>3 DEF S!KeyFits, S!ClosedBy, S!Maker, S!Here, Exempt
<1>6. chip[slot[p]].maker = S!Drivers[driver[p]] => S!KeyFits(p)
  BY <1>1, <1>3, <1>4, <1>5 DEF S!Makers
<1>7. driver[p] = 4 <=> S!Drivers[driver[p]] = "ite"
  BY <1>2, LpcDrivers
<1> QED
  BY <1>1, <1>3, <1>4, <1>5, <1>6, <1>7

\* A process that gives a driver up in a slot where that driver would have found nothing
\* goes on as it should, and leaves the slot closed and solved if it was the last driver.
LEMMA GivenUp ==
    ASSUME LpcInv, NEW p \in Procs, ioPc[p] \notin {"idle", "release"}, S!NextDriver(p), S!Exit(p),
           UNCHANGED <<chip, found, holder>>,
           ~Exempt(slot[p]) =>
              /\ Probing(p)
              /\ S!Drivers[driver[p]] = chip[slot[p]].maker => S!Expected(chip[slot[p]]) = S!Nowhere
              /\ open[slot[p]] => S!KeyFits(p) \/ chip[slot[p]].maker = "ite"
    PROVE  Looking(p)'
<1>s. PICK s \in S!Slots : s = slot[p]
  BY Keys
<1> DEFINE m == S!Drivers[driver[p]]
           last == driver[p] = 4
<1>0. S!TypeOK /\ Looking(p)
  BY DEF LpcInv
<1>1. /\ s \in S!Slots /\ driver[p] \in 1..4 /\ m \in S!Makers \ {"none"}
      /\ chip[s].maker \in S!Makers /\ (open[s] => chip[s].maker # "none")
      /\ S!KeyFits(p) <=> IF m = "ite" THEN chip[s].maker = "ite"
                                     ELSE chip[s].maker \in {"fintek", "winbond", "nuvoton"}
      /\ ~Exempt(s) /\ S!KeyFits(p) => S!ClosedBy(p)
      /\ driver[p] = 4 <=> m = "ite"
  BY <1>s, Keys
<1>2. /\ open'[s] = (open[s] /\ ~S!ClosedBy(p)) /\ \A t \in S!Slots \ {s} : open'[t] = open[t]
  BY <1>0, <1>1, <1>s DEF S!Exit, S!TypeOK
<1>3. \/ /\ driver[p] < 4 /\ driver'[p] = driver[p] + 1 /\ slot'[p] = s /\ ioPc'[p] = "enter"
      \/ last /\ s = 1 /\ driver'[p] = 1 /\ slot'[p] = 2 /\ ioPc'[p] = "enter"
      \/ last /\ s = 2 /\ driver'[p] = 1 /\ slot'[p] = 2 /\ ioPc'[p] = "release"
  BY <1>0, <1>s, NextDriverTyping
<1>4. ASSUME ~Exempt(s), open'[s] PROVE chip[s].maker = "ite" /\ ~last
  <2>1. open[s] /\ ~S!ClosedBy(p) /\ ~S!KeyFits(p) /\ chip[s].maker = "ite"
    BY <1>s, <1>1, <1>2, <1>4
  <2> QED
    BY <1>1, <2>1
<1>5. /\ \A t \in S!Slots : t < s => Shut(t)' /\ (~Exempt(t) => Solved(p, t)')
      /\ \A t \in S!Slots : t >= s => found'[p][t] = S!Nowhere
      /\ holder' = {p}
  <2>1. Slotwise(p) /\ holder = {p}
    BY <1>0 DEF Looking
  <2>2. ASSUME NEW t \in S!Slots, t < s PROVE Shut(t)' /\ (~Exempt(t) => Solved(p, t)')
    <3>1. t # s /\ open'[t] = open[t]
      BY <1>1, <1>2, <2>2, LpcDrivers
    <3>2. Shut(t) /\ (~Exempt(t) => Solved(p, t))
      BY <1>s, <2>1, <2>2 DEF Slotwise
    <3> QED
      BY <3>1, <3>2 DEF Shut, Solved, Exempt, S!Expected, S!Nowhere
  <2> QED
    BY <1>s, <2>1, <2>2 DEF Slotwise
<1>6. ASSUME ~Exempt(s), NEW i \in 1..4, i <= driver[p], S!Drivers[i] = chip[s].maker
      PROVE  S!Expected(chip[s]) = S!Nowhere
  <2>1. CASE i = driver[p]
    BY <1>s, <1>6, <2>1
  <2>2. CASE i < driver[p]
    BY <1>s, <1>6, <2>2 DEF Probing, ProbingGpio, AtGpio
  <2> QED
    BY <1>1, <1>6, <2>1, <2>2
<1>7. CASE driver[p] < 4 /\ driver'[p] = driver[p] + 1 /\ slot'[p] = s /\ ioPc'[p] = "enter"
  <2>1. Slotwise(p)'
    BY <1>5, <1>7 DEF Slotwise, Exempt, S!Nowhere
  <2>2. ASSUME ~Exempt(s) PROVE Probing(p)'
    <3>1. \A i \in 1..4 : i < driver'[p] /\ S!Drivers[i] = chip'[s].maker => S!Expected(chip[s])' = S!Nowhere
      <4>1. \A i \in 1..4 : i < driver'[p] => i <= driver[p]
        BY <1>1, <1>7
      <4> QED
        BY <1>6, <2>2, <4>1 DEF S!Expected, S!Nowhere
    <3>2. open'[s] => chip'[s].maker = "ite"
      BY <1>4, <2>2
    <3> QED
      BY <1>7, <3>1, <3>2 DEF Probing, ProbingGpio, AtGpio
  <2> QED
    BY <1>5, <1>7, <2>1, <2>2 DEF Looking, Exempt
<1>8. CASE last
  <2>1. Shut(s)' /\ (~Exempt(s) => Solved(p, s)')
    <3>1. Shut(s)'
      BY <1>4, <1>8 DEF Shut, Exempt
    <3>2. ASSUME ~Exempt(s) PROVE Solved(p, s)'
      <4>1. found'[p][s] = S!Nowhere
        BY <1>1, <1>5, LpcDrivers
      <4>2. chip[s].maker # "none" => S!Expected(chip[s]) = S!Nowhere
        <5>1. chip[s].maker # "none" => \E i \in 1..4 : S!Drivers[i] = chip[s].maker
          BY <1>1, Keys
        <5> QED
          BY <1>6, <1>8, <3>2, <5>1
      <4> QED
        BY <4>1, <4>2 DEF Solved, S!Nowhere, S!Expected
    <3> QED
      BY <3>1, <3>2
  <2>2. \A t \in S!Slots : t < s \/ t = s \/ t > s
    BY <1>1, LpcDrivers
  <2>3. CASE s = 1 /\ driver'[p] = 1 /\ slot'[p] = 2 /\ ioPc'[p] = "enter"
    <3>1. Slotwise(p)'
      <4>1. \A t \in S!Slots : t < 2 => t = s
        BY <2>3, LpcDrivers
      <4>2. 2 >= s
        BY <2>3
      <4> QED
        BY <1>5, <2>1, <2>3, <4>1, LpcDrivers DEF Slotwise, Exempt, S!Nowhere
    <3>2. Probing(p)'
      BY <2>3 DEF Probing, ProbingGpio, AtGpio
    <3> QED
      BY <1>5, <2>3, <3>1, <3>2 DEF Looking
  <2>4. CASE s = 2 /\ driver'[p] = 1 /\ slot'[p] = 2 /\ ioPc'[p] = "release"
    <3>1. \A t \in S!Slots : Shut(t)' /\ (~Exempt(t)' => Solved(p, t)')
      <4>1. \A t \in S!Slots : t < s \/ t = s
        BY <2>4, LpcDrivers
      <4> QED
        BY <1>5, <2>1, <4>1 DEF Exempt
    <3>2. Slotwise(p)'
      BY <2>4, <3>1 DEF Slotwise
    <3> QED
      BY <1>5, <2>4, <3>2 DEF Looking
  <2> QED
    BY <1>3, <1>8, <2>3, <2>4
<1> QED
  BY <1>3, <1>7, <1>8

\* One process looks at a time.
LEMMA AloneInLpc ==
    ASSUME LpcInv, NEW p \in Procs, NEW q \in Procs \ {p}, ioPc[p] # "idle" \/ holder = {}
    PROVE  ioPc[q] = "idle"
<1>1. ioPc[p] # "idle" => holder = {p}
  BY DEF LpcInv, Looking
<1>2. ioPc[q] # "idle" => holder = {q}
  BY DEF LpcInv, Looking
<1> QED
  BY <1>1, <1>2

\* A driver that has the chip in front of it leaves the slot with what is there.
LEMMA MonitorFound ==
    ASSUME LpcInv, NEW p \in Procs, ioPc[p] = "exit", ~Exempt(slot[p])
    PROVE  LET s == slot[p]
           IN  /\ S!Drivers[driver[p]] = chip[s].maker /\ S!KeyFits(p)
               /\ S!Verified(p) => /\ S!Expected(chip[s]) = S!Found(p)
                                   /\ chip[s].maker = "nuvoton" => ~chip[s].locked
               /\ ~S!Verified(p) => S!Expected(chip[s]) = S!Nowhere
<1> DEFINE s == slot[p]
           c == chip[s]
           base == IF c.maker = "fintek" /\ c.base % 8 = 5 THEN c.base - 5 ELSE c.base
           gpioWorks == c.maker = "ite" => c.gpioSteady /\ S!Plausible(c.gpio)
           works == c.known /\ c.steady /\ S!Plausible(base) /\ gpioWorks
<1>1. Probing(p)
  BY DEF LpcInv, Looking
<1>2. /\ S!Recognised(p) /\ address[p] = c.base /\ verify[p] = IF c.steady THEN c.base ELSE 0
      /\ c.maker = "nuvoton" /\ c.steady => ~c.locked
      /\ c.maker = "ite" => gpioAddress[p] = c.gpio /\ gpioVerify[p] = IF c.gpioSteady THEN c.gpio ELSE 0
  BY <1>1 DEF Probing, ProbingGpio
<1>3. S!Maker(p) = c.maker /\ c.known
  BY <1>2 DEF S!Recognised, S!Here
<1>4. S!Adjusted(p) = base
  BY <1>2, <1>3 DEF S!Adjusted
<1>5. ~S!Plausible(0)
  BY DEF S!Plausible
<1>6. ~c.steady /\ address[p] = verify[p] => S!Adjusted(p) = 0
  BY <1>2, <1>4
<1>7. S!Expected(c) = IF works THEN [maker |-> c.maker, base |-> base, gpio |-> IF c.maker = "ite" THEN c.gpio ELSE 0]
                      ELSE S!Nowhere
  BY DEF S!Expected
<1>8. S!Drivers[driver[p]] = c.maker /\ S!KeyFits(p)
  BY <1>3, Keys DEF S!Maker
<1> HIDE DEF c, base
<1>9. S!Verified(p) <=> works
  <2>1. gpioWorks <=> (S!Maker(p) = "ite" => gpioAddress[p] = gpioVerify[p] /\ S!Plausible(gpioAddress[p]))
    BY <1>2, <1>3, <1>5
  <2> HIDE DEF gpioWorks
  <2> QED
    BY <1>2, <1>3, <1>4, <1>5, <1>6, <2>1 DEF S!Verified
<1>10. S!Found(p) = [maker |-> c.maker, base |-> base, gpio |-> IF c.maker = "ite" THEN c.gpio ELSE 0]
  BY <1>2, <1>3, <1>4 DEF S!Found
<1>11. works /\ c.maker = "nuvoton" => ~c.locked
  BY <1>2
<1> HIDE DEF works
<1> QED
  BY <1>7, <1>8, <1>9, <1>10, <1>11 DEF c

\* The steps up to the readings keep what is known of the slot.
LEMMA LookingOn ==
    ASSUME LpcInv, NEW p \in Procs, SameChips, S!TypeOK',
           \/ S!Enter(p) \/ S!EnterIte4E(p) \/ S!ReenterIte4E(p) \/ S!Select(p) \/ S!Read(p) \/ S!Verify(p)
           \/ S!SelectGpio(p) \/ S!ReadGpio(p) \/ S!VerifyGpio(p)
           \/ S!Identify(p) /\ S!Recognised(p)
    PROVE  Looking(p)'
<1>s. PICK s \in S!Slots : s = slot[p]
  BY Keys
<1>m. PICK m \in S!Makers : m = chip[s].maker /\ m = chip'[s].maker
  BY <1>s, Keys DEF SameChips
<1>0. S!TypeOK /\ Looking(p)
  BY DEF LpcInv
<1>1. /\ ioPc[p] \in S!Places \ {"idle", "release"} /\ ioPc'[p] \in S!Places \ {"idle", "release", "enter"}
      /\ slot' = slot /\ driver' = driver /\ found' = found /\ holder' = holder
      /\ \A t \in S!Slots \ {slot[p]} : open'[t] = open[t]
  BY <1>0 DEF S!Enter, S!EnterIte4E, S!ReenterIte4E, S!Select, S!Read, S!Verify, S!Identify, S!Goto,
              S!SelectGpio, S!ReadGpio, S!VerifyGpio,
              S!chipVars, S!gpioVars, S!TypeOK, S!Places
<1>2. Slotwise(p)' /\ holder' = {p}
  BY <1>0, <1>1, SlotwiseStays DEF Looking
<1>3. (Exempt(s)' <=> Exempt(s)) /\ (~Exempt(s) => S!Expected(chip[s])' = S!Expected(chip[s]))
  BY ExpectationsStay
<1> SUFFICES ASSUME ~Exempt(s) PROVE Probing(p)'
  BY <1>s, <1>1, <1>2, <1>3 DEF Looking
<1>4. Probing(p)
  BY <1>s, <1>0, <1>1 DEF Looking
<1>5. \A i \in 1..4 : i < driver'[p] /\ S!Drivers[i] = chip'[s].maker => S!Expected(chip[s])' = S!Nowhere
  BY <1>s, <1>m, <1>1, <1>3, <1>4 DEF Probing, ProbingGpio, AtGpio
<1>6. /\ m # "none" \/ ~open[s]
      /\ S!KeyFits(p) <=> IF S!Drivers[driver[p]] = "ite" THEN m = "ite" ELSE m \in {"fintek", "winbond", "nuvoton"}
      /\ S!KeyFits(p)' <=> S!KeyFits(p)
      /\ driver[p] \in 1..4 /\ (driver[p] = 4 <=> S!Drivers[driver[p]] = "ite")
  <2>1. S!KeyFits(p)' <=> S!KeyFits(p)
    BY <1>s, <1>m, <1>1 DEF S!KeyFits, S!Maker, S!Here
  <2> QED
    BY <1>s, <1>m, <2>1, Keys
<1>7. chip[s].known => chip'[s].known
  BY DEF SameChips
<1>8. CASE S!Enter(p)
  <2>1. ioPc[p] = "enter" /\ ioPc'[p] = "identify" /\ open' = [open EXCEPT ![slot[p]] = @ \/ S!KeyFits(p)]
    BY <1>0, <1>8 DEF S!Enter, S!Goto, S!TypeOK
  <2>2. open'[s] <=> open[s] \/ S!KeyFits(p)
    BY <1>s, <1>0, <2>1 DEF S!TypeOK
  <2>3. open[s] => S!KeyFits(p) \/ m = "ite"
    <3>1. open[s] /\ driver[p] > 1 => m = "ite"
      BY <1>s, <1>m, <1>4, <2>1 DEF Probing, ProbingGpio, AtGpio
    <3>2. ~(driver[p] > 1) => S!Drivers[driver[p]] # "ite"
      BY <1>6
    <3> QED
      BY <1>6, <3>1, <3>2 DEF S!Makers
  <2> QED
    BY <1>s, <1>m, <1>1, <1>5, <1>6, <2>1, <2>2, <2>3 DEF Probing, ProbingGpio, AtGpio
<1>9. CASE S!EnterIte4E(p)
  <2>1. /\ ioPc[p] = "enter" /\ ioPc'[p] = (IF open[2] THEN "reenter" ELSE "identify") /\ open' = open
        /\ s = 2 /\ S!Drivers[driver[p]] = "ite"
    BY <1>s, <1>0, <1>9 DEF S!EnterIte4E, S!Goto, S!chipVars, S!gpioVars, S!Maker, S!TypeOK
  <2>2. m # "ite" /\ ~S!KeyFits(p)
    BY <1>m, <1>6, <2>1 DEF Exempt
  <2>3. ~open[s]
    BY <1>s, <1>m, <1>4, <1>6, <2>1, <2>2 DEF Probing, ProbingGpio, AtGpio
  <2> QED
    BY <1>s, <1>m, <1>1, <1>5, <1>6, <2>1, <2>2, <2>3 DEF Probing, ProbingGpio, AtGpio
<1>10. CASE S!ReenterIte4E(p)
  BY <1>4, <1>10 DEF S!ReenterIte4E, Probing
<1>11. CASE S!Identify(p) /\ S!Recognised(p)
  <2>1. ioPc'[p] = "select" /\ open' = open
    BY <1>0, <1>11 DEF S!Identify, S!Goto, S!TypeOK
  <2>2. S!Recognised(p)'
    BY <1>s, <1>m, <1>1, <1>7, <1>11, <2>1 DEF S!Recognised, S!Here, S!Maker
  <2> QED
    BY <1>s, <1>m, <1>1, <1>5, <2>1, <2>2 DEF Probing, ProbingGpio, AtGpio
<1>12. CASE \/ S!Select(p) \/ S!Read(p) \/ S!Verify(p)
            \/ S!SelectGpio(p) \/ S!ReadGpio(p) \/ S!VerifyGpio(p)
  <2>1. S!Recognised(p) /\ open' = open
    BY <1>4, <1>12 DEF S!Select, S!Read, S!Verify, S!SelectGpio, S!ReadGpio, S!VerifyGpio, S!chipVars, AtGpio, Probing
  <2>2. S!Recognised(p)'
    BY <1>s, <1>m, <1>1, <1>7, <2>1 DEF S!Recognised, S!Here, S!Maker
  <2>3. /\ chip'[s].base = chip[s].base /\ chip'[s].steady = chip[s].steady
        /\ chip'[s].gpio = chip[s].gpio /\ chip'[s].gpioSteady = chip[s].gpioSteady
        /\ (chip'[s].locked => chip[s].locked)
    BY DEF SameChips
  <2>7. S!Maker(p) = m
    BY <1>s, <1>m, <2>1 DEF S!Recognised, S!Here
  <2>4. CASE S!Select(p)
    <3>1. ioPc'[p] = "read" /\ ldn'[s] = S!Monitor
      BY <1>s, <1>0, <2>4 DEF S!Select, S!Goto, S!TypeOK
    <3> QED
      BY <1>s, <1>m, <1>1, <1>5, <2>2, <3>1 DEF Probing, ProbingGpio, AtGpio, S!Monitor
  <2>5. CASE S!Read(p)
    <3>1. ioPc[p] = "read" /\ ioPc'[p] = "verify" /\ ldn' = ldn /\ address'[p] = S!Base(p)
      BY <1>0, <2>5 DEF S!Read, S!Goto, S!chipVars, S!gpioVars, S!TypeOK
    <3>2. ldn[s] = S!Monitor
      BY <1>s, <1>4, <3>1 DEF Probing, ProbingGpio, AtGpio
    <3>3. S!Base(p) = chip[s].base
      BY <1>s, <2>1, <3>2 DEF S!Base, S!Recognised, S!Here
    <3> QED
      BY <1>s, <1>m, <1>1, <1>5, <2>2, <2>3, <3>1, <3>2, <3>3 DEF Probing, ProbingGpio, AtGpio, S!Monitor
  <2>6. CASE S!Verify(p)
    <3> DEFINE value == IF S!Here(p).steady THEN S!Base(p) ELSE 0
    <3>1. /\ ioPc[p] = "verify" /\ ioPc'[p] = (IF S!Maker(p) = "ite" THEN "gpio" ELSE "exit")
          /\ address' = address /\ verify'[p] = value
      BY <1>0, <2>6 DEF S!Verify, S!Goto, S!TypeOK
    <3>2. ldn[s] = S!Monitor /\ address[p] = chip[s].base
      BY <1>s, <1>4, <3>1 DEF Probing, ProbingGpio, AtGpio
    <3>3. value = IF chip[s].steady THEN chip[s].base ELSE 0
      BY <1>s, <2>1, <3>2 DEF S!Base, S!Recognised, S!Here
    <3>4. m = "nuvoton" /\ chip[s].steady => ~chip'[s].locked
      <4> DEFINE old == chip[slot[p]]
                 opened == S!Maker(p) = "nuvoton" /\ open[slot[p]] /\ value = address[p]
                 new == [old EXCEPT !.locked = old.locked /\ ~opened]
      <4>1. chip' = [chip EXCEPT ![slot[p]] = new]
        BY <2>6 DEF S!Verify
      <4>2. m = "nuvoton" /\ chip[s].steady => opened
        BY <1>s, <1>m, <2>1, <3>2, <3>3 DEF S!Recognised, S!Here
      <4>3. opened => ~new.locked
        <5>1. old \in S!ChipKind
          BY <1>0 DEF S!TypeOK
        <5> HIDE DEF old, opened
        <5> QED
          BY <5>1 DEF S!ChipKind
      <4> HIDE DEF new, opened
      <4>4. chip'[s] = new
        BY <1>s, <1>0, <4>1 DEF S!TypeOK
      <4> QED
        BY <4>2, <4>3, <4>4
    <3> HIDE DEF value
    <3> QED
      BY <1>s, <1>m, <1>1, <1>5, <2>2, <2>3, <2>7, <3>1, <3>2, <3>3, <3>4 DEF Probing, ProbingGpio, AtGpio
  <2>8. CASE S!SelectGpio(p)
    <3>1. ioPc[p] = "gpio" /\ ioPc'[p] = "readgpio" /\ ldn'[s] = S!Gpio /\ UNCHANGED <<address, verify>>
      BY <1>s, <1>0, <2>8 DEF S!SelectGpio, S!Goto, S!TypeOK
    <3> QED
      BY <1>s, <1>m, <1>1, <1>4, <1>5, <2>2, <2>3, <3>1 DEF Probing, ProbingGpio, AtGpio, S!Gpio
  <2>9. CASE S!ReadGpio(p)
    <3>1. /\ ioPc[p] = "readgpio" /\ ioPc'[p] = "verifygpio" /\ gpioAddress'[p] = S!Base(p)
          /\ UNCHANGED <<address, verify, ldn>>
      BY <1>0, <2>9 DEF S!ReadGpio, S!Goto, S!chipVars, S!TypeOK
    <3>2. ldn[s] = S!Gpio
      BY <1>s, <1>4, <3>1 DEF Probing, ProbingGpio
    <3>3. S!Base(p) = chip[s].gpio
      BY <1>s, <2>1, <3>2, LpcDrivers DEF S!Base, S!Recognised, S!Here
    <3> QED
      BY <1>s, <1>m, <1>1, <1>4, <1>5, <2>2, <2>3, <3>1, <3>2, <3>3 DEF Probing, ProbingGpio, AtGpio, S!Gpio
  <2>10. CASE S!VerifyGpio(p)
    <3> DEFINE value == IF S!Here(p).gpioSteady THEN S!Base(p) ELSE 0
    <3>1. /\ ioPc[p] = "verifygpio" /\ ioPc'[p] = "exit" /\ gpioVerify'[p] = value
          /\ UNCHANGED <<address, verify, gpioAddress>>
      BY <1>0, <2>10 DEF S!VerifyGpio, S!Goto, S!TypeOK
    <3>2. ldn[s] = S!Gpio /\ gpioAddress[p] = chip[s].gpio
      BY <1>s, <1>4, <3>1 DEF Probing, ProbingGpio, AtGpio
    <3>3. value = IF chip[s].gpioSteady THEN chip[s].gpio ELSE 0
      BY <1>s, <2>1, <3>2, LpcDrivers DEF S!Base, S!Recognised, S!Here
    <3> HIDE DEF value
    <3> QED
      BY <1>s, <1>m, <1>1, <1>4, <1>5, <2>2, <2>3, <3>1, <3>2, <3>3 DEF Probing, ProbingGpio, AtGpio
  <2> QED
    BY <1>12, <2>4, <2>5, <2>6, <2>8, <2>9, <2>10
<1> QED
  BY <1>8, <1>9, <1>10, <1>11, <1>12

\* The invariant of the search is inductive.
LEMMA LpcStep == ASSUME LpcInv, [S!Next]_S!vars PROVE LpcInv'
<1>0. S!TypeOK /\ S!TypeOK'
  BY LpcTypeStep DEF LpcInv
<1>1. CASE UNCHANGED S!vars
  <2>1. UNCHANGED <<ioPc, slot, driver, address, verify, gpioAddress, gpioVerify, found, holder, chip, open, ldn>>
    BY <1>1 DEF S!vars, S!procVars, S!chipVars, S!gpioVars
  <2>2. ASSUME NEW p \in Procs PROVE Looking(p)'
    <3>1. Looking(p)
      BY DEF LpcInv
    <3>2. Slotwise(p) => Slotwise(p)'
      BY <2>1 DEF Slotwise, Shut, Solved, Exempt, S!Expected, S!Nowhere
    <3>3. (S!KeyFits(p)' <=> S!KeyFits(p)) /\ (S!Recognised(p)' <=> S!Recognised(p))
      BY <2>1 DEF S!KeyFits, S!Recognised, S!Here, S!Maker
    <3>4. Probing(p) => Probing(p)'
      <4>1. ProbingGpio(p) => ProbingGpio(p)'
        BY <2>1 DEF ProbingGpio, S!Gpio
      <4> QED
        BY <2>1, <3>3, <4>1 DEF Probing, S!Expected, S!Nowhere, S!Monitor
    <3> QED
      BY <2>1, <3>1, <3>2, <3>4 DEF Looking, Exempt
  <2> QED
    BY <1>0, <2>1, <2>2 DEF LpcInv
<1>2. ASSUME NEW p \in Procs, S!Detect(p)
      PROVE  /\ SameChips /\ ioPc[p] \notin {"idle", "release"}
             /\ \A q \in Procs \ {p} : ioPc[q] = "idle" /\ ioPc'[q] = "idle"
             /\ \A s \in S!Slots : open'[s] => chip'[s].maker # "none"
  <2>1. ioPc[p] \notin {"idle", "release"}
    BY <1>2 DEF S!Detect, S!Enter, S!EnterIte4E, S!ReenterIte4E, S!Identify, S!Select, S!Read, S!Verify, S!Leave,
           S!SelectGpio, S!ReadGpio, S!VerifyGpio
  <2>2. \A q \in Procs \ {p} : ioPc'[q] = ioPc[q]
    BY <1>0, <1>2, NextDriverTyping DEF S!Detect, S!Enter, S!EnterIte4E, S!ReenterIte4E, S!Identify, S!Select,
             S!Read, S!Verify, S!SelectGpio, S!ReadGpio, S!VerifyGpio, S!Leave, S!Goto, S!TypeOK
  <2>3. SameChips
    BY <1>0, <1>2, ChipsStay
  <2>4. ASSUME NEW s \in S!Slots, open'[s], ~open[s] PROVE chip[s].maker # "none"
    <3>1. S!Enter(p)
      BY <1>0, <1>2, <2>4 DEF S!Detect, S!EnterIte4E, S!ReenterIte4E, S!Identify, S!Select, S!Read, S!Verify,
             S!SelectGpio, S!ReadGpio, S!VerifyGpio, S!Leave, S!Exit, S!chipVars, S!gpioVars, S!TypeOK
    <3>2. s = slot[p] /\ S!KeyFits(p)
      BY <1>0, <2>4, <3>1 DEF S!Enter, S!TypeOK
    <3> QED
      BY <3>2, Keys
  <2>5. \A s \in S!Slots : open[s] => chip[s].maker # "none"
    BY DEF LpcInv
  <2> QED
    BY <2>1, <2>2, <2>3, <2>4, <2>5, AloneInLpc DEF SameChips
<1>3. ASSUME NEW p \in Procs, S!Detect(p) PROVE Looking(p)'
  <2>1. CASE \/ S!Enter(p) \/ S!EnterIte4E(p) \/ S!ReenterIte4E(p) \/ S!Select(p) \/ S!Read(p) \/ S!Verify(p)
             \/ S!SelectGpio(p) \/ S!ReadGpio(p) \/ S!VerifyGpio(p)
             \/ S!Identify(p) /\ S!Recognised(p)
    BY <1>0, <1>2, <1>3, <2>1, LookingOn
  <2>2. CASE S!Identify(p) /\ ~S!Recognised(p)
    <3>1. S!NextDriver(p) /\ S!Exit(p) /\ UNCHANGED <<chip, found, holder>> /\ ioPc[p] = "identify"
      BY <2>2 DEF S!Identify
    <3>2. ASSUME ~Exempt(slot[p])
          PROVE  /\ Probing(p)
                 /\ S!Drivers[driver[p]] = chip[slot[p]].maker => S!Expected(chip[slot[p]]) = S!Nowhere
                 /\ open[slot[p]] => S!KeyFits(p) \/ chip[slot[p]].maker = "ite"
      <4>1. Probing(p)
        BY <3>1, <3>2 DEF LpcInv, Looking
      <4>2. S!KeyFits(p) => open[slot[p]]
        BY <3>1, <4>1 DEF Probing, ProbingGpio, AtGpio
      <4>3. S!Drivers[driver[p]] = chip[slot[p]].maker => ~chip[slot[p]].known
        <5>1. S!Drivers[driver[p]] = chip[slot[p]].maker => S!KeyFits(p)
          BY Keys
        <5> QED
          BY <2>2, <4>2, <5>1 DEF S!Recognised, S!Here, S!Maker
      <4>4. ~chip[slot[p]].known => S!Expected(chip[slot[p]]) = S!Nowhere
        BY DEF S!Expected
      <4>5. open[slot[p]] => S!KeyFits(p) \/ chip[slot[p]].maker = "ite"
        BY <3>1, <4>1 DEF Probing, ProbingGpio, AtGpio
      <4> QED
        BY <4>1, <4>3, <4>4, <4>5
    <3> QED
      BY <1>2, <1>3, <3>1, <3>2, GivenUp
  <2>3. CASE S!Leave(p) /\ ~S!Verified(p)
    <3>1. S!NextDriver(p) /\ S!Exit(p) /\ UNCHANGED <<chip, found, holder>> /\ ioPc[p] = "exit"
      BY <2>3 DEF S!Leave
    <3>2. ASSUME ~Exempt(slot[p])
          PROVE  /\ Probing(p)
                 /\ S!Drivers[driver[p]] = chip[slot[p]].maker => S!Expected(chip[slot[p]]) = S!Nowhere
                 /\ open[slot[p]] => S!KeyFits(p) \/ chip[slot[p]].maker = "ite"
      <4>1. Probing(p)
        BY <3>1, <3>2 DEF LpcInv, Looking
      <4> QED
        BY <2>3, <3>1, <3>2, <4>1, MonitorFound
    <3> QED
      BY <1>2, <1>3, <3>1, <3>2, GivenUp
  <2>4. CASE S!Leave(p) /\ S!Verified(p)
    <3>s. PICK s \in S!Slots : s = slot[p]
      BY Keys
    <3> DEFINE here == S!Found(p)
    <3>1. /\ S!Exit(p) /\ UNCHANGED <<chip, holder>> /\ ioPc[p] = "exit"
          /\ found' = [found EXCEPT ![p][slot[p]] = here] /\ driver'[p] = 1
          /\ slot'[p] = 2 /\ ioPc'[p] = (IF s = 1 THEN "enter" ELSE "release")
      BY <1>0, <2>4, <3>s, LpcDrivers DEF S!Leave, S!Goto, S!TypeOK
    <3>2. found'[p][s] = here /\ \A t \in S!Slots \ {s} : found'[p][t] = found[p][t]
      <4> HIDE DEF here
      <4> QED
        BY <1>0, <3>s, <3>1 DEF S!TypeOK
    <3>3. \A t \in S!Slots : open'[t] = (open[t] /\ ~(t = s /\ S!ClosedBy(p)))
      BY <1>0, <3>s, <3>1 DEF S!Exit, S!TypeOK
    <3>4. Slotwise(p) /\ holder = {p}
      BY <3>1 DEF LpcInv, Looking
    <3>5. Shut(s)' /\ (~Exempt(s)' => Solved(p, s)')
      <4>1. CASE Exempt(s)
        BY <3>1, <4>1 DEF Exempt, Shut
      <4>2. CASE ~Exempt(s)
        <5>1. S!KeyFits(p) /\ S!Expected(chip[s]) = here /\ (chip[s].maker = "nuvoton" => ~chip[s].locked)
              /\ S!Drivers[driver[p]] = chip[s].maker
          BY <2>4, <3>s, <3>1, <4>2, MonitorFound
        <5>2. ~open'[s] /\ chip[s].maker # "none" /\ S!Maker(p) = chip[s].maker
          BY <3>s, <3>3, <4>2, <5>1, Keys DEF S!Maker
        <5>3. here.maker = chip[s].maker
          BY <5>2 DEF S!Found
        <5>4. Solved(p, s)'
          <6> HIDE DEF here
          <6> QED
            BY <3>1, <3>2, <5>1, <5>2, <5>3 DEF Solved, S!Expected, S!Nowhere
        <5> QED
          BY <5>2, <5>4 DEF Shut
      <4> QED
        BY <4>1, <4>2
    <3>6. ASSUME NEW t \in S!Slots, t < s PROVE Shut(t)' /\ (~Exempt(t)' => Solved(p, t)')
      <4>1. t # s /\ Shut(t) /\ (~Exempt(t) => Solved(p, t))
        BY <3>s, <3>4, <3>6, LpcDrivers DEF Slotwise
      <4> HIDE DEF here
      <4>2. found'[p][t] = found[p][t] /\ chip' = chip /\ (open'[t] <=> open[t])
        BY <3>1, <3>2, <3>3, <4>1
      <4>3. (Exempt(t)' <=> Exempt(t)) /\ (~Exempt(t) => S!Expected(chip[t])' = S!Expected(chip[t]))
        BY <1>2, <1>3, ExpectationsStay
      <4> QED
        BY <4>1, <4>2, <4>3 DEF Shut, Solved, S!Nowhere
    <3>7. ASSUME NEW t \in S!Slots, t > s PROVE found'[p][t] = S!Nowhere
      <4>1. t # s /\ found[p][t] = S!Nowhere
        BY <3>s, <3>1, <3>4, <3>7, LpcDrivers DEF Slotwise
      <4> QED
        BY <3>2, <4>1
    <3> HIDE DEF here
    <3>8. CASE s = 1
      <4>1. Slotwise(p)'
        <5>1. \A t \in S!Slots : (t < 2 => t = s) /\ (t >= 2 => t > s)
          BY <3>8, LpcDrivers
        <5>2. ioPc'[p] = "enter" /\ slot'[p] = 2
          BY <3>1, <3>8
        <5> QED
          BY <3>5, <3>7, <5>1, <5>2 DEF Slotwise, S!Nowhere
      <4>2. Probing(p)'
        BY <3>1, <3>8 DEF Probing, ProbingGpio, AtGpio
      <4> QED
        BY <3>1, <3>4, <4>1, <4>2 DEF Looking
    <3>9. CASE s = 2
      <4>1. \A t \in S!Slots : t < s \/ t = s
        BY <3>9, LpcDrivers
      <4>2. Slotwise(p)'
        BY <3>1, <3>5, <3>6, <3>9, <4>1 DEF Slotwise
      <4> QED
        BY <3>1, <3>4, <3>9, <4>2 DEF Looking
    <3> QED
      BY <3>8, <3>9, LpcDrivers
  <2> QED
    BY <1>3, <2>1, <2>2, <2>3, <2>4 DEF S!Detect
<1>4. ASSUME NEW p \in Procs, S!Wait(p) PROVE LpcInv'
  <2>1. /\ ioPc[p] = "idle" /\ ioPc'[p] = "enter" /\ holder = {} /\ holder' = {p} /\ slot'[p] = 1 /\ driver'[p] = 1
        /\ \A s \in S!Slots : found'[p][s] = S!Nowhere
        /\ UNCHANGED <<chip, open>>
        /\ \A q \in Procs \ {p} : ioPc'[q] = ioPc[q]
    BY <1>0, <1>4 DEF S!Wait, S!Goto, S!chipVars, S!gpioVars, S!TypeOK
  <2>2. \A q \in Procs \ {p} : ioPc'[q] = "idle"
    BY <2>1, AloneInLpc
  <2>3. Slotwise(p)' /\ Probing(p)'
    <3>1. ~(\E s \in S!Slots : s < 1)
      BY LpcDrivers
    <3> QED
      BY <2>1, <3>1 DEF Slotwise, Probing, ProbingGpio, AtGpio, S!Nowhere
  <2>4. \A q \in Procs : Looking(q)'
    BY <2>1, <2>2, <2>3 DEF Looking
  <2> QED
    BY <1>0, <2>1, <2>4 DEF LpcInv
<1>5. ASSUME NEW p \in Procs, S!Release(p) \/ S!Crash(p) PROVE LpcInv'
  <2>1. /\ ioPc[p] # "idle" /\ ioPc'[p] = "idle" /\ UNCHANGED <<chip, open>>
        /\ \A q \in Procs \ {p} : ioPc'[q] = ioPc[q]
    BY <1>0, <1>5 DEF S!Release, S!Crash, S!Goto, S!chipVars, S!gpioVars, S!TypeOK
  <2>2. \A q \in Procs : ioPc'[q] = "idle"
    BY <2>1, AloneInLpc
  <2> QED
    BY <1>0, <2>1, <2>2 DEF LpcInv, Looking
<1>6. ASSUME NEW p \in Procs, S!Detect(p) PROVE LpcInv'
  <2>1. \A q \in Procs : Looking(q)'
    <3>1. \A q \in Procs \ {p} : Looking(q)'
      BY <1>2, <1>6 DEF Looking
    <3> QED
      BY <1>3, <1>6, <3>1
  <2> QED
    BY <1>0, <1>2, <1>6, <2>1 DEF LpcInv
<1> QED
  BY <1>1, <1>4, <1>5, <1>6 DEF S!Next

\* It holds at the start, an ITE chip on 0x4E being the only one that may be open.
LEMMA LpcInit == S!Init => LpcInv
<1> SUFFICES ASSUME S!Init PROVE LpcInv
  OBVIOUS
<1>1. S!Nowhere \in S!FoundKind /\ 1 \in S!Slots
  BY LpcDrivers DEF S!Nowhere, S!Makers, S!FoundKind
<1>2. chip \in [S!Slots -> S!ChipKind]
  BY ChipsAssumption DEF S!Init
<1>3. open \in [S!Slots -> BOOLEAN] /\ \A s \in S!Slots : open[s] => chip[s].maker # "none"
  BY DEF S!Init
<1>4. S!TypeOK
  BY CrashAssumption, <1>1, <1>2, <1>3 DEF S!Init, S!TypeOK, S!Places
<1> QED
  BY <1>3, <1>4 DEF S!Init, LpcInv, Looking

\* Every variable of the search stays in its type.
THEOREM LpcTypeCorrect == S!Spec => []S!TypeOK
<1>1. LpcInv => S!TypeOK
  BY DEF LpcInv
<1> QED
  BY <1>1, LpcInit, LpcStep, PTL DEF S!Spec

\* A process that has looked through the slots has found the chips that are there, by
\* their own driver, with the monitor's address and unlocked, wherever others ended and
\* whatever device they had selected; not claimed of ITE chips on 0x4E (lpc.c:24-60).
THEOREM ChipsAreFound == S!Spec => []FoundWhatIsThere
<1>1. LpcInv => FoundWhatIsThere
  BY DEF LpcInv, Looking, Slotwise, Solved, Exempt, FoundWhatIsThere, S!FoundWhatIsThere
<1> QED
  BY <1>1, LpcInit, LpcStep, PTL DEF S!Spec

\* It has also closed every chip but an ITE chip on 0x4E, those included that others have
\* left open (the exits of detect_fintek, detect_winbond, detect_nuvoton, detect_ite).
THEOREM ChipsAreClosed == S!Spec => []ConfigurationClosed
<1>1. LpcInv => ConfigurationClosed
  BY DEF LpcInv, Looking, Slotwise, Shut, Exempt, ConfigurationClosed, S!ConfigurationClosed
<1> QED
  BY <1>1, LpcInit, LpcStep, PTL DEF S!Spec

=================================================================================
