---------------------------- MODULE SpdPagingProofs ----------------------------
(****************************************************************************)
(* Proofs about SpdPaging.  For every board, any processes, crashes, faults *)
(* and waits given up: the variables keep their types, and page selections  *)
(* write to page registers only.  The pages themselves and the recognised   *)
(* types depend on which modules are fitted: those theorems state what they *)
(* need of the board as their hypotheses (NoHubs, OneKind, VoltageIsNoPage). *)
(****************************************************************************)
EXTENDS SpdPaging, TLAPS

\* What HubPages and DDR4 have in common: pages to be read.
LEMMA PagesTyping == \A proto \in {"DDR4", "DDR5"} : Pages[proto] \subseteq Page
<1>1. Pages["DDR4"] = {0, 1} /\ Pages["DDR5"] = HubPages
  BY DEF Pages
<1>2. {0, 1} \subseteq Page
  BY DEF Page
<1> QED
  BY <1>1, <1>2, HubPagesAssumption, Zenon

\* Page 0 is a page of both kinds.
LEMMA HomePage == 0 \in Pages["DDR4"] /\ 0 \in Pages["DDR5"]
  BY HubPagesAssumption DEF Pages

\* A type read is one of those the switch of SM_GetSpd tells apart, and only a module with
\* pages says that it has them.
LEMMA TypeMeans ==
    ASSUME NEW s \in Slot, NEW half \in {"low", "high"}
    PROVE  /\ TypeAt(s, half) \in {"DDR4", "DDR5", "flat", "unknown", "other"}
           /\ TypeAt(s, half) \in {"DDR4", "DDR5"} => Module(s) = TypeAt(s, half)
  BY ModuleAssumption, Byte130Assumption DEF TypeAt

----------------------------------------------------------------------------
(* How an operation goes on.                                                *)

\* Starting and finishing an operation keep a process well-formed.
LEMMA RestTyping == ASSUME NEW me \in Process PROVE AtRest(me) \in Process /\ Started \in Process
<1>1. Started \in Process
  BY LastSlotAssumption DEF Process, Started, Slot, Page
<1>2. /\ me.page \in Page \cup {Unset} /\ me.addr \in Slot \cup {Unset}
      /\ me.inited \in BOOLEAN /\ me.hot \in [Slot -> {"none", "DDR4", "DDR5"}]
  BY DEF Process
<1> QED
  BY <1>1, <1>2 DEF AtRest, Process

\* A process at another slot, and one at the end of a round.
NextAt(me, s, to) == [me EXCEPT !.slot = s, !.pc = to, !.proto = "none", !.want = 0,
                                !.form = "none", !.ok = TRUE]
EndedAt(me, s, to) == [me EXCEPT !.slot = s, !.pc = to, !.proto = "none", !.inited = TRUE]

\* They are well-formed if the process was.
LEMMA MoveTyping ==
    ASSUME NEW me \in Process, NEW s \in Slot, NEW to \in {"wait", "quick", "poll"}
    PROVE  NextAt(me, s, to) \in Process /\ EndedAt(me, s, to) \in Process
<1> DEFINE Place == {"idle", "wait", "quick", "set4", "type4", "mr11", "set5", "type5", "plain", "set",
                     "read", "home", "raw", "release", "tsset", "tsread", "temp", "poll"}
           Op == {"none", "spd", "sensors"}
           Kind == {"none", "DDR4", "DDR5"}
           Form == {"none", "DDR4", "DDR5", "flat", "unknown", "other"}
           none == "none"
           Hot == [Slot -> Kind]
           Addr == Slot \cup {Unset}
           Last == Page \cup {Unset}
<1>1. Process = [pc : Place, op : Op, slot : Slot, proto : Kind, want : Page, form : Form,
                 ok : BOOLEAN, page : Last, addr : Addr, inited : BOOLEAN, hot : Hot]
  BY DEF Process
<1>2. to \in Place /\ none \in Kind /\ none \in Form /\ 0 \in Page
  BY DEF Page
<1> HIDE DEF Place, Op, Kind, Form, none, Hot, Addr, Last
<1>3. [me EXCEPT !.slot = s, !.pc = to, !.proto = none, !.want = 0, !.form = none, !.ok = TRUE] \in Process
  BY <1>1, <1>2
<1>4. [me EXCEPT !.slot = s, !.pc = to, !.proto = none, !.inited = TRUE] \in Process
  BY <1>1, <1>2
<1> QED
  BY <1>3, <1>4 DEF none, NextAt, EndedAt

\* Going on to the next slot keeps a process well-formed.
LEMMA NextSlotTyping == ASSUME NEW me \in Process PROVE NextSlot(me) \in Process
<1>1. CASE me.slot < LastSlot
  <2> DEFINE to == IF me.op = "spd" THEN "wait" ELSE "quick"
  <2>1. me.slot + 1 \in Slot /\ to \in {"wait", "quick", "poll"}
    BY <1>1, LastSlotAssumption DEF Process, Slot
  <2>2. NextSlot(me) = NextAt(me, me.slot + 1, to)
    BY <1>1 DEF NextSlot, NextAt
  <2> QED
    BY <2>1, <2>2, MoveTyping
<1>2. CASE ~(me.slot < LastSlot) /\ me.op = "spd"
  BY <1>2, RestTyping DEF NextSlot
<1>3. CASE ~(me.slot < LastSlot) /\ me.op # "spd"
  <2>1. 0 \in Slot
    BY LastSlotAssumption DEF Slot
  <2>2. NextSlot(me) = EndedAt(me, 0, "poll")
    BY <1>3 DEF NextSlot, EndedAt
  <2> QED
    BY <2>1, <2>2, MoveTyping
<1> QED
  BY <1>1, <1>2, <1>3

\* Giving up a slot keeps a process well-formed.
LEMMA FailTyping == ASSUME NEW me \in Process PROVE Fail(me) \in Process
  BY DEF Fail, Process

\* Recording the type of a module keeps a process well-formed.
LEMMA DetectedTyping ==
    ASSUME NEW me \in Process, NEW branch \in {"none", "DDR4", "DDR5"}, NEW type
    PROVE  Detected(me, branch, type) \in Process
<1>1. [me EXCEPT !.pc = "tsset", !.proto = branch] \in Process
  BY DEF Process
<1>2. [me EXCEPT !.pc = "raw"] \in Process
  BY DEF Process
<1>3. type \in {"DDR4", "DDR5"} => [me EXCEPT !.pc = "set", !.proto = type] \in Process
  BY DEF Process
<1>4. Fail(me) \in Process
  BY FailTyping
<1> HIDE DEF Process
<1> QED
  BY <1>1, <1>2, <1>3, <1>4 DEF Detected

\* Going on where no type was found keeps a process well-formed.
LEMMA UndetectedTyping == ASSUME NEW me \in Process PROVE Undetected(me) \in Process
<1>1. CASE me.op = "spd"
  BY <1>1 DEF Undetected, Process
<1> QED
  BY <1>1, NextSlotTyping DEF Undetected

\* The pages still to be read have a first one.
LEMMA LeastPage ==
    ASSUME NEW proto \in {"DDR4", "DDR5"}, NEW from, { n \in Pages[proto] : n > from } # {}
    PROVE  LET later == { n \in Pages[proto] : n > from }
               least == CHOOSE n \in later : \A k \in later : n <= k
           IN  least \in later /\ least \in Page
<1> DEFINE later == { n \in Pages[proto] : n > from }
           least == CHOOSE n \in later : \A k \in later : n <= k
<1>1. later \subseteq 0..7
  BY PagesTyping DEF Page
<1>2. \E n \in later : \A k \in later : n <= k
  <2> HIDE DEF later
  <2>1. later # {}
    BY DEF later
  <2>2. PICK n \in later : TRUE
    BY <2>1
  <2>3. \/ 0 \in later \/ 1 \in later \/ 2 \in later \/ 3 \in later
        \/ 4 \in later \/ 5 \in later \/ 6 \in later \/ 7 \in later
    BY <1>1, <2>2
  <2> QED
    BY <1>1, <2>3
<1>3. least \in later
  BY <1>2
<1> QED
  BY <1>3, <1>1 DEF Page

----------------------------------------------------------------------------
(* What a process is in the middle of.                                      *)

\* Pages are selected for a report only, of a module that has them; what a process
\* takes for a DDR4 or DDR5 module is one, whatever failed.
Shape(me) ==
    /\ me.pc = "idle" <=> me.op = "none"
    /\ me.pc \in {"plain", "raw", "set", "read", "home", "temp"} => me.op = "spd"
    /\ me.pc = "poll" => me.op # "spd"
    /\ me.want # 0 => me.op = "spd" /\ me.pc \in {"set", "read", "home", "release"}
    /\ me.pc \in {"set", "read", "home"} =>
          /\ me.proto \in {"DDR4", "DDR5"} /\ me.want \in Pages[me.proto]
          /\ Module(me.slot) = me.proto
    /\ me.pc \in {"tsset", "tsread", "temp"} => me.proto \in {"DDR4", "DDR5"}
    /\ me.op # "spd" => me.form = "none"
    /\ me.form \in {"DDR4", "DDR5"} => Module(me.slot) = me.form

Good(me) == me \in Process /\ Shape(me)

\* A process that starts or is done selects no pages.
LEMMA RestGood == ASSUME NEW me, Good(me) PROVE Good(AtRest(me)) /\ Good(Started)
  BY RestTyping DEF Good, Shape, AtRest, Started

\* The next slot starts without a form.
LEMMA NextSlotGood == ASSUME NEW me, Good(me), me.pc # "idle" PROVE Good(NextSlot(me))
<1>1. NextSlot(me) \in Process
  BY NextSlotTyping DEF Good
<1>2. CASE me.slot < LastSlot
  BY <1>1, <1>2 DEF NextSlot, Good, Shape, Process
<1>3. CASE ~(me.slot < LastSlot) /\ me.op = "spd"
  BY <1>3, RestGood DEF NextSlot
<1>4. CASE ~(me.slot < LastSlot) /\ me.op # "spd"
  BY <1>1, <1>4 DEF NextSlot, Good, Shape, Process
<1> QED
  BY <1>2, <1>3, <1>4

\* A slot given up asks for no page.
LEMMA FailGood == ASSUME NEW me, Good(me), me.pc # "idle" PROVE Good(Fail(me))
<1>1. /\ Fail(me).pc = "release" /\ Fail(me).op = me.op /\ Fail(me).want = me.want
      /\ Fail(me).form = me.form /\ Fail(me).slot = me.slot
  BY DEF Fail, Good, Process
<1> QED
  BY <1>1, FailTyping DEF Good, Shape

\* A detected module is read by pages only if its type has pages.
LEMMA DetectedGood ==
    ASSUME NEW me, Good(me), me.want = 0, me.pc # "idle",
           NEW branch \in {"none", "DDR4", "DDR5"}, branch = "none" => me.op = "spd", NEW type,
           type \in {"DDR4", "DDR5"} => Module(me.slot) = type
    PROVE  Good(Detected(me, branch, type))
<1>1. Detected(me, branch, type) \in Process
  BY DetectedTyping DEF Good
<1>2. 0 \in Pages["DDR4"] /\ 0 \in Pages["DDR5"]
  BY HomePage
<1> SUFFICES Shape(Detected(me, branch, type))
  BY <1>1 DEF Good
<1> DEFINE after == Detected(me, branch, type)
<1>0. Shape(me) /\ me \in Process
  BY DEF Good
<1>3. CASE me.op = "sensors"
  <2>1. /\ after.pc = "tsset" /\ after.proto = branch /\ after.want = 0
        /\ after.op = me.op /\ after.form = me.form /\ after.slot = me.slot
    BY <1>0, <1>3 DEF Detected, Process
  <2> HIDE DEF after
  <2>3. Shape(after)
    BY <1>0, <1>3, <2>1 DEF Shape
  <2> QED
    BY <2>3 DEF after
<1>4. CASE me.op # "sensors" /\ type = "unknown"
  BY <1>4, FailGood DEF Detected, Good
<1>5. CASE me.op # "sensors" /\ type \in {"DDR4", "DDR5"}
  <2>1. /\ after.pc = "set" /\ after.proto = type /\ after.want = 0
        /\ after.op = me.op /\ after.form = me.form /\ after.slot = me.slot
    BY <1>0, <1>5 DEF Detected, Process
  <2> HIDE DEF after
  <2>2. me.op = "spd"
    BY <1>0, <1>5 DEF Shape, Process
  <2>3. Shape(after)
    BY <1>0, <1>2, <1>5, <2>1, <2>2 DEF Shape
  <2> QED
    BY <2>3 DEF after
<1>6. CASE me.op # "sensors" /\ type \notin {"DDR4", "DDR5", "unknown"}
  <2>1. /\ after.pc = "raw" /\ after.want = 0
        /\ after.op = me.op /\ after.form = me.form /\ after.slot = me.slot
    BY <1>0, <1>6 DEF Detected, Process
  <2> HIDE DEF after
  <2>2. me.op = "spd"
    BY <1>0, <1>6 DEF Shape, Process
  <2>3. Shape(after)
    BY <1>0, <2>1, <2>2 DEF Shape
  <2> QED
    BY <2>3 DEF after
<1> QED
  BY <1>3, <1>4, <1>5, <1>6

\* Where no type was found, one page is read.
LEMMA UndetectedGood == ASSUME NEW me, Good(me), me.want = 0, me.pc # "idle" PROVE Good(Undetected(me))
<1>1. Undetected(me) \in Process
  BY UndetectedTyping DEF Good
<1>2. CASE me.op = "spd"
  BY <1>2 DEF Undetected, Good, Shape, Process
<1> QED
  BY <1>1, <1>2, NextSlotGood DEF Undetected, Good

\* The next offset asks for a page of the module's type.
LEMMA AdvanceGood == ASSUME NEW me, Good(me), me.pc = "read" PROVE Good(Advance(me))
<1> DEFINE later == { n \in Pages[me.proto] : n > me.want }
           least == CHOOSE n \in later : \A k \in later : n <= k
<1>1. me.proto \in {"DDR4", "DDR5"} /\ me.op = "spd"
  BY DEF Good, Shape
<1>2. CASE later = {}
  BY <1>1, <1>2 DEF Advance, Good, Shape, Process
<1>3. CASE later # {}
  <2>1. least \in later /\ least \in Page
    BY <1>1, <1>3, LeastPage
  <2>2. Advance(me) = [me EXCEPT !.pc = "set", !.want = least]
    BY <1>3 DEF Advance
  <2>3. least \in Pages[me.proto]
    BY <2>1
  <2> HIDE DEF least, later
  <2>4. [me EXCEPT !.pc = "set", !.want = least] \in Process
    BY <2>1 DEF Good, Process
  <2> QED
    BY <1>1, <2>2, <2>3, <2>4 DEF Good, Shape, Process
<1> QED
  BY <1>2, <1>3

----------------------------------------------------------------------------
(* The types.                                                               *)

IInv == TypeOK /\ \A p \in Procs : Good(proc[p])

\* One process moves.
LEMMA Moved ==
    ASSUME IInv, NEW p \in Procs, NEW me, Good(me), Become(p, me)
    PROVE  proc' \in [Procs -> Process] /\ \A q \in Procs : Good(proc'[q])
  BY DEF IInv, TypeOK, Become, Good

\* A transaction counts one fault at most.
LEMMA OutcomeTyping ==
    ASSUME TypeOK, NEW answered \in BOOLEAN, NEW ok \in BOOLEAN, Outcome(answered, ok)
    PROVE  /\ faults' \in 0..MaxFaults /\ (faults' = 0 => faults = 0)
           /\ faults' = faults => (answered => ok)
  BY BusAssumption DEF TypeOK, Outcome

\* A selection leaves every page register at a page.
LEMMA SetPageTyping ==
    ASSUME TypeOK, NEW p \in Procs, NEW proto \in {"DDR4", "DDR5"}, NEW n \in Pages[proto],
           NEW ok \in BOOLEAN, SetPage(p, proto, n, ok)
    PROVE  /\ page4' \in {0, 1} /\ reg11' \in [Slot -> Page] /\ faults' \in 0..MaxFaults
           /\ disturbed' \subseteq Procs
           /\ faults' = 0 => faults = 0
           /\ faults' = faults /\ proto = "DDR4" /\ AnyDDR4 => ok
<1>1. n \in Page /\ (proto = "DDR4" => n \in {0, 1})
  BY PagesTyping DEF Pages
<1>2. proc[p].slot \in Slot
  BY DEF TypeOK, Process
<1>5. disturbed' \subseteq Procs
  BY DEF SetPage, Disturbs, TypeOK
<1>3. CASE proto = "DDR4"
  <2>1. SetDDR4Page(p, n, ok)
    BY <1>3 DEF SetPage
  <2>2. AnyDDR4 \in BOOLEAN
    BY DEF AnyDDR4
  <2>3. CASE Redundant(proc[p], n)
    BY <1>5, <2>1, <2>3 DEF SetDDR4Page, TypeOK
  <2>4. CASE ~Redundant(proc[p], n)
    <3>1. Outcome(AnyDDR4, ok) /\ UNCHANGED reg11
          /\ page4' \in (IF ok THEN {} ELSE {page4}) \cup (IF AnyDDR4 THEN {n} ELSE {})
      BY <2>1, <2>4 DEF SetDDR4Page
    <3> QED
      BY <1>1, <1>3, <1>5, <2>2, <3>1, OutcomeTyping DEF TypeOK
  <2> QED
    BY <2>3, <2>4
<1>4. CASE proto = "DDR5"
  <2> DEFINE s == proc[p].slot
             reached == Present(s) /\ ~(Module(s) = "DDR4" /\ page4 = 1)
  <2>1. SetDDR5Page(p, n, ok)
    BY <1>4 DEF SetPage
  <2>2. Present(s) \in BOOLEAN
    BY DEF Present
  <2>3. CASE Redundant(proc[p], n)
    BY <1>4, <1>5, <2>1, <2>3 DEF SetDDR5Page, TypeOK
  <2>4. CASE ~Redundant(proc[p], n)
    <3>1. Outcome(Present(s), ok) /\ UNCHANGED page4
          /\ reg11' \in (IF ok /\ reached THEN {} ELSE {reg11})
                          \cup (IF reached THEN {[reg11 EXCEPT ![s] = n]} ELSE {})
      BY <2>1, <2>4 DEF SetDDR5Page
    <3>2. reg11' = reg11 \/ reg11' = [reg11 EXCEPT ![s] = n]
      BY <3>1
    <3> QED
      BY <1>1, <1>2, <1>4, <1>5, <2>2, <3>1, <3>2, OutcomeTyping DEF TypeOK
  <2> QED
    BY <2>3, <2>4
<1> QED
  BY <1>3, <1>4

\* A step of one transaction that changes nothing but the place.
LEMMA GoesGood ==
    ASSUME NEW me, Good(me), me.want = 0, me.pc # "idle",
           NEW to \in {"quick", "set4", "type4", "mr11", "type5", "tsread", "temp", "release"},
           to \in {"tsread", "temp"} => me.proto \in {"DDR4", "DDR5"},
           to = "temp" => me.op = "spd"
    PROVE  Good([me EXCEPT !.pc = to])
  BY DEF Good, Shape, Process

\* What every step does to the process that takes it.
LEMMA ProcessStep ==
    ASSUME IInv, NEW p \in Procs, Step(p)
    PROVE  proc' \in [Procs -> Process] /\ \A q \in Procs : Good(proc'[q])
<1> DEFINE me == proc[p]
<1>0. Good(me) /\ me.slot \in Slot
  BY DEF IInv, Good, Process
<1> SUFFICES \E after : Good(after) /\ Become(p, after)
  BY Moved
<1>1. ASSUME NEW op \in Ops(p), Begin(p, op) PROVE Good([me EXCEPT !.pc = "wait", !.op = op])
  BY <1>0, <1>1, OpsAssumption DEF Begin, Good, Shape, Process
<1>2. CASE Wait(p)
  <2>1. Good([me EXCEPT !.pc = IF me.op = "sensors" /\ me.inited THEN "poll" ELSE "quick"])
    BY <1>0, <1>2 DEF Wait, Good, Shape, Process
  <2> QED
    BY <1>2, <2>1 DEF Wait
<1>3. CASE Quick(p) \/ Set4(p)
  <2>1. me.want = 0 /\ me.pc # "idle"
    BY <1>0, <1>3 DEF Quick, Set4, Good, Shape
  <2>2. \A to \in {"set4", "mr11", "type4"} : Good([me EXCEPT !.pc = to])
    BY <1>0, <2>1, GoesGood
  <2> QED
    BY <1>3, <2>2 DEF Quick, Set4
<1>4. CASE Type4(p)
  <2>1. me.want = 0 /\ me.pc # "idle"
    BY <1>0, <1>4 DEF Type4, Good, Shape
  <2>2. Good([me EXCEPT !.pc = "mr11"])
    BY <1>0, <2>1, GoesGood
  <2>3. Good(Detected(me, "DDR4", TypeAt(me.slot, "low")))
    BY <1>0, <2>1, TypeMeans, DetectedGood
  <2> QED
    BY <1>4, <2>2, <2>3 DEF Type4
<1>5. CASE ReadMR11(p)
  <2>1. me.want = 0 /\ me.pc # "idle"
    BY <1>0, <1>5 DEF ReadMR11, Good, Shape
  <2>2. ReadReg11(me.slot) \in Page
    BY <1>0 DEF ReadReg11, IInv, TypeOK, Page
  <2>3. Good([me EXCEPT !.pc = "set5", !.page = ReadReg11(me.slot), !.addr = me.slot])
    <3> DEFINE after == [me EXCEPT !.pc = "set5", !.page = ReadReg11(me.slot), !.addr = me.slot]
    <3>1. after \in Process
      BY <1>0, <2>2 DEF Good, Process
    <3>2. /\ after.pc = "set5" /\ after.want = 0
          /\ after.op = me.op /\ after.form = me.form /\ after.slot = me.slot
      BY <1>0, <2>1 DEF Good, Process
    <3>3. Shape(me)
      BY <1>0 DEF Good
    <3> HIDE DEF after
    <3>4. Shape(after)
      BY <2>1, <3>2, <3>3 DEF Shape
    <3> QED
      BY <3>1, <3>4 DEF after, Good
  <2>4. Good(Undetected(me))
    BY <1>0, <2>1, UndetectedGood
  <2> QED
    BY <1>5, <2>3, <2>4 DEF ReadMR11
<1>6. CASE Set5(p)
  <2>1. me.want = 0 /\ me.pc # "idle"
    BY <1>0, <1>6 DEF Set5, Good, Shape
  <2>2. Good([me EXCEPT !.pc = "type5"]) /\ Good(Undetected(me))
    BY <1>0, <2>1, GoesGood, UndetectedGood
  <2> QED
    BY <1>6, <2>2 DEF Set5
<1>7. CASE Type5(p)
  <2>1. me.want = 0 /\ me.pc # "idle"
    BY <1>0, <1>7 DEF Type5, Good, Shape
  <2>2. Good(Detected(me, "DDR5", TypeAt(me.slot, "high"))) /\ Good(Undetected(me))
    BY <1>0, <2>1, TypeMeans, DetectedGood, UndetectedGood
  <2> QED
    BY <1>7, <2>2 DEF Type5
<1>8. CASE Plain(p)
  <2>1. me.want = 0 /\ me.pc # "idle" /\ me.op = "spd"
    BY <1>0, <1>8 DEF Plain, Good, Shape
  <2>2. Good(Detected(me, "none", TypeAt(me.slot, "low"))) /\ Good(Fail(me))
    BY <1>0, <2>1, TypeMeans, DetectedGood, FailGood
  <2> QED
    BY <1>8, <2>2 DEF Plain
<1>9. CASE Select(p)
  <2>1. Good([me EXCEPT !.pc = "read"])
    BY <1>0, <1>9 DEF Select, Good, Shape, Process
  <2>2. Good(Fail(me))
    BY <1>0, <1>9, FailGood DEF Select
  <2> QED
    BY <1>9, <2>1, <2>2 DEF Select
<1>10. CASE Read(p)
  <2> DEFINE half == IF me.proto = "DDR5" THEN "high" ELSE "low"
             got == IF me.want = 0 THEN [me EXCEPT !.form = TypeAt(me.slot, half)] ELSE me
  <2>1. me.pc = "read"
    BY <1>10 DEF Read
  <2>2. Good(got) /\ got.pc = "read"
    BY <1>0, <2>1, TypeMeans DEF Good, Shape, Process
  <2>3. Good([got EXCEPT !.pc = "set"])
    <3> HIDE DEF got
    <3> QED
      BY <2>2 DEF Good, Shape, Process
  <2>4. Good(Advance(got)) /\ Good(Fail(me))
    BY <1>0, <2>1, <2>2, AdvanceGood, FailGood
  <2> QED
    BY <1>10, <2>3, <2>4 DEF Read
<1>11. CASE Home(p)
  <2>1. Good([me EXCEPT !.pc = "release"])
    BY <1>0, <1>11 DEF Home, Good, Shape, Process
  <2> QED
    BY <1>11, <2>1 DEF Home
<1>12. CASE RawRead(p)
  <2>1. Good([me EXCEPT !.pc = "release", !.form = TypeAt(me.slot, "low")])
    <3> DEFINE after == [me EXCEPT !.pc = "release", !.form = TypeAt(me.slot, "low")]
    <3>1. after \in Process
      BY <1>0, TypeMeans DEF Good, Process
    <3>2. /\ after.pc = "release" /\ after.form = TypeAt(me.slot, "low")
          /\ after.op = me.op /\ after.want = me.want /\ after.slot = me.slot
      BY <1>0 DEF Good, Process
    <3>3. Shape(me) /\ me.pc = "raw"
      BY <1>0, <1>12 DEF Good, RawRead
    <3>4. TypeAt(me.slot, "low") \in {"DDR4", "DDR5"} => Module(me.slot) = TypeAt(me.slot, "low")
      BY <1>0, TypeMeans
    <3> HIDE DEF after
    <3>5. Shape(after)
      BY <3>2, <3>3, <3>4 DEF Shape
    <3> QED
      BY <3>1, <3>5 DEF after, Good
  <2>2. Good(Fail(me))
    BY <1>0, <1>12, FailGood DEF RawRead
  <2> QED
    BY <1>12, <2>1, <2>2 DEF RawRead
<1>13. CASE Release(p)
  <2>1. Good(AtRest(me))
    BY <1>0, RestGood
  <2>2. me.op # "sensors" /\ me.form \in {"DDR4", "DDR5"} =>
          Good([me EXCEPT !.pc = "tsset", !.proto = me.form, !.want = 0])
    <3> SUFFICES ASSUME me.form \in {"DDR4", "DDR5"}
                 PROVE  Good([me EXCEPT !.pc = "tsset", !.proto = me.form, !.want = 0])
      OBVIOUS
    <3>1. me.op = "spd"
      BY <1>0 DEF Good, Shape
    <3>2. [me EXCEPT !.pc = "tsset", !.proto = me.form, !.want = 0] \in Process
      <4>1. 0 \in Page
        BY DEF Page
      <4> QED
        BY <1>0, <4>1 DEF Good, Process
    <3> QED
      BY <1>0, <3>1, <3>2 DEF Good, Shape, Process
  <2>3. Good(NextSlot(me))
    BY <1>0, <1>13, NextSlotGood DEF Release
  <2> QED
    BY <1>13, <2>1, <2>2, <2>3 DEF Release
<1>14. CASE SensorSelect(p) \/ Temperature(p)
  <2>1. me.want = 0 /\ me.pc # "idle" /\ me.proto \in {"DDR4", "DDR5"}
    BY <1>0, <1>14 DEF SensorSelect, Temperature, Good, Shape
  <2>2. Good([me EXCEPT !.pc = "tsread"]) /\ Good(NextSlot(me))
    BY <1>0, <2>1, GoesGood, NextSlotGood
  <2> QED
    BY <1>14, <2>2 DEF SensorSelect, Temperature
<1>15. CASE SensorRead(p)
  <2> DEFINE hotter == [me EXCEPT !.hot[me.slot] = me.proto]
  <2>1. me.want = 0 /\ me.pc = "tsread" /\ me.proto \in {"DDR4", "DDR5"}
    BY <1>0, <1>15 DEF SensorRead, Good, Shape
  <2>2. Good(hotter) /\ hotter.pc = "tsread"
    BY <1>0, <2>1 DEF Good, Shape, Process
  <2>3. Good(NextSlot(hotter)) /\ Good(NextSlot(me)) /\ (me.op = "spd" => Good([me EXCEPT !.pc = "temp"]))
    BY <1>0, <2>1, <2>2, GoesGood, NextSlotGood
  <2> QED
    BY <1>15, <2>3 DEF SensorRead
<1>16. CASE Poll(p)
  <2>1. me.pc = "poll" /\ me.want = 0 /\ me.form = "none"
    BY <1>0, <1>16 DEF Poll, Good, Shape
  <2>2. me.slot < LastSlot => me.slot + 1 \in Slot
    BY <1>0, LastSlotAssumption DEF Slot
  <2>3. me.slot < LastSlot => Good([me EXCEPT !.slot = @ + 1])
    BY <1>0, <2>1, <2>2 DEF Good, Shape, Process
  <2>4. Good([me EXCEPT !.pc = "release"])
    BY <1>0, <2>1, GoesGood
  <2> QED
    BY <1>16, <2>3, <2>4 DEF Poll
<1>17. CASE Restart(p)
  BY <1>0, <1>17, RestGood DEF Restart
<1> QED
  BY <1>1, <1>2, <1>3, <1>4, <1>5, <1>6, <1>7, <1>8, <1>9, <1>10, <1>11, <1>12, <1>13, <1>14, <1>15, <1>16, <1>17 DEF Step, Begin

\* What every step does to the bus.
Bus ==
    /\ owner \in Procs \cup {Free} /\ page4 \in {0, 1} /\ reg11 \in [Slot -> Page]
    /\ crashes \in 0..MaxCrashes /\ faults \in 0..MaxFaults /\ timeouts \in 0..MaxTimeouts
    /\ late \subseteq Procs /\ disturbed \subseteq Procs

\* No step takes a page, a count or the owner out of its range.
LEMMA BusStep ==
    ASSUME IInv, NEW p \in Procs, Step(p)
    PROVE  Bus' /\ (faults' = 0 => faults = 0)
<1> DEFINE me == proc[p]
<1>0. Bus /\ Good(me) /\ me.slot \in Slot
  BY DEF IInv, TypeOK, Bus, Good, Process
<1>1. CASE (\E op \in Ops(p) : Begin(p, op)) \/ Wait(p) \/ Release(p)
  <2>1. CASE \E op \in Ops(p) : Begin(p, op)
    BY <1>0, <2>1 DEF Begin, Bus, counts, race
  <2>2. CASE Wait(p)
    <3>1. UNCHANGED <<page4, reg11, crashes, faults, disturbed>>
      BY <2>2 DEF Wait
    <3>2. owner' \in Procs \cup {Free} /\ late' \subseteq Procs
      BY <1>0, <2>2 DEF Wait, Bus
    <3>3. timeouts' \in 0..MaxTimeouts
      BY <1>0, <2>2, BusAssumption DEF Wait, Bus
    <3> QED
      BY <1>0, <3>1, <3>2, <3>3 DEF Bus
  <2>3. CASE Release(p)
    BY <1>0, <2>3 DEF Release, Bus, counts
  <2> QED
    BY <1>1, <2>1, <2>2, <2>3
<1>2. CASE Quick(p) \/ Type4(p) \/ ReadMR11(p) \/ Type5(p) \/ Plain(p) \/ Read(p) \/ RawRead(p) \/ SensorRead(p)
  <2>1. UNCHANGED <<owner, page4, reg11, crashes, timeouts, late>> /\ disturbed' \in {disturbed, disturbed \ {p}}
    BY <1>2 DEF Quick, Type4, ReadMR11, Type5, Plain, Read, RawRead, SensorRead, counts, race
  <2>2. \E answered \in BOOLEAN, ok \in BOOLEAN : Outcome(answered, ok)
    BY <1>2 DEF Quick, Type4, ReadMR11, Type5, Plain, Read, RawRead, SensorRead, AnyDDR4, Present
  <2>3. faults' \in 0..MaxFaults /\ (faults' = 0 => faults = 0)
    BY <2>2, OutcomeTyping DEF IInv
  <2> QED
    BY <1>0, <2>1, <2>3 DEF Bus
<1>3. CASE Set4(p) \/ Set5(p) \/ Select(p) \/ Home(p) \/ SensorSelect(p) \/ Temperature(p)
  <2>1. UNCHANGED <<owner, crashes, timeouts, late>>
    BY <1>3 DEF Set4, Set5, Select, Home, SensorSelect, Temperature, counts
  <2>2. \E proto \in {"DDR4", "DDR5"} : \E n \in Pages[proto], ok \in BOOLEAN : SetPage(p, proto, n, ok)
    <3>1. CASE Set4(p) \/ Set5(p)
      BY <3>1, HomePage DEF Set4, Set5
    <3>2. CASE Select(p)
      BY <1>0, <3>2 DEF Select, Good, Shape
    <3>3. CASE Home(p) \/ SensorSelect(p) \/ Temperature(p)
      <4>1. me.proto \in {"DDR4", "DDR5"} /\ 0 \in Pages[me.proto]
        BY <1>0, <3>3, HomePage DEF Home, SensorSelect, Temperature, Good, Shape
      <4> QED
        BY <3>3, <4>1 DEF Home, SensorSelect, Temperature
    <3> QED
      BY <1>3, <3>1, <3>2, <3>3
  <2> QED
    BY <1>0, <2>1, <2>2, SetPageTyping DEF Bus, IInv
<1>4. CASE Poll(p)
  <2>1. UNCHANGED <<owner, crashes, timeouts, late>>
    BY <1>4 DEF Poll, counts
  <2>2. CASE me.hot[me.slot] = "none"
    BY <1>0, <1>4, <2>1, <2>2 DEF Poll, Bus
  <2>3. CASE me.hot[me.slot] # "none"
    <3>1. me.hot[me.slot] \in {"DDR4", "DDR5"} /\ 0 \in Pages[me.hot[me.slot]]
      BY <1>0, <2>3, HomePage DEF Good, Process
    <3>2. \E ok \in BOOLEAN : SetPage(p, me.hot[me.slot], 0, ok)
      BY <1>4, <2>3 DEF Poll
    <3> QED
      BY <1>0, <2>1, <3>1, <3>2, SetPageTyping DEF Bus, IInv
  <2> QED
    BY <2>2, <2>3
<1>5. CASE Restart(p)
  BY <1>0, <1>5, BusAssumption DEF Restart, Bus
<1> QED
  BY <1>1, <1>2, <1>3, <1>4, <1>5 DEF Step

\* IInv holds at the start.
LEMMA InitHolds == Init => IInv
<1> SUFFICES ASSUME Init PROVE IInv
  OBVIOUS
<1>1. Good(Started)
  BY LastSlotAssumption DEF Good, Shape, Process, Started, Slot, Page
<1>2. /\ reg11 \in [Slot -> Page] /\ page4 \in {0, 1}
      /\ crashes \in 0..MaxCrashes /\ faults \in 0..MaxFaults /\ timeouts \in 0..MaxTimeouts
  BY Byte11Assumption, BusAssumption DEF Init, Page
<1> QED
  BY <1>1, <1>2 DEF Init, IInv, TypeOK, Good

\* IInv is inductive: processes take ProcessStep, the board BusStep.
LEMMA Inductive == IInv /\ [Next]_vars => IInv'
<1> SUFFICES ASSUME IInv, [Next]_vars PROVE IInv'
  OBVIOUS
<1>1. CASE UNCHANGED vars
  BY <1>1 DEF vars, IInv, TypeOK
<1>2. ASSUME NEW p \in Procs, Step(p) PROVE IInv'
  BY <1>2, ProcessStep, BusStep DEF IInv, TypeOK, Bus
<1> QED
  BY <1>1, <1>2 DEF Next

\* The pages, the counts and what a process remembers and asks for stay in range: a
\* page asked for exists, also when a probe was wrong or a transaction failed.
THEOREM SpdTypeCorrect == Spec => []TypeOK
<1>1. IInv => TypeOK
  BY DEF IInv
<1> QED
  BY <1>1, InitHolds, Inductive, PTL DEF Spec

----------------------------------------------------------------------------
(* What is written.                                                         *)

\* A write of page 0 for a hub does no harm to this device, or it is known to.
Harmless(s) == Module(s) \in {"DDR5", "empty"} \/ Byte11(s) = 0 \/ Exposed(s)

\* Without faults the DDR5 functions are used where they do no harm: where there is
\* DDR4 its probe has answered first.
Sound(me) ==
    /\ me.pc \in {"set4", "type4"} => AnyDDR4
    /\ me.pc = "mr11" /\ Present(me.slot) => ~AnyDDR4
    /\ me.pc \in {"set5", "type5"} => Harmless(me.slot)
    /\ me.pc \in {"tsset", "tsread", "temp"} /\ me.proto = "DDR5" => Harmless(me.slot)
    /\ \A s \in Slot : me.hot[s] = "DDR5" => Harmless(s)

Unwritten == \A s \in Slot : Module(s) # "DDR5" /\ ~Exposed(s) => reg11[s] = Byte11(s)

Hubs == faults = 0 => Unwritten /\ \A p \in Procs : Sound(proc[p])

\* Where nothing of DDR4 is there, a device that is not a hub is without pages.
LEMMA NoDDR4 == ASSUME NEW s \in Slot, Present(s) => ~AnyDDR4 PROVE Harmless(s)
  BY ModuleAssumption DEF Harmless, Exposed, Present, AnyDDR4

\* A process that starts or is done uses no DDR5 function.
LEMMA RestSound == ASSUME NEW me \in Process, Sound(me) PROVE Sound(AtRest(me)) /\ Sound(Started)
<1>1. Sound(Started)
  BY DEF Sound, Started
<1>2. AtRest(me).hot = me.hot /\ AtRest(me).pc = "idle"
  BY DEF AtRest, Started
<1> QED
  BY <1>1, <1>2 DEF Sound

\* The next slot is used as a hub only if it was recorded as one.
LEMMA NextSlotSound == ASSUME NEW me \in Process, Sound(me) PROVE Sound(NextSlot(me))
<1>1. CASE me.slot < LastSlot
  <2>1. NextSlot(me).hot = me.hot /\ NextSlot(me).pc \in {"wait", "quick"}
    BY <1>1 DEF NextSlot, Process
  <2> QED
    BY <2>1 DEF Sound
<1>2. CASE ~(me.slot < LastSlot) /\ me.op = "spd"
  BY <1>2, RestSound DEF NextSlot
<1>3. CASE ~(me.slot < LastSlot) /\ me.op # "spd"
  <2>1. NextSlot(me).hot = me.hot /\ NextSlot(me).pc = "poll"
    BY <1>3 DEF NextSlot, Process
  <2> QED
    BY <2>1 DEF Sound
<1> QED
  BY <1>1, <1>2, <1>3

\* To a place of which nothing is required.
LEMMA GoesSound ==
    ASSUME NEW me \in Process, Sound(me),
           NEW to \in {"wait", "quick", "plain", "set", "read", "raw", "release", "poll"}
    PROVE  Sound([me EXCEPT !.pc = to])
  BY DEF Sound, Process

\* Giving up a slot uses no DDR5 function.
LEMMA FailSound == ASSUME NEW me \in Process, Sound(me) PROVE Sound(Fail(me))
  BY DEF Fail, Sound, Process

\* Going on without a type uses no DDR5 function.
LEMMA UndetectedSound == ASSUME NEW me \in Process, Sound(me) PROVE Sound(Undetected(me))
  BY GoesSound, NextSlotSound DEF Undetected

\* A module detected as a hub is one where DDR5 functions do no harm.
LEMMA DetectedSound ==
    ASSUME NEW me \in Process, Sound(me), NEW branch, NEW type, branch = "DDR5" => Harmless(me.slot)
    PROVE  Sound(Detected(me, branch, type))
<1>1. CASE me.op = "sensors"
  BY <1>1 DEF Detected, Sound, Process
<1>2. CASE me.op # "sensors" /\ type = "unknown"
  BY <1>2, FailSound DEF Detected
<1>3. CASE me.op # "sensors" /\ type \in {"DDR4", "DDR5"}
  BY <1>3 DEF Detected, Sound, Process
<1>4. CASE me.op # "sensors" /\ type \notin {"DDR4", "DDR5", "unknown"}
  BY <1>4, GoesSound DEF Detected
<1> QED
  BY <1>1, <1>2, <1>3, <1>4

\* The next offset is of the same module, read in the same way.
LEMMA AdvanceSound == ASSUME NEW me \in Process, Sound(me) PROVE Sound(Advance(me))
  BY DEF Advance, Sound, Process

\* A selection writes to a hub, or a zero where a zero is.
LEMMA SelectionHarmless ==
    ASSUME IInv, Unwritten, NEW p \in Procs, NEW proto \in {"DDR4", "DDR5"}, NEW n, NEW ok \in BOOLEAN,
           SetPage(p, proto, n, ok),
           proto = "DDR5" => Module(proc[p].slot) = "DDR5" \/ (n = 0 /\ Harmless(proc[p].slot))
    PROVE  Unwritten'
<1> DEFINE s == proc[p].slot
<1>1. s \in Slot /\ reg11 \in [Slot -> Page]
  BY DEF IInv, TypeOK, Process
<1>2. CASE proto = "DDR4"
  BY <1>2 DEF SetPage, SetDDR4Page, Unwritten
<1>3. CASE proto = "DDR5"
  <2>1. \/ reg11' = reg11
        \/ Present(s) /\ reg11' = [reg11 EXCEPT ![s] = n]
    BY <1>3 DEF SetPage, SetDDR5Page
  <2>2. CASE Module(s) = "DDR5"
    BY <1>1, <2>1, <2>2 DEF Unwritten
  <2>3. CASE Module(s) # "DDR5" /\ n = 0 /\ Harmless(s)
    BY <1>1, <2>1, <2>3 DEF Unwritten, Harmless, Present
  <2> QED
    BY <1>3, <2>2, <2>3
<1> QED
  BY <1>2, <1>3

\* What every step without a fault does to a process and to what is written.
LEMMA SoundStep ==
    ASSUME IInv, Unwritten, NEW p \in Procs, Sound(proc[p]), Step(p), faults' = faults
    PROVE  Unwritten' /\ Sound(proc'[p])
<1> DEFINE me == proc[p]
<1>0. me \in Process /\ Good(me) /\ Sound(me) /\ me.slot \in Slot /\ Unwritten /\ TypeOK
  BY DEF IInv, Good, Process
<1> SUFFICES Unwritten' /\ \E after : Sound(after) /\ Become(p, after)
  BY DEF IInv, TypeOK, Become
<1>1. CASE (\E op \in Ops(p) : Begin(p, op)) \/ Release(p) \/ Restart(p)
  <2>1. Unwritten'
    BY <1>0, <1>1 DEF Begin, Release, Restart, Unwritten
  <2>2. ASSUME NEW op \in Ops(p), Begin(p, op) PROVE Sound([me EXCEPT !.pc = "wait", !.op = op])
    BY <1>0 DEF Sound, Process
  <2>3. CASE Release(p)
    <3>1. me.form \in {"DDR4", "DDR5"} => Sound([me EXCEPT !.pc = "tsset", !.proto = me.form, !.want = 0])
      BY <1>0 DEF Good, Shape, Sound, Harmless, Process
    <3> QED
      BY <1>0, <2>1, <2>3, <3>1, RestSound, NextSlotSound DEF Release
  <2> QED
    BY <1>0, <1>1, <2>1, <2>2, <2>3, RestSound DEF Begin, Restart
<1>2. CASE Wait(p)
  <2>1. Sound([me EXCEPT !.pc = IF me.op = "sensors" /\ me.inited THEN "poll" ELSE "quick"])
    BY <1>0, GoesSound
  <2> QED
    BY <1>0, <1>2, <2>1 DEF Wait, Unwritten
<1>3. CASE Quick(p)
  <2>1. AnyDDR4 => Sound([me EXCEPT !.pc = "set4"])
    BY <1>0 DEF Sound, Process
  <2>2. ~AnyDDR4 => Sound([me EXCEPT !.pc = "mr11"])
    BY <1>0 DEF Sound, Process
  <2>3. \E ok \in BOOLEAN : (ok <=> AnyDDR4) /\ Become(p, [me EXCEPT !.pc = IF ok THEN "set4" ELSE "mr11"])
    BY <1>0, <1>3, OutcomeTyping DEF Quick, Outcome, AnyDDR4
  <2> QED
    BY <1>0, <1>3, <2>1, <2>2, <2>3 DEF Quick, Unwritten
<1>4. CASE Set4(p)
  <2>1. AnyDDR4
    BY <1>0, <1>4 DEF Set4, Sound
  <2>2. PICK ok \in BOOLEAN : SetPage(p, "DDR4", 0, ok) /\ Become(p, [me EXCEPT !.pc = IF ok THEN "type4" ELSE "mr11"])
    BY <1>4 DEF Set4
  <2>3. ok
    BY <1>0, <2>1, <2>2, HomePage, SetPageTyping
  <2>4. Sound([me EXCEPT !.pc = "type4"])
    BY <1>0, <2>1 DEF Sound, Process
  <2> QED
    BY <1>0, <2>2, <2>3, <2>4, SelectionHarmless
<1>5. CASE Type4(p)
  <2>1. Sound(Detected(me, "DDR4", TypeAt(me.slot, "low")))
    BY <1>0, DetectedSound
  <2>2. ~Present(me.slot) => Sound([me EXCEPT !.pc = "mr11"])
    BY <1>0 DEF Sound, Process
  <2>3. PICK ok \in BOOLEAN :
          /\ Outcome(Present(me.slot), ok)
          /\ Become(p, IF ok THEN Detected(me, "DDR4", TypeAt(me.slot, "low")) ELSE [me EXCEPT !.pc = "mr11"])
    BY <1>5 DEF Type4
  <2>4. Present(me.slot) => ok
    BY <1>0, <2>3, OutcomeTyping DEF Present
  <2> QED
    BY <1>0, <1>5, <2>1, <2>2, <2>3, <2>4 DEF Type4, Unwritten
<1>6. CASE ReadMR11(p)
  <2>1. PICK ok \in BOOLEAN :
          /\ Outcome(Present(me.slot), ok)
          /\ Become(p, IF ok THEN [me EXCEPT !.pc = "set5", !.page = ReadReg11(me.slot), !.addr = me.slot]
                             ELSE Undetected(me))
    BY <1>6 DEF ReadMR11
  <2>2. Harmless(me.slot)
    BY <1>0, <1>6, NoDDR4 DEF ReadMR11, Sound
  <2>3. Sound([me EXCEPT !.pc = "set5", !.page = ReadReg11(me.slot), !.addr = me.slot])
    BY <1>0, <2>2 DEF Sound, Process
  <2> QED
    BY <1>0, <1>6, <2>1, <2>3, UndetectedSound DEF ReadMR11, Unwritten
<1>7. CASE Set5(p)
  <2>1. PICK ok \in BOOLEAN :
          /\ SetPage(p, "DDR5", 0, ok)
          /\ Become(p, IF ok THEN [me EXCEPT !.pc = "type5"] ELSE Undetected(me))
    BY <1>7 DEF Set5
  <2>2. Harmless(me.slot)
    BY <1>0, <1>7 DEF Set5, Sound
  <2>3. Sound([me EXCEPT !.pc = "type5"])
    BY <1>0, <2>2 DEF Sound, Process
  <2> QED
    BY <1>0, <2>1, <2>2, <2>3, UndetectedSound, SelectionHarmless
<1>8. CASE Type5(p)
  <2>1. Harmless(me.slot)
    BY <1>0, <1>8 DEF Type5, Sound
  <2> QED
    BY <1>0, <1>8, <2>1, DetectedSound, UndetectedSound DEF Type5, Unwritten
<1>9. CASE Plain(p)
  BY <1>0, <1>9, DetectedSound, FailSound DEF Plain, Unwritten
<1>10. CASE Select(p)
  <2>1. me.proto \in {"DDR4", "DDR5"} /\ (me.proto = "DDR5" => Module(me.slot) = "DDR5")
    BY <1>0, <1>10 DEF Select, Good, Shape
  <2>2. Sound([me EXCEPT !.pc = "read"]) /\ Sound(Fail(me))
    BY <1>0, GoesSound, FailSound
  <2> QED
    BY <1>0, <1>10, <2>1, <2>2, SelectionHarmless DEF Select
<1>11. CASE Read(p)
  <2> DEFINE half == IF me.proto = "DDR5" THEN "high" ELSE "low"
             got == IF me.want = 0 THEN [me EXCEPT !.form = TypeAt(me.slot, half)] ELSE me
  <2>1. Sound(got) /\ got \in Process
    BY <1>0, TypeMeans DEF Sound, Process
  <2>2. Sound([got EXCEPT !.pc = "set"]) /\ Sound(Advance(got)) /\ Sound(Fail(me))
    BY <1>0, <2>1, GoesSound, AdvanceSound, FailSound
  <2> QED
    BY <1>0, <1>11, <2>2 DEF Read, Unwritten
<1>12. CASE Home(p)
  <2>1. me.proto \in {"DDR4", "DDR5"} /\ (me.proto = "DDR5" => Module(me.slot) = "DDR5")
    BY <1>0, <1>12 DEF Home, Good, Shape
  <2> QED
    BY <1>0, <1>12, <2>1, GoesSound, SelectionHarmless DEF Home
<1>13. CASE RawRead(p)
  <2>1. Sound([me EXCEPT !.pc = "release", !.form = TypeAt(me.slot, "low")])
    BY <1>0 DEF Sound, Process
  <2> QED
    BY <1>0, <1>13, <2>1, FailSound DEF RawRead, Unwritten
<1>14. CASE SensorSelect(p) \/ Temperature(p)
  <2>1. me.proto \in {"DDR4", "DDR5"} /\ (me.proto = "DDR5" => Harmless(me.slot))
    BY <1>0, <1>14 DEF SensorSelect, Temperature, Good, Shape, Sound
  <2>2. me.pc = "tsset" => Sound([me EXCEPT !.pc = "tsread"])
    BY <1>0 DEF Sound, Process
  <2> QED
    BY <1>0, <1>14, <2>1, <2>2, NextSlotSound, SelectionHarmless DEF SensorSelect, Temperature
<1>15. CASE SensorRead(p)
  <2> DEFINE hotter == [me EXCEPT !.hot[me.slot] = me.proto]
  <2>1. me.proto \in {"DDR4", "DDR5"} /\ (me.proto = "DDR5" => Harmless(me.slot))
    BY <1>0, <1>15 DEF SensorRead, Good, Shape, Sound
  <2>2. Sound(hotter) /\ hotter \in Process
    BY <1>0, <2>1 DEF Sound, Process
  <2>3. Sound([me EXCEPT !.pc = "temp"])
    BY <1>0, <2>1 DEF Sound, Process
  <2> QED
    BY <1>0, <1>15, <2>2, <2>3, NextSlotSound DEF SensorRead, Unwritten
<1>16. CASE Poll(p)
  <2>1. Sound([me EXCEPT !.pc = "release"]) /\ Sound([me EXCEPT !.slot = @ + 1])
    BY <1>0, <1>16, GoesSound DEF Poll, Sound, Process
  <2>2. Unwritten'
    <3>1. CASE me.hot[me.slot] = "none"
      BY <1>0, <1>16, <3>1 DEF Poll, Unwritten
    <3>2. CASE me.hot[me.slot] # "none"
      <4>1. me.hot[me.slot] \in {"DDR4", "DDR5"} /\ (me.hot[me.slot] = "DDR5" => Harmless(me.slot))
        BY <1>0, <3>2 DEF Process, Sound
      <4> QED
        BY <1>0, <1>16, <3>2, <4>1, SelectionHarmless DEF Poll
    <3> QED
      BY <3>1, <3>2
  <2> QED
    BY <1>16, <2>1, <2>2 DEF Poll
<1> QED
  BY <1>1, <1>2, <1>3, <1>4, <1>5, <1>6, <1>7, <1>8, <1>9, <1>10, <1>11, <1>12, <1>13, <1>14, <1>15, <1>16 DEF Step

\* A step is one process's.
LEMMA OthersStay ==
    ASSUME IInv, NEW p \in Procs, Step(p)
    PROVE  \A q \in Procs : q # p => proc'[q] = proc[q]
<1> SUFFICES \E me : Become(p, me)
  BY DEF IInv, TypeOK, Become
<1>1. CASE (\E op \in Ops(p) : Begin(p, op)) \/ Wait(p) \/ Quick(p) \/ Set4(p) \/ Type4(p) \/ ReadMR11(p)
  BY <1>1 DEF Begin, Wait, Quick, Set4, Type4, ReadMR11
<1>2. CASE Set5(p) \/ Type5(p) \/ Plain(p) \/ Select(p) \/ Read(p) \/ Home(p) \/ RawRead(p)
  BY <1>2 DEF Set5, Type5, Plain, Select, Read, Home, RawRead
<1>3. CASE Release(p) \/ SensorSelect(p) \/ SensorRead(p) \/ Temperature(p) \/ Poll(p) \/ Restart(p)
  BY <1>3 DEF Release, SensorSelect, SensorRead, Temperature, Poll, Restart
<1> QED
  BY <1>1, <1>2, <1>3 DEF Step

\* Given IInv, Hubs is inductive.
LEMMA HubsInductive == IInv /\ Hubs /\ [Next]_vars => Hubs'
<1> SUFFICES ASSUME IInv, Hubs, [Next]_vars PROVE Hubs'
  OBVIOUS
<1>1. CASE UNCHANGED vars
  BY <1>1 DEF vars, Hubs, Unwritten
<1>2. ASSUME NEW p \in Procs, Step(p) PROVE Hubs'
  <2> SUFFICES ASSUME faults' = 0 PROVE Unwritten' /\ \A q \in Procs : Sound(proc'[q])
    BY DEF Hubs
  <2>1. faults = 0 /\ Unwritten /\ \A q \in Procs : Sound(proc[q])
    BY <1>2, BusStep DEF Hubs
  <2> QED
    BY <1>2, <2>1, SoundStep, OthersStay
<1> QED
  BY <1>1, <1>2 DEF Next

\* What holds before and after every step does not change.
LEMMA WrittenStep ==
    IInv /\ Hubs /\ IInv' /\ Hubs' /\ [Next]_vars =>
        [faults' = 0 => \A s \in Slot : Module(s) # "DDR5" /\ ~Exposed(s) => reg11'[s] = reg11[s]]_vars
<1> SUFFICES ASSUME IInv, Hubs, Hubs', [Next]_vars, faults' = 0
             PROVE  \A s \in Slot : Module(s) # "DDR5" /\ ~Exposed(s) => reg11'[s] = reg11[s]
  OBVIOUS
<1>1. faults = 0
  BY BusStep DEF Next, vars
<1> QED
  BY <1>1 DEF Hubs, Unwritten

\* On every board, with any number of processes that end anywhere, and also when the
\* mutex is not obtained: as long as no transaction fails, page selections write to
\* the page registers of hubs and to no byte of another module, but for Exposed ones.
THEOREM OnlyHubsAreWritten == Spec => OnlyHubsWritten
<1>1. Init => Hubs
  <2> SUFFICES ASSUME Init PROVE Hubs
    OBVIOUS
  <2>1. Sound(Started)
    BY DEF Sound, Started
  <2> QED
    BY <2>1 DEF Init, Hubs, Unwritten
<1> QED
  BY <1>1, InitHolds, Inductive, HubsInductive, WrittenStep, PTL DEF Spec, OnlyHubsWritten

----------------------------------------------------------------------------
(* The mutex.                                                               *)

\* Where the bus is used under Access_SMBUS.
Inside(me) ==
    \/ me.pc \in {"quick", "set4", "type4", "mr11", "set5", "type5", "plain", "set", "read", "home",
                 "raw", "release", "poll"}
    \/ me.op = "sensors" /\ me.pc \in {"tsset", "tsread"}

MutexHeld ==
    /\ timeouts = 0 => late = {}
    /\ \A p \in Procs : Inside(proc[p]) => owner = p \/ p \in late

\* A process that gives up waiting is late until it is done; nothing else makes it late.
LEMMA LateStep ==
    ASSUME IInv, NEW p \in Procs, Step(p)
    PROVE  /\ \/ UNCHANGED <<late, timeouts>>
              \/ Wait(p) /\ late' = late \cup {p} /\ timeouts' = timeouts + 1
              \/ (Release(p) \/ Restart(p)) /\ late' = late \ {p} /\ timeouts' = timeouts
           /\ timeouts \in Nat
<1>0. timeouts \in Nat
  BY BusAssumption DEF IInv, TypeOK
<1>1. CASE \/ \E op \in Ops(p) : Begin(p, op)
           \/ Quick(p) \/ Type4(p) \/ ReadMR11(p) \/ Type5(p) \/ Plain(p) \/ Read(p) \/ RawRead(p) \/ SensorRead(p)
  BY <1>0, <1>1 DEF Begin, Quick, Type4, ReadMR11, Type5, Plain, Read, RawRead, SensorRead, counts, race
<1>2. CASE Set4(p) \/ Set5(p) \/ Select(p) \/ Home(p) \/ SensorSelect(p) \/ Temperature(p) \/ Poll(p)
  BY <1>0, <1>2 DEF Set4, Set5, Select, Home, SensorSelect, Temperature, Poll, counts
<1>3. CASE Wait(p)
  BY <1>0, <1>3 DEF Wait
<1>4. CASE Release(p) \/ Restart(p)
  BY <1>0, <1>4 DEF Release, Restart, counts
<1> QED
  BY <1>1, <1>2, <1>3, <1>4 DEF Step

\* The owner changes where the mutex is waited for, released or abandoned, and a process
\* is inside only once it is the owner or has given up.
LEMMA MutexStep ==
    ASSUME IInv, NEW p \in Procs, Step(p)
    PROVE  /\ \/ owner' = owner
              \/ owner = Free /\ owner' = p /\ proc[p].pc = "wait"
              \/ owner = p /\ owner' = Free /\ (Release(p) \/ Restart(p))
           /\ Inside(proc'[p]) => \/ owner' = p \/ p \in late'
                                  \/ UNCHANGED <<owner, late>> /\ Inside(proc[p])
<1> DEFINE me == proc[p]
<1>0. me \in Process /\ Shape(me) /\ (\A after : Become(p, after) => proc'[p] = after)
  BY DEF IInv, Good, TypeOK, Become
<1>1. ASSUME me.op = "spd" PROVE ~Inside(NextSlot(me))
  <2>1. NextSlot(me).pc \in {"wait", "idle"}
    BY <1>0, <1>1 DEF NextSlot, AtRest, Started, Process
  <2> QED
    BY <2>1 DEF Inside
<1>2. CASE Release(p)
  <2>1. me.op = "spd" \/ me.op = "sensors"
    BY <1>0, <1>2 DEF Release, Shape, Process
  <2>2. ~Inside(AtRest(me))
    BY DEF Inside, AtRest, Started
  <2>3. me.op = "spd" => ~Inside([me EXCEPT !.pc = "tsset", !.proto = me.form, !.want = 0])
    BY <1>0 DEF Inside, Process
  <2> QED
    BY <1>0, <1>1, <1>2, <2>1, <2>2, <2>3 DEF Release
<1>3. CASE Restart(p)
  BY <1>0, <1>3 DEF Restart, Inside, Started
<1>4. CASE Wait(p)
  BY <1>4 DEF Wait
<1>5. ASSUME NEW op \in Ops(p), Begin(p, op) PROVE owner' = owner /\ ~Inside(proc'[p])
  <2>1. owner' = owner /\ proc'[p] = [me EXCEPT !.pc = "wait", !.op = op]
    BY <1>0, <1>5 DEF Begin
  <2>2. [me EXCEPT !.pc = "wait", !.op = op].pc = "wait"
    BY <1>0 DEF Process
  <2> QED
    BY <2>1, <2>2 DEF Inside
<1>6. CASE Quick(p) \/ Set4(p) \/ Type4(p) \/ ReadMR11(p) \/ Set5(p) \/ Type5(p) \/ Plain(p)
           \/ Select(p) \/ Read(p) \/ Home(p) \/ RawRead(p) \/ Poll(p)
  BY <1>6 DEF Quick, Set4, Type4, ReadMR11, Set5, Type5, Plain, Select, Read, Home, RawRead, Poll, Inside,
     counts, race
<1>7. CASE SensorSelect(p) \/ SensorRead(p) \/ Temperature(p)
  <2>1. me.op = "spd" \/ (me.op = "sensors" /\ me.pc \in {"tsset", "tsread"})
    BY <1>0, <1>7 DEF SensorSelect, SensorRead, Temperature, Shape, Process
  <2>2. UNCHANGED <<owner, late>>
    BY <1>7 DEF SensorSelect, SensorRead, Temperature
  <2>3. CASE me.op = "sensors" /\ me.pc \in {"tsset", "tsread"}
    BY <2>2, <2>3 DEF Inside
  <2>4. CASE me.op = "spd"
    <3>1. ~Inside([me EXCEPT !.pc = "tsread"]) /\ ~Inside([me EXCEPT !.pc = "temp"])
      BY <1>0, <2>4 DEF Inside, Process
    <3> QED
      BY <1>0, <1>1, <1>7, <2>2, <2>4, <3>1 DEF SensorSelect, SensorRead, Temperature
  <2> QED
    BY <2>1, <2>3, <2>4
<1> QED
  BY <1>2, <1>3, <1>4, <1>5, <1>6, <1>7 DEF Step

\* Given IInv, MutexHeld is inductive.
LEMMA MutexInductive == IInv /\ MutexHeld /\ [Next]_vars => MutexHeld'
<1> SUFFICES ASSUME IInv, MutexHeld, [Next]_vars PROVE MutexHeld'
  OBVIOUS
<1>1. CASE UNCHANGED vars
  BY <1>1 DEF vars, MutexHeld
<1>2. ASSUME NEW p \in Procs, Step(p) PROVE timeouts' = 0 => late' = {}
  BY <1>2, LateStep DEF MutexHeld
<1>3. ASSUME NEW p \in Procs, Step(p), NEW q \in Procs, Inside(proc'[q]) PROVE owner' = q \/ q \in late'
  <2>1. CASE q = p
    BY <1>3, <2>1, MutexStep DEF MutexHeld
  <2>2. CASE q # p
    <3>1. owner = q \/ q \in late
      BY <1>3, <2>2, OthersStay DEF MutexHeld
    <3>2. owner = q => owner' = q
      BY <1>3, <2>2, MutexStep, FreeAssumption
    <3>3. q \in late => q \in late'
      BY <1>3, <2>2, LateStep
    <3> QED
      BY <3>1, <3>2, <3>3
  <2> QED
    BY <2>1, <2>2
<1> QED
  BY <1>1, <1>2, <1>3 DEF Next, MutexHeld

----------------------------------------------------------------------------
(* What a step selects and remembers.                                       *)

\* Only a page of a report is selected that is not page 0.
LEMMA WriteStep ==
    ASSUME IInv, NEW p \in Procs, Step(p)
    PROVE  /\ \E n \in Page :
               /\ page4' \in {page4, n}
               /\ reg11' = reg11 \/ reg11' = [reg11 EXCEPT ![proc[p].slot] = n]
               /\ n # 0 => Select(p) /\ (page4' # page4 => proc[p].proto = "DDR4" /\ n = proc[p].want)
           /\ page4' # page4 => Inside(proc[p]) \/ proc[p].op = "spd"
<1> DEFINE me == proc[p]
           Writes(n) == /\ page4' \in {page4, n}
                        /\ reg11' = reg11 \/ reg11' = [reg11 EXCEPT ![proc[p].slot] = n]
<1>0. me \in Process /\ Shape(me)
  BY DEF IInv, Good
<1>1. 0 \in Page
  BY DEF Page
<1>2. ASSUME NEW proto, NEW n, NEW ok, SetPage(p, proto, n, ok)
      PROVE  Writes(n) /\ (page4' # page4 => proto = "DDR4" /\ page4' = n)
  <2>1. CASE proto = "DDR4"
    BY <1>2, <2>1 DEF SetPage, SetDDR4Page
  <2>2. CASE proto # "DDR4"
    BY <1>2, <2>2 DEF SetPage, SetDDR5Page
  <2> QED
    BY <2>1, <2>2
<1>3. CASE \/ \E op \in Ops(p) : Begin(p, op)
           \/ Wait(p) \/ Quick(p) \/ Type4(p) \/ ReadMR11(p) \/ Type5(p) \/ Plain(p) \/ Read(p)
           \/ RawRead(p) \/ Release(p) \/ SensorRead(p) \/ Restart(p)
  <2>1. page4' = page4 /\ reg11' = reg11
    BY <1>3 DEF Begin, Wait, Quick, Type4, ReadMR11, Type5, Plain, Read, RawRead, Release, SensorRead, Restart
  <2> QED
    BY <1>1, <2>1
<1>4. CASE Set4(p) \/ Set5(p) \/ Home(p) \/ SensorSelect(p) \/ Temperature(p)
  <2>1. Writes(0)
    <3> HIDE DEF Writes
    <3> QED
      BY <1>2, <1>4 DEF Set4, Set5, Home, SensorSelect, Temperature
  <2>2. Inside(me) \/ me.op = "spd"
    BY <1>0, <1>4 DEF Set4, Set5, Home, SensorSelect, Temperature, Inside, Shape, Process
  <2> QED
    BY <1>1, <2>1, <2>2
<1>5. CASE Poll(p)
  <2>1. Writes(0)
    <3>1. CASE me.hot[me.slot] = "none"
      BY <1>5, <3>1 DEF Poll
    <3>2. CASE me.hot[me.slot] # "none"
      <4> HIDE DEF Writes
      <4> QED
        BY <1>2, <1>5, <3>2 DEF Poll
    <3> QED
      BY <3>1, <3>2
  <2>2. Inside(me)
    BY <1>5 DEF Poll, Inside
  <2> QED
    BY <1>1, <2>1, <2>2
<1>6. CASE Select(p)
  <2>1. Writes(me.want) /\ (page4' # page4 => me.proto = "DDR4" /\ page4' = me.want)
    <3> HIDE DEF Writes
    <3> QED
      BY <1>2, <1>6 DEF Select
  <2>2. Inside(me) /\ me.want \in Page
    BY <1>0, <1>6 DEF Select, Inside, Process
  <2> QED
    BY <1>6, <2>1, <2>2
<1> QED
  BY <1>3, <1>4, <1>5, <1>6 DEF Step

\* What an operation keeps of its context and of what it is.
Keeps(me, after) == after.page = me.page /\ after.addr = me.addr /\ after.op \in {me.op, "none"}

\* However an operation goes on, it keeps them.
LEMMA GoingOnKeeps ==
    ASSUME NEW me \in Process, NEW branch, NEW type
    PROVE  /\ Keeps(me, NextSlot(me)) /\ Keeps(me, Fail(me)) /\ Keeps(me, Detected(me, branch, type))
           /\ Keeps(me, Undetected(me)) /\ Keeps(me, Advance(me)) /\ Keeps(me, AtRest(me))
<1>1. Keeps(me, AtRest(me)) /\ Keeps(me, Fail(me))
  BY DEF Keeps, AtRest, Started, Fail, Process
<1>2. Keeps(me, NextSlot(me))
  BY <1>1 DEF NextSlot, Keeps, Process
<1>3. Keeps(me, Detected(me, branch, type))
  BY <1>1 DEF Detected, Keeps, Process
<1>4. Keeps(me, Undetected(me)) /\ Keeps(me, Advance(me))
  BY <1>2 DEF Undetected, Advance, Keeps, Process
<1> QED
  BY <1>1, <1>2, <1>3, <1>4

\* The context changes in the DDR5 probe and at the end of the process only, and a process
\* does what it has begun.
LEMMA MemoryStep ==
    ASSUME IInv, NEW p \in Procs, Step(p)
    PROVE  LET me == proc[p] after == proc'[p] IN
           /\ after.op \in Ops(p) \cup {"none", me.op}
           /\ \/ after.page = me.page /\ after.addr = me.addr
              \/ after.addr = Unset
              \/ /\ ReadMR11(p) /\ Present(me.slot) /\ faults' = faults
                 /\ after = [me EXCEPT !.pc = "set5", !.page = ReadReg11(me.slot), !.addr = me.slot]
<1> DEFINE me == proc[p]
<1>0. me \in Process /\ (\A after : Become(p, after) => proc'[p] = after)
  BY DEF IInv, Good, TypeOK, Become
<1> SUFFICES \/ Keeps(me, proc'[p]) \/ proc'[p] = Started
             \/ \E op \in Ops(p) : proc'[p] = [me EXCEPT !.pc = "wait", !.op = op]
             \/ /\ ReadMR11(p) /\ Present(me.slot) /\ faults' = faults
                /\ proc'[p] = [me EXCEPT !.pc = "set5", !.page = ReadReg11(me.slot), !.addr = me.slot]
  <2>1. CASE Keeps(me, proc'[p])
    BY <2>1 DEF Keeps
  <2>2. CASE proc'[p] = Started
    BY <2>2 DEF Started
  <2>3. ASSUME NEW op \in Ops(p), proc'[p] = [me EXCEPT !.pc = "wait", !.op = op]
        PROVE  proc'[p].op = op /\ proc'[p].page = me.page /\ proc'[p].addr = me.addr
    BY <1>0, <2>3 DEF Process
  <2>4. ASSUME proc'[p] = [me EXCEPT !.pc = "set5", !.page = ReadReg11(me.slot), !.addr = me.slot]
        PROVE  proc'[p].op = me.op
    BY <1>0, <2>4 DEF Process
  <2> QED
    BY <2>1, <2>2, <2>3, <2>4
<1>1. \A to : Keeps(me, [me EXCEPT !.pc = to])
  BY <1>0 DEF Keeps, Process
<1>12. /\ Keeps(me, NextSlot(me)) /\ Keeps(me, Fail(me)) /\ Keeps(me, Undetected(me))
       /\ \A branch, type : Keeps(me, Detected(me, branch, type))
  BY <1>0, GoingOnKeeps
<1>2. CASE (\E op \in Ops(p) : Begin(p, op)) \/ Restart(p)
  BY <1>0, <1>2 DEF Begin, Restart
<1>3. CASE Wait(p) \/ Quick(p) \/ Set4(p) \/ Select(p) \/ Home(p)
  <2> HIDE DEF Keeps
  <2>1. ASSUME Wait(p) \/ Home(p) PROVE Keeps(me, proc'[p])
    BY <1>0, <1>1, <2>1 DEF Wait, Home
  <2>2. ASSUME Quick(p) \/ Set4(p) PROVE Keeps(me, proc'[p])
    BY <1>0, <1>1, <2>2 DEF Quick, Set4
  <2>3. ASSUME Select(p) PROVE Keeps(me, proc'[p])
    BY <1>0, <1>1, <1>12, <2>3 DEF Select
  <2> QED
    BY <1>3, <2>1, <2>2, <2>3
<1>4. CASE Type4(p) \/ Set5(p) \/ Type5(p) \/ Plain(p)
  <2> HIDE DEF Keeps
  <2>1. ASSUME Type4(p) \/ Set5(p) PROVE Keeps(me, proc'[p])
    BY <1>0, <1>1, <1>12, <2>1 DEF Type4, Set5
  <2>2. ASSUME Type5(p) \/ Plain(p) PROVE Keeps(me, proc'[p])
    BY <1>0, <1>12, <2>2 DEF Type5, Plain
  <2> QED
    BY <1>4, <2>1, <2>2
<1>5. CASE ReadMR11(p)
  <2> HIDE DEF Keeps
  <2> QED
    BY <1>0, <1>5, <1>12 DEF ReadMR11, Outcome
<1>6. CASE Read(p)
  <2> DEFINE half == IF me.proto = "DDR5" THEN "high" ELSE "low"
             got == IF me.want = 0 THEN [me EXCEPT !.form = TypeAt(me.slot, half)] ELSE me
  <2>1. /\ got \in Process /\ Keeps(me, got) /\ Keeps(me, [got EXCEPT !.pc = "set"])
    <3>1. me.slot \in Slot
      BY <1>0 DEF Process
    <3>2. TypeAt(me.slot, half) \in {"DDR4", "DDR5", "flat", "unknown", "other"}
      BY <3>1, TypeMeans
    <3> QED
      BY <1>0, <3>2 DEF Keeps, Process
  <2>2. Keeps(got, Advance(got)) /\ Keeps(me, Fail(me))
    BY <1>0, <2>1, GoingOnKeeps
  <2>3. Keeps(me, Advance(got))
    BY <2>1, <2>2 DEF Keeps
  <2> HIDE DEF Keeps, got
  <2>4. proc'[p] \in {[got EXCEPT !.pc = "set"], Advance(got), Fail(me)}
    BY <1>0, <1>6 DEF Read, got
  <2> QED
    BY <2>1, <2>2, <2>3, <2>4
<1>7. CASE RawRead(p)
  <2>1. Keeps(me, [me EXCEPT !.pc = "release", !.form = TypeAt(me.slot, "low")])
    BY <1>0 DEF Keeps, Process
  <2> HIDE DEF Keeps
  <2> QED
    BY <1>0, <1>7, <1>12, <2>1 DEF RawRead
<1>8. CASE Release(p)
  <2>1. Keeps(me, [me EXCEPT !.pc = "tsset", !.proto = me.form, !.want = 0])
    BY <1>0 DEF Keeps, Process
  <2> HIDE DEF Keeps
  <2> QED
    BY <1>0, <1>8, <2>1, GoingOnKeeps DEF Release
<1>9. CASE SensorSelect(p) \/ Temperature(p)
  <2> HIDE DEF Keeps
  <2>1. ASSUME SensorSelect(p) PROVE Keeps(me, proc'[p])
    BY <1>0, <1>1, <1>12, <2>1 DEF SensorSelect
  <2>2. ASSUME Temperature(p) PROVE Keeps(me, proc'[p])
    BY <1>0, <1>12, <2>2 DEF Temperature
  <2> QED
    BY <1>9, <2>1, <2>2
<1>10. CASE SensorRead(p)
  <2> DEFINE hotter == [me EXCEPT !.hot[me.slot] = me.proto]
  <2>1. hotter \in Process /\ Keeps(me, hotter)
    BY <1>0 DEF Keeps, Process
  <2>2. Keeps(hotter, NextSlot(hotter))
    BY <2>1, GoingOnKeeps
  <2>3. Keeps(me, NextSlot(hotter))
    BY <2>1, <2>2 DEF Keeps
  <2> HIDE DEF Keeps
  <2> QED
    <3> DEFINE inTemp == [me EXCEPT !.pc = "temp"]
    <3>1. PICK ok \in BOOLEAN, present \in BOOLEAN :
             Become(p, IF ok /\ present
                       THEN IF me.op = "spd" THEN inTemp ELSE NextSlot(hotter)
                       ELSE NextSlot(me))
      BY <1>10 DEF SensorRead
    <3> HIDE DEF inTemp, hotter, me
    <3>2. proc'[p] \in {inTemp, NextSlot(hotter), NextSlot(me)}
      BY <1>0, <3>1
    <3>3. Keeps(me, inTemp)
      BY <1>1 DEF inTemp, me
    <3>4. Keeps(me, NextSlot(me))
      BY <1>12 DEF me
    <3> QED
      BY <2>3, <3>2, <3>3, <3>4
<1>11. CASE Poll(p)
  <2>1. Keeps(me, [me EXCEPT !.slot = @ + 1])
    BY <1>0 DEF Keeps, Process
  <2> HIDE DEF Keeps
  <2>2. Become(p, IF me.slot < LastSlot THEN [me EXCEPT !.slot = @ + 1] ELSE [me EXCEPT !.pc = "release"])
    BY <1>11 DEF Poll
  <2> QED
    BY <1>0, <1>1, <2>1, <2>2
<1> QED
  BY <1>2, <1>3, <1>4, <1>5, <1>6, <1>7, <1>8, <1>9, <1>10, <1>11 DEF Step

----------------------------------------------------------------------------
(* Pages are restored.                                                      *)

\* Without faults nothing is remembered of a board with DDR4 modules, so no selection
\* on it is skipped.
Uncached == faults = 0 => \A p \in Procs : proc[p].addr \in Slot => ~AnyDDR4

\* Where DDR4 pages are selected one after another.
Paging(me) == me.pc \in {"set", "read", "home"} /\ me.proto = "DDR4"

\* Without faults, ended processes and waits given up, whoever leaves page 0 comes back to it.
Calm == crashes = 0 /\ faults = 0 /\ timeouts = 0 /\ page4 # 0 => \E p \in Procs : owner = p /\ Paging(proc[p])

\* A count never goes back.
LEMMA CountStep ==
    ASSUME IInv, NEW p \in Procs, Step(p)
    PROVE  /\ crashes' = crashes \/ crashes' = crashes + 1
           /\ faults' = faults \/ faults' = faults + 1
           /\ timeouts' = timeouts \/ timeouts' = timeouts + 1
           /\ crashes \in Nat /\ faults \in Nat /\ timeouts \in Nat
<1>0. /\ crashes \in Nat /\ faults \in Nat /\ timeouts \in Nat
      /\ timeouts' = timeouts \/ timeouts' = timeouts + 1
  BY LateStep, BusAssumption DEF IInv, TypeOK
<1>1. \A answered, ok : Outcome(answered, ok) => faults' = faults \/ faults' = faults + 1
  BY DEF Outcome
<1>2. \A proto, n, ok : SetPage(p, proto, n, ok) => faults' = faults \/ faults' = faults + 1
  BY <1>1 DEF SetPage, SetDDR4Page, SetDDR5Page
<1>3. CASE (\E op \in Ops(p) : Begin(p, op)) \/ Wait(p) \/ Release(p) \/ Restart(p)
  BY <1>0, <1>3 DEF Begin, Wait, Release, Restart, counts
<1>4. CASE Quick(p) \/ Type4(p) \/ ReadMR11(p) \/ Type5(p) \/ Plain(p) \/ Read(p) \/ RawRead(p) \/ SensorRead(p)
  BY <1>0, <1>1, <1>4 DEF Quick, Type4, ReadMR11, Type5, Plain, Read, RawRead, SensorRead, counts
<1>5. CASE Set4(p) \/ Set5(p) \/ Select(p) \/ Home(p) \/ SensorSelect(p) \/ Temperature(p) \/ Poll(p)
  BY <1>0, <1>2, <1>5 DEF Set4, Set5, Select, Home, SensorSelect, Temperature, Poll, counts
<1> QED
  BY <1>3, <1>4, <1>5 DEF Step

\* A DDR4 selection that is not skipped reaches every DDR4 module, or fails as a fault.
LEMMA DDR4Selected ==
    ASSUME IInv, NEW p \in Procs, NEW n, NEW ok \in BOOLEAN, SetPage(p, "DDR4", n, ok), AnyDDR4,
           ~Redundant(proc[p], n)
    PROVE  (ok => page4' = n) /\ (faults' = faults => ok) /\ reg11' = reg11
<1>1. Outcome(AnyDDR4, ok) /\ UNCHANGED reg11
      /\ page4' \in (IF ok THEN {} ELSE {page4}) \cup (IF AnyDDR4 THEN {n} ELSE {})
  BY DEF SetPage, SetDDR4Page
<1>2. faults \in Nat
  BY BusAssumption DEF IInv, TypeOK
<1> QED
  BY <1>1, <1>2 DEF Outcome

\* Given IInv and Hubs, Uncached is inductive.
LEMMA UncachedInductive == IInv /\ Hubs /\ Uncached /\ [Next]_vars => Uncached'
<1> SUFFICES ASSUME IInv, Hubs, Uncached, [Next]_vars, faults' = 0, NEW q \in Procs, proc'[q].addr \in Slot
             PROVE  ~AnyDDR4
  BY DEF Uncached
<1>1. CASE UNCHANGED vars
  BY <1>1 DEF vars, Uncached
<1>2. ASSUME NEW p \in Procs, Step(p) PROVE ~AnyDDR4
  <2>1. faults = 0
    BY <1>2, BusStep
  <2>2. CASE proc'[q].addr = proc[q].addr
    BY <2>1, <2>2 DEF Uncached
  <2>3. CASE proc'[q].addr # proc[q].addr
    <3>1. q = p
      BY <1>2, <2>3, OthersStay
    <3>2. Unset \notin Slot
      BY LastSlotAssumption DEF Unset, Slot
    <3>3. ReadMR11(p) /\ Present(proc[p].slot)
      BY <1>2, <2>3, <3>1, <3>2, MemoryStep
    <3> QED
      BY <2>1, <3>3 DEF ReadMR11, Hubs, Sound
  <2> QED
    BY <2>2, <2>3
<1> QED
  BY <1>1, <1>2 DEF Next

\* Where there is DDR4 and nothing of it is remembered, nothing is redundant.
LEMMA NotRedundant ==
    ASSUME IInv, Uncached, faults = 0, AnyDDR4, NEW p \in Procs, NEW n
    PROVE  ~Redundant(proc[p], n)
  BY DEF IInv, Good, Process, Uncached, Redundant

\* The pages of a module are left through page 0 only, unless the process ends.
LEMMA PagingStep ==
    ASSUME IInv, Uncached, NEW p \in Procs, Step(p), faults = 0, faults' = 0, crashes' = 0, Paging(proc[p])
    PROVE  owner' = owner /\ (Paging(proc'[p]) \/ page4' = 0)
<1> DEFINE me == proc[p]
<1>0. /\ me \in Process /\ Shape(me) /\ me.slot \in Slot /\ me.pc \in {"set", "read", "home"} /\ me.proto = "DDR4"
      /\ \A after : Become(p, after) => proc'[p] = after
  BY DEF IInv, Good, TypeOK, Become, Process, Paging
<1>1. AnyDDR4 /\ Present(me.slot)
  BY <1>0 DEF Shape, AnyDDR4, Present
<1>2. \A answered, ok : Outcome(answered, ok) /\ answered => ok
  BY DEF Outcome
<1>3. CASE Select(p)
  <2>1. PICK ok \in BOOLEAN :
          /\ SetPage(p, "DDR4", me.want, ok)
          /\ Become(p, IF ok THEN [me EXCEPT !.pc = "read"] ELSE Fail(me))
    BY <1>0, <1>3 DEF Select
  <2>2. ok
    BY <1>1, <2>1, NotRedundant, DDR4Selected
  <2>3. Paging(proc'[p])
    BY <1>0, <2>1, <2>2 DEF Paging, Process
  <2> QED
    BY <1>3, <2>3 DEF Select
<1>4. CASE Read(p)
  <2> DEFINE got == IF me.want = 0 THEN [me EXCEPT !.form = TypeAt(me.slot, "low")] ELSE me
  <2>1. PICK ok \in BOOLEAN :
          /\ Outcome(Present(me.slot), ok)
          /\ \/ ok /\ Become(p, [got EXCEPT !.pc = "set"])
             \/ ok /\ Become(p, Advance(got))
             \/ ~ok /\ Become(p, Fail(me))
    BY <1>0, <1>4 DEF Read
  <2>2. ok
    BY <1>1, <1>2, <2>1
  <2>3. got \in Process /\ got.proto = "DDR4"
    BY <1>0, TypeMeans DEF Process
  <2> HIDE DEF got
  <2>4. Paging([got EXCEPT !.pc = "set"]) /\ Paging(Advance(got))
    BY <2>3 DEF Paging, Advance, Process
  <2> QED
    BY <1>0, <1>4, <2>1, <2>2, <2>4 DEF Read
<1>5. CASE Home(p)
  <2>1. PICK ok \in BOOLEAN : SetPage(p, "DDR4", 0, ok)
    BY <1>0, <1>5 DEF Home
  <2>2. page4' = 0
    BY <1>1, <2>1, NotRedundant, DDR4Selected
  <2> QED
    BY <1>5, <2>2 DEF Home
<1>6. CASE Restart(p)
  <2>1. crashes' = crashes + 1
    BY <1>0, <1>6 DEF Restart
  <2> QED
    BY <1>6, <2>1, CountStep
<1>7. ~((\E op \in Ops(p) : Begin(p, op)) \/ Wait(p) \/ Quick(p) \/ Set4(p) \/ Type4(p) \/ ReadMR11(p) \/ Set5(p)
        \/ Type5(p) \/ Plain(p) \/ RawRead(p) \/ Release(p) \/ SensorSelect(p) \/ SensorRead(p)
        \/ Temperature(p) \/ Poll(p))
  BY <1>0 DEF Begin, Wait, Quick, Set4, Type4, ReadMR11, Set5, Type5, Plain, RawRead, Release, SensorSelect,
     SensorRead, Temperature, Poll
<1> QED
  BY <1>3, <1>4, <1>5, <1>6, <1>7 DEF Step

\* Given the invariants so far, Calm is inductive.
LEMMA CalmInductive == IInv /\ Uncached /\ MutexHeld /\ Calm /\ [Next]_vars => Calm'
<1> SUFFICES ASSUME IInv, Uncached, MutexHeld, Calm, [Next]_vars,
                    crashes' = 0, faults' = 0, timeouts' = 0, page4' # 0
             PROVE  \E p \in Procs : owner' = p /\ Paging(proc'[p])
  BY DEF Calm
<1>1. CASE UNCHANGED vars
  BY <1>1 DEF vars, Calm
<1>2. ASSUME NEW p \in Procs, Step(p) PROVE \E r \in Procs : owner' = r /\ Paging(proc'[r])
  <2>1. crashes = 0 /\ faults = 0 /\ timeouts = 0
    BY <1>2, CountStep
  <2>2. \E r \in Procs : owner = r /\ Paging(proc[r])
    <3>1. CASE page4 # 0
      BY <2>1, <3>1 DEF Calm
    <3>2. CASE page4 = 0
      <4>1. Select(p) /\ proc[p].proto = "DDR4"
        BY <1>2, <3>2, WriteStep
      <4> QED
        BY <2>1, <4>1 DEF Select, MutexHeld, Inside, Paging
    <3> QED
      BY <3>1, <3>2
  <2>3. PICK r \in Procs : owner = r /\ Paging(proc[r])
    BY <2>2
  <2>4. CASE r = p
    BY <1>2, <2>1, <2>3, <2>4, PagingStep
  <2>5. CASE r # p
    BY <1>2, <2>3, <2>5, OthersStay, MutexStep, FreeAssumption
  <2> QED
    BY <2>4, <2>5
<1> QED
  BY <1>1, <1>2 DEF Next

\* A board takes modules of one kind: what is said of boards without hubs.
NoHubs == \A s \in Slot : Module(s) # "DDR5"

\* All the invariants hold at the start.
LEMMA SpdInit == Init => Hubs /\ MutexHeld /\ Uncached /\ Calm
<1> SUFFICES ASSUME Init PROVE Hubs /\ MutexHeld /\ Uncached /\ Calm
  OBVIOUS
<1>1. Sound(Started) /\ ~Inside(Started) /\ Started.addr \notin Slot
  BY LastSlotAssumption DEF Sound, Inside, Started, Unset, Slot
<1> QED
  BY <1>1 DEF Init, Hubs, Unwritten, MutexHeld, Uncached, Calm

\* On every board without hubs, whoever gets Access_SMBUS finds every module at page 0, as
\* long as no process has ended in the middle of something or has given up waiting and no
\* transaction has failed.
THEOREM PagesAreRestored == ASSUME NoHubs PROVE Spec => []PagesRestored
<1> DEFINE All == IInv /\ Hubs /\ MutexHeld /\ Uncached /\ Calm
<1>1. Init => All
  BY InitHolds, SpdInit
<1>2. All /\ [Next]_vars => All'
  BY Inductive, HubsInductive, MutexInductive, UncachedInductive, CalmInductive
<1>3. All => PagesRestored
  BY FreeAssumption DEF Calm, PagesRestored, NoHubs, Selected
<1> QED
  BY <1>1, <1>2, <1>3, PTL DEF Spec

----------------------------------------------------------------------------
(* Where a step leads.                                                      *)

\* The places the operators of SpdPaging lead to.
LEMMA Places ==
    ASSUME NEW me \in Process, NEW branch, NEW type
    PROVE  /\ NextSlot(me).pc \in {"wait", "quick", "idle", "poll"} /\ Fail(me).pc = "release"
           /\ Undetected(me).pc \in {"wait", "quick", "idle", "poll", "plain"}
           /\ Undetected(me).pc = "plain" => Undetected(me).slot = me.slot
           /\ Detected(me, branch, type).pc \in {"tsset", "release", "set", "raw"}
           /\ Detected(me, branch, type).pc = "raw" =>
                 type \notin {"DDR4", "DDR5", "unknown"} /\ Detected(me, branch, type).slot = me.slot
           /\ Advance(me).pc \in {"home", "set"}
<1>1. NextSlot(me).pc \in {"wait", "quick", "idle", "poll"} /\ Fail(me).pc = "release"
  BY DEF NextSlot, AtRest, Started, Fail, Process
<1>2. /\ Undetected(me).pc \in {"wait", "quick", "idle", "poll", "plain"}
      /\ Undetected(me).pc = "plain" => Undetected(me).slot = me.slot
  BY <1>1 DEF Undetected, Process
<1>3. /\ Detected(me, branch, type).pc \in {"tsset", "release", "set", "raw"}
      /\ Detected(me, branch, type).pc = "raw" =>
            type \notin {"DDR4", "DDR5", "unknown"} /\ Detected(me, branch, type).slot = me.slot
  BY <1>1 DEF Detected, Process
<1>4. Advance(me).pc \in {"home", "set"}
  BY DEF Advance, Process
<1> QED
  BY <1>1, <1>2, <1>3, <1>4

\* Where the bytes of a module are read follows a selection that has succeeded, where the
\* DDR5 probe begins the DDR4 probe has not, and where a type was told one was read.
Arrives(p, me, after) ==
    /\ after.pc = "type4" => me.pc = "set4" /\ SetPage(p, "DDR4", 0, TRUE)
    /\ after.pc = "mr11" =>
          /\ after = [me EXCEPT !.pc = "mr11"] /\ UNCHANGED reg11
          /\ \/ me.pc = "quick" /\ Outcome(AnyDDR4, FALSE) /\ UNCHANGED page4
             \/ me.pc = "set4" /\ SetPage(p, "DDR4", 0, FALSE)
             \/ me.pc = "type4" /\ Outcome(Present(me.slot), FALSE) /\ UNCHANGED page4
    /\ after.pc = "set5" =>
          /\ me.pc = "mr11" /\ Present(me.slot) /\ UNCHANGED <<reg11, faults>>
          /\ after = [me EXCEPT !.pc = "set5", !.page = ReadReg11(me.slot), !.addr = me.slot]
    /\ after.pc = "type5" =>
          me.pc = "set5" /\ SetPage(p, "DDR5", 0, TRUE) /\ after = [me EXCEPT !.pc = "type5"]
    /\ after.pc = "plain" =>
          /\ after.slot = me.slot
          /\ \/ me.pc \in {"mr11", "type5"} /\ Outcome(Present(me.slot), FALSE)
             \/ me.pc = "set5" /\ SetPage(p, "DDR5", 0, FALSE)
    /\ after.pc = "raw" =>
          /\ after.slot = me.slot /\ Present(me.slot)
          /\ \E half \in {"low", "high"} : /\ TypeAt(me.slot, half) \notin {"DDR4", "DDR5", "unknown"}
                                           /\ me.pc = "type4" => half = "low"
                                           /\ me.pc = "type5" => half = "high"
          /\ me.pc \in {"type4", "type5", "plain"}
    /\ after.pc = "read" =>
          me.pc = "set" /\ SetPage(p, me.proto, me.want, TRUE) /\ after = [me EXCEPT !.pc = "read"]
    /\ after.pc = "tsread" =>
          me.pc = "tsset" /\ SetPage(p, me.proto, 0, TRUE) /\ after = [me EXCEPT !.pc = "tsread"]

\* Every step leads to such a place as Arrives says, or to another one.
LEMMA ArrivalStep == ASSUME IInv, NEW p \in Procs, Step(p) PROVE Arrives(p, proc[p], proc'[p])
<1> DEFINE me == proc[p]
           after == proc'[p]
           Others == {"idle", "wait", "quick", "set4", "set", "home", "release", "tsset", "temp", "poll"}
<1>0. me \in Process /\ me.slot \in Slot /\ (\A new : Become(p, new) => after = new)
  BY DEF IInv, Good, TypeOK, Become, Process
<1>1. /\ NextSlot(me).pc \in Others /\ Fail(me).pc \in Others
      /\ Undetected(me).pc \in Others \cup {"plain"} /\ (Undetected(me).pc = "plain" => Undetected(me).slot = me.slot)
  BY <1>0, Places
<1>2. \A to : [me EXCEPT !.pc = to].pc = to
  BY <1>0 DEF Process
<1>3. after.pc \in Others => Arrives(p, me, after)
  BY DEF Arrives
<1>4. CASE (\E op \in Ops(p) : Begin(p, op)) \/ Wait(p) \/ Restart(p) \/ Home(p) \/ Poll(p)
  <2>1. ASSUME (\E op \in Ops(p) : Begin(p, op)) \/ Restart(p) PROVE after.pc \in Others
    <3>1. ASSUME NEW op \in Ops(p), Begin(p, op) PROVE after.pc = "wait"
      <4>1. after = [me EXCEPT !.pc = "wait", !.op = op]
        BY <1>0, <3>1 DEF Begin
      <4> QED
        BY <1>0, <4>1 DEF Process
    <3>2. ASSUME Restart(p) PROVE after.pc = "idle"
      BY <1>0, <3>2 DEF Restart, Started
    <3> QED
      BY <2>1, <3>1, <3>2
  <2>2. ASSUME Wait(p) \/ Home(p) PROVE after.pc \in Others
    <3>1. ASSUME Wait(p) PROVE after.pc = IF me.op = "sensors" /\ me.inited THEN "poll" ELSE "quick"
      BY <1>0, <1>2, <3>1 DEF Wait
    <3>2. ASSUME Home(p) PROVE after.pc = "release"
      BY <1>0, <1>2, <3>2 DEF Home
    <3> QED
      BY <2>2, <3>1, <3>2
  <2>3. ASSUME Poll(p) PROVE after.pc \in Others
    <3>1. me.pc = "poll" /\ after \in {[me EXCEPT !.slot = @ + 1], [me EXCEPT !.pc = "release"]}
      BY <1>0, <2>3 DEF Poll
    <3>2. me.pc = "poll" => [me EXCEPT !.slot = @ + 1].pc = "poll"
      BY <1>0 DEF Process
    <3> QED
      BY <1>2, <3>1, <3>2
  <2> QED
    BY <1>3, <1>4, <2>1, <2>2, <2>3
<1>5. CASE Quick(p) \/ Set4(p)
  <2>1. CASE Quick(p)
    <3>1. \/ after.pc \in Others
          \/ after = [me EXCEPT !.pc = "mr11"] /\ after.pc = "mr11" /\ Outcome(AnyDDR4, FALSE)
      BY <1>0, <1>2, <2>1 DEF Quick
    <3> QED
      BY <1>3, <2>1, <3>1 DEF Quick, Arrives
  <2>2. CASE Set4(p)
    <3>1. \/ after.pc = "type4" /\ SetPage(p, "DDR4", 0, TRUE)
          \/ after = [me EXCEPT !.pc = "mr11"] /\ after.pc = "mr11" /\ SetPage(p, "DDR4", 0, FALSE)
      BY <1>0, <1>2, <2>2 DEF Set4
    <3>2. SetPage(p, "DDR4", 0, FALSE) => UNCHANGED reg11
      BY DEF SetPage, SetDDR4Page
    <3> QED
      BY <2>2, <3>1, <3>2 DEF Set4, Arrives
  <2> QED
    BY <1>5, <2>1, <2>2
<1>6. CASE Type4(p)
  <2>1. \/ after = Detected(me, "DDR4", TypeAt(me.slot, "low")) /\ Outcome(Present(me.slot), TRUE)
        \/ after = [me EXCEPT !.pc = "mr11"] /\ after.pc = "mr11" /\ Outcome(Present(me.slot), FALSE)
    BY <1>0, <1>2, <1>6 DEF Type4
  <2>2. Outcome(Present(me.slot), TRUE) => Present(me.slot)
    BY DEF Outcome
  <2>3. LET found == Detected(me, "DDR4", TypeAt(me.slot, "low")) IN
        /\ found.pc \in Others \cup {"raw"}
        /\ found.pc = "raw" => TypeAt(me.slot, "low") \notin {"DDR4", "DDR5", "unknown"} /\ found.slot = me.slot
    BY <1>0, Places
  <2> QED
    BY <1>1, <1>6, <2>1, <2>2, <2>3 DEF Type4, Arrives
<1>7. CASE ReadMR11(p)
  <2>1. \/ /\ after = [me EXCEPT !.pc = "set5", !.page = ReadReg11(me.slot), !.addr = me.slot]
           /\ Outcome(Present(me.slot), TRUE)
        \/ after = Undetected(me) /\ Outcome(Present(me.slot), FALSE)
    BY <1>0, <1>7 DEF ReadMR11
  <2>2. Outcome(Present(me.slot), TRUE) => Present(me.slot) /\ UNCHANGED faults
    BY DEF Outcome
  <2>3. [me EXCEPT !.pc = "set5", !.page = ReadReg11(me.slot), !.addr = me.slot].pc = "set5"
    BY <1>0 DEF Process
  <2> QED
    BY <1>1, <1>7, <2>1, <2>2, <2>3 DEF ReadMR11, Arrives
<1>8. CASE Set5(p)
  <2>1. \/ after = [me EXCEPT !.pc = "type5"] /\ after.pc = "type5" /\ SetPage(p, "DDR5", 0, TRUE)
        \/ after = Undetected(me) /\ SetPage(p, "DDR5", 0, FALSE)
    BY <1>0, <1>2, <1>8 DEF Set5
  <2> QED
    BY <1>1, <1>8, <2>1 DEF Set5, Arrives
<1>9. CASE Type5(p)
  <2>1. \/ after = Detected(me, "DDR5", TypeAt(me.slot, "high")) /\ Outcome(Present(me.slot), TRUE)
        \/ after = Undetected(me) /\ Outcome(Present(me.slot), FALSE)
    BY <1>0, <1>9 DEF Type5
  <2>2. Outcome(Present(me.slot), TRUE) => Present(me.slot)
    BY DEF Outcome
  <2>3. LET found == Detected(me, "DDR5", TypeAt(me.slot, "high")) IN
        /\ found.pc \in Others \cup {"raw"}
        /\ found.pc = "raw" => TypeAt(me.slot, "high") \notin {"DDR4", "DDR5", "unknown"} /\ found.slot = me.slot
    BY <1>0, Places
  <2> QED
    BY <1>1, <1>9, <2>1, <2>2, <2>3 DEF Type5, Arrives
<1>10. CASE Plain(p)
  <2>1. \/ after = Detected(me, "none", TypeAt(me.slot, "low")) /\ Outcome(Present(me.slot), TRUE)
        \/ after = Fail(me)
    BY <1>0, <1>10 DEF Plain
  <2>2. Outcome(Present(me.slot), TRUE) => Present(me.slot)
    BY DEF Outcome
  <2>3. LET found == Detected(me, "none", TypeAt(me.slot, "low")) IN
        /\ found.pc \in Others \cup {"raw"}
        /\ found.pc = "raw" => TypeAt(me.slot, "low") \notin {"DDR4", "DDR5", "unknown"} /\ found.slot = me.slot
    BY <1>0, Places
  <2> QED
    BY <1>1, <1>10, <2>1, <2>2, <2>3 DEF Plain, Arrives
<1>11. CASE Select(p)
  <2>1. \/ after = [me EXCEPT !.pc = "read"] /\ after.pc = "read" /\ SetPage(p, me.proto, me.want, TRUE)
        \/ after = Fail(me)
    BY <1>0, <1>2, <1>11 DEF Select
  <2> QED
    BY <1>1, <1>11, <2>1 DEF Select, Arrives
<1>12. CASE Read(p) \/ RawRead(p)
  <2> DEFINE half == IF me.proto = "DDR5" THEN "high" ELSE "low"
             got == IF me.want = 0 THEN [me EXCEPT !.form = TypeAt(me.slot, half)] ELSE me
  <2>1. got \in Process
    BY <1>0, TypeMeans DEF Process
  <2>2. [got EXCEPT !.pc = "set"].pc = "set" /\ Advance(got).pc \in Others
    BY <2>1, Places DEF Process
  <2>3. [me EXCEPT !.pc = "release", !.form = TypeAt(me.slot, "low")].pc = "release"
    BY <1>0 DEF Process
  <2> HIDE DEF got
  <2>4. after \in {[got EXCEPT !.pc = "set"], Advance(got), Fail(me),
                   [me EXCEPT !.pc = "release", !.form = TypeAt(me.slot, "low")]}
    BY <1>0, <1>12 DEF Read, RawRead, got
  <2>5. after.pc \in Others
    BY <1>1, <2>2, <2>3, <2>4
  <2> QED
    BY <1>3, <2>5
<1>13. CASE Release(p)
  <2>1. /\ AtRest(me).pc = "idle"
        /\ [me EXCEPT !.pc = "tsset", !.proto = me.form, !.want = 0].pc = "tsset"
    BY <1>0 DEF AtRest, Started, Process
  <2>2. after.pc \in Others
    BY <1>0, <1>1, <1>13, <2>1 DEF Release
  <2> QED
    BY <1>3, <2>2
<1>14. CASE SensorSelect(p)
  <2>1. \/ after = [me EXCEPT !.pc = "tsread"] /\ after.pc = "tsread" /\ SetPage(p, me.proto, 0, TRUE)
        \/ after = NextSlot(me)
    BY <1>0, <1>2, <1>14 DEF SensorSelect
  <2> QED
    BY <1>1, <1>14, <2>1 DEF SensorSelect, Arrives
<1>15. CASE SensorRead(p) \/ Temperature(p)
  <2> DEFINE hotter == [me EXCEPT !.hot[me.slot] = me.proto]
  <2>1. ASSUME SensorRead(p) PROVE after.pc \in Others
    <3>1. me.proto \in {"DDR4", "DDR5"}
      BY <2>1 DEF SensorRead, IInv, Good, Shape
    <3>2. hotter \in Process
      BY <1>0, <3>1 DEF Process
    <3>3. NextSlot(hotter).pc \in Others
      BY <3>2, Places
    <3> HIDE DEF hotter
    <3>4. after \in {[me EXCEPT !.pc = "temp"], NextSlot(hotter), NextSlot(me)}
      BY <1>0, <2>1 DEF SensorRead, hotter
    <3>5. [me EXCEPT !.pc = "temp"].pc = "temp"
      BY <1>2
    <3> QED
      BY <1>1, <3>3, <3>4, <3>5
  <2>2. ASSUME Temperature(p) PROVE after.pc \in Others
    BY <1>0, <1>1, <2>2 DEF Temperature
  <2>3. after.pc \in Others
    BY <1>15, <2>1, <2>2
  <2> QED
    BY <1>3, <2>3
<1> QED
  BY <1>4, <1>5, <1>6, <1>7, <1>8, <1>9, <1>10, <1>11, <1>12, <1>13, <1>14, <1>15 DEF Step

----------------------------------------------------------------------------
(* Modules are recognised.                                                  *)

\* What a probe without faults knows of the module it is about: DDR4 modules show page 0
\* where their type is read, and so do hubs; what is left has no pages or is not there.
Told(me) ==
    /\ me.pc = "type4" => page4 = 0
    /\ me.pc \in {"set5", "type5"} => ~AnyDDR4 /\ Present(me.slot)
    /\ me.pc = "set5" /\ Module(me.slot) = "DDR5" =>
          me.addr = me.slot /\ (me.page = reg11[me.slot] \/ reg11[me.slot] = 0)
    /\ me.pc = "type5" /\ Module(me.slot) = "DDR5" => reg11[me.slot] = 0
    /\ me.pc = "plain" => ~Present(me.slot)
    /\ me.pc = "raw" => Module(me.slot) = "flat"

Telling == faults = 0 /\ timeouts = 0 => \A p \in Procs : Told(proc[p])

\* A board takes modules of one kind.
OneKind == AnyDDR4 => \A s \in Slot : Module(s) # "DDR5"

\* Another process selects page 0 at most while the mutex is held.
LEMMA ToldToOthers ==
    ASSUME IInv, MutexHeld, timeouts = 0, NEW p \in Procs, Step(p), NEW q \in Procs, q # p, Told(proc[q])
    PROVE  Told(proc[q])'
<1> DEFINE you == proc[q]
<1>0. proc'[q] = you /\ you.slot \in Slot /\ reg11 \in [Slot -> Page] /\ proc[p].slot \in Slot
  BY OthersStay DEF IInv, TypeOK, Process
<1>1. CASE you.pc \in {"type4", "set5", "type5"}
  <2>1. ~Select(p)
    BY <1>1 DEF Select, MutexHeld, Inside
  <2>2. PICK n \in Page : /\ page4' \in {page4, n}
                          /\ reg11' = reg11 \/ reg11' = [reg11 EXCEPT ![proc[p].slot] = n]
                          /\ n = 0
    BY <2>1, WriteStep
  <2>3. /\ page4 = 0 => page4' = 0
        /\ reg11'[you.slot] \in {reg11[you.slot], 0}
    BY <1>0, <2>2
  <2> QED
    BY <1>0, <1>1, <2>3 DEF Told
<1>2. CASE you.pc \notin {"type4", "set5", "type5"}
  BY <1>0, <1>2 DEF Told
<1> QED
  BY <1>1, <1>2

\* A probe goes on with what it has found.
LEMMA ToldToSelf ==
    ASSUME OneKind, IInv, Hubs, Uncached, NEW p \in Procs, Step(p), Told(proc[p]), faults = 0, faults' = 0
    PROVE  Told(proc[p])'
<1> DEFINE me == proc[p]
           after == proc'[p]
<1>0. /\ me \in Process /\ me.slot \in Slot /\ Sound(me) /\ reg11 \in [Slot -> Page]
      /\ Module(me.slot) \in {"DDR4", "DDR5", "flat", "empty"}
      /\ Arrives(p, me, after)
  BY ArrivalStep, ModuleAssumption DEF IInv, Good, TypeOK, Process, Hubs
<1>1. \A answered, ok : Outcome(answered, ok) /\ answered => ok
  BY DEF Outcome
<1>2. after.pc = "type4" => page4' = 0
  BY <1>0, NotRedundant, DDR4Selected DEF Arrives, Sound
<1>3. ASSUME after.pc = "set5"
      PROVE  /\ ~AnyDDR4 /\ Present(after.slot)
             /\ Module(after.slot) = "DDR5" => after.addr = after.slot /\ after.page = reg11'[after.slot]
  <2>1. /\ me.pc = "mr11" /\ Present(me.slot) /\ UNCHANGED reg11
        /\ after = [me EXCEPT !.pc = "set5", !.page = ReadReg11(me.slot), !.addr = me.slot]
    BY <1>0, <1>3 DEF Arrives
  <2>2. after.slot = me.slot /\ after.addr = me.slot /\ after.page = ReadReg11(me.slot)
    BY <1>0, <2>1 DEF Process
  <2> QED
    BY <1>0, <2>1, <2>2 DEF Sound, ReadReg11
<1>4. ASSUME after.pc = "type5"
      PROVE  /\ ~AnyDDR4 /\ Present(after.slot)
             /\ Module(after.slot) = "DDR5" => reg11'[after.slot] = 0
  <2>1. me.pc = "set5" /\ SetPage(p, "DDR5", 0, TRUE) /\ after.slot = me.slot
    BY <1>0, <1>4 DEF Arrives, Process
  <2>2. ASSUME Module(me.slot) = "DDR5" PROVE reg11'[me.slot] = 0
    <3>1. CASE Redundant(me, 0)
      BY <2>1, <2>2, <3>1 DEF SetPage, SetDDR5Page, Redundant, Told
    <3>2. CASE ~Redundant(me, 0)
      <4>1. reg11' = [reg11 EXCEPT ![me.slot] = 0]
        BY <2>1, <2>2, <3>2 DEF SetPage, SetDDR5Page, Present
      <4> QED
        BY <1>0, <4>1
    <3> QED
      BY <3>1, <3>2
  <2> QED
    BY <2>1, <2>2 DEF Told
<1>5. ASSUME after.pc = "plain" PROVE ~Present(after.slot)
  <2>1. SetPage(p, "DDR5", 0, FALSE) => Outcome(Present(me.slot), FALSE)
    BY DEF SetPage, SetDDR5Page
  <2> QED
    BY <1>0, <1>1, <1>5, <2>1 DEF Arrives
<1>6. ASSUME after.pc = "raw" PROVE Module(after.slot) = "flat"
  <2>1. /\ after.slot = me.slot /\ Present(me.slot) /\ me.pc \in {"type4", "type5", "plain"}
    BY <1>0, <1>6 DEF Arrives
  <2>2. PICK half : /\ TypeAt(me.slot, half) \notin {"DDR4", "DDR5"}
                    /\ me.pc = "type4" => half = "low"
                    /\ me.pc = "type5" => half = "high"
    BY <1>0, <1>6 DEF Arrives
  <2>3. CASE me.pc = "type4"
    <3>1. Module(me.slot) # "DDR5"
      BY <1>0, <2>3 DEF Sound, OneKind
    <3>2. Module(me.slot) # "DDR4"
      BY <2>2, <2>3 DEF Told, TypeAt
    <3> QED
      BY <1>0, <2>1, <3>1, <3>2 DEF Present
  <2>4. CASE me.pc = "type5"
    <3>1. Module(me.slot) # "DDR4"
      BY <1>0, <2>4 DEF Told, AnyDDR4
    <3>2. Module(me.slot) # "DDR5"
      BY <2>2, <2>4 DEF Told, TypeAt
    <3> QED
      BY <1>0, <2>1, <3>1, <3>2 DEF Present
  <2>5. CASE me.pc = "plain"
    BY <2>1, <2>5 DEF Told
  <2> QED
    BY <2>1, <2>3, <2>4, <2>5
<1> QED
  BY <1>2, <1>3, <1>4, <1>5, <1>6 DEF Told

\* Given the invariants so far, Telling is inductive.
LEMMA TellingInductive ==
    ASSUME OneKind PROVE IInv /\ Hubs /\ Uncached /\ MutexHeld /\ Telling /\ [Next]_vars => Telling'
<1> SUFFICES ASSUME IInv, Hubs, Uncached, MutexHeld, Telling, [Next]_vars, faults' = 0, timeouts' = 0, NEW q \in Procs
             PROVE  Told(proc[q])'
  BY DEF Telling
<1>1. CASE UNCHANGED vars
  BY <1>1 DEF vars, Telling, Told
<1>2. ASSUME NEW p \in Procs, Step(p) PROVE Told(proc[q])'
  <2>1. faults = 0 /\ timeouts = 0 /\ \A r \in Procs : Told(proc[r])
    BY <1>2, CountStep DEF Telling
  <2>2. CASE q = p
    BY <1>2, <2>1, <2>2, ToldToSelf
  <2>3. CASE q # p
    BY <1>2, <2>1, <2>3, ToldToOthers
  <2> QED
    BY <2>2, <2>3
<1> QED
  BY <1>1, <1>2 DEF Next

\* On every board that takes modules of one kind, with any number of processes that end
\* anywhere: as long as no transaction fails and no wait is given up, the bytes of a DDR4
\* or DDR5 module are never read without selecting pages.
THEOREM ModulesAreRecognised == ASSUME OneKind PROVE Spec => []Recognised
<1> DEFINE All == IInv /\ Hubs /\ MutexHeld /\ Uncached /\ Telling
<1>1. Init => All
  <2>1. Started.pc = "idle"
    BY DEF Started
  <2>2. Init => Telling
    BY <2>1 DEF Init, Telling, Told
  <2> QED
    BY <2>2, InitHolds, SpdInit
<1>2. All /\ [Next]_vars => All'
  BY Inductive, HubsInductive, MutexInductive, UncachedInductive, TellingInductive
<1>3. All => Recognised
  BY DEF Telling, Told, Recognised
<1> QED
  BY <1>1, <1>2, <1>3, PTL DEF Spec

----------------------------------------------------------------------------
(* The page that is read.                                                   *)

\* Byte 11 of a DDR4 module, its nominal voltage, is no number of a page.
VoltageIsNoPage == \A s \in Slot : Module(s) = "DDR4" => Byte11(s) \notin {0, 1}

\* A context that takes a DDR4 module for one it knows remembers another page of it.
Apart(me) == me.addr \in Slot /\ Module(me.addr) = "DDR4" => me.page \notin {0, 1}

\* The first failed transaction misleads one probe, about a board that is still at page 0
\* and as it was.
Culprit ==
    crashes = 0 /\ faults = 1 /\ timeouts = 0 =>
        \A p \in Procs :
            /\ Apart(proc[p])
            /\ proc[p].pc = "mr11" /\ Module(proc[p].slot) = "DDR4" =>
                  page4 = 0 /\ Unwritten /\ \A q \in Procs : q # p => Sound(proc[q])

\* What RightPage needs of DDR4 modules.
Right(me) ==
    /\ me.pc = "read" /\ me.proto = "DDR4" => page4 = me.want
    /\ me.pc = "tsread" /\ me.proto = "DDR4" /\ Module(me.slot) = "DDR4" => page4 = 0

Claimed == faults = 0 \/ crashes + faults + timeouts = 1

Reading == Claimed => \A p \in Procs \ disturbed : Right(proc[p])

\* A DDR4 module that answers its own probe is not asked as a hub.
LEMMA NoProbe ==
    ASSUME IInv, NEW p \in Procs, Sound(proc[p]), proc[p].pc = "mr11"
    PROVE  Module(proc[p].slot) # "DDR4"
  BY DEF IInv, Good, Process, Sound, AnyDDR4, Present

\* What a DDR4 module at page 0 says of its page is its byte 11.
LEMMA ApartInductive ==
    ASSUME VoltageIsNoPage, NoHubs, IInv, Hubs, Uncached, Culprit, [Next]_vars, crashes' = 0, faults' = 1,
           timeouts' = 0, NEW q \in Procs
    PROVE  Apart(proc'[q])
<1>1. CASE UNCHANGED vars
  BY <1>1 DEF vars, Culprit
<1>2. ASSUME NEW p \in Procs, Step(p) PROVE Apart(proc'[q])
  <2>1. crashes = 0 /\ faults \in {0, 1} /\ timeouts = 0
    BY <1>2, CountStep
  <2>2. Unset \notin Slot
    BY LastSlotAssumption DEF Unset, Slot
  <2>3. Apart(proc[q])
    BY <2>1 DEF Culprit, Uncached, Apart, AnyDDR4
  <2>4. CASE proc'[q].page = proc[q].page /\ proc'[q].addr = proc[q].addr
    BY <2>3, <2>4 DEF Apart
  <2>5. CASE proc'[q].addr = Unset
    BY <2>2, <2>5 DEF Apart
  <2>6. ASSUME q = p, ReadMR11(p), Present(proc[p].slot), faults' = faults,
               proc'[p] = [proc[p] EXCEPT !.pc = "set5", !.page = ReadReg11(proc[p].slot), !.addr = proc[p].slot]
        PROVE  Apart(proc'[q])
    <3> DEFINE me == proc[p]
    <3>1. me \in Process /\ me.slot \in Slot /\ me.pc = "mr11" /\ faults = 1
      BY <2>1, <2>6 DEF IInv, Good, Process, ReadMR11
    <3>2. proc'[p].page = ReadReg11(me.slot) /\ proc'[p].addr = me.slot
      BY <2>6, <3>1 DEF Process
    <3>3. Module(me.slot) = "DDR4" => page4 = 0 /\ Unwritten
      BY <2>1, <3>1 DEF Culprit
    <3>4. Module(me.slot) = "DDR4" => ReadReg11(me.slot) = Byte11(me.slot)
      BY <3>1, <3>3 DEF Unwritten, Exposed, ReadReg11
    <3> QED
      BY <2>6, <3>1, <3>2, <3>4 DEF Apart, VoltageIsNoPage
  <2> QED
    BY <1>2, <2>4, <2>5, <2>6, OthersStay, MemoryStep
<1> QED
  BY <1>1, <1>2 DEF Next

\* Where nobody selects pages the board stays at page 0.
LEMMA PageZeroStays ==
    ASSUME IInv, MutexHeld, timeouts = 0, NEW p \in Procs, Step(p), page4 = 0,
           NEW q \in Procs, Inside(proc[q]), proc[q].pc # "set"
    PROVE  page4' = 0
<1>1. ~Select(p)
  BY DEF Select, MutexHeld, Inside
<1> QED
  BY <1>1, WriteStep

\* Given the invariants so far, Culprit is inductive.
LEMMA CulpritInductive ==
    ASSUME VoltageIsNoPage, NoHubs
    PROVE  IInv /\ Hubs /\ Uncached /\ MutexHeld /\ Calm /\ Culprit /\ [Next]_vars => Culprit'
<1> SUFFICES ASSUME IInv, Hubs, Uncached, MutexHeld, Calm, Culprit, [Next]_vars, crashes' = 0, faults' = 1,
                    timeouts' = 0, NEW r \in Procs, proc'[r].pc = "mr11", Module(proc'[r].slot) = "DDR4"
             PROVE  page4' = 0 /\ Unwritten' /\ \A q \in Procs : q # r => Sound(proc'[q])
  BY ApartInductive DEF Culprit
<1>1. CASE UNCHANGED vars
  BY <1>1 DEF vars, Culprit, Unwritten
<1>2. ASSUME NEW p \in Procs, Step(p) PROVE page4' = 0 /\ Unwritten' /\ \A q \in Procs : q # r => Sound(proc'[q])
  <2>1. crashes = 0 /\ faults \in {0, 1} /\ timeouts = 0 /\ proc[r] \in Process /\ proc[r].slot \in Slot
    BY <1>2, CountStep DEF IInv, Good, Process
  <2>2. CASE r = p
    <3> DEFINE me == proc[p]
    <3>1. Arrives(p, me, proc'[p])
      BY <1>2, ArrivalStep
    <3>2. /\ UNCHANGED reg11 /\ proc'[p].slot = me.slot /\ me.pc \in {"quick", "set4", "type4"}
          /\ \/ Outcome(AnyDDR4, FALSE) /\ UNCHANGED page4
             \/ SetPage(p, "DDR4", 0, FALSE)
             \/ Outcome(Present(me.slot), FALSE) /\ UNCHANGED page4
      BY <2>1, <2>2, <3>1 DEF Arrives, Process
    <3>3. AnyDDR4 /\ Present(me.slot)
      BY <2>1, <2>2, <3>2 DEF AnyDDR4, Present
    <3>4. faults = 0
      <4>1. SetPage(p, "DDR4", 0, FALSE) => Outcome(AnyDDR4, FALSE)
        BY DEF SetPage, SetDDR4Page
      <4>2. Outcome(AnyDDR4, FALSE) \/ Outcome(Present(me.slot), FALSE)
        BY <3>2, <4>1, Zenon
      <4>3. faults' = faults + 1
        BY <3>3, <4>2 DEF Outcome
      <4> QED
        BY <2>1, <4>3
    <3>5. Unwritten /\ \A q \in Procs : Sound(proc[q])
      BY <3>4 DEF Hubs
    <3>6. page4 = 0
      <4>1. owner = p /\ ~Paging(me)
        BY <2>1, <3>2 DEF MutexHeld, Inside, Paging
      <4> QED
        BY <2>1, <3>4, <4>1 DEF Calm
    <3>7. page4' = 0
      BY <1>2, <2>1, <2>2, <3>2, <3>6, PageZeroStays DEF Inside
    <3> QED
      BY <1>2, <2>2, <3>2, <3>5, <3>7, OthersStay DEF Unwritten
  <2>3. CASE r # p
    <3>1. proc'[r] = proc[r] /\ proc[r].pc = "mr11" /\ Module(proc[r].slot) = "DDR4"
      BY <1>2, <2>3, OthersStay
    <3>2. faults = 1
      BY <2>1, <3>1, NoProbe DEF Hubs
    <3>3. page4 = 0 /\ Unwritten /\ \A q \in Procs : q # r => Sound(proc[q])
      BY <2>1, <3>1, <3>2 DEF Culprit
    <3>4. Unwritten' /\ Sound(proc'[p])
      BY <1>2, <2>3, <3>2, <3>3, SoundStep
    <3>5. page4' = 0
      BY <1>2, <2>1, <3>1, <3>3, PageZeroStays DEF Inside
    <3> QED
      BY <1>2, <3>3, <3>4, <3>5, OthersStay
  <2> QED
    BY <2>2, <2>3
<1> QED
  BY <1>1, <1>2 DEF Next

\* A selection of a DDR4 module is never skipped where RightPage is claimed.
LEMMA NeverSkipped ==
    ASSUME IInv, Uncached, Culprit, Claimed, NEW p \in Procs, Module(proc[p].slot) = "DDR4", NEW n \in {0, 1}
    PROVE  ~Redundant(proc[p], n) /\ AnyDDR4
<1>1. proc[p].slot \in Slot /\ crashes \in Nat /\ faults \in Nat /\ timeouts \in Nat
  BY BusAssumption DEF IInv, TypeOK, Process
<1>2. faults = 0 \/ (crashes = 0 /\ faults = 1 /\ timeouts = 0)
  BY <1>1 DEF Claimed
<1> QED
  BY <1>1, <1>2 DEF Uncached, Culprit, Apart, AnyDDR4, Redundant

\* Whoever changes the page has the mutex, or disturbs everybody about to read another one;
\* who has been disturbed stays so until it goes on.
LEMMA DisturbStep ==
    ASSUME IInv, NEW p \in Procs, Step(p)
    PROVE  /\ disturbed \ {p} \subseteq disturbed'
           /\ page4' # page4 =>
                 /\ Inside(proc[p]) \/ Outside(p)
                 /\ \A q \in Procs : q # p /\ Reads(q) /\ proc[q].want # page4' /\ (Outside(p) \/ Outside(q))
                                      => q \in disturbed'
<1> DEFINE me == proc[p]
           Bothers == \A q \in Procs : q # p /\ Reads(q) /\ proc[q].want # page4' /\ (Outside(p) \/ Outside(q))
                                       => q \in disturbed'
<1>0. me \in Process /\ Shape(me)
  BY DEF IInv, Good
<1>1. ASSUME NEW proto, NEW n, NEW ok, SetPage(p, proto, n, ok)
      PROVE  disturbed \subseteq disturbed' /\ (page4' # page4 => Bothers)
  <2>1. disturbed \subseteq disturbed' /\ (page4' = n => Bothers)
    BY <1>1 DEF SetPage, Disturbs
  <2>2. page4' \in {page4, n}
    BY <1>1 DEF SetPage, SetDDR4Page, SetDDR5Page
  <2> QED
    BY <2>1, <2>2
<1> HIDE DEF Bothers
<1>2. CASE \/ \E op \in Ops(p) : Begin(p, op)
           \/ Wait(p) \/ Quick(p) \/ Type4(p) \/ ReadMR11(p) \/ Type5(p) \/ Plain(p) \/ Read(p)
           \/ RawRead(p) \/ Release(p) \/ SensorRead(p) \/ Restart(p)
  BY <1>2 DEF Begin, Wait, Quick, Type4, ReadMR11, Type5, Plain, Read, RawRead, Release, SensorRead, Restart, race
<1>3. CASE Set4(p) \/ Set5(p) \/ Select(p) \/ Home(p) \/ SensorSelect(p) \/ Temperature(p)
  <2>1. disturbed \subseteq disturbed' /\ (page4' # page4 => Bothers)
    BY <1>1, <1>3 DEF Set4, Set5, Select, Home, SensorSelect, Temperature
  <2>2. Inside(me) \/ Outside(p)
    BY <1>0, <1>3 DEF Set4, Set5, Select, Home, SensorSelect, Temperature, Inside, Outside, Shape, Process
  <2> QED
    BY <2>1, <2>2 DEF Bothers
<1>4. CASE Poll(p)
  <2>1. disturbed \subseteq disturbed' /\ (page4' # page4 => Bothers)
    BY <1>1, <1>4 DEF Poll
  <2>2. Inside(me)
    BY <1>4 DEF Poll, Inside
  <2> QED
    BY <2>1, <2>2 DEF Bothers
<1> QED
  BY <1>2, <1>3, <1>4 DEF Step

\* The process that reads has selected the page; nobody else selects another, or it is disturbed.
LEMMA RightStep ==
    ASSUME IInv, MutexHeld, Uncached, Culprit, Claimed, NEW p \in Procs, Step(p),
           NEW q \in Procs, q \notin disturbed', q # p => Right(proc[q])
    PROVE  Right(proc[q])'
<1> DEFINE me == proc[p]
           you == proc[q]
<1>0. /\ me \in Process /\ Shape(me) /\ Arrives(p, me, proc'[p]) /\ you \in Process /\ Shape(you)
      /\ (q # p => proc'[q] = you)
  BY ArrivalStep, OthersStay DEF IInv, Good
<1>1. CASE q = p
  <2>1. ASSUME proc'[p].pc = "read", proc'[p].proto = "DDR4" PROVE page4' = proc'[p].want
    <3>1. me.pc = "set" /\ SetPage(p, me.proto, me.want, TRUE) /\ proc'[p] = [me EXCEPT !.pc = "read"]
      BY <1>0, <2>1 DEF Arrives
    <3>2. me.proto = "DDR4" /\ proc'[p].want = me.want
      BY <1>0, <2>1, <3>1 DEF Process
    <3>3. Module(me.slot) = "DDR4" /\ me.want \in {0, 1}
      BY <1>0, <3>1, <3>2 DEF Shape, Pages
    <3>4. ~Redundant(me, me.want) /\ AnyDDR4
      BY <3>3, NeverSkipped
    <3>5. SetPage(p, "DDR4", me.want, TRUE)
      BY <3>1, <3>2
    <3> QED
      BY <3>2, <3>4, <3>5, DDR4Selected
  <2>2. ASSUME proc'[p].pc = "tsread", proc'[p].proto = "DDR4", Module(proc'[p].slot) = "DDR4" PROVE page4' = 0
    <3>1. me.pc = "tsset" /\ SetPage(p, me.proto, 0, TRUE) /\ proc'[p] = [me EXCEPT !.pc = "tsread"]
      BY <1>0, <2>2 DEF Arrives
    <3>2. me.proto = "DDR4" /\ Module(me.slot) = "DDR4"
      BY <1>0, <2>2, <3>1 DEF Process
    <3> QED
      BY <3>1, <3>2, NeverSkipped, DDR4Selected
  <2> QED
    BY <1>1, <2>1, <2>2 DEF Right
<1>2. CASE q # p
  <2>1. proc'[q] = you /\ Right(you)
    BY <1>0, <1>2
  <2>2. CASE page4' = page4
    BY <2>1, <2>2 DEF Right
  <2>3. CASE ~Reads(q)
    BY <2>1, <2>3 DEF Reads, Right
  <2>4. CASE page4' # page4 /\ Reads(q)
    <3>1. Inside(you) \/ Outside(q)
      BY <1>0, <2>4 DEF Reads, Inside, Outside, Shape, Process
    <3>2. Inside(me) \/ Outside(p)
      BY <2>4, DisturbStep
    <3>3. q \in late => Outside(q)
      BY DEF Outside
    <3>4. p \in late => Outside(p)
      BY DEF Outside
    <3>5. Outside(p) \/ Outside(q)
      BY <1>2, <3>1, <3>2, <3>3, <3>4 DEF MutexHeld
    <3>6. you.want = page4'
      BY <1>2, <2>4, <3>5, DisturbStep
    <3>7. you.pc = "tsread" => you.want = 0
      BY <1>0 DEF Shape
    <3> QED
      BY <2>1, <3>6, <3>7 DEF Right
  <2> QED
    BY <2>2, <2>3, <2>4
<1> QED
  BY <1>1, <1>2

\* Given the invariants so far, Reading is inductive.
LEMMA ReadingInductive == IInv /\ MutexHeld /\ Uncached /\ Culprit /\ Reading /\ [Next]_vars => Reading'
<1> SUFFICES ASSUME IInv, MutexHeld, Uncached, Culprit, Reading, [Next]_vars, Claimed',
                    NEW q \in Procs, q \notin disturbed'
             PROVE  Right(proc[q])'
  BY DEF Reading
<1>1. CASE UNCHANGED vars
  BY <1>1 DEF vars, Reading, Right, Claimed
<1>2. ASSUME NEW p \in Procs, Step(p) PROVE Right(proc[q])'
  <2>1. Claimed
    BY <1>2, CountStep DEF Claimed
  <2>2. q # p => q \notin disturbed
    BY <1>2, DisturbStep
  <2>3. q # p => Right(proc[q])
    BY <2>1, <2>2 DEF Reading
  <2> QED
    BY <1>2, <2>1, <2>3, RightStep
<1> QED
  BY <1>1, <1>2 DEF Next

\* On every board without hubs whose DDR4 modules say what voltage they need, with any
\* processes that report and read sensors, whatever ends and gives up waiting, or with one
\* failed transaction: every byte is read from the page it was asked for, unless another
\* process selects another page just before, which only one without the mutex can do.
THEOREM PageIsRight == ASSUME NoHubs, VoltageIsNoPage PROVE Spec => []RightPage
<1> DEFINE All == IInv /\ Hubs /\ MutexHeld /\ Uncached /\ Calm /\ Culprit /\ Reading
<1>1. Init => All
  <2>1. Started.pc = "idle" /\ Started.op = "none"
    BY DEF Started
  <2>2. Init => Culprit /\ Reading
    BY <2>1 DEF Init, Culprit, Reading, Right
  <2> QED
    BY <2>2, InitHolds, SpdInit
<1>2. All /\ [Next]_vars => All'
  BY Inductive, HubsInductive, MutexInductive, UncachedInductive, CalmInductive, CulpritInductive, ReadingInductive
<1>3. All => RightPage
  <2> SUFFICES ASSUME IInv, Reading, Claimed, NEW p \in Procs, p \notin disturbed,
                      proc[p].pc = "read" \/ (proc[p].pc = "tsread" /\ proc[p].proto = "DDR4")
               PROVE  Selected(proc[p].slot) = proc[p].want
    BY DEF RightPage, Claimed
  <2>1. Shape(proc[p]) /\ proc[p].slot \in Slot /\ Module(proc[p].slot) # "DDR5" /\ Right(proc[p])
    BY DEF IInv, Good, Process, NoHubs, Reading
  <2>2. CASE proc[p].pc = "read"
    BY <2>1, <2>2 DEF Shape, Selected, Right
  <2>3. CASE proc[p].pc = "tsread" /\ proc[p].proto = "DDR4"
    BY <2>1, <2>3 DEF Shape, Selected, Right
  <2> QED
    BY <2>2, <2>3
<1> QED
  BY <1>1, <1>2, <1>3, PTL DEF Spec
================================================================================
