------------------------------- MODULE GpuDrivers -------------------------------
(****************************************************************************)
(* The list of graphics adapters (libnw/gpu.c) and the five drivers that    *)
(* fill it (libnw/gpu/).  The libraries of Intel, AMD and NVIDIA list their *)
(* own adapters, DXCore adds NPUs, D3D adds what nobody has listed yet and  *)
(* fills in readings a vendor's library did not give.                       *)
(*                                                                          *)
(* A driver's Data is static: it outlives the list and is set by the next   *)
(* NWL_InitGpu only.  reading stands for the fields every source can give   *)
(* (utilisation); what else is read of an adapter is left out.  One thread  *)
(* at a time is in here (see GuiUpdate).                                    *)
(****************************************************************************)
EXTENDS Naturals, Sequences, SequencesExt

CONSTANTS
    Cards,      \* adapters that may be plugged in
    Maker,      \* Maker[c]: the driver of c's vendor, "dxcore" for an NPU, "none"
    Ids,        \* Ids[c]: vendor, device, subsystem and revision; twins share them
    None,
    MaxCount,   \* NWL_GPU_MAX_COUNT
    MaxPlugs    \* bound: how often adapters are plugged in or removed

VARIABLES
    present,    \* adapters plugged in
    plugs,
    data,       \* data[d]: the static pointer of d, to a context that may be freed
    info,       \* NWLC->NwGpu: None, or the list with its count
    pc, turn,   \* where NWL_InitGpu or NWL_GetGpuInfo is in its loop
    cut         \* NWL_InitGpu left its loop early, the list being full

gpuVars == <<present, plugs, data, info, pc, turn, cut>>

Drivers == <<"intel", "amd", "nvidia", "dxcore", "d3d">>
Slots == 1..MaxCount

Vacant == [card |-> None, reading |-> None]
Full == info.count >= MaxCount

Init ==
    /\ present \in SUBSET Cards
    /\ plugs = 0
    /\ data = [d \in Range(Drivers) |-> None]
    /\ info = None
    /\ pc = "idle"
    /\ turn = 0
    /\ cut = FALSE

----------------------------------------------------------------------------
(* Init of a driver: the adapters its context holds, in the library's order. *)

\* find_duplicated_gpu and is_duplicated_gpu: the first entry at the card's address or
\* with its ids
SameCard(entry, c) == entry.card = c \/ (entry.card # None /\ Ids[entry.card] = Ids[c])
Duplicates_OffByOne(list, c) == { i \in 1..(list.count - 1) : SameCard(list.device[i], c) }
Duplicates(list, c) == { i \in 1..list.count : SameCard(list.device[i], c) }
Duplicate(list, c) == CHOOSE i \in Duplicates(list, c) : \A j \in Duplicates(list, c) : i <= j

\* ADL names an adapter once for every display it can drive; the others name it once.
Named(d) ==
    LET mine == { c \in present : Maker[c] = d }
        once(s) == { q \in [1..Cardinality(s) -> s] : IsInjective(q) }
    IN  CASE d = "amd" -> UNION { [1..n -> present] : n \in 0..2 }
          [] d \in {"intel", "nvidia", "dxcore"} -> UNION { once(s) : s \in SUBSET mine }
          [] d = "d3d" -> { SetToSeq(s) : s \in SUBSET present }

\* The elements of seq at these places, in their order
AtPlaces(seq, places) ==
    [k \in 1..Cardinality(places) |->
        seq[CHOOSE i \in places : Cardinality({ j \in places : j <= i }) = k]]

First(seq, i) == \A j \in 1..(i - 1) : seq[j] # seq[i]
Deduplicated(seq) == AtPlaces(seq, { i \in DOMAIN seq : First(seq, i) /\ Maker[seq[i]] = "amd" })

Unlisted(seq, list) == AtPlaces(seq, { i \in DOMAIN seq : Duplicates(list, seq[i]) = {} })

Kept(d, named) ==
    CASE d = "amd" -> Deduplicated(named)
      [] d = "dxcore" -> Unlisted(named, info)
      [] OTHER -> named

\* Without adapters ADL and DXCore give no context.
Opened(d, kept) ==
    IF kept = <<>> /\ d \in {"amd", "dxcore"} THEN None ELSE [cards |-> kept, alive |-> TRUE]

----------------------------------------------------------------------------
(* GetInfo of a driver: entries after those already listed, as far as there *)
(* is room.  answers are the cards that give a reading this time.           *)

\* IGCL and ADL leave what an entry had when they get no reading.
Reading(d, c, answers, before) ==
    IF c \in answers THEN c ELSE IF d \in {"intel", "amd"} THEN before ELSE None

Appended_SkipsSilent(d, list, cards, answers) ==
    LET heard == SelectSeq(cards, LAMBDA c : c \in answers)
        room == MaxCount - list.count
        more == IF Len(heard) < room THEN Len(heard) ELSE room
    IN  [count |-> list.count + more,
         device |-> [i \in Slots |->
             IF i > list.count /\ i <= list.count + more
             THEN [card |-> heard[i - list.count], reading |-> heard[i - list.count]]
             ELSE list.device[i]]]

Appended_FromStart(d, list, cards, answers) ==
    LET room == MaxCount - list.count
        more == IF Len(cards) < room THEN Len(cards) ELSE room
        New(i) == i - list.count
    IN  [count |-> list.count + more,
         device |-> [i \in Slots |->
             IF i > list.count /\ i <= list.count + more
             THEN [card |-> cards[New(i)],
                   reading |-> Reading(d, cards[New(i)], answers, list.device[New(i)].reading)]
             ELSE list.device[i]]]

Appended(d, list, cards, answers) ==
    LET room == MaxCount - list.count
        more == IF Len(cards) < room THEN Len(cards) ELSE room
        New(i) == i - list.count
    IN  [count |-> list.count + more,
         device |-> [i \in Slots |->
             IF i > list.count /\ i <= list.count + more
             THEN [card |-> cards[New(i)],
                   reading |-> Reading(d, cards[New(i)], answers, list.device[i].reading)]
             ELSE list.device[i]]]

\* fill_missing_gpu_info
Filled(list, cards, answers) ==
    LET sources(i) == { k \in DOMAIN cards : /\ cards[k] \in answers
                                             /\ Duplicates(list, cards[k]) # {}
                                             /\ Duplicate(list, cards[k]) = i }
    IN  [list EXCEPT !.device = [i \in Slots |->
            IF @[i].reading = None /\ sources(i) # {}
            THEN [@[i] EXCEPT !.reading =
                     cards[CHOOSE k \in sources(i) : \A l \in sources(i) : k <= l]]
            ELSE @[i]]]

Offered(d, context, list) ==
    IF d = "d3d" THEN Unlisted(context.cards, list) ELSE context.cards

GetInfo(d, context, list, answers) ==
    Appended(d, IF d = "d3d" THEN Filled(list, context.cards, answers) ELSE list,
             Offered(d, context, list), answers)

----------------------------------------------------------------------------
Plug(c) ==
    /\ plugs < MaxPlugs
    /\ plugs' = plugs + 1
    /\ present' = IF c \in present THEN present \ {c} ELSE present \cup {c}
    /\ UNCHANGED <<data, info, pc, turn, cut>>

\* NWL_InitGpu, called where NwGpu is NULL
BeginInit ==
    /\ pc = "idle" /\ info = None
    /\ info' = [count |-> 0, device |-> [i \in Slots |-> Vacant]]
    /\ pc' = "init" /\ turn' = 1 /\ cut' = FALSE
    /\ UNCHANGED <<present, plugs, data>>

Turn(d) == turn \in DOMAIN Drivers /\ Drivers[turn] = d

InitFails_Keeps(d) ==
    /\ pc = "init" /\ Turn(d) /\ ~Full
    /\ turn' = turn + 1
    /\ UNCHANGED <<present, plugs, data, info, pc, cut>>

InitFails(d) ==
    /\ pc = "init" /\ Turn(d) /\ ~Full
    /\ data' = [data EXCEPT ![d] = None]
    /\ turn' = turn + 1
    /\ UNCHANGED <<present, plugs, info, pc, cut>>

InitDriver(d) ==
    /\ pc = "init" /\ Turn(d) /\ ~Full
    /\ \E named \in Named(d), answers \in SUBSET Cards :
          LET context == Opened(d, Kept(d, named))
          IN  /\ context # None
              /\ answers \subseteq Range(context.cards)
              /\ data' = [data EXCEPT ![d] = context]
              /\ info' = GetInfo(d, context, info, answers)
    /\ turn' = turn + 1
    /\ UNCHANGED <<present, plugs, pc, cut>>

\* NWL_GetGpuInfo: at the start of a report, a sensor page or a one-second update
BeginGet ==
    /\ pc = "idle" /\ info # None
    /\ info' = [info EXCEPT !.count = 0]
    /\ pc' = "get" /\ turn' = 1
    /\ UNCHANGED <<present, plugs, data, cut>>

GetDriver(d) ==
    /\ pc = "get" /\ Turn(d) /\ ~Full
    /\ IF data[d] = None
       THEN UNCHANGED info
       ELSE \E answers \in SUBSET Range(data[d].cards) :
               info' = GetInfo(d, data[d], info, answers)
    /\ turn' = turn + 1
    /\ UNCHANGED <<present, plugs, data, pc, cut>>

\* All drivers are through, or the list is full.
EndLoop ==
    /\ pc \in {"init", "get"}
    /\ turn > Len(Drivers) \/ Full
    /\ cut' = (cut \/ (pc = "init" /\ turn <= Len(Drivers)))
    /\ pc' = "idle" /\ turn' = 0
    /\ UNCHANGED <<present, plugs, data, info>>

\* NWL_FreeGpu, before the display update makes a new list and at the end
Free ==
    /\ pc = "idle" /\ info # None
    /\ info' = None
    /\ data' = [d \in DOMAIN data |->
                   IF data[d] = None THEN None ELSE [data[d] EXCEPT !.alive = FALSE]]
    /\ UNCHANGED <<present, plugs, pc, turn, cut>>

Next ==
    \/ BeginInit \/ BeginGet \/ EndLoop \/ Free
    \/ \E d \in Range(Drivers) : InitFails(d) \/ InitDriver(d) \/ GetDriver(d)
    \/ \E c \in Cards : Plug(c)

Spec == Init /\ [][Next]_gpuVars

----------------------------------------------------------------------------
\* The static pointers of the drivers follow the list, through any number of lists and
\* libraries that fail in one and not in another: what the list will read and free is
\* there, and without a list nothing is left.  A list that was full before the last
\* driver is excused (gpu.c:36): what an earlier list left in that driver is freed again.
ContextsFollowList ==
    /\ info = None => \A d \in DOMAIN data : data[d] = None \/ ~data[d].alive
    /\ info # None /\ pc # "init" /\ ~cut => \A d \in DOMAIN data : data[d] = None \/ data[d].alive

\* An entry belongs to the same adapter as long as the list lives: what is kept in it
\* from one reading to the next (energy, activity) is never another adapter's.
EntriesStay ==
    [][ \A i \in Slots :
          info # None /\ info' # None /\ info.device[i].card # None =>
              info'.device[i].card = info.device[i].card ]_gpuVars

\* The list holds what fits, no adapter twice, although up to three interfaces report
\* it and ADL reports it once per display, and the reading shown for an adapter is its
\* own, be it filled in by D3D or kept.  Of two adapters with the same ids the first
\* gets what D3D reads of the second (d3d_gpu.c:167-184, 481-581; gpu.c:39-42).
OneEntryEach ==
    info # None =>
        /\ info.count <= MaxCount
        /\ \A i, j \in 1..info.count : info.device[i].card = info.device[j].card => i = j
        /\ \A i \in 1..info.count :
              LET entry == info.device[i]
              IN  \/ entry.reading \in {None, entry.card}
                  \/ \E c \in Cards \ {entry.card} : Ids[c] = Ids[entry.card]
================================================================================
