----------------------------- MODULE NwinfoProofs -----------------------------
(****************************************************************************)
(* Proofs about three parts of nwinfo: the list of graphics adapters, for   *)
(* any adapters, makers, ids and sizes of the list, the program around the  *)
(* collectors, for any options, and what it takes the memory modules of a   *)
(* board with DDR5 hubs for.                                                *)
(*                                                                          *)
(* That an entry stays its adapter's is a matter of places: NWL_GetGpuInfo  *)
(* fills the list anew each time, and a driver's adapters come to where     *)
(* they were only if every driver before it gives as many as it gave at     *)
(* first.  Layout says where each driver's adapters begin; what D3D adds    *)
(* depends on what the list shows before it.                                *)
(*                                                                          *)
(* That a report is what its options ask for, whatever their order, needs   *)
(* what they ask for to be in the shared context from the first option to   *)
(* the last collector, except where a collector completed its own flags.    *)
(*                                                                          *)
(* The board with hubs is an instance of SpdPaging, and its theorem one of  *)
(* the theorems of SpdPagingProofs.                                         *)
(****************************************************************************)
EXTENDS MCNwinfoParts, MCSpdPaging, FiniteSetTheorems, TLAPS

----------------------------------------------------------------------------
(* The list: the inductive invariant.                                       *)

Vacant == [card |-> None, reading |-> None]

Typed ==
    /\ present \subseteq Cards
    /\ data \in [G!Range(G!Drivers) -> Contexts \cup {None}]
    /\ info \in Lists \cup {None}
    /\ gpuPc \in {"idle", "init", "get"}
    /\ gpuPc = "idle" => turn = 0
    /\ gpuPc # "idle" => turn \in 1..6 /\ info # None
    /\ cut \in BOOLEAN

Distinct(seq) == \A i, j \in DOMAIN seq : seq[i] = seq[j] => i = j

\* What a driver's context holds: each adapter once, and only its own unless it is D3D's.
Sound(d, context) ==
    /\ Distinct(context.cards)
    /\ d # "d3d" => \A i \in DOMAIN context.cards : Maker[context.cards[i]] = d

Sounds == \A d \in G!Range(G!Drivers) : data[d] # None => Sound(d, data[d])

\* Contexts are alive from the driver's turn until the list is freed.
Followed ==
    /\ info = None => \A d \in DOMAIN data : data[d] = None \/ ~data[d].alive
    /\ gpuPc = "init" =>
          /\ ~cut
          /\ \A t \in 1..5 :
                t < turn => data[G!Drivers[t]] = None \/ data[G!Drivers[t]].alive
    /\ info # None /\ gpuPc # "init" /\ ~cut =>
          \A d \in DOMAIN data : data[d] = None \/ data[d].alive

\* The drivers before this one have had their turn since the list was made.
Reached == IF gpuPc = "init" THEN turn ELSE 6

\* What the driver whose turn is t has for the list when n entries are before it.
Offer(t, n) ==
    IF data[G!Drivers[t]] = None THEN <<>>
    ELSE G!Offered(G!Drivers[t], data[G!Drivers[t]], [info EXCEPT !.count = n])

Least(n) == IF n < MaxCount THEN n ELSE MaxCount

\* start[t] is the number of entries before those of the driver whose turn is t.
Layout(start) ==
    /\ start[1] = 0
    /\ \A t \in 1..5 : t < Reached =>
          /\ start[t + 1] = Least(start[t] + Len(Offer(t, start[t])))
          /\ \A i \in start[t] + 1 .. start[t + 1] :
                info.device[i].card = Offer(t, start[t])[i - start[t]]
    /\ \A i \in 1..MaxCount :
          IF i <= start[Reached] THEN info.device[i].card \in Cards ELSE info.device[i] = Vacant
    /\ info.count <= start[Reached]
    /\ gpuPc # "idle" => info.count = start[turn]

Starts == [1..6 -> 0..MaxCount]

Apart ==
    \A i, j \in 1..MaxCount :
        info.device[i].card # None /\ info.device[i].card = info.device[j].card => i = j

\* While the list is made its entries are those of the drivers that had their turn.
Owned ==
    gpuPc = "init" /\ turn <= 5 =>
        \A i \in 1..MaxCount : i <= info.count =>
            \E t \in 1..5 : t < turn /\ Maker[info.device[i].card] = G!Drivers[t]

\* A reading is the adapter's own, or that of one with the same ids.
Right(entry) ==
    \/ entry.reading = None
    \/ /\ entry.card \in Cards /\ entry.reading \in Cards
       /\ entry.reading = entry.card \/ Ids[entry.reading] = Ids[entry.card]

Rights == \A i \in 1..MaxCount : Right(info.device[i])

ListInv ==
    /\ Typed /\ Sounds /\ Followed
    /\ info # None => (\E start \in Starts : Layout(start)) /\ Apart /\ Owned /\ Rights

----------------------------------------------------------------------------
(* Sequences: elements at given places, adapters without those listed.      *)

\* The library counts the elements of a set as FiniteSets does.
LEMMA Counts == \A S : G!Cardinality(S) = Cardinality(S)
  BY DEF G!Cardinality, Cardinality

LEMMA DriversKnown ==
    /\ G!Range(G!Drivers) = {"intel", "amd", "nvidia", "dxcore", "d3d"}
    /\ DOMAIN G!Drivers = 1..5
    /\ Len(G!Drivers) = 5
    /\ \A t \in 1..5 : G!Drivers[t] \in G!Range(G!Drivers)
    /\ \A t, u \in 1..5 : G!Drivers[t] = G!Drivers[u] => t = u
    /\ \A t \in 1..5 : G!Drivers[t] = "d3d" => t = 5
    /\ G!Drivers[5] = "d3d"
  BY DEF G!Range, G!Drivers

\* Of n places each has another rank, and every rank up to their number is taken.
LEMMA Ranks ==
    ASSUME NEW n \in Nat, NEW places \in SUBSET (1..n)
    PROVE  /\ G!Cardinality(places) \in Nat
           /\ \A k \in 1..G!Cardinality(places) :
                 \E i \in places : G!Cardinality({ j \in places : j <= i }) = k
<1> DEFINE Below(i) == { j \in places : j <= i }
           rank == [i \in places |-> Cardinality(Below(i))]
           m == Cardinality(places)
<1>1. IsFiniteSet(places) /\ m \in Nat /\ \A i \in places : i \in Nat
  <2>1. IsFiniteSet(places) /\ m \in Nat
    BY FS_Interval, FS_Subset, FS_CardinalityType, 1 \in Int, n \in Int
  <2> QED
    BY <2>1
<1>2. ASSUME NEW i \in places PROVE rank[i] \in 1..m
  <2>1. Below(i) \in SUBSET places /\ i \in Below(i)
    OBVIOUS
  <2>2. IsFiniteSet(Below(i)) /\ Cardinality(Below(i)) <= m
    BY <1>1, <2>1, FS_Subset
  <2>3. Cardinality(Below(i)) \in Nat /\ Cardinality(Below(i)) # 0
    BY <2>1, <2>2, FS_CardinalityType, FS_EmptySet
  <2> QED
    BY <1>1, <2>2, <2>3
<1>3. ASSUME NEW i \in places, NEW j \in places, i < j PROVE rank[i] # rank[j]
  <2> i \in Nat /\ j \in Nat
    BY <1>1
  <2>1. j \in Below(j) /\ j \notin Below(i)
    BY <1>3
  <2>2. Below(i) \in SUBSET Below(j)
    <3>1. ASSUME NEW l \in Below(i) PROVE l \in Below(j)
      <4>1. l \in places /\ l \in Nat /\ l <= i
        BY <1>1
      <4> QED
        BY <1>3, <4>1
    <3> QED
      BY <3>1
  <2>3. IsFiniteSet(Below(j))
    BY <1>1, FS_Subset, Below(j) \in SUBSET places
  <2>4. Cardinality(Below(i)) # Cardinality(Below(j))
    BY <2>1, <2>3, <2>2, FS_Subset
  <2> QED
    BY <2>4
<1>4. rank \in Injection(places, 1..m)
  <2>1. rank \in [places -> 1..m]
    BY <1>2
  <2>2. ASSUME NEW i \in places, NEW j \in places, rank[i] = rank[j] PROVE i = j
    <3>1. ~(i < j) /\ ~(j < i)
      BY <1>3, <2>2
    <3> QED
      BY <1>1, <3>1
  <2> HIDE DEF rank
  <2> QED
    BY <2>1, <2>2 DEF Injection, IsInjective
<1>5. IsFiniteSet(1..m) /\ Cardinality(1..m) = m
  BY <1>1, FS_Interval
<1>6. rank \in Surjection(places, 1..m)
  BY <1>4, <1>5, FS_Injection
<1>7. ASSUME NEW k \in 1..m PROVE \E i \in places : rank[i] = k
  BY <1>6 DEF Surjection
<1> QED
  BY <1>1, <1>7, Counts

\* Among some of n places there is a first.
LEMMA Smallest ==
    ASSUME NEW n \in Nat, NEW places \in SUBSET (1..n), places # {}
    PROVE  \E i \in places : \A j \in places : i <= j
<1>1. IsFiniteSet(places)
  BY FS_Interval, FS_Subset, 1 \in Int, n \in Int
<1>2. Cardinality(places) \in Nat /\ Cardinality(places) # 0
  BY <1>1, FS_CardinalityType, FS_EmptySet
<1>3. PICK i \in places : G!Cardinality({ j \in places : j <= i }) = 1
  <2>1. 1 \in 1..G!Cardinality(places)
    BY <1>2, Counts
  <2> QED
    BY <2>1, Ranks
<1>4. IsFiniteSet({ j \in places : j <= i })
  BY <1>1, FS_Subset
<1>5. PICK x : { j \in places : j <= i } = {x}
  BY <1>3, <1>4, FS_Singleton, Counts
<1>6. \A j \in places : j <= i => j = i
  BY <1>5
<1> QED
  BY <1>6

\* What is at some places of a sequence is a sequence of some of its elements, and no
\* element is at two places of it if none is at two of those places.
LEMMA PlacesKept ==
    ASSUME NEW S, NEW seq \in Seq(S), NEW places \in SUBSET (DOMAIN seq)
    PROVE  /\ G!AtPlaces(seq, places) \in Seq(S)
           /\ \A k \in DOMAIN G!AtPlaces(seq, places) :
                 \E i \in places : G!AtPlaces(seq, places)[k] = seq[i]
           /\ (\A i, j \in places : seq[i] = seq[j] => i = j) => Distinct(G!AtPlaces(seq, places))
<1> DEFINE At(k) == CHOOSE i \in places : G!Cardinality({ j \in places : j <= i }) = k
           m == G!Cardinality(places)
           picked == G!AtPlaces(seq, places)
<1>1. places \in SUBSET (1..Len(seq)) /\ Len(seq) \in Nat
  OBVIOUS
<1>2. m \in Nat
  BY <1>1, Ranks
<1>3. \A k \in 1..m : At(k) \in places /\ G!Cardinality({ j \in places : j <= At(k) }) = k
  <2> TAKE k \in 1..m
  <2>1. PICK i \in places : G!Cardinality({ j \in places : j <= i }) = k
    BY <1>1, Ranks
  <2> QED
    BY <2>1
<1>4. picked = [k \in 1..m |-> seq[At(k)]]
  BY DEF G!AtPlaces
<1> HIDE DEF At, m, picked
<1>5. \A k \in 1..m : seq[At(k)] \in S
  <2> TAKE k \in 1..m
  <2>1. At(k) \in places
    BY <1>3
  <2>2. At(k) \in DOMAIN seq
    BY <2>1
  <2> QED
    BY <2>2
<1>6. picked \in Seq(S) /\ DOMAIN picked = 1..m
  BY <1>2, <1>4, <1>5
<1>7. \A k \in 1..m : \E i \in places : picked[k] = seq[i]
  BY <1>3, <1>4
<1>8. ASSUME \A i, j \in places : seq[i] = seq[j] => i = j,
             NEW k \in 1..m, NEW l \in 1..m, picked[k] = picked[l]
      PROVE  k = l
  <2>1. At(k) = At(l)
    BY <1>3, <1>4, <1>8
  <2> QED
    BY <1>3, <2>1
<1>9. (\A i, j \in places : seq[i] = seq[j] => i = j) => Distinct(picked)
  BY <1>6, <1>8 DEF Distinct
<1> QED
  BY <1>6, <1>7, <1>9 DEF picked

\* ADL's adapters after adl_gpu_init has removed duplicates: AMD's, each once.
LEMMA DeduplicatedSound ==
    ASSUME NEW seq \in Seq(Cards)
    PROVE  /\ G!Deduplicated(seq) \in Seq(Cards)
           /\ Distinct(G!Deduplicated(seq))
           /\ \A k \in DOMAIN G!Deduplicated(seq) : Maker[G!Deduplicated(seq)[k]] = "amd"
<1> DEFINE places == { i \in DOMAIN seq : G!First(seq, i) /\ Maker[seq[i]] = "amd" }
<1>1. G!Deduplicated(seq) = G!AtPlaces(seq, places) /\ places \in SUBSET (DOMAIN seq)
  BY DEF G!Deduplicated
<1>2. ASSUME NEW i \in places, NEW j \in places, seq[i] = seq[j] PROVE i = j
  <2>1. i \in Nat /\ j \in Nat /\ i >= 1 /\ j >= 1 /\ G!First(seq, i) /\ G!First(seq, j)
    OBVIOUS
  <2>2. ~(i < j) /\ ~(j < i)
    BY <1>2, <2>1 DEF G!First
  <2> QED
    BY <2>1, <2>2
<1>3. \A i \in places : Maker[seq[i]] = "amd"
  OBVIOUS
<1> HIDE DEF places
<1> QED
  BY <1>1, <1>2, <1>3, PlacesKept

\* Adapters without those in the list are some of them, and none of them is in it.
LEMMA UnlistedSound ==
    ASSUME NEW seq \in Seq(Cards), NEW list, Distinct(seq)
    PROVE  /\ G!Unlisted(seq, list) \in Seq(Cards)
           /\ Distinct(G!Unlisted(seq, list))
           /\ \A k \in DOMAIN G!Unlisted(seq, list) :
                 /\ G!Duplicates(list, G!Unlisted(seq, list)[k]) = {}
                 /\ \E i \in DOMAIN seq : G!Unlisted(seq, list)[k] = seq[i]
<1> DEFINE places == { i \in DOMAIN seq : G!Duplicates(list, seq[i]) = {} }
<1>1. G!Unlisted(seq, list) = G!AtPlaces(seq, places) /\ places \in SUBSET (DOMAIN seq)
  BY DEF G!Unlisted
<1>2. \A i, j \in places : seq[i] = seq[j] => i = j
  BY DEF Distinct
<1>3. \A i \in places : i \in DOMAIN seq /\ G!Duplicates(list, seq[i]) = {}
  OBVIOUS
<1> HIDE DEF places
<1> QED
  BY <1>1, <1>2, <1>3, PlacesKept

\* What is not in one list is not in another that shows the same adapters.
LEMMA SameUnlisted ==
    ASSUME NEW seq, NEW one, NEW other, one.count = other.count,
           \A i \in 1..one.count : one.device[i].card = other.device[i].card
    PROVE  G!Unlisted(seq, one) = G!Unlisted(seq, other)
<1>1. \A c : G!Duplicates(one, c) = G!Duplicates(other, c)
  BY DEF G!Duplicates, G!SameCard
<1>2. { i \in DOMAIN seq : G!Duplicates(one, seq[i]) = {} }
      = { i \in DOMAIN seq : G!Duplicates(other, seq[i]) = {} }
  BY <1>1
<1> QED
  BY <1>2 DEF G!Unlisted

----------------------------------------------------------------------------
(* A driver's context, and what its GetInfo does with the list.             *)

LEMMA SetInOrder ==
    ASSUME NEW S \in SUBSET Cards
    PROVE  G!SetToSeq(S) \in Seq(Cards) /\ Distinct(G!SetToSeq(S))
<1>1. IsFiniteSet(S)
  BY CardsAssumption, FS_Subset
<1>2. Cardinality(S) \in Nat /\ ExistsBijection(1..Cardinality(S), S)
  BY <1>1, FS_CardinalityType
<1>3. \E f \in [1..Cardinality(S) -> S] : IsInjective(f)
  BY <1>2 DEF ExistsBijection, Bijection, Injection
<1>4. \E f \in [1..G!Cardinality(S) -> S] : G!IsInjective(f)
  BY <1>3, Counts DEF IsInjective, G!IsInjective
<1>5. /\ G!SetToSeq(S) \in [1..G!Cardinality(S) -> S]
      /\ G!IsInjective(G!SetToSeq(S))
  BY <1>4 DEF G!SetToSeq
<1>6. G!SetToSeq(S) \in Seq(Cards)
  BY <1>2, <1>5, Counts
<1> QED
  BY <1>5, <1>6 DEF Distinct, G!IsInjective

\* A context a driver opens is sound, whatever the libraries name.
LEMMA OpenedSound ==
    ASSUME NEW d \in G!Range(G!Drivers), present \subseteq Cards, NEW named \in G!Named(d)
    PROVE  LET context == G!Opened(d, G!Kept(d, named))
           IN  context # None => context \in Contexts /\ Sound(d, context) /\ context.alive
<1> DEFINE kept == G!Kept(d, named)
<1>1. ASSUME kept \in Seq(Cards), Distinct(kept),
             d # "d3d" => \A i \in DOMAIN kept : Maker[kept[i]] = d
      PROVE  LET context == G!Opened(d, kept)
             IN  context # None => context \in Contexts /\ Sound(d, context) /\ context.alive
  <2> HIDE DEF kept
  <2> SUFFICES ASSUME NEW context, context = G!Opened(d, kept), context # None
               PROVE  context \in Contexts /\ Sound(d, context) /\ context.alive
    OBVIOUS
  <2>1. context = [cards |-> kept, alive |-> TRUE]
    BY DEF G!Opened
  <2> QED
    BY <1>1, <2>1 DEF Contexts, Sound
<1>2. CASE d = "amd"
  <2>1. kept = G!Deduplicated(named)
    BY <1>2 DEF G!Kept
  <2>2. named \in UNION { [1..n -> present] : n \in 0..2 }
    <3>1. G!Named("amd") = UNION { [1..n -> present] : n \in 0..2 }
      BY Zenon DEF G!Named
    <3> QED
      BY <1>2, <3>1
  <2>3. PICK n \in 0..2 : named \in [1..n -> present]
    BY <2>2
  <2>4. named \in Seq(Cards)
    BY <2>3
  <2> QED
    BY <1>1, <1>2, <2>1, <2>4, DeduplicatedSound
<1>3. CASE d \in {"intel", "nvidia", "dxcore"}
  <2> DEFINE mine == { c \in present : Maker[c] = d }
             once(s) == { q \in [1..G!Cardinality(s) -> s] : G!IsInjective(q) }
  <2>1. named \in UNION { once(s) : s \in SUBSET mine }
    BY <1>3 DEF G!Named
  <2>2. PICK s \in SUBSET mine : named \in [1..G!Cardinality(s) -> s] /\ G!IsInjective(named)
    BY <2>1
  <2>3. IsFiniteSet(s) /\ s \in SUBSET Cards
    BY CardsAssumption, FS_Subset
  <2>4. G!Cardinality(s) \in Nat
    BY <2>3, FS_CardinalityType, Counts
  <2>5. named \in Seq(Cards) /\ DOMAIN named = 1..G!Cardinality(s)
    BY <2>2, <2>3, <2>4
  <2>6. Distinct(named) /\ \A i \in DOMAIN named : Maker[named[i]] = d
    BY <2>2, <2>5 DEF Distinct, G!IsInjective
  <2> HIDE DEF mine, once
  <2>7. CASE d = "dxcore"
    <3>1. kept = G!Unlisted(named, info)
      BY <2>7 DEF G!Kept
    <3>2. /\ G!Unlisted(named, info) \in Seq(Cards) /\ Distinct(G!Unlisted(named, info))
          /\ \A k \in DOMAIN G!Unlisted(named, info) :
                \E i \in DOMAIN named : G!Unlisted(named, info)[k] = named[i]
      <4>1. named \in Seq(Cards) /\ Distinct(named)
        BY <2>5, <2>6
      <4> QED
        BY <4>1, UnlistedSound
    <3> HIDE DEF kept
    <3>3. /\ kept \in Seq(Cards) /\ Distinct(kept)
          /\ \A k \in DOMAIN kept : \E i \in DOMAIN named : kept[k] = named[i]
      BY <3>1, <3>2
    <3>4. \A k \in DOMAIN kept : Maker[kept[k]] = d
      BY <2>6, <3>3
    <3> QED
      BY <1>1, <3>3, <3>4 DEF kept
  <2>8. CASE d # "dxcore"
    <3>1. kept = named
      BY <1>3, <2>8 DEF G!Kept
    <3> QED
      BY <1>1, <2>5, <2>6, <3>1
  <2> QED
    BY <2>7, <2>8
<1>4. CASE d = "d3d"
  <2>1. kept = named
    BY <1>4 DEF G!Kept
  <2>2. named \in { G!SetToSeq(s) : s \in SUBSET present }
    BY <1>4 DEF G!Named
  <2>3. named \in Seq(Cards) /\ Distinct(named)
    BY <2>2, SetInOrder
  <2> QED
    BY <1>1, <1>4, <2>1, <2>3
<1> QED
  BY <1>2, <1>3, <1>4, DriversKnown

\* What a driver offers are adapters of its context, each once.
LEMMA OfferedSound ==
    ASSUME NEW d, NEW context \in Contexts, Sound(d, context), NEW list
    PROVE  LET offered == G!Offered(d, context, list)
           IN  /\ offered \in Seq(Cards)
               /\ Distinct(offered)
               /\ d # "d3d" => \A i \in DOMAIN offered : Maker[offered[i]] = d
               /\ d = "d3d" => \A i \in DOMAIN offered : G!Duplicates(list, offered[i]) = {}
<1>1. context.cards \in Seq(Cards) /\ Distinct(context.cards)
  BY DEF Contexts, Sound
<1>2. CASE d = "d3d"
  BY <1>1, <1>2, UnlistedSound DEF G!Offered
<1>3. CASE d # "d3d"
  BY <1>1, <1>3 DEF G!Offered, Sound
<1> QED
  BY <1>2, <1>3

\* An offer depends on the list only by the adapters it shows.
LEMMA SameOffered ==
    ASSUME NEW d, NEW context, NEW one, NEW other,
           d = "d3d" => /\ one.count = other.count
                        /\ \A i \in 1..one.count : one.device[i].card = other.device[i].card
    PROVE  G!Offered(d, context, one) = G!Offered(d, context, other)
  BY SameUnlisted DEF G!Offered

\* d3d_gpu_get fills in readings of entries that show the adapter or one with its ids, and
\* nothing else.
LEMMA FilledRight ==
    ASSUME NEW list \in Lists, NEW cards \in Seq(Cards), NEW answers \in SUBSET Cards,
           \A i \in 1..list.count : list.device[i].card \in Cards
    PROVE  LET new == G!Filled(list, cards, answers)
           IN  /\ new \in Lists /\ new.count = list.count
               /\ \A i \in 1..MaxCount :
                     /\ new.device[i].card = list.device[i].card
                     /\ i > list.count => new.device[i] = list.device[i]
                     /\ Right(list.device[i]) => Right(new.device[i])
<1> DEFINE sources(i) == { k \in DOMAIN cards : /\ cards[k] \in answers
                                                /\ G!Duplicates(list, cards[k]) # {}
                                                /\ G!Duplicate(list, cards[k]) = i }
           first(i) == CHOOSE k \in sources(i) : \A l \in sources(i) : k <= l
           fill(i) == list.device[i].reading = None /\ sources(i) # {}
           new == G!Filled(list, cards, answers)
<1>1. list.count \in 0..MaxCount /\ DOMAIN list.device = 1..MaxCount
  BY DEF Lists
<1>2. ASSUME NEW i \in 1..MaxCount, sources(i) # {}
      PROVE  /\ first(i) \in DOMAIN cards /\ cards[first(i)] \in Cards
             /\ i \in 1..list.count /\ G!SameCard(list.device[i], cards[first(i)])
  <2>1. sources(i) \in SUBSET (1..Len(cards)) /\ Len(cards) \in Nat
    OBVIOUS
  <2>2. \E k \in sources(i) : \A l \in sources(i) : k <= l
    BY <1>2, <2>1, Smallest
  <2>3. first(i) \in sources(i)
    BY <2>2
  <2>4. PICK k : k = first(i)
    OBVIOUS
  <2>5. /\ k \in DOMAIN cards /\ cards[k] \in Cards /\ G!Duplicates(list, cards[k]) # {}
        /\ G!Duplicate(list, cards[k]) = i
    BY <2>3, <2>4
  <2>6. G!Duplicates(list, cards[k]) \in SUBSET (1..list.count) /\ list.count \in Nat
    BY <1>1, CountAssumption DEF G!Duplicates
  <2>7. \E j \in G!Duplicates(list, cards[k]) : \A l \in G!Duplicates(list, cards[k]) : j <= l
    BY <2>5, <2>6, Smallest
  <2>8. G!Duplicate(list, cards[k]) \in G!Duplicates(list, cards[k])
    BY <2>7 DEF G!Duplicate
  <2> HIDE DEF first
  <2> QED
    BY <2>4, <2>5, <2>8 DEF G!Duplicates
<1>3. new = [list EXCEPT !.device = [i \in 1..MaxCount |->
                IF fill(i) THEN [list.device[i] EXCEPT !.reading = cards[first(i)]]
                ELSE list.device[i]]]
  BY DEF G!Filled, G!Slots
<1> HIDE DEF first, sources, new
<1>4. ASSUME NEW i \in 1..MaxCount, fill(i)
      PROVE  /\ [list.device[i] EXCEPT !.reading = cards[first(i)]]
                   \in [card : Cards \cup {None}, reading : Cards \cup {None}]
             /\ i <= list.count
             /\ Right([list.device[i] EXCEPT !.reading = cards[first(i)]])
  <2>1. list.device[i] \in [card : Cards \cup {None}, reading : Cards \cup {None}]
    BY DEF Lists
  <2>2. /\ cards[first(i)] \in Cards /\ i \in 1..list.count
        /\ G!SameCard(list.device[i], cards[first(i)])
    BY <1>2, <1>4
  <2>3. list.device[i].card \in Cards
    BY <2>2
  <2> DEFINE entry == [list.device[i] EXCEPT !.reading = cards[first(i)]]
  <2>4. entry.card = list.device[i].card /\ entry.reading = cards[first(i)]
    BY <2>1
  <2> QED
    BY <1>1, <2>1, <2>2, <2>3, <2>4 DEF Right, G!SameCard
<1>5. new.count = list.count /\ new.device = [i \in 1..MaxCount |->
                IF fill(i) THEN [list.device[i] EXCEPT !.reading = cards[first(i)]]
                ELSE list.device[i]]
  BY <1>3 DEF Lists
<1>6. ASSUME NEW i \in 1..MaxCount
      PROVE  /\ new.device[i].card = list.device[i].card
             /\ new.device[i] \in [card : Cards \cup {None}, reading : Cards \cup {None}]
             /\ i > list.count => new.device[i] = list.device[i]
             /\ Right(list.device[i]) => Right(new.device[i])
  <2>1. list.device[i] \in [card : Cards \cup {None}, reading : Cards \cup {None}]
    BY DEF Lists
  <2>2. CASE fill(i)
    <3>1. new.device[i] = [list.device[i] EXCEPT !.reading = cards[first(i)]]
      BY <1>5, <2>2
    <3>2. list.count \in Nat /\ i \in Nat
      BY <1>1, CountAssumption
    <3>3. i <= list.count
      BY <1>4, <2>2
    <3>4. /\ new.device[i] \in [card : Cards \cup {None}, reading : Cards \cup {None}]
          /\ Right(new.device[i])
      BY <1>4, <2>2, <3>1
    <3>5. new.device[i].card = list.device[i].card
      BY <2>1, <3>1
    <3> QED
      BY <3>2, <3>3, <3>4, <3>5
  <2>3. CASE ~fill(i)
    BY <1>5, <2>1, <2>3
  <2> QED
    BY <2>2, <2>3
<1>7. new \in Lists
  <2>1. new = [count |-> new.count, device |-> new.device]
    BY <1>3 DEF Lists
  <2>2. new.device \in [1..MaxCount -> [card : Cards \cup {None}, reading : Cards \cup {None}]]
    BY <1>5, <1>6
  <2> QED
    BY <1>1, <1>5, <2>1, <2>2 DEF Lists
<1> QED
  BY <1>5, <1>6, <1>7 DEF new

\* GetInfo of a driver puts what it offers after the entries before, as far as there is
\* room, touches no other entry's adapter, and leaves readings right where an entry it
\* writes to was vacant or that adapter's.
LEMMA ListGrows ==
    ASSUME NEW d, NEW context \in Contexts, Sound(d, context), NEW list \in Lists,
           NEW answers \in SUBSET Cards,
           \A i \in 1..list.count : list.device[i].card \in Cards
    PROVE  LET offered == G!Offered(d, context, list)
               new == G!GetInfo(d, context, list, answers)
           IN  /\ new \in Lists
               /\ new.count = Least(list.count + Len(offered))
               /\ \A i \in 1..MaxCount :
                     /\ i <= list.count => new.device[i].card = list.device[i].card
                     /\ i > new.count => new.device[i] = list.device[i]
                     /\ i > list.count /\ i <= new.count =>
                           /\ new.device[i].card \in Cards
                           /\ new.device[i].card = offered[i - list.count]
                     /\ /\ Right(list.device[i])
                        /\ i > list.count /\ i <= new.count =>
                              list.device[i].card \in {None, offered[i - list.count]}
                        => Right(new.device[i])
<1> DEFINE offered == G!Offered(d, context, list)
           filled == IF d = "d3d" THEN G!Filled(list, context.cards, answers) ELSE list
           new == G!GetInfo(d, context, list, answers)
           room == MaxCount - filled.count
           more == IF Len(offered) < room THEN Len(offered) ELSE room
<1>1. offered \in Seq(Cards) /\ Len(offered) \in Nat
  BY OfferedSound
<1>2. /\ filled \in Lists /\ filled.count = list.count
      /\ \A i \in 1..MaxCount :
            /\ filled.device[i].card = list.device[i].card
            /\ i > list.count => filled.device[i] = list.device[i]
            /\ Right(list.device[i]) => Right(filled.device[i])
  <2>1. CASE d = "d3d"
    <3>1. context.cards \in Seq(Cards)
      BY DEF Contexts
    <3> QED
      BY <2>1, <3>1, FilledRight
  <2>2. CASE d # "d3d"
    BY <2>2
  <2> QED
    BY <2>1, <2>2
<1>3. list.count \in Nat /\ list.count <= MaxCount
  BY CountAssumption DEF Lists
<1> DEFINE entry(i) == [card |-> offered[i - filled.count],
                        reading |-> G!Reading(d, offered[i - filled.count], answers,
                                              filled.device[i].reading)]
<1>4. new = [count |-> filled.count + more,
             device |-> [i \in 1..MaxCount |->
                 IF i > filled.count /\ i <= filled.count + more THEN entry(i)
                 ELSE filled.device[i]]]
  BY DEF G!GetInfo, G!Appended, G!Slots
<1> HIDE DEF offered, filled, new
<1>5. /\ more \in Nat /\ filled.count + more = Least(list.count + Len(offered))
      /\ filled.count + more <= MaxCount /\ more <= Len(offered)
  BY <1>1, <1>2, <1>3, CountAssumption DEF Least
<1>6. new.count = Least(list.count + Len(offered)) /\ new.count = list.count + more
      /\ new.count \in 0..MaxCount
  BY <1>2, <1>3, <1>4, <1>5, CountAssumption DEF Least
<1>7. ASSUME NEW i \in 1..MaxCount
      PROVE  new.device[i] = IF i > list.count /\ i <= new.count
                             THEN entry(i) ELSE filled.device[i]
  BY <1>2, <1>4, <1>6
<1>8. ASSUME NEW i \in 1..MaxCount, i > list.count, i <= new.count
      PROVE  /\ entry(i).card = offered[i - list.count] /\ offered[i - list.count] \in Cards
             /\ entry(i) \in [card : Cards \cup {None}, reading : Cards \cup {None}]
             /\ (Right(list.device[i]) /\ list.device[i].card \in {None, offered[i - list.count]}
                   => Right(entry(i)))
  <2>1. i - list.count \in 1..Len(offered)
    BY <1>3, <1>5, <1>6, <1>8
  <2>2. PICK c \in Cards : c = offered[i - list.count]
    BY <1>1, <2>1
  <2>3. filled.device[i] = list.device[i]
    BY <1>2, <1>8
  <2>4. list.device[i] \in [card : Cards \cup {None}, reading : Cards \cup {None}]
    BY DEF Lists
  <2>5. entry(i) = [card |-> c, reading |-> G!Reading(d, c, answers, list.device[i].reading)]
    BY <1>2, <2>2, <2>3
  <2>6. G!Reading(d, c, answers, list.device[i].reading) \in {c, list.device[i].reading, None}
    BY DEF G!Reading
  <2> HIDE DEF entry
  <2>7. /\ entry(i).card = c
        /\ entry(i) \in [card : Cards \cup {None}, reading : Cards \cup {None}]
    BY <2>4, <2>5, <2>6
  <2>8. ASSUME Right(list.device[i]), list.device[i].card \in {None, c} PROVE Right(entry(i))
    <3>1. list.device[i].card = None => list.device[i].reading = None
      BY <2>8, NoneAssumption DEF Right
    <3>2. \/ entry(i).reading \in {c, None}
          \/ entry(i).reading = list.device[i].reading /\ list.device[i].card = c
      BY <2>5, <2>6, <2>8, <3>1
    <3> QED
      BY <2>7, <2>8, <3>2 DEF Right
  <2> QED
    BY <2>2, <2>7, <2>8
<1> HIDE DEF entry
<1>9. new \in Lists
  <2>1. new = [count |-> new.count, device |-> new.device]
    BY <1>4
  <2>2. \A i \in 1..MaxCount :
           filled.device[i] \in [card : Cards \cup {None}, reading : Cards \cup {None}]
    BY <1>2 DEF Lists
  <2>3. \A i \in 1..MaxCount :
           new.device[i] \in [card : Cards \cup {None}, reading : Cards \cup {None}]
    BY <1>7, <1>8, <2>2
  <2>4. new.device \in [1..MaxCount -> [card : Cards \cup {None}, reading : Cards \cup {None}]]
    BY <1>4, <2>3
  <2> QED
    BY <1>6, <2>1, <2>4 DEF Lists
<1>10. ASSUME NEW i \in 1..MaxCount
       PROVE  /\ i <= list.count => new.device[i].card = list.device[i].card
              /\ i > new.count => new.device[i] = list.device[i]
              /\ i > list.count /\ i <= new.count =>
                    /\ new.device[i].card \in Cards
                    /\ new.device[i].card = offered[i - list.count]
              /\ /\ Right(list.device[i])
                 /\ i > list.count /\ i <= new.count =>
                       list.device[i].card \in {None, offered[i - list.count]}
                 => Right(new.device[i])
  <2>1. i \in Nat /\ new.count \in Nat /\ list.count <= new.count
    BY <1>3, <1>5, <1>6, CountAssumption
  <2>2. CASE i <= list.count
    <3>1. new.device[i] = filled.device[i]
      BY <1>3, <1>7, <2>1, <2>2
    <3> QED
      BY <1>2, <1>3, <2>1, <2>2, <3>1
  <2>3. CASE i > list.count /\ i <= new.count
    <3>1. new.device[i] = entry(i)
      BY <1>7, <2>3
    <3> QED
      BY <1>3, <1>8, <2>1, <2>3, <3>1
  <2>4. CASE i > new.count
    <3>1. new.device[i] = filled.device[i] /\ i > list.count
      BY <1>3, <1>7, <2>1, <2>4
    <3> QED
      BY <1>2, <1>3, <2>1, <2>4, <3>1
  <2> QED
    BY <1>3, <2>1, <2>2, <2>3, <2>4
<1> QED
  BY <1>6, <1>9, <1>10 DEF new, offered

----------------------------------------------------------------------------
(* Steps.                                                                   *)

\* Lists and contexts are not None.
LEMMA Somethings ==
    (\A list \in Lists : list # None) /\ (\A context \in Contexts : context # None)
  BY NoneAssumption

LEMMA InitInv == G!Init => ListInv
<1> SUFFICES ASSUME G!Init PROVE ListInv
  OBVIOUS
<1>1. DOMAIN data = G!Range(G!Drivers) /\ \A d \in G!Range(G!Drivers) : data[d] = None
  BY DEF G!Init
<1>2. Typed
  BY <1>1 DEF G!Init, Typed
<1>3. Sounds /\ Followed
  BY <1>1 DEF G!Init, Sounds, Followed
<1> QED
  BY <1>2, <1>3 DEF ListInv, G!Init

\* Plugging an adapter in or out changes nothing anybody has read.
LEMMA PlugInv == ASSUME ListInv, NEW c \in Cards, G!Plug(c) PROVE ListInv'
<1>1. UNCHANGED <<data, info, gpuPc, turn, cut>> /\ present' \subseteq Cards
  BY DEF G!Plug, ListInv, Typed
<1>2. /\ Typed' /\ Sounds' /\ Followed'
      /\ (Apart <=> Apart') /\ (Owned <=> Owned') /\ (Rights <=> Rights')
  BY <1>1 DEF ListInv, Typed, Sounds, Followed, Apart, Owned, Rights
<1>3. \A start \in Starts : Layout(start) <=> Layout(start)'
  BY <1>1 DEF Layout, Offer, Reached
<1> QED
  BY <1>1, <1>2, <1>3 DEF ListInv, Starts

LEMMA FreeInv == ASSUME ListInv, G!Free PROVE ListInv'
<1>1. /\ gpuPc = "idle" /\ info' = None
      /\ data' = [d \in DOMAIN data |-> IF data[d] = None THEN None
                                        ELSE [data[d] EXCEPT !.alive = FALSE]]
      /\ UNCHANGED <<present, gpuPc, turn, cut>>
  BY DEF G!Free
<1>2. DOMAIN data = G!Range(G!Drivers)
  BY DEF ListInv, Typed
<1>3. ASSUME NEW d \in DOMAIN data, data[d] # None
      PROVE  data'[d] \in Contexts /\ data'[d].cards = data[d].cards /\ ~data'[d].alive
  <2>1. data[d] \in Contexts
    BY <1>3 DEF ListInv, Typed
  <2>2. data'[d] = [data[d] EXCEPT !.alive = FALSE]
    BY <1>1, <1>3
  <2> QED
    BY <2>1, <2>2 DEF Contexts
<1>4. \A d \in DOMAIN data : data[d] = None => data'[d] = None
  BY <1>1
<1>5. data' \in [G!Range(G!Drivers) -> Contexts \cup {None}]
  BY <1>1, <1>2, <1>3, <1>4
<1>6. Typed'
  BY <1>1, <1>5 DEF ListInv, Typed
<1>7. Sounds'
  BY <1>2, <1>3, <1>4 DEF ListInv, Sounds, Sound
<1>8. Followed'
  BY <1>1, <1>2, <1>3, <1>4, <1>5 DEF Followed
<1> QED
  BY <1>1, <1>6, <1>7, <1>8 DEF ListInv

LEMMA BeginInitInv == ASSUME ListInv, G!BeginInit PROVE ListInv'
<1>1. /\ gpuPc = "idle" /\ info = None
      /\ info' = [count |-> 0, device |-> [i \in 1..MaxCount |-> Vacant]]
      /\ gpuPc' = "init" /\ turn' = 1 /\ cut' = FALSE
      /\ UNCHANGED <<present, data>>
  BY DEF G!BeginInit, G!Slots, G!Vacant, Vacant
<1>2. info' \in Lists /\ info' # None
  <2>1. Vacant \in [card : Cards \cup {None}, reading : Cards \cup {None}] /\ 0 \in 0..MaxCount
    BY CountAssumption DEF Vacant
  <2>2. info' \in Lists
    BY <1>1, <2>1 DEF Lists
  <2> QED
    BY <2>2, Somethings
<1>3. Typed' /\ Sounds'
  <2>1. /\ present \subseteq Cards
        /\ data \in [G!Range(G!Drivers) -> Contexts \cup {None}]
    BY DEF ListInv, Typed
  <2>2. cut' \in BOOLEAN
    BY <1>1
  <2>3. gpuPc' = "init" /\ turn' \in 1..6 /\ UNCHANGED <<present, data>>
    BY <1>1
  <2>4. Typed'
    BY <1>2, <2>1, <2>2, <2>3 DEF Typed
  <2>5. Sounds'
    BY <2>3 DEF ListInv, Sounds, Sound
  <2> QED
    BY <2>4, <2>5
<1>4. Followed'
  BY <1>1, <1>2 DEF ListInv, Followed
<1>5. \A i \in 1..MaxCount : info'.device[i] = Vacant
  BY <1>1
<1>6. Apart' /\ Owned' /\ Rights'
  BY <1>1, <1>5 DEF Apart, Owned, Rights, Right, Vacant
<1> DEFINE start == [t \in 1..6 |-> 0]
<1>7. start \in Starts
  BY CountAssumption DEF Starts
<1>8. Layout(start)'
  BY <1>1, <1>5, CountAssumption DEF Layout, Reached
<1> QED
  BY <1>3, <1>4, <1>6, <1>7, <1>8 DEF ListInv, Starts

\* With a list there is a driver whose turn it is.
LEMMA TurnKnown ==
    ASSUME Typed, NEW d \in G!Range(G!Drivers), G!Turn(d)
    PROVE  turn \in 1..5 /\ d = G!Drivers[turn] /\ DOMAIN data = G!Range(G!Drivers)
  BY DriversKnown DEF G!Turn, Typed

\* An offer is of adapters that may be there.
LEMMA OfferSound ==
    ASSUME Typed, Sounds, NEW t \in 1..5, NEW n
    PROVE  Offer(t, n) \in Seq(Cards)
<1>1. G!Drivers[t] \in G!Range(G!Drivers)
  BY DriversKnown
<1>2. CASE data[G!Drivers[t]] = None
  BY <1>2 DEF Offer
<1>3. CASE data[G!Drivers[t]] # None
  <2>1. data[G!Drivers[t]] \in Contexts /\ Sound(G!Drivers[t], data[G!Drivers[t]])
    BY <1>1, <1>3 DEF Typed, Sounds
  <2> QED
    BY <1>3, <2>1, OfferedSound DEF Offer
<1> QED
  BY <1>2, <1>3

\* Where the entries of a driver that had its turn begin and end.
LEMMA Laid ==
    ASSUME NEW start, Layout(start), NEW t \in 1..5, t < Reached
    PROVE  /\ start[t + 1] = Least(start[t] + Len(Offer(t, start[t])))
           /\ \A i \in start[t] + 1 .. start[t + 1] :
                 info.device[i].card = Offer(t, start[t])[i - start[t]]
  BY Zenon DEF Layout

\* The entries of a driver that had its turn are among those made.
LEMMA Held ==
    ASSUME Typed, Sounds, NEW start \in Starts, Layout(start),
           NEW t \in 1..5, t < Reached, NEW i \in start[t] + 1 .. start[t + 1]
    PROVE  /\ i \in 1..MaxCount /\ i <= start[Reached]
           /\ info.device[i].card = Offer(t, start[t])[i - start[t]]
           /\ info.device[i].card \in Cards
<1>1. start[t] \in 0..MaxCount /\ start[t + 1] \in 0..MaxCount
  BY DEF Starts
<1>2. /\ start[t + 1] = Least(start[t] + Len(Offer(t, start[t])))
      /\ info.device[i].card = Offer(t, start[t])[i - start[t]]
  BY Laid
<1>3. Offer(t, start[t]) \in Seq(Cards)
  BY OfferSound
<1>4. start[t + 1] <= start[t] + Len(Offer(t, start[t]))
  BY <1>1, <1>2, <1>3, CountAssumption DEF Least
<1>5. i \in 1..MaxCount /\ i - start[t] \in 1..Len(Offer(t, start[t]))
  BY <1>1, <1>3, <1>4, CountAssumption
<1>6. info.device[i].card \in Cards
  BY <1>2, <1>3, <1>5
<1>7. i <= start[Reached]
  BY <1>5, <1>6, NoneAssumption DEF Layout, Vacant
<1> QED
  BY <1>2, <1>5, <1>6, <1>7

\* An offer stays as it is when the driver's context does and, for D3D, the adapters shown
\* before its entries do.
LEMMA SameOffer ==
    ASSUME NEW t \in 1..5, NEW n \in 0..MaxCount, info \in Lists, info' \in Lists,
           data'[G!Drivers[t]] = data[G!Drivers[t]],
           G!Drivers[t] = "d3d" =>
               \A i \in 1..n : info'.device[i].card = info.device[i].card
    PROVE  Offer(t, n)' = Offer(t, n)
<1> DEFINE one == [info EXCEPT !.count = n]
           other == [info' EXCEPT !.count = n]
           d == G!Drivers[t]
<1>1. one.count = n /\ other.count = n /\ one.device = info.device /\ other.device = info'.device
  BY DEF Lists
<1>2. Offer(t, n)' = IF data[d] = None THEN <<>> ELSE G!Offered(d, data[d], other)
  BY DEF Offer
<1>3. d = "d3d" => \A i \in 1..n : one.device[i].card = other.device[i].card
  BY <1>1
<1> HIDE DEF one, other, d
<1>4. G!Offered(d, data[d], one) = G!Offered(d, data[d], other)
  BY <1>1, <1>3, SameOffered
<1> QED
  BY <1>2, <1>4 DEF Offer, one, d

LEMMA BeginGetInv == ASSUME ListInv, G!BeginGet PROVE ListInv'
<1>1. /\ gpuPc = "idle" /\ info # None /\ info \in Lists
      /\ info' = [info EXCEPT !.count = 0]
      /\ gpuPc' = "get" /\ turn' = 1
      /\ UNCHANGED <<present, data, cut>>
  BY DEF G!BeginGet, ListInv, Typed
<1>2. info' \in Lists /\ info' # None /\ info'.device = info.device /\ info'.count = 0
  <2>1. info' \in Lists /\ info'.device = info.device /\ info'.count = 0
    BY <1>1, CountAssumption DEF Lists
  <2> QED
    BY <2>1, Somethings
<1>3. Typed'
  BY <1>1, <1>2 DEF ListInv, Typed
<1>4. Sounds' /\ Followed'
  BY <1>1, <1>2 DEF ListInv, Sounds, Sound, Followed
<1>5. Apart' /\ Owned' /\ Rights'
  BY <1>1, <1>2 DEF ListInv, Apart, Owned, Rights, Right
<1>6. PICK start \in Starts : Layout(start)
  BY <1>1 DEF ListInv
<1>7. ASSUME NEW t \in 1..5 PROVE Offer(t, start[t])' = Offer(t, start[t])
  <2>1. start[t] \in 0..MaxCount
    BY DEF Starts
  <2> QED
    BY <1>1, <1>2, <2>1, SameOffer
<1>8. Layout(start)'
  <2>1. Reached = 6 /\ Reached' = 6
    BY <1>1 DEF Reached
  <2>2. start[6] \in 0..MaxCount /\ start[1] = 0
    BY <1>6 DEF Starts, Layout
  <2>3. info'.count <= start[6] /\ info'.count = start[turn']
    BY <1>1, <1>2, <2>2, CountAssumption
  <2>4. \A t \in 1..5 :
           /\ start[t + 1] = Least(start[t] + Len(Offer(t, start[t])'))
           /\ \A i \in start[t] + 1 .. start[t + 1] :
                 info'.device[i].card = (Offer(t, start[t])')[i - start[t]]
    <3> TAKE t \in 1..5
    <3>1. t < Reached
      BY <2>1
    <3> QED
      BY <1>2, <1>6, <1>7, <3>1, Laid
  <2>5. \A i \in 1..MaxCount : IF i <= start[6] THEN info'.device[i].card \in Cards
                                                ELSE info'.device[i] = Vacant
    BY <1>2, <1>6, <2>1 DEF Layout
  <2> QED
    BY <1>1, <2>1, <2>2, <2>3, <2>4, <2>5 DEF Layout
<1> QED
  BY <1>3, <1>4, <1>5, <1>8 DEF ListInv, Starts

LEMMA EndLoopInv == ASSUME ListInv, G!EndLoop PROVE ListInv'
<1>1. /\ gpuPc \in {"init", "get"} /\ info # None /\ info \in Lists /\ turn \in 1..6
      /\ turn > 5 \/ info.count >= MaxCount
      /\ gpuPc' = "idle" /\ turn' = 0
      /\ UNCHANGED <<present, data, info>>
      /\ cut' = (cut \/ (gpuPc = "init" /\ turn <= 5))
  BY DriversKnown DEF G!EndLoop, G!Full, ListInv, Typed
<1>2. Typed' /\ Sounds'
  <2>1. cut' \in BOOLEAN
    BY <1>1
  <2>2. Typed'
    BY <1>1, <2>1 DEF ListInv, Typed
  <2> QED
    BY <1>1, <2>2 DEF ListInv, Sounds, Sound
<1>3. Followed'
  <2>1. ASSUME ~cut', NEW d \in DOMAIN data PROVE data[d] = None \/ data[d].alive
    <3>1. PICK t \in 1..5 : d = G!Drivers[t]
      BY DriversKnown DEF ListInv, Typed, G!Drivers
    <3>2. CASE gpuPc = "init"
      <4>1. ~(turn <= 5)
        BY <1>1, <2>1, <3>2, Zenon
      <4>2. turn = 6
        BY <1>1, <4>1
      <4> QED
        BY <3>1, <3>2, <4>2 DEF ListInv, Followed
    <3>3. CASE gpuPc = "get"
      BY <1>1, <2>1, <3>3 DEF ListInv, Followed
    <3> QED
      BY <1>1, <3>2, <3>3
  <2> QED
    BY <1>1, <2>1 DEF Followed
<1>4. Apart' /\ Owned' /\ Rights'
  BY <1>1 DEF ListInv, Apart, Owned, Rights, Right
<1>5. PICK start \in Starts : Layout(start)
  BY <1>1 DEF ListInv
<1>6. \A t \in 1..5, n \in 0..MaxCount : Offer(t, n)' = Offer(t, n)
  BY <1>1, SameOffer
<1>7. \A t \in 1..6 : start[t] \in 0..MaxCount
  BY DEF Starts
<1>8. Reached' = 6
  BY <1>1 DEF Reached
<1>9. CASE Reached = 6
  <2>1. \A t \in 1..5 : Offer(t, start[t])' = Offer(t, start[t])
    BY <1>6, <1>7
  <2>2. Layout(start)'
    BY <1>1, <1>5, <2>1, <1>8, <1>9 DEF Layout
  <2> QED
    BY <1>2, <1>3, <1>4, <2>2 DEF ListInv, Starts
<1>10. CASE Reached # 6
  <2>1. gpuPc = "init" /\ Reached = turn /\ turn \in 1..5
    BY <1>1, <1>10 DEF Reached
  <2>2. start[turn] = MaxCount /\ info.count = MaxCount
    <3>1. info.count = start[turn]
      BY <1>5, <2>1 DEF Layout
    <3>2. info.count \in 0..MaxCount
      BY <1>1 DEF Lists
    <3> QED
      BY <1>1, <2>1, <3>1, <3>2, CountAssumption
  <2> DEFINE rest == [t \in 1..6 |-> IF t <= turn THEN start[t] ELSE MaxCount]
  <2>3. rest \in Starts /\ rest[1] = 0 /\ rest[6] = MaxCount
    BY <1>5, <1>7, <2>1, CountAssumption DEF Starts, Layout
  <2>4. ASSUME NEW t \in 1..5
        PROVE  /\ rest[t + 1] = Least(rest[t] + Len(Offer(t, rest[t])))
               /\ \A i \in rest[t] + 1 .. rest[t + 1] :
                     info.device[i].card = Offer(t, rest[t])[i - rest[t]]
    <3>1. CASE t < turn
      <4>1. rest[t] = start[t] /\ rest[t + 1] = start[t + 1]
        BY <2>1, <3>1
      <4> HIDE DEF rest
      <4> QED
        BY <1>5, <2>1, <3>1, <4>1 DEF Layout
    <3>2. CASE t >= turn
      <4>1. rest[t] = MaxCount /\ rest[t + 1] = MaxCount
        BY <2>1, <2>2, <3>2
      <4> HIDE DEF rest
      <4>2. Len(Offer(t, rest[t])) \in Nat
        BY OfferSound DEF ListInv
      <4> QED
        BY <4>1, <4>2, CountAssumption DEF Least
    <3> HIDE DEF rest
    <3> QED
      BY <2>1, <3>1, <3>2
  <2>5. \A i \in 1..MaxCount : info.device[i].card \in Cards
    BY <1>5, <2>1, <2>2 DEF Layout
  <2>6. PICK s \in Starts : s = rest
    BY <2>3
  <2>7. \A t \in 1..5 : Offer(t, s[t])' = Offer(t, s[t])
    BY <1>6, <2>6 DEF Starts
  <2>8. /\ s[1] = 0 /\ s[6] = MaxCount
        /\ \A t \in 1..5 :
              /\ s[t + 1] = Least(s[t] + Len(Offer(t, s[t])))
              /\ \A i \in s[t] + 1 .. s[t + 1] : info.device[i].card = Offer(t, s[t])[i - s[t]]
    <3> HIDE DEF rest
    <3> QED
      BY <2>3, <2>4, <2>6
  <2> HIDE DEF rest
  <2>9. Layout(s)'
    <3>1. s[Reached'] = MaxCount /\ info'.count <= s[Reached']
      BY <1>1, <1>8, <2>2, <2>8, CountAssumption
    <3>2. \A t \in 1..5 :
             /\ s[t + 1] = Least(s[t] + Len(Offer(t, s[t])'))
             /\ \A i \in s[t] + 1 .. s[t + 1] : info'.device[i].card = (Offer(t, s[t])')[i - s[t]]
      BY <1>1, <2>7, <2>8
    <3>3. \A i \in 1..MaxCount : i <= s[Reached'] /\ info'.device[i].card \in Cards
      BY <1>1, <2>5, <3>1, CountAssumption
    <3> QED
      BY <1>1, <2>8, <3>1, <3>2, <3>3 DEF Layout
  <2> QED
    BY <1>2, <1>3, <1>4, <2>9 DEF ListInv, Starts
<1> QED
  BY <1>9, <1>10

\* A driver that fails has no entries.
LEMMA InitFailsInv ==
    ASSUME ListInv, NEW d \in G!Range(G!Drivers), G!InitFails(d) PROVE ListInv'
<1>1. /\ gpuPc = "init" /\ G!Turn(d) /\ info # None /\ info \in Lists
      /\ data' = [data EXCEPT ![d] = None] /\ turn' = turn + 1
      /\ UNCHANGED <<present, info, gpuPc, cut>>
  BY DEF G!InitFails, ListInv, Typed
<1>2. /\ turn \in 1..5 /\ d = G!Drivers[turn] /\ DOMAIN data = G!Range(G!Drivers)
      /\ turn' \in 1..6 /\ Reached = turn /\ Reached' = turn + 1
  BY <1>1, TurnKnown DEF ListInv, Reached
<1>3. data'[d] = None /\ \A e \in DOMAIN data : e # d => data'[e] = data[e]
  BY <1>1, <1>2
<1>4. \A t \in 1..5 : t # turn => data'[G!Drivers[t]] = data[G!Drivers[t]]
  BY <1>2, <1>3, DriversKnown
<1>5. Typed'
  <2>1. data' \in [G!Range(G!Drivers) -> Contexts \cup {None}]
    BY <1>1, <1>2 DEF ListInv, Typed
  <2> QED
    BY <1>1, <1>2, <2>1 DEF ListInv, Typed
<1>6. Sounds'
  BY <1>2, <1>3 DEF ListInv, Sounds, Sound
<1>7. Followed'
  <2>1. \A t \in 1..5 : t < turn' => data'[G!Drivers[t]] = None \/ data'[G!Drivers[t]].alive
    <3> TAKE t \in 1..5
    <3>1. CASE t = turn
      BY <1>2, <1>3, <3>1
    <3>2. CASE t # turn
      BY <1>1, <1>2, <1>4, <3>2 DEF ListInv, Followed
    <3> QED
      BY <3>1, <3>2
  <2>2. ~cut'
    BY <1>1 DEF ListInv, Followed
  <2> QED
    BY <1>1, <2>1, <2>2 DEF Followed
<1>8. Apart' /\ Rights'
  BY <1>1 DEF ListInv, Apart, Rights, Right
<1>9. Owned'
  <2>1. ASSUME turn' <= 5, NEW i \in 1..MaxCount, i <= info.count
        PROVE  \E t \in 1..5 : t < turn' /\ Maker[info.device[i].card] = G!Drivers[t]
    <3>1. PICK t \in 1..5 : t < turn /\ Maker[info.device[i].card] = G!Drivers[t]
      BY <1>1, <1>2, <2>1 DEF ListInv, Owned
    <3> QED
      BY <1>1, <1>2, <3>1
  <2> QED
    BY <1>1, <2>1 DEF Owned
<1>10. PICK start \in Starts : Layout(start)
  BY <1>1 DEF ListInv
<1>11. \A t \in 1..6 : start[t] \in 0..MaxCount
  BY DEF Starts
<1>12. PICK t \in 1..5 : t = turn
  BY <1>2
<1> DEFINE onward == [start EXCEPT ![t + 1] = start[t]]
<1>13. /\ onward \in Starts /\ onward[t + 1] = start[t]
       /\ \A u \in 1..6 : u # t + 1 => onward[u] = start[u]
  BY <1>11 DEF Starts
<1> HIDE DEF onward
<1>14. Layout(onward)'
  <2>1. onward[1] = 0 /\ onward[Reached'] = start[Reached] /\ onward[turn'] = start[turn]
    BY <1>1, <1>2, <1>10, <1>12, <1>13 DEF Layout
  <2>2. ASSUME NEW u \in 1..5, u < Reached'
        PROVE  /\ onward[u + 1] = Least(onward[u] + Len(Offer(u, onward[u])'))
               /\ \A i \in onward[u] + 1 .. onward[u + 1] :
                     info'.device[i].card = (Offer(u, onward[u])')[i - onward[u]]
    <3>1. CASE u = t
      <4>1. onward[u] = start[t] /\ onward[u + 1] = start[t] /\ start[t] \in 0..MaxCount
        BY <1>11, <1>13, <3>1
      <4>2. Offer(u, onward[u])' = <<>>
        BY <1>2, <1>3, <1>12, <3>1 DEF Offer
      <4> QED
        BY <4>1, <4>2, CountAssumption DEF Least
    <3>2. CASE u # t
      <4>1. /\ u < t /\ start[u] \in 0..MaxCount
            /\ onward[u] = start[u] /\ onward[u + 1] = start[u + 1]
        BY <1>2, <1>11, <1>12, <1>13, <2>2, <3>2
      <4>2. Offer(u, start[u])' = Offer(u, start[u])
        BY <1>1, <1>4, <1>12, <3>2, <4>1, SameOffer
      <4>3. /\ start[u + 1] = Least(start[u] + Len(Offer(u, start[u])))
            /\ \A i \in start[u] + 1 .. start[u + 1] :
                  info.device[i].card = Offer(u, start[u])[i - start[u]]
        BY <1>2, <1>10, <1>12, <4>1, Laid
      <4> QED
        BY <1>1, <4>1, <4>2, <4>3
    <3> QED
      BY <3>1, <3>2
  <2>3. \A i \in 1..MaxCount : IF i <= start[Reached] THEN info.device[i].card \in Cards
                                                      ELSE info.device[i] = Vacant
    BY <1>10 DEF Layout
  <2>4. info.count <= start[Reached] /\ info.count = start[turn]
    BY <1>1, <1>10 DEF Layout
  <2> QED
    BY <1>1, <2>1, <2>2, <2>3, <2>4 DEF Layout
<1> QED
  BY <1>5, <1>6, <1>7, <1>8, <1>9, <1>13, <1>14 DEF ListInv, Starts

\* A driver's first adapters come after the entries there are, and are none of those.
LEMMA InitDriverInv ==
    ASSUME ListInv, NEW d \in G!Range(G!Drivers), G!InitDriver(d)
    PROVE  /\ ListInv'
           /\ \A i \in 1..MaxCount : info.device[i].card # None =>
                                       info'.device[i].card = info.device[i].card
<1>1. /\ gpuPc = "init" /\ G!Turn(d) /\ ~(info.count >= MaxCount)
      /\ info # None /\ info \in Lists
      /\ turn' = turn + 1 /\ UNCHANGED <<present, gpuPc, cut>>
  BY DEF G!InitDriver, G!Full, ListInv, Typed
<1>2. /\ turn \in 1..5 /\ d = G!Drivers[turn] /\ DOMAIN data = G!Range(G!Drivers)
      /\ turn' \in 1..6 /\ Reached = turn /\ Reached' = turn + 1
  BY <1>1, TurnKnown DEF ListInv, Reached
<1>3. PICK named \in G!Named(d), answers \in SUBSET Cards :
         LET context == G!Opened(d, G!Kept(d, named))
         IN  /\ context # None
             /\ data' = [data EXCEPT ![d] = context]
             /\ info' = G!GetInfo(d, context, info, answers)
  BY DEF G!InitDriver
<1>4. PICK context : context = G!Opened(d, G!Kept(d, named))
  OBVIOUS
<1>5. /\ context # None /\ data' = [data EXCEPT ![d] = context]
      /\ info' = G!GetInfo(d, context, info, answers)
  BY <1>3, <1>4
<1>6. context \in Contexts /\ Sound(d, context) /\ context.alive
  BY <1>4, <1>5, OpenedSound DEF ListInv, Typed
<1>7. data'[d] = context /\ \A e \in DOMAIN data : e # d => data'[e] = data[e]
  BY <1>2, <1>5
<1>8. \A t \in 1..5 : t # turn => data'[G!Drivers[t]] = data[G!Drivers[t]]
  BY <1>2, <1>7, DriversKnown
<1>9. PICK start \in Starts : Layout(start)
  BY <1>1 DEF ListInv
<1>10. PICK t \in 1..5 : t = turn
  BY <1>2
<1>11. /\ info.count = start[t] /\ info.count \in Nat /\ info.count < MaxCount
       /\ \A u \in 1..6 : start[u] \in 0..MaxCount
       /\ \A i \in 1..MaxCount : IF i <= info.count THEN info.device[i].card \in Cards
                                                     ELSE info.device[i] = Vacant
  <2>1. info.count = start[t] /\ Reached = t
    BY <1>1, <1>2, <1>9, <1>10 DEF Layout
  <2>2. \A u \in 1..6 : start[u] \in 0..MaxCount
    BY DEF Starts
  <2>3. \A i \in 1..MaxCount : IF i <= start[Reached] THEN info.device[i].card \in Cards
                                                       ELSE info.device[i] = Vacant
    BY <1>9 DEF Layout
  <2>4. PICK n \in Nat : n = info.count
    BY <2>1, <2>2, CountAssumption
  <2>5. info.count < MaxCount
    BY <1>1, <2>4, CountAssumption
  <2> QED
    BY <2>1, <2>2, <2>3, <2>4, <2>5
<1> DEFINE offered == G!Offered(d, context, info)
<1>12. /\ info' \in Lists
       /\ info'.count = Least(info.count + Len(offered))
       /\ \A i \in 1..MaxCount :
             /\ i <= info.count => info'.device[i].card = info.device[i].card
             /\ i > info'.count => info'.device[i] = info.device[i]
             /\ i > info.count /\ i <= info'.count =>
                   /\ info'.device[i].card \in Cards
                   /\ info'.device[i].card = offered[i - info.count]
             /\ /\ Right(info.device[i])
                /\ i > info.count /\ i <= info'.count =>
                      info.device[i].card \in {None, offered[i - info.count]}
                => Right(info'.device[i])
  <2>1. \A i \in 1..info.count : i \in 1..MaxCount /\ i <= info.count
    BY <1>11, CountAssumption
  <2>2. \A i \in 1..info.count : info.device[i].card \in Cards
    BY <1>11, <2>1
  <2> QED
    BY <1>1, <1>5, <1>6, <2>2, ListGrows
<1>13. /\ offered \in Seq(Cards) /\ Len(offered) \in Nat /\ Distinct(offered)
       /\ d # "d3d" => \A i \in DOMAIN offered : Maker[offered[i]] = d
       /\ d = "d3d" => \A i \in DOMAIN offered : G!Duplicates(info, offered[i]) = {}
  BY <1>6, OfferedSound
<1> HIDE DEF offered
<1>14. /\ info'.count \in Nat /\ info'.count <= MaxCount /\ info.count <= info'.count
       /\ info'.count <= info.count + Len(offered)
  <2>1. PICK n \in Nat : n = info.count /\ n < MaxCount
    BY <1>11
  <2>2. PICK l \in Nat : l = Len(offered)
    BY <1>13
  <2>3. info'.count = Least(n + l)
    BY <1>12, <2>1, <2>2
  <2>4. /\ Least(n + l) \in Nat /\ Least(n + l) <= MaxCount
        /\ n <= Least(n + l) /\ Least(n + l) <= n + l
    BY <2>1, CountAssumption DEF Least
  <2> QED
    BY <2>1, <2>2, <2>3, <2>4
<1>15. ASSUME NEW i \in 1..MaxCount, i > info.count, i <= info'.count
       PROVE  i - info.count \in DOMAIN offered
  <2>1. PICK n \in Nat : n = info.count
    BY <1>11
  <2>2. PICK m \in Nat : m = info'.count
    BY <1>14
  <2>3. PICK l \in Nat : l = Len(offered)
    BY <1>13
  <2>4. m <= n + l
    BY <1>14, <2>1, <2>2, <2>3
  <2>5. i > n /\ i <= m
    BY <1>15, <2>1, <2>2
  <2>6. i - n \in 1..l
    BY <2>4, <2>5
  <2> QED
    BY <1>13, <2>1, <2>3, <2>6
<1>16. Typed'
  <2>1. data' \in [G!Range(G!Drivers) -> Contexts \cup {None}]
    BY <1>2, <1>5, <1>6 DEF ListInv, Typed
  <2>2. info' # None
    BY <1>12, Somethings
  <2> QED
    BY <1>1, <1>2, <1>12, <2>1, <2>2 DEF ListInv, Typed
<1>17. Sounds'
  BY <1>2, <1>6, <1>7 DEF ListInv, Sounds, Sound
<1>18. Followed'
  <2>1. \A u \in 1..5 : u < turn' => data'[G!Drivers[u]] = None \/ data'[G!Drivers[u]].alive
    <3> TAKE u \in 1..5
    <3>1. CASE u = turn
      BY <1>2, <1>6, <1>7, <3>1
    <3>2. CASE u # turn
      BY <1>1, <1>2, <1>8, <3>2 DEF ListInv, Followed
    <3> QED
      BY <3>1, <3>2
  <2>2. ~cut'
    BY <1>1 DEF ListInv, Followed
  <2>3. info' # None
    BY <1>12, Somethings
  <2> QED
    BY <1>1, <2>1, <2>2, <2>3 DEF Followed
<1>19. Rights'
  <2>1. ASSUME NEW i \in 1..MaxCount PROVE Right(info'.device[i])
    <3>1. Right(info.device[i])
      BY <1>1 DEF ListInv, Rights
    <3>2. i > info.count => info.device[i].card = None
      BY <1>11 DEF Vacant
    <3> QED
      BY <1>12, <3>1, <3>2
  <2> QED
    BY <2>1 DEF Rights, Right
<1>20. \A i \in 1..MaxCount :
          /\ i <= info'.count => info'.device[i].card \in Cards
          /\ i > info'.count => info'.device[i] = Vacant
  <2> TAKE i \in 1..MaxCount
  <2>1. CASE i <= info.count
    <3>1. info.device[i].card \in Cards /\ info'.device[i].card = info.device[i].card
      BY <1>11, <1>12, <2>1
    <3>2. PICK n \in Nat, m \in Nat : n = info.count /\ m = info'.count /\ n <= m
      BY <1>11, <1>14
    <3>3. ~(i > info'.count)
      BY <2>1, <3>2
    <3> QED
      BY <3>1, <3>3
  <2>2. CASE i > info.count /\ i <= info'.count
    BY <1>12, <1>14, <2>2
  <2>3. CASE i > info'.count
    <3>1. PICK n \in Nat, m \in Nat : n = info.count /\ m = info'.count /\ n <= m
      BY <1>11, <1>14
    <3>2. i > n /\ i > m /\ ~(i <= n) /\ ~(i <= m)
      BY <2>3, <3>1
    <3>3. info'.device[i] = info.device[i]
      BY <1>12, <3>1, <3>2
    <3>4. info.device[i] = Vacant
      BY <1>11, <3>1, <3>2
    <3> QED
      BY <3>1, <3>2, <3>3, <3>4
  <2>4. PICK n \in Nat, m \in Nat : n = info.count /\ m = info'.count /\ n <= m
    BY <1>11, <1>14
  <2> QED
    BY <2>1, <2>2, <2>3, <2>4
\* What is added is not there yet: it is of another maker, or D3D found it in no entry.
<1>21. ASSUME NEW i \in 1..MaxCount, NEW j \in 1..MaxCount, i <= info.count,
              j > info.count, j <= info'.count
       PROVE  info'.device[i].card # info'.device[j].card
  <2>1. /\ info'.device[i].card = info.device[i].card /\ info.device[i].card \in Cards
        /\ info'.device[j].card = offered[j - info.count] /\ j - info.count \in DOMAIN offered
    <3>1. info'.device[i].card = info.device[i].card /\ info.device[i].card \in Cards
      BY <1>11, <1>12, <1>21
    <3>2. info'.device[j].card = offered[j - info.count]
      BY <1>12, <1>21
    <3> QED
      BY <1>21, <1>15, <3>1, <3>2
  <2>2. CASE d = "d3d"
    <3>1. G!Duplicates(info, offered[j - info.count]) = {}
      BY <1>13, <2>1, <2>2
    <3>2. i \in 1..info.count
      BY <1>11, <1>21
    <3>3. ~G!SameCard(info.device[i], offered[j - info.count])
      BY <3>1, <3>2 DEF G!Duplicates
    <3> QED
      BY <2>1, <3>3 DEF G!SameCard
  <2>3. CASE d # "d3d"
    <3>1. Maker[offered[j - info.count]] = d
      BY <1>13, <2>1, <2>3
    <3>2. PICK u \in 1..5 : u < turn /\ Maker[info.device[i].card] = G!Drivers[u]
      BY <1>1, <1>2, <1>21 DEF ListInv, Owned
    <3>3. G!Drivers[u] # d
      BY <1>2, <3>2, DriversKnown
    <3> QED
      BY <2>1, <3>1, <3>2, <3>3
  <2> QED
    BY <2>2, <2>3
<1>22. Apart'
  <2>1. ASSUME NEW i \in 1..MaxCount, NEW j \in 1..MaxCount,
               info'.device[i].card # None, info'.device[i].card = info'.device[j].card
        PROVE  i = j
    <3>1. i <= info'.count /\ j <= info'.count
      BY <1>14, <1>20, <2>1 DEF Vacant
    <3>2. CASE i <= info.count /\ j <= info.count
      BY <1>1, <1>12, <2>1, <3>2 DEF ListInv, Apart
    <3>3. CASE i <= info.count /\ j > info.count
      BY <1>21, <2>1, <3>1, <3>3
    <3>4. CASE i > info.count /\ j <= info.count
      BY <1>21, <2>1, <3>1, <3>4
    <3>5. CASE i > info.count /\ j > info.count
      <4>1. offered[i - info.count] = offered[j - info.count]
        BY <1>12, <2>1, <3>1, <3>5
      <4>2. i - info.count \in DOMAIN offered /\ j - info.count \in DOMAIN offered
        BY <1>15, <3>1, <3>5
      <4>3. i - info.count = j - info.count
        BY <1>13, <4>1, <4>2 DEF Distinct
      <4> QED
        BY <1>11, <4>3
    <3> QED
      BY <1>11, <3>2, <3>3, <3>4, <3>5
  <2> QED
    BY <2>1 DEF Apart
<1>23. Owned'
  <2>1. ASSUME turn' <= 5, NEW i \in 1..MaxCount, i <= info'.count
        PROVE  \E u \in 1..5 : u < turn' /\ Maker[info'.device[i].card] = G!Drivers[u]
    <3>1. CASE i <= info.count
      <4>1. PICK u \in 1..5 : u < turn /\ Maker[info.device[i].card] = G!Drivers[u]
        BY <1>1, <1>2, <2>1, <3>1 DEF ListInv, Owned
      <4> QED
        BY <1>1, <1>2, <1>12, <3>1, <4>1
    <3>2. CASE i > info.count
      <4>1. d # "d3d"
        BY <1>1, <1>2, <2>1, DriversKnown
      <4>2. i - info.count \in DOMAIN offered
        BY <1>15, <2>1, <3>2
      <4>3. Maker[info'.device[i].card] = d
        BY <1>12, <1>13, <2>1, <3>2, <4>1, <4>2
      <4> QED
        BY <1>1, <1>2, <4>3
    <3> QED
      BY <1>11, <3>1, <3>2
  <2> QED
    BY <1>1, <2>1 DEF Owned
<1> DEFINE onward == [start EXCEPT ![t + 1] = info'.count]
<1>24. /\ onward \in Starts /\ onward[t + 1] = info'.count
       /\ \A u \in 1..6 : u # t + 1 => onward[u] = start[u]
  <2>1. t + 1 \in 1..6 /\ info'.count \in 0..MaxCount
    BY <1>14, CountAssumption
  <2> QED
    BY <2>1 DEF Starts
<1>25. PICK s \in Starts : s = onward
  BY <1>24
<1> HIDE DEF onward
<1>26. Layout(s)'
  <2>1. s[1] = 0 /\ s[Reached'] = info'.count /\ s[turn'] = info'.count
    BY <1>1, <1>2, <1>9, <1>10, <1>24, <1>25 DEF Layout
  <2>2. ASSUME NEW u \in 1..5, u < Reached'
        PROVE  /\ s[u + 1] = Least(s[u] + Len(Offer(u, s[u])'))
               /\ \A i \in s[u] + 1 .. s[u + 1] :
                     info'.device[i].card = (Offer(u, s[u])')[i - s[u]]
    <3>1. CASE u = t
      <4>1. s[u] = info.count /\ s[u + 1] = info'.count
        BY <1>11, <1>24, <1>25, <3>1
      <4> DEFINE seen == [info' EXCEPT !.count = s[u]]
      <4>2. seen.count = info.count /\ seen.device = info'.device
        BY <1>12, <4>1 DEF Lists
      <4>3. Offer(u, s[u])' = G!Offered(d, context, seen)
        BY <1>2, <1>5, <1>7, <1>10, <3>1 DEF Offer
      <4> HIDE DEF seen
      <4>4. \A i \in 1..info.count : info.device[i].card = seen.device[i].card
        <5>1. \A i \in 1..info.count : i \in 1..MaxCount /\ i <= info.count
          BY <1>11, CountAssumption
        <5> QED
          BY <1>12, <4>2, <5>1
      <4>5. Offer(u, s[u])' = offered
        <5>1. G!Offered(d, context, info) = G!Offered(d, context, seen)
          BY <4>2, <4>4, SameOffered
        <5> QED
          BY <4>3, <5>1 DEF offered
      <4>6. \A i \in s[u] + 1 .. s[u + 1] : info'.device[i].card = offered[i - s[u]]
        <5>1. PICK n \in Nat : n = info.count
          BY <1>11
        <5>2. PICK m \in Nat : m = info'.count /\ m <= MaxCount
          BY <1>14
        <5>3. \A i \in n + 1 .. m : i \in 1..MaxCount /\ i > n /\ i <= m
          BY <5>2, CountAssumption
        <5> QED
          BY <1>12, <4>1, <5>1, <5>2, <5>3
      <4> QED
        BY <1>12, <4>1, <4>5, <4>6
    <3>2. CASE u # t
      <4>1. u < t /\ s[u] = start[u] /\ s[u + 1] = start[u + 1] /\ start[u] \in 0..MaxCount
        BY <1>2, <1>10, <1>11, <1>24, <1>25, <2>2, <3>2
      <4>2. Offer(u, start[u])' = Offer(u, start[u])
        <5>1. G!Drivers[u] # "d3d"
          BY <4>1, DriversKnown
        <5> QED
          BY <1>1, <1>8, <1>10, <1>12, <3>2, <4>1, <5>1, SameOffer
      <4>3. start[u + 1] = Least(start[u] + Len(Offer(u, start[u])))
        BY <1>2, <1>9, <1>10, <4>1, Laid
      <4>4. ASSUME NEW i \in start[u] + 1 .. start[u + 1]
            PROVE  info'.device[i].card = Offer(u, start[u])[i - start[u]]
        <5>1. /\ i \in 1..MaxCount /\ i <= start[Reached]
              /\ info.device[i].card = Offer(u, start[u])[i - start[u]]
          BY <1>2, <1>9, <1>10, <4>1, Held DEF ListInv
        <5>2. i <= info.count
          BY <1>2, <1>10, <1>11, <5>1
        <5> QED
          BY <1>12, <5>1, <5>2
      <4> QED
        BY <4>1, <4>2, <4>3, <4>4
    <3> QED
      BY <3>1, <3>2
  <2>3. \A i \in 1..MaxCount : IF i <= info'.count THEN info'.device[i].card \in Cards
                                                    ELSE info'.device[i] = Vacant
    BY <1>14, <1>20
  <2>4. info'.count <= s[Reached']
    BY <1>14, <2>1
  <2> QED
    BY <1>1, <2>1, <2>2, <2>3, <2>4 DEF Layout
<1>27. ASSUME NEW i \in 1..MaxCount, info.device[i].card # None
       PROVE  info'.device[i].card = info.device[i].card
  BY <1>11, <1>12, <1>27 DEF Vacant
<1> QED
  BY <1>16, <1>17, <1>18, <1>19, <1>22, <1>23, <1>26, <1>27 DEF ListInv, Starts

\* A driver's adapters come to where they were: no entry changes its adapter.
LEMMA GetDriverInv ==
    ASSUME ListInv, NEW d \in G!Range(G!Drivers), G!GetDriver(d)
    PROVE  /\ ListInv'
           /\ \A i \in 1..MaxCount : info'.device[i].card = info.device[i].card
<1>1. /\ gpuPc = "get" /\ G!Turn(d) /\ ~(info.count >= MaxCount)
      /\ info # None /\ info \in Lists
      /\ turn' = turn + 1 /\ UNCHANGED <<present, data, gpuPc, cut>>
  BY DEF G!GetDriver, G!Full, ListInv, Typed
<1>2. /\ turn \in 1..5 /\ d = G!Drivers[turn] /\ DOMAIN data = G!Range(G!Drivers)
      /\ turn' \in 1..6 /\ Reached = 6 /\ Reached' = 6
  BY <1>1, TurnKnown DEF ListInv, Reached
<1>3. PICK start \in Starts : Layout(start)
  BY <1>1 DEF ListInv
<1>4. PICK t \in 1..5 : t = turn
  BY <1>2
<1>5. \A u \in 1..6 : start[u] \in 0..MaxCount
  BY DEF Starts
<1>6. info.count = start[t] /\ info.count \in Nat /\ info.count <= start[6]
  <2>1. info.count = start[t] /\ info.count <= start[6]
    BY <1>1, <1>2, <1>3, <1>4 DEF Layout
  <2>2. start[t] \in Nat
    BY <1>5, CountAssumption
  <2> QED
    BY <2>1, <2>2
<1> DEFINE seen == [info EXCEPT !.count = start[t]]
<1>7. seen = info
  BY <1>1, <1>6 DEF Lists
<1> HIDE DEF seen
\* What the driver gives now is what it gave when the list was made.
<1>8. /\ info' \in Lists
      /\ info'.count = start[t + 1]
      /\ \A i \in 1..MaxCount :
            /\ info'.device[i].card = info.device[i].card
            /\ i > info'.count => info'.device[i] = info.device[i]
            /\ i > info.count /\ i <= info'.count => info'.device[i].card \in Cards
            /\ Right(info'.device[i])
  <2>1. start[t + 1] = Least(start[t] + Len(Offer(t, start[t])))
    <3>1. t < Reached
      BY <1>2
    <3> QED
      BY <1>3, <3>1, Laid
  <2>2. ASSUME NEW i \in 1..MaxCount PROVE Right(info.device[i])
    BY <1>1 DEF ListInv, Rights
  <2>3. CASE data[d] = None
    <3>1. info' = info
      BY <1>1, <2>3 DEF G!GetDriver
    <3>2. Offer(t, start[t]) = <<>>
      BY <1>2, <1>4, <2>3 DEF Offer
    <3>3. start[t + 1] = start[t]
      <4>1. Len(Offer(t, start[t])) = 0
        BY <3>2
      <4>2. start[t] \in Nat /\ start[t] <= MaxCount
        BY <1>5, CountAssumption
      <4>3. start[t] + 0 = start[t]
        BY <4>2
      <4>4. start[t + 1] = Least(start[t])
        BY <2>1, <4>1, <4>3
      <4>5. Least(start[t]) = start[t]
        BY ONLY <4>2, CountAssumption DEF Least
      <4> QED
        BY <4>4, <4>5
    <3>4. ASSUME NEW i \in 1..MaxCount PROVE ~(i > info.count /\ i <= info'.count)
      BY <1>6, <3>1
    <3> QED
      BY <1>1, <1>6, <2>2, <3>1, <3>3, <3>4
  <2>4. CASE data[d] # None
    <3>1. data[d] \in Contexts /\ Sound(d, data[d])
      BY <2>4 DEF ListInv, Typed, Sounds
    <3>2. PICK answers \in SUBSET G!Range(data[d].cards) :
             info' = G!GetInfo(d, data[d], info, answers)
      BY <2>4 DEF G!GetDriver
    <3>3. answers \in SUBSET Cards
      <4>1. data[d].cards \in Seq(Cards)
        BY <3>1 DEF Contexts
      <4> QED
        BY <4>1 DEF G!Range
    <3>4. \A i \in 1..info.count : info.device[i].card \in Cards
      <4>1. PICK n \in Nat : n = info.count /\ n <= start[6] /\ start[6] \in 0..MaxCount
        BY <1>5, <1>6
      <4>2. \A i \in 1..n : i \in 1..MaxCount /\ i <= start[6]
        BY <4>1, CountAssumption
      <4> QED
        BY <1>2, <1>3, <4>1, <4>2 DEF Layout
    <3> DEFINE offered == G!Offered(d, data[d], info)
    <3>5. offered = Offer(t, start[t])
      BY <1>2, <1>4, <1>7, <2>4 DEF Offer, seen
    <3>6. /\ info' \in Lists
          /\ info'.count = Least(info.count + Len(offered))
          /\ \A i \in 1..MaxCount :
                /\ i <= info.count => info'.device[i].card = info.device[i].card
                /\ i > info'.count => info'.device[i] = info.device[i]
                /\ i > info.count /\ i <= info'.count =>
                      /\ info'.device[i].card \in Cards
                      /\ info'.device[i].card = offered[i - info.count]
                /\ /\ Right(info.device[i])
                   /\ i > info.count /\ i <= info'.count =>
                         info.device[i].card \in {None, offered[i - info.count]}
                   => Right(info'.device[i])
      BY <1>1, <3>1, <3>2, <3>3, <3>4, ListGrows
    <3> HIDE DEF offered
    <3>7. info'.count = start[t + 1]
      BY <1>6, <2>1, <3>5, <3>6
    <3>8. ASSUME NEW i \in 1..MaxCount, i > info.count, i <= info'.count
          PROVE  info.device[i].card = offered[i - info.count]
      <4>1. i \in start[t] + 1 .. start[t + 1]
        <5>1. PICK n \in Nat : n = info.count /\ n = start[t]
          BY <1>6
        <5>2. PICK m \in Nat : m = info'.count /\ m = start[t + 1]
          BY <1>5, <3>7, CountAssumption
        <5>3. i \in n + 1 .. m
          BY <3>8, <5>1, <5>2
        <5> QED
          BY <5>1, <5>2, <5>3
      <4>2. info.device[i].card = Offer(t, start[t])[i - start[t]]
        <5>1. t < Reached
          BY <1>2
        <5> QED
          BY <1>3, <4>1, <5>1, Laid
      <4> QED
        BY <1>6, <3>5, <4>2
    <3>9. ASSUME NEW i \in 1..MaxCount
          PROVE  /\ info'.device[i].card = info.device[i].card
                 /\ i > info'.count => info'.device[i] = info.device[i]
                 /\ i > info.count /\ i <= info'.count => info'.device[i].card \in Cards
                 /\ Right(info'.device[i])
      <4>1. Right(info.device[i])
        BY <2>2
      <4>2. info.count \in Nat /\ info'.count \in Nat
        BY <1>5, <1>6, <3>7, CountAssumption
      <4>3. CASE i <= info.count
        BY <3>6, <4>1, <4>2, <4>3
      <4>4. CASE i > info.count /\ i <= info'.count
        BY <3>6, <3>8, <4>1, <4>4
      <4>5. CASE i > info.count /\ i > info'.count
        BY <3>6, <4>1, <4>2, <4>5
      <4> QED
        BY <4>2, <4>3, <4>4, <4>5
    <3> QED
      BY <3>6, <3>7, <3>9
  <2> QED
    BY <2>3, <2>4
<1>9. info' # None
  BY <1>8, Somethings
<1>10. Typed' /\ Sounds'
  <2>1. Typed'
    BY <1>1, <1>2, <1>8, <1>9 DEF ListInv, Typed
  <2> QED
    BY <1>1, <2>1 DEF ListInv, Sounds, Sound
<1>11. Followed'
  BY <1>1, <1>9 DEF ListInv, Followed
<1>12. Apart' /\ Owned' /\ Rights'
  <2>1. Apart'
    BY <1>1, <1>8 DEF ListInv, Apart
  <2>2. Owned'
    BY <1>1 DEF Owned
  <2>3. Rights'
    BY <1>8 DEF Rights, Right
  <2> QED
    BY <2>1, <2>2, <2>3
<1>13. \A u \in 1..5 : Offer(u, start[u])' = Offer(u, start[u])
  <2> TAKE u \in 1..5
  <2>1. PICK n \in 0..MaxCount : n = start[u]
    BY <1>5
  <2>2. \A i \in 1..n : i \in 1..MaxCount
    BY CountAssumption
  <2>3. Offer(u, n)' = Offer(u, n)
    BY <1>1, <1>8, <2>2, SameOffer
  <2> QED
    BY <2>1, <2>3
<1>14. Layout(start)'
  <2>1. \A i \in 1..MaxCount : IF i <= start[6] THEN info'.device[i].card \in Cards
                                                ELSE info'.device[i] = Vacant
    <3> TAKE i \in 1..MaxCount
    <3>1. CASE i <= start[6]
      BY <1>2, <1>3, <1>8, <3>1 DEF Layout
    <3>2. CASE ~(i <= start[6])
      <4>1. info.device[i] = Vacant
        BY <1>2, <1>3, <3>2 DEF Layout
      <4>2. ~(i <= info'.count)
        <5>1. info'.device[i].card \notin Cards
          BY <1>8, <4>1, NoneAssumption DEF Vacant
        <5>2. ~(i <= info.count)
          BY <1>5, <1>6, <3>2
        <5> QED
          BY <1>6, <1>8, <5>1, <5>2
      <4>3. i > info'.count
        BY <1>5, <1>8, <4>2
      <4> QED
        BY <1>8, <3>2, <4>1, <4>3
    <3> QED
      BY <3>1, <3>2
  <2>2. info'.count <= start[6]
    <3>1. PICK n \in Nat : n = info'.count /\ n <= MaxCount /\ n = start[t + 1]
      BY <1>5, <1>8, CountAssumption
    <3>2. PICK m \in Nat : m = info.count /\ m <= start[6]
      BY <1>6
    <3>3. CASE n > m
      <4>1. n \in 1..MaxCount
        BY <3>1, <3>3
      <4>2. info'.device[n].card \in Cards
        BY <1>8, <3>1, <3>2, <3>3, <4>1
      <4> QED
        BY <2>1, <3>1, <4>1, <4>2, NoneAssumption DEF Vacant
    <3>4. CASE n <= m
      BY <1>5, <3>1, <3>2, <3>4
    <3> QED
      BY <3>1, <3>2, <3>3, <3>4
  <2>3. info'.count = start[turn'] /\ start[1] = 0
    BY <1>1, <1>3, <1>4, <1>8 DEF Layout
  <2>4. ASSUME NEW u \in 1..5
        PROVE  /\ start[u + 1] = Least(start[u] + Len(Offer(u, start[u])'))
               /\ \A i \in start[u] + 1 .. start[u + 1] :
                     info'.device[i].card = (Offer(u, start[u])')[i - start[u]]
    <3>1. /\ start[u + 1] = Least(start[u] + Len(Offer(u, start[u])))
          /\ \A i \in start[u] + 1 .. start[u + 1] :
                info.device[i].card = Offer(u, start[u])[i - start[u]]
      <4>1. u < Reached
        BY <1>2
      <4> QED
        BY <1>3, <4>1, Laid
    <3>2. \A i \in start[u] + 1 .. start[u + 1] : i \in 1..MaxCount
      BY <1>5, CountAssumption
    <3> QED
      BY <1>8, <1>13, <3>1, <3>2
  <2> QED
    BY <1>1, <1>2, <2>1, <2>2, <2>3, <2>4 DEF Layout
<1> QED
  BY <1>8, <1>9, <1>10, <1>11, <1>12, <1>14 DEF ListInv, Starts

LEMMA StepInv == ListInv /\ [G!Next]_gpuVars => ListInv'
<1> SUFFICES ASSUME ListInv, [G!Next]_gpuVars PROVE ListInv'
  OBVIOUS
<1>1. CASE UNCHANGED gpuVars
  <2>1. UNCHANGED <<present, data, info, gpuPc, turn, cut>>
    BY <1>1 DEF gpuVars
  <2>2. Typed' /\ Sounds' /\ Followed'
    BY <2>1 DEF ListInv, Typed, Sounds, Sound, Followed
  <2>3. (Apart <=> Apart') /\ (Owned <=> Owned') /\ (Rights <=> Rights')
    BY <2>1 DEF Apart, Owned, Rights, Right
  <2>4. \A start \in Starts : Layout(start) <=> Layout(start)'
    BY <2>1 DEF Layout, Offer, Reached
  <2> QED
    BY <2>1, <2>2, <2>3, <2>4 DEF ListInv, Starts
<1>2. CASE G!BeginInit
  BY <1>2, BeginInitInv
<1>3. CASE G!BeginGet
  BY <1>3, BeginGetInv
<1>4. CASE G!EndLoop
  BY <1>4, EndLoopInv
<1>5. CASE G!Free
  BY <1>5, FreeInv
<1>6. ASSUME NEW d \in G!Range(G!Drivers), G!InitFails(d) PROVE ListInv'
  BY <1>6, InitFailsInv
<1>7. ASSUME NEW d \in G!Range(G!Drivers), G!InitDriver(d) PROVE ListInv'
  BY <1>7, InitDriverInv
<1>8. ASSUME NEW d \in G!Range(G!Drivers), G!GetDriver(d) PROVE ListInv'
  BY <1>8, GetDriverInv
<1>9. ASSUME NEW c \in Cards, G!Plug(c) PROVE ListInv'
  BY <1>9, PlugInv
<1> QED
  BY <1>1, <1>2, <1>3, <1>4, <1>5, <1>6, <1>7, <1>8, <1>9 DEF G!Next, gpuVars, G!gpuVars

\* The layout of the list is kept by everything that makes, fills and frees it.
THEOREM ListLaidOut == G!Spec => []ListInv
<1>1. [G!Next]_(G!gpuVars) => [G!Next]_gpuVars
  BY DEF G!gpuVars, gpuVars
<1> QED
  BY <1>1, InitInv, StepInv, PTL DEF G!Spec

\* What the list will read and free is there, and without a list nothing is left: the
\* static pointers of the drivers follow NWLC->NwGpu (gpu.c:34-70), whichever of them fail.
THEOREM PointersFollowList == G!Spec => []ContextsFollowList
<1>1. ListInv => ContextsFollowList
  BY DEF ListInv, Followed, ContextsFollowList, G!ContextsFollowList
<1> QED
  BY <1>1, ListLaidOut, PTL

\* The list holds what fits, no adapter twice, and each with a reading that is its own or,
\* of adapters with the same ids, one of theirs (gpu.c:36-42, 58-65; d3d_gpu.c:167-184).
THEOREM ListedOnce == G!Spec => []OneEntryEach
<1>1. ASSUME ListInv, info # None PROVE G!OneEntryEach
  <2>1. info \in Lists
    BY <1>1 DEF ListInv, Typed
  <2>2. PICK start \in Starts : Layout(start)
    BY <1>1 DEF ListInv
  <2>3. Reached \in 1..6
    BY <1>1 DEF ListInv, Typed, Reached
  <2>4. PICK n \in 0..MaxCount : n = start[Reached] /\ info.count <= n
    BY <2>2, <2>3 DEF Starts, Layout
  <2>5. PICK m \in Nat : m = info.count
    BY <2>1, CountAssumption DEF Lists
  <2>6. \A i \in 1..m : i \in 1..MaxCount /\ i <= n
    BY <2>4, <2>5, CountAssumption
  <2>7. \A i \in 1..m : info.device[i].card \in Cards
    BY <2>2, <2>4, <2>6 DEF Layout
  <2>8. ASSUME NEW i \in 1..m, NEW j \in 1..m, info.device[i].card = info.device[j].card
        PROVE  i = j
    BY <1>1, <2>6, <2>7, <2>8, NoneAssumption DEF ListInv, Apart
  <2>9. ASSUME NEW i \in 1..m
        PROVE  LET entry == info.device[i]
               IN  \/ entry.reading \in {None, entry.card}
                   \/ \E c \in Cards \ {entry.card} : Ids[c] = Ids[entry.card]
    <3>1. Right(info.device[i])
      BY <1>1, <2>6 DEF ListInv, Rights
    <3> QED
      BY <3>1 DEF Right
  <2>10. info.count <= MaxCount
    BY <2>1, CountAssumption DEF Lists
  <2> QED
    BY <2>5, <2>8, <2>9, <2>10 DEF G!OneEntryEach
<1>2. ListInv => OneEntryEach
  BY <1>1 DEF OneEntryEach, G!OneEntryEach
<1> QED
  BY <1>2, ListLaidOut, PTL

\* An entry belongs to the same adapter as long as the list lives, although
\* NWL_GetGpuInfo fills it anew each time (gpu.c:51-67) and adapters come and go.
THEOREM EntriesStayTheirs == G!Spec => EntriesStay
<1> DEFINE Stays ==
      \A i \in G!Slots :
          info # None /\ info' # None /\ info.device[i].card # None =>
              info'.device[i].card = info.device[i].card
<1>1. ASSUME ListInv, [G!Next]_gpuVars PROVE Stays
  <2>1. CASE UNCHANGED info
    BY <2>1
  <2>2. CASE G!BeginInit
    BY <2>2 DEF G!BeginInit
  <2>3. CASE G!Free
    BY <2>3 DEF G!Free
  <2>4. CASE G!BeginGet
    <3>1. info # None => info \in Lists /\ info' = [info EXCEPT !.count = 0]
      BY <1>1, <2>4 DEF ListInv, Typed, G!BeginGet
    <3>2. info # None => info'.device = info.device
      BY <3>1 DEF Lists
    <3> QED
      BY <3>2
  <2>5. ASSUME NEW d \in G!Range(G!Drivers), G!GetDriver(d) PROVE Stays
    <3>1. \A i \in 1..MaxCount : info'.device[i].card = info.device[i].card
      BY <1>1, <2>5, GetDriverInv
    <3> QED
      BY <3>1 DEF G!Slots
  <2>6. ASSUME NEW d \in G!Range(G!Drivers), G!InitDriver(d) PROVE Stays
    <3>1. \A i \in 1..MaxCount : info.device[i].card # None =>
             info'.device[i].card = info.device[i].card
      BY <1>1, <2>6, InitDriverInv
    <3> QED
      BY <3>1 DEF G!Slots
  <2> HIDE DEF Stays
  <2>7. CASE G!EndLoop
    BY <2>1, <2>7 DEF G!EndLoop
  <2>8. ASSUME NEW d \in G!Range(G!Drivers), G!InitFails(d) PROVE Stays
    BY <2>1, <2>8 DEF G!InitFails
  <2>9. ASSUME NEW c \in Cards, G!Plug(c) PROVE Stays
    BY <2>1, <2>9 DEF G!Plug
  <2>10. CASE UNCHANGED gpuVars
    BY <2>1, <2>10 DEF gpuVars
  <2> QED
    BY <1>1, <2>2, <2>3, <2>4, <2>5, <2>6, <2>7, <2>8, <2>9, <2>10 DEF G!Next
<1>2. [G!Next]_(G!gpuVars) => [G!Next]_gpuVars
  BY DEF G!gpuVars, gpuVars
<1>3. ListInv /\ [G!Next]_(G!gpuVars) => [Stays]_(G!gpuVars)
  BY <1>1, <1>2
<1>4. EntriesStay <=> [][Stays]_(G!gpuVars)
  BY DEF EntriesStay, G!EntriesStay
<1> QED
  BY <1>3, <1>4, ListLaidOut, PTL DEF G!Spec

----------------------------------------------------------------------------
(* The options: the inductive invariant.                                    *)

Switchable == {"net", "disk", "uefi", "sensors"}

\* The record a collector leaves when all options of its name have reached it.
Expected(s) ==
    [section |-> s,
     flags |-> IF s \in C!Filtered THEN C!Completed(s, C!AskedFlags(s)) ELSE {},
     only |-> IF s \in {"net", "disk"} THEN C!AskedOnly(s) ELSE None,
     list |-> IF s \in C!Listed THEN C!AskedList(s) ELSE {},
     value |-> IF s \in C!Valued THEN C!AskedValue(s) ELSE None]

\* What the options read so far ask for is in the context; collectors complete only the
\* flags of their own section.
Gathered ==
    /\ argv \in Seq(Arguments)
    /\ sections = { s \in C!Range(C!Sections) : C!Given(s) # {} }
    /\ lists = [k \in C!Listed |-> C!AskedList(k)]
    /\ DOMAIN flags = C!Filtered /\ DOMAIN value = C!Valued
    /\ \A k \in Switchable :
          (\A i \in DOMAIN report : report[i].section # k) => flags[k] = C!AskedFlags(k)
    /\ \A s \in C!Valued \cap C!Range(C!Sections) : value[s] = C!AskedValue(s)

\* The strings options returned are held, and the context points at the last ones.
Apparatus == {<<"driver", 0>>, <<"file", 0>>}

Holding ==
    /\ clPc # "returned" => /\ path = [k \in {"net", "disk"} |-> C!AskedOnly(k)]
                            /\ held \ Apparatus = C!Strings
    /\ clPc = "returned" => held = C!Replaced

\* The report has the sections asked for as far as NW_Print got, in its order.
Reporting ==
    /\ next \in 0..Len(C!Sections)
    /\ clPc \in {"parse", "init", "open"} => next = 0
    /\ report \in Seq({ Expected(s) : s \in C!Range(C!Sections) })
    /\ { report[i].section : i \in DOMAIN report }
          = { C!Sections[p] : p \in { q \in 1..next : C!Sections[q] \in sections } }
    /\ \A i \in DOMAIN report : C!Place(report[i].section) <= next
    /\ \A i, j \in DOMAIN report :
          i < j => C!Place(report[i].section) < C!Place(report[j].section)
    /\ clPc \in {"fini", "returned"} =>
          \A p \in DOMAIN C!Sections : p > next => C!Sections[p] \notin sections

\* A program that exited is not asked for more.
OptionsInv == clPc # "exited" => Gathered /\ Holding /\ Reporting

----------------------------------------------------------------------------
(* The options: what the next one changes.                                  *)

LEMMA Largest ==
    ASSUME NEW n \in Nat, NEW places \in SUBSET (1..n), places # {}
    PROVE  \E i \in places : \A j \in places : j <= i
<1> DEFINE mirrored == { k \in 1..n : n + 1 - k \in places }
<1>1. \A i \in places : i \in 1..n /\ n + 1 - i \in 1..n /\ n + 1 - (n + 1 - i) = i
  <2> TAKE i \in places
  <2>1. i \in 1..n
    OBVIOUS
  <2> QED
    BY <2>1
<1>2. mirrored \in SUBSET (1..n) /\ mirrored # {} /\ \A i \in places : n + 1 - i \in mirrored
  BY <1>1
<1>3. PICK k \in mirrored : \A l \in mirrored : k <= l
  BY <1>2, Smallest
<1>4. k \in 1..n /\ n + 1 - k \in places
  OBVIOUS
<1>5. ASSUME NEW j \in places PROVE j <= n + 1 - k
  <2>1. k <= n + 1 - j /\ j \in 1..n
    BY <1>1, <1>2, <1>3
  <2> QED
    BY <1>4, <2>1
<1> QED
  BY <1>4, <1>5

\* The sections of a report, each in one place; --smart is none of them.
LEMMA SectionsKnown ==
    /\ Len(C!Sections) = 23 /\ DOMAIN C!Sections = 1..23
    /\ \A p \in 1..23 : C!Sections[p] \in C!Range(C!Sections)
    /\ \A s \in C!Range(C!Sections) : \E p \in 1..23 : s = C!Sections[p]
    /\ \A p, q \in 1..23 : C!Sections[p] = C!Sections[q] => p = q
    /\ "smart" \notin C!Range(C!Sections) /\ "cp" \notin C!Range(C!Sections)
<1>1. Len(C!Sections) = 23 /\ DOMAIN C!Sections = 1..23
  BY DEF C!Sections
<1>2. /\ \A p \in 1..23 : C!Sections[p] \in C!Range(C!Sections)
      /\ \A s \in C!Range(C!Sections) : \E p \in 1..23 : s = C!Sections[p]
  BY <1>1 DEF C!Range
<1>3. \A p, q \in 1..23 : C!Sections[p] = C!Sections[q] => p = q
  BY DEF C!Sections
<1>4. \A p \in 1..23 : C!Sections[p] \notin {"smart", "cp"}
  BY DEF C!Sections
<1> QED
  BY <1>1, <1>2, <1>3, <1>4

\* A section is where it is.
LEMMA PlaceIs ==
    ASSUME NEW p \in 1..23
    PROVE  C!Place(C!Sections[p]) = p
  BY SectionsKnown DEF C!Place

\* The last option of a name is the last one.
LEMMA LastGiven ==
    ASSUME NEW k, argv \in Seq(Arguments), C!Given(k) # {}
    PROVE  /\ C!GivenLast(k) \in C!Given(k)
           /\ \A j \in C!Given(k) : j <= C!GivenLast(k)
<1>1. C!Given(k) \in SUBSET (1..Len(argv)) /\ Len(argv) \in Nat
  BY DEF C!Given
<1>2. \E i \in C!Given(k) : \A j \in C!Given(k) : j <= i
  BY <1>1, Largest
<1> QED
  BY <1>2 DEF C!GivenLast

\* Which options of a name there are, with one more on the command line.
LEMMA OneMore ==
    ASSUME argv \in Seq(Arguments), NEW o \in Arguments, argv' = Append(argv, o)
    PROVE  /\ argv' \in Seq(Arguments) /\ Len(argv) \in Nat
           /\ DOMAIN argv' = 1..(Len(argv) + 1) /\ DOMAIN argv = 1..Len(argv)
           /\ argv'[Len(argv) + 1] = o
           /\ \A i \in 1..Len(argv) : argv'[i] = argv[i]
           /\ \A k : /\ C!Given(k) \in SUBSET (1..Len(argv))
                     /\ k = o.name => C!Given(k)' = C!Given(k) \cup {Len(argv) + 1}
                     /\ k # o.name => C!Given(k)' = C!Given(k)
<1>1. /\ argv' \in Seq(Arguments) /\ Len(argv) \in Nat
      /\ DOMAIN argv' = 1..(Len(argv) + 1) /\ DOMAIN argv = 1..Len(argv)
      /\ argv'[Len(argv) + 1] = o
      /\ \A i \in 1..Len(argv) : argv'[i] = argv[i]
  OBVIOUS
<1>2. ASSUME NEW k
      PROVE  /\ C!Given(k) \in SUBSET (1..Len(argv))
             /\ k = o.name => C!Given(k)' = C!Given(k) \cup {Len(argv) + 1}
             /\ k # o.name => C!Given(k)' = C!Given(k)
  <2>1. C!Given(k) \in SUBSET (1..Len(argv))
    BY <1>1 DEF C!Given
  <2>2. ASSUME NEW i PROVE i \in C!Given(k)' <=> i \in 1..(Len(argv) + 1) /\ argv'[i].name = k
    BY <1>1 DEF C!Given
  <2>3. ASSUME NEW i PROVE i \in C!Given(k) <=> i \in 1..Len(argv) /\ argv[i].name = k
    BY <1>1 DEF C!Given
  <2>4. PICK n \in Nat : n = Len(argv)
    BY <1>1
  <2>5. \A i : i \in 1..(n + 1) <=> i \in 1..n \/ i = n + 1
    OBVIOUS
  <2>6. /\ argv'[n + 1] = o /\ \A i \in 1..n : argv'[i] = argv[i]
        /\ \A i : i \in C!Given(k)' <=> i \in 1..(n + 1) /\ argv'[i].name = k
        /\ \A i : i \in C!Given(k) <=> i \in 1..n /\ argv[i].name = k
    BY <1>1, <2>2, <2>3, <2>4
  <2>7. ASSUME k = o.name PROVE \A i : i \in C!Given(k)' <=> i \in C!Given(k) \/ i = n + 1
    BY <2>5, <2>6, <2>7
  <2>8. ASSUME k # o.name PROVE \A i : i \in C!Given(k)' <=> i \in C!Given(k)
    BY <2>5, <2>6, <2>8
  <2>9. k = o.name => C!Given(k)' = C!Given(k) \cup {n + 1}
    BY <2>7
  <2> QED
    BY <2>1, <2>4, <2>8, <2>9
<1> QED
  BY <1>1, <1>2

\* The last option of the new one's name is the new one.
LEMMA LastMoved ==
    ASSUME NEW k, NEW o \in Arguments, argv \in Seq(Arguments), argv' = Append(argv, o)
    PROVE  /\ k = o.name => C!GivenLast(k)' = Len(argv) + 1
           /\ k # o.name => C!GivenLast(k)' = C!GivenLast(k)
<1>1. CASE k = o.name
  <2>1. C!Given(k)' = C!Given(k) \cup {Len(argv) + 1} /\ C!Given(k) \in SUBSET (1..Len(argv))
    BY <1>1, OneMore
  <2>2. Len(argv) \in Nat
    OBVIOUS
  <2>3. \A i \in C!Given(k)' : (\A j \in C!Given(k)' : j <= i) <=> i = Len(argv) + 1
    BY <2>1, <2>2
  <2>4. C!GivenLast(k)' = CHOOSE i \in C!Given(k)' : \A j \in C!Given(k)' : j <= i
    BY DEF C!GivenLast
  <2> QED
    BY <1>1, <2>1, <2>3, <2>4
<1>2. CASE k # o.name
  <2>1. C!Given(k)' = C!Given(k)
    BY <1>2, OneMore
  <2> QED
    BY <1>2, <2>1 DEF C!GivenLast
<1> QED
  BY <1>1, <1>2

\* With the same options, the same is asked for.
LEMMA AskedSame ==
    ASSUME UNCHANGED argv
    PROVE  /\ \A k : /\ C!Given(k)' = C!Given(k)
                     /\ C!AskedFlags(k)' = C!AskedFlags(k) /\ C!AskedOnly(k)' = C!AskedOnly(k)
                     /\ C!AskedList(k)' = C!AskedList(k) /\ C!AskedValue(k)' = C!AskedValue(k)
                     /\ Expected(k)' = Expected(k)
           /\ C!Strings' = C!Strings /\ C!Replaced' = C!Replaced
<1>1. ASSUME NEW k
      PROVE  C!Given(k)' = C!Given(k) /\ C!GivenLast(k)' = C!GivenLast(k)
  BY DEF C!Given, C!GivenLast
<1>2. ASSUME NEW k
      PROVE  /\ C!AskedFlags(k)' = C!AskedFlags(k) /\ C!AskedOnly(k)' = C!AskedOnly(k)
             /\ C!AskedList(k)' = C!AskedList(k) /\ C!AskedValue(k)' = C!AskedValue(k)
  <2>1. C!AskedFlags(k)' = C!AskedFlags(k)
    BY DEF C!AskedFlags, C!GivenItems, C!Given, C!GivenLast
  <2>2. C!AskedOnly(k)' = C!AskedOnly(k)
    BY DEF C!AskedOnly, C!Given, C!GivenLast
  <2>3. C!AskedList(k)' = C!AskedList(k)
    BY DEF C!AskedList, C!Given
  <2>4. C!AskedValue(k)' = C!AskedValue(k)
    BY DEF C!AskedValue, C!Given
  <2> QED
    BY <2>1, <2>2, <2>3, <2>4
<1>3. ASSUME NEW k PROVE Expected(k)' = Expected(k)
  BY <1>2 DEF Expected
<1>4. C!Strings' = C!Strings
  BY DEF C!Strings, C!Given
<1>5. C!Replaced' = C!Replaced
  BY <1>4 DEF C!Replaced, C!GivenLast, C!Given
<1> QED
  BY <1>1, <1>2, <1>3, <1>4, <1>5

\* The flags and the list items an option adds to those its earlier ones asked for.
LEMMA MoreFlags ==
    ASSUME argv \in Seq(Arguments), NEW o \in Arguments, argv' = Append(argv, o), NEW k
    PROVE  /\ k # "smart" /\ k = o.name
                => C!AskedFlags(k)' = C!nwinfo_get_opts(k, C!AskedFlags(k), o.items)
           /\ k # "smart" /\ k # o.name => C!AskedFlags(k)' = C!AskedFlags(k)
           /\ k = o.name => C!AskedList(k)'
                             = C!AskedList(k) \cup C!nwinfo_parse_arg_set(k, o.items)
           /\ k # o.name => C!AskedList(k)' = C!AskedList(k)
<1> PICK n : n = Len(argv) + 1
  OBVIOUS
<1>1. /\ argv'[n] = o /\ \A i \in C!Given(k) : argv'[i] = argv[i]
      /\ k = o.name => C!Given(k)' = C!Given(k) \cup {n}
      /\ k # o.name => C!Given(k)' = C!Given(k)
  <2>1. C!Given(k) \in SUBSET (1..Len(argv)) /\ \A i \in 1..Len(argv) : argv'[i] = argv[i]
    BY OneMore
  <2> QED
    BY <2>1, OneMore
<1>2. /\ C!GivenItems(n)' = C!Range(C!Taken(o.items))
      /\ \A i \in C!Given(k) : C!GivenItems(i)' = C!GivenItems(i)
  <2>1. ASSUME NEW i PROVE C!GivenItems(i)' = C!Range(C!Taken(argv'[i].items))
    BY DEF C!GivenItems
  <2> QED
    BY <1>1, <2>1 DEF C!GivenItems
<1>3. ASSUME NEW f, k # "smart"
      PROVE  /\ f \in C!AskedFlags(k)
                  <=> f \in C!Known[k] /\ \E i \in C!Given(k) : f \in C!GivenItems(i)
             /\ f \in C!AskedFlags(k)'
                  <=> f \in C!Known[k] /\ \E i \in C!Given(k)' : f \in C!GivenItems(i)'
  BY <1>3 DEF C!AskedFlags
<1>4. ASSUME NEW f
      PROVE  /\ f \in C!AskedList(k)
                  <=> \E i \in C!Given(k) : f \in C!nwinfo_parse_arg_set(k, argv[i].items)
             /\ f \in C!AskedList(k)'
                  <=> \E i \in C!Given(k)' : f \in C!nwinfo_parse_arg_set(k, argv'[i].items)
  BY DEF C!AskedList
<1>5. CASE k = o.name
  <2>1. ASSUME NEW f, k # "smart"
        PROVE  f \in C!AskedFlags(k)'
                 <=> f \in C!nwinfo_get_opts(k, C!AskedFlags(k), o.items)
    <3>1. f \in C!AskedFlags(k)'
            <=> f \in C!AskedFlags(k) \/ (f \in C!Known[k] /\ f \in C!GivenItems(n)')
      BY <1>1, <1>2, <1>3, <1>5, <2>1
    <3> QED
      BY <1>2, <3>1 DEF C!nwinfo_get_opts
  <2>2. ASSUME NEW f
        PROVE  f \in C!AskedList(k)'
                 <=> f \in C!AskedList(k) \/ f \in C!nwinfo_parse_arg_set(k, o.items)
    BY <1>1, <1>4, <1>5
  <2>3. k # "smart" => C!AskedFlags(k)' = C!nwinfo_get_opts(k, C!AskedFlags(k), o.items)
    BY <2>1
  <2>4. C!AskedList(k)' = C!AskedList(k) \cup C!nwinfo_parse_arg_set(k, o.items)
    BY <2>2
  <2> QED
    BY <1>5, <2>3, <2>4
<1>6. CASE k # o.name
  <2>1. ASSUME NEW f, k # "smart" PROVE f \in C!AskedFlags(k)' <=> f \in C!AskedFlags(k)
    BY <1>1, <1>2, <1>3, <1>6, <2>1
  <2>2. ASSUME NEW f PROVE f \in C!AskedList(k)' <=> f \in C!AskedList(k)
    BY <1>1, <1>4, <1>6
  <2>3. k # "smart" => C!AskedFlags(k)' = C!AskedFlags(k)
    BY <2>1
  <2>4. C!AskedList(k)' = C!AskedList(k)
    BY <2>2
  <2> QED
    BY <1>6, <2>3, <2>4
<1> QED
  BY <1>5, <1>6

\* Its string and its value, which take the place of those before.
LEMMA OtherString ==
    ASSUME argv \in Seq(Arguments), NEW o \in Arguments, argv' = Append(argv, o), NEW k
    PROVE  /\ k = o.name => C!AskedOnly(k)' = C!Returned(k, o.items)
           /\ k # o.name => C!AskedOnly(k)' = C!AskedOnly(k)
<1>1. CASE k = o.name
  <2>1. C!Given(k)' # {} /\ C!GivenLast(k)' = Len(argv) + 1 /\ argv'[Len(argv) + 1] = o
    BY <1>1, OneMore, LastMoved
  <2>2. C!AskedOnly(k)' = C!Returned(k, argv'[C!GivenLast(k)'].items)
    BY <2>1 DEF C!AskedOnly
  <2> QED
    BY <1>1, <2>1, <2>2
<1>2. CASE k # o.name
  <2>1. /\ C!Given(k)' = C!Given(k) /\ C!GivenLast(k)' = C!GivenLast(k)
        /\ C!Given(k) \in SUBSET (1..Len(argv)) /\ \A i \in 1..Len(argv) : argv'[i] = argv[i]
    BY <1>2, OneMore, LastMoved
  <2>2. C!Given(k) # {} => C!GivenLast(k) \in C!Given(k)
    BY LastGiven
  <2>3. C!Given(k) # {} => argv'[C!GivenLast(k)'] = argv[C!GivenLast(k)]
    BY <2>1, <2>2
  <2> QED
    BY <1>2, <2>1, <2>3 DEF C!AskedOnly
<1> QED
  BY <1>1, <1>2
\* The options of a name whose value is accepted.
Good(k) == { i \in C!Given(k) : argv[i].items # <<>> /\ C!Accepted(k, argv[i].items[1]) }

LEMMA OtherValue ==
    ASSUME argv \in Seq(Arguments), NEW o \in Arguments, argv' = Append(argv, o), NEW k
    PROVE  LET good == k = o.name /\ o.items # <<>> /\ C!Accepted(k, o.items[1]) IN
           /\ good => C!AskedValue(k)' = o.items[1]
           /\ ~good => C!AskedValue(k)' = C!AskedValue(k)
<1> DEFINE good == k = o.name /\ o.items # <<>> /\ C!Accepted(k, o.items[1])
<1> PICK n \in Nat : n = Len(argv)
  OBVIOUS
<1>1. /\ argv'[n + 1] = o /\ C!Given(k) \in SUBSET (1..n)
      /\ \A i \in C!Given(k) : argv'[i] = argv[i]
      /\ k = o.name => C!Given(k)' = C!Given(k) \cup {n + 1}
      /\ k # o.name => C!Given(k)' = C!Given(k)
  <2>1. C!Given(k) \in SUBSET (1..Len(argv)) /\ \A i \in 1..Len(argv) : argv'[i] = argv[i]
    BY OneMore
  <2> QED
    BY <2>1, OneMore
<1>2. Good(k)' = { i \in C!Given(k)' :
                     argv'[i].items # <<>> /\ C!Accepted(k, argv'[i].items[1]) }
  BY DEF Good, C!Accepted
<1>3. /\ good => Good(k)' = Good(k) \cup {n + 1}
      /\ ~good => Good(k)' = Good(k)
  BY <1>1, <1>2 DEF Good
<1>4. /\ C!AskedValue(k) = IF Good(k) = {} THEN None
                           ELSE argv[CHOOSE i \in Good(k) : \A j \in Good(k) : j <= i].items[1]
      /\ C!AskedValue(k)'
            = IF Good(k)' = {} THEN None
              ELSE argv'[CHOOSE i \in Good(k)' : \A j \in Good(k)' : j <= i].items[1]
  BY DEF C!AskedValue, Good
<1>5. Good(k) \in SUBSET (1..n)
  BY <1>1 DEF Good
<1>6. CASE good
  <2>1. \A i \in Good(k)' : (\A j \in Good(k)' : j <= i) <=> i = n + 1
    BY <1>3, <1>5, <1>6
  <2>2. n + 1 \in Good(k)'
    BY <1>3, <1>6
  <2>3. (CHOOSE i \in Good(k)' : \A j \in Good(k)' : j <= i) = n + 1
    BY <2>1, <2>2
  <2> QED
    BY <1>1, <1>4, <1>6, <2>2, <2>3
<1>7. CASE ~good
  <2>1. Good(k)' = Good(k)
    BY <1>3, <1>7
  <2>2. CASE Good(k) = {}
    BY <1>4, <1>7, <2>1, <2>2
  <2>3. CASE Good(k) # {}
    <3>1. \E i \in Good(k) : \A j \in Good(k) : j <= i
      BY <1>5, <2>3, Largest
    <3>2. PICK l : l = CHOOSE i \in Good(k) : \A j \in Good(k) : j <= i
      OBVIOUS
    <3>3. l \in Good(k)
      BY <3>1, <3>2
    <3>4. argv'[l] = argv[l]
      BY <1>1, <3>3 DEF Good
    <3> QED
      BY <1>4, <1>7, <2>1, <2>3, <3>2, <3>4
  <2> QED
    BY <2>2, <2>3
<1> QED
  BY <1>6, <1>7

\* The strings there are, with those one more option returns.
LEMMA MoreStrings ==
    ASSUME argv \in Seq(Arguments), NEW o \in Arguments, argv' = Append(argv, o)
    PROVE  LET some == o.name \in {"net", "disk"} /\ C!Returned(o.name, o.items) # None IN
           /\ some => C!Strings' = C!Strings \cup {<<o.name, Len(argv) + 1>>}
           /\ ~some => C!Strings' = C!Strings
<1> DEFINE some == o.name \in {"net", "disk"} /\ C!Returned(o.name, o.items) # None
<1> PICK n \in Nat : n = Len(argv)
  OBVIOUS
<1>1. /\ DOMAIN argv = 1..n /\ DOMAIN argv' = 1..(n + 1) /\ argv'[n + 1] = o
      /\ \A i \in 1..n : argv'[i] = argv[i]
  BY OneMore
<1>2. ASSUME NEW k \in {"net", "disk"}, NEW i
      PROVE  /\ <<k, i>> \in C!Strings
                  <=> i \in 1..n /\ argv[i].name = k /\ C!Returned(k, argv[i].items) # None
             /\ <<k, i>> \in C!Strings'
                  <=> i \in 1..(n + 1) /\ argv'[i].name = k
                      /\ C!Returned(k, argv'[i].items) # None
  BY <1>1 DEF C!Strings, C!Given
<1>3. ASSUME NEW k \in {"net", "disk"}, NEW i
      PROVE  <<k, i>> \in C!Strings'
               <=> <<k, i>> \in C!Strings \/ (some /\ k = o.name /\ i = n + 1)
  <2>1. i \in 1..(n + 1) <=> i \in 1..n \/ i = n + 1
    OBVIOUS
  <2>2. n + 1 \notin 1..n
    OBVIOUS
  <2> QED
    BY <1>1, <1>2, <2>1, <2>2
<1>4. /\ \A h \in C!Strings : h[1] \in {"net", "disk"} /\ h = <<h[1], h[2]>>
      /\ \A h \in C!Strings' : h[1] \in {"net", "disk"} /\ h = <<h[1], h[2]>>
  BY DEF C!Strings
<1> HIDE DEF some
<1>5. some => o.name \in {"net", "disk"}
  BY DEF some
<1>6. ASSUME some PROVE C!Strings' = C!Strings \cup {<<o.name, n + 1>>}
  <2>1. ASSUME NEW h \in C!Strings' PROVE h \in C!Strings \cup {<<o.name, n + 1>>}
    <3>1. h = <<h[1], h[2]>> /\ h[1] \in {"net", "disk"}
      BY <1>4
    <3>2. <<h[1], h[2]>> \in C!Strings \/ (h[1] = o.name /\ h[2] = n + 1)
      BY <1>3, <3>1
    <3> QED
      BY <3>1, <3>2
  <2>2. ASSUME NEW h \in C!Strings PROVE h \in C!Strings'
    <3>1. h = <<h[1], h[2]>> /\ h[1] \in {"net", "disk"}
      BY <1>4
    <3> QED
      BY <1>3, <3>1
  <2>3. <<o.name, n + 1>> \in C!Strings'
    BY <1>3, <1>5, <1>6
  <2> QED
    BY <2>1, <2>2, <2>3
<1>7. ASSUME ~some PROVE C!Strings' = C!Strings
  <2>1. ASSUME NEW h \in C!Strings' PROVE h \in C!Strings
    <3>1. h = <<h[1], h[2]>> /\ h[1] \in {"net", "disk"}
      BY <1>4
    <3>2. <<h[1], h[2]>> \in C!Strings
      BY <1>3, <1>7, <3>1
    <3> QED
      BY <3>1, <3>2
  <2>2. ASSUME NEW h \in C!Strings PROVE h \in C!Strings'
    <3>1. h = <<h[1], h[2]>> /\ h[1] \in {"net", "disk"}
      BY <1>4
    <3> QED
      BY <1>3, <3>1
  <2> QED
    BY <2>1, <2>2
<1> QED
  BY <1>6, <1>7 DEF some
----------------------------------------------------------------------------
(* The options: the invariant, action by action.                            *)

\* Where NW_Print has not begun, nothing is reported.
LEMMA NothingYet ==
    ASSUME Reporting, next = 0
    PROVE  report = <<>>
<1>1. \A i \in DOMAIN report : report[i].section \in { report[j].section : j \in DOMAIN report }
  OBVIOUS
<1>2. { report[j].section : j \in DOMAIN report } = {}
  BY DEF Reporting
<1>3. Len(report) \in Nat /\ DOMAIN report = 1..Len(report)
  BY DEF Reporting
<1>4. Len(report) = 0
  <2>1. SUFFICES ASSUME Len(report) # 0 PROVE FALSE
    OBVIOUS
  <2>2. 1 \in DOMAIN report
    BY <1>3, <2>1
  <2> QED
    BY <1>1, <1>2, <2>2
<1>5. report \in Seq({ Expected(s) : s \in C!Range(C!Sections) })
  BY DEF Reporting
<1> QED
  BY <1>4, <1>5

\* And it stays so while options are read.
LEMMA StillNothing ==
    ASSUME report' = <<>>, next' = 0, clPc' \notin {"fini", "returned"}
    PROVE  Reporting'
<1>1. \A S : <<>> \in Seq(S)
  OBVIOUS
<1>2. DOMAIN report' = {}
  OBVIOUS
<1>3. Len(C!Sections)' = 23 /\ next' \in 0..23
  <2>1. Len(C!Sections)' = 23
    BY DEF C!Sections
  <2> QED
    BY <2>1
<1>4. report' \in Seq({ Expected(s)' : s \in C!Range(C!Sections)' })
  BY <1>1
<1>5. { report'[i].section : i \in DOMAIN report' } = {}
  BY <1>2
<1>6. { C!Sections[p]' : p \in { q \in 1..next' : C!Sections[q]' \in sections' } } = {}
  <2>1. \A q : q \notin 1..next'
    OBVIOUS
  <2> QED
    BY <2>1
<1> QED
  BY <1>1, <1>2, <1>3, <1>4, <1>5, <1>6 DEF Reporting

\* Before the first option nothing is asked for.
LEMMA StartsBare == C!Init => OptionsInv
<1> SUFFICES ASSUME C!Init PROVE OptionsInv
  OBVIOUS
<1> USE DEF C!Init
<1>1. \A k : C!Given(k) = {}
  BY DEF C!Given
<1>2. \A k : /\ C!AskedFlags(k) = {} /\ C!AskedOnly(k) = None
             /\ C!AskedList(k) = {} /\ C!AskedValue(k) = None
  BY <1>1 DEF C!AskedFlags, C!AskedOnly, C!AskedList, C!AskedValue
<1>3. Gathered
  <2>1. argv \in Seq(Arguments)
    OBVIOUS
  <2>2. sections = { s \in C!Range(C!Sections) : C!Given(s) # {} }
    BY <1>1
  <2>3. lists = [k \in C!Listed |-> C!AskedList(k)]
    BY <1>2
  <2>4. DOMAIN flags = C!Filtered /\ \A k \in Switchable : flags[k] = C!AskedFlags(k)
    BY <1>2 DEF Switchable, C!Filtered
  <2>5. "format" \notin C!Range(C!Sections)
    BY DEF C!Range, C!Sections
  <2>6. DOMAIN value = C!Valued
        /\ \A s \in C!Valued \cap C!Range(C!Sections) : value[s] = C!AskedValue(s)
    BY <1>2, <2>5
  <2> QED
    BY <2>1, <2>2, <2>3, <2>4, <2>6 DEF Gathered
<1>4. Holding
  <2>1. C!Strings = {}
    BY <1>1 DEF C!Strings
  <2>2. path = [k \in {"net", "disk"} |-> C!AskedOnly(k)]
    BY <1>2
  <2> QED
    BY <2>1, <2>2 DEF Holding
<1>5. Reporting
  <2>1. \A S : <<>> \in Seq(S)
    OBVIOUS
  <2>2. DOMAIN report = {} /\ Len(C!Sections) = 23
    BY SectionsKnown
  <2>3. { q \in 1..next : C!Sections[q] \in sections } = {}
    OBVIOUS
  <2>4. { report[i].section : i \in DOMAIN report }
          = { C!Sections[p] : p \in { q \in 1..next : C!Sections[q] \in sections } }
    BY <2>2, <2>3
  <2>5. next \in 0..Len(C!Sections)
    BY <2>2
  <2>6. report \in Seq({ Expected(s) : s \in C!Range(C!Sections) })
    BY <2>1
  <2> QED
    BY <2>2, <2>4, <2>5, <2>6 DEF Reporting
<1> QED
  BY <1>3, <1>4, <1>5 DEF OptionsInv

\* An option is added to what is asked for, and to the context.
LEMMA OptionKeeps ==
    ASSUME OptionsInv, NEW o \in Arguments, C!ParseOption(o)
    PROVE  OptionsInv'
<1> USE DEF OptionsInv
<1>0. Gathered /\ Holding /\ Reporting
  BY DEF C!ParseOption
<1>1. /\ argv \in Seq(Arguments) /\ argv' = Append(argv, o) /\ clPc = "parse" /\ clPc' = clPc
      /\ next' = next /\ report' = report
  BY <1>0 DEF C!ParseOption, Gathered
<1>2. next = 0 /\ report = <<>>
  BY <1>0, <1>1, NothingYet DEF Reporting
<1>3. Reporting'
  BY <1>1, <1>2, StillNothing
<1>4. Gathered'
  <2>1. argv' \in Seq(Arguments)
    BY <1>1
  <2>2. sections' = { s \in C!Range(C!Sections) : C!Given(s)' # {} }
    <3>1. sections' = sections \cup ({o.name} \cap C!Range(C!Sections))
      BY DEF C!ParseOption
    <3>2. sections = { s \in C!Range(C!Sections) : C!Given(s) # {} }
      BY <1>0 DEF Gathered
    <3>3. \A s : C!Given(s)' # {} <=> C!Given(s) # {} \/ s = o.name
      BY <1>1, OneMore
    <3> QED
      BY <3>1, <3>2, <3>3
  <2>3. lists' = [k \in C!Listed |-> C!AskedList(k)']
    <3>1. lists = [k \in C!Listed |-> C!AskedList(k)]
      BY <1>0 DEF Gathered
    <3>2. lists' = IF o.name \in C!Listed
                   THEN [lists EXCEPT ![o.name] = @ \cup C!nwinfo_parse_arg_set(o.name, o.items)]
                   ELSE lists
      BY DEF C!ParseOption
    <3>3. ASSUME NEW k
          PROVE  /\ k = o.name => C!AskedList(k)'
                                   = C!AskedList(k) \cup C!nwinfo_parse_arg_set(k, o.items)
                 /\ k # o.name => C!AskedList(k)' = C!AskedList(k)
      BY <1>1, MoreFlags
    <3> QED
      BY <3>1, <3>2, <3>3
  <2>4. DOMAIN flags' = C!Filtered /\ \A k \in Switchable : flags'[k] = C!AskedFlags(k)'
    <3>1. DOMAIN flags = C!Filtered /\ \A k \in Switchable : flags[k] = C!AskedFlags(k)
      BY <1>0, <1>2 DEF Gathered
    <3>2. flags' = IF o.name \notin C!Filtered THEN flags
                   ELSE [flags EXCEPT ![o.name] =
                            C!nwinfo_get_opts(o.name, IF o.name = "smart" THEN {} ELSE @,
                                              o.items)]
      BY DEF C!ParseOption, C!StoreFlags
    <3>3. \A k \in Switchable : k \in C!Filtered /\ k # "smart"
      BY DEF Switchable, C!Filtered
    <3>4. ASSUME NEW k \in Switchable PROVE flags'[k] = C!AskedFlags(k)'
      <4>1. CASE k = o.name
        <5>1. C!AskedFlags(k)' = C!nwinfo_get_opts(k, C!AskedFlags(k), o.items)
          BY <1>1, <3>3, <4>1, MoreFlags
        <5> QED
          BY <3>1, <3>2, <3>3, <4>1, <5>1
      <4>2. CASE k # o.name
        <5>1. C!AskedFlags(k)' = C!AskedFlags(k)
          BY <1>1, <3>3, <4>2, MoreFlags
        <5> QED
          BY <3>1, <3>2, <3>3, <4>2, <5>1
      <4> QED
        BY <4>1, <4>2
    <3> QED
      BY <3>1, <3>2, <3>4
  <2>5. DOMAIN value' = C!Valued
        /\ \A s \in C!Valued \cap C!Range(C!Sections) : value'[s] = C!AskedValue(s)'
    <3>1. DOMAIN value = C!Valued
          /\ \A s \in C!Valued \cap C!Range(C!Sections) : value[s] = C!AskedValue(s)
      BY <1>0 DEF Gathered
    <3>2. C!StoreValue(o)
      BY DEF C!ParseOption
    <3>3. ASSUME NEW s \in C!Valued \cap C!Range(C!Sections) PROVE value'[s] = C!AskedValue(s)'
      <4> DEFINE good == s = o.name /\ o.items # <<>> /\ C!Accepted(s, o.items[1])
      <4>1. s # "cp"
        BY SectionsKnown
      <4>2. /\ good => C!AskedValue(s)' = o.items[1]
            /\ ~good => C!AskedValue(s)' = C!AskedValue(s)
        BY <1>1, OtherValue
      <4>3. good => value'[s] = o.items[1]
        BY <3>1, <3>2 DEF C!StoreValue
      <4>4. ~good => value'[s] = value[s]
        BY <3>1, <3>2, <4>1 DEF C!StoreValue
      <4> QED
        BY <3>1, <4>2, <4>3, <4>4
    <3>4. DOMAIN value' = C!Valued
      BY <3>1, <3>2 DEF C!StoreValue
    <3> QED
      BY <3>3, <3>4
  <2> QED
    BY <2>1, <2>2, <2>3, <2>4, <2>5 DEF Gathered
<1>5. Holding'
  <2>1. C!StorePath(o) /\ path = [k \in {"net", "disk"} |-> C!AskedOnly(k)]
        /\ held \ Apparatus = C!Strings
    BY <1>0, <1>1 DEF C!ParseOption, Holding
  <2>2. ASSUME NEW k
        PROVE  /\ k = o.name => C!AskedOnly(k)' = C!Returned(k, o.items)
               /\ k # o.name => C!AskedOnly(k)' = C!AskedOnly(k)
    BY <1>1, OtherString
  <2>3. path' = [k \in {"net", "disk"} |-> C!AskedOnly(k)']
    BY <2>1, <2>2 DEF C!StorePath
  <2> DEFINE some == o.name \in {"net", "disk"} /\ C!Returned(o.name, o.items) # None
  <2>4. /\ some => C!Strings' = C!Strings \cup {<<o.name, Len(argv) + 1>>}
        /\ ~some => C!Strings' = C!Strings
    BY <1>1, MoreStrings
  <2>5. /\ some => held' = held \cup {<<o.name, Len(argv) + 1>>}
        /\ ~some => held' = held
    BY <2>1 DEF C!StorePath
  <2>6. some => <<o.name, Len(argv) + 1>> \notin Apparatus
    BY DEF Apparatus
  <2> HIDE DEF some
  <2>7. held' \ Apparatus = C!Strings'
    BY <2>1, <2>4, <2>5, <2>6
  <2> QED
    BY <1>1, <2>3, <2>7 DEF Holding, Apparatus
<1> QED
  BY <1>3, <1>4, <1>5
\* What the other steps leave alone stays as it was asked for.
LEMMA GatheredStays ==
    ASSUME Gathered, UNCHANGED <<argv, sections, lists, report>>,
           DOMAIN flags' = C!Filtered, DOMAIN value' = C!Valued,
           \A k \in Switchable : flags'[k] = flags[k],
           \A s \in C!Valued \cap C!Range(C!Sections) : value'[s] = value[s]
    PROVE  Gathered'
<1>1. \A k : /\ C!Given(k)' = C!Given(k) /\ C!AskedFlags(k)' = C!AskedFlags(k)
             /\ C!AskedList(k)' = C!AskedList(k) /\ C!AskedValue(k)' = C!AskedValue(k)
  BY AskedSame
<1>2. /\ argv' \in Seq(Arguments)
      /\ sections' = { s \in C!Range(C!Sections) : C!Given(s)' # {} }
      /\ lists' = [k \in C!Listed |-> C!AskedList(k)']
  BY <1>1 DEF Gathered
<1>3. \A k \in Switchable :
         (\A i \in DOMAIN report' : report'[i].section # k) => flags'[k] = C!AskedFlags(k)'
  BY <1>1 DEF Gathered
<1>4. \A s \in C!Valued \cap C!Range(C!Sections) : value'[s] = C!AskedValue(s)'
  BY <1>1 DEF Gathered
<1> QED
  BY <1>2, <1>3, <1>4 DEF Gathered

LEMMA HoldingStays ==
    ASSUME Holding, UNCHANGED <<argv, path>>, clPc # "returned", clPc' # "returned",
           held' \ Apparatus = held \ Apparatus
    PROVE  Holding'
<1>1. C!Strings' = C!Strings /\ \A k : C!AskedOnly(k)' = C!AskedOnly(k)
  BY AskedSame
<1>2. path' = [k \in {"net", "disk"} |-> C!AskedOnly(k)']
  BY <1>1 DEF Holding
<1> QED
  BY <1>1, <1>2 DEF Holding, Apparatus

LEMMA ReportingStays ==
    ASSUME Reporting, UNCHANGED <<argv, sections, next, report>>,
           clPc' \in {"parse", "init", "open"} => next = 0,
           clPc' \in {"fini", "returned"} =>
              \A p \in DOMAIN C!Sections : p > next => C!Sections[p] \notin sections
    PROVE  Reporting'
<1>1. \A s : Expected(s)' = Expected(s)
  BY AskedSame
<1>2. report' \in Seq({ Expected(s)' : s \in C!Range(C!Sections) })
  BY <1>1 DEF Reporting
<1> QED
  BY <1>2 DEF Reporting

\* A collector finds what was asked for in the context, and is the next one in order.
LEMMA CollectKeeps ==
    ASSUME OptionsInv, C!Collect
    PROVE  OptionsInv'
<1> USE DEF OptionsInv
<1>0. Gathered /\ Holding /\ Reporting /\ clPc = "print" /\ clPc' = "print"
  BY DEF C!Collect
<1>1. PICK i \in (next + 1)..Len(C!Sections) :
         LET s == C!Sections[i] IN
         /\ s \in sections
         /\ \A j \in (next + 1)..(i - 1) : C!Sections[j] \notin sections
         /\ next' = i
         /\ flags' = [k \in C!Filtered |-> IF k = s THEN C!Completed(s, flags[s]) ELSE flags[k]]
         /\ report' = Append(report, C!Settings(s))
  BY DEF C!Collect
<1> DEFINE s == C!Sections[i]
<1>2. UNCHANGED <<argv, sections, path, lists, value, held>>
  BY DEF C!Collect
<1>3. i \in 1..23 /\ next \in 0..23 /\ next < i /\ s \in C!Range(C!Sections) /\ C!Place(s) = i
  <2>1. next \in 0..23 /\ Len(C!Sections) = 23
    BY <1>0, SectionsKnown DEF Reporting
  <2>2. i \in 1..23 /\ next < i
    BY <2>1
  <2> QED
    BY <2>1, <2>2, SectionsKnown, PlaceIs
<1>4. /\ \A k : /\ C!Given(k)' = C!Given(k) /\ C!AskedFlags(k)' = C!AskedFlags(k)
                /\ C!AskedList(k)' = C!AskedList(k) /\ C!AskedValue(k)' = C!AskedValue(k)
                /\ C!AskedOnly(k)' = C!AskedOnly(k) /\ Expected(k)' = Expected(k)
      /\ C!Strings' = C!Strings
  BY <1>2, AskedSame
<1>5. PICK n \in Nat : n = Len(report)
  BY <1>0 DEF Reporting
<1>6. /\ DOMAIN report = 1..n /\ DOMAIN report' = 1..(n + 1)
      /\ report'[n + 1] = C!Settings(s) /\ \A j \in 1..n : report'[j] = report[j]
  <2>1. report \in Seq({ Expected(x) : x \in C!Range(C!Sections) })
    BY <1>0 DEF Reporting
  <2> QED
    BY <1>1, <1>5, <2>1
<1>7. ASSUME NEW j \in 1..n
      PROVE  /\ C!Place(report[j].section) <= next /\ C!Place(report[j].section) \in Int
             /\ report[j].section # s
  <2>1. C!Place(report[j].section) <= next
    BY <1>0, <1>6 DEF Reporting
  <2>2. report[j] \in { Expected(x) : x \in C!Range(C!Sections) }
    BY <1>0, <1>6 DEF Reporting
  <2>3. report[j].section \in C!Range(C!Sections)
    BY <2>2 DEF Expected
  <2>4. C!Place(report[j].section) \in Int
    BY <2>3, SectionsKnown, PlaceIs
  <2>5. C!Place(s) = i /\ next < i /\ i \in Int /\ next \in Int
    BY <1>3
  <2> HIDE DEF s
  <2>6. C!Place(report[j].section) # C!Place(s)
    BY ONLY <2>1, <2>4, <2>5
  <2> QED
    BY ONLY <2>1, <2>4, <2>6
<1>8. C!Settings(s) = Expected(s)
  <2>1. s \in C!Filtered => s \in Switchable
    BY <1>3, SectionsKnown DEF Switchable, C!Filtered
  <2>2. s \in C!Filtered => flags[s] = C!AskedFlags(s)
    BY <1>0, <1>6, <1>7, <2>1 DEF Gathered
  <2>3. s \in {"net", "disk"} => path[s] = C!AskedOnly(s)
    BY <1>0 DEF Holding
  <2>4. s \in C!Listed => lists[s] = C!AskedList(s)
    BY <1>0 DEF Gathered
  <2>5. s \in C!Valued => value[s] = C!AskedValue(s)
    BY <1>0, <1>3 DEF Gathered
  <2> HIDE DEF s
  <2> QED
    BY <2>2, <2>3, <2>4, <2>5 DEF C!Settings, Expected
<1>9. C!Settings(s).section = s
  BY DEF C!Settings
<1>10. Gathered'
  <2>1. /\ argv' \in Seq(Arguments)
        /\ sections' = { x \in C!Range(C!Sections) : C!Given(x)' # {} }
        /\ lists' = [k \in C!Listed |-> C!AskedList(k)']
        /\ DOMAIN value' = C!Valued
    BY <1>0, <1>2, <1>4 DEF Gathered
  <2>2. ASSUME NEW k \in Switchable, \A j \in DOMAIN report' : report'[j].section # k
        PROVE  flags'[k] = C!AskedFlags(k)'
    <3>1. k # s
      BY <1>6, <1>9, <2>2
    <3>2. \A j \in DOMAIN report : report[j].section # k
      BY <1>6, <2>2
    <3>3. flags'[k] = flags[k]
      BY <1>1, <3>1 DEF Switchable, C!Filtered
    <3> QED
      BY <1>0, <1>4, <3>2, <3>3 DEF Gathered
  <2>3. \A x \in C!Valued \cap C!Range(C!Sections) : value'[x] = C!AskedValue(x)'
    BY <1>0, <1>2, <1>4 DEF Gathered
  <2>4. DOMAIN flags' = C!Filtered
    BY <1>1
  <2> QED
    BY <2>1, <2>2, <2>3, <2>4 DEF Gathered
<1>11. Holding'
  BY <1>0, <1>2, HoldingStays
<1>12. Reporting'
  <2>1. next' \in 0..Len(C!Sections) /\ clPc' \notin {"parse", "init", "open", "fini", "returned"}
    BY <1>0, <1>1, <1>3, SectionsKnown
  <2>2. report' \in Seq({ Expected(x)' : x \in C!Range(C!Sections) })
    <3>1. report \in Seq({ Expected(x) : x \in C!Range(C!Sections) })
      BY <1>0 DEF Reporting
    <3>2. C!Settings(s) \in { Expected(x) : x \in C!Range(C!Sections) }
      BY <1>3, <1>8
    <3>3. report' \in Seq({ Expected(x) : x \in C!Range(C!Sections) })
      BY <1>1, <3>1, <3>2
    <3> QED
      BY <1>4, <3>3
  <2>3. { report'[j].section : j \in DOMAIN report' }
          = { C!Sections[p] : p \in { q \in 1..next' : C!Sections[q] \in sections' } }
    <3>1. { report[j].section : j \in 1..n }
            = { C!Sections[p] : p \in { q \in 1..next : C!Sections[q] \in sections } }
      BY <1>0, <1>6 DEF Reporting
    <3>2. { q \in 1..i : C!Sections[q] \in sections }
            = { q \in 1..next : C!Sections[q] \in sections } \cup {i}
      <4>1. \A q \in 1..i : q \in 1..next \/ q \in (next + 1)..(i - 1) \/ q = i
        BY <1>3
      <4>2. \A q \in 1..next : q \in 1..i
        BY <1>3
      <4>3. \A q \in (next + 1)..(i - 1) : C!Sections[q] \notin sections
        BY <1>1
      <4>4. i \in 1..i /\ C!Sections[i] \in sections
        BY <1>1, <1>3
      <4> QED
        BY ONLY <4>1, <4>2, <4>3, <4>4
    <3>3. { report'[j].section : j \in 1..(n + 1) } = { report[j].section : j \in 1..n } \cup {s}
      <4>1. \A j \in 1..(n + 1) : j \in 1..n \/ j = n + 1
        BY <1>5
      <4>2. n + 1 \in 1..(n + 1) /\ \A j \in 1..n : j \in 1..(n + 1)
        BY <1>5
      <4>3. /\ report'[n + 1].section = s
            /\ \A j \in 1..n : report'[j].section = report[j].section
        BY <1>6, <1>9
      <4> HIDE DEF s
      <4> QED
        BY <4>1, <4>2, <4>3
    <3>4. { C!Sections[p] : p \in { q \in 1..i : C!Sections[q] \in sections } }
            = { C!Sections[p] : p \in { q \in 1..next : C!Sections[q] \in sections } } \cup {s}
      BY <3>2
    <3> HIDE DEF s
    <3>5. { report'[j].section : j \in 1..(n + 1) }
            = { C!Sections[p] : p \in { q \in 1..i : C!Sections[q] \in sections } }
      BY <3>1, <3>3, <3>4
    <3>6. next' = i /\ sections' = sections /\ DOMAIN report' = 1..(n + 1)
      BY <1>1, <1>2, <1>6
    <3> QED
      BY <3>5, <3>6
  <2>4. \A j \in DOMAIN report' : C!Place(report'[j].section) <= next'
    <3>1. ASSUME NEW j \in 1..(n + 1) PROVE C!Place(report'[j].section) <= i
      <4>1. CASE j \in 1..n
        BY <1>3, <1>6, <1>7, <4>1
      <4>2. CASE j = n + 1
        BY <1>3, <1>6, <1>9, <4>2
      <4> QED
        BY <1>5, <4>1, <4>2
    <3> QED
      BY <1>1, <1>6, <3>1
  <2>5. \A j, l \in DOMAIN report' :
           j < l => C!Place(report'[j].section) < C!Place(report'[l].section)
    <3>1. ASSUME NEW j \in 1..(n + 1), NEW l \in 1..(n + 1), j < l
          PROVE  C!Place(report'[j].section) < C!Place(report'[l].section)
      <4>1. j \in 1..n
        BY <1>5, <3>1
      <4>2. CASE l \in 1..n
        BY <1>0, <1>6, <3>1, <4>1, <4>2 DEF Reporting
      <4>3. CASE l = n + 1
        <5>1. C!Place(report'[l].section) = i
          BY <1>3, <1>6, <1>9, <4>3
        <5>2. C!Place(report'[j].section) < i
          BY <1>3, <1>6, <1>7, <4>1
        <5> QED
          BY <5>1, <5>2
      <4> QED
        BY <1>5, <4>2, <4>3
    <3> QED
      BY <1>6, <3>1
  <2> QED
    BY <2>1, <2>2, <2>3, <2>4, <2>5 DEF Reporting
<1> QED
  BY <1>10, <1>11, <1>12
\* The steps around the options and the collectors.
LEMMA StepsKeep ==
    ASSUME OptionsInv, C!ParseDone \/ C!NW_Init \/ C!OpenOutput \/ C!NW_Export
    PROVE  OptionsInv'
<1> SUFFICES ASSUME clPc' # "exited" PROVE Gathered' /\ Holding' /\ Reporting'
  BY DEF OptionsInv
<1>1. Gathered /\ Holding /\ Reporting
  BY DEF OptionsInv, C!ParseDone, C!NW_Init, C!OpenOutput, C!NW_Export
<1>2. /\ DOMAIN flags = C!Filtered /\ DOMAIN value = C!Valued
      /\ "cp" \notin C!Range(C!Sections) /\ Switchable \in SUBSET (C!Filtered \ {"smart"})
  BY <1>1, SectionsKnown DEF Gathered, Switchable, C!Filtered
<1>3. CASE C!ParseDone
  <2> USE DEF C!ParseDone
  <2>1. DOMAIN value' = C!Valued
        /\ \A x \in C!Valued \cap C!Range(C!Sections) : value'[x] = value[x]
    <3>1. \E page : value' = [value EXCEPT !.cp = page] \/ value' = value
      BY <1>3
    <3> QED
      BY <1>2, <3>1
  <2>2. Gathered'
    BY <1>1, <1>2, <1>3, <2>1, GatheredStays
  <2>3. Holding'
    BY <1>1, <1>3, HoldingStays
  <2>4. next = 0
    BY <1>1, <1>3 DEF Reporting
  <2>5. Reporting'
    BY <1>1, <1>3, <2>4, ReportingStays
  <2> QED
    BY <2>2, <2>3, <2>5
<1>4. CASE C!NW_Init
  <2> USE DEF C!NW_Init
  <2>1. DOMAIN flags' = C!Filtered /\ \A k \in Switchable : flags'[k] = flags[k]
    BY <1>2, <1>4
  <2>2. Gathered'
    BY <1>1, <1>2, <1>4, <2>1, GatheredStays
  <2>3. held' \ Apparatus = held \ Apparatus
    BY <1>4 DEF Apparatus
  <2>4. Holding'
    BY <1>1, <1>4, <2>3, HoldingStays
  <2>5. next = 0
    BY <1>1, <1>4 DEF Reporting
  <2>6. Reporting'
    BY <1>1, <1>4, <2>5, ReportingStays
  <2> QED
    BY <2>2, <2>4, <2>6
<1>5. CASE C!OpenOutput
  <2> USE DEF C!OpenOutput
  <2>1. clPc' = "print"
    BY <1>5
  <2>2. Gathered'
    BY <1>1, <1>2, <1>5, GatheredStays
  <2>3. held' \ Apparatus = held \ Apparatus
    BY <1>5 DEF Apparatus
  <2>4. Holding'
    BY <1>1, <1>5, <2>1, <2>3, HoldingStays
  <2>5. Reporting'
    BY <1>1, <1>5, <2>1, ReportingStays
  <2> QED
    BY <2>2, <2>4, <2>5
<1>6. CASE C!NW_Export
  <2> USE DEF C!NW_Export
  <2>1. Gathered'
    BY <1>1, <1>2, <1>6, GatheredStays
  <2>2. Holding'
    BY <1>1, <1>6, HoldingStays
  <2>3. next \in 0..23 /\ Len(C!Sections) = 23 /\ DOMAIN C!Sections = 1..23
    BY <1>1, SectionsKnown DEF Reporting
  <2>4. \A p \in DOMAIN C!Sections : p > next => C!Sections[p] \notin sections
    BY <1>6, <2>3
  <2>5. Reporting'
    BY <1>1, <1>6, <2>4, ReportingStays
  <2> QED
    BY <2>1, <2>2, <2>5
<1> QED
  BY <1>3, <1>4, <1>5, <1>6

\* Of the strings, those a later option replaced are left.
LEMMA FiniKeeps ==
    ASSUME OptionsInv, C!NW_Fini
    PROVE  OptionsInv'
<1> USE DEF C!NW_Fini
<1>1. Gathered /\ Holding /\ Reporting
  BY DEF OptionsInv
<1>2. Gathered'
  BY <1>1, GatheredStays DEF Gathered
<1>3. Reporting'
  BY <1>1, ReportingStays DEF Reporting
<1>4. /\ path = [k \in {"net", "disk"} |-> C!AskedOnly(k)] /\ held \ Apparatus = C!Strings
      /\ argv \in Seq(Arguments)
  BY <1>1 DEF Holding, Gathered
<1>5. ASSUME NEW k \in {"net", "disk"}, NEW h
      PROVE  h \in C!Current(k)
               <=> h \in C!Strings /\ h[1] = k /\ h[2] = C!GivenLast(k)
  <2>1. path[k] = C!AskedOnly(k)
    BY <1>4
  <2>2. C!Current(k) = { <<k, i>> : i \in { j \in C!Given(k) : path[k] # None
                                             /\ \A l \in C!Given(k) : l <= j } }
    BY DEF C!Current, C!Given
  <2>3. CASE C!Given(k) = {}
    <3>1. C!Current(k) = {}
      BY <2>2, <2>3
    <3>2. h \in C!Strings => h[2] \in C!Given(h[1])
      BY DEF C!Strings
    <3> QED
      BY <2>3, <3>1, <3>2
  <2>4. CASE C!Given(k) # {}
    <3>1. /\ C!GivenLast(k) \in C!Given(k)
          /\ \A j \in C!Given(k) : j <= C!GivenLast(k)
          /\ C!Given(k) \in SUBSET Int
      <4>1. C!Given(k) \in SUBSET Int
        BY <1>4 DEF C!Given
      <4> QED
        BY <1>4, <2>4, <4>1, LastGiven
    <3>2. PICK m : m = C!GivenLast(k)
      OBVIOUS
    <3>3. \A j \in C!Given(k) : (\A l \in C!Given(k) : l <= j) <=> j = m
      BY <3>1, <3>2
    <3>4. path[k] = C!Returned(k, argv[m].items)
      BY <2>1, <2>4, <3>2 DEF C!AskedOnly
    <3>5. h \in C!Current(k) <=> h = <<k, m>> /\ C!Returned(k, argv[m].items) # None
      BY <2>2, <3>1, <3>2, <3>3, <3>4
    <3>6. h \in C!Strings
            <=> /\ h \in {"net", "disk"} \X DOMAIN argv
                /\ h[2] \in C!Given(h[1]) /\ C!Returned(h[1], argv[h[2]].items) # None
      BY DEF C!Strings
    <3>7. m \in DOMAIN argv
      BY <3>1, <3>2 DEF C!Given
    <3>8. ASSUME h \in C!Current(k)
          PROVE  h \in C!Strings /\ h[1] = k /\ h[2] = m
      <4>1. h = <<k, m>> /\ h[1] = k /\ h[2] = m /\ C!Returned(k, argv[m].items) # None
        BY <3>5, <3>8
      <4> QED
        BY <3>1, <3>2, <3>6, <3>7, <4>1
    <3>9. ASSUME h \in C!Strings, h[1] = k, h[2] = m
          PROVE  h \in C!Current(k)
      <4>1. h = <<h[1], h[2]>> /\ C!Returned(h[1], argv[h[2]].items) # None
        BY <3>6, <3>9
      <4> QED
        BY <3>5, <3>9, <4>1
    <3> QED
      BY <3>2, <3>8, <3>9
  <2> QED
    BY <2>3, <2>4
<1>6. held' = (held \ Apparatus) \ (C!Current("net") \cup C!Current("disk"))
  BY DEF Apparatus
<1>7. held' = C!Replaced
  <2>1. ASSUME NEW h
        PROVE  h \in held' <=> h \in C!Strings /\ h \notin C!Current("net")
                                               /\ h \notin C!Current("disk")
    BY <1>4, <1>6
  <2>2. ASSUME NEW h \in C!Strings
        PROVE  h[1] \in {"net", "disk"}
    BY DEF C!Strings
  <2>3. ASSUME NEW h
        PROVE  h \in held' <=> h \in C!Strings /\ h[2] # C!GivenLast(h[1])
    <3>1. CASE h \in C!Strings
      BY <1>5, <2>1, <2>2, <3>1
    <3>2. CASE h \notin C!Strings
      BY <2>1, <3>2
    <3> QED
      BY <3>1, <3>2
  <2> QED
    BY <2>3 DEF C!Replaced
<1>8. C!Replaced' = C!Replaced
  BY AskedSame
<1>9. Holding'
  BY <1>7, <1>8 DEF Holding
<1> QED
  BY <1>2, <1>3, <1>9 DEF OptionsInv

----------------------------------------------------------------------------
(* The options: the theorem.                                                *)

LEMMA OptionsKept == C!Spec => []OptionsInv
<1>1. OptionsInv /\ [C!Next]_C!vars => OptionsInv'
  <2> SUFFICES ASSUME OptionsInv, [C!Next]_C!vars PROVE OptionsInv'
    OBVIOUS
  <2>1. ASSUME NEW o \in Arguments, C!ParseOption(o) PROVE OptionsInv'
    BY <2>1, OptionKeeps
  <2>2. ASSUME NEW o \in Arguments, C!ParseStop(o) PROVE OptionsInv'
    BY <2>2 DEF C!ParseStop, OptionsInv
  <2>3. CASE C!ParseDone \/ C!NW_Init \/ C!OpenOutput \/ C!NW_Export
    BY <2>3, StepsKeep
  <2>4. CASE C!Collect
    BY <2>4, CollectKeeps
  <2>5. CASE C!NW_Fini
    BY <2>5, FiniKeeps
  <2>6. CASE C!Ended \/ UNCHANGED C!vars
    <3>1. UNCHANGED <<clPc, argv, sections, flags, path, lists, value, next, report, held>>
      BY <2>6 DEF C!Ended, C!vars
    <3>2. CASE clPc = "exited"
      BY <3>1, <3>2 DEF OptionsInv
    <3>3. CASE clPc # "exited"
      <4>1. Gathered /\ Holding /\ Reporting
        BY <3>3 DEF OptionsInv
      <4>2. Gathered'
        BY <3>1, <4>1, GatheredStays DEF Gathered
      <4>3. Holding'
        <5>1. C!Strings' = C!Strings /\ C!Replaced' = C!Replaced
              /\ \A k : C!AskedOnly(k)' = C!AskedOnly(k)
          BY <3>1, AskedSame
        <5> QED
          BY <3>1, <4>1, <5>1 DEF Holding, Apparatus
      <4>4. Reporting'
        BY <3>1, <4>1, ReportingStays DEF Reporting
      <4> QED
        BY <4>2, <4>3, <4>4 DEF OptionsInv
    <3> QED
      BY <3>2, <3>3
  <2> QED
    BY <2>1, <2>2, <2>3, <2>4, <2>5, <2>6 DEF C!Next
<1> QED
  BY StartsBare, <1>1, PTL DEF C!Spec

\* DoneAsAsked (libnw.c:129, nwinfo.c:340, 464): whatever the command line, a program that
\* returned has called the collectors asked for once each and in their order, every one of
\* them saw all that the options of its name said together, and all but the replaced
\* strings was given back.
THEOREM ReportedAsAsked == C!Spec => []DoneAsAsked
<1>1. OptionsInv => DoneAsAsked
  <2> SUFFICES ASSUME OptionsInv, clPc = "returned"
               PROVE  /\ { report[i].section : i \in DOMAIN report }
                            = { s \in C!Range(C!Sections) : C!Given(s) # {} }
                      /\ \A i, j \in DOMAIN report :
                            i < j => C!Place(report[i].section) < C!Place(report[j].section)
                      /\ \A i \in DOMAIN report : report[i] = Expected(report[i].section)
                      /\ held = C!Replaced
    BY DEF DoneAsAsked, C!DoneAsAsked, Expected
  <2>1. Gathered /\ Holding /\ Reporting
    BY DEF OptionsInv
  <2>2. /\ next \in 0..23 /\ DOMAIN C!Sections = 1..23
        /\ \A p \in 1..23 : p > next => C!Sections[p] \notin sections
    BY <2>1, SectionsKnown DEF Reporting
  <2>3. { C!Sections[p] : p \in { q \in 1..next : C!Sections[q] \in sections } } = sections
    <3>1. \A s \in sections : \E p \in 1..23 : s = C!Sections[p]
      BY <2>1, SectionsKnown DEF Gathered
    <3>2. \A p \in 1..23 : C!Sections[p] \in sections => p \in 1..next
      BY <2>2
    <3> QED
      BY <3>1, <3>2
  <2>4. { report[i].section : i \in DOMAIN report }
          = { s \in C!Range(C!Sections) : C!Given(s) # {} }
    BY <2>1, <2>3 DEF Reporting, Gathered
  <2>5. ASSUME NEW i \in DOMAIN report PROVE report[i] = Expected(report[i].section)
    <3>1. report[i] \in { Expected(s) : s \in C!Range(C!Sections) }
      BY <2>1 DEF Reporting
    <3>2. \A s : Expected(s).section = s
      BY DEF Expected
    <3> QED
      BY <3>1, <3>2
  <2> QED
    BY <2>1, <2>4, <2>5 DEF Reporting, Holding
<1> QED
  BY OptionsKept, <1>1, PTL

----------------------------------------------------------------------------
(* The memory modules: a board with DDR5 hubs.                              *)

\* MCSpdPaging.H with the theorems of SpdPagingProofs.
Hub == INSTANCE SpdPagingProofs WITH
          Ops <- BothOps, LastSlot <- 1, Module <- AllDDR5, Byte11 <- Zero,
          HubPages <- {0, 1, 4, 5, 6}, MaxTimeouts <- 0, MaxCrashes <- 1, MaxFaults <- 0,
          proc <- hProc, owner <- hOwner, page4 <- hPage4, reg11 <- hReg11,
          crashes <- hCrashes, faults <- hFaults, timeouts <- hTimeouts,
          late <- hLate, disturbed <- hDisturbed

LEMMA HubStarts == H!Init => Hub!Init
  BY DEF H!Init, Hub!Init, H!Started, Hub!Started, H!Slot, Hub!Slot, H!Unset, Hub!Unset

LEMMA HubGoesOn == H!Next => Hub!Next
<1>1. ASSUME NEW p, NEW op, H!Begin(p, op) PROVE Hub!Begin(p, op)
  BY <1>1 DEF H!Begin, Hub!Begin, H!Slot, Hub!Slot, H!Page, Hub!Page, H!Unset, Hub!Unset, H!Started,
     Hub!Started, H!Become, Hub!Become, H!counts, Hub!counts, H!race, Hub!race
<1>2. ASSUME NEW p, H!Wait(p) \/ H!Release(p) \/ H!Restart(p) PROVE Hub!Wait(p) \/ Hub!Release(p) \/ Hub!Restart(p)
  BY <1>2 DEF H!Wait, Hub!Wait, H!Release, Hub!Release, H!Restart, Hub!Restart, H!Slot, Hub!Slot,
     H!Page, Hub!Page, H!Unset, Hub!Unset, H!Started, Hub!Started, H!Become, Hub!Become, H!counts,
     Hub!counts, H!race, Hub!race, H!NextSlot, Hub!NextSlot, H!AtRest, Hub!AtRest, H!Fail, Hub!Fail,
     H!Detected, Hub!Detected, H!Undetected, Hub!Undetected
<1>3. ASSUME NEW p, H!Quick(p) \/ H!Type4(p) \/ H!ReadMR11(p) \/ H!Type5(p) \/ H!Plain(p)
      PROVE  Hub!Quick(p) \/ Hub!Type4(p) \/ Hub!ReadMR11(p) \/ Hub!Type5(p) \/ Hub!Plain(p)
  BY <1>3 DEF H!Quick, Hub!Quick, H!Type4, Hub!Type4, H!ReadMR11, Hub!ReadMR11, H!Type5, Hub!Type5,
     H!Plain, Hub!Plain, H!TypeAt, Hub!TypeAt, H!ReadReg11, Hub!ReadReg11, H!Slot, Hub!Slot, H!Page,
     Hub!Page, H!Unset, Hub!Unset, H!Started, Hub!Started, H!Become, Hub!Become, H!counts, Hub!counts,
     H!race, Hub!race, H!Present, Hub!Present, H!AnyDDR4, Hub!AnyDDR4, H!Outcome, Hub!Outcome,
     H!NextSlot, Hub!NextSlot, H!AtRest, Hub!AtRest, H!Fail, Hub!Fail, H!Detected, Hub!Detected,
     H!Undetected, Hub!Undetected
<1>4. ASSUME NEW p, H!Read(p) \/ H!RawRead(p) \/ H!SensorRead(p)
      PROVE  Hub!Read(p) \/ Hub!RawRead(p) \/ Hub!SensorRead(p)
  BY <1>4 DEF H!Read, Hub!Read, H!RawRead, Hub!RawRead, H!SensorRead, Hub!SensorRead, H!TypeAt,
     Hub!TypeAt, H!Advance, Hub!Advance, H!Pages, Hub!Pages, H!Slot, Hub!Slot, H!Page, Hub!Page,
     H!Unset, Hub!Unset, H!Started, Hub!Started, H!Become, Hub!Become, H!counts, Hub!counts, H!race,
     Hub!race, H!Present, Hub!Present, H!AnyDDR4, Hub!AnyDDR4, H!Outcome, Hub!Outcome, H!NextSlot,
     Hub!NextSlot, H!AtRest, Hub!AtRest, H!Fail, Hub!Fail, H!Detected, Hub!Detected, H!Undetected,
     Hub!Undetected
<1>5. ASSUME NEW p, NEW proto, NEW n, NEW ok, H!SetPage(p, proto, n, ok) PROVE Hub!SetPage(p, proto, n, ok)
  BY <1>5 DEF H!SetPage, Hub!SetPage, H!SetDDR4Page, Hub!SetDDR4Page, H!SetDDR5Page,
     Hub!SetDDR5Page, H!Redundant, Hub!Redundant, H!Outside, Hub!Outside, H!Reads, Hub!Reads,
     H!Disturbs, Hub!Disturbs, H!Slot, Hub!Slot, H!Page, Hub!Page, H!Unset, Hub!Unset, H!Started,
     Hub!Started, H!Become, Hub!Become, H!counts, Hub!counts, H!race, Hub!race, H!Present, Hub!Present,
     H!AnyDDR4, Hub!AnyDDR4, H!Outcome, Hub!Outcome
<1>6. ASSUME NEW p, H!Set4(p) \/ H!Set5(p) \/ H!Select(p) PROVE Hub!Set4(p) \/ Hub!Set5(p) \/ Hub!Select(p)
  BY <1>5, <1>6 DEF H!Set4, Hub!Set4, H!Set5, Hub!Set5, H!Select, Hub!Select, H!Slot, Hub!Slot,
     H!Page, Hub!Page, H!Unset, Hub!Unset, H!Started, Hub!Started, H!Become, Hub!Become, H!counts,
     Hub!counts, H!race, Hub!race, H!NextSlot, Hub!NextSlot, H!AtRest, Hub!AtRest, H!Fail, Hub!Fail,
     H!Detected, Hub!Detected, H!Undetected, Hub!Undetected
<1>7. ASSUME NEW p, H!Home(p) \/ H!SensorSelect(p) \/ H!Temperature(p) \/ H!Poll(p)
      PROVE  Hub!Home(p) \/ Hub!SensorSelect(p) \/ Hub!Temperature(p) \/ Hub!Poll(p)
  BY <1>5, <1>7 DEF H!Home, Hub!Home, H!SensorSelect, Hub!SensorSelect, H!Temperature,
     Hub!Temperature, H!Poll, Hub!Poll, H!Slot, Hub!Slot, H!Page, Hub!Page, H!Unset, Hub!Unset,
     H!Started, Hub!Started, H!Become, Hub!Become, H!counts, Hub!counts, H!race, Hub!race, H!NextSlot,
     Hub!NextSlot, H!AtRest, Hub!AtRest, H!Fail, Hub!Fail, H!Detected, Hub!Detected, H!Undetected,
     Hub!Undetected
<1> QED
  BY <1>1, <1>2, <1>3, <1>4, <1>6, <1>7 DEF H!Step, Hub!Step, H!Next, Hub!Next

\* The constants of the board are what SpdPaging assumes of them.
LEMMA HubBoard ==
    /\ \A p \in Procs : BothOps(p) \subseteq {"spd", "sensors"}
    /\ 1 \in 0..7
    /\ \A s \in Hub!Slot : AllDDR5(s) \in {"DDR4", "DDR5", "flat", "empty"}
    /\ \A s \in Hub!Slot : Zero(s) \in Hub!Page
    /\ {0, 1, 4, 5, 6} \subseteq Hub!Page /\ 0 \in {0, 1, 4, 5, 6}
    /\ 1 \in Nat /\ 0 \in Nat
    /\ Hub!OneKind
<1>1. \A s \in Hub!Slot : AllDDR5(s) = "DDR5"
  BY DEF AllDDR5
<1>2. Hub!OneKind
  BY <1>1 DEF Hub!OneKind, Hub!AnyDDR4
<1>3. \A s \in Hub!Slot : Zero(s) \in Hub!Page
  BY DEF Zero, Hub!Page
<1>4. {0, 1, 4, 5, 6} \subseteq Hub!Page /\ 0 \in {0, 1, 4, 5, 6}
  BY DEF Hub!Page
<1>5. \A p \in Procs : BothOps(p) \subseteq {"spd", "sensors"}
  BY DEF BothOps
<1> QED
  BY <1>1, <1>2, <1>3, <1>4, <1>5

\* Recognised for a board with hubs (SM_GetSpd, smbus.c:392-394): whatever the processes, whatever the
\* modules of the other board and whatever byte 130 would say, as long as no wait for the mutex
\* is given up a hub is never read as a device without pages, although a process ends anywhere
\* and leaves another page selected.
THEOREM HubsStayRecognised == MCSpec => []HubsRecognised
<1>1. MCInit => Hub!Init
  BY HubStarts DEF MCInit
<1>2. [MCNext]_<<board, vars, hubVars>> => [Hub!Next]_(Hub!vars)
  BY HubGoesOn DEF MCNext, hubVars, Hub!vars
<1>3. MCSpec => Hub!Spec
  BY <1>1, <1>2, PTL DEF MCSpec, Hub!Spec
<1>4. \A p \in Procs : BothOps(p) \subseteq {"spd", "sensors"}
  BY HubBoard
<1>5. 1 \in 0..7
  OBVIOUS
<1>6. \A s \in Hub!Slot : AllDDR5(s) \in {"DDR4", "DDR5", "flat", "empty"}
  BY HubBoard
<1>7. \A s \in Hub!Slot : Zero(s) \in Hub!Page
  BY HubBoard
<1>8. {0, 1, 4, 5, 6} \subseteq Hub!Page /\ 0 \in {0, 1, 4, 5, 6}
  BY HubBoard
<1>9. 1 \in Nat /\ 0 \in Nat
  BY HubBoard
<1>10. Hub!OneKind
  BY HubBoard
<1>11. Hub!Spec => []Hub!Recognised
  BY <1>4, <1>5, <1>6, <1>7, <1>8, <1>9, <1>10, FreeAssumption, Byte130Assumption,
     Hub!ModulesAreRecognised
<1>12. Hub!Recognised => HubsRecognised
  BY DEF Hub!Recognised, HubsRecognised, H!Recognised
<1> QED
  BY <1>3, <1>11, <1>12, PTL
================================================================================
